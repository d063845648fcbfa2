SPECIFICATION Spec
CONSTANTS
  Word = 100
  Addresses = {"own", "dust", "null", "bob", "eve"}
  Transfers <- MCTransfers
  Destinations <- MCDestinations
  Fees = {1}
  Mixins = {2}
  DustLimits = {0}
  Digits = 2
  Answers <- MCAnswers
INVARIANT RingsAreFull
CHECK_DEADLOCK FALSE
