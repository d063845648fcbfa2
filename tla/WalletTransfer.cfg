SPECIFICATION Spec
CONSTANTS
  Word = 100
  Addresses = {"own", "dust", "null", "bob", "eve"}
  Transfers <- MCTransfers
  Destinations <- MCDestinations
  Fees = {1, 3}
  Mixins = {0, 2}
  DustLimits = {0, 6}
  Digits = 2
  Answers <- MCAnswers
INVARIANTS
  TypeOK
  Balanced
  PaidAsAsked
  Covered
  RingsWellFormed
CHECK_DEADLOCK FALSE
