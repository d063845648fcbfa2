SPECIFICATION Spec
CONSTANT Word = 256
INVARIANTS
  TypeOK
  NothingLost
  OneDust
CHECK_DEADLOCK FALSE
