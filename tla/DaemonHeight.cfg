SPECIFICATION Spec
CONSTANTS
  HeightTtl = 1
  TargetTtl = 2
  RpcMax = 1
  MaxTime = 6
  MaxSet = 1
  MaxHeight = 2
INVARIANTS
  TypeOK
  BoundedStaleness
  CallsAreSpaced
