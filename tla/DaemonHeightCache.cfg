SPECIFICATION Spec
CONSTANTS
  HeightTtl = 1
  TargetTtl = 6
  RpcMax = 2
  MaxTime = 9
  MaxSet = 0
  MaxHeight = 2
INVARIANT CachedForSixtySeconds
