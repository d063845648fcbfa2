SPECIFICATION Spec
CONSTANTS
  MaxWallets = 4
  MaxRefreshes = 2
  MaxEntries = 2
INVARIANTS
  TypeOK
  AtMostOneBehind
