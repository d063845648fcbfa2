SPECIFICATION Spec
CONSTANTS
  MaxWallets = 2
  MaxRefreshes = 2
  MaxEntries = 2
PROPERTIES
  ReadsAreAlive
