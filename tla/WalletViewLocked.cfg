SPECIFICATION FairSpec
CONSTANTS
  RefreshLocked = TRUE
  Tip = 1
  MaxWallets = 1
  MaxDepth = 2
  MaxQueue = 2
PROPERTIES
  RefreshReported
