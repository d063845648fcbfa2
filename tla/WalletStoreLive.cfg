SPECIFICATION FairSpec
CONSTANTS
  Files = {f1}
  Passwords = {empty}
  EmptyPassword = empty
  Nil = Nil
  Tip = 1
  Birth = 0
  RestoreHeights = {0}
  MaxWallets = 2
PROPERTIES
  ActiveWalletStarts
  RecoveryFlagCleared
  StoredCatchesUp
CHECK_DEADLOCK FALSE
