SPECIFICATION Spec
CONSTANTS
  Files = {f1, f2}
  Passwords = {empty, secret}
  EmptyPassword = empty
  Nil = Nil
  Tip = 2
  Birth = 1
  RestoreHeights = {0, 1}
  MaxWallets = 2
INVARIANT
  ActiveWalletOpened
CHECK_DEADLOCK FALSE
