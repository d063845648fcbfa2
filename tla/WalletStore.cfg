SPECIFICATION Spec
CONSTANTS
  Files = {f1, f2}
  Passwords = {empty, secret}
  EmptyPassword = empty
  Nil = Nil
  Tip = 1
  Birth = 1
  RestoreHeights = {0, 3}
  MaxWallets = 2
INVARIANTS
  TypeOK
  RelaunchReopens
  LoginOnlyWhenUnbound
  SendNeverTraps
  ShownIsCurrent
  EnginesBacked
PROPERTIES
  BoundForever
  SendKeepsWallet
  ImplementsSession
CHECK_DEADLOCK FALSE
