SPECIFICATION Spec
CONSTANTS
  MaxAmount = 2
  MaxPending = 3
INVARIANT
  FailedTransactionDeleted
