SPECIFICATION FairSpec
CONSTANTS
  RefreshLocked = FALSE
  Tip = 2
  MaxWallets = 2
  MaxDepth = 2
  MaxQueue = 2
INVARIANTS
  TypeOK
  LabelsOfShown
PROPERTIES
  LabelsCatchUp
