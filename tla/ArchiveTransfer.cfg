CONSTANTS
  h1 = h1
  h2 = h2
  n1 = n1
  n2 = n2
  NoOne = NoOne
  Helpers = {h1, h2}
  Remote = {h1}
  Names = {n1, n2}
  NameOf <- TwoNames
  Size = 2
  MaxDeletes = 1
  MaxRestarts = 1
  MaxPowerLosses = 1
SPECIFICATION FairSpec
CHECK_DEADLOCK FALSE
INVARIANTS
  TypeOK
  NoLitter
PROPERTIES
  StoreSpec
  GoodIsStored
  UploadsEnd
