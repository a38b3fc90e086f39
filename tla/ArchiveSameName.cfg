CONSTANTS
  h1 = h1
  h2 = h2
  n1 = n1
  n2 = n2
  NoOne = NoOne
  Helpers = {h1, h2}
  Remote = {h1, h2}
  Names = {n1}
  NameOf <- OneName
  Size = 2
  MaxDeletes = 0
  MaxRestarts = 0
  MaxPowerLosses = 0
SPECIFICATION Spec
CHECK_DEADLOCK FALSE
PROPERTIES
  GoodIsStored
