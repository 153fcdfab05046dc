CONSTANTS
  Addresses = {a1, a2}
  WasmHashes = {w1, w2, w3}
  NoUpgrade = NoUpgrade
  UpgradeDelay = 2
  MaxTimestamp = 7
  MaxTime = 6
SPECIFICATION Spec
PROPERTY UpgradeHasFullNotice
SYMMETRY Interchangeable
CHECK_DEADLOCK FALSE
