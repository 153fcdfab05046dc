CONSTANTS
  c1 = c1
  safe = safe
  other = other
  usd = usd
  v2 = v2
  v3 = v3
  Nobody = Nobody
  Controllers = {c1}
  Accounts = {safe, other}
  Principals = {c1, safe, other}
  Listable = {usd}
  WasmHashes = {v2, v3}
  Operations = {1, 2, 3, 4}
  ActionOf <- TimelockActions
  PredecessorOf <- TimelockOrder
  NoOperation = 0
  Delay = 2
  MaxSequence = 5
  MaxLedger = 5
SPECIFICATION Spec
INVARIANTS PredecessorsFirst NominationIsNoticed ControlIsAdopted
PROPERTIES ChangesAreNoticed OperationsRunOnce RetirementIsFinal
CHECK_DEADLOCK FALSE
