CONSTANTS
  MaxSchedulePoints = 3
  MaxUnitPrice = 7
  MaxQty = 3
  BpsDenom = 10
  Prices = {2, 5, 7}
  ThresholdQtys = {0, 2, 4}
  ThresholdValues = {0, 3, 8, 15}
  FeeRates = {0, 3}
  MaxKids = 2
  Inputs <- MCInputs
SPECIFICATION FairSpec
INVARIANTS LeastFeasiblePrice ScanImplementsClear
PROPERTY SearchTerminates
CHECK_DEADLOCK FALSE
