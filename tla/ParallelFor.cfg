CONSTANTS
  Count = 4
  NWorkers = 3
SPECIFICATION Spec
PROPERTIES VisitsEachOnce Returns
CHECK_DEADLOCK FALSE
