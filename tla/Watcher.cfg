CONSTANTS
  Scenarios <- All
  MaxChanges = 3
  MaxRuns = 1
  MaxFailures = 1
  MaxWatches = 2
SPECIFICATION Spec
PROPERTIES ChangesGetIndexed  WatcherStops 
CHECK_DEADLOCK FALSE
