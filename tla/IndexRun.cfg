CONSTANTS
  main = main
  lib = lib
  tool = tool
  Files <- Three
  FastSkipped <- Tools
  Calls <- AllCalls
  MaxEdits = 3
  MaxCancels = 1
  MaxKills = 1
  MaxIoErrors = 1
SPECIFICATION Spec
INVARIANTS RowsVouch  EdgesJoinNodes
PROPERTIES  RunRefreshes 
