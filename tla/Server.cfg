CONSTANTS
  Scripts <- MCScripts
  BufCap = 4
  AutoIndex = TRUE
  MaxSignals = 1
SPECIFICATION Spec
INVARIANTS EachInOrder 
PROPERTIES AllHandled 
CHECK_DEADLOCK FALSE
