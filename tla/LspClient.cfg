CONSTANTS
  NFiles = 2
  MAX_POLL_FIRST = 2
  MAX_POLL_NORMAL = 1
  FirstFiles = 1
  MaxReads = 2
  PipeIgnored = TRUE
  MaxNotes = 1
  MaxCrashes = 1
SPECIFICATION Spec
INVARIANTS AnswersAsked InStep NoOrphan
 
CHECK_DEADLOCK FALSE
