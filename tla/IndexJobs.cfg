SPECIFICATION FairUiSpec
CONSTANTS
  NSlots = 2
  RingSize = 2
  MaxJobs = 2
  MaxLines = 2
INVARIANTS  LogIsComplete RingShowsNewest
PROPERTY ClosedWhenEnded
CHECK_DEADLOCK FALSE
