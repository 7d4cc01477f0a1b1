CONSTANTS
  NFiles = 2
  NSlots = 2
  Sorted <- LargestFirst
  FileQn <- FileNames
  Extracts <- Definitions
  Registers <- Defines
  Resolves <- Calls
  Infra <- InfraRoutes
SPECIFICATION Spec
INVARIANTS IdsUnique SameAsSequential DoneIsComplete
CHECK_DEADLOCK FALSE
