CONSTANTS
  Servers = {stdio, ui}
  Evicting = {stdio}
  Runners = {watcher}
  Inodes <- MCInodes
  MaxEdits = 1
  MaxCalls = 4
  MaxKills = 1
SPECIFICATION Spec
INVARIANTS  DeleteSticks
PROPERTIES ServedWhole  StaleLetGo
CHECK_DEADLOCK FALSE
