SPECIFICATION ArtifactSpec
CONSTANTS
  rpc = rpc
  auto = auto
  None = None
  Clients = {rpc, auto}
  Importer = rpc
  MaxCalls = 4
  MaxEdits = 1
  MaxPulls = 1
  MaxKills = 2
INVARIANTS  InstalledWasExported
CHECK_DEADLOCK FALSE
