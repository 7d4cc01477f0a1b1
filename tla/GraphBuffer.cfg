CONSTANTS
  Names = {"x", "y"}
  Definitions <- MCDefinitions
  Sources = {"h", "c"}
  Labels = {"Class", "Function"}
  Usages <- MCUsages
  Workers = {w1, w2}
  Databases <- MCDatabases
  Null = Null
  MaxIds = 4
SPECIFICATION GraphSpec
INVARIANT IndexesAgree
PROPERTY IsAGraph
