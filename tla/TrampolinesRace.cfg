SPECIFICATION Spec
CONSTANTS
  Tracks = {a, b}
  Statuses = {"playing"}
  Batteries = {normal}
  Settings = {off}
  Registrable = {2}
  MaxTid = 0
  MaxCommands = 2
  MaxChanges = 3
  MaxQueue = 2
  MaxRestarts = 0
INVARIANTS NoEdgeLostToRaces

CHECK_DEADLOCK FALSE
