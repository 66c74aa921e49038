SPECIFICATION Spec
CONSTANTS
  Tracks = {a, b}
  Statuses = {"playing", "paused"}
  Batteries = {normal}
  Settings = {off, on}
  Registrable = {1, 2, 5, 8}
  MaxTid = 1
  MaxCommands = 2
  MaxChanges = 2
  MaxQueue = 2
  MaxRestarts = 1
SYMMETRY TrackSymmetry
INVARIANTS TypeOK MetadataConverges ChangedStatusIsCurrent
PROPERTIES EchoesCommandTid
CHECK_DEADLOCK FALSE
