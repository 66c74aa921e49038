SPECIFICATION FairSpec
CONSTANTS
  Tracks = {a, b}
  Statuses = {"playing"}
  Batteries = {normal, low}
  Settings = {off}
  Registrable = {2, 3, 6, 9}
  MaxTid = 1
  MaxCommands = 3
  MaxChanges = 1
  MaxQueue = 2
  MaxRestarts = 0
PROPERTIES NotifiesAsAsked FallsQuiet
CHECK_DEADLOCK FALSE
