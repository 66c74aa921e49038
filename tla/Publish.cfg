SPECIFICATION FairSpec
CONSTANTS
  Jobs = {j1, j2}
  Machines = {j1, j2, bench}
  Known = {v302, v307}
  Firmware = v302
  Requests <- AllAdbMusic
  MaxFailures = 1
  MaxEvents = 2
INVARIANTS TypeOK FlashedAsRequested NeverFlashMounted ReleaseKept ReleaseVerified
PROPERTY ReleasesHeal
CHECK_DEADLOCK FALSE
