SPECIFICATION Spec
CONSTANTS
    Builds <- MCBuilds
    Flashed = {"anchored"}
    TouchOps = {"touch PLAY", "touch RIGHT"}
    MaxPresses = 2
    MaxRepeat = 1
    LongPress = 1
INVARIANTS TypeOK OnePressOneAction PatchIsTransparent
PROPERTIES PauseNeverPlays PressReachesPlayer
CHECK_DEADLOCK FALSE
