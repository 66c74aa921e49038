SPECIFICATION PulseSpec
CONSTANTS
  Tracks = {a, b}
  PlayValues = {"stopped", "playing", "paused"}
  FreshTicks = 1
  RateTicks = 1
  GuardTicks = 1
  PulseTicks = 1
  TickTicks = 0
SYMMETRY TrackSymmetry
INVARIANT PulseKeepsPause
CHECK_DEADLOCK FALSE
