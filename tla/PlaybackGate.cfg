SPECIFICATION Spec
CONSTANTS
  Tracks = {a, b}
  PlayValues = {"stopped", "playing", "paused"}
  FreshTicks = 1
  RateTicks = 1
  GuardTicks = 1
  PulseTicks = 0
  TickTicks = 0
SYMMETRY TrackSymmetry
INVARIANT EdgesBypassGate
CHECK_DEADLOCK FALSE
