SPECIFICATION Spec
CONSTANTS
  Tracks = {a, b}
  PlayValues = {"playing", "paused"}
  FreshTicks = 1
  RateTicks = 1
  GuardTicks = 1
  PulseTicks = 0
  TickTicks = 0
SYMMETRY TrackSymmetry
INVARIANTS TypeOK TickerOnlyWhilePlaying PositionBelongsToTrack TrackAnnounced NaturalEndAnnounced EdgeNotSwallowed
CHECK_DEADLOCK FALSE
