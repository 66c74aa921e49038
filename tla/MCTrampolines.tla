----------------------------- MODULE MCTrampolines -----------------------------
EXTENDS Trampolines, TLC

\* Track ids are only compared with each other.  Used where no property is a
\* liveness property.
TrackSymmetry == Permutations(Tracks)
================================================================================
