------------------------------ MODULE MCPlayback ------------------------------
EXTENDS Playback, TLC

\* Audio ids are only compared with each other, and every property checked with
\* this symmetry is an invariant.
TrackSymmetry == Permutations(Tracks)
===============================================================================
