---------------------------- MODULE MCPlaybackPulse ----------------------------
(***************************************************************************)
(* Playback with a history of what the player passes on while a pulse is   *)
(* between its two phases.                                                 *)
(***************************************************************************)
EXTENDS MCPlayback

VARIABLE overtaken  \* a pause or stop was passed on since phase 1 of a pulse

\* In this step, thread t passes status s on to TrackInfoWriter.
Passes(t, s) ==
  /\ todo'[t] # todo[t]
  /\ \/ Doing(t, "report") /\ todo[t][2] = s
     \/ Doing(t, "pauseGuard") /\ s = "paused" /\ guardLeft = 0

PulseInit == Init /\ overtaken = FALSE

PulseNext ==
  /\ Next
  /\ overtaken' = IF \E t \in Threads : Passes(t, "playing")
                    THEN FALSE
                    ELSE \/ overtaken
                         \/ /\ pulse # Off
                            /\ \E t \in Threads, s \in {"paused", "stopped"} : Passes(t, s)

PulseSpec == PulseInit /\ [][PulseNext]_<<vars, overtaken>>

\* PscPulse: "calling fire() while paused or stopped would leave the file in
\* the wrong state.  pulsePlayStatusForCT() owns that gate."  A pause or stop
\* that arrives between the two phases is not written over.
PulseKeepsPause == AllIdle /\ pulse = Off /\ overtaken => status # "playing"
================================================================================
