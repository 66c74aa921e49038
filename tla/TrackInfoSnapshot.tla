-------------------------- MODULE TrackInfoSnapshot --------------------------
(***************************************************************************)
(* What the double buffer of y1-track-info promises its readers, without   *)
(* slots, without an active byte and without pieces: there is one current  *)
(* image, it changes in a single step, only to the image of a later flush, *)
(* and a read that is not overrun returns the image that was current when  *)
(* the read began.  A read is overrun when, after an image was published   *)
(* during the read, yet another flush begins: with two slots the reader's  *)
(* slot is then the one being rewritten.                                   *)
(***************************************************************************)
EXTENDS Naturals

CONSTANTS Readers,   \* the threads that copy the track-info image
          NumPieces, \* an image is read and written in this many pieces
          MaxFlush   \* bound: flushes are numbered 1 to MaxFlush

VARIABLES current,  \* the image readers are directed to
          flushing, \* a flush has begun and has not been published
          phase,    \* per reader, how far the writer got during its read
          seen,     \* per reader, the image that was current at its start
          result    \* per reader, what its last finished read returned

vars == <<current, flushing, phase, seen, result>>

Pieces == 1 .. NumPieces
Images == [Pieces -> 0 .. MaxFlush]
Whole(v) == [p \in Pieces |-> v]   \* the image written by flush number v

Phases == {"none", "calm", "passed", "overrun"}

Init == /\ current = Whole(0)
        /\ flushing = FALSE
        /\ phase = [r \in Readers |-> "none"]
        /\ seen = [r \in Readers |-> Whole(0)]
        /\ result = [r \in Readers |-> Whole(0)]

BeginFlush ==
  /\ flushing' = TRUE
  /\ phase' = [r \in Readers |->
                 IF phase[r] = "passed" THEN "overrun" ELSE phase[r]]
  /\ UNCHANGED <<current, seen, result>>

Abandon == /\ flushing
           /\ flushing' = FALSE
           /\ UNCHANGED <<current, phase, seen, result>>

Publish ==
  /\ flushing
  /\ flushing' = FALSE
  /\ \E v \in 1 .. MaxFlush : /\ \A p \in Pieces : current[p] < v
                              /\ current' = Whole(v)
  /\ phase' = [r \in Readers |->
                 IF phase[r] = "calm" THEN "passed" ELSE phase[r]]
  /\ UNCHANGED <<seen, result>>

BeginRead(r) == /\ phase[r] = "none"
                /\ phase' = [phase EXCEPT ![r] = "calm"]
                /\ seen' = [seen EXCEPT ![r] = current]
                /\ UNCHANGED <<current, flushing, result>>

EndRead(r) == /\ phase[r] # "none"
              /\ \E image \in Images :
                   /\ phase[r] # "overrun" => image = seen[r]
                   /\ result' = [result EXCEPT ![r] = image]
              /\ phase' = [phase EXCEPT ![r] = "none"]
              /\ seen' = [seen EXCEPT ![r] = Whole(0)]
              /\ UNCHANGED <<current, flushing>>

\* The reading process dies; its threads' reads never end.
DropReads ==
  /\ \E R \in SUBSET Readers :
       /\ phase' = [r \in Readers |-> IF r \in R THEN "none" ELSE phase[r]]
       /\ seen' = [r \in Readers |-> IF r \in R THEN Whole(0) ELSE seen[r]]
  /\ UNCHANGED <<current, flushing, result>>

Next == \/ BeginFlush \/ Abandon \/ Publish \/ DropReads
        \/ \E r \in Readers : BeginRead(r) \/ EndRead(r)

Spec == Init /\ [][Next]_vars
=============================================================================
