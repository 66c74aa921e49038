---------------------------- MODULE TrackInfoWriter ----------------------------
(***************************************************************************)
(* The singleton of the music app that publishes what is playing: its      *)
(* fields, its synchronized mutators and its two wake-up broadcasts.  Each *)
(* thread of the app carries the list of operations it still has to do; a  *)
(* method is the list it stands for, and an operation that decides what    *)
(* comes next puts it at the head of the list.  flushLocked is one step    *)
(* here: DoubleBuffer is about what is inside it.                          *)
(*                                                                         *)
(* Positions are abstracted to the track they were measured on, clock      *)
(* readings to the ticks left until a window closes.                       *)
(***************************************************************************)
EXTENDS Naturals, Sequences

CONSTANTS Tracks,      \* audio ids
          FreshTicks,  \* onSeek is ignored this long after a fresh track (2 s)
          RateTicks    \* same-status wakes are at least this far apart (800 ms)

ASSUME TicksAssumption == FreshTicks \in Nat /\ RateTicks \in Nat

VARIABLES
  song,        \* external: PlayerService.getPlayingSong()
  engine,      \* external: the track whose data source the engine has
  prepared,    \* external: PlayerService.playerIsPrepared
  status,      \* mPlayStatus
  cachedId,    \* mCachedAudioId
  posTrack,    \* the track mPositionAtStateChange was measured on
  durTrack,    \* the track mLastKnownDuration was measured on
  pending,     \* mPendingNaturalEnd
  naturalEnd,  \* mPreviousTrackNaturalEnd
  freshLeft,   \* ticks until onSeek is heard again (mLastFreshTrackChangeAt)
  rateLeft,    \* ticks until a same-status wake passes (mLastWakePlayStateAt)
  wokeAs,      \* mLastWakePlayStatus
  seen,        \* per thread, the status wakePlayStateChanged has loaded
  owner,       \* holder of the monitor of INSTANCE
  oldId,       \* the audio id a mutator remembers across its first flush
  file,        \* the published image
  todo,        \* per thread, what its methods have still to do
  metaId,      \* history: the file's id when metachanged was last broadcast
  sentStatus,  \* history: the file's status at the last playstatechanged
  owedEnd      \* history: the last edge consumed a natural end, not yet broadcast

player == <<song, engine, prepared>>
fields == <<status, cachedId, posTrack, durTrack, pending, naturalEnd>>
wake == <<freshLeft, rateLeft, wokeAs, seen>>
monitor == <<owner, oldId>>
sent == <<metaId, sentStatus, owedEnd>>
writerVars == <<player, fields, wake, monitor, file, todo, sent>>

Threads == {"main", "callback"}
Statuses == {"stopped", "playing", "paused"}

WriterTypeOK ==
  /\ song \in Tracks /\ engine \in Tracks /\ prepared \in BOOLEAN
  /\ status \in Statuses /\ wokeAs \in Statuses
  /\ cachedId \in Tracks /\ posTrack \in Tracks /\ durTrack \in Tracks
  /\ pending \in BOOLEAN /\ naturalEnd \in BOOLEAN
  /\ freshLeft \in 0 .. FreshTicks /\ rateLeft \in 0 .. RateTicks
  /\ owner \in Threads \cup {"none"} /\ oldId \in Tracks
  /\ file \in [id : Tracks, status : Statuses, posTrack : Tracks, naturalEnd : BOOLEAN]
  /\ \A t \in Threads : (owner = t) => todo[t] # <<>>
  /\ seen \in [Threads -> Statuses]
  /\ metaId \in Tracks /\ sentStatus \in Statuses /\ owedEnd \in BOOLEAN

\* TrackInfoWriter.init has flushed the defaults.
WriterInit ==
  /\ song \in Tracks /\ engine = song /\ prepared = FALSE
  /\ status = "stopped" /\ wokeAs = "stopped"
  /\ cachedId = song /\ posTrack = song /\ durTrack = song
  /\ pending = FALSE /\ naturalEnd = FALSE
  /\ freshLeft = 0 /\ rateLeft = 0
  /\ owner = "none" /\ oldId = song
  /\ file = [id |-> song, status |-> "stopped", posTrack |-> song, naturalEnd |-> FALSE]
  /\ todo = [t \in Threads |-> <<>>]
  /\ seen = [t \in Threads |-> "stopped"]
  /\ metaId = song /\ sentStatus = "stopped" /\ owedEnd = FALSE

-----------------------------------------------------------------------------
(* The methods, as the operations they consist of.                         *)

Synchronized(ops) == <<"lock">> \o ops \o <<"unlock">>

SetPlayStatus(s) == Synchronized(<<s>>)
OnSeek == Synchronized(<<"seek">>)
MarkCompletion == Synchronized(<<"completion", "flush">>)
MarkError == Synchronized(<<"error">>)

\* Mutant: the fresh-track reset leaves the anchor of the old track in place.
OnFreshTrackChangeNoReset == Synchronized(<<"latch", "flush">>)
\* Mutant: the natural end is latched after the flush that publishes it.
OnFreshTrackChangeLateLatch == Synchronized(<<"reset", "flush", "latch">>)

OnFreshTrackChange == Synchronized(<<"latch", "reset", "flush">>)
OnTrackEdge == Synchronized(<<"latch", "remember", "flush", "edgeOrEnd">>)
FlushOnly == Synchronized(<<"flush">>)
PulsePlayStatusForCT == Synchronized(<<"pulse">>)
WakePlayStateChanged == <<"gate">>
Proceed == <<"stamp", "load", "mark", "playstate">>
WakeTrackChanged == <<"meta">>

-----------------------------------------------------------------------------
(* The operations.                                                         *)

Doing(t, op) == todo[t] # <<>> /\ Head(todo[t]) = op
Then(t, ops) == todo' = [todo EXCEPT ![t] = ops \o Tail(@)]

Lock(t) == /\ Doing(t, "lock")
           /\ owner = "none"
           /\ owner' = t
           /\ Then(t, <<>>)
           /\ UNCHANGED <<player, fields, wake, oldId, file, sent>>

Unlock(t) == /\ Doing(t, "unlock")
             /\ owner' = "none"
             /\ oldId' = cachedId
             /\ Then(t, <<>>)
             /\ UNCHANGED <<player, fields, wake, file, sent>>

\* setPlayStatus with the current status: re-anchor while playing.
SameStatus(t, s) ==
  /\ Doing(t, s) /\ s = status
  /\ IF s = "playing" /\ prepared
       THEN posTrack' = engine /\ Then(t, <<"flush">>)
       ELSE posTrack' = posTrack /\ Then(t, <<>>)
  /\ UNCHANGED <<player, status, cachedId, durTrack, pending, naturalEnd, wake,
                 monitor, file, sent>>

\* setPlayStatus with a new status: computeLivePositionLocked carries the
\* position on, the flush may then reveal a new audio id.
NewStatus(t, s) ==
  /\ Doing(t, s) /\ s # status
  /\ status' = s
  /\ oldId' = cachedId
  /\ Then(t, <<"flush", "edge">>)
  /\ UNCHANGED <<player, cachedId, posTrack, durTrack, pending, naturalEnd, wake,
                 owner, file, sent>>

Remember(t) == /\ Doing(t, "remember")
               /\ oldId' = cachedId
               /\ Then(t, <<>>)
               /\ UNCHANGED <<player, fields, wake, owner, file, sent>>

\* flushLocked: the id is read from the service, the duration from the engine
\* when it is prepared, else from the file of the song if that can be parsed.
Flush(t) ==
  /\ Doing(t, "flush")
  /\ cachedId' = song
  /\ durTrack' \in IF prepared THEN {engine} ELSE {song, durTrack}
  /\ file' = [id |-> song, status |-> status, posTrack |-> posTrack,
              naturalEnd |-> naturalEnd]
  /\ Then(t, <<>>)
  /\ UNCHANGED <<player, status, posTrack, pending, naturalEnd, wake, monitor, sent>>

\* The end of setPlayStatus and of onTrackEdge: a new audio id resets the
\* anchor; so does, in onTrackEdge, a natural end.
Edge(t) ==
  /\ Doing(t, "edge") \/ Doing(t, "edgeOrEnd")
  /\ IF cachedId # oldId \/ (Doing(t, "edgeOrEnd") /\ naturalEnd)
       THEN /\ posTrack' = cachedId
            /\ durTrack' = IF Doing(t, "edge") THEN cachedId ELSE durTrack
            /\ freshLeft' = FreshTicks
            /\ Then(t, <<"flush">>)
       ELSE UNCHANGED <<posTrack, durTrack, freshLeft>> /\ Then(t, <<>>)
  /\ UNCHANGED <<player, status, cachedId, pending, naturalEnd, rateLeft, wokeAs,
                 seen, monitor, file, sent>>

Latch(t) == /\ Doing(t, "latch")
            /\ naturalEnd' = pending
            /\ pending' = FALSE
            /\ owedEnd' = pending
            /\ Then(t, <<>>)
            /\ UNCHANGED <<player, status, cachedId, posTrack, durTrack, wake,
                           monitor, file, metaId, sentStatus>>

\* onFreshTrackChange: position 0 of the song now playing, duration unknown.
Reset(t) == /\ Doing(t, "reset")
            /\ posTrack' = song /\ durTrack' = song
            /\ freshLeft' = FreshTicks
            /\ Then(t, <<>>)
            /\ UNCHANGED <<player, status, cachedId, pending, naturalEnd, rateLeft,
                           wokeAs, seen, monitor, file, sent>>

\* onSeek is silent while a fresh track settles; else it flushes and wakes.
Seek(t) == /\ Doing(t, "seek")
           /\ IF freshLeft > 0
                THEN posTrack' = posTrack /\ Then(t, <<>>)
                ELSE /\ posTrack' = engine
                     /\ todo' = [todo EXCEPT ![t] = <<"flush", "unlock">> \o
                                   WakePlayStateChanged \o Tail(Tail(@))]
           /\ UNCHANGED <<player, status, cachedId, durTrack, pending, naturalEnd,
                          wake, monitor, file, sent>>

Completion(t) == /\ Doing(t, "completion")
                 /\ pending' = TRUE
                 /\ posTrack' = durTrack
                 /\ Then(t, <<>>)
                 /\ UNCHANGED <<player, status, cachedId, durTrack, naturalEnd, wake,
                                monitor, file, sent>>

Error(t) == /\ Doing(t, "error")
            /\ pending' = FALSE
            /\ Then(t, <<>>)
            /\ UNCHANGED <<player, status, cachedId, posTrack, durTrack, naturalEnd,
                           wake, monitor, file, sent>>

\* pulsePlayStatusForCT holds the monitor across PscPulse.fire.
Pulse(t) == /\ Doing(t, "pulse")
            /\ Then(t, IF status = "playing"
                         THEN <<"paused">> \o WakePlayStateChanged \o <<"post">>
                         ELSE <<>>)
            /\ UNCHANGED <<player, fields, wake, monitor, file, sent>>

-----------------------------------------------------------------------------
(* The wake-ups, which take no monitor: every load and store is a step.    *)

\* Mutant: the gate looks at the clock alone.
SuppressedByTime(t) == TRUE

Suppressed(t) == seen[t] = wokeAs

\* wakePlayStateChanged loads mLastWakePlayStateAt.
Gate(t) == /\ Doing(t, "gate")
           /\ Then(t, IF rateLeft = 0 THEN Proceed ELSE <<"sample", "compare">>)
           /\ UNCHANGED <<player, fields, wake, monitor, file, sent>>

\* mPlayStatus is loaded, to be compared or to be noted.
Load(t) == /\ Doing(t, "sample") \/ Doing(t, "load")
           /\ seen' = [seen EXCEPT ![t] = status]
           /\ Then(t, <<>>)
           /\ UNCHANGED <<player, fields, freshLeft, rateLeft, wokeAs, monitor, file, sent>>

\* mLastWakePlayStatus is loaded; inside the window it is all that matters.
Compare(t) == /\ Doing(t, "compare")
              /\ seen' = [seen EXCEPT ![t] = "stopped"]
              /\ Then(t, IF Suppressed(t) THEN <<>> ELSE Proceed)
              /\ UNCHANGED <<player, fields, freshLeft, rateLeft, wokeAs, monitor, file,
                             sent>>

Stamp(t) == /\ Doing(t, "stamp")
            /\ rateLeft' = RateTicks
            /\ Then(t, <<>>)
            /\ UNCHANGED <<player, fields, freshLeft, wokeAs, seen, monitor, file, sent>>

Mark(t) == /\ Doing(t, "mark")
           /\ wokeAs' = seen[t]
           /\ seen' = [seen EXCEPT ![t] = "stopped"]
           /\ Then(t, <<>>)
           /\ UNCHANGED <<player, fields, freshLeft, rateLeft, monitor, file, sent>>

PlayState(t) == /\ Doing(t, "playstate")
                /\ sentStatus' = file.status
                /\ Then(t, <<>>)
                /\ UNCHANGED <<player, fields, wake, monitor, file, metaId, owedEnd>>

Meta(t) == /\ Doing(t, "meta")
           /\ metaId' = file.id
           /\ owedEnd' = (owedEnd /\ ~file.naturalEnd)
           /\ Then(t, <<>>)
           /\ UNCHANGED <<player, fields, wake, monitor, file, sentStatus>>

ResetWakeRateLimit(t) == /\ Doing(t, "unlimited")
                         /\ rateLeft' = 0
                         /\ Then(t, <<>>)
                         /\ UNCHANGED <<player, fields, freshLeft, wokeAs, seen, monitor,
                                        file, sent>>

WriterStep(t) ==
  \/ Lock(t) \/ Unlock(t) \/ Remember(t) \/ Flush(t) \/ Edge(t) \/ Latch(t) \/ Reset(t)
  \/ Seek(t) \/ Completion(t) \/ Error(t) \/ Pulse(t)
  \/ Gate(t) \/ Load(t) \/ Compare(t) \/ Stamp(t) \/ Mark(t)
  \/ PlayState(t) \/ Meta(t) \/ ResetWakeRateLimit(t)
  \/ \E s \in Statuses : SameStatus(t, s) \/ NewStatus(t, s)
=============================================================================
