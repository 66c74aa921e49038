------------------------------- MODULE Playback -------------------------------
(***************************************************************************)
(* The callers of TrackInfoWriter: PlaybackStateBridge, hooked into the    *)
(* player, and the two timers of the main looper, PositionTicker and       *)
(* PscPulse.  The player itself is the environment.  It runs its own       *)
(* methods on the main thread and its engine's listeners on another one.   *)
(***************************************************************************)
EXTENDS TrackInfoWriter

CONSTANTS PlayValues,  \* bound: the statuses that the player sets by itself
          GuardTicks,  \* a pause is ignored this long after a track change (1 s)
          PulseTicks,  \* gap between the two phases of the pulse (50 ms)
          TickTicks    \* period of PositionTicker (1 s)

Off == 99   \* a handler message that is not queued

ASSUME PlayValuesAssumption == PlayValues \subseteq Statuses

ASSUME TimersAssumption == {GuardTicks, PulseTicks, TickTicks} \subseteq 0 .. Off - 1

VARIABLES
  guardLeft,  \* ticks until trackChangeDeadlineMs
  pulse,      \* ticks until PscPulse.run, or Off
  ticker,     \* ticks until PositionTicker.run, or Off
  listener,   \* external: the thread that runs the engine's listeners
  loading,    \* external: where toRestart and the engine are with a track
  changing    \* history: the song advanced, its fresh-track reset is to come

timers == <<guardLeft, pulse, ticker>>
vars == <<writerVars, timers, listener, loading, changing>>

TypeOK == /\ WriterTypeOK
          /\ guardLeft \in 0 .. GuardTicks
          /\ pulse \in 0 .. PulseTicks \cup {Off}
          /\ ticker \in 0 .. TickTicks \cup {Off}
          /\ listener \in Threads
          /\ loading \in {"no", "advanced", "source", "preparing"}
          /\ changing \in BOOLEAN

Init == /\ WriterInit
        /\ guardLeft = 0 /\ pulse = Off /\ ticker = Off
        /\ listener \in Threads
        /\ loading = "no"
        /\ changing = FALSE

Idle(t) == todo[t] = <<>>
AllIdle == \A t \in Threads : Idle(t)

\* Thread t, idle until now, starts the methods whose operations are given.
Call(t, ops) == /\ Idle(t)
                /\ todo' = [todo EXCEPT ![t] = ops]

-----------------------------------------------------------------------------
(* PlaybackStateBridge.                                                    *)

\* onPlayValue, once the value is mapped to a status of AVRCP.
OnPlayValue(s) == IF s = "paused" THEN <<"pauseGuard">> ELSE <<"report", s>>

\* Mutant: the ticker is started on every play value.
AfterPlayValueAlwaysTicking(s) == WakeTrackChanged \o <<"start">>

AfterPlayValue(s) ==
  WakeTrackChanged \o (IF s = "playing" THEN <<"start">> ELSE <<"stop">>)

\* Mutant: metachanged is broadcast before the reset is published.
OnEarlyTrackChangeMetaFirst == WakeTrackChanged \o OnFreshTrackChange

OnEarlyTrackChange == OnFreshTrackChange \o WakeTrackChanged
OnPrepared == OnTrackEdge \o WakeTrackChanged \o WakePlayStateChanged
OnPlayerPreparedTail ==
  FlushOnly \o WakeTrackChanged \o WakePlayStateChanged \o PulsePlayStatusForCT
\* external: playerPrepared seeks to a saved position, at one of its places before
\* or after the flag; what it plays or pauses then runs setPlayValue on main.
PlayerPrepared ==
  <<"restore", "prepared">> \o OnPlayerPreparedTail \o <<"restore">>
OnCompletion == MarkCompletion \o <<"stop">> \o WakePlayStateChanged
OnError == MarkError

\* The part of onPlayValue for a pause: inside the window of a track change the
\* file and the play-status wake are skipped, the rest is not.
PauseGuard(t) ==
  /\ Doing(t, "pauseGuard")
  /\ Then(t, IF guardLeft > 0
               THEN AfterPlayValue("paused")
               ELSE SetPlayStatus("paused") \o WakePlayStateChanged
                      \o AfterPlayValue("paused"))
  /\ UNCHANGED <<player, fields, wake, monitor, file, sent, timers, loading, changing>>

Report(t) ==
  /\ Doing(t, "report")
  /\ LET s == todo[t][2] IN
       todo' = [todo EXCEPT ![t] = SetPlayStatus(s) \o WakePlayStateChanged
                                     \o AfterPlayValue(s) \o SubSeq(@, 3, Len(@))]
  /\ UNCHANGED <<player, fields, wake, monitor, file, sent, timers, loading, changing>>

-----------------------------------------------------------------------------
(* PositionTicker and PscPulse.                                            *)

Start(t) == /\ Doing(t, "start")
            /\ ticker' = TickTicks
            /\ Then(t, <<>>)
            /\ UNCHANGED <<player, fields, wake, monitor, file, sent, guardLeft, pulse,
                           loading, changing>>

Stop(t) == /\ Doing(t, "stop")
           /\ ticker' = Off
           /\ Then(t, <<>>)
           /\ UNCHANGED <<player, fields, wake, monitor, file, sent, guardLeft, pulse,
                          loading, changing>>

Post(t) == /\ Doing(t, "post")
           /\ pulse' = PulseTicks
           /\ Then(t, <<>>)
           /\ UNCHANGED <<player, fields, wake, monitor, file, sent, guardLeft, ticker,
                          loading, changing>>

\* The main looper dequeues the tick: run() wakes and posts itself again.
TickerRun == /\ ticker = 0
             /\ Call("main", <<"unlimited">> \o WakePlayStateChanged \o <<"start">>)
             /\ ticker' = Off
             /\ UNCHANGED <<player, fields, wake, monitor, file, sent, guardLeft, pulse,
                            loading, changing>>

PulseRun == /\ pulse = 0
            /\ Call("main", SetPlayStatus("playing") \o WakePlayStateChanged)
            /\ pulse' = Off
            /\ UNCHANGED <<player, fields, wake, monitor, file, sent, guardLeft, ticker,
                           loading, changing>>

-----------------------------------------------------------------------------
(* The player.                                                             *)

envSame == UNCHANGED <<fields, wake, monitor, file, sent, pulse, ticker>>

\* The user or the player starts, pauses, resumes or stops playback.
SetPlayValue == /\ \E s \in PlayValues : Call("main", OnPlayValue(s))
                /\ envSame /\ UNCHANGED <<player, guardLeft, loading, changing>>

\* restartPlay, autoSwitch, nextSong, prevSong: markTrackChange, a new playing
\* song, a pause, and toRestart up to setDataSource.  The song may be the same.
ChangeTrack ==
  /\ loading = "no"
  /\ Call("main", OnPlayValue("paused") \o <<"source">>)
  /\ guardLeft' = GuardTicks
  /\ \E s \in Tracks : song' = s
  /\ loading' = "advanced"
  /\ changing' = TRUE
  /\ UNCHANGED <<engine, prepared>>
  /\ envSame

\* setDataSource has succeeded; its hook runs before prepareAsync.
SetDataSource(t) == /\ Doing(t, "source")
                    /\ engine' = song /\ prepared' = FALSE
                    /\ loading' = "source"
                    /\ Then(t, OnEarlyTrackChange \o <<"prepare">>)
                    /\ UNCHANGED <<song, guardLeft, changing>>
                    /\ envSame

PrepareAsync(t) == /\ Doing(t, "prepare")
                   /\ loading' = "preparing"
                   /\ changing' = FALSE
                   /\ Then(t, <<>>)
                   /\ UNCHANGED <<player, guardLeft>>
                   /\ envSame

\* The listener runs OnPrepared and then playerPrepared with its tail hook.
EnginePrepared == /\ loading = "preparing"
                  /\ Call(listener, OnPrepared \o PlayerPrepared)
                  /\ loading' = "no"
                  /\ UNCHANGED <<player, guardLeft, changing>>
                  /\ envSame

\* The saved position, if there is one; setCurrentPosition is hooked.
Restore(t) == /\ Doing(t, "restore")
              /\ Then(t, <<>>) \/ Then(t, OnSeek)
              /\ UNCHANGED <<player, guardLeft, loading, changing>>
              /\ envSame

PlayerIsPrepared(t) == /\ Doing(t, "prepared")
                       /\ prepared' = TRUE
                       /\ Then(t, <<>>)
                       /\ UNCHANGED <<song, engine, guardLeft, loading, changing>>
                       /\ envSame

EngineFails == /\ loading = "preparing"
               /\ Call(listener, OnError)
               /\ loading' = "no"
               /\ UNCHANGED <<player, guardLeft, changing>>
               /\ envSame

\* End of the track; what plays next is a ChangeTrack of its own.
EngineCompletes == /\ loading = "no" /\ prepared
                   /\ Call(listener, OnCompletion)
                   /\ UNCHANGED <<player, guardLeft, loading, changing>>
                   /\ envSame

UserSeeks == /\ prepared
             /\ Call("main", OnSeek)
             /\ UNCHANGED <<player, guardLeft, loading, changing>>
             /\ envSame

\* BatteryReceiver or PappStateBroadcaster: setBattery or setPapp flushes, and
\* playstatechanged is broadcast without the gate.
OtherUpdate == /\ Call("main", FlushOnly \o <<"playstate">>)
               /\ UNCHANGED <<player, guardLeft, loading, changing>>
               /\ envSame

\* Mutant: an expired timer goes on counting.
DownPastZero(n) == IF n = Off THEN n ELSE n - 1

Down(n) == IF n \in {0, Off} THEN n ELSE n - 1

\* Time passes; a due handler message may still wait for the main thread.
Tick == /\ freshLeft' = Down(freshLeft) /\ rateLeft' = Down(rateLeft)
        /\ guardLeft' = Down(guardLeft)
        /\ pulse' = Down(pulse) /\ ticker' = Down(ticker)
        /\ UNCHANGED <<player, fields, wokeAs, seen, monitor, file, todo, sent,
                       loading, changing>>

-----------------------------------------------------------------------------

Step(t) == \/ WriterStep(t) /\ UNCHANGED <<timers, loading, changing>>
           \/ PauseGuard(t) \/ Report(t) \/ Start(t) \/ Stop(t) \/ Post(t)
           \/ SetDataSource(t) \/ PrepareAsync(t) \/ Restore(t) \/ PlayerIsPrepared(t)

Looper == TickerRun \/ PulseRun

Environment == \/ SetPlayValue \/ ChangeTrack \/ EnginePrepared \/ EngineFails
               \/ EngineCompletes \/ UserSeeks \/ OtherUpdate

Next == /\ \/ \E t \in Threads : Step(t)
           \/ Looper \/ Environment \/ Tick
        /\ UNCHANGED listener

Spec == Init /\ [][Next]_vars

-----------------------------------------------------------------------------
(* Properties.                                                             *)

\* PositionTicker is queued only while the published status is PLAYING, or is
\* about to be again because a pulse is under way.
TickerOnlyWhilePlaying ==
  AllIdle /\ ticker # Off /\ pulse = Off => status = "playing" /\ file.status = "playing"

\* Except between a song's advance and its fresh-track reset, the published
\* position was measured on the published track, whichever thread flushed.
PositionBelongsToTrack == ~changing => file.posTrack = file.id

\* With every method returned, the last metachanged broadcast was sent when the
\* file held the audio id it holds now, whatever flush first published it.
TrackAnnounced == AllIdle => metaId = file.id

\* With every method returned, whichever thread ran it: if the last track edge
\* consumed a natural end, a metachanged after it was sent with it in the file.
NaturalEndAnnounced == AllIdle => ~owedEnd

\* With every method returned, the Bluetooth side has been told of the status in
\* the file, unless the gate of wakePlayStateChanged has noted a status that was
\* not the one broadcast; that takes a listener on a thread of its own.
EdgeNotSwallowed ==
  AllIdle /\ sentStatus # file.status => wokeAs # sentStatus /\ listener # "main"

\* wakePlayStateChanged: "real play-state edges (mPlayStatus differs from
\* mLastWakePlayStatus) always bypass the gate."  Hence the Bluetooth side has
\* been told of the status in the file.
EdgesBypassGate == AllIdle => sentStatus = file.status
=============================================================================
