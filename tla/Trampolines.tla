------------------------------ MODULE Trampolines ------------------------------
(***************************************************************************)
(* The trampolines in libextavrcp_jni.so that answer the controller (CT)   *)
(* and notify it.  The receive loop runs T1, extended_T2, T4, T6 and T8 on *)
(* one thread; the adapter's thread runs T5 and T9, one per broadcast of   *)
(* the music app.  Both work on the same .bss: the subscription database,  *)
(* the edge state, and byte 0x11 of conn, from which every response        *)
(* builder takes the transaction label (TID).                              *)
(*                                                                         *)
(* A handler is the list of its accesses to shared memory; what depends on *)
(* a value read is put in front of the list once the value is known.       *)
(***************************************************************************)
EXTENDS Integers, Sequences

CONSTANTS Tracks,       \* track ids
          Statuses,     \* play statuses in use
          Batteries,    \* battery buckets in use
          Settings,     \* repeat and shuffle settings in use
          Registrable,  \* the events the CT may register for
          MaxTid,       \* the CT's commands carry TIDs 0 .. MaxTid
          MaxCommands,  \* bound: registrations, reads and reconnects of the CT
          MaxChanges,   \* bound: changes of the file
          MaxQueue,     \* bound: broadcasts waiting for the adapter
          MaxRestarts   \* bound: restarts of the Bluetooth process

Psc == 1    Track == 2    End == 3    Begin == 4    Pos == 5    Batt == 6
Papp == 8   Ncc == 9
Events == 1 .. 13

ASSUME EventsAssumption == Registrable \subseteq 1 .. 12
ASSUME TidAssumption == MaxTid \in 0 .. 15
ASSUME DataAssumption == Batteries # {} /\ Settings # {}
ASSUME BoundsAssumption ==
  MaxCommands \in Nat /\ MaxChanges \in Nat /\ MaxQueue \in Nat /\ MaxRestarts \in Nat

VARIABLES
  db,        \* g_avrcp_req_event_database: TID + 1, or 0
  seen,      \* the edge state: the file as last acted upon
  conn,      \* conn[+0x11]
  file,      \* the active slot, as published by the music app
  inbox,     \* external: broadcasts on their way to the adapter
  run,       \* per thread, its handler: accesses left, file_buf, state buffer, and
             \* the TID of the command it answers (0 for a notification)
  overlap,   \* external: whether the two threads run at the same time
  raced,     \* history: the receive loop used the edge state while T5 was midway
  greeted,   \* external: the CT has sent GetCapabilities on this connection
  asked,     \* external: like db, the registrations of this connection
  fetch,     \* external: the CT owes itself a GetElementAttributes
  shown,     \* external: the track whose metadata the CT shows
  heard,     \* external: the last play status the CT was told, and how
  commands, changes, restarts  \* counters for the bounds

bss == <<db, seen, conn>>
ct == <<greeted, asked, fetch, shown, heard>>
counters == <<commands, changes, restarts>>
threading == <<overlap, raced>>
vars == <<bss, file, inbox, run, threading, ct, counters>>

Threads == {"inbound", "adapter"}
NoTrack == "none"
Images == [track : Tracks \cup {NoTrack}, status : Statuses \cup {"stopped"},
           battery : Batteries, papp : Settings, end : BOOLEAN]
Zero == [track |-> NoTrack, status |-> "stopped",
         battery |-> CHOOSE b \in Batteries : TRUE,
         papp |-> CHOOSE s \in Settings : TRUE, end |-> FALSE]
Resting == [todo |-> <<>>, copy |-> Zero, was |-> Zero, tid |-> 0]
NotTold == [how |-> "none", status |-> "stopped"]

TypeOK ==
  /\ db \in [Events -> 0 .. MaxTid + 1] /\ asked \in [Events -> 0 .. MaxTid + 1]
  /\ seen \in Images /\ file \in Images
  /\ conn \in 0 .. MaxTid \cup {255}
  /\ inbox \in Seq({"meta", "play"}) /\ Len(inbox) <= MaxQueue + 1
  /\ \A t \in Threads : run[t].copy \in Images /\ run[t].was \in Images
                         /\ run[t].tid \in 0 .. MaxTid
  /\ overlap \in BOOLEAN /\ raced \in BOOLEAN /\ greeted \in BOOLEAN /\ fetch \in BOOLEAN
  /\ shown \in Tracks \cup {NoTrack}
  /\ heard \in [how : {"none", "interim", "changed"}, status : Statuses \cup {"stopped"}]
  /\ commands \in 0 .. MaxCommands /\ changes \in 0 .. MaxChanges
  /\ restarts \in 0 .. MaxRestarts

Unsubscribed == [e \in Events |-> 0]

Init ==
  /\ db = Unsubscribed /\ seen = Zero /\ conn = 0
  /\ \E s \in Tracks : file = [Zero EXCEPT !.track = s]
  /\ inbox = <<>>
  /\ run = [t \in Threads |-> Resting]
  /\ overlap \in BOOLEAN /\ raced = FALSE
  /\ greeted = FALSE /\ asked = Unsubscribed /\ fetch = FALSE
  /\ shown = NoTrack /\ heard = NotTold
  /\ commands = 0 /\ changes = 0 /\ restarts = 0

-----------------------------------------------------------------------------
(* Handlers.                                                               *)

Op(op, e) == [op |-> op, event |-> e, then |-> <<>>]
Gate(e, ops) == [op |-> "gate", event |-> e, then |-> ops]

Respond == <<Op("respond", 0)>>
RespondAttrs == <<Op("attributes", 0)>>
ReadFile == <<Op("read", 0)>>
LoadState == <<Op("load", 0)>>
StoreTrack == <<Op("storeTrack", 0)>>
Changed(e) == <<Op("restore", e), Op("changed", e)>>
IfSubscribed(e) == <<Gate(e, Changed(e))>>

\* Mutant: GetCapabilities leaves the database of the last connection in place.
GetCapabilitiesNoClear == <<Op("tid", 0)>> \o Respond

\* T1_extended; the stock path has written conn before it is entered.
GetCapabilities == <<Op("tid", 0), Op("clear", 0)>> \o Respond

\* extended_T2 for TRACK_CHANGED, T8 for the other events.
RegisterNotification(e) ==
  <<Op("save", e)>> \o ReadFile \o (IF e = Track THEN StoreTrack ELSE <<>>)
    \o <<Op("restore", e), Op("interim", e)>>

\* T4: a TRACK_CHANGED of its own if the file has moved on, then the attributes.
GetElementAttributes ==
  <<Op("tid", 0)>> \o ReadFile \o LoadState \o <<Op("getAttrs", 0)>>

\* T6, and like it T_papp and T_battery: an answer from the file or from nothing.
GetPlayStatus == <<Op("tid", 0)>> \o ReadFile \o Respond

NotificationTrackChanged == ReadFile \o LoadState \o <<Op("T5", 0)>>
NotificationPlayStatusChanged == ReadFile \o LoadState \o <<Op("T9", 0)>>

\* Mutant: T4 does not write the new track id back.
T4OnEdgeNoStore == Changed(Track)

T4OnEdge == Changed(Track) \o StoreTrack

\* Mutant: the track id is stored only when TRACK_CHANGED is not sent.
T5OnEdgeNoTrack(end) == IfSubscribed(Pos) \o IfSubscribed(Ncc) \o StoreTrack

T5OnEdge(end) ==
  IfSubscribed(Pos) \o IfSubscribed(Track) \o IfSubscribed(Ncc)
    \o (IF end THEN IfSubscribed(End) ELSE <<>>) \o IfSubscribed(Begin) \o StoreTrack

\* The play-status arm of T9: NowPlayingContent rides on PLAYBACK_STATUS.
StatusArm == <<Gate(Psc, Changed(Psc) \o IfSubscribed(Ncc))>>

RestMoved(new, old) ==
  new.status # old.status \/ new.battery # old.battery \/ new.papp # old.papp

\* T9, for the file it read and the state it loaded.
T9Arms(new, old) ==
  (IF new.status # old.status THEN StatusArm ELSE <<>>)
    \o (IF new.battery # old.battery THEN IfSubscribed(Batt) ELSE <<>>)
    \o (IF new.papp # old.papp THEN IfSubscribed(Papp) ELSE <<>>)
    \o (IF RestMoved(new, old) THEN <<Op("storeRest", 0)>> ELSE <<>>)
    \o (IF new.status = "playing" THEN IfSubscribed(Pos) ELSE <<>>)

-----------------------------------------------------------------------------
(* The accesses to shared memory.                                          *)

Current(t) == Head(run[t].todo)
Doing(t, op) == run[t].todo # <<>> /\ Current(t).op = op
Event(t) == Current(t).event

\* The handler of t goes on as r, or returns.
Continue(t, r) == run' = [run EXCEPT ![t] = IF r.todo = <<>> THEN Resting ELSE r]
Then(t, ops) == Continue(t, [run[t] EXCEPT !.todo = ops \o Tail(@)])
Outside == UNCHANGED <<file, inbox, overlap, counters>>
Other == Outside /\ UNCHANGED raced

\* T5 has loaded the edge state and not stored it yet.
Midway == LET todo == run["adapter"].todo
          IN  Doing("adapter", "T5") \/ (todo # <<>> /\ todo[Len(todo)].op = "storeTrack")
Race(t) == raced' = (raced \/ (t = "inbound" /\ Midway))

Read(t) == /\ Doing(t, "read")
           /\ Continue(t, [run[t] EXCEPT !.todo = Tail(@), !.copy = file])
           /\ Other /\ UNCHANGED <<bss, ct>>

Load(t) == /\ Doing(t, "load")
           /\ Continue(t, [run[t] EXCEPT !.todo = Tail(@), !.was = seen])
           /\ Race(t)
           /\ Outside /\ UNCHANGED <<bss, ct>>

Edge(t) == run[t].copy.track # run[t].was.track

\* The handler has what it needs from the file and the state.
Decide(t) ==
  /\ \/ Doing(t, "getAttrs") /\ Then(t, (IF Edge(t) THEN T4OnEdge ELSE <<>>) \o RespondAttrs)
     \/ Doing(t, "T5") /\ Then(t, IF Edge(t) THEN T5OnEdge(run[t].copy.end) ELSE <<>>)
     \/ Doing(t, "T9") /\ Then(t, T9Arms(run[t].copy, run[t].was))
  /\ Other /\ UNCHANGED <<bss, ct>>

\* Mutant: T4, T5 and extended_T2 write back all the bytes they have read.
NarrowWriteAll(new, old) == new

\* write_state_block of bytes 0..7: the other bytes are T9's.
NarrowWrite(new, old) == [old EXCEPT !.track = new.track]

\* The above, or T9's write of bytes 9..12.
Store(t) ==
  /\ \/ Doing(t, "storeTrack") /\ seen' = NarrowWrite(run[t].copy, seen) /\ Race(t)
     \/ /\ Doing(t, "storeRest") /\ UNCHANGED raced
        /\ seen' = [run[t].copy EXCEPT !.track = seen.track, !.end = seen.end]
  /\ Then(t, <<>>)
  /\ Outside /\ UNCHANGED <<db, conn, ct>>

\* The T4 prologue, or the stock code before T1.
WriteTid(t) == /\ Doing(t, "tid")
               /\ conn' = run[t].tid
               /\ Then(t, <<>>)
               /\ Other /\ UNCHANGED <<db, seen, ct>>

\* Mutant: the database keeps the TID itself.
EncodedRaw(tid) == tid

Encoded(tid) == tid + 1

SaveEventSeqId(t) == /\ Doing(t, "save")
                     /\ db' = [db EXCEPT ![Event(t)] = Encoded(run[t].tid)]
                     /\ Then(t, <<>>)
                     /\ Other /\ UNCHANGED <<seen, conn, ct>>

ClearEventDatabase(t) == /\ Doing(t, "clear")
                         /\ db' = Unsubscribed
                         /\ Then(t, <<>>)
                         /\ Other /\ UNCHANGED <<seen, conn, ct>>

EventSubscribed(t) ==
  /\ Doing(t, "gate")
  /\ Then(t, IF db[Event(t)] # 0 THEN Current(t).then ELSE <<>>)
  /\ Other /\ UNCHANGED <<bss, ct>>

\* Mutant: the TID of an event nobody subscribed to is not cut to a byte.
DecodedSigned(entry) == entry - 1

Decoded(entry) == (entry + 255) % 256

RestoreConnTid(t) == /\ Doing(t, "restore")
                     /\ conn' = Decoded(db[Event(t)])
                     /\ Then(t, <<>>)
                     /\ Other /\ UNCHANGED <<db, seen, ct>>

\* A CHANGED or INTERIM leaves with the TID in conn.  The CT fetches metadata
\* when it hears of the track.
Notify(t) ==
  /\ Doing(t, "changed") \/ Doing(t, "interim")
  /\ LET e == Event(t) IN
       /\ fetch' = (fetch \/ e = Track)
       /\ heard' = IF e = Psc THEN [how |-> Current(t).op, status |-> run[t].copy.status]
                              ELSE heard
  /\ Then(t, <<>>)
  /\ Other /\ UNCHANGED <<bss, greeted, asked, shown>>

\* The response to a command; the CT shows the metadata it is given.
Answer(t) ==
  /\ \/ Doing(t, "respond") /\ shown' = shown
     \/ Doing(t, "attributes") /\ shown' = run[t].copy.track
  /\ Then(t, <<>>)
  /\ Other /\ UNCHANGED <<bss, greeted, asked, fetch, heard>>

Step(t) ==
  \/ Read(t) \/ Load(t) \/ Decide(t) \/ Store(t) \/ WriteTid(t) \/ SaveEventSeqId(t)
  \/ ClearEventDatabase(t) \/ EventSubscribed(t) \/ RestoreConnTid(t) \/ Notify(t)
  \/ Answer(t)

-----------------------------------------------------------------------------
(* The broadcasts, the music app and the CT.                               *)

Idle(t) == run[t] = Resting
MayStart(t) == Idle(t) /\ (overlap \/ \A u \in Threads : Idle(u))
Quiet == (\A t \in Threads : Idle(t)) /\ inbox = <<>> /\ ~fetch

\* handleKeyMessage on the adapter's thread calls the native method.
Deliver ==
  /\ inbox # <<>> /\ MayStart("adapter")
  /\ inbox' = Tail(inbox)
  /\ run' = [run EXCEPT !["adapter"].todo = IF Head(inbox) = "meta"
                                               THEN NotificationTrackChanged
                                               ELSE NotificationPlayStatusChanged]
  /\ UNCHANGED <<bss, file, threading, ct, counters>>

Publish(new, casts) ==
  /\ changes < MaxChanges /\ Len(inbox) < MaxQueue
  /\ changes' = changes + 1
  /\ file' = new
  /\ inbox' = inbox \o casts
  /\ UNCHANGED <<bss, run, threading, ct, commands, restarts>>

\* TrackInfoWriter publishes another track; metachanged follows.
NextTrack == \E s \in Tracks \ {file.track}, e \in BOOLEAN :
               Publish([file EXCEPT !.track = s, !.end = e], <<"meta">>)

\* onPlayValue: playstatechanged, then metachanged.
NewStatus == \E s \in Statuses \ {file.status} :
               Publish([file EXCEPT !.status = s], <<"play", "meta">>)

\* BatteryReceiver, PappStateBroadcaster, or with nothing new PositionTicker.
PlayStateChanged == \E b \in Batteries, s \in Settings :
               Publish([file EXCEPT !.battery = b, !.papp = s], <<"play">>)

Command(handler, tid) ==
  /\ MayStart("inbound")
  /\ run' = [run EXCEPT !["inbound"].todo = handler, !["inbound"].tid = tid]
  /\ UNCHANGED <<bss, file, inbox, threading, shown, changes, restarts>>

Counted == commands < MaxCommands /\ commands' = commands + 1

\* The first command on a connection.
Greet == \E tid \in 0 .. MaxTid :
  /\ Command(GetCapabilities, tid) /\ Counted
  /\ greeted' = TRUE
  /\ asked' = Unsubscribed /\ heard' = NotTold /\ UNCHANGED fetch

Register == \E e \in Registrable, tid \in 0 .. MaxTid :
  /\ greeted
  /\ Command(RegisterNotification(e), tid) /\ Counted
  /\ asked' = [asked EXCEPT ![e] = tid + 1]
  /\ UNCHANGED <<greeted, fetch, heard>>

\* The CT fetches metadata because it heard of the track, or unprompted.
Fetch == \E tid \in 0 .. MaxTid :
  /\ \/ fetch /\ UNCHANGED commands
     \/ ~fetch /\ greeted /\ Counted
  /\ Command(GetElementAttributes, tid)
  /\ fetch' = FALSE
  /\ UNCHANGED <<greeted, asked, heard>>

Poll == \E tid \in 0 .. MaxTid :
  /\ greeted
  /\ Command(GetPlayStatus, tid) /\ Counted
  /\ UNCHANGED <<greeted, asked, fetch, heard>>

Forget == /\ greeted' = FALSE /\ asked' = Unsubscribed /\ fetch' = FALSE
          /\ shown' = NoTrack /\ heard' = NotTold

\* The CT goes and comes back: .bss outlives the connection.
Reconnect == /\ greeted /\ Idle("inbound")
             /\ Counted
             /\ Forget
             /\ UNCHANGED <<bss, file, inbox, run, threading, changes, restarts>>

\* The Bluetooth process dies: .bss, its threads and its broadcasts are gone.
Restart == /\ restarts < MaxRestarts
           /\ restarts' = restarts + 1
           /\ db' = Unsubscribed /\ seen' = Zero /\ conn' = 0
           /\ inbox' = <<>> /\ raced' = FALSE
           /\ run' = [t \in Threads |-> Resting]
           /\ Forget
           /\ UNCHANGED <<file, overlap, commands, changes>>

Environment == \/ NextTrack \/ NewStatus \/ PlayStateChanged
               \/ Greet \/ Register \/ Poll \/ Reconnect \/ Restart

Next == (\E t \in Threads : Step(t)) \/ Deliver \/ Fetch \/ Environment

Spec == Init /\ [][Next]_vars

\* Threads run on, the adapter takes its broadcasts, the CT fetches what it owes.
FairSpec == /\ Spec
            /\ \A t \in Threads : WF_vars(Step(t))
            /\ WF_vars(Deliver)
            /\ WF_vars(fetch /\ Fetch)

-----------------------------------------------------------------------------
(* Properties.                                                             *)

Sent(t, op) == Doing(t, op) /\ run'[t].todo = Tail(run[t].todo)

\* Whatever order registration, track change, broadcast and fetch take, a CT
\* registered for TRACK_CHANGED ends up showing the track in the file: an edge
\* used up by T4 or extended_T2 is one the CT learns of from their answer. The
\* exception is a T5 that has notified and then stores over, or beside, what the
\* receive loop did to the edge state meanwhile.
MetadataConverges == Quiet /\ asked[Track] # 0 /\ ~raced => shown = file.track

\* The comment on the state bytes (_trampolines.py:175) says that there is no
\* read-modify-write race on them; then that exception would do no harm.
NoEdgeLostToRaces == Quiet /\ asked[Track] # 0 => shown = file.track

\* At rest, if the last word a registered CT had on the play status was a
\* CHANGED of T9, that word is the status in the file.
ChangedStatusIsCurrent ==
  Quiet /\ asked[Psc] # 0 /\ heard.how = "changed" => heard.status = file.status

\* T5 and T9, unless they run during a command, notify a CT that has sent
\* GetCapabilities only of events it registered for since then, under the TID
\* of that registration: nothing is left over from an earlier connection.
NotifiesAsAsked ==
  [][(~overlap /\ greeted /\ Sent("adapter", "changed"))
       => asked[Event("adapter")] # 0 /\ conn = asked[Event("adapter")] - 1]_vars

\* Without a notification thread running beside it, a command is answered
\* under its own TID, but for a GetElementAttributes that met a track edge.
EchoesCommandTid ==
  [][(~overlap /\ \E op \in {"respond", "attributes", "interim"} : Sent("inbound", op))
       => conn = run["inbound"].tid \/ (Doing("inbound", "attributes") /\ Edge("inbound"))]_vars

\* TRACK_CHANGED makes the CT fetch, and T4 may send TRACK_CHANGED while it
\* answers: the exchange does not feed itself for ever.
FallsQuiet == <>[]Quiet
=============================================================================
