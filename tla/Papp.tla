-------------------------------- MODULE Papp --------------------------------
(***************************************************************************)
(* Player application settings, there and back.  The CT's Set goes through *)
(* T_papp (or Y1Bridge) into the two bytes of y1-papp-set; closing the     *)
(* file wakes PappSetFileObserver in the music app, which sets a           *)
(* preference; the preference listener PappStateBroadcaster, on the app's  *)
(* main thread, publishes both settings in y1-track-info, where T_papp     *)
(* reads them for GetCurrent.  A flush of y1-track-info is one step here   *)
(* and always succeeds; DoubleBuffer has its failures.                     *)
(***************************************************************************)
EXTENDS Integers

CONSTANTS Values, \* value bytes that the CT and the callers of the bridge send
          Limit   \* bounds: how many commands, sets of the bridge, toggles by the
                  \* user, deaths of a process the environment makes

Environment == {"commands", "bridge", "toggles", "deaths"}
ASSUME ValuesAssumption == Values \subseteq 0 .. 255
ASSUME LimitAssumption == Limit \in [Environment -> Nat]

VARIABLES
  exists,     \* y1-papp-set and y1-track-info have been created
  bytes,      \* what y1-papp-set holds
  closed,     \* inotify: a CLOSE_WRITE is queued; a second one merges with it
  writing,    \* per writer of y1-papp-set, how far it is
  observer,   \* the FileObserver thread
  prefs,      \* the "settings" preferences: musicRepeatMode, musicIsShuffle
  posted,     \* listener calls posted to the main thread
  main,       \* where the main thread is, in onCreate or in sendNow
  got,        \* sendNow's locals
  fields,     \* mRepeatAvrcp, mShuffleAvrcp
  published,  \* bytes 795 and 796 of the active slot
  reply,      \* external: the CT's last response
  promised,   \* history: per attribute the value the CT or the bridge has set last, or 0
  used        \* counters for the bounds

setVars == <<exists, bytes, writing>>
appVars == <<closed, observer, prefs, posted, main, got, fields, published>>
vars == <<setVars, appVars, reply, promised, used>>

Writers == {"T_papp", "bridge"}
Attrs == {"repeat", "shuffle"}
Pairs == [attr : Attrs \cup {"other", "none"}, value : 0 .. 255]
Pair(a, v) == [attr |-> a, value |-> v]
NoPair == Pair("none", 0)      \* nothing, or a truncated file
Zeros == [repeat |-> 0, shuffle |-> 0]
Off == [repeat |-> 1, shuffle |-> 1]
Settings == [repeat : 0 .. 3, shuffle : 0 .. 2]
Prefs == [repeat : 0 .. 2, shuffle : BOOLEAN]
OnCreate == {"prepared", "flushed", "observing"}
Listening == {"repeat", "shuffle", "setPapp", "idle"}  \* the listener is registered

\* What the app offers: ListValues, and what Set accepts.
Advertised == [repeat |-> 1 .. 3, shuffle |-> 1 .. 2]

TypeOK ==
  /\ exists \in BOOLEAN /\ closed \in BOOLEAN
  /\ bytes \in Pairs
  /\ writing \in [Writers -> [pc : {"idle", "write", "close"}, pair : Pairs]]
  /\ observer \in [pc : {"idle", "read", "dispatch", "notify"}, pair : Pairs]
  /\ prefs \in Prefs /\ posted \in Nat
  /\ main \in {"dead"} \cup OnCreate \cup Listening
  /\ got \in Settings /\ fields \in Settings /\ published \in Settings
  /\ \E asked \in SUBSET Attrs :
       reply \in [pdu : {"none", "set", "getCurrent", "attrText"},
                 status : {"ok", "invalid", "died"}, values : [asked -> 0 .. 3]]
  /\ promised \in Settings
  /\ used \in [Environment -> Nat]

Watching == main \notin {"dead", "prepared", "flushed"}
Idle(w) == writing[w].pc = "idle"
NotWriting == [pc |-> "idle", pair |-> NoPair]
NotObserving == [pc |-> "idle", pair |-> NoPair]
Use(k) == used[k] < Limit[k] /\ used' = [used EXCEPT ![k] = @ + 1]
Respond(pdu, status, values) ==
  reply' = [pdu |-> pdu, status |-> status, values |-> values]
NoValues == [a \in {} |-> 0]

\* The first start of the patched player.
Init ==
  /\ exists = FALSE /\ bytes = NoPair /\ closed = FALSE
  /\ writing = [w \in Writers |-> NotWriting]
  /\ observer = NotObserving
  /\ prefs = [repeat |-> 0, shuffle |-> FALSE] /\ posted = 0
  /\ main = "dead" /\ got = Off /\ fields = Off /\ published = Zeros
  /\ reply = [pdu |-> "none", status |-> "ok", values |-> NoValues]
  /\ promised = Zeros
  /\ used = [k \in Environment |-> 0]

-----------------------------------------------------------------------------
(* Writing y1-papp-set.                                                    *)

\* open(O_WRONLY|O_TRUNC), which fails as long as the app has not created it.
Open(w, p) ==
  /\ exists
  /\ bytes' = NoPair
  /\ writing' = [writing EXCEPT ![w] = [pc |-> "write", pair |-> p]]

\* T_papp 0x14, with the first pair of the command.  A file that cannot be
\* opened is skipped and the Set acknowledged all the same.
PappSet == \E a \in Attrs \cup {"other"}, v \in Values :
  /\ Idle("T_papp") /\ Use("commands")
  /\ IF a \in Attrs /\ v \in Advertised[a]
        THEN \/ Open("T_papp", Pair(a, v)) /\ UNCHANGED <<exists, reply>>
             \/ ~exists /\ Respond("set", "ok", NoValues) /\ UNCHANGED setVars
        ELSE Respond("set", "invalid", NoValues) /\ UNCHANGED setVars
  /\ UNCHANGED <<appVars, promised>>

\* The Binder call setPlayerApplicationSettingValue: any value, no open error.
BridgeSet == \E a \in Attrs, v \in Values :
  /\ Idle("bridge") /\ Use("bridge")
  /\ Open("bridge", Pair(a, v))
  /\ UNCHANGED <<exists, appVars, reply, promised>>

\* Both writers write at the start of the file.
Write(w) ==
  /\ writing[w].pc = "write"
  /\ LET p == writing[w].pair IN
       /\ bytes' = p
       /\ promised' = IF p.attr \in Attrs /\ p.value \in Advertised[p.attr]
                         THEN [promised EXCEPT ![p.attr] = IF Watching THEN p.value ELSE 0]
                         ELSE promised
  /\ writing' = [writing EXCEPT ![w].pc = "close"]
  /\ UNCHANGED <<exists, appVars, reply, used>>

Close(w) ==
  /\ writing[w].pc = "close"
  /\ writing' = [writing EXCEPT ![w] = NotWriting]
  /\ closed' = Watching
  /\ IF w = "T_papp" THEN Respond("set", "ok", NoValues) ELSE UNCHANGED reply
  /\ UNCHANGED <<exists, bytes, observer, prefs, posted, main, got, fields, published,
                 promised, used>>

\* The process of w dies; the kernel closes what it had open.
WriterDies(w) ==
  /\ ~Idle(w) /\ Use("deaths")
  /\ writing' = [writing EXCEPT ![w] = NotWriting]
  /\ closed' = Watching
  /\ UNCHANGED <<exists, bytes, observer, prefs, posted, main, got, fields, published,
                 reply, promised>>

-----------------------------------------------------------------------------
(* Reading: GetCurrent and AttrText.                                       *)

\* get_current: nothing mapped reads as OFF; with n = 1 only what was asked for,
\* and an attribute the player does not have is refused.
GetCurrent == \E asked \in {{a} : a \in Attrs \cup {"other"}} \cup {Attrs} :
  /\ Idle("T_papp") /\ Use("commands")
  /\ LET live == IF exists THEN published ELSE Off IN
       IF asked = {"other"} THEN Respond("getCurrent", "invalid", NoValues)
       ELSE Respond("getCurrent", "ok", [a \in asked |-> live[a]])
  /\ UNCHANGED <<setVars, appVars, promised>>

ConnBase == 4096   \* r5 on entry: conn - 8, an address

\* The walk over the attributes asked for keeps its flags in r4 and r5.
R5AfterWalk(asked) == IF "shuffle" \in asked THEN 1 ELSE 0

\* T_papp 0x15: the builder is given r5 + 8 as the connection and dies of it
\* unless r5 still is the base.
AttrText == \E asked \in SUBSET Attrs \ {{}} :
  /\ Idle("T_papp") /\ Use("commands")
  /\ Respond("attrText", IF R5AfterWalk(asked) = ConnBase THEN "ok" ELSE "died", NoValues)
  /\ UNCHANGED <<setVars, appVars, promised>>

-----------------------------------------------------------------------------
(* The observer thread of the music app.                                   *)

\* Mutants: the AVRCP value taken for the mode; Shuffle not handled.
DispatchRaw(p, pair) ==
  IF pair.attr = "repeat" /\ pair.value \in 1 .. 3
     THEN [p EXCEPT !.repeat = pair.value % 3] ELSE p
DispatchRepeatOnly(p, pair) ==
  IF pair.attr = "repeat" /\ pair.value \in 1 .. 3
     THEN [p EXCEPT !.repeat = pair.value - 1] ELSE p

\* From the AVRCP pair to the player's preferences; anything else is ignored.
Dispatch(p, pair) ==
  IF pair.attr = "repeat" /\ pair.value \in 1 .. 3
     THEN [p EXCEPT !.repeat = pair.value - 1]
  ELSE IF pair.attr = "shuffle" /\ pair.value \in 1 .. 2
     THEN [p EXCEPT !.shuffle = (pair.value = 2)]
  ELSE p

\* The thread takes the event off the queue ...
OnEvent ==
  /\ observer.pc = "idle" /\ closed
  /\ closed' = FALSE
  /\ observer' = [pc |-> "read", pair |-> NoPair]
  /\ UNCHANGED <<setVars, prefs, posted, main, got, fields, published, reply, promised, used>>

\* ... reads the file as it is by then; fewer than two bytes end the call ...
ReadSet ==
  /\ observer.pc = "read"
  /\ observer' = IF bytes = NoPair THEN NotObserving
                 ELSE [pc |-> "dispatch", pair |-> bytes]
  /\ UNCHANGED <<setVars, closed, prefs, posted, main, got, fields, published, reply,
                 promised, used>>

\* ... commits the preference, which finds out whether it changes and who listens ...
SetPreference ==
  /\ observer.pc = "dispatch"
  /\ prefs' = Dispatch(prefs, observer.pair)
  /\ observer' = IF prefs' # prefs /\ main \in Listening
                   THEN [NotObserving EXCEPT !.pc = "notify"] ELSE NotObserving
  /\ UNCHANGED <<setVars, closed, posted, main, got, fields, published, reply, promised,
                 used>>

\* ... and posts the call of the listener to the main thread.
Notify ==
  /\ observer.pc = "notify"
  /\ observer' = NotObserving
  /\ posted' = posted + 1
  /\ UNCHANGED <<setVars, closed, prefs, main, got, fields, published, reply, promised,
                 used>>

-----------------------------------------------------------------------------
(* The main thread of the music app.                                       *)

Main(from, to) == main = from /\ main' = to
MainOnly == UNCHANGED <<setVars, closed, observer, prefs, reply, promised, used>>

\* init, prepareFilesLocked: y1-papp-set is created as two zero bytes.
PrepareFiles ==
  /\ Main("dead", "prepared")
  /\ exists' = TRUE
  /\ bytes' = IF exists THEN bytes ELSE Pair("other", 0)
  /\ UNCHANGED <<writing, closed, observer, prefs, posted, got, fields, published, reply,
                 promised, used>>

\* init, first flush: the defaults of the constructor, over whatever the last process published.
FlushDefaults ==
  /\ Main("prepared", "flushed")
  /\ published' = fields
  /\ MainOnly /\ UNCHANGED <<posted, got, fields>>

StartObserver ==
  /\ Main("flushed", "observing")
  /\ MainOnly /\ UNCHANGED <<posted, got, fields, published>>

\* The listener is registered before the first sendNow.
RegisterListener ==
  /\ Main("observing", "repeat")
  /\ MainOnly /\ UNCHANGED <<posted, got, fields, published>>

OnSharedPreferenceChanged ==
  /\ Main("idle", "repeat") /\ posted > 0
  /\ posted' = posted - 1
  /\ MainOnly /\ UNCHANGED <<got, fields, published>>

\* Mutants: the mode as it is; counted from two.
RepeatToAvrcpRaw(mode) == mode
RepeatToAvrcpShifted(mode) == mode + 2

RepeatToAvrcp(mode) == IF mode = 0 THEN 1 ELSE IF mode = 1 THEN 2 ELSE 3
ShuffleToAvrcp(on) == IF on THEN 2 ELSE 1

\* sendNow: one preference, then the other ...
ReadRepeat ==
  /\ Main("repeat", "shuffle")
  /\ got' = [got EXCEPT !.repeat = RepeatToAvrcp(prefs.repeat)]
  /\ MainOnly /\ UNCHANGED <<posted, fields, published>>

ReadShuffle ==
  /\ Main("shuffle", "setPapp")
  /\ got' = [got EXCEPT !.shuffle = ShuffleToAvrcp(prefs.shuffle)]
  /\ MainOnly /\ UNCHANGED <<posted, fields, published>>

\* Mutant: setPapp looks at Repeat only.
ChangedRepeat(new, old) == new.repeat # old.repeat

Changed(new, old) == new # old

\* ... then setPapp, which flushes if a field changes, and the wake-up of T9.
SetPapp ==
  /\ Main("setPapp", "idle")
  /\ fields' = got
  /\ published' = IF Changed(got, fields) THEN got ELSE published
  /\ got' = Off
  /\ MainOnly /\ UNCHANGED posted

\* The user changes a setting; on the main thread the listener is called at once.
Toggle == \E p \in Prefs :
  /\ Main("idle", "repeat") /\ Use("toggles")
  /\ p # prefs /\ (p.repeat = prefs.repeat \/ p.shuffle = prefs.shuffle)
  /\ prefs' = p
  /\ promised' = [repeat |-> IF p.repeat = prefs.repeat THEN promised.repeat ELSE 0,
                  shuffle |-> IF p.shuffle = prefs.shuffle THEN promised.shuffle ELSE 0]
  /\ UNCHANGED <<setVars, closed, observer, posted, got, fields, published, reply>>

\* The app dies, its watch with it; apply() may not have saved the preferences.
AppDies ==
  /\ main # "dead" /\ main' = "dead" /\ Use("deaths")
  /\ closed' = FALSE /\ observer' = NotObserving /\ posted' = 0
  /\ got' = Off /\ fields' = Off
  /\ prefs' \in Prefs
  /\ promised' = Zeros
  /\ UNCHANGED <<setVars, published, reply>>

-----------------------------------------------------------------------------
Observer == OnEvent \/ ReadSet \/ SetPreference \/ Notify
MainThread == \/ PrepareFiles \/ FlushDefaults \/ StartObserver \/ RegisterListener
              \/ OnSharedPreferenceChanged \/ ReadRepeat \/ ReadShuffle \/ SetPapp

Next ==
  \/ PappSet \/ BridgeSet \/ GetCurrent \/ AttrText
  \/ \E w \in Writers : Write(w) \/ Close(w) \/ WriterDies(w)
  \/ Observer \/ MainThread \/ Toggle \/ AppDies

Spec == Init /\ [][Next]_vars

\* Every thread goes on with what it has begun.
FairSpec == /\ Spec
            /\ \A w \in Writers : WF_vars(Write(w)) /\ WF_vars(Close(w))
            /\ WF_vars(Observer) /\ WF_vars(MainThread)

-----------------------------------------------------------------------------
(* Properties.                                                             *)

Mapped(p) == [repeat |-> RepeatToAvrcp(p.repeat), shuffle |-> ShuffleToAvrcp(p.shuffle)]

SetAtRest == (\A w \in Writers : Idle(w)) /\ ~closed /\ observer.pc = "idle"

\* Once writers and observer are done, the Set whose bytes are in y1-papp-set is
\* in force, unless the user has changed that setting or the app has restarted
\* since: no interleaving of the two writers with the observer loses the last Set.
LastSetApplied ==
  SetAtRest => \A a \in Attrs : (promised[a] # 0 /\ bytes = Pair(a, promised[a]))
                                  => Mapped(prefs)[a] = promised[a]

\* Whenever the main thread has nothing left to do and no call of the listener
\* is on its way, y1-track-info shows the preferences, however those calls and
\* the setters interleave, and whatever an earlier process of the app published.
SettingsConverge ==
  main = "idle" /\ posted = 0 /\ observer.pc # "notify" => published = Mapped(prefs)

\* GetCurrent reports only values that ListValues advertises, except between the
\* creation of y1-track-info and its first flush.
AnswersAdvertised ==
  [][(reply' # reply /\ reply'.pdu = "getCurrent" /\ ~(exists /\ published = Zeros))
       => \A a \in DOMAIN reply'.values : reply'.values[a] \in Advertised[a]]_vars

\* A Set that is not followed by another one reaches y1-track-info.
SetsTakeEffect ==
  \A a \in Attrs : \A v \in Advertised[a] :
    (bytes = Pair(a, v) /\ promised[a] = v)
      ~> (published[a] = v \/ bytes # Pair(a, v) \/ promised[a] # v)
=============================================================================
