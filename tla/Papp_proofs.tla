----------------------------- MODULE Papp_proofs -----------------------------
(***************************************************************************)
(* Proofs about Papp, for any number of commands, Sets of the bridge,      *)
(* changes by the user and deaths.                                         *)
(***************************************************************************)
EXTENDS Papp, TLAPS

\* A CLOSE_WRITE is queued, is about to be, or has been taken and not acted on.
Pending == closed \/ observer.pc = "read" \/ \E w \in Writers : writing[w].pc = "close"

\* What was promised is a value the player has, and the app is there to see it.
PromiseInv ==
  \A a \in Attrs : promised[a] # 0 => promised[a] \in Advertised[a] /\ Watching

\* The promised bytes are on their way to the preferences or have arrived, with
\* nothing older left to come.
SetInv ==
  \A a \in Attrs : (promised[a] # 0 /\ bytes = Pair(a, promised[a])) =>
    \/ Pending
    \/ observer.pc = "dispatch" /\ observer.pair = bytes
    \/ observer.pc \in {"idle", "notify"} /\ Mapped(prefs)[a] = promised[a]

\* The listener will be called again; the observer tells only one that listens.
Called == posted > 0 \/ observer.pc = "notify"

\* What sendNow has read is current, or it will be called again.
MainInv ==
  /\ main \in {"flushed", "observing"} \cup Listening => published = fields
  /\ main = "shuffle" => Called \/ got.repeat = Mapped(prefs).repeat
  /\ main = "setPapp" => Called \/ got = Mapped(prefs)
  /\ main = "idle" => Called \/ published = Mapped(prefs)

IInv == TypeOK /\ PromiseInv /\ SetInv /\ MainInv

-----------------------------------------------------------------------------
LEMMA DispatchIsPrefs == ASSUME NEW p \in Prefs, NEW pair \in Pairs
                         PROVE  Dispatch(p, pair) \in Prefs
<1> DEFINE on == (pair.value = 2)
<1>1. on \in BOOLEAN
  OBVIOUS
<1>2. [p EXCEPT !.shuffle = on] \in Prefs
  <2> HIDE DEF on
  <2> QED BY <1>1 DEF Prefs
<1>3. CASE pair.attr = "repeat" /\ pair.value \in 1 .. 3
  <2>1. pair.value - 1 \in 0 .. 2
    BY <1>3
  <2>2. [p EXCEPT !.repeat = pair.value - 1] \in Prefs
    BY <2>1 DEF Prefs
  <2> QED BY <1>3, <2>2 DEF Dispatch
<1>4. CASE ~(pair.attr = "repeat" /\ pair.value \in 1 .. 3)
  BY <1>2, <1>4, Zenon DEF Dispatch
<1> QED BY <1>3, <1>4

LEMMA MappedIsSettings == ASSUME NEW p \in Prefs
                          PROVE  Mapped(p) \in Settings
  BY DEF Mapped, Prefs, Settings, RepeatToAvrcp, ShuffleToAvrcp

\* A Set of an advertised value is read back as that value.
LEMMA DispatchRoundTrip ==
  ASSUME NEW p \in Prefs, NEW a \in Attrs, NEW v \in Advertised[a]
  PROVE  Mapped(Dispatch(p, Pair(a, v)))[a] = v
<1>1. CASE a = "repeat"
  <2>1. v \in 1 .. 3
    BY <1>1 DEF Advertised
  <2>2. Dispatch(p, Pair(a, v)) = [p EXCEPT !.repeat = v - 1]
    BY <1>1, <2>1 DEF Dispatch, Pair
  <2>3. Dispatch(p, Pair(a, v)).repeat = v - 1
    BY <2>2 DEF Prefs
  <2> QED BY <1>1, <2>1, <2>3 DEF Mapped, RepeatToAvrcp
<1>2. CASE a = "shuffle"
  <2>1. v \in 1 .. 2
    BY <1>2 DEF Advertised
  <2>2. Dispatch(p, Pair(a, v)) = [p EXCEPT !.shuffle = (v = 2)]
    BY <1>2, <2>1 DEF Dispatch, Pair
  <2>3. Dispatch(p, Pair(a, v)).shuffle = (v = 2)
    BY <2>2 DEF Prefs
  <2>4. ShuffleToAvrcp(v = 2) = v
    BY <2>1 DEF ShuffleToAvrcp
  <2>5. Mapped(Dispatch(p, Pair(a, v))).shuffle = v
    BY <2>3, <2>4 DEF Mapped
  <2> QED BY <1>2, <2>5
<1> QED BY <1>1, <1>2 DEF Attrs

-----------------------------------------------------------------------------
LEMMA InitTypeOK == Init => TypeOK
<1> SUFFICES ASSUME Init PROVE TypeOK
  OBVIOUS
<1>1. NoPair \in Pairs
  BY DEF NoPair, Pair, Pairs
<1>2. /\ writing \in [Writers -> [pc : {"idle", "write", "close"}, pair : Pairs]]
      /\ observer \in [pc : {"idle", "read", "dispatch", "notify"}, pair : Pairs]
  BY <1>1 DEF Init, NotWriting, NotObserving
<1>3. \E asked \in SUBSET Attrs :
        reply \in [pdu : {"none", "set", "getCurrent", "attrText"},
                  status : {"ok", "invalid", "died"}, values : [asked -> 0 .. 3]]
  <2>1. NoValues \in [{} -> 0 .. 3] /\ {} \in SUBSET Attrs
    BY DEF NoValues
  <2> QED BY <2>1 DEF Init
<1>4. used \in [Environment -> Nat]
  BY DEF Init
<1>5. /\ got \in Settings /\ fields \in Settings /\ published \in Settings
      /\ promised \in Settings /\ prefs \in Prefs
  BY DEF Init, Settings, Off, Zeros, Prefs
<1> QED BY <1>1, <1>2, <1>3, <1>4, <1>5 DEF Init, TypeOK

LEMMA RespondTypeOK ==
  ASSUME NEW pdu \in {"none", "set", "getCurrent", "attrText"},
         NEW status \in {"ok", "invalid", "died"}, Respond(pdu, status, NoValues)
  PROVE  \E asked \in SUBSET Attrs :
           reply' \in [pdu : {"none", "set", "getCurrent", "attrText"},
                      status : {"ok", "invalid", "died"}, values : [asked -> 0 .. 3]]
<1>1. NoValues \in [{} -> 0 .. 3] /\ {} \in SUBSET Attrs
  BY DEF NoValues
<1> QED BY <1>1 DEF Respond

LEMMA UseTypeOK == ASSUME TypeOK, NEW k \in Environment, Use(k)
                   PROVE  used' \in [Environment -> Nat]
  BY DEF TypeOK, Use

LEMMA OpenTypeOK == ASSUME TypeOK, NEW w \in Writers, NEW p \in Pairs, Open(w, p)
                    PROVE  /\ bytes' \in Pairs
                           /\ writing' \in [Writers -> [pc : {"idle", "write", "close"},
                                                        pair : Pairs]]
  BY DEF TypeOK, Open, NoPair, Pair, Pairs

LEMMA NextTypeOK == TypeOK /\ [Next]_vars => TypeOK'
<1> SUFFICES ASSUME TypeOK, [Next]_vars
             PROVE  TypeOK'
  OBVIOUS
<1> DEFINE Replies == \E asked \in SUBSET Attrs :
             reply \in [pdu : {"none", "set", "getCurrent", "attrText"},
                       status : {"ok", "invalid", "died"}, values : [asked -> 0 .. 3]]
           WritingOK == writing \in [Writers -> [pc : {"idle", "write", "close"},
                                                 pair : Pairs]]
           ObserverOK == observer \in [pc : {"idle", "read", "dispatch", "notify"}, pair : Pairs]
<1>a. /\ Replies /\ WritingOK /\ ObserverOK
      /\ exists \in BOOLEAN /\ closed \in BOOLEAN /\ bytes \in Pairs
      /\ prefs \in Prefs /\ posted \in Nat
      /\ main \in {"dead"} \cup OnCreate \cup Listening
      /\ got \in Settings /\ fields \in Settings /\ published \in Settings
      /\ promised \in Settings /\ used \in [Environment -> Nat]
  BY DEF TypeOK
<1>b. /\ NoPair \in Pairs /\ Pair("other", 0) \in Pairs
      /\ NotWriting \in [pc : {"idle", "write", "close"}, pair : Pairs]
      /\ NotObserving \in [pc : {"idle", "read", "dispatch", "notify"}, pair : Pairs]
      /\ Off \in Settings /\ Zeros \in Settings /\ Watching \in BOOLEAN
  BY DEF NoPair, Pair, Pairs, NotWriting, NotObserving, Off, Zeros, Settings, Watching
<1>c. "commands" \in Environment /\ "bridge" \in Environment
      /\ "toggles" \in Environment /\ "deaths" \in Environment
  BY DEF Environment
<1>d. "T_papp" \in Writers /\ "bridge" \in Writers
  BY DEF Writers
<1> HIDE DEF Replies, WritingOK, ObserverOK
<1>e. SUFFICES /\ Replies' /\ WritingOK' /\ ObserverOK'
               /\ exists' \in BOOLEAN /\ closed' \in BOOLEAN /\ bytes' \in Pairs
               /\ prefs' \in Prefs /\ posted' \in Nat
               /\ main' \in {"dead"} \cup OnCreate \cup Listening
               /\ got' \in Settings /\ fields' \in Settings /\ published' \in Settings
               /\ promised' \in Settings /\ used' \in [Environment -> Nat]
  BY DEF TypeOK, Replies, WritingOK, ObserverOK
<1> USE <1>a, <1>b, <1>c, <1>d DEF setVars, appVars
<1>1. CASE PappSet
  <2>1. PICK a \in Attrs \cup {"other"}, v \in Values :
          /\ IF a \in Attrs /\ v \in Advertised[a]
                THEN \/ Open("T_papp", Pair(a, v)) /\ UNCHANGED <<exists, reply>>
                     \/ ~exists /\ Respond("set", "ok", NoValues) /\ UNCHANGED setVars
                ELSE Respond("set", "invalid", NoValues) /\ UNCHANGED setVars
          /\ Use("commands") /\ UNCHANGED <<appVars, promised>>
    BY <1>1 DEF PappSet
  <2>2. Pair(a, v) \in Pairs
    BY ValuesAssumption DEF Pair, Pairs
  <2>3. used' \in [Environment -> Nat]
    BY <2>1, UseTypeOK
  <2>4. CASE Open("T_papp", Pair(a, v)) /\ UNCHANGED <<exists, reply>>
    <3>1. bytes' \in Pairs /\ WritingOK'
      BY <2>2, <2>4, OpenTypeOK DEF WritingOK
    <3> QED BY <2>1, <2>3, <2>4, <3>1 DEF Replies, ObserverOK
  <2>5. CASE \E status \in {"ok", "invalid"} :
               Respond("set", status, NoValues) /\ UNCHANGED setVars
    <3>1. Replies'
      BY <2>5, RespondTypeOK DEF Replies
    <3> QED BY <2>1, <2>3, <2>5, <3>1 DEF WritingOK, ObserverOK
  <2> QED BY <2>1, <2>4, <2>5
<1>2. CASE BridgeSet
  <2>1. PICK a \in Attrs, v \in Values :
          /\ Use("bridge") /\ Open("bridge", Pair(a, v))
          /\ UNCHANGED <<exists, appVars, reply, promised>>
    BY <1>2 DEF BridgeSet
  <2>2. Pair(a, v) \in Pairs
    BY ValuesAssumption DEF Pair, Pairs
  <2>3. used' \in [Environment -> Nat] /\ bytes' \in Pairs /\ WritingOK'
    BY <2>1, <2>2, UseTypeOK, OpenTypeOK DEF WritingOK
  <2> QED BY <2>1, <2>3 DEF Replies, ObserverOK
<1>3. CASE GetCurrent
  <2>1. PICK asked \in {{a} : a \in Attrs \cup {"other"}} \cup {Attrs} :
          /\ Use("commands") /\ UNCHANGED <<setVars, appVars, promised>>
          /\ \/ Respond("getCurrent", "invalid", NoValues)
             \/ /\ asked # {"other"}
                /\ Respond("getCurrent", "ok",
                           [a \in asked |-> (IF exists THEN published ELSE Off)[a]])
    BY <1>3 DEF GetCurrent
  <2>2. used' \in [Environment -> Nat]
    BY <2>1, UseTypeOK
  <2>3. ASSUME Respond("getCurrent", "invalid", NoValues) PROVE Replies'
    BY <2>3, RespondTypeOK DEF Replies
  <2>4. ASSUME asked # {"other"},
               Respond("getCurrent", "ok",
                       [a \in asked |-> (IF exists THEN published ELSE Off)[a]])
        PROVE  Replies'
    <3>1. asked \in SUBSET Attrs
      BY <2>4 DEF Attrs
    <3> DEFINE live == IF exists THEN published ELSE Off
    <3>2. live \in Settings
      OBVIOUS
    <3>3. \A a \in Attrs : live[a] \in 0 .. 3
      <4> HIDE DEF live
      <4>1. live.repeat \in 0 .. 3 /\ live.shuffle \in 0 .. 3
        BY <3>2 DEF Settings
      <4> QED BY <4>1 DEF Attrs
    <3>4. [a \in asked |-> live[a]] \in [asked -> 0 .. 3]
      <4> HIDE DEF live
      <4> QED BY <3>1, <3>3
    <3> QED BY <2>4, <3>1, <3>4 DEF Replies, Respond
  <2> QED BY <2>1, <2>2, <2>3, <2>4 DEF WritingOK, ObserverOK
<1>4. CASE AttrText
  <2>1. PICK status \in {"ok", "died"} :
          /\ Use("commands") /\ Respond("attrText", status, NoValues)
          /\ UNCHANGED <<setVars, appVars, promised>>
    BY <1>4 DEF AttrText
  <2>2. used' \in [Environment -> Nat] /\ Replies'
    BY <2>1, UseTypeOK, RespondTypeOK DEF Replies
  <2> QED BY <2>1, <2>2 DEF WritingOK, ObserverOK
<1>5. CASE \E w \in Writers : Write(w)
  <2>0. PICK w \in Writers : Write(w)
    BY <1>5
  <2>1. writing[w].pair \in Pairs
    BY DEF WritingOK
  <2>2. WritingOK'
    BY <2>0 DEF Write, WritingOK
  <2>3. promised' \in Settings
    <3> DEFINE p == writing[w].pair
               v == IF Watching THEN p.value ELSE 0
    <3>1. CASE p.attr \in Attrs /\ p.value \in Advertised[p.attr]
      <4>1. promised' = [promised EXCEPT ![p.attr] = v]
        BY <2>0, <3>1 DEF Write
      <4>2. CASE p.attr = "repeat"
        <5>1. v \in 0 .. 3
          BY <3>1, <4>2 DEF Advertised
        <5> HIDE DEF v
        <5> QED BY <4>1, <4>2, <5>1 DEF Settings
      <4>3. CASE p.attr = "shuffle"
        <5>1. v \in 0 .. 2
          BY <3>1, <4>3 DEF Advertised
        <5> HIDE DEF v
        <5> QED BY <4>1, <4>3, <5>1 DEF Settings
      <4> QED BY <3>1, <4>2, <4>3 DEF Attrs
    <3>2. CASE ~(p.attr \in Attrs /\ p.value \in Advertised[p.attr])
      BY <2>0, <3>2 DEF Write
    <3> QED BY <3>1, <3>2
  <2> QED BY <2>0, <2>1, <2>2, <2>3 DEF Write, Replies, ObserverOK
<1>6. CASE \E w \in Writers : Close(w)
  <2>0. PICK w \in Writers : Close(w)
    BY <1>6
  <2>1. WritingOK' /\ closed' \in BOOLEAN
    BY <2>0 DEF Close, WritingOK
  <2>2. Replies'
    BY <2>0, RespondTypeOK DEF Close, Replies
  <2> QED BY <2>0, <2>1, <2>2 DEF Close, ObserverOK
<1>7. CASE \E w \in Writers : WriterDies(w)
  <2>0. PICK w \in Writers : WriterDies(w)
    BY <1>7
  <2>1. WritingOK' /\ closed' \in BOOLEAN
    BY <2>0 DEF WriterDies, WritingOK
  <2>2. used' \in [Environment -> Nat]
    BY <2>0, UseTypeOK DEF WriterDies
  <2> QED BY <2>0, <2>1, <2>2 DEF WriterDies, Replies, ObserverOK
<1>8. CASE OnEvent \/ ReadSet
  <2>1. ObserverOK'
    BY <1>8 DEF OnEvent, ReadSet, ObserverOK
  <2> QED BY <1>8, <2>1 DEF OnEvent, ReadSet, Replies, WritingOK
<1>9. CASE SetPreference
  <2>1. observer.pair \in Pairs
    BY DEF ObserverOK
  <2>2. prefs' \in Prefs /\ ObserverOK'
    BY <1>9, <2>1, DispatchIsPrefs DEF SetPreference, ObserverOK, NotObserving
  <2> QED BY <1>9, <2>2 DEF SetPreference, Replies, WritingOK
<1>17. CASE Notify
  <2>1. posted' \in Nat /\ ObserverOK'
    BY <1>17 DEF Notify, ObserverOK
  <2> QED BY <1>17, <2>1 DEF Notify, Replies, WritingOK
<1>10. CASE PrepareFiles
  BY <1>10 DEF PrepareFiles, Main, OnCreate, Replies, WritingOK, ObserverOK
<1>11. CASE FlushDefaults \/ StartObserver \/ RegisterListener \/ OnSharedPreferenceChanged
  BY <1>11 DEF FlushDefaults, StartObserver, RegisterListener, OnSharedPreferenceChanged,
               Main, MainOnly, OnCreate, Listening, Replies, WritingOK, ObserverOK
<1>12. CASE ReadRepeat \/ ReadShuffle
  <2>1. Mapped(prefs) \in Settings
    BY MappedIsSettings
  <2>2. got' \in Settings
    BY <1>12, <2>1 DEF ReadRepeat, ReadShuffle, Mapped, Settings
  <2> QED BY <1>12, <2>2 DEF ReadRepeat, ReadShuffle, Main, MainOnly, Listening, Replies,
                             WritingOK, ObserverOK
<1>13. CASE SetPapp
  BY <1>13 DEF SetPapp, Main, MainOnly, Listening, Replies, WritingOK, ObserverOK
<1>14. CASE Toggle
  <2>1. promised' \in Settings /\ prefs' \in Prefs
    BY <1>14 DEF Toggle, Settings
  <2>2. used' \in [Environment -> Nat]
    BY <1>14, UseTypeOK DEF Toggle
  <2> QED BY <1>14, <2>1, <2>2 DEF Toggle, Main, Listening, Replies, WritingOK, ObserverOK
<1>15. CASE AppDies
  <2>1. used' \in [Environment -> Nat]
    BY <1>15, UseTypeOK DEF AppDies
  <2>2. ObserverOK'
    BY <1>15 DEF AppDies, ObserverOK
  <2> QED BY <1>15, <2>1, <2>2 DEF AppDies, Replies, WritingOK
<1>16. CASE UNCHANGED vars
  BY <1>16 DEF vars, Replies, WritingOK, ObserverOK
<1> QED BY <1>1, <1>2, <1>3, <1>4, <1>5, <1>6, <1>7, <1>8, <1>9, <1>10, <1>11, <1>12,
           <1>13, <1>14, <1>15, <1>16, <1>17 DEF Next, Observer, MainThread

-----------------------------------------------------------------------------
LEMMA NextPromiseInv == TypeOK /\ PromiseInv /\ [Next]_vars => PromiseInv'
<1> SUFFICES ASSUME TypeOK, PromiseInv, [Next]_vars
             PROVE  PromiseInv'
  OBVIOUS
<1> USE DEF setVars, appVars
<1>1. CASE \E w \in Writers : Write(w)
  <2>1. PICK w \in Writers : Write(w)
    BY <1>1
  <2> SUFFICES ASSUME NEW a \in Attrs, promised'[a] # 0
               PROVE  promised'[a] \in Advertised[a] /\ Watching'
    BY DEF PromiseInv
  <2> DEFINE p == writing[w].pair
             v == IF Watching THEN p.value ELSE 0
  <2>2. Watching' = Watching
    BY <2>1 DEF Write, Watching
  <2>3. CASE /\ p.attr = a /\ p.value \in Advertised[a]
             /\ promised' = [promised EXCEPT ![a] = v]
    <3>1. promised'[a] = v
      BY <2>3 DEF TypeOK, Settings, Attrs
    <3> QED BY <2>2, <2>3, <3>1
  <2>4. CASE promised'[a] = promised[a]
    BY <2>2, <2>4 DEF PromiseInv
  <2>5. p.attr \in Attrs /\ p.attr # a => [promised EXCEPT ![p.attr] = v][a] = promised[a]
    BY DEF TypeOK, Settings, Attrs
  <2> QED BY <2>1, <2>3, <2>4, <2>5 DEF Write
<1>2. CASE Toggle
  BY <1>2 DEF Toggle, Main, PromiseInv, Attrs, Watching, TypeOK, Settings
<1>3. CASE AppDies
  BY <1>3 DEF AppDies, PromiseInv, Zeros, Attrs
<1>4. CASE promised' = promised /\ (Watching => Watching')
  BY <1>4 DEF PromiseInv
<1>5. ASSUME MainThread PROVE promised' = promised /\ (Watching => Watching')
  BY <1>5 DEF MainThread, PrepareFiles, FlushDefaults, StartObserver, RegisterListener,
              OnSharedPreferenceChanged, ReadRepeat, ReadShuffle, SetPapp, Main, MainOnly,
              Watching
<1>6. ASSUME \/ PappSet \/ BridgeSet \/ GetCurrent \/ AttrText \/ Observer
             \/ \E w \in Writers : Close(w) \/ WriterDies(w)
             \/ UNCHANGED vars
      PROVE  promised' = promised /\ (Watching => Watching')
  BY <1>6 DEF PappSet, BridgeSet, GetCurrent, AttrText, Observer, OnEvent, ReadSet,
              SetPreference, Notify, Close, WriterDies, vars, Watching
<1> QED BY <1>1, <1>2, <1>3, <1>4, <1>5, <1>6 DEF Next

\* While the bytes and the promises stay, the way to the preferences is open.
LEMMA NextSetInv == TypeOK /\ PromiseInv /\ SetInv /\ [Next]_vars => SetInv'
<1> SUFFICES ASSUME TypeOK, PromiseInv, SetInv, [Next]_vars,
                    NEW a \in Attrs, promised'[a] # 0, bytes' = Pair(a, promised'[a])
             PROVE  \/ Pending'
                    \/ observer'.pc = "dispatch" /\ observer'.pair = bytes'
                    \/ observer'.pc \in {"idle", "notify"} /\ Mapped(prefs)'[a] = promised'[a]
  BY DEF SetInv
<1> USE DEF setVars, appVars
<1>a. NoPair # Pair(a, promised'[a])
  BY DEF NoPair, Pair, Attrs
<1>b. PromiseInv'
  BY NextPromiseInv
<1>c. ASSUME promised'[a] = promised[a], bytes' = bytes
      PROVE  /\ promised[a] # 0 /\ bytes = Pair(a, promised[a])
             /\ \/ Pending
                \/ observer.pc = "dispatch" /\ observer.pair = bytes
                \/ observer.pc \in {"idle", "notify"} /\ Mapped(prefs)[a] = promised[a]
  BY <1>c DEF SetInv
<1>1. CASE /\ UNCHANGED <<bytes, observer, prefs, promised>>
           /\ Pending => Pending'
  <2>1. Mapped(prefs)' = Mapped(prefs)
    BY <1>1 DEF Mapped
  <2> QED BY <1>c, <1>1, <2>1
<1>2. ASSUME NEW w \in Writers, NEW p, Open(w, p) PROVE FALSE
  BY <1>a, <1>2 DEF Open
<1>3. ASSUME NEW w \in Writers, Write(w) PROVE Pending'
  <2>1. writing'[w].pc = "close"
    BY <1>3 DEF Write, TypeOK
  <2> QED BY <2>1 DEF Pending
<1>4. ASSUME NEW w \in Writers, Close(w) \/ WriterDies(w)
      PROVE  Pending'
  <2>1. Watching
    BY <1>4, <1>b DEF PromiseInv, Close, WriterDies, Watching
  <2> QED BY <1>4, <2>1 DEF Close, WriterDies, Pending
<1>5. CASE PappSet
  <2>1. UNCHANGED <<setVars, appVars, promised>>
    BY <1>2, <1>5 DEF PappSet, Writers
  <2> QED BY <1>1, <2>1 DEF Pending
<1>6. CASE BridgeSet
  BY <1>2, <1>6 DEF BridgeSet, Writers
<1>7. CASE OnEvent
  BY <1>7 DEF OnEvent, Pending, TypeOK
<1>8. CASE ReadSet
  <2>1. bytes # NoPair
    BY <1>a, <1>8 DEF ReadSet
  <2>2. observer' = [pc |-> "dispatch", pair |-> bytes] /\ bytes' = bytes
    BY <1>8, <2>1 DEF ReadSet
  <2> QED BY <2>2
<1>9. CASE SetPreference
  <2>1. promised' = promised /\ bytes' = bytes /\ prefs' = Dispatch(prefs, observer.pair)
        /\ observer.pc = "dispatch" /\ observer'.pc \in {"idle", "notify"}
    BY <1>9 DEF SetPreference, NotObserving
  <2>2. CASE Pending
    BY <1>9, <2>1, <2>2 DEF Pending, SetPreference
  <2>3. CASE observer.pair = bytes
    <3>1. promised[a] \in Advertised[a] /\ observer.pair = Pair(a, promised[a])
      BY <1>c, <2>1, <2>3 DEF PromiseInv
    <3>2. Mapped(Dispatch(prefs, observer.pair))[a] = promised[a]
      BY <3>1, DispatchRoundTrip DEF TypeOK
    <3>3. Mapped(prefs)' = Mapped(Dispatch(prefs, observer.pair))
      BY <2>1 DEF Mapped
    <3> QED BY <2>1, <3>2, <3>3
  <2> QED BY <1>c, <2>1, <2>2, <2>3
<1>16. CASE Notify
  <2>1. /\ UNCHANGED <<bytes, prefs, promised>> /\ (Pending => Pending')
        /\ observer.pc = "notify" /\ observer'.pc = "idle"
    BY <1>16 DEF Notify, NotObserving, Pending
  <2>2. Mapped(prefs)' = Mapped(prefs)
    BY <2>1 DEF Mapped
  <2> QED BY <1>c, <2>1, <2>2
<1>10. CASE PrepareFiles
  BY <1>10, <1>b DEF PromiseInv, PrepareFiles, Main, Watching
<1>11. CASE \/ FlushDefaults \/ StartObserver \/ RegisterListener
            \/ OnSharedPreferenceChanged \/ ReadRepeat \/ ReadShuffle \/ SetPapp
  <2>1. UNCHANGED <<setVars, closed, observer, prefs, promised>>
    BY <1>11 DEF FlushDefaults, StartObserver, RegisterListener, OnSharedPreferenceChanged,
                 ReadRepeat, ReadShuffle, SetPapp, MainOnly
  <2> QED BY <1>1, <2>1 DEF Pending
<1>12. CASE Toggle
  <2>1. /\ promised'[a] = promised[a]
        /\ Mapped(prefs')[a] = Mapped(prefs)[a]
    BY <1>12 DEF Toggle, Attrs, Mapped
  <2>2. Mapped(prefs)' = Mapped(prefs')
    BY DEF Mapped
  <2>3. bytes' = bytes /\ observer' = observer /\ (Pending => Pending')
    BY <1>12 DEF Toggle, Pending
  <2> QED BY <1>c, <2>1, <2>2, <2>3
<1>13. CASE AppDies
  BY <1>13 DEF AppDies, Zeros, Attrs
<1>14. CASE GetCurrent \/ AttrText
  BY <1>1, <1>14 DEF GetCurrent, AttrText, Pending
<1>15. CASE UNCHANGED vars
  BY <1>1, <1>15 DEF vars, Pending
<1> QED BY <1>3, <1>4, <1>5, <1>6, <1>7, <1>8, <1>9, <1>10, <1>11, <1>12, <1>13, <1>14,
           <1>15, <1>16 DEF Next, Observer, MainThread

LEMMA NextMainInv == TypeOK /\ MainInv /\ [Next]_vars => MainInv'
<1> SUFFICES ASSUME TypeOK, MainInv, [Next]_vars
             PROVE  MainInv'
  OBVIOUS
<1> USE DEF setVars, appVars, Called
<1>1. CASE /\ UNCHANGED <<main, published, fields, got, posted, prefs>>
           /\ observer.pc = "notify" => observer'.pc = "notify"
  <2>1. Mapped(prefs)' = Mapped(prefs)
    BY <1>1 DEF Mapped
  <2> QED BY <1>1, <2>1 DEF MainInv
<1>2. CASE SetPreference
  <2>1. UNCHANGED <<main, published, fields, got>> /\ posted \in Nat
    BY <1>2 DEF SetPreference, TypeOK
  <2>2. CASE prefs' = prefs \/ main \notin Listening
    <3>1. /\ posted' = posted /\ (prefs' = prefs => Mapped(prefs)' = Mapped(prefs))
          /\ observer.pc # "notify"
      BY <1>2, <2>2 DEF SetPreference, Mapped
    <3> QED BY <2>1, <2>2, <3>1 DEF MainInv, Listening
  <2>3. CASE prefs' # prefs /\ main \in Listening
    <3>1. observer'.pc = "notify"
      BY <1>2, <2>1, <2>3 DEF SetPreference, NotObserving
    <3> QED BY <2>1, <3>1 DEF MainInv
  <2> QED BY <2>2, <2>3
<1>3. CASE PrepareFiles \/ FlushDefaults \/ StartObserver \/ RegisterListener
  BY <1>3 DEF PrepareFiles, FlushDefaults, StartObserver, RegisterListener, Main, MainOnly,
              MainInv, Listening
<1>4. CASE OnSharedPreferenceChanged \/ Toggle
  BY <1>4 DEF OnSharedPreferenceChanged, Toggle, Main, MainOnly, MainInv, Listening
<1>5. CASE ReadRepeat
  <2>1. main' = "shuffle" /\ got'.repeat = RepeatToAvrcp(prefs.repeat) /\ prefs' = prefs
        /\ UNCHANGED <<published, fields>> /\ main \in Listening
    BY <1>5 DEF ReadRepeat, Main, MainOnly, TypeOK, Settings, Listening
  <2> QED BY <2>1 DEF MainInv, Mapped
<1>6. CASE ReadShuffle
  <2>1. /\ main' = "setPapp" /\ prefs' = prefs /\ posted' = posted /\ observer' = observer
        /\ main = "shuffle" /\ UNCHANGED <<published, fields>>
        /\ got' = [got EXCEPT !.shuffle = ShuffleToAvrcp(prefs.shuffle)]
    BY <1>6 DEF ReadShuffle, Main, MainOnly
  <2>2. Called \/ got' = [repeat |-> RepeatToAvrcp(prefs.repeat),
                            shuffle |-> ShuffleToAvrcp(prefs.shuffle)]
    BY <2>1 DEF MainInv, Mapped, TypeOK, Settings
  <2> QED BY <2>1, <2>2 DEF MainInv, Mapped, Listening
<1>7. CASE SetPapp
  <2>1. /\ main = "setPapp" /\ main' = "idle" /\ posted' = posted /\ prefs' = prefs
        /\ observer' = observer /\ published' = got /\ fields' = got
    BY <1>7 DEF SetPapp, Main, MainOnly, Changed, MainInv, Listening
  <2>2. Mapped(prefs)' = Mapped(prefs)
    BY <2>1 DEF Mapped
  <2> QED BY <2>1, <2>2 DEF MainInv
<1>8. CASE AppDies
  BY <1>8 DEF AppDies, MainInv, Listening
<1>9. ASSUME \/ PappSet \/ BridgeSet \/ GetCurrent \/ AttrText \/ OnEvent \/ ReadSet
             \/ \E w \in Writers : Write(w) \/ Close(w) \/ WriterDies(w)
             \/ UNCHANGED vars
      PROVE  /\ UNCHANGED <<main, published, fields, got, posted, prefs>>
             /\ observer.pc = "notify" => observer'.pc = "notify"
  BY <1>9 DEF PappSet, BridgeSet, GetCurrent, AttrText, OnEvent, ReadSet, Write, Close,
              WriterDies, vars
<1>10. CASE Notify
  <2>1. UNCHANGED <<main, published, fields, got, prefs>> /\ posted' > 0
    BY <1>10 DEF Notify, TypeOK
  <2> QED BY <2>1 DEF MainInv
<1> QED BY <1>1, <1>2, <1>3, <1>4, <1>5, <1>6, <1>7, <1>8, <1>9, <1>10
        DEF Next, Observer, MainThread

-----------------------------------------------------------------------------
LEMMA InitIInv == Init => IInv
<1>1. Init => PromiseInv /\ SetInv
  BY DEF Init, PromiseInv, SetInv, Zeros, Attrs
<1>2. Init => MainInv
  BY DEF Init, MainInv, Listening
<1> QED BY <1>1, <1>2, InitTypeOK DEF IInv

\* The invariant of the round trip, for any number of writers' turns and deaths.
THEOREM Inductive == Spec => []IInv
<1>1. IInv /\ [Next]_vars => IInv'
  BY NextTypeOK, NextPromiseInv, NextSetInv, NextMainInv DEF IInv
<1> QED BY InitIInv, <1>1, PTL DEF Spec

\* Every reachable state of the round trip is well typed.
THEOREM TypeCorrect == Spec => []TypeOK
<1>1. IInv => TypeOK
  BY DEF IInv
<1> QED BY Inductive, <1>1, PTL

\* The last Set that reached y1-papp-set is in force once everybody is done with
\* it: dispatched from PappSetFileObserver, whatever the writers did meanwhile.
THEOREM LastSetWins == Spec => []LastSetApplied
<1>1. IInv => LastSetApplied
  <2> SUFFICES ASSUME IInv, SetAtRest, NEW a \in Attrs,
                      promised[a] # 0, bytes = Pair(a, promised[a])
               PROVE  Mapped(prefs)[a] = promised[a]
    BY DEF LastSetApplied
  <2>1. ~Pending /\ observer.pc = "idle"
    BY DEF SetAtRest, Pending, Idle
  <2> QED BY <2>1 DEF IInv, SetInv
<1> QED BY Inductive, <1>1, PTL

\* y1-track-info shows the preferences whenever PappStateBroadcaster has no call
\* left to serve.
THEOREM PublishedFollows == Spec => []SettingsConverge
<1>1. IInv => SettingsConverge
  <2> SUFFICES ASSUME IInv, main = "idle", posted = 0, observer.pc # "notify"
               PROVE  published = Mapped(prefs)
    BY DEF SettingsConverge
  <2> QED BY DEF IInv, MainInv, Called
<1> QED BY Inductive, <1>1, PTL
-----------------------------------------------------------------------------
\* What the app publishes is advertised, but for the zeros of a new file; the
\* fields start as OFF, and what sendNow reads is mapped from a preference.
OfferInv ==
  /\ \A a \in Attrs : got[a] \in Advertised[a] /\ fields[a] \in Advertised[a]
  /\ published = Zeros \/ \A a \in Attrs : published[a] \in Advertised[a]

LEMMA MappedIsAdvertised ==
  ASSUME NEW p \in Prefs
  PROVE  /\ RepeatToAvrcp(p.repeat) \in Advertised["repeat"]
         /\ ShuffleToAvrcp(p.shuffle) \in Advertised["shuffle"]
  BY DEF Prefs, Advertised, RepeatToAvrcp, ShuffleToAvrcp

LEMMA OffIsAdvertised == \A a \in Attrs : Off[a] \in Advertised[a]
  BY DEF Off, Attrs, Advertised

LEMMA NextOfferInv == TypeOK /\ OfferInv /\ [Next]_vars => OfferInv'
<1> SUFFICES ASSUME TypeOK, OfferInv, [Next]_vars
             PROVE  OfferInv'
  OBVIOUS
<1> USE DEF setVars, appVars
<1>1. CASE UNCHANGED <<got, fields, published>>
  BY <1>1 DEF OfferInv
<1>2. CASE FlushDefaults
  BY <1>2 DEF FlushDefaults, OfferInv
<1>3. CASE ReadRepeat \/ ReadShuffle
  <2>1. got \in Settings /\ prefs \in Prefs
    BY DEF TypeOK
  <2>2. \A a \in Attrs : got'[a] \in Advertised[a]
    BY <1>3, <2>1, MappedIsAdvertised DEF ReadRepeat, ReadShuffle, OfferInv, Attrs, Settings
  <2> QED BY <1>3, <2>2 DEF ReadRepeat, ReadShuffle, OfferInv
<1>4. CASE SetPapp
  BY <1>4, OffIsAdvertised DEF SetPapp, OfferInv
<1>5. CASE AppDies
  BY <1>5, OffIsAdvertised DEF AppDies, OfferInv
<1>6. ASSUME \/ PappSet \/ BridgeSet \/ GetCurrent \/ AttrText \/ Observer \/ Toggle
             \/ \E w \in Writers : Write(w) \/ Close(w) \/ WriterDies(w)
             \/ PrepareFiles \/ StartObserver \/ RegisterListener
             \/ OnSharedPreferenceChanged \/ UNCHANGED vars
      PROVE  UNCHANGED <<got, fields, published>>
  BY <1>6 DEF PappSet, BridgeSet, GetCurrent, AttrText, Observer, OnEvent, ReadSet,
              SetPreference, Notify, Toggle, Write, Close, WriterDies, PrepareFiles, StartObserver,
              RegisterListener, OnSharedPreferenceChanged, MainOnly, vars
<1> QED BY <1>1, <1>2, <1>3, <1>4, <1>5, <1>6 DEF Next, Observer, MainThread

\* A response to GetCurrent is made of what is published, or of OFF.
LEMMA GetCurrentAdvertised ==
  ASSUME OfferInv, [Next]_vars, reply' # reply, reply'.pdu = "getCurrent",
         ~(exists /\ published = Zeros)
  PROVE  \A a \in DOMAIN reply'.values : reply'.values[a] \in Advertised[a]
<1>1. ASSUME ~GetCurrent PROVE FALSE
  <2>1. ASSUME NEW pdu \in {"set", "attrText"}, NEW status, NEW values,
               Respond(pdu, status, values)
        PROVE  FALSE
    BY <2>1 DEF Respond
  <2> QED BY <1>1, <2>1 DEF Next, PappSet, BridgeSet, AttrText, Observer, OnEvent, ReadSet,
                SetPreference, Notify, Toggle, Write, Close, WriterDies, PrepareFiles, FlushDefaults,
                StartObserver, RegisterListener, OnSharedPreferenceChanged, ReadRepeat,
                ReadShuffle, SetPapp, AppDies, MainThread, MainOnly, setVars, vars
<1>2. PICK asked \in {{a} : a \in Attrs \cup {"other"}} \cup {Attrs} :
        \/ Respond("getCurrent", "invalid", NoValues)
        \/ /\ asked # {"other"}
           /\ Respond("getCurrent", "ok",
                      [a \in asked |-> (IF exists THEN published ELSE Off)[a]])
  BY <1>1 DEF GetCurrent
<1>3. CASE Respond("getCurrent", "invalid", NoValues)
  BY <1>3 DEF Respond, NoValues
<1>4. CASE /\ asked # {"other"}
           /\ Respond("getCurrent", "ok",
                      [a \in asked |-> (IF exists THEN published ELSE Off)[a]])
  <2>1. asked \subseteq Attrs
    BY <1>4
  <2>2. \A a \in Attrs : (IF exists THEN published ELSE Off)[a] \in Advertised[a]
    BY OffIsAdvertised DEF OfferInv
  <2> QED BY <1>4, <2>1, <2>2 DEF Respond
<1> QED BY <1>2, <1>3, <1>4

\* The app never reports a value that ListValues does not offer, through any
\* number of restarts of the player, except before the first flush of a new
\* y1-track-info.
THEOREM GetCurrentOffered == Spec => AnswersAdvertised
<1>1. Init => OfferInv
  BY OffIsAdvertised DEF Init, OfferInv
<1>2. Spec => []OfferInv
  <2>1. TypeOK /\ OfferInv /\ [Next]_vars => OfferInv'
    BY NextOfferInv
  <2> QED BY <1>1, <2>1, TypeCorrect, PTL DEF Spec
<1> DEFINE Offered == (reply' # reply /\ reply'.pdu = "getCurrent" /\ ~(exists /\ published = Zeros))
                        => \A a \in DOMAIN reply'.values : reply'.values[a] \in Advertised[a]
<1>3. ASSUME OfferInv, [Next]_vars PROVE [Offered]_vars
  BY <1>3, GetCurrentAdvertised
<1> QED BY <1>2, <1>3, PTL DEF Spec, AnswersAdvertised
==============================================================================
