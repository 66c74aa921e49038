-------------------------- MODULE Trampolines_proofs --------------------------
(***************************************************************************)
(* Theorems about Trampolines, for any tracks, statuses, events, TIDs and  *)
(* bounds.  SessionInv says for each point of each handler what holds of   *)
(* the registrations and the TID; StatusInv and TrackInv say why a change  *)
(* of the file reaches the controller: who is still to read it, who has    *)
(* read it and not stored it, and who is still to notify.                  *)
(***************************************************************************)
EXTENDS Trampolines, SequenceTheorems, TLAPS

-----------------------------------------------------------------------------
(* The lists of accesses.                                                  *)

Plain == {"tid", "clear", "respond", "attributes", "read", "load", "getAttrs", "T5", "T9",
          "storeTrack", "storeRest"}
Eventful == {"save", "restore", "changed", "interim"}
Gates == {Gate(e, Changed(e)) : e \in Events}
StatusGate == Gate(Psc, Changed(Psc) \o IfSubscribed(Ncc))
Accesses == {Op(o, 0) : o \in Plain} \cup {Op(o, e) : o \in Eventful, e \in Events}
              \cup Gates \cup {StatusGate}
Lists == Seq(Accesses)

\* What is left of the receive loop's handlers.
Answering == <<Op("respond", 0)>>
Clearing == <<Op("clear", 0), Op("respond", 0)>>
Polling == <<Op("read", 0), Op("respond", 0)>>
Reading == <<Op("read", 0), Op("load", 0), Op("getAttrs", 0)>>
Loading == <<Op("load", 0), Op("getAttrs", 0)>>
Deciding == <<Op("getAttrs", 0)>>
Attributing == <<Op("attributes", 0)>>
Storing == <<Op("storeTrack", 0), Op("attributes", 0)>>
Telling == <<Op("changed", Track), Op("storeTrack", 0), Op("attributes", 0)>>
Turning == <<Op("restore", Track), Op("changed", Track), Op("storeTrack", 0),
             Op("attributes", 0)>>
Interim(e) == <<Op("interim", e)>>
Restoring(e) == <<Op("restore", e), Op("interim", e)>>
Marking(e) == <<Op("storeTrack", 0), Op("restore", e), Op("interim", e)>>
Saved(e) == IF e = Track THEN <<Op("read", 0), Op("storeTrack", 0), Op("restore", e),
                                Op("interim", e)>>
                         ELSE <<Op("read", 0), Op("restore", e), Op("interim", e)>>

\* And of the adapter's, up to their decision.
Loading5 == <<Op("load", 0), Op("T5", 0)>>
Deciding5 == <<Op("T5", 0)>>
Loading9 == <<Op("load", 0), Op("T9", 0)>>
Deciding9 == <<Op("T9", 0)>>

-----------------------------------------------------------------------------
(* Sequences.                                                              *)

\* A list is an access and the list of the others.
LEMMA Cons ==
  ASSUME NEW S, NEW x \in S, NEW s \in Seq(S)
  PROVE  /\ <<x>> \o s \in Seq(S) /\ <<x>> \o s # <<>>
         /\ Head(<<x>> \o s) = x /\ Tail(<<x>> \o s) = s
  BY SMT

LEMMA Two == ASSUME NEW x, NEW y PROVE <<x>> \o <<y>> = <<x, y>>
<1> DEFINE S == {x, y}
<1>1. <<x>> \o <<y>> \in Seq(S) /\ <<x, y>> \in Seq(S) BY SMT
<1>2. Len(<<x>> \o <<y>>) = 2 /\ Len(<<x, y>>) = 2 BY SMT
<1>3. \A i \in 1 .. 2 : (<<x>> \o <<y>>)[i] = <<x, y>>[i] BY SMT
<1> HIDE DEF S
<1> QED BY <1>1, <1>2, <1>3, SeqEqual

LEMMA Three ==
  ASSUME NEW x, NEW y, NEW z
  PROVE  <<x, y>> \o <<z>> = <<x, y, z>> /\ <<x>> \o <<y, z>> = <<x, y, z>>
<1> DEFINE S == {x, y, z}  l == <<x, y>> \o <<z>>  r == <<x>> \o <<y, z>>  f == <<x, y, z>>
<1>1. l \in Seq(S) /\ r \in Seq(S) /\ f \in Seq(S) BY SMT
<1>2. Len(l) = 3 /\ Len(r) = 3 /\ Len(f) = 3 BY SMT
<1>3. \A i \in 1 .. 3 : l[i] = f[i] /\ r[i] = f[i] BY SMT
<1>4. l = f /\ r = f
  <2> HIDE DEF S, l, r, f
  <2> QED BY <1>1, <1>2, <1>3, SeqEqual
<1> QED BY <1>4

LEMMA Four ==
  ASSUME NEW w, NEW x, NEW y, NEW z
  PROVE  /\ <<w, x, y>> \o <<z>> = <<w, x, y, z>>
         /\ <<w, x>> \o <<y, z>> = <<w, x, y, z>>
         /\ <<w>> \o <<x, y, z>> = <<w, x, y, z>>
<1> DEFINE S == {w, x, y, z}  l == <<w, x, y>> \o <<z>>  r == <<w, x>> \o <<y, z>>
           m == <<w>> \o <<x, y, z>>  f == <<w, x, y, z>>
<1>1. l \in Seq(S) /\ r \in Seq(S) /\ m \in Seq(S) /\ f \in Seq(S) BY SMT
<1>2. Len(l) = 4 /\ Len(r) = 4 /\ Len(m) = 4 /\ Len(f) = 4 BY SMT
<1>3. \A i \in 1 .. 4 : l[i] = f[i] /\ r[i] = f[i] /\ m[i] = f[i] BY SMT
<1>4. l = f /\ r = f /\ m = f
  <2> HIDE DEF S, l, r, m, f
  <2> QED BY <1>1, <1>2, <1>3, SeqEqual
<1> QED BY <1>4

LEMMA Five ==
  ASSUME NEW v, NEW w, NEW x, NEW y, NEW z
  PROVE  /\ <<v, w, x>> \o <<y, z>> = <<v, w, x, y, z>>
         /\ <<v>> \o <<w, x, y, z>> = <<v, w, x, y, z>>
<1> DEFINE S == {v, w, x, y, z}  l == <<v, w, x>> \o <<y, z>>  m == <<v>> \o <<w, x, y, z>>
           f == <<v, w, x, y, z>>
<1>1. l \in Seq(S) /\ m \in Seq(S) /\ f \in Seq(S) BY SMT
<1>2. Len(l) = 5 /\ Len(m) = 5 /\ Len(f) = 5 BY SMT
<1>3. \A i \in 1 .. 5 : l[i] = f[i] /\ m[i] = f[i] BY SMT
<1>4. l = f /\ m = f
  <2> HIDE DEF S, l, m, f
  <2> QED BY <1>1, <1>2, <1>3, SeqEqual
<1> QED BY <1>4

LEMMA Empty == ASSUME NEW S, NEW s \in Seq(S) PROVE <<>> \o s = s /\ s \o <<>> = s
  BY SMT

\* Concatenations as the handlers are written.
LEMMA ChainThree == \A x, y, z : <<x>> \o <<y>> \o <<z>> = <<x>> \o <<y, z>>
<1> SUFFICES ASSUME NEW x, NEW y, NEW z PROVE <<x>> \o <<y>> \o <<z>> = <<x>> \o <<y, z>>
  OBVIOUS
<1>1. <<x>> \o <<y>> = <<x, y>> BY Two
<1>2. <<x, y>> \o <<z>> = <<x, y, z>> BY Three
<1>3. <<x>> \o <<y, z>> = <<x, y, z>> BY Three
<1> QED BY <1>1, <1>2, <1>3

LEMMA ChainFour ==
  \A w, x, y, z : <<w>> \o <<x>> \o <<y>> \o <<z>> = <<w>> \o <<x, y, z>>
<1> SUFFICES ASSUME NEW w, NEW x, NEW y, NEW z
             PROVE  <<w>> \o <<x>> \o <<y>> \o <<z>> = <<w>> \o <<x, y, z>>
  OBVIOUS
<1>1. <<w>> \o <<x>> = <<w, x>> BY Two
<1>2. <<w, x>> \o <<y>> = <<w, x, y>> BY Three
<1>3. <<w, x, y>> \o <<z>> = <<w, x, y, z>> BY Four
<1>4. <<w>> \o <<x, y, z>> = <<w, x, y, z>> BY Four
<1> QED BY <1>1, <1>2, <1>3, <1>4

LEMMA ChainPair == \A w, x, y, z : <<w, x>> \o <<y>> \o <<z>> = <<w, x, y, z>>
<1> SUFFICES ASSUME NEW w, NEW x, NEW y, NEW z
             PROVE  <<w, x>> \o <<y>> \o <<z>> = <<w, x, y, z>>
  OBVIOUS
<1>1. <<w, x>> \o <<y>> = <<w, x, y>> BY Three
<1>2. <<w, x, y>> \o <<z>> = <<w, x, y, z>> BY Four
<1> QED BY <1>1, <1>2

-----------------------------------------------------------------------------
(* The handlers as lists.                                                  *)

LEMMA Literals ==
  /\ GetCapabilities = <<Op("tid", 0)>> \o Clearing
  /\ GetPlayStatus = <<Op("tid", 0)>> \o Polling
  /\ GetElementAttributes = <<Op("tid", 0)>> \o Reading
  /\ T4OnEdge \o RespondAttrs = Turning
  /\ \A e : RegisterNotification(e) = <<Op("save", e)>> \o Saved(e)
  /\ NotificationTrackChanged = <<Op("read", 0)>> \o Loading5
  /\ NotificationPlayStatusChanged = <<Op("read", 0)>> \o Loading9
<1>1. GetCapabilities = <<Op("tid", 0)>> \o Clearing
  BY Three, Zenon DEF GetCapabilities, Respond, Clearing
<1>2. GetPlayStatus = <<Op("tid", 0)>> \o Polling
  BY ChainThree, Zenon DEF GetPlayStatus, ReadFile, Respond, Polling
<1>3. GetElementAttributes = <<Op("tid", 0)>> \o Reading
  <2> DEFINE w == Op("tid", 0)  x == Op("read", 0)  y == Op("load", 0)  z == Op("getAttrs", 0)
  <2>1. GetElementAttributes = <<w>> \o <<x>> \o <<y>> \o <<z>>
    BY DEF GetElementAttributes, ReadFile, LoadState
  <2>2. <<Op("tid", 0)>> \o Reading = <<w>> \o <<x, y, z>> BY DEF Reading
  <2>3. <<w>> \o <<x>> \o <<y>> \o <<z>> = <<w>> \o <<x, y, z>>
    <3> HIDE DEF w, x, y, z
    <3> QED BY ChainFour
  <2> QED BY <2>1, <2>2, <2>3, Zenon
<1>4. T4OnEdge \o RespondAttrs = Turning
  <2> DEFINE w == Op("restore", Track)  x == Op("changed", Track)
             y == Op("storeTrack", 0)  z == Op("attributes", 0)
  <2>1. T4OnEdge \o RespondAttrs = <<w, x>> \o <<y>> \o <<z>>
    BY DEF T4OnEdge, RespondAttrs, Changed, StoreTrack
  <2>2. Turning = <<w, x, y, z>> BY DEF Turning
  <2> HIDE DEF w, x, y, z
  <2> QED BY <2>1, <2>2, ChainPair
<1>5. ASSUME NEW e PROVE RegisterNotification(e) = <<Op("save", e)>> \o Saved(e)
  <2> DEFINE v == Op("save", e)  w == Op("read", 0)  x == Op("storeTrack", 0)
             y == Op("restore", e)  z == Op("interim", e)
  <2>1. CASE e = Track
    <3>1. RegisterNotification(e) = <<v>> \o <<w>> \o <<x>> \o <<y, z>>
      BY <2>1 DEF RegisterNotification, ReadFile, StoreTrack
    <3>2. <<Op("save", e)>> \o Saved(e) = <<v>> \o <<w, x, y, z>> BY <2>1 DEF Saved
    <3>3. <<v>> \o <<w>> \o <<x>> \o <<y, z>> = <<v>> \o <<w, x, y, z>>
      <4> HIDE DEF v, w, x, y, z
      <4>1. <<v>> \o <<w>> = <<v, w>> BY Two
      <4>2. <<v, w>> \o <<x>> = <<v, w, x>> BY Three
      <4>3. <<v, w, x>> \o <<y, z>> = <<v, w, x, y, z>> BY Five
      <4>4. <<v>> \o <<w, x, y, z>> = <<v, w, x, y, z>> BY Five
      <4> QED BY <4>1, <4>2, <4>3, <4>4
    <3> QED BY <3>1, <3>2, <3>3, Zenon
  <2>2. CASE e # Track
    <3>1. RegisterNotification(e) = <<v>> \o <<w>> \o <<>> \o <<y, z>>
      BY <2>2 DEF RegisterNotification, ReadFile
    <3>2. <<Op("save", e)>> \o Saved(e) = <<v>> \o <<w, y, z>> BY <2>2 DEF Saved
    <3>3. <<v>> \o <<w>> \o <<>> \o <<y, z>> = <<v>> \o <<w, y, z>>
      <4> HIDE DEF v, w, x, y, z
      <4>1. <<v>> \o <<w>> = <<v, w>> BY Two
      <4>2. <<v, w>> \o <<>> = <<v, w>>
        <5> DEFINE s == <<v, w>>
        <5>1. s \in Seq({v, w}) BY SMT
        <5> HIDE DEF s
        <5> QED BY <5>1, Empty
      <4>3. <<v, w>> \o <<y, z>> = <<v, w, y, z>> BY Four
      <4>4. <<v>> \o <<w, y, z>> = <<v, w, y, z>> BY Four
      <4> QED BY <4>1, <4>2, <4>3, <4>4
    <3> QED BY <3>1, <3>2, <3>3, Zenon
  <2> QED BY <2>1, <2>2
<1>6. NotificationTrackChanged = <<Op("read", 0)>> \o Loading5
  BY ChainThree, Zenon DEF NotificationTrackChanged, ReadFile, LoadState, Loading5
<1>7. NotificationPlayStatusChanged = <<Op("read", 0)>> \o Loading9
  BY ChainThree, Zenon DEF NotificationPlayStatusChanged, ReadFile, LoadState, Loading9
<1> QED BY <1>1, <1>2, <1>3, <1>4, <1>5, <1>6, <1>7

\* Every list is the next access and what is left after it.
LEMMA Remains ==
  /\ Clearing = <<Op("clear", 0)>> \o Answering
  /\ Polling = <<Op("read", 0)>> \o Answering
  /\ Reading = <<Op("read", 0)>> \o Loading
  /\ Loading = <<Op("load", 0)>> \o Deciding
  /\ Turning = <<Op("restore", Track)>> \o Telling
  /\ Telling = <<Op("changed", Track)>> \o Storing
  /\ Storing = <<Op("storeTrack", 0)>> \o Attributing
  /\ Saved(Track) = <<Op("read", 0)>> \o Marking(Track)
  /\ \A e : e # Track => Saved(e) = <<Op("read", 0)>> \o Restoring(e)
  /\ \A e : Marking(e) = <<Op("storeTrack", 0)>> \o Restoring(e)
  /\ \A e : Restoring(e) = <<Op("restore", e)>> \o Interim(e)
  /\ Loading5 = <<Op("load", 0)>> \o Deciding5
  /\ Loading9 = <<Op("load", 0)>> \o Deciding9
<1>1. Clearing = <<Op("clear", 0)>> \o Answering BY Two DEF Clearing, Answering
<1>2. Polling = <<Op("read", 0)>> \o Answering BY Two DEF Polling, Answering
<1>3. Reading = <<Op("read", 0)>> \o Loading BY Three DEF Reading, Loading
<1>4. Loading = <<Op("load", 0)>> \o Deciding BY Two DEF Loading, Deciding
<1>5. Turning = <<Op("restore", Track)>> \o Telling BY Four DEF Turning, Telling
<1>6. Telling = <<Op("changed", Track)>> \o Storing BY Three DEF Telling, Storing
<1>7. Storing = <<Op("storeTrack", 0)>> \o Attributing BY Two DEF Storing, Attributing
<1>8. Saved(Track) = <<Op("read", 0)>> \o Marking(Track) BY Four DEF Saved, Marking
<1>9. ASSUME NEW e, e # Track PROVE Saved(e) = <<Op("read", 0)>> \o Restoring(e)
  BY <1>9, Three DEF Saved, Restoring
<1>10. ASSUME NEW e PROVE Marking(e) = <<Op("storeTrack", 0)>> \o Restoring(e)
  BY Three DEF Marking, Restoring
<1>11. ASSUME NEW e PROVE Restoring(e) = <<Op("restore", e)>> \o Interim(e)
  BY Two DEF Restoring, Interim
<1>12. Loading5 = <<Op("load", 0)>> \o Deciding5 BY Two DEF Loading5, Deciding5
<1>13. Loading9 = <<Op("load", 0)>> \o Deciding9 BY Two DEF Loading9, Deciding9
<1> QED BY <1>1, <1>2, <1>3, <1>4, <1>5, <1>6, <1>7, <1>8, <1>9, <1>10, <1>11, <1>12, <1>13

-----------------------------------------------------------------------------
(* Types.                                                                  *)

Handlers == [todo : Lists, copy : Images, was : Images, tid : 0 .. MaxTid]

TypeInv ==
  /\ TypeOK
  /\ run \in [Threads -> Handlers]
  /\ \A t \in Threads : run[t].todo = <<>> => run[t] = Resting

LEMMA Known ==
  /\ \A o \in Plain : Op(o, 0) \in Accesses
  /\ \A o \in Eventful, e \in Events : Op(o, e) \in Accesses
  /\ \A e \in Events : Changed(e) \in Lists /\ Gate(e, Changed(e)) \in Accesses
                        /\ IfSubscribed(e) \in Lists
  /\ StatusGate \in Accesses
  /\ Changed(Psc) \o IfSubscribed(Ncc) \in Lists
<1>1. \A o \in Plain : Op(o, 0) \in Accesses BY DEF Accesses
<1>2. \A o \in Eventful, e \in Events : Op(o, e) \in Accesses BY DEF Accesses
<1>3. ASSUME NEW e \in Events
      PROVE  Changed(e) \in Lists /\ Gate(e, Changed(e)) \in Accesses /\ IfSubscribed(e) \in Lists
  <2>1. Op("restore", e) \in Accesses /\ Op("changed", e) \in Accesses BY <1>2 DEF Eventful
  <2>2. Gate(e, Changed(e)) \in Accesses BY DEF Accesses, Gates
  <2>3. Changed(e) \in Lists BY SMT, <2>1 DEF Changed, Lists
  <2>4. IfSubscribed(e) \in Lists BY SMT, <2>2 DEF IfSubscribed, Lists
  <2> QED BY <2>2, <2>3, <2>4
<1>4. StatusGate \in Accesses BY DEF Accesses
<1>5. Changed(Psc) \o IfSubscribed(Ncc) \in Lists
  <2>1. Psc \in Events /\ Ncc \in Events BY SMT DEF Psc, Ncc, Events
  <2> QED BY SMT, <1>3, <2>1, ConcatProperties DEF Lists
<1> QED BY <1>1, <1>2, <1>3, <1>4, <1>5

LEMMA AccessTyped ==
  ASSUME NEW a \in Accesses
  PROVE  /\ a.op \in Plain \cup Eventful \cup {"gate"}
         /\ a.op \in Eventful \cup {"gate"} => a.event \in Events
         /\ a.op = "gate" => a.then \in Lists
<1>1. ASSUME NEW o \in Plain, a = Op(o, 0)
      PROVE  a.op \in Plain /\ a.op \notin Eventful \cup {"gate"}
  BY <1>1 DEF Op, Plain, Eventful
<1>2. ASSUME NEW o \in Eventful, NEW e \in Events, a = Op(o, e)
      PROVE  a.op \in Eventful /\ a.event \in Events /\ a.op # "gate"
  BY <1>2 DEF Op, Eventful
<1>3. ASSUME NEW e \in Events, a = Gate(e, Changed(e))
      PROVE  a.op = "gate" /\ a.event \in Events /\ a.then \in Lists
  BY <1>3, Known DEF Gate
<1>4. ASSUME a = StatusGate PROVE a.op = "gate" /\ a.event \in Events /\ a.then \in Lists
  <2>1. Psc \in Events BY SMT DEF Psc, Events
  <2> QED BY <1>4, <2>1, Known DEF StatusGate, Gate
<1>5. \/ \E o \in Plain : a = Op(o, 0)
      \/ \E o \in Eventful, e \in Events : a = Op(o, e)
      \/ \E e \in Events : a = Gate(e, Changed(e))
      \/ a = StatusGate
  BY DEF Accesses, Gates
<1> QED BY <1>1, <1>2, <1>3, <1>4, <1>5

LEMMA ListsTyped ==
  /\ Clearing \in Lists /\ Answering \in Lists /\ Polling \in Lists /\ Reading \in Lists
  /\ Loading \in Lists /\ Deciding \in Lists /\ Attributing \in Lists /\ Storing \in Lists
  /\ Telling \in Lists /\ Turning \in Lists
  /\ \A e \in Events : /\ Interim(e) \in Lists /\ Restoring(e) \in Lists
                       /\ Marking(e) \in Lists /\ Saved(e) \in Lists
  /\ Loading5 \in Lists /\ Deciding5 \in Lists /\ Loading9 \in Lists /\ Deciding9 \in Lists
<1>1. /\ Op("clear", 0) \in Accesses /\ Op("respond", 0) \in Accesses /\ Op("read", 0) \in Accesses
      /\ Op("load", 0) \in Accesses /\ Op("getAttrs", 0) \in Accesses /\ Op("T5", 0) \in Accesses
      /\ Op("attributes", 0) \in Accesses /\ Op("storeTrack", 0) \in Accesses
      /\ Op("T9", 0) \in Accesses
  BY Known DEF Plain
<1>2. \A e \in Events : /\ Op("restore", e) \in Accesses /\ Op("changed", e) \in Accesses
                        /\ Op("interim", e) \in Accesses
  BY Known DEF Eventful
<1>3. Track \in Events BY SMT DEF Track, Events
<1> HIDE DEF Accesses
<1>4. /\ Clearing \in Lists /\ Answering \in Lists /\ Polling \in Lists /\ Reading \in Lists
      /\ Loading \in Lists /\ Deciding \in Lists
  BY SMT, <1>1 DEF Lists, Clearing, Answering, Polling, Reading, Loading, Deciding
<1>5. Attributing \in Lists /\ Storing \in Lists /\ Telling \in Lists /\ Turning \in Lists
  <2>1. Op("restore", Track) \in Accesses /\ Op("changed", Track) \in Accesses BY <1>2, <1>3
  <2> QED BY SMT, <1>1, <2>1 DEF Lists, Attributing, Storing, Telling, Turning
<1>6. ASSUME NEW e \in Events
      PROVE  Interim(e) \in Lists /\ Restoring(e) \in Lists /\ Marking(e) \in Lists /\ Saved(e) \in Lists
  <2>1. Op("restore", e) \in Accesses /\ Op("interim", e) \in Accesses BY <1>2
  <2> QED BY SMT, <1>1, <2>1 DEF Lists, Interim, Restoring, Marking, Saved
<1>7. Loading5 \in Lists /\ Deciding5 \in Lists /\ Loading9 \in Lists /\ Deciding9 \in Lists
  BY SMT, <1>1 DEF Lists, Loading5, Deciding5, Loading9, Deciding9
<1> QED BY <1>4, <1>5, <1>6, <1>7

LEMMA HandlersTyped ==
  /\ GetCapabilities \in Lists /\ GetPlayStatus \in Lists /\ GetElementAttributes \in Lists
  /\ NotificationTrackChanged \in Lists /\ NotificationPlayStatusChanged \in Lists
  /\ \A e \in Events : RegisterNotification(e) \in Lists
<1>1. /\ Op("tid", 0) \in Accesses /\ Op("read", 0) \in Accesses
      /\ \A e \in Events : Op("save", e) \in Accesses
  BY Known DEF Plain, Eventful
<1> QED BY <1>1, ListsTyped, Literals, Cons DEF Lists

LEMMA DecisionsTyped ==
  /\ T4OnEdge \o RespondAttrs \in Lists /\ RespondAttrs \in Lists
  /\ \A end : T5OnEdge(end) \in Lists
  /\ \A new, old : T9Arms(new, old) \in Lists
<1> DEFINE Both(x, y) == x \in Lists /\ y \in Lists => x \o y \in Lists
<1>1. \A x, y : Both(x, y) BY ConcatProperties DEF Lists
<1>2. /\ Psc \in Events /\ Track \in Events /\ End \in Events /\ Begin \in Events /\ Pos \in Events
      /\ Batt \in Events /\ Papp \in Events /\ Ncc \in Events
  BY SMT DEF Psc, Track, End, Begin, Pos, Batt, Papp, Ncc, Events
<1>3. \A e \in Events : IfSubscribed(e) \in Lists BY Known
<1>4. StoreTrack \in Lists /\ <<Op("storeRest", 0)>> \in Lists /\ <<>> \in Lists
  <2>1. Op("storeTrack", 0) \in Accesses /\ Op("storeRest", 0) \in Accesses BY Known DEF Plain
  <2> QED BY SMT, <2>1 DEF StoreTrack, Lists
<1>5. StatusArm \in Lists
  <2>1. StatusArm = <<StatusGate>> BY DEF StatusArm, StatusGate
  <2> QED BY SMT, <2>1, Known DEF Lists
<1> HIDE DEF Both
<1>6. ASSUME NEW end PROVE T5OnEdge(end) \in Lists
  BY SMT, <1>1, <1>2, <1>3, <1>4 DEF T5OnEdge, Both
<1>7. ASSUME NEW new, NEW old PROVE T9Arms(new, old) \in Lists
  BY SMT, <1>1, <1>2, <1>3, <1>4, <1>5 DEF T9Arms, Both
<1> QED BY <1>6, <1>7, ListsTyped, Literals DEF RespondAttrs, Attributing

LEMMA ZeroTyped == Zero \in Images /\ Resting \in Handlers /\ Resting.todo = <<>>
<1>1. (CHOOSE b \in Batteries : TRUE) \in Batteries /\ (CHOOSE s \in Settings : TRUE) \in Settings
  BY DataAssumption
<1>2. Zero \in Images BY <1>1 DEF Zero, Images
<1>3. 0 \in 0 .. MaxTid BY SMT, TidAssumption
<1>4. <<>> \in Lists BY SMT DEF Lists
<1> QED BY <1>2, <1>3, <1>4 DEF Resting, Handlers

LEMMA InitTyped == Init => TypeInv
<1> SUFFICES ASSUME Init PROVE TypeInv OBVIOUS
<1>1. Unsubscribed \in [Events -> 0 .. MaxTid + 1] BY SMT, TidAssumption DEF Unsubscribed, Events
<1>2. file \in Images
  <2>1. PICK s \in Tracks : file = [Zero EXCEPT !.track = s] BY DEF Init
  <2> QED BY <2>1, ZeroTyped DEF Images
<1>3. run \in [Threads -> Handlers] /\ \A t \in Threads : run[t] = Resting
  BY ZeroTyped DEF Init
<1>4. conn \in 0 .. MaxTid \cup {255} BY SMT, TidAssumption DEF Init
<1>5. /\ inbox \in Seq({"meta", "play"}) /\ Len(inbox) <= MaxQueue + 1
      /\ commands \in 0 .. MaxCommands /\ changes \in 0 .. MaxChanges /\ restarts \in 0 .. MaxRestarts
  BY SMT, BoundsAssumption DEF Init
<1>6. \A t \in Threads : run[t].copy \in Images /\ run[t].was \in Images /\ run[t].tid \in 0 .. MaxTid
  BY <1>3, ZeroTyped DEF Handlers
<1>7. heard \in [how : {"none", "interim", "changed"}, status : Statuses \cup {"stopped"}]
  BY DEF Init, NotTold
<1>8. TypeOK BY <1>1, <1>2, <1>4, <1>5, <1>6, <1>7, ZeroTyped DEF TypeOK, Init
<1> QED BY <1>3, <1>8 DEF TypeInv

-----------------------------------------------------------------------------
(* What a step does to its thread.                                         *)

\* t goes on with the list l, what it knows being as in r, or rests.
Goes(t, l, r) ==
  /\ run' \in [Threads -> Handlers]
  /\ \A u \in Threads : u # t => run'[u] = run[u]
  /\ run'[t].todo = l
  /\ l # <<>> => run'[t].copy = r.copy /\ run'[t].was = r.was /\ run'[t].tid = r.tid
  /\ l = <<>> => run'[t] = Resting

LEMMA ContinueGoes ==
  ASSUME run \in [Threads -> Handlers], NEW t \in Threads, NEW r \in Handlers, Continue(t, r)
  PROVE  Goes(t, r.todo, r)
<1>1. run' = [run EXCEPT ![t] = IF r.todo = <<>> THEN Resting ELSE r] BY DEF Continue
<1>2. Resting \in Handlers /\ Resting.todo = <<>> BY ZeroTyped
<1>3. run' \in [Threads -> Handlers] BY <1>1, <1>2
<1>4. run'[t] = IF r.todo = <<>> THEN Resting ELSE r BY <1>1
<1>5. \A u \in Threads : u # t => run'[u] = run[u] BY <1>1
<1> QED BY <1>2, <1>3, <1>4, <1>5 DEF Goes

LEMMA TailTyped ==
  ASSUME run \in [Threads -> Handlers], NEW t \in Threads, run[t].todo # <<>>
  PROVE  /\ Current(t) \in Accesses /\ Tail(run[t].todo) \in Lists
         /\ run[t].todo = <<Current(t)>> \o Tail(run[t].todo)
<1>1. run[t].todo \in Seq(Accesses) BY DEF Handlers, Lists
<1> QED BY SMT, <1>1, HeadTailProperties DEF Current, Lists

LEMMA ThenGoes ==
  ASSUME run \in [Threads -> Handlers], NEW t \in Threads, run[t].todo # <<>>, NEW ops \in Lists,
         Then(t, ops)
  PROVE  Goes(t, ops \o Tail(run[t].todo), run[t])
<1> DEFINE r == [run[t] EXCEPT !.todo = ops \o Tail(@)]
<1>1. ops \o Tail(run[t].todo) \in Lists BY TailTyped, ConcatProperties DEF Lists
<1>2. r = [run[t] EXCEPT !.todo = ops \o Tail(run[t].todo)] OBVIOUS
<1>3. r \in Handlers BY <1>1, <1>2 DEF Handlers
<1>4. r.todo = ops \o Tail(run[t].todo) /\ r.copy = run[t].copy /\ r.was = run[t].was /\ r.tid = run[t].tid
  BY <1>2 DEF Handlers
<1>5. Continue(t, r) BY DEF Then
<1> HIDE DEF r
<1>6. Goes(t, r.todo, r) BY <1>3, <1>5, ContinueGoes
<1> QED BY <1>4, <1>6 DEF Goes

LEMMA PassGoes ==
  ASSUME run \in [Threads -> Handlers], NEW t \in Threads, run[t].todo # <<>>, Then(t, <<>>)
  PROVE  Goes(t, Tail(run[t].todo), run[t])
<1>1. <<>> \in Lists BY SMT DEF Lists
<1>2. <<>> \o Tail(run[t].todo) = Tail(run[t].todo) BY TailTyped, Empty DEF Lists
<1> QED BY <1>1, <1>2, ThenGoes

LEMMA ReadGoes ==
  ASSUME TypeInv, NEW t \in Threads, Read(t)
  PROVE  Goes(t, Tail(run[t].todo), [run[t] EXCEPT !.copy = file])
<1> DEFINE r == [run[t] EXCEPT !.todo = Tail(@), !.copy = file]
<1>1. run \in [Threads -> Handlers] /\ run[t] \in Handlers /\ file \in Images BY DEF TypeInv, TypeOK
<1>2. run[t].todo # <<>> BY DEF Read, Doing
<1>3. Tail(run[t].todo) \in Lists BY <1>1, <1>2, TailTyped
<1>4. /\ r \in Handlers /\ r.todo = Tail(run[t].todo) /\ r.copy = file
      /\ r.was = run[t].was /\ r.tid = run[t].tid
  BY <1>1, <1>3 DEF Handlers
<1>5. Continue(t, r) BY DEF Read
<1> HIDE DEF r
<1>6. Goes(t, r.todo, r) BY <1>1, <1>4, <1>5, ContinueGoes
<1> QED BY <1>1, <1>4, <1>6 DEF Goes, Handlers

LEMMA LoadGoes ==
  ASSUME TypeInv, NEW t \in Threads, Load(t)
  PROVE  Goes(t, Tail(run[t].todo), [run[t] EXCEPT !.was = seen])
<1> DEFINE r == [run[t] EXCEPT !.todo = Tail(@), !.was = seen]
<1>1. run \in [Threads -> Handlers] /\ run[t] \in Handlers /\ seen \in Images BY DEF TypeInv, TypeOK
<1>2. run[t].todo # <<>> BY DEF Load, Doing
<1>3. Tail(run[t].todo) \in Lists BY <1>1, <1>2, TailTyped
<1>4. /\ r \in Handlers /\ r.todo = Tail(run[t].todo) /\ r.copy = run[t].copy
      /\ r.was = seen /\ r.tid = run[t].tid
  BY <1>1, <1>3 DEF Handlers
<1>5. Continue(t, r) BY DEF Load
<1> HIDE DEF r
<1>6. Goes(t, r.todo, r) BY <1>1, <1>4, <1>5, ContinueGoes
<1> QED BY <1>1, <1>4, <1>6 DEF Goes, Handlers

\* What Decide puts in front of the list.
Decision(t) ==
  IF Current(t).op = "getAttrs" THEN (IF Edge(t) THEN T4OnEdge ELSE <<>>) \o RespondAttrs
  ELSE IF Current(t).op = "T5" THEN IF Edge(t) THEN T5OnEdge(run[t].copy.end) ELSE <<>>
  ELSE T9Arms(run[t].copy, run[t].was)

LEMMA DecideGoes ==
  ASSUME TypeInv, NEW t \in Threads, Decide(t)
  PROVE  Decision(t) \in Lists /\ Goes(t, Decision(t) \o Tail(run[t].todo), run[t])
<1>1. run \in [Threads -> Handlers] /\ run[t].todo # <<>> BY DEF TypeInv, Decide, Doing
<1>2. Then(t, Decision(t))
  <2>1. CASE Doing(t, "getAttrs") BY <2>1 DEF Decide, Doing, Decision
  <2>2. CASE Doing(t, "T5") BY <2>2 DEF Decide, Doing, Decision
  <2>3. CASE Doing(t, "T9") BY <2>3 DEF Decide, Doing, Decision
  <2> QED BY <2>1, <2>2, <2>3 DEF Decide
<1>3. <<>> \in Lists BY SMT DEF Lists
<1>4. <<>> \o RespondAttrs = RespondAttrs BY DecisionsTyped, Empty DEF Lists
<1>5. Decision(t) \in Lists BY <1>3, <1>4, DecisionsTyped DEF Decision
<1> QED BY <1>1, <1>2, <1>5, ThenGoes

LEMMA GateGoes ==
  ASSUME TypeInv, NEW t \in Threads, EventSubscribed(t)
  PROVE  Goes(t, IF db[Event(t)] # 0 THEN Current(t).then \o Tail(run[t].todo)
                                     ELSE Tail(run[t].todo), run[t])
<1>1. /\ run \in [Threads -> Handlers] /\ run[t].todo # <<>> /\ Current(t).op = "gate"
      /\ Then(t, IF db[Event(t)] # 0 THEN Current(t).then ELSE <<>>)
  BY DEF TypeInv, EventSubscribed, Doing
<1>2. Current(t).then \in Lists BY <1>1, TailTyped, AccessTyped
<1> QED BY <1>1, <1>2, ThenGoes, PassGoes

LEMMA OtherGoes ==
  ASSUME TypeInv, NEW t \in Threads,
         Store(t) \/ WriteTid(t) \/ SaveEventSeqId(t) \/ ClearEventDatabase(t)
           \/ RestoreConnTid(t) \/ Notify(t) \/ Answer(t)
  PROVE  Goes(t, Tail(run[t].todo), run[t])
<1>1. run \in [Threads -> Handlers] BY DEF TypeInv
<1>2. run[t].todo # <<>> /\ Then(t, <<>>)
  BY DEF Store, WriteTid, SaveEventSeqId, ClearEventDatabase, RestoreConnTid, Notify, Answer, Doing
<1> QED BY <1>1, <1>2, PassGoes

\* After a step of t the lists are lists again.
LEMMA StepRunTyped ==
  ASSUME TypeInv, NEW t \in Threads, Step(t)
  PROVE  /\ run' \in [Threads -> Handlers]
         /\ \A u \in Threads : run'[u].todo = <<>> => run'[u] = Resting
<1>1. \E l, r : Goes(t, l, r)
  BY ReadGoes, LoadGoes, DecideGoes, GateGoes, OtherGoes DEF Step
<1>2. PICK l, r : Goes(t, l, r) BY <1>1
<1> QED BY <1>2 DEF Goes, TypeInv

-----------------------------------------------------------------------------
(* Type correctness.                                                       *)

LEMMA DecodedTyped ==
  ASSUME NEW entry \in 0 .. MaxTid + 1
  PROVE  Decoded(entry) \in 0 .. MaxTid \cup {255} /\ (entry # 0 => Decoded(entry) = entry - 1)
<1>1. entry \in 0 .. 16 BY SMT, TidAssumption
<1>2. entry = 0 => (entry + 255) % 256 = 255 BY SMT
<1>3. entry # 0 => (entry + 255) % 256 = entry - 1 BY SMT, <1>1
<1>4. entry # 0 => entry - 1 \in 0 .. MaxTid BY SMT, <1>1, TidAssumption
<1> QED BY <1>2, <1>3, <1>4 DEF Decoded

\* The part of the type invariant that Step can disturb besides run.
LEMMA StepShared ==
  ASSUME TypeInv, NEW t \in Threads, Step(t)
  PROVE  /\ db' \in [Events -> 0 .. MaxTid + 1] /\ seen' \in Images
         /\ conn' \in 0 .. MaxTid \cup {255} /\ raced' \in BOOLEAN /\ fetch' \in BOOLEAN
         /\ shown' \in Tracks \cup {NoTrack}
         /\ heard' \in [how : {"none", "interim", "changed"}, status : Statuses \cup {"stopped"}]
         /\ UNCHANGED <<file, inbox, overlap, counters, greeted, asked>>
<1>1. /\ run[t] \in Handlers /\ run[t].copy \in Images /\ run[t].tid \in 0 .. MaxTid
      /\ run \in [Threads -> Handlers]
  BY DEF TypeInv, Handlers
<1>2. /\ db \in [Events -> 0 .. MaxTid + 1] /\ seen \in Images /\ conn \in 0 .. MaxTid \cup {255}
      /\ raced \in BOOLEAN /\ fetch \in BOOLEAN /\ shown \in Tracks \cup {NoTrack}
      /\ heard \in [how : {"none", "interim", "changed"}, status : Statuses \cup {"stopped"}]
  BY DEF TypeInv, TypeOK
<1>3. ASSUME run[t].todo # <<>>, Current(t).op \in Eventful \cup {"gate"} PROVE Event(t) \in Events
  BY <1>1, <1>3, TailTyped, AccessTyped DEF Event
<1>4. (raced \/ (t = "inbound" /\ Midway)) \in BOOLEAN OBVIOUS
<1>5. CASE Read(t) BY <1>2, <1>5 DEF Read, Other, Outside, bss, ct
<1>6. CASE Load(t) BY <1>2, <1>4, <1>6 DEF Load, Race, Outside, bss, ct
<1>7. CASE Decide(t) BY <1>2, <1>7 DEF Decide, Other, Outside, bss, ct
<1>8. CASE Store(t)
  <2>1. CASE Doing(t, "storeTrack") /\ seen' = NarrowWrite(run[t].copy, seen) /\ Race(t)
    <3>1. seen' \in Images BY <1>1, <1>2, <2>1 DEF NarrowWrite, Images
    <3> QED BY <1>2, <1>4, <1>8, <2>1, <3>1 DEF Store, Race, Outside, ct
  <2>2. CASE /\ UNCHANGED raced
             /\ seen' = [run[t].copy EXCEPT !.track = seen.track, !.end = seen.end]
    <3>1. seen' \in Images BY <1>1, <1>2, <2>2 DEF Images
    <3> QED BY <1>2, <1>8, <2>2, <3>1 DEF Store, Outside, ct
  <2> QED BY <1>8, <2>1, <2>2 DEF Store
<1>9. CASE WriteTid(t) BY <1>1, <1>2, <1>9 DEF WriteTid, Other, Outside, ct
<1>10. CASE SaveEventSeqId(t)
  <2>1. Encoded(run[t].tid) \in 0 .. MaxTid + 1 BY SMT, <1>1, TidAssumption DEF Encoded
  <2>2. db' \in [Events -> 0 .. MaxTid + 1] BY <1>2, <1>10, <2>1 DEF SaveEventSeqId
  <2> QED BY <1>2, <1>10, <2>2 DEF SaveEventSeqId, Other, Outside, ct
<1>11. CASE ClearEventDatabase(t)
  <2>1. Unsubscribed \in [Events -> 0 .. MaxTid + 1] BY SMT, TidAssumption DEF Unsubscribed, Events
  <2> QED BY <1>2, <1>11, <2>1 DEF ClearEventDatabase, Other, Outside, ct
<1>12. CASE EventSubscribed(t) BY <1>2, <1>12 DEF EventSubscribed, Other, Outside, bss, ct
<1>13. CASE RestoreConnTid(t)
  <2>1. Event(t) \in Events BY <1>3, <1>13 DEF RestoreConnTid, Doing, Eventful
  <2>2. db[Event(t)] \in 0 .. MaxTid + 1 BY <1>2, <2>1
  <2>3. conn' \in 0 .. MaxTid \cup {255} BY <1>13, <2>2, DecodedTyped DEF RestoreConnTid
  <2> QED BY <1>2, <1>13, <2>3 DEF RestoreConnTid, Other, Outside, ct
<1>14. CASE Notify(t)
  <2>1. run[t].copy.status \in Statuses \cup {"stopped"} BY <1>1 DEF Images
  <2>2. Current(t).op \in {"changed", "interim"} BY <1>14 DEF Notify, Doing
  <2>3. heard' \in [how : {"none", "interim", "changed"}, status : Statuses \cup {"stopped"}]
    BY <1>2, <1>14, <2>1, <2>2 DEF Notify
  <2>4. fetch' \in BOOLEAN BY <1>2, <1>14 DEF Notify
  <2> QED BY <1>2, <1>14, <2>3, <2>4 DEF Notify, Other, Outside, bss
<1>15. CASE Answer(t)
  <2>1. shown' \in Tracks \cup {NoTrack} BY <1>1, <1>2, <1>15 DEF Answer, Images
  <2> QED BY <1>2, <1>15, <2>1 DEF Answer, Other, Outside, bss
<1> QED BY <1>5, <1>6, <1>7, <1>8, <1>9, <1>10, <1>11, <1>12, <1>13, <1>14, <1>15 DEF Step

LEMMA StepTyped == ASSUME TypeInv, NEW t \in Threads, Step(t) PROVE TypeInv'
<1>1. /\ run' \in [Threads -> Handlers]
      /\ \A u \in Threads : run'[u].todo = <<>> => run'[u] = Resting
  BY StepRunTyped
<1>2. \A u \in Threads : /\ run'[u].copy \in Images /\ run'[u].was \in Images
                         /\ run'[u].tid \in 0 .. MaxTid
  BY <1>1 DEF Handlers
<1> QED BY <1>1, <1>2, StepShared DEF TypeInv, TypeOK, counters

LEMMA DeliverGoes ==
  ASSUME TypeInv, Deliver
  PROVE  /\ run["adapter"].todo = <<>>
         /\ run' = [run EXCEPT !["adapter"] = [@ EXCEPT !.todo =
                                 IF Head(inbox) = "meta" THEN NotificationTrackChanged
                                                         ELSE NotificationPlayStatusChanged]]
         /\ run' \in [Threads -> Handlers]
<1>1. run \in [Threads -> Handlers] BY DEF TypeInv
<1>2. run["adapter"].todo = <<>> BY ZeroTyped DEF Deliver, MayStart, Idle
<1>3. NotificationTrackChanged \in Lists /\ NotificationPlayStatusChanged \in Lists BY HandlersTyped
<1>4. run' = [run EXCEPT !["adapter"] = [@ EXCEPT !.todo =
                                 IF Head(inbox) = "meta" THEN NotificationTrackChanged
                                                         ELSE NotificationPlayStatusChanged]]
  BY DEF Deliver
<1>5. run["adapter"] \in Handlers BY <1>1 DEF Threads
<1>6. run' \in [Threads -> Handlers] BY <1>1, <1>3, <1>4, <1>5 DEF Handlers
<1> QED BY <1>2, <1>4, <1>6

LEMMA Begun ==
  /\ GetCapabilities # <<>> /\ GetPlayStatus # <<>> /\ GetElementAttributes # <<>>
  /\ NotificationTrackChanged # <<>> /\ NotificationPlayStatusChanged # <<>>
  /\ \A e \in Events : RegisterNotification(e) # <<>>
<1>1. /\ Op("tid", 0) \in Accesses /\ Op("read", 0) \in Accesses
      /\ \A e \in Events : Op("save", e) \in Accesses
  BY Known DEF Plain, Eventful
<1> QED BY <1>1, ListsTyped, Literals, Cons DEF Lists

LEMMA DeliverTyped == ASSUME TypeInv, Deliver PROVE TypeInv'
<1>1. \A u \in Threads : run'[u].todo = <<>> => run'[u] = Resting
  <2>1. run'["adapter"].todo # <<>>
    <3>1. run["adapter"] \in Handlers /\ run \in [Threads -> Handlers] BY DEF TypeInv, Threads
    <3> QED BY <3>1, DeliverGoes, Begun DEF Handlers, Threads
  <2>2. \A u \in Threads : u # "adapter" => run'[u] = run[u]
    BY DeliverGoes DEF TypeInv
  <2> QED BY <2>1, <2>2 DEF TypeInv
<1>2. \A u \in Threads : /\ run'[u].copy \in Images /\ run'[u].was \in Images
                         /\ run'[u].tid \in 0 .. MaxTid
  BY DeliverGoes DEF Handlers
<1>3. inbox' \in Seq({"meta", "play"}) /\ Len(inbox') <= MaxQueue + 1
  <2>1. inbox \in Seq({"meta", "play"}) /\ inbox # <<>> /\ inbox' = Tail(inbox)
        /\ Len(inbox) <= MaxQueue + 1
    BY DEF TypeInv, TypeOK, Deliver
  <2> QED BY SMT, <2>1, BoundsAssumption
<1> QED BY <1>1, <1>2, <1>3, DeliverGoes DEF Deliver, TypeInv, TypeOK, bss, threading, ct, counters

LEMMA PublishTyped ==
  ASSUME TypeInv, NEW new \in Images, NEW casts \in Seq({"meta", "play"}), Len(casts) <= 2,
         Publish(new, casts)
  PROVE  TypeInv'
<1>1. /\ inbox \in Seq({"meta", "play"}) /\ changes \in 0 .. MaxChanges
  BY DEF TypeInv, TypeOK
<1>2. inbox' \in Seq({"meta", "play"}) /\ Len(inbox') <= MaxQueue + 1
  BY SMT, <1>1, BoundsAssumption DEF Publish
<1>3. changes' \in 0 .. MaxChanges BY SMT, <1>1, BoundsAssumption DEF Publish
<1> QED BY <1>2, <1>3 DEF Publish, TypeInv, TypeOK, bss, threading, ct

\* What the three publishers pass on.
LEMMA Publications ==
  ASSUME TypeInv, NextTrack \/ NewStatus \/ PlayStateChanged
  PROVE  \E new \in Images, casts \in Seq({"meta", "play"}) :
           /\ Publish(new, casts) /\ Len(casts) <= 2
           /\ new.track # file.track => \E i \in 1 .. Len(casts) : casts[i] = "meta"
           /\ new.status # file.status => \E i \in 1 .. Len(casts) : casts[i] = "play"
<1>1. file \in Images BY DEF TypeInv, TypeOK
<1>2. CASE NextTrack
  <2>1. PICK s \in Tracks \ {file.track}, e \in BOOLEAN :
               Publish([file EXCEPT !.track = s, !.end = e], <<"meta">>)
    BY <1>2 DEF NextTrack
  <2> DEFINE new == [file EXCEPT !.track = s, !.end = e]
  <2>2. new \in Images /\ new.status = file.status BY <1>1 DEF Images
  <2>3. /\ <<"meta">> \in Seq({"meta", "play"}) /\ Len(<<"meta">>) <= 2
        /\ \E i \in 1 .. Len(<<"meta">>) : <<"meta">>[i] = "meta"
    BY SMT
  <2> HIDE DEF new
  <2>4. Publish(new, <<"meta">>) BY <2>1 DEF new
  <2> QED BY <2>2, <2>3, <2>4
<1>3. CASE NewStatus
  <2>1. PICK s \in Statuses \ {file.status} :
               Publish([file EXCEPT !.status = s], <<"play", "meta">>)
    BY <1>3 DEF NewStatus
  <2> DEFINE new == [file EXCEPT !.status = s]  casts == <<"play", "meta">>
  <2>2. new \in Images BY <1>1 DEF Images
  <2>3. /\ casts \in Seq({"meta", "play"}) /\ Len(casts) <= 2
        /\ 1 \in 1 .. Len(casts) /\ casts[1] = "play"
        /\ 2 \in 1 .. Len(casts) /\ casts[2] = "meta"
    BY SMT
  <2> HIDE DEF new, casts
  <2>4. Publish(new, casts) BY <2>1 DEF new, casts
  <2> QED BY <2>2, <2>3, <2>4
<1>4. CASE PlayStateChanged
  <2>1. PICK b \in Batteries, s \in Settings :
               Publish([file EXCEPT !.battery = b, !.papp = s], <<"play">>)
    BY <1>4 DEF PlayStateChanged
  <2> DEFINE new == [file EXCEPT !.battery = b, !.papp = s]
  <2>2. new \in Images /\ new.status = file.status /\ new.track = file.track BY <1>1 DEF Images
  <2>3. /\ <<"play">> \in Seq({"meta", "play"}) /\ Len(<<"play">>) <= 2
    BY SMT
  <2> HIDE DEF new
  <2>4. Publish(new, <<"play">>) BY <2>1 DEF new
  <2> QED BY <2>2, <2>3, <2>4
<1> QED BY <1>2, <1>3, <1>4

LEMMA CommandTyped ==
  ASSUME TypeInv, NEW l \in Lists, l # <<>>, NEW tid \in 0 .. MaxTid, Command(l, tid)
  PROVE  /\ run["inbound"].todo = <<>>
         /\ run' \in [Threads -> Handlers]
         /\ run'["inbound"].todo = l /\ run'["inbound"].tid = tid
         /\ \A u \in Threads : u # "inbound" => run'[u] = run[u]
         /\ \A u \in Threads : run'[u].todo = <<>> => run'[u] = Resting
<1>1. run \in [Threads -> Handlers] /\ run["inbound"] \in Handlers BY DEF TypeInv, Threads
<1>2. run["inbound"].todo = <<>> BY ZeroTyped DEF Command, MayStart, Idle
<1>3. run' = [run EXCEPT !["inbound"] = [@ EXCEPT !.todo = l, !.tid = tid]] BY DEF Command
<1>4. [run["inbound"] EXCEPT !.todo = l, !.tid = tid] \in Handlers BY <1>1 DEF Handlers
<1>5. run'["inbound"] = [run["inbound"] EXCEPT !.todo = l, !.tid = tid] BY <1>1, <1>3 DEF Threads
<1>6. \A u \in Threads : u # "inbound" => run'[u] = run[u] BY <1>1, <1>3
<1>7. run' \in [Threads -> Handlers] BY <1>1, <1>3, <1>4
<1>8. run'["inbound"].todo = l /\ run'["inbound"].tid = tid BY <1>1, <1>5 DEF Handlers
<1> QED BY <1>2, <1>6, <1>7, <1>8 DEF TypeInv

LEMMA CommandsTyped == ASSUME TypeInv, Greet \/ Register \/ Fetch \/ Poll PROVE TypeInv'
<1>1. PICK l \in Lists, tid \in 0 .. MaxTid :
        /\ l # <<>> /\ Command(l, tid)
        /\ commands' \in 0 .. MaxCommands
        /\ greeted' \in BOOLEAN /\ fetch' \in BOOLEAN
        /\ asked' \in [Events -> 0 .. MaxTid + 1]
        /\ heard' \in [how : {"none", "interim", "changed"}, status : Statuses \cup {"stopped"}]
  <2>1. Counted => commands' \in 0 .. MaxCommands
    BY SMT, BoundsAssumption DEF Counted, TypeInv, TypeOK
  <2>2. Unsubscribed \in [Events -> 0 .. MaxTid + 1]
    BY SMT, TidAssumption DEF Unsubscribed, Events
  <2>3. NotTold \in [how : {"none", "interim", "changed"}, status : Statuses \cup {"stopped"}]
    BY DEF NotTold
  <2>4. /\ commands \in 0 .. MaxCommands /\ greeted \in BOOLEAN /\ fetch \in BOOLEAN
        /\ asked \in [Events -> 0 .. MaxTid + 1]
        /\ heard \in [how : {"none", "interim", "changed"}, status : Statuses \cup {"stopped"}]
    BY DEF TypeInv, TypeOK
  <2>5. CASE Greet
    BY <2>1, <2>2, <2>3, <2>4, <2>5, HandlersTyped, Begun DEF Greet
  <2>6. CASE Register
    <3>1. PICK e \in Registrable, tid \in 0 .. MaxTid :
            /\ Command(RegisterNotification(e), tid) /\ Counted
            /\ asked' = [asked EXCEPT ![e] = tid + 1]
            /\ UNCHANGED <<greeted, fetch, heard>>
      BY <2>6 DEF Register
    <3>2. e \in Events BY SMT, EventsAssumption DEF Events
    <3>3. tid + 1 \in 0 .. MaxTid + 1 BY SMT, TidAssumption
    <3>4. asked' \in [Events -> 0 .. MaxTid + 1] BY <2>4, <3>1, <3>3
    <3> QED BY <2>1, <2>4, <3>1, <3>2, <3>4, HandlersTyped, Begun
  <2>7. CASE Fetch BY <2>1, <2>4, <2>7, HandlersTyped, Begun DEF Fetch
  <2>8. CASE Poll BY <2>1, <2>4, <2>8, HandlersTyped, Begun DEF Poll
  <2> QED BY <2>5, <2>6, <2>7, <2>8
<1>2. /\ run' \in [Threads -> Handlers]
      /\ \A u \in Threads : run'[u].todo = <<>> => run'[u] = Resting
  BY <1>1, CommandTyped
<1>3. \A u \in Threads : /\ run'[u].copy \in Images /\ run'[u].was \in Images
                         /\ run'[u].tid \in 0 .. MaxTid
  BY <1>2 DEF Handlers
<1> QED BY <1>1, <1>2, <1>3 DEF Command, TypeInv, TypeOK, bss, threading

LEMMA ForgetTyped ==
  Forget => /\ greeted' \in BOOLEAN /\ fetch' \in BOOLEAN /\ shown' \in Tracks \cup {NoTrack}
            /\ asked' \in [Events -> 0 .. MaxTid + 1]
            /\ heard' \in [how : {"none", "interim", "changed"}, status : Statuses \cup {"stopped"}]
<1>1. Unsubscribed \in [Events -> 0 .. MaxTid + 1]
  BY SMT, TidAssumption DEF Unsubscribed, Events
<1>2. NotTold \in [how : {"none", "interim", "changed"}, status : Statuses \cup {"stopped"}]
  BY DEF NotTold
<1>3. FALSE \in BOOLEAN OBVIOUS
<1> HIDE DEF NotTold
<1> QED BY <1>1, <1>2, <1>3 DEF Forget

LEMMA ReconnectTyped == ASSUME TypeInv, Reconnect PROVE TypeInv'
<1>1. commands' \in 0 .. MaxCommands
  BY SMT, BoundsAssumption DEF Reconnect, Counted, TypeInv, TypeOK
<1> QED BY <1>1, ForgetTyped DEF Reconnect, TypeInv, TypeOK, bss, threading

LEMMA RestartTyped == ASSUME TypeInv, Restart PROVE TypeInv'
<1>1. restarts' \in 0 .. MaxRestarts BY SMT, BoundsAssumption DEF Restart, TypeInv, TypeOK
<1>2. Unsubscribed \in [Events -> 0 .. MaxTid + 1] /\ 0 \in 0 .. MaxTid
  BY SMT, TidAssumption DEF Unsubscribed, Events
<1>3. run' \in [Threads -> Handlers] /\ \A u \in Threads : run'[u] = Resting
  BY ZeroTyped DEF Restart
<1>4. inbox' \in Seq({"meta", "play"}) /\ Len(inbox') <= MaxQueue + 1
  BY SMT, BoundsAssumption DEF Restart
<1>5. \A u \in Threads : /\ run'[u].copy \in Images /\ run'[u].was \in Images
                         /\ run'[u].tid \in 0 .. MaxTid
  BY <1>3 DEF Handlers
<1>6. /\ db' = Unsubscribed /\ seen' = Zero /\ conn' = 0 /\ raced' = FALSE
      /\ UNCHANGED <<file, overlap, commands, changes>> /\ Forget
  BY DEF Restart
<1>7. conn' \in 0 .. MaxTid \cup {255} /\ raced' \in BOOLEAN BY <1>2, <1>6
<1> QED BY <1>1, <1>2, <1>3, <1>4, <1>5, <1>6, <1>7, ForgetTyped, ZeroTyped DEF TypeInv, TypeOK

LEMMA NextTyped == ASSUME TypeInv, [Next]_vars PROVE TypeInv'
<1>1. CASE \E t \in Threads : Step(t) BY <1>1, StepTyped
<1>2. CASE Deliver BY <1>2, DeliverTyped
<1>3. CASE NextTrack \/ NewStatus \/ PlayStateChanged BY <1>3, Publications, PublishTyped
<1>4. CASE Greet \/ Register \/ Fetch \/ Poll BY <1>4, CommandsTyped
<1>5. CASE Reconnect BY <1>5, ReconnectTyped
<1>6. CASE Restart BY <1>6, RestartTyped
<1>7. CASE UNCHANGED vars
  BY <1>7 DEF vars, bss, threading, ct, counters, TypeInv, TypeOK
<1> QED BY <1>1, <1>2, <1>3, <1>4, <1>5, <1>6, <1>7 DEF Next, Environment

LEMMA Typed == Spec => []TypeInv
  BY InitTyped, NextTyped, PTL DEF Spec

\* Whatever the controller asks for and however the threads, the music app and
\* the death of the process interleave: TIDs are TIDs or the cut byte, the queue
\* of broadcasts keeps its bound, and the edge state is an image of the file.
THEOREM TypeCorrect == Spec => []TypeOK
  BY Typed, PTL DEF TypeInv

-----------------------------------------------------------------------------
(* Which action a step is.                                                 *)

\* The next access names the action.
LEMMA Performs ==
  ASSUME NEW t, Step(t)
  PROVE  /\ run[t].todo # <<>>
         /\ Current(t).op = "read" => Read(t)
         /\ Current(t).op = "load" => Load(t)
         /\ Current(t).op \in {"getAttrs", "T5", "T9"} => Decide(t)
         /\ Current(t).op \in {"storeTrack", "storeRest"} => Store(t)
         /\ Current(t).op = "tid" => WriteTid(t)
         /\ Current(t).op = "save" => SaveEventSeqId(t)
         /\ Current(t).op = "clear" => ClearEventDatabase(t)
         /\ Current(t).op = "gate" => EventSubscribed(t)
         /\ Current(t).op = "restore" => RestoreConnTid(t)
         /\ Current(t).op \in {"changed", "interim"} => Notify(t)
         /\ Current(t).op \in {"respond", "attributes"} => Answer(t)
<1>1. Read(t) => run[t].todo # <<>> /\ Current(t).op = "read" BY DEF Read, Doing
<1>2. Load(t) => run[t].todo # <<>> /\ Current(t).op = "load" BY DEF Load, Doing
<1>3. Decide(t) => run[t].todo # <<>> /\ Current(t).op \in {"getAttrs", "T5", "T9"}
  BY DEF Decide, Doing
<1>4. Store(t) => run[t].todo # <<>> /\ Current(t).op \in {"storeTrack", "storeRest"}
  BY DEF Store, Doing
<1>5. WriteTid(t) => run[t].todo # <<>> /\ Current(t).op = "tid" BY DEF WriteTid, Doing
<1>6. SaveEventSeqId(t) => run[t].todo # <<>> /\ Current(t).op = "save"
  BY DEF SaveEventSeqId, Doing
<1>7. ClearEventDatabase(t) => run[t].todo # <<>> /\ Current(t).op = "clear"
  BY DEF ClearEventDatabase, Doing
<1>8. EventSubscribed(t) => run[t].todo # <<>> /\ Current(t).op = "gate"
  BY DEF EventSubscribed, Doing
<1>9. RestoreConnTid(t) => run[t].todo # <<>> /\ Current(t).op = "restore"
  BY DEF RestoreConnTid, Doing
<1>10. Notify(t) => run[t].todo # <<>> /\ Current(t).op \in {"changed", "interim"}
  BY DEF Notify, Doing
<1>11. Answer(t) => run[t].todo # <<>> /\ Current(t).op \in {"respond", "attributes"}
  BY DEF Answer, Doing
<1> QED
  BY <1>1, <1>2, <1>3, <1>4, <1>5, <1>6, <1>7, <1>8, <1>9, <1>10, <1>11 DEF Step

\* The list l begins with an access o and leaves rest.
Leads(l, o, rest) == l # <<>> /\ Head(l) = o /\ Tail(l) = rest

LEMMA ListsLead ==
  /\ Leads(GetCapabilities, Op("tid", 0), Clearing)
  /\ Leads(GetPlayStatus, Op("tid", 0), Polling)
  /\ Leads(GetElementAttributes, Op("tid", 0), Reading)
  /\ Leads(Clearing, Op("clear", 0), Answering)
  /\ Leads(Answering, Op("respond", 0), <<>>)
  /\ Leads(Polling, Op("read", 0), Answering)
  /\ Leads(Reading, Op("read", 0), Loading)
  /\ Leads(Loading, Op("load", 0), Deciding)
  /\ Leads(Deciding, Op("getAttrs", 0), <<>>)
  /\ Leads(Turning, Op("restore", Track), Telling)
  /\ Leads(Telling, Op("changed", Track), Storing)
  /\ Leads(Storing, Op("storeTrack", 0), Attributing)
  /\ Leads(Attributing, Op("attributes", 0), <<>>)
  /\ \A e \in Events : /\ Leads(RegisterNotification(e), Op("save", e), Saved(e))
                       /\ Leads(Saved(e), Op("read", 0), IF e = Track THEN Marking(e)
                                                                      ELSE Restoring(e))
                       /\ Leads(Marking(e), Op("storeTrack", 0), Restoring(e))
                       /\ Leads(Restoring(e), Op("restore", e), Interim(e))
                       /\ Leads(Interim(e), Op("interim", e), <<>>)
  /\ Leads(NotificationTrackChanged, Op("read", 0), Loading5)
  /\ Leads(Loading5, Op("load", 0), Deciding5)
  /\ Leads(Deciding5, Op("T5", 0), <<>>)
  /\ Leads(NotificationPlayStatusChanged, Op("read", 0), Loading9)
  /\ Leads(Loading9, Op("load", 0), Deciding9)
  /\ Leads(Deciding9, Op("T9", 0), <<>>)
<1>1. ASSUME NEW o \in Accesses, NEW s \in Lists PROVE Leads(<<o>> \o s, o, s)
  BY Cons DEF Leads, Lists
<1>2. ASSUME NEW o PROVE Leads(<<o>>, o, <<>>)
  <2>1. <<o>> # <<>> /\ Head(<<o>>) = o /\ Tail(<<o>>) = <<>> BY SMT
  <2> QED BY <2>1 DEF Leads
<1>3. /\ Op("clear", 0) \in Accesses /\ Op("tid", 0) \in Accesses /\ Op("read", 0) \in Accesses
      /\ Op("load", 0) \in Accesses /\ Op("storeTrack", 0) \in Accesses
      /\ \A e \in Events : /\ Op("save", e) \in Accesses /\ Op("restore", e) \in Accesses
                           /\ Op("changed", e) \in Accesses
  BY Known DEF Plain, Eventful
<1>4. Track \in Events BY SMT DEF Track, Events
<1>5. /\ Leads(GetCapabilities, Op("tid", 0), Clearing)
      /\ Leads(GetPlayStatus, Op("tid", 0), Polling)
      /\ Leads(GetElementAttributes, Op("tid", 0), Reading)
  BY <1>1, <1>3, Literals, ListsTyped
<1>6. /\ Leads(Clearing, Op("clear", 0), Answering) /\ Leads(Polling, Op("read", 0), Answering)
      /\ Leads(Reading, Op("read", 0), Loading) /\ Leads(Loading, Op("load", 0), Deciding)
      /\ Leads(Turning, Op("restore", Track), Telling)
      /\ Leads(Telling, Op("changed", Track), Storing)
      /\ Leads(Storing, Op("storeTrack", 0), Attributing)
  BY <1>1, <1>3, <1>4, Remains, ListsTyped
<1>7. ASSUME NEW e \in Events
      PROVE  /\ Leads(RegisterNotification(e), Op("save", e), Saved(e))
             /\ Leads(Saved(e), Op("read", 0), IF e = Track THEN Marking(e) ELSE Restoring(e))
             /\ Leads(Marking(e), Op("storeTrack", 0), Restoring(e))
             /\ Leads(Restoring(e), Op("restore", e), Interim(e))
  BY <1>1, <1>3, <1>4, Literals, Remains, ListsTyped
<1>8. /\ Leads(NotificationTrackChanged, Op("read", 0), Loading5)
      /\ Leads(Loading5, Op("load", 0), Deciding5)
      /\ Leads(NotificationPlayStatusChanged, Op("read", 0), Loading9)
      /\ Leads(Loading9, Op("load", 0), Deciding9)
  BY <1>1, <1>3, Literals, Remains, ListsTyped
<1>9. /\ Leads(Answering, Op("respond", 0), <<>>) /\ Leads(Deciding, Op("getAttrs", 0), <<>>)
      /\ Leads(Attributing, Op("attributes", 0), <<>>)
      /\ \A e : Leads(Interim(e), Op("interim", e), <<>>)
      /\ Leads(Deciding5, Op("T5", 0), <<>>) /\ Leads(Deciding9, Op("T9", 0), <<>>)
  BY <1>2 DEF Answering, Deciding, Attributing, Interim, Deciding5, Deciding9
<1> QED BY <1>5, <1>6, <1>7, <1>8, <1>9

\* What a step of t does when its list leads with o.
LEMMA LedStep ==
  ASSUME TypeInv, NEW t \in Threads, Step(t), NEW o, NEW rest, Leads(run[t].todo, o, rest)
  PROVE  /\ Current(t) = o /\ Event(t) = o.event
         /\ o.op = "read" => Read(t) /\ Goes(t, rest, [run[t] EXCEPT !.copy = file])
         /\ o.op = "load" => Load(t) /\ Goes(t, rest, [run[t] EXCEPT !.was = seen])
         /\ o.op \in {"getAttrs", "T5", "T9"} =>
              Decide(t) /\ Decision(t) \in Lists /\ Goes(t, Decision(t) \o rest, run[t])
         /\ o.op = "gate" =>
              EventSubscribed(t)
                /\ Goes(t, IF db[o.event] # 0 THEN o.then \o rest ELSE rest, run[t])
         /\ o.op \in {"storeTrack", "storeRest"} => Store(t) /\ Goes(t, rest, run[t])
         /\ o.op = "tid" => WriteTid(t) /\ Goes(t, rest, run[t])
         /\ o.op = "save" => SaveEventSeqId(t) /\ Goes(t, rest, run[t])
         /\ o.op = "clear" => ClearEventDatabase(t) /\ Goes(t, rest, run[t])
         /\ o.op = "restore" => RestoreConnTid(t) /\ Goes(t, rest, run[t])
         /\ o.op \in {"changed", "interim"} => Notify(t) /\ Goes(t, rest, run[t])
         /\ o.op \in {"respond", "attributes"} => Answer(t) /\ Goes(t, rest, run[t])
<1>1. Current(t) = o /\ Tail(run[t].todo) = rest /\ Event(t) = o.event
  BY DEF Leads, Current, Event
<1>2. o.op = "read" => Read(t) /\ Goes(t, rest, [run[t] EXCEPT !.copy = file])
  BY <1>1, Performs, ReadGoes
<1>3. o.op = "load" => Load(t) /\ Goes(t, rest, [run[t] EXCEPT !.was = seen])
  BY <1>1, Performs, LoadGoes
<1>4. o.op \in {"getAttrs", "T5", "T9"} =>
        Decide(t) /\ Decision(t) \in Lists /\ Goes(t, Decision(t) \o rest, run[t])
  BY <1>1, Performs, DecideGoes
<1>5. o.op = "gate" => EventSubscribed(t)
                         /\ Goes(t, IF db[o.event] # 0 THEN o.then \o rest ELSE rest, run[t])
  BY <1>1, Performs, GateGoes
<1>6. /\ o.op \in {"storeTrack", "storeRest"} => Store(t) /\ Goes(t, rest, run[t])
      /\ o.op = "tid" => WriteTid(t) /\ Goes(t, rest, run[t])
      /\ o.op = "save" => SaveEventSeqId(t) /\ Goes(t, rest, run[t])
      /\ o.op = "clear" => ClearEventDatabase(t) /\ Goes(t, rest, run[t])
      /\ o.op = "restore" => RestoreConnTid(t) /\ Goes(t, rest, run[t])
      /\ o.op \in {"changed", "interim"} => Notify(t) /\ Goes(t, rest, run[t])
      /\ o.op \in {"respond", "attributes"} => Answer(t) /\ Goes(t, rest, run[t])
  BY <1>1, Performs, OtherGoes
<1> QED BY <1>1, <1>2, <1>3, <1>4, <1>5, <1>6

-----------------------------------------------------------------------------
(* The adapter's lists after their decision.                               *)

Has(s, op) == \E i \in 1 .. Len(s) : s[i].op = op

\* A notification of e is still to come.
Pending(s, e) == \E i \in 1 .. Len(s) : s[i].event = e /\ s[i].op \in {"gate", "changed"}

\* T5 notifies and stores the track at the end; it does not touch the status.
T5Rest(s) ==
  /\ s # <<>>
  /\ \A i \in 1 .. Len(s) :
       /\ s[i].op = "storeTrack" <=> i = Len(s)
       /\ s[i].op \in {"gate", "restore", "changed", "storeTrack"}
       /\ s[i].event # Psc

\* T9 stores its bytes after it has dealt with the play status.
T9Rest(s) ==
  \A i \in 1 .. Len(s) :
    /\ s[i].op \in {"gate", "restore", "changed", "storeRest"}
    /\ s[i].event = Psc => \E j \in i + 1 .. Len(s) : s[j].op = "storeRest"

\* Only the next notification is past its test; its TID is restored first.
Order(s) ==
  \A i \in 1 .. Len(s) :
    /\ s[i].op \in {"gate", "restore", "changed", "storeTrack", "storeRest"}
    /\ s[i].op = "restore" => i = 1 /\ Len(s) >= 2 /\ s[2].op = "changed" /\ s[2].event = s[1].event
    /\ s[i].op = "changed" => i = 1 \/ (i = 2 /\ s[1].op = "restore")

LEMMA TailElements ==
  ASSUME NEW s \in Lists, s # <<>>
  PROVE  /\ Tail(s) \in Lists /\ Len(s) \in Nat /\ Len(s) >= 1 /\ Len(Tail(s)) = Len(s) - 1
         /\ Head(s) = s[1]
         /\ \A i \in 1 .. Len(s) - 1 : Tail(s)[i] = s[i + 1]
         /\ Len(s) = 1 <=> Tail(s) = <<>>
<1>1. s \in Seq(Accesses) BY DEF Lists
<1>2. /\ Tail(s) \in Seq(Accesses) /\ Len(Tail(s)) = Len(s) - 1 /\ Len(s) \in Nat
      /\ \A i \in 1 .. Len(Tail(s)) : Tail(s)[i] = s[i + 1]
  BY <1>1, HeadTailProperties
<1>3. Len(s) >= 1 /\ Head(s) = s[1]
  <2>1. Len(s) # 0 BY <1>1, EmptySeq
  <2>2. Len(s) >= 1 BY SMT, <1>2, <2>1
  <2>3. Head(s) = s[1] BY <1>1, HeadTailProperties
  <2> QED BY <2>2, <2>3
<1>4. Len(Tail(s)) = 0 <=> Tail(s) = <<>> BY <1>2, EmptySeq
<1>5. \A i \in 1 .. Len(s) - 1 : Tail(s)[i] = s[i + 1] BY <1>2
<1>6. Len(s) = 1 <=> Tail(s) = <<>> BY SMT, <1>2, <1>4
<1> QED BY <1>2, <1>3, <1>5, <1>6 DEF Lists

LEMMA TailRest ==
  ASSUME NEW s \in Lists, s # <<>>
  PROVE  /\ T5Rest(s) /\ Head(s).op # "storeTrack" => T5Rest(Tail(s))
         /\ T5Rest(s) /\ Head(s).op = "storeTrack" => Tail(s) = <<>> /\ \A e : ~Pending(s, e)
         /\ T9Rest(s) => T9Rest(Tail(s))
         /\ Order(s) => Order(Tail(s))
         /\ Order(s) /\ Head(s).op = "restore" =>
              /\ Tail(s) # <<>> /\ Head(Tail(s)).op = "changed" /\ Head(Tail(s)).event = Head(s).event
         /\ Order(s) /\ Head(s).op # "restore" /\ Tail(s) # <<>> =>
              Head(Tail(s)).op \notin {"restore", "changed"}
<1> DEFINE u == Tail(s)  n == Len(s)
<1>1. /\ u \in Lists /\ n \in Nat /\ n >= 1 /\ Len(u) = n - 1 /\ Head(s) = s[1]
      /\ \A i \in 1 .. n - 1 : u[i] = s[i + 1]
      /\ n = 1 <=> u = <<>>
  BY TailElements
<1>2. u # <<>> => Head(u) = u[1] /\ Len(u) >= 1 BY <1>1, TailElements
<1> HIDE DEF u
<1>3. ASSUME T5Rest(s), Head(s).op # "storeTrack" PROVE T5Rest(u)
  <2>1. n # 1 BY SMT, <1>1, <1>3 DEF T5Rest
  <2> QED BY SMT, <1>1, <1>3, <2>1 DEF T5Rest
<1>4. ASSUME T5Rest(s), Head(s).op = "storeTrack" PROVE u = <<>> /\ \A e : ~Pending(s, e)
  <2>1. n = 1 BY SMT, <1>1, <1>4 DEF T5Rest
  <2> QED BY SMT, <1>1, <1>4, <2>1 DEF Pending
<1>5. ASSUME T9Rest(s) PROVE T9Rest(u)
  <2>1. ASSUME NEW i \in 1 .. Len(u)
        PROVE  /\ u[i].op \in {"gate", "restore", "changed", "storeRest"}
               /\ u[i].event = Psc => \E j \in i + 1 .. Len(u) : u[j].op = "storeRest"
    <3>1. i + 1 \in 1 .. n /\ u[i] = s[i + 1] BY SMT, <1>1, <2>1
    <3>2. s[i + 1].op \in {"gate", "restore", "changed", "storeRest"} BY <1>5, <3>1 DEF T9Rest
    <3>3. ASSUME s[i + 1].event = Psc PROVE \E j \in i + 1 .. Len(u) : u[j].op = "storeRest"
      <4>1. PICK j \in (i + 1) + 1 .. n : s[j].op = "storeRest" BY <1>5, <3>1, <3>3 DEF T9Rest
      <4>2. j - 1 \in i + 1 .. Len(u) /\ u[j - 1] = s[j] BY SMT, <1>1, <2>1, <4>1
      <4> QED BY <4>1, <4>2
    <3> QED BY <3>1, <3>2, <3>3
  <2> QED BY <2>1 DEF T9Rest
<1>6. ASSUME Order(s) PROVE Order(u)
  <2>1. ASSUME NEW i \in 1 .. Len(u)
        PROVE  /\ u[i].op \in {"gate", "restore", "changed", "storeTrack", "storeRest"}
               /\ u[i].op # "restore" /\ (u[i].op = "changed" => i = 1)
    <3>1. i + 1 \in 1 .. n /\ i + 1 # 1 /\ u[i] = s[i + 1] /\ (i + 1 = 2 => i = 1) BY SMT, <1>1, <2>1
    <3> QED BY <1>6, <3>1 DEF Order
  <2> QED BY <2>1 DEF Order
<1>7. ASSUME Order(s), Head(s).op = "restore"
      PROVE  u # <<>> /\ Head(u).op = "changed" /\ Head(u).event = Head(s).event
  BY SMT, <1>1, <1>2, <1>7 DEF Order
<1>8. ASSUME Order(s), Head(s).op # "restore", u # <<>>
      PROVE  Head(u).op \notin {"restore", "changed"}
  BY SMT, <1>1, <1>2, <1>8 DEF Order
<1> QED BY <1>3, <1>4, <1>5, <1>6, <1>7, <1>8 DEF u

LEMMA TailHas ==
  ASSUME NEW s \in Lists, s # <<>>
  PROVE  /\ \A op : Head(s).op # op => (Has(s, op) <=> Has(Tail(s), op))
         /\ \A e : ~(Head(s).event = e /\ Head(s).op \in {"gate", "changed"})
                     => (Pending(s, e) <=> Pending(Tail(s), e))
         /\ T9Rest(s) /\ Head(s).event = Psc => Has(Tail(s), "storeRest")
<1> DEFINE u == Tail(s)  n == Len(s)
<1>1. /\ u \in Lists /\ n \in Nat /\ n >= 1 /\ Len(u) = n - 1 /\ Head(s) = s[1]
      /\ \A i \in 1 .. n - 1 : u[i] = s[i + 1]
  BY TailElements
<1> HIDE DEF u
<1>2. \A i \in 2 .. n : i - 1 \in 1 .. Len(u) /\ u[i - 1] = s[i] BY SMT, <1>1
<1>3. \A i \in 1 .. Len(u) : i + 1 \in 2 .. n /\ u[i] = s[i + 1] BY SMT, <1>1
<1>4. \A i \in 1 .. n : i = 1 \/ i \in 2 .. n BY SMT, <1>1
<1>5. ASSUME NEW op, Head(s).op # op PROVE Has(s, op) <=> Has(u, op)
  <2>1. Has(s, op) => Has(u, op) BY <1>1, <1>2, <1>4, <1>5 DEF Has
  <2>2. \A i \in 2 .. n : i \in 1 .. n BY SMT, <1>1
  <2>3. Has(u, op) => Has(s, op) BY <1>3, <2>2 DEF Has
  <2> QED BY <2>1, <2>3
<1>6. ASSUME NEW e, ~(Head(s).event = e /\ Head(s).op \in {"gate", "changed"})
      PROVE  Pending(s, e) <=> Pending(u, e)
  <2>1. Pending(s, e) => Pending(u, e) BY <1>1, <1>2, <1>4, <1>6 DEF Pending
  <2>2. \A i \in 2 .. n : i \in 1 .. n BY SMT, <1>1
  <2>3. Pending(u, e) => Pending(s, e) BY <1>3, <2>2 DEF Pending
  <2> QED BY <2>1, <2>3
<1>7. ASSUME T9Rest(s), Head(s).event = Psc PROVE Has(u, "storeRest")
  <2>1. PICK j \in 1 + 1 .. n : s[j].op = "storeRest" BY SMT, <1>1, <1>7 DEF T9Rest
  <2>2. j \in 2 .. n BY SMT, <2>1
  <2> QED BY <1>2, <2>1, <2>2 DEF Has
<1> QED BY <1>5, <1>6, <1>7 DEF u

\* A gate of the adapter opens on a CHANGED, and on one more gate at most: n is
\* what it makes of the list u behind it.
Opens(a, u, n) ==
  \E k \in {1, 2} :
    /\ n \in Lists /\ Len(n) = Len(u) + 1 + k
    /\ n[1].op = "restore" /\ n[1].event = a.event
    /\ n[2].op = "changed" /\ n[2].event = a.event
    /\ k = 2 => n[3].op = "gate" /\ n[3].event = Ncc
    /\ \A i \in k + 2 .. Len(n) : n[i] = u[i - k - 1]

LEMMA GateOpens ==
  ASSUME NEW a \in Accesses, a.op = "gate", NEW u \in Lists
  PROVE  Opens(a, u, a.then \o u)
<1> DEFINE n == a.then \o u
<1> SUFFICES Opens(a, u, n) OBVIOUS
<1> HIDE DEF n
<1>1. a.event \in Events /\ (\/ a.then = Changed(a.event)
                             \/ a.then = Changed(a.event) \o IfSubscribed(Ncc))
  <2>1. ASSUME NEW o \in Plain, a = Op(o, 0) PROVE FALSE BY <2>1 DEF Op, Plain
  <2>2. ASSUME NEW o \in Eventful, NEW e \in Events, a = Op(o, e) PROVE FALSE
    BY <2>2 DEF Op, Eventful
  <2>3. ASSUME NEW e \in Events, a = Gate(e, Changed(e))
        PROVE  a.event \in Events /\ a.then = Changed(a.event)
    BY <2>3 DEF Gate
  <2>4. ASSUME a = StatusGate
        PROVE  a.event \in Events /\ a.then = Changed(a.event) \o IfSubscribed(Ncc)
    <3>1. Psc \in Events BY SMT DEF Psc, Events
    <3> QED BY <2>4, <3>1 DEF StatusGate, Gate
  <2> QED BY <2>1, <2>2, <2>3, <2>4 DEF Accesses, Gates
<1> DEFINE r == Op("restore", a.event)  c == Op("changed", a.event)  g == Gate(Ncc, Changed(Ncc))
<1>2. /\ r.op = "restore" /\ r.event = a.event /\ c.op = "changed" /\ c.event = a.event
      /\ g.op = "gate" /\ g.event = Ncc
  BY DEF Op, Gate
<1>3. /\ r \in Accesses /\ c \in Accesses /\ g \in Accesses
  <2>1. Ncc \in Events BY SMT DEF Ncc, Events
  <2> QED BY <1>1, <2>1, Known DEF Eventful
<1>4. CASE a.then = Changed(a.event)
  <2>1. n = <<r, c>> \o u BY <1>4 DEF n, Changed
  <2> HIDE DEF r, c, g, Accesses
  <2>2. /\ n \in Lists /\ Len(n) = Len(u) + 2 /\ n[1] = r /\ n[2] = c
        /\ \A i \in 3 .. Len(n) : n[i] = u[i - 2]
    BY SMT, <1>3, <2>1 DEF Lists
  <2>3. Len(n) = Len(u) + 1 + 1 /\ \A i \in 1 + 2 .. Len(n) : n[i] = u[i - 1 - 1]
    <3>1. Len(u) \in Nat BY DEF Lists
    <3> QED BY SMT, <2>2, <3>1
  <2> QED BY <1>2, <2>2, <2>3 DEF Opens
<1>5. CASE a.then = Changed(a.event) \o IfSubscribed(Ncc)
  <2>1. a.then = <<r, c>> \o <<g>> BY <1>5 DEF Changed, IfSubscribed
  <2> HIDE DEF r, c, g, Accesses
  <2>2. <<r, c>> \o <<g>> = <<r, c, g>> BY Three
  <2>3. n = <<r, c, g>> \o u BY <2>1, <2>2 DEF n
  <2>4. /\ n \in Lists /\ Len(n) = Len(u) + 3 /\ n[1] = r /\ n[2] = c /\ n[3] = g
        /\ \A i \in 4 .. Len(n) : n[i] = u[i - 3]
    BY SMT, <1>3, <2>3 DEF Lists
  <2>5. Len(n) = Len(u) + 1 + 2 /\ \A i \in 2 + 2 .. Len(n) : n[i] = u[i - 2 - 1]
    <3>1. Len(u) \in Nat BY DEF Lists
    <3> QED BY SMT, <2>4, <3>1
  <2> QED BY <1>2, <2>4, <2>5 DEF Opens
<1> QED BY <1>1, <1>4, <1>5
-----------------------------------------------------------------------------
(* The session: registrations and transaction labels.                      *)

Receiving == run["inbound"].todo
Notifying == run["adapter"].todo

\* The database is what this connection asked for.
Even == IF greeted THEN asked = db ELSE asked = Unsubscribed

\* A response built now leaves under the TID of the command.
Own == ~overlap => conn = run["inbound"].tid

Saving(e) == greeted /\ asked = [db EXCEPT ![e] = Encoded(run["inbound"].tid)]
SavedAs(e) == Even /\ db[e] = Encoded(run["inbound"].tid)

\* The receive loop, command by command.
CommandInv ==
  \/ Receiving = <<>> /\ Even
  \/ Receiving = GetCapabilities /\ greeted /\ asked = Unsubscribed
  \/ Receiving = Clearing /\ greeted /\ asked = Unsubscribed /\ Own
  \/ Receiving \in {GetPlayStatus, GetElementAttributes} /\ Even
  \/ Receiving \in {Answering, Polling, Reading, Loading, Deciding} /\ Even /\ Own
  \/ Receiving \in {Turning, Telling, Storing} /\ Even /\ Edge("inbound")
  \/ Receiving = Attributing /\ Even /\ (Own \/ Edge("inbound"))
  \/ \E e \in Events :
       \/ Receiving = RegisterNotification(e) /\ Saving(e)
       \/ Receiving \in {Saved(e), Marking(e), Restoring(e)} /\ SavedAs(e)
       \/ Receiving = Interim(e) /\ Even /\ Own

\* Up to its decision, the adapter has done nothing anyone could see.
Undecided == Notifying \in {NotificationTrackChanged, Loading5, Deciding5,
                            NotificationPlayStatusChanged, Loading9, Deciding9}

\* If s notifies next, it is of an event in the database, under its TID.
Aimed(s) ==
  s # <<>> => /\ Head(s).op \in {"restore", "changed"} => db[Head(s).event] # 0
              /\ Head(s).op = "changed" => conn = db[Head(s).event] - 1

\* The adapter restores the TID of an event it found in the database.
NoticeInv ==
  /\ ~overlap => Receiving = <<>> \/ Notifying = <<>>
  /\ Undecided \/ Order(Notifying)
  /\ ~overlap /\ greeted => Aimed(Notifying)

SessionInv == TypeInv /\ CommandInv /\ NoticeInv

LEMMA OpFields == \A o, e : Op(o, e).op = o /\ Op(o, e).event = e BY DEF Op

LEMMA EncodedTyped ==
  ASSUME NEW tid \in 0 .. MaxTid
  PROVE  Encoded(tid) # 0 /\ Decoded(Encoded(tid)) = tid
<1>1. tid + 1 \in 0 .. MaxTid + 1 /\ tid + 1 # 0 /\ (tid + 1) - 1 = tid BY SMT, TidAssumption
<1> QED BY <1>1, DecodedTyped DEF Encoded

LEMMA ListsNonempty ==
  /\ GetCapabilities # <<>> /\ GetPlayStatus # <<>> /\ GetElementAttributes # <<>>
  /\ Clearing # <<>> /\ Answering # <<>> /\ Polling # <<>> /\ Reading # <<>> /\ Loading # <<>>
  /\ Deciding # <<>> /\ Turning # <<>> /\ Telling # <<>> /\ Storing # <<>> /\ Attributing # <<>>
  /\ \A e \in Events : /\ RegisterNotification(e) # <<>> /\ Saved(e) # <<>>
                       /\ Marking(e) # <<>> /\ Restoring(e) # <<>> /\ Interim(e) # <<>>
  BY ListsLead DEF Leads

LEMMA IdleEven == ASSUME CommandInv, Receiving = <<>> PROVE Even
  BY ListsNonempty DEF CommandInv

\* LedStep for an access that is no gate.
LEMMA OpStep ==
  ASSUME TypeInv, NEW t \in Threads, Step(t), NEW k, NEW e, NEW rest,
         Leads(run[t].todo, Op(k, e), rest)
  PROVE  /\ Current(t).op = k /\ Event(t) = e
         /\ k = "read" => Read(t) /\ Goes(t, rest, [run[t] EXCEPT !.copy = file])
         /\ k = "load" => Load(t) /\ Goes(t, rest, [run[t] EXCEPT !.was = seen])
         /\ k \in {"getAttrs", "T5", "T9"} =>
              Decide(t) /\ Decision(t) \in Lists /\ Goes(t, Decision(t) \o rest, run[t])
         /\ k \in {"storeTrack", "storeRest"} => Store(t) /\ Goes(t, rest, run[t])
         /\ k = "tid" => WriteTid(t) /\ Goes(t, rest, run[t])
         /\ k = "save" => SaveEventSeqId(t) /\ Goes(t, rest, run[t])
         /\ k = "clear" => ClearEventDatabase(t) /\ Goes(t, rest, run[t])
         /\ k = "restore" => RestoreConnTid(t) /\ Goes(t, rest, run[t])
         /\ k \in {"changed", "interim"} => Notify(t) /\ Goes(t, rest, run[t])
         /\ k \in {"respond", "attributes"} => Answer(t) /\ Goes(t, rest, run[t])
<1> DEFINE o == Op(k, e)
<1>1. o.op = k /\ o.event = e BY OpFields
<1>2. Leads(run[t].todo, o, rest) OBVIOUS
<1> HIDE DEF o
<1> QED BY <1>1, <1>2, LedStep

\* The receive loop goes from one line of CommandInv to the next.
LEMMA CommandSteps == ASSUME TypeInv, CommandInv, Step("inbound") PROVE CommandInv'
<1>0. /\ "inbound" \in Threads /\ run["inbound"].tid \in 0 .. MaxTid /\ run["inbound"] \in Handlers
      /\ db \in [Events -> 0 .. MaxTid + 1] /\ Track \in Events
      /\ UNCHANGED <<overlap, greeted, asked>> /\ run["inbound"].todo # <<>>
  <2>1. Track \in Events BY SMT DEF Track, Events
  <2> QED BY <2>1, StepShared, Performs DEF TypeInv, TypeOK, Threads, Handlers
<1>1. CASE Receiving = GetCapabilities /\ greeted /\ asked = Unsubscribed
  <2>0. Leads(run["inbound"].todo, Op("tid", 0), Clearing)
    BY <1>1, ListsLead DEF Receiving
  <2>1. WriteTid("inbound") /\ Goes("inbound", Clearing, run["inbound"])
    BY <1>0, <2>0, OpStep
  <2>2. Receiving' = Clearing /\ run'["inbound"].tid = run["inbound"].tid
    BY <2>1, ListsNonempty DEF Goes, Receiving
  <2>3. Own' BY <2>1, <2>2 DEF WriteTid, Own
  <2> QED BY <1>0, <1>1, <2>2, <2>3 DEF CommandInv
<1>2. CASE Receiving = Clearing /\ greeted /\ asked = Unsubscribed /\ Own
  <2>0. Leads(run["inbound"].todo, Op("clear", 0), Answering)
    BY <1>2, ListsLead DEF Receiving
  <2>1. ClearEventDatabase("inbound") /\ Goes("inbound", Answering, run["inbound"])
    BY <1>0, <2>0, OpStep
  <2>2. Receiving' = Answering /\ run'["inbound"].tid = run["inbound"].tid
    BY <2>1, ListsNonempty DEF Goes, Receiving
  <2>3. Own' /\ Even' BY <1>0, <1>2, <2>1, <2>2 DEF ClearEventDatabase, Own, Even
  <2> QED BY <2>2, <2>3 DEF CommandInv
<1>3. CASE Receiving = GetPlayStatus /\ Even
  <2>0. Leads(run["inbound"].todo, Op("tid", 0), Polling)
    BY <1>3, ListsLead DEF Receiving
  <2>1. WriteTid("inbound") /\ Goes("inbound", Polling, run["inbound"])
    BY <1>0, <2>0, OpStep
  <2>2. Receiving' = Polling /\ run'["inbound"].tid = run["inbound"].tid
    BY <2>1, ListsNonempty DEF Goes, Receiving
  <2>3. Own' /\ Even' BY <1>0, <1>3, <2>1, <2>2 DEF WriteTid, Own, Even
  <2> QED BY <2>2, <2>3 DEF CommandInv
<1>4. CASE Receiving = GetElementAttributes /\ Even
  <2>0. Leads(run["inbound"].todo, Op("tid", 0), Reading)
    BY <1>4, ListsLead DEF Receiving
  <2>1. WriteTid("inbound") /\ Goes("inbound", Reading, run["inbound"])
    BY <1>0, <2>0, OpStep
  <2>2. Receiving' = Reading /\ run'["inbound"].tid = run["inbound"].tid
    BY <2>1, ListsNonempty DEF Goes, Receiving
  <2>3. Own' /\ Even' BY <1>0, <1>4, <2>1, <2>2 DEF WriteTid, Own, Even
  <2> QED BY <2>2, <2>3 DEF CommandInv
<1>5. CASE Receiving = Answering /\ Even /\ Own
  <2>0. Leads(run["inbound"].todo, Op("respond", 0), <<>>)
    BY <1>5, ListsLead DEF Receiving
  <2>1. Answer("inbound") /\ Goes("inbound", <<>>, run["inbound"])
    BY <1>0, <2>0, OpStep
  <2> QED BY <1>0, <1>5, <2>1 DEF Goes, Answer, Other, bss, CommandInv, Even, Receiving
<1>6. CASE Receiving \in {Polling, Reading} /\ Even /\ Own
  <2>0. PICK l \in {Answering, Loading} : Leads(run["inbound"].todo, Op("read", 0), l)
    BY <1>6, ListsLead DEF Receiving
  <2>1. /\ Read("inbound")
        /\ \E n \in {Answering, Loading} :
             Goes("inbound", n, [run["inbound"] EXCEPT !.copy = file])
    BY <1>0, <2>0, OpStep
  <2>2. Receiving' \in {Answering, Loading} /\ run'["inbound"].tid = run["inbound"].tid
    BY <1>0, <2>1, ListsNonempty DEF Goes, Receiving, Handlers
  <2>3. Own' /\ Even' BY <1>0, <1>6, <2>1, <2>2 DEF Read, Other, bss, Own, Even
  <2> QED BY <2>2, <2>3 DEF CommandInv
<1>7. CASE Receiving = Loading /\ Even /\ Own
  <2>0. Leads(run["inbound"].todo, Op("load", 0), Deciding)
    BY <1>7, ListsLead DEF Receiving
  <2>1. Load("inbound") /\ Goes("inbound", Deciding, [run["inbound"] EXCEPT !.was = seen])
    BY <1>0, <2>0, OpStep
  <2>2. Receiving' = Deciding /\ run'["inbound"].tid = run["inbound"].tid
    BY <1>0, <2>1, ListsNonempty DEF Goes, Receiving, Handlers
  <2>3. Own' /\ Even' BY <1>0, <1>7, <2>1, <2>2 DEF Load, bss, Own, Even
  <2> QED BY <2>2, <2>3 DEF CommandInv
<1>8. CASE Receiving = Deciding /\ Even /\ Own
  <2>0. Leads(run["inbound"].todo, Op("getAttrs", 0), <<>>)
    BY <1>8, ListsLead DEF Receiving
  <2>1. Decide("inbound") /\ Decision("inbound") \in Lists
          /\ Goes("inbound", Decision("inbound") \o <<>>, run["inbound"])
          /\ Current("inbound").op = "getAttrs"
    BY <1>0, <2>0, OpStep
  <2>2. Decision("inbound") \o <<>> = Decision("inbound") BY <2>1, Empty DEF Lists
  <2>3. <<>> \o RespondAttrs = RespondAttrs BY DecisionsTyped, Empty DEF Lists
  <2>4. Decision("inbound") = IF Edge("inbound") THEN Turning ELSE Attributing
    BY <2>1, <2>3, Literals DEF Decision, RespondAttrs, Attributing
  <2>5. Receiving' = IF Edge("inbound") THEN Turning ELSE Attributing
    BY <2>1, <2>2, <2>4 DEF Goes, Receiving
  <2>6. /\ run'["inbound"].tid = run["inbound"].tid /\ run'["inbound"].copy = run["inbound"].copy
        /\ run'["inbound"].was = run["inbound"].was
    BY <2>1, <2>2, <2>4, ListsNonempty DEF Goes
  <2>7. Own' /\ Even' /\ (Edge("inbound") => Edge("inbound")')
    BY <1>0, <1>8, <2>1, <2>6 DEF Decide, bss, Own, Even, Edge
  <2> QED BY <2>5, <2>7 DEF CommandInv
<1>9. CASE Receiving \in {Turning, Telling, Storing} /\ Even /\ Edge("inbound")
  <2>0. PICK k \in {"restore", "changed", "storeTrack"}, e \in {Track, 0},
               l \in {Telling, Storing, Attributing} : Leads(run["inbound"].todo, Op(k, e), l)
    BY <1>9, ListsLead DEF Receiving
  <2>1. /\ \E n \in {Telling, Storing, Attributing} : Goes("inbound", n, run["inbound"])
        /\ RestoreConnTid("inbound") \/ Notify("inbound") \/ Store("inbound")
    BY <1>0, <2>0, OpStep
  <2>2. db' = db BY <2>1 DEF RestoreConnTid, Notify, Store, bss
  <2>3. /\ Receiving' \in {Telling, Storing, Attributing}
        /\ run'["inbound"].copy = run["inbound"].copy /\ run'["inbound"].was = run["inbound"].was
    BY <2>1, ListsNonempty DEF Goes, Receiving
  <2>4. Even' /\ Edge("inbound")' BY <1>0, <1>9, <2>2, <2>3 DEF Even, Edge
  <2> QED BY <2>3, <2>4 DEF CommandInv
<1>10. CASE Receiving = Attributing /\ Even
  <2>0. Leads(run["inbound"].todo, Op("attributes", 0), <<>>)
    BY <1>10, ListsLead DEF Receiving
  <2>1. Answer("inbound") /\ Goes("inbound", <<>>, run["inbound"])
    BY <1>0, <2>0, OpStep
  <2> QED BY <1>0, <1>10, <2>1 DEF Goes, Answer, Other, bss, CommandInv, Even, Receiving
<1>11. ASSUME NEW e \in Events, Receiving = RegisterNotification(e), Saving(e)
       PROVE  CommandInv'
  <2>0. Leads(run["inbound"].todo, Op("save", e), Saved(e))
    BY <1>11, ListsLead DEF Receiving
  <2>1. /\ SaveEventSeqId("inbound") /\ Event("inbound") = e
        /\ Goes("inbound", Saved(e), run["inbound"])
    BY <1>0, <2>0, OpStep
  <2>2. db' = [db EXCEPT ![e] = Encoded(run["inbound"].tid)] BY <2>1 DEF SaveEventSeqId
  <2>3. db'[e] = Encoded(run["inbound"].tid) BY <1>0, <2>2
  <2>4. Receiving' = Saved(e) /\ run'["inbound"].tid = run["inbound"].tid
    BY <2>1, ListsNonempty DEF Goes, Receiving
  <2>5. SavedAs(e)' BY <1>0, <1>11, <2>2, <2>3, <2>4 DEF Saving, SavedAs, Even
  <2> QED BY <2>4, <2>5 DEF CommandInv
<1>12. ASSUME NEW e \in Events, Receiving \in {Saved(e), Marking(e)}, SavedAs(e)
       PROVE  CommandInv'
  <2>0. PICK k \in {"read", "storeTrack"}, d \in {e, 0}, l \in {Marking(e), Restoring(e)} :
          Leads(run["inbound"].todo, Op(k, d), l)
    BY <1>12, ListsLead DEF Receiving
  <2>1. /\ \/ Read("inbound") \/ Store("inbound")
        /\ \E n \in {Marking(e), Restoring(e)} :
             \/ Goes("inbound", n, run["inbound"])
             \/ Goes("inbound", n, [run["inbound"] EXCEPT !.copy = file])
    BY <1>0, <2>0, OpStep
  <2>2. Receiving' \in {Marking(e), Restoring(e)} /\ run'["inbound"].tid = run["inbound"].tid
    BY <1>0, <2>1, ListsNonempty DEF Goes, Receiving, Handlers
  <2>3. db' = db BY <2>1 DEF Read, Store, bss
  <2>4. SavedAs(e)' BY <1>0, <1>12, <2>2, <2>3 DEF SavedAs, Even
  <2> QED BY <2>2, <2>4 DEF CommandInv
<1>13. ASSUME NEW e \in Events, Receiving = Restoring(e), SavedAs(e) PROVE CommandInv'
  <2>0. Leads(run["inbound"].todo, Op("restore", e), Interim(e))
    BY <1>13, ListsLead DEF Receiving
  <2>1. /\ RestoreConnTid("inbound") /\ Event("inbound") = e
        /\ Goes("inbound", Interim(e), run["inbound"])
    BY <1>0, <2>0, OpStep
  <2>2. Receiving' = Interim(e) /\ run'["inbound"].tid = run["inbound"].tid
    BY <2>1, ListsNonempty DEF Goes, Receiving
  <2>3. conn' = run["inbound"].tid BY <1>0, <1>13, <2>1, EncodedTyped DEF RestoreConnTid, SavedAs
  <2>4. Own' /\ Even' BY <1>0, <1>13, <2>1, <2>2, <2>3 DEF RestoreConnTid, SavedAs, Even, Own
  <2> QED BY <2>2, <2>4 DEF CommandInv
<1>14. ASSUME NEW e \in Events, Receiving = Interim(e), Even PROVE CommandInv'
  <2>0. Leads(run["inbound"].todo, Op("interim", e), <<>>)
    BY <1>14, ListsLead DEF Receiving
  <2>1. Notify("inbound") /\ Goes("inbound", <<>>, run["inbound"])
    BY <1>0, <2>0, OpStep
  <2> QED BY <1>0, <1>14, <2>1 DEF Goes, Notify, Other, bss, CommandInv, Even, Receiving
<1>15. Receiving # <<>> BY <1>0 DEF Receiving
<1> QED
  BY <1>1, <1>2, <1>3, <1>4, <1>5, <1>6, <1>7, <1>8, <1>9, <1>10, <1>11, <1>12, <1>13, <1>14, <1>15
  DEF CommandInv

\* A step of the adapter moves nothing that CommandInv is about, unless the
\* threads overlap, when CommandInv says nothing about conn.
LEMMA CommandKept ==
  ASSUME CommandInv, UNCHANGED <<db, greeted, asked, overlap>>,
         run'["inbound"] = run["inbound"], ~overlap /\ Receiving # <<>> => conn' = conn
  PROVE  CommandInv'
<1>1. Receiving' = Receiving BY DEF Receiving
<1>2. Even => Even' BY DEF Even
<1>3. Edge("inbound") => Edge("inbound")' BY DEF Edge
<1>4. \A e : (Saving(e) => Saving(e)') /\ (SavedAs(e) => SavedAs(e)')
  BY <1>2 DEF Saving, SavedAs
<1>5. CASE Receiving = <<>> BY <1>1, <1>2, <1>5, IdleEven DEF CommandInv
<1>6. CASE Receiving # <<>>
  <2>1. Own => Own' BY <1>6 DEF Own
  <2> QED BY <1>1, <1>2, <1>3, <1>4, <1>6, <2>1 DEF CommandInv
<1> QED BY <1>5, <1>6

LEMMA OrderTail ==
  ASSUME NEW s \in Lists, s # <<>>, Order(s)
  PROVE  /\ Order(Tail(s))
         /\ Head(s).op = "restore" =>
              /\ Tail(s) # <<>> /\ Head(Tail(s)).op = "changed" /\ Head(Tail(s)).event = Head(s).event
         /\ Head(s).op # "restore" /\ Tail(s) # <<>> => Head(Tail(s)).op \notin {"restore", "changed"}
  BY TailRest

\* A list none of whose accesses is past its test.
Fresh(s) == \A i \in 1 .. Len(s) : s[i].op \in {"gate", "storeTrack", "storeRest"}

LEMMA FreshOrder ==
  ASSUME NEW s \in Lists, Fresh(s)
  PROVE  Order(s) /\ (s # <<>> => Head(s).op \notin {"restore", "changed"})
<1>1. Order(s) BY DEF Order, Fresh
<1>2. ASSUME s # <<>> PROVE Head(s).op \notin {"restore", "changed"}
  <2>1. Head(s) = s[1] /\ Len(s) \in Nat /\ Len(s) >= 1 BY <1>2, TailElements
  <2>2. 1 \in 1 .. Len(s) BY SMT, <2>1
  <2> QED BY <2>1, <2>2 DEF Fresh
<1> QED BY <1>1, <1>2

LEMMA FreshConcat ==
  ASSUME NEW s \in Lists, NEW u \in Lists, Fresh(s), Fresh(u)
  PROVE  s \o u \in Lists /\ Fresh(s \o u)
<1>1. s \in Seq(Accesses) /\ u \in Seq(Accesses) BY DEF Lists
<1>2. /\ s \o u \in Seq(Accesses) /\ Len(s) \in Nat /\ Len(u) \in Nat
      /\ Len(s \o u) = Len(s) + Len(u)
      /\ \A i \in 1 .. Len(s) + Len(u) :
           (s \o u)[i] = IF i <= Len(s) THEN s[i] ELSE u[i - Len(s)]
  BY <1>1, ConcatProperties, LenProperties
<1>3. ASSUME NEW i \in 1 .. Len(s \o u) PROVE (s \o u)[i].op \in {"gate", "storeTrack", "storeRest"}
  <2>1. CASE i <= Len(s)
    <3>1. i \in 1 .. Len(s) /\ (s \o u)[i] = s[i] BY SMT, <1>2, <1>3, <2>1
    <3> QED BY <3>1 DEF Fresh
  <2>2. CASE ~(i <= Len(s))
    <3>1. i - Len(s) \in 1 .. Len(u) /\ (s \o u)[i] = u[i - Len(s)] BY SMT, <1>2, <1>3, <2>2
    <3> QED BY <3>1 DEF Fresh
  <2> QED BY <2>1, <2>2
<1> QED BY <1>2, <1>3 DEF Fresh, Lists

LEMMA FreshOne ==
  ASSUME NEW a \in Accesses, a.op \in {"gate", "storeTrack", "storeRest"}
  PROVE  <<a>> \in Lists /\ Fresh(<<a>>)
<1>1. <<a>> \in Lists BY SMT DEF Lists
<1>2. Len(<<a>>) = 1 /\ <<a>>[1] = a BY SMT
<1>3. \A i \in 1 .. 1 : i = 1 BY SMT
<1> QED BY <1>1, <1>2, <1>3 DEF Fresh

\* The decisions of T5 and T9 are tests, and stores.
LEMMA DecisionsFresh ==
  /\ \A end : T5OnEdge(end) \in Lists /\ Fresh(T5OnEdge(end))
  /\ \A new, old : T9Arms(new, old) \in Lists /\ Fresh(T9Arms(new, old))
  /\ <<>> \in Lists /\ Fresh(<<>>)
<1> DEFINE Good(s) == s \in Lists /\ Fresh(s)
<1>1. \A s, u : Good(s) /\ Good(u) => Good(s \o u) BY FreshConcat
<1>2. /\ Psc \in Events /\ Track \in Events /\ End \in Events /\ Begin \in Events /\ Pos \in Events
      /\ Batt \in Events /\ Papp \in Events /\ Ncc \in Events
  BY SMT DEF Psc, Track, End, Begin, Pos, Batt, Papp, Ncc, Events
<1>3. ASSUME NEW e \in Events PROVE Good(IfSubscribed(e))
  <2>1. Gate(e, Changed(e)) \in Accesses /\ Gate(e, Changed(e)).op = "gate" BY Known DEF Gate
  <2> QED BY <2>1, FreshOne DEF IfSubscribed
<1>4. Good(StoreTrack) /\ Good(<<Op("storeRest", 0)>>)
  <2>1. /\ Op("storeTrack", 0) \in Accesses /\ Op("storeTrack", 0).op = "storeTrack"
        /\ Op("storeRest", 0) \in Accesses /\ Op("storeRest", 0).op = "storeRest"
    BY Known, OpFields DEF Plain
  <2> QED BY <2>1, FreshOne DEF StoreTrack
<1>5. Good(StatusArm)
  <2>1. StatusArm = <<StatusGate>> /\ StatusGate.op = "gate" BY DEF StatusArm, StatusGate, Gate
  <2> QED BY <2>1, Known, FreshOne
<1>6. Good(<<>>)
  <2>1. <<>> \in Lists /\ Len(<<>>) = 0 BY SMT DEF Lists
  <2>2. 1 .. 0 = {} BY SMT
  <2> QED BY <2>1, <2>2 DEF Fresh
<1> HIDE DEF Good
<1>7. ASSUME NEW end PROVE Good(T5OnEdge(end))
  BY <1>1, <1>2, <1>3, <1>4, <1>6 DEF T5OnEdge
<1>8. ASSUME NEW new, NEW old PROVE Good(T9Arms(new, old))
  BY <1>1, <1>2, <1>3, <1>4, <1>5, <1>6 DEF T9Arms
<1> QED BY <1>6, <1>7, <1>8 DEF Good

LEMMA OrderFresh ==
  ASSUME NEW s \in Lists, s # <<>>, Order(s), Head(s).op # "restore"
  PROVE  Tail(s) \in Lists /\ Fresh(Tail(s))
<1> DEFINE u == Tail(s)  n == Len(s)
<1>1. /\ u \in Lists /\ n \in Nat /\ n >= 1 /\ Len(u) = n - 1 /\ Head(s) = s[1]
      /\ \A i \in 1 .. n - 1 : u[i] = s[i + 1]
  BY TailElements
<1> HIDE DEF u
<1>2. ASSUME NEW i \in 1 .. Len(u) PROVE u[i].op \in {"gate", "storeTrack", "storeRest"}
  <2>1. i + 1 \in 1 .. n /\ i + 1 # 1 /\ u[i] = s[i + 1] BY SMT, <1>1, <1>2
  <2> QED BY <1>1, <2>1 DEF Order
<1> QED BY <1>1, <1>2 DEF Fresh, u

LEMMA GateOrder ==
  ASSUME NEW a \in Accesses, a.op = "gate", NEW u \in Lists, Fresh(u), NEW n, Opens(a, u, n)
  PROVE  /\ n \in Lists /\ Order(n) /\ n # <<>>
         /\ Head(n).op = "restore" /\ Head(n).event = a.event
<1>1. PICK k \in {1, 2} :
           /\ n \in Lists /\ Len(n) = Len(u) + 1 + k
           /\ n[1].op = "restore" /\ n[1].event = a.event
           /\ n[2].op = "changed" /\ n[2].event = a.event
           /\ k = 2 => n[3].op = "gate" /\ n[3].event = Ncc
           /\ \A i \in k + 2 .. Len(n) : n[i] = u[i - k - 1]
  BY DEF Opens
<1>2. Len(u) \in Nat BY LenProperties DEF Lists
<1>3. Len(n) >= 2 BY SMT, <1>1, <1>2
<1>4. n # <<>>
  <2>1. Len(<<>>) = 0 BY SMT
  <2> QED BY SMT, <1>3, <2>1
<1>5. Head(n) = n[1] BY <1>1, <1>4, TailElements
<1>6. ASSUME NEW i \in 1 .. Len(n), i # 1
      PROVE  /\ n[i].op \in {"gate", "changed", "storeTrack", "storeRest"}
             /\ n[i].op = "changed" => i = 2
  <2>1. CASE i = 2 BY <1>1, <2>1
  <2>2. CASE i # 2 /\ i < k + 2
    <3>1. i = 3 /\ k = 2 BY SMT, <1>1, <1>2, <1>6, <2>2
    <3> QED BY <1>1, <3>1
  <2>3. CASE ~(i < k + 2)
    <3>1. i \in k + 2 .. Len(n) /\ i - k - 1 \in 1 .. Len(u) BY SMT, <1>1, <1>2, <1>6, <2>3
    <3>2. n[i] = u[i - k - 1] BY <1>1, <3>1
    <3> QED BY <3>1, <3>2 DEF Fresh
  <2> QED BY <2>1, <2>2, <2>3
<1>7. Order(n)
  <2>1. ASSUME NEW i \in 1 .. Len(n)
        PROVE  /\ n[i].op \in {"gate", "restore", "changed", "storeTrack", "storeRest"}
               /\ n[i].op = "restore" => i = 1 /\ Len(n) >= 2 /\ n[2].op = "changed"
                                          /\ n[2].event = n[1].event
               /\ n[i].op = "changed" => i = 1 \/ (i = 2 /\ n[1].op = "restore")
    <3>1. CASE i = 1
      <4>1. n[i].op = "restore" /\ n[2].op = "changed" /\ n[2].event = n[1].event
        BY <1>1, <3>1
      <4>2. n[i].op # "changed" BY <4>1
      <4> QED BY <1>3, <3>1, <4>1, <4>2, Zenon
    <3>2. CASE i # 1
      <4>1. /\ n[i].op \in {"gate", "changed", "storeTrack", "storeRest"}
            /\ n[i].op = "changed" => i = 2
        BY <1>6, <2>1, <3>2
      <4> QED BY <1>1, <4>1
    <3> QED BY <3>1, <3>2
  <2> QED BY <2>1 DEF Order
<1> QED BY <1>1, <1>4, <1>5, <1>7

\* The adapter goes on in order, and aims what it sends.
LEMMA NoticeSteps == ASSUME TypeInv, CommandInv, NoticeInv, Step("adapter") PROVE NoticeInv'
<1> DEFINE s == run["adapter"].todo
<1>1. /\ "adapter" \in Threads /\ run["adapter"] \in Handlers /\ s \in Lists /\ s # <<>>
      /\ db \in [Events -> 0 .. MaxTid + 1]
      /\ UNCHANGED <<overlap, greeted, asked>> /\ s = Notifying
  BY StepShared, Performs DEF TypeInv, TypeOK, Threads, Handlers, Notifying
<1>2. run'["inbound"] = run["inbound"]
  <2>1. \E l, r : Goes("adapter", l, r)
    BY <1>1, ReadGoes, LoadGoes, DecideGoes, GateGoes, OtherGoes DEF Step
  <2> QED BY <2>1 DEF Goes, Threads
<1>3. ~overlap' => Receiving' = <<>> BY <1>1, <1>2 DEF NoticeInv, Receiving
<1>4. ASSUME Notifying' \in Lists, Fresh(Notifying') PROVE NoticeInv'
  BY <1>3, <1>4, FreshOrder DEF NoticeInv, Aimed
<1>5. CASE Undecided
  <2>1. CASE s \in {NotificationTrackChanged, Loading5, NotificationPlayStatusChanged, Loading9}
    <3>1. PICK k \in {"read", "load"}, l \in {Loading5, Deciding5, Loading9, Deciding9} :
            Leads(s, Op(k, 0), l)
      BY <2>1, ListsLead
    <3>2. \E r : Goes("adapter", l, r) BY <1>1, <3>1, OpStep
    <3>3. Notifying' = l BY <3>2 DEF Goes, Notifying
    <3>4. l # <<>> /\ Head(l).op \notin {"restore", "changed"}
      <4>1. PICK j \in {"load", "T5", "T9"} : \E m : Leads(l, Op(j, 0), m) BY <3>1, ListsLead
      <4> QED BY <4>1, OpFields DEF Leads
    <3> QED BY <1>3, <3>3, <3>4 DEF NoticeInv, Undecided, Aimed
  <2>2. CASE s \in {Deciding5, Deciding9}
    <3>1. PICK k \in {"T5", "T9"} : Leads(s, Op(k, 0), <<>>) BY <2>2, ListsLead
    <3>2. /\ Decision("adapter") \in Lists /\ Current("adapter").op = k
          /\ Goes("adapter", Decision("adapter") \o <<>>, run["adapter"])
      BY <1>1, <3>1, OpStep
    <3>3. Decision("adapter") \o <<>> = Decision("adapter") BY <3>2, Empty DEF Lists
    <3>4. Fresh(Decision("adapter")) BY <3>2, DecisionsFresh DEF Decision
    <3>5. Notifying' = Decision("adapter") BY <3>2, <3>3 DEF Goes, Notifying
    <3> QED BY <1>4, <3>2, <3>4, <3>5
  <2> QED BY <1>1, <1>5, <2>1, <2>2 DEF Undecided
<1>6. CASE Order(s)
  <2> DEFINE o == Head(s)
  <2>1. Leads(s, o, Tail(s)) /\ o \in Accesses /\ o = Current("adapter")
    BY <1>1, TailTyped DEF Leads, Current, TypeInv
  <2>2. CASE o.op = "restore"
    <3>1. RestoreConnTid("adapter") /\ Goes("adapter", Tail(s), run["adapter"]) /\ Event("adapter") = o.event
      BY <1>1, <2>1, <2>2, LedStep
    <3>2. /\ Notifying' = Tail(s) /\ conn' = Decoded(db[o.event]) /\ db' = db
      BY <3>1 DEF Goes, Notifying, RestoreConnTid
    <3>3. /\ Order(Tail(s)) /\ Tail(s) # <<>> /\ Head(Tail(s)).op = "changed"
          /\ Head(Tail(s)).event = o.event
      BY <1>1, <1>6, <2>2, OrderTail
    <3>4. o.event \in Events BY <2>1, <2>2, AccessTyped DEF Eventful
    <3>5. db[o.event] # 0 => conn' = db[o.event] - 1 BY <1>1, <3>2, <3>4, DecodedTyped
    <3>6. ~overlap /\ greeted => db[o.event] # 0 BY <1>1, <2>2 DEF NoticeInv, Aimed
    <3> QED BY <1>1, <1>3, <3>2, <3>3, <3>5, <3>6 DEF NoticeInv, Aimed
  <2>3. CASE o.op # "restore"
    <3>1. Tail(s) \in Lists /\ Fresh(Tail(s)) BY <1>1, <1>6, <2>3, OrderFresh
    <3>2. CASE o.op = "gate" /\ db[o.event] # 0
      <4> DEFINE n == o.then \o Tail(s)
      <4>1. EventSubscribed("adapter") /\ Goes("adapter", n, run["adapter"])
        BY <1>1, <2>1, <3>2, LedStep
      <4>2. Notifying' = n /\ db' = db BY <4>1 DEF Goes, Notifying, EventSubscribed, bss
      <4>3. /\ n \in Lists /\ Order(n) /\ n # <<>>
            /\ Head(n).op = "restore" /\ Head(n).event = o.event
        <5>1. Opens(o, Tail(s), n) BY <2>1, <3>1, <3>2, GateOpens
        <5> HIDE DEF n, o
        <5> QED BY <2>1, <3>1, <3>2, <5>1, GateOrder
      <4> HIDE DEF n
      <4> QED BY <1>3, <3>2, <4>2, <4>3 DEF NoticeInv, Aimed
    <3>3. CASE ~(o.op = "gate" /\ db[o.event] # 0)
      <4>1. o.op \in {"gate", "changed", "storeTrack", "storeRest"}
        <5>1. Len(s) >= 1 /\ o = s[1] /\ Len(s) \in Nat BY <1>1, TailElements
        <5>2. 1 \in 1 .. Len(s) BY SMT, <5>1
        <5> QED BY <1>6, <2>3, <5>1, <5>2 DEF Order
      <4>2. Goes("adapter", Tail(s), run["adapter"]) BY <1>1, <2>1, <3>3, <4>1, LedStep
      <4>3. Notifying' = Tail(s) BY <4>2 DEF Goes, Notifying
      <4> QED BY <1>4, <3>1, <4>3
    <3> QED BY <3>2, <3>3
  <2> QED BY <2>2, <2>3
<1> QED BY <1>1, <1>5, <1>6 DEF NoticeInv

\* A step of the receive loop leaves the adapter alone.
LEMMA NoticeKept == ASSUME TypeInv, NoticeInv, Step("inbound") PROVE NoticeInv'
<1>1. /\ "inbound" \in Threads /\ Receiving # <<>> /\ UNCHANGED <<overlap, greeted, asked>>
  BY StepShared, Performs DEF Threads, Receiving
<1>2. run'["adapter"] = run["adapter"]
  <2>1. \E l, r : Goes("inbound", l, r)
    BY <1>1, ReadGoes, LoadGoes, DecideGoes, GateGoes, OtherGoes DEF Step
  <2> QED BY <2>1 DEF Goes, Threads
<1>3. Notifying' = Notifying BY <1>2 DEF Notifying
<1>4. ~overlap => Notifying = <<>> BY <1>1 DEF NoticeInv
<1> QED BY <1>1, <1>3, <1>4 DEF NoticeInv, Undecided, Aimed

LEMMA SessionSteps == ASSUME SessionInv, NEW t \in Threads, Step(t) PROVE SessionInv'
<1>1. TypeInv' BY StepTyped DEF SessionInv
<1>2. CASE t = "inbound" BY <1>1, <1>2, CommandSteps, NoticeKept DEF SessionInv
<1>3. CASE t = "adapter"
  <2>1. Step("adapter") /\ "adapter" \in Threads BY <1>3
  <2>2. UNCHANGED <<greeted, asked, overlap>> BY <1>3, StepShared DEF SessionInv
  <2>3. run'["inbound"] = run["inbound"]
    <3>1. \E l, r : Goes("adapter", l, r)
      BY <2>1, ReadGoes, LoadGoes, DecideGoes, GateGoes, OtherGoes DEF Step, SessionInv
    <3> QED BY <3>1 DEF Goes, Threads
  <2>4. ~overlap => Receiving = <<>>
    BY <2>1, Performs DEF SessionInv, NoticeInv, Notifying
  <2>5. db' = db
    <3> DEFINE s == run["adapter"].todo  o == Current("adapter")
    <3>1. s # <<>> /\ s \in Lists /\ o = Head(s)
      BY <2>1, Performs DEF SessionInv, TypeInv, Handlers, Current
    <3>2. o.op \notin {"save", "clear"}
      <4>1. CASE Undecided
        <5>1. \E k \in {"read", "load", "T5", "T9"} : \E l : Leads(s, Op(k, 0), l)
          BY <4>1, ListsLead DEF Undecided, Notifying
        <5> QED BY <3>1, <5>1, OpFields DEF Leads
      <4>2. CASE Order(s)
        <5>1. Head(s) = s[1] /\ Len(s) >= 1 /\ Len(s) \in Nat BY <3>1, TailElements
        <5>2. 1 \in 1 .. Len(s) BY SMT, <5>1
        <5> QED BY <3>1, <4>2, <5>1, <5>2 DEF Order
      <4> QED BY <4>1, <4>2 DEF SessionInv, NoticeInv, Notifying
    <3> QED
      BY <2>1, <3>2 DEF Step, Read, Load, Decide, Store, WriteTid, SaveEventSeqId,
           ClearEventDatabase, EventSubscribed, RestoreConnTid, Notify, Answer, Doing, bss
  <2>6. CommandInv' BY <2>2, <2>3, <2>4, <2>5, CommandKept DEF SessionInv
  <2>7. NoticeInv' BY <2>1, NoticeSteps DEF SessionInv
  <2> QED BY <1>1, <2>6, <2>7 DEF SessionInv
<1> QED BY <1>2, <1>3 DEF Threads

LEMMA SessionInit == Init => SessionInv
<1> SUFFICES ASSUME Init PROVE SessionInv OBVIOUS
<1>1. TypeInv BY InitTyped
<1>2. Receiving = <<>> /\ Notifying = <<>>
  BY DEF Init, Receiving, Notifying, Threads, Resting
<1>3. Even BY DEF Init, Even
<1>4. Order(Notifying)
  <2>1. <<>> \in Lists /\ Fresh(<<>>) BY DecisionsFresh
  <2> QED BY <1>2, <2>1, FreshOrder
<1> QED BY <1>1, <1>2, <1>3, <1>4 DEF SessionInv, CommandInv, NoticeInv, Aimed

\* A command starts on an idle receive loop, and beside the adapter only if they
\* overlap.
LEMMA SessionCommand ==
  ASSUME SessionInv, NEW l \in Lists, l # <<>>, NEW tid \in 0 .. MaxTid, Command(l, tid)
  PROVE  /\ Receiving = <<>> /\ Receiving' = l /\ run'["inbound"].tid = tid
         /\ run'["adapter"] = run["adapter"] /\ Even
         /\ UNCHANGED <<db, conn, overlap>>
         /\ NoticeInv'
<1>1. /\ Receiving = <<>> /\ Receiving' = l /\ run'["inbound"].tid = tid
      /\ run'["adapter"] = run["adapter"]
  BY CommandTyped DEF SessionInv, Receiving, Threads
<1>2. Even BY <1>1, IdleEven DEF SessionInv
<1>3. UNCHANGED <<db, conn, overlap>> BY DEF Command, bss, threading
<1>4. ~overlap => Notifying = <<>>
  <2>1. "adapter" \in Threads BY DEF Threads
  <2> QED BY <2>1, ZeroTyped DEF Command, MayStart, Idle, Notifying
<1>5. Notifying' = Notifying BY <1>1 DEF Notifying
<1>6. NoticeInv' BY <1>3, <1>4, <1>5 DEF SessionInv, NoticeInv, Undecided, Aimed
<1> QED BY <1>1, <1>2, <1>3, <1>6

LEMMA SessionCommands == ASSUME SessionInv, Greet \/ Register \/ Fetch \/ Poll PROVE SessionInv'
<1>1. TypeInv' BY CommandsTyped DEF SessionInv
<1>2. CASE Greet
  <2>1. PICK tid \in 0 .. MaxTid : Command(GetCapabilities, tid) BY <1>2 DEF Greet
  <2>2. Receiving' = GetCapabilities /\ NoticeInv' /\ greeted' /\ asked' = Unsubscribed
    BY <1>2, <2>1, SessionCommand, HandlersTyped, Begun DEF Greet
  <2> QED BY <1>1, <2>2 DEF SessionInv, CommandInv
<1>3. CASE Register
  <2>1. PICK e \in Registrable, tid \in 0 .. MaxTid :
          /\ greeted /\ Command(RegisterNotification(e), tid)
          /\ asked' = [asked EXCEPT ![e] = tid + 1] /\ greeted' = greeted
    BY <1>3 DEF Register
  <2>2. e \in Events BY SMT, EventsAssumption DEF Events
  <2>3. /\ Receiving' = RegisterNotification(e) /\ NoticeInv' /\ Even /\ db' = db
        /\ run'["inbound"].tid = tid
    BY <2>1, <2>2, SessionCommand, HandlersTyped, Begun
  <2>4. asked = db BY <2>1, <2>3 DEF Even
  <2>5. asked' = [db' EXCEPT ![e] = Encoded(run'["inbound"].tid)]
    BY <2>1, <2>3, <2>4 DEF Encoded
  <2>6. Saving(e)' BY <2>1, <2>5 DEF Saving
  <2> QED BY <1>1, <2>2, <2>3, <2>6 DEF SessionInv, CommandInv
<1>4. CASE Fetch \/ Poll
  <2>1. PICK l \in {GetElementAttributes, GetPlayStatus}, tid \in 0 .. MaxTid :
          Command(l, tid) /\ UNCHANGED <<greeted, asked>>
    BY <1>4 DEF Fetch, Poll
  <2>2. Receiving' = l /\ NoticeInv' /\ Even /\ db' = db
    BY <2>1, SessionCommand, HandlersTyped, Begun
  <2>3. Even' BY <2>1, <2>2 DEF Even
  <2> QED BY <1>1, <2>1, <2>2, <2>3 DEF SessionInv, CommandInv
<1> QED BY <1>2, <1>3, <1>4

LEMMA SessionNext == ASSUME SessionInv, [Next]_vars PROVE SessionInv'
<1>1. TypeInv' BY NextTyped DEF SessionInv
<1>2. CASE \E t \in Threads : Step(t) BY <1>2, SessionSteps
<1>3. CASE Deliver
  <2>1. Notifying' \in {NotificationTrackChanged, NotificationPlayStatusChanged}
    <3>1. run["adapter"] \in Handlers /\ run \in [Threads -> Handlers] /\ "adapter" \in Threads
      BY DEF SessionInv, TypeInv, Threads
    <3> QED BY <1>3, <3>1, DeliverGoes DEF SessionInv, Notifying, Handlers
  <2>2. run'["inbound"] = run["inbound"]
    BY <1>3, DeliverGoes DEF SessionInv, TypeInv, Threads
  <2>3. UNCHANGED <<db, conn, overlap, greeted, asked>> BY <1>3 DEF Deliver, bss, threading, ct
  <2>4. CommandInv' BY <2>2, <2>3, CommandKept DEF SessionInv
  <2>5. ~overlap => Receiving = <<>>
    <3>1. "inbound" \in Threads BY DEF Threads
    <3> QED BY <1>3, <3>1, ZeroTyped DEF Deliver, MayStart, Idle, Receiving
  <2>6. Receiving' = Receiving BY <2>2 DEF Receiving
  <2>7. Notifying' # <<>> /\ Head(Notifying').op = "read"
    <3>1. \E l : Leads(Notifying', Op("read", 0), l) BY <2>1, ListsLead
    <3> QED BY <3>1, OpFields DEF Leads
  <2>8. Undecided' BY <2>1 DEF Undecided
  <2>9. Aimed(Notifying)' BY <2>7 DEF Aimed
  <2>10. NoticeInv' BY <2>3, <2>5, <2>6, <2>8, <2>9 DEF NoticeInv
  <2> QED BY <1>1, <2>4, <2>10 DEF SessionInv
<1>4. CASE NextTrack \/ NewStatus \/ PlayStateChanged
  <2>1. UNCHANGED <<db, conn, run, overlap, greeted, asked>>
    BY <1>4 DEF NextTrack, NewStatus, PlayStateChanged, Publish, bss, threading, ct
  <2>2. CommandInv' BY <2>1, CommandKept DEF SessionInv
  <2>3. Notifying' = Notifying /\ Receiving' = Receiving BY <2>1 DEF Notifying, Receiving
  <2>4. NoticeInv' BY <2>1, <2>3 DEF SessionInv, NoticeInv, Undecided, Aimed
  <2> QED BY <1>1, <2>2, <2>4 DEF SessionInv
<1>5. CASE Greet \/ Register \/ Fetch \/ Poll BY <1>5, SessionCommands
<1>6. CASE Reconnect
  <2>1. Receiving = <<>> /\ UNCHANGED <<db, conn, run, overlap>> /\ ~greeted' /\ asked' = Unsubscribed
    BY <1>6, ZeroTyped DEF Reconnect, Idle, Receiving, Forget, bss, threading
  <2>2. Receiving' = <<>> /\ Notifying' = Notifying BY <2>1 DEF Receiving, Notifying
  <2>3. CommandInv' BY <2>1, <2>2 DEF CommandInv, Even
  <2>4. NoticeInv' BY <2>1, <2>2 DEF SessionInv, NoticeInv, Undecided
  <2> QED BY <1>1, <2>3, <2>4 DEF SessionInv
<1>7. CASE Restart
  <2>1. /\ Receiving' = <<>> /\ Notifying' = <<>> /\ ~greeted' /\ asked' = Unsubscribed
    BY <1>7 DEF Restart, Receiving, Notifying, Forget, Threads, Resting
  <2>2. Order(<<>>)
    <3>1. <<>> \in Lists /\ Fresh(<<>>) BY DecisionsFresh
    <3> QED BY <3>1, FreshOrder
  <2> QED BY <1>1, <2>1, <2>2 DEF SessionInv, CommandInv, NoticeInv, Even, Aimed
<1>8. CASE UNCHANGED vars
  <2>1. UNCHANGED <<db, conn, run, overlap, greeted, asked>>
    BY <1>8 DEF vars, bss, threading, ct
  <2>2. CommandInv' BY <2>1, CommandKept DEF SessionInv
  <2>3. Notifying' = Notifying /\ Receiving' = Receiving BY <2>1 DEF Notifying, Receiving
  <2>4. NoticeInv' BY <2>1, <2>3 DEF SessionInv, NoticeInv, Undecided, Aimed
  <2> QED BY <1>1, <2>2, <2>4 DEF SessionInv
<1> QED BY <1>2, <1>3, <1>4, <1>5, <1>6, <1>7, <1>8 DEF Next, Environment

LEMMA Session == Spec => []SessionInv
  BY SessionInit, SessionNext, PTL DEF Spec

\* No notification is left over from an earlier connection: what T5 and T9 send
\* a controller that has greeted is of an event it registered for since then, and
\* bears the TID of that registration.
THEOREM AsAsked == Spec => NotifiesAsAsked
<1>1. ASSUME SessionInv, ~overlap, greeted, Sent("adapter", "changed")
      PROVE  asked[Event("adapter")] # 0 /\ conn = asked[Event("adapter")] - 1
  <2>1. /\ Notifying # <<>> /\ Head(Notifying).op = "changed"
        /\ Head(Notifying).event = Event("adapter")
    BY <1>1 DEF Sent, Doing, Current, Notifying, Event
  <2>2. Receiving = <<>> BY <1>1, <2>1 DEF SessionInv, NoticeInv
  <2>3. asked = db BY <1>1, <2>2, IdleEven DEF SessionInv, Even
  <2> QED BY <1>1, <2>1, <2>3 DEF SessionInv, NoticeInv, Aimed
<1>2. SessionInv => [(~overlap /\ greeted /\ Sent("adapter", "changed"))
        => asked[Event("adapter")] # 0 /\ conn = asked[Event("adapter")] - 1]_vars
  BY <1>1
<1> QED BY <1>2, Session, PTL DEF NotifiesAsAsked

\* Every command is answered under its own TID, unless T4 has just sent a
\* TRACK_CHANGED under that of the registration.
THEOREM EchoesOwn == Spec => EchoesCommandTid
<1>1. ASSUME SessionInv, ~overlap,
             \E op \in {"respond", "attributes", "interim"} : Sent("inbound", op)
      PROVE  conn = run["inbound"].tid \/ (Doing("inbound", "attributes") /\ Edge("inbound"))
  <2>1. Receiving # <<>> /\ Head(Receiving).op \in {"respond", "attributes", "interim"}
    BY <1>1 DEF Sent, Doing, Current, Receiving
  <2>2. ASSUME NEW k, NEW e, NEW l, Leads(Receiving, Op(k, e), l)
        PROVE  Head(Receiving).op = k
    BY <2>2, OpFields DEF Leads
  <2>3. Receiving \notin {GetCapabilities, Clearing, GetPlayStatus, GetElementAttributes, Polling,
                          Reading, Loading, Deciding, Turning, Telling, Storing}
    <3>1. ASSUME Receiving \in {GetCapabilities, Clearing, GetPlayStatus, GetElementAttributes,
                   Polling, Reading, Loading, Deciding, Turning, Telling, Storing}
          PROVE  \E k \in {"tid", "clear", "read", "load", "getAttrs", "restore", "changed",
                           "storeTrack"} : \E e, l : Leads(Receiving, Op(k, e), l)
      BY <3>1, ListsLead
    <3> QED BY <2>1, <2>2, <3>1
  <2>4. \A e \in Events : Receiving \notin {RegisterNotification(e), Saved(e), Marking(e), Restoring(e)}
    <3>1. ASSUME NEW d \in Events,
                 Receiving \in {RegisterNotification(d), Saved(d), Marking(d), Restoring(d)}
          PROVE  \E k \in {"save", "read", "storeTrack", "restore"} : \E e, l :
                   Leads(Receiving, Op(k, e), l)
      BY <3>1, ListsLead
    <3> QED BY <2>1, <2>2, <3>1
  <2>5. Own \/ (Receiving = Attributing /\ Edge("inbound"))
    BY <2>1, <2>3, <2>4, <1>1 DEF SessionInv, CommandInv
  <2>6. ASSUME Receiving = Attributing PROVE Doing("inbound", "attributes")
    <3>1. Leads(Receiving, Op("attributes", 0), <<>>) BY <2>6, ListsLead
    <3> QED BY <3>1, OpFields DEF Leads, Doing, Current, Receiving
  <2> QED BY <1>1, <2>5, <2>6 DEF Own
<1>2. SessionInv => [(~overlap
        /\ \E op \in {"respond", "attributes", "interim"} : Sent("inbound", op))
          => conn = run["inbound"].tid \/ (Doing("inbound", "attributes") /\ Edge("inbound"))]_vars
  BY <1>1
<1> QED BY <1>2, Session, PTL DEF EchoesCommandTid

-----------------------------------------------------------------------------
(* The adapter's lists after their decision, put together and taken apart.  *)

LEMMA ConcatElements ==
  ASSUME NEW s \in Lists, NEW u \in Lists
  PROVE  /\ s \o u \in Lists /\ Len(s) \in Nat /\ Len(u) \in Nat
         /\ Len(s \o u) = Len(s) + Len(u)
         /\ \A i \in 1 .. Len(s) : i \in 1 .. Len(s \o u) /\ (s \o u)[i] = s[i]
         /\ \A i \in 1 .. Len(u) : Len(s) + i \in 1 .. Len(s \o u) /\ (s \o u)[Len(s) + i] = u[i]
         /\ \A i \in 1 .. Len(s \o u) : \/ i \in 1 .. Len(s) /\ (s \o u)[i] = s[i]
                                        \/ \E j \in 1 .. Len(u) : i = Len(s) + j /\ (s \o u)[i] = u[j]
<1>1. s \in Seq(Accesses) /\ u \in Seq(Accesses) BY DEF Lists
<1> DEFINE w == s \o u  m == Len(s)  n == Len(u)
<1>2. /\ w \in Seq(Accesses) /\ m \in Nat /\ n \in Nat
      /\ Len(w) = m + n
      /\ \A i \in 1 .. m + n : w[i] = IF i <= m THEN s[i] ELSE u[i - m]
  BY <1>1, ConcatProperties, LenProperties
<1> HIDE DEF w, m, n
<1>3. \A i \in 1 .. m : i \in 1 .. Len(w) /\ w[i] = s[i] BY SMT, <1>2
<1>4. ASSUME NEW i \in 1 .. n PROVE m + i \in 1 .. Len(w) /\ w[m + i] = u[i]
  <2>1. m + i \in 1 .. m + n /\ ~(m + i <= m) /\ (m + i) - m = i BY SMT, <1>2, <1>4
  <2> QED BY <1>2, <2>1
<1>5. ASSUME NEW i \in 1 .. Len(w)
      PROVE  \/ i \in 1 .. m /\ w[i] = s[i]
             \/ \E j \in 1 .. n : i = m + j /\ w[i] = u[j]
  <2>1. CASE i <= m
    <3>1. i \in 1 .. m BY SMT, <1>2, <1>5, <2>1
    <3> QED BY <1>3, <3>1
  <2>2. CASE ~(i <= m)
    <3>1. i - m \in 1 .. n /\ i = m + (i - m) BY SMT, <1>2, <1>5, <2>2
    <3>2. w[i] = u[i - m] BY <1>4, <3>1
    <3> QED BY <3>1, <3>2
  <2> QED BY <2>1, <2>2
<1>6. w \in Lists BY <1>2 DEF Lists
<1> QED BY <1>2, <1>3, <1>4, <1>5, <1>6 DEF w, m, n

\* Nothing but tests, none of them of the play status.
Tests(s) == \A i \in 1 .. Len(s) : s[i].op = "gate" /\ s[i].event # Psc

\* What may stand before T9's store.
Unstored(s) == \A i \in 1 .. Len(s) : s[i].op \in {"gate", "restore", "changed", "storeRest"}

LEMMA ConcatRest ==
  ASSUME NEW s \in Lists, NEW u \in Lists
  PROVE  /\ \A op : Has(s \o u, op) <=> Has(s, op) \/ Has(u, op)
         /\ \A e : Pending(s \o u, e) <=> Pending(s, e) \/ Pending(u, e)
         /\ Tests(s) /\ Tests(u) => Tests(s \o u)
         /\ Unstored(s) /\ Unstored(u) => Unstored(s \o u)
         /\ T9Rest(s) /\ T9Rest(u) => T9Rest(s \o u)
         /\ Unstored(s) /\ T9Rest(u) /\ Has(u, "storeRest") => T9Rest(s \o u)
<1> DEFINE w == s \o u  m == Len(s)  n == Len(u)
<1>1. /\ m \in Nat /\ n \in Nat /\ Len(w) = m + n
      /\ \A i \in 1 .. m : i \in 1 .. Len(w) /\ w[i] = s[i]
      /\ \A i \in 1 .. n : m + i \in 1 .. Len(w) /\ w[m + i] = u[i]
      /\ \A i \in 1 .. Len(w) : \/ i \in 1 .. m /\ w[i] = s[i]
                                \/ \E j \in 1 .. n : i = m + j /\ w[i] = u[j]
  BY ConcatElements
<1> HIDE DEF w
<1>2. ASSUME NEW op PROVE Has(w, op) <=> Has(s, op) \/ Has(u, op) BY <1>1 DEF Has
<1>3. ASSUME NEW e PROVE Pending(w, e) <=> Pending(s, e) \/ Pending(u, e) BY <1>1 DEF Pending
<1>4. Tests(s) /\ Tests(u) => Tests(w)
  <2>1. SUFFICES ASSUME Tests(s), Tests(u), NEW i \in 1 .. Len(w)
                 PROVE  w[i].op = "gate" /\ w[i].event # Psc
    BY DEF Tests
  <2>2. CASE i \in 1 .. m /\ w[i] = s[i] BY <2>1, <2>2 DEF Tests
  <2>3. CASE \E j \in 1 .. n : i = m + j /\ w[i] = u[j] BY <2>1, <2>3 DEF Tests
  <2> QED BY <1>1, <2>1, <2>2, <2>3
<1>5. Unstored(s) /\ Unstored(u) => Unstored(w) BY <1>1 DEF Unstored
<1>6. ASSUME T9Rest(u), NEW j \in 1 .. n, u[j].event = Psc
      PROVE  \E k \in m + j + 1 .. Len(w) : w[k].op = "storeRest"
  <2>1. PICK k \in j + 1 .. n : u[k].op = "storeRest" BY <1>6 DEF T9Rest
  <2>2. k \in 1 .. n /\ m + k \in m + j + 1 .. Len(w) BY SMT, <1>1, <1>6, <2>1
  <2> QED BY <1>1, <2>1, <2>2
<1>7. ASSUME T9Rest(s), NEW j \in 1 .. m, s[j].event = Psc
      PROVE  \E k \in j + 1 .. Len(w) : w[k].op = "storeRest"
  <2>1. PICK k \in j + 1 .. m : s[k].op = "storeRest" BY <1>7 DEF T9Rest
  <2>2. k \in 1 .. m /\ k \in j + 1 .. Len(w) BY SMT, <1>1, <1>7, <2>1
  <2> QED BY <1>1, <2>1, <2>2
<1>8. ASSUME Has(u, "storeRest"), NEW j \in 1 .. m
      PROVE  \E k \in j + 1 .. Len(w) : w[k].op = "storeRest"
  <2>1. PICK k \in 1 .. n : u[k].op = "storeRest" BY <1>8 DEF Has
  <2>2. m + k \in j + 1 .. Len(w) BY SMT, <1>1, <1>8, <2>1
  <2> QED BY <1>1, <2>1, <2>2
<1>9. T9Rest(s) /\ T9Rest(u) => T9Rest(w)
  <2>1. SUFFICES ASSUME T9Rest(s), T9Rest(u), NEW i \in 1 .. Len(w)
                 PROVE  /\ w[i].op \in {"gate", "restore", "changed", "storeRest"}
                        /\ w[i].event = Psc => \E k \in i + 1 .. Len(w) : w[k].op = "storeRest"
    BY DEF T9Rest
  <2>2. CASE i \in 1 .. m /\ w[i] = s[i] BY <1>7, <2>1, <2>2 DEF T9Rest
  <2>3. CASE \E j \in 1 .. n : i = m + j /\ w[i] = u[j] BY <1>6, <2>1, <2>3 DEF T9Rest
  <2> QED BY <1>1, <2>1, <2>2, <2>3
<1>10. Unstored(s) /\ T9Rest(u) /\ Has(u, "storeRest") => T9Rest(w)
  <2>1. SUFFICES ASSUME Unstored(s), T9Rest(u), Has(u, "storeRest"), NEW i \in 1 .. Len(w)
                 PROVE  /\ w[i].op \in {"gate", "restore", "changed", "storeRest"}
                        /\ w[i].event = Psc => \E k \in i + 1 .. Len(w) : w[k].op = "storeRest"
    BY DEF T9Rest
  <2>2. CASE i \in 1 .. m /\ w[i] = s[i] BY <1>8, <2>1, <2>2 DEF Unstored
  <2>3. CASE \E j \in 1 .. n : i = m + j /\ w[i] = u[j] BY <1>6, <2>1, <2>3 DEF T9Rest
  <2> QED BY <1>1, <2>1, <2>2, <2>3
<1> QED BY <1>2, <1>3, <1>4, <1>5, <1>9, <1>10 DEF w

LEMMA OneElement ==
  ASSUME NEW a \in Accesses
  PROVE  <<a>> \in Lists /\ Len(<<a>>) = 1 /\ <<a>>[1] = a /\ \A i \in 1 .. 1 : i = 1
  BY SMT DEF Lists

LEMMA TestsStored ==
  ASSUME NEW s \in Lists, Tests(s)
  PROVE  s \o StoreTrack \in Lists /\ T5Rest(s \o StoreTrack)
<1> DEFINE a == Op("storeTrack", 0)  w == s \o <<a>>  m == Len(s)
<1>1. a \in Accesses /\ a.op = "storeTrack" /\ a.event = 0 BY Known, OpFields DEF Plain
<1> HIDE DEF a
<1>2. <<a>> \in Lists /\ Len(<<a>>) = 1 /\ <<a>>[1] = a /\ \A i \in 1 .. 1 : i = 1
  BY <1>1, OneElement
<1>3. /\ m \in Nat /\ Len(w) = m + 1 /\ w \in Lists
      /\ \A i \in 1 .. m : i \in 1 .. Len(w) /\ w[i] = s[i]
      /\ \A i \in 1 .. Len(<<a>>) : w[m + i] = <<a>>[i]
  BY <1>2, ConcatElements
<1> HIDE DEF w
<1>4. w[m + 1] = a
  <2>1. 1 \in 1 .. Len(<<a>>) BY SMT, <1>2
  <2> QED BY <1>2, <1>3, <2>1
<1>5. Psc # 0 BY SMT DEF Psc
<1>6. w # <<>>
  <2>1. Len(<<>>) = 0 BY SMT
  <2> QED BY SMT, <1>3, <2>1
<1>7. ASSUME NEW i \in 1 .. Len(w)
      PROVE  /\ w[i].op = "storeTrack" <=> i = Len(w)
             /\ w[i].op \in {"gate", "restore", "changed", "storeTrack"}
             /\ w[i].event # Psc
  <2>1. CASE i = Len(w) BY <1>1, <1>3, <1>4, <1>5, <2>1
  <2>2. CASE i # Len(w)
    <3>1. i \in 1 .. m BY SMT, <1>3, <1>7, <2>2
    <3> QED BY <1>3, <2>2, <3>1 DEF Tests
  <2> QED BY <2>1, <2>2
<1>8. T5Rest(w) BY <1>6, <1>7 DEF T5Rest
<1> QED BY <1>3, <1>8 DEF w, a, StoreTrack

\* What T5 and T9 decide.
LEMMA Decided ==
  /\ \A end : T5Rest(T5OnEdge(end)) /\ Pending(T5OnEdge(end), Track)
  /\ \A new, old : /\ T9Rest(T9Arms(new, old))
                   /\ Has(T9Arms(new, old), "storeRest") <=> RestMoved(new, old)
                   /\ new.status # old.status => Pending(T9Arms(new, old), Psc)
  /\ T9Rest(<<>>) /\ ~T5Rest(<<>>) /\ (\A op : ~Has(<<>>, op)) /\ (\A e : ~Pending(<<>>, e))
<1>1. /\ <<>> \in Lists /\ Tests(<<>>) /\ Unstored(<<>>) /\ T9Rest(<<>>) /\ ~T5Rest(<<>>)
      /\ (\A op : ~Has(<<>>, op)) /\ (\A e : ~Pending(<<>>, e))
  <2>1. <<>> \in Lists /\ Len(<<>>) = 0 /\ 1 .. 0 = {} BY SMT DEF Lists
  <2> QED BY <2>1 DEF Tests, Unstored, T9Rest, T5Rest, Has, Pending
<1>2. /\ Psc \in Events /\ Track \in Events /\ End \in Events /\ Begin \in Events /\ Pos \in Events
      /\ Batt \in Events /\ Papp \in Events /\ Ncc \in Events
      /\ Psc \notin {Track, End, Begin, Pos, Batt, Papp, Ncc} /\ Psc # 0
  BY SMT DEF Psc, Track, End, Begin, Pos, Batt, Papp, Ncc, Events
<1>3. ASSUME NEW a \in Accesses, a.op \in {"gate", "storeRest"}
      PROVE  /\ <<a>> \in Lists /\ Unstored(<<a>>)
             /\ a.op = "gate" => Pending(<<a>>, a.event) /\ ~Has(<<a>>, "storeRest")
             /\ a.op = "storeRest" => Has(<<a>>, "storeRest")
             /\ a.event # Psc => T9Rest(<<a>>)
             /\ a.event # Psc /\ a.op = "gate" => Tests(<<a>>)
  <2>1. <<a>> \in Lists /\ Len(<<a>>) = 1 /\ <<a>>[1] = a /\ \A i \in 1 .. 1 : i = 1
    BY OneElement
  <2>2. 1 \in 1 .. 1 BY SMT
  <2> QED BY <1>3, <2>1, <2>2 DEF Unstored, Pending, Has, T9Rest, Tests
<1>4. ASSUME NEW e \in Events \ {Psc}
      PROVE  /\ IfSubscribed(e) \in Lists /\ Tests(IfSubscribed(e)) /\ Unstored(IfSubscribed(e))
             /\ T9Rest(IfSubscribed(e)) /\ ~Has(IfSubscribed(e), "storeRest")
             /\ Pending(IfSubscribed(e), e)
  <2> DEFINE a == Gate(e, Changed(e))
  <2>1. a \in Accesses /\ a.op = "gate" /\ a.event = e BY Known DEF Gate
  <2>2. IfSubscribed(e) = <<a>> BY DEF IfSubscribed
  <2> HIDE DEF a
  <2> QED BY <1>3, <2>1, <2>2
<1>5. ASSUME NEW end PROVE T5Rest(T5OnEdge(end)) /\ Pending(T5OnEdge(end), Track)
  <2> DEFINE p == IfSubscribed(Pos) \o IfSubscribed(Track)  n == p \o IfSubscribed(Ncc)
             x == IF end THEN IfSubscribed(End) ELSE <<>>  y == n \o x
             z == y \o IfSubscribed(Begin)
  <2>1. p \in Lists /\ Tests(p) /\ Pending(p, Track) BY <1>2, <1>4, ConcatRest, ConcatElements
  <2> HIDE DEF p
  <2>2. n \in Lists /\ Tests(n) /\ Pending(n, Track) BY <1>2, <1>4, <2>1, ConcatRest, ConcatElements
  <2> HIDE DEF n
  <2>3. x \in Lists /\ Tests(x) BY <1>1, <1>2, <1>4
  <2> HIDE DEF x
  <2>4. y \in Lists /\ Tests(y) /\ Pending(y, Track) BY <2>2, <2>3, ConcatRest, ConcatElements
  <2> HIDE DEF y
  <2>5. z \in Lists /\ Tests(z) /\ Pending(z, Track) BY <1>2, <1>4, <2>4, ConcatRest, ConcatElements
  <2> HIDE DEF z
  <2>6. T5Rest(z \o StoreTrack) BY <2>5, TestsStored
  <2>7. StoreTrack \in Lists BY Known, OneElement DEF StoreTrack, Plain
  <2>8. Pending(z \o StoreTrack, Track) BY <2>5, <2>7, ConcatRest
  <2>9. T5OnEdge(end) = z \o StoreTrack BY DEF T5OnEdge, z, y, x, n, p
  <2> QED BY <2>6, <2>8, <2>9
<1>6. ASSUME NEW new, NEW old
      PROVE  /\ T9Rest(T9Arms(new, old))
             /\ Has(T9Arms(new, old), "storeRest") <=> RestMoved(new, old)
             /\ new.status # old.status => Pending(T9Arms(new, old), Psc)
  <2> DEFINE a == IF new.status # old.status THEN StatusArm ELSE <<>>
             b == IF new.battery # old.battery THEN IfSubscribed(Batt) ELSE <<>>
             p == IF new.papp # old.papp THEN IfSubscribed(Papp) ELSE <<>>
             r == IF RestMoved(new, old) THEN <<Op("storeRest", 0)>> ELSE <<>>
             q == IF new.status = "playing" THEN IfSubscribed(Pos) ELSE <<>>
             ab == a \o b  abp == ab \o p  abpr == abp \o r
  <2>1. /\ a \in Lists /\ Unstored(a) /\ ~Has(a, "storeRest")
        /\ new.status # old.status => Pending(a, Psc)
        /\ ~RestMoved(new, old) => T9Rest(a)
    <3>1. StatusArm = <<StatusGate>> /\ StatusGate.op = "gate" /\ StatusGate.event = Psc
          /\ StatusGate \in Accesses
      BY Known DEF StatusArm, StatusGate, Gate
    <3>2. StatusArm \in Lists /\ Unstored(StatusArm) /\ ~Has(StatusArm, "storeRest")
          /\ Pending(StatusArm, Psc)
      BY <1>3, <3>1
    <3> HIDE DEF StatusArm
    <3> QED BY <1>1, <3>2 DEF RestMoved
  <2>2. b \in Lists /\ Unstored(b) /\ ~Has(b, "storeRest") /\ T9Rest(b) BY <1>1, <1>2, <1>4
  <2>3. p \in Lists /\ Unstored(p) /\ ~Has(p, "storeRest") /\ T9Rest(p) BY <1>1, <1>2, <1>4
  <2>4. r \in Lists /\ T9Rest(r) /\ (Has(r, "storeRest") <=> RestMoved(new, old))
    <3>1. Op("storeRest", 0) \in Accesses /\ Op("storeRest", 0).op = "storeRest"
          /\ Op("storeRest", 0).event = 0
      BY Known, OpFields DEF Plain
    <3> QED BY <1>1, <1>2, <1>3, <3>1
  <2>5. q \in Lists /\ ~Has(q, "storeRest") /\ T9Rest(q) BY <1>1, <1>2, <1>4
  <2> HIDE DEF a, b, p, r, q
  <2>6. /\ ab \in Lists /\ Unstored(ab) /\ ~Has(ab, "storeRest")
        /\ new.status # old.status => Pending(ab, Psc)
        /\ ~RestMoved(new, old) => T9Rest(ab)
    BY <2>1, <2>2, ConcatRest, ConcatElements
  <2> HIDE DEF ab
  <2>7. /\ abp \in Lists /\ Unstored(abp) /\ ~Has(abp, "storeRest")
        /\ new.status # old.status => Pending(abp, Psc)
        /\ ~RestMoved(new, old) => T9Rest(abp)
    BY <2>3, <2>6, ConcatRest, ConcatElements
  <2> HIDE DEF abp
  <2>8. /\ abpr \in Lists /\ (Has(abpr, "storeRest") <=> RestMoved(new, old))
        /\ new.status # old.status => Pending(abpr, Psc)
        /\ T9Rest(abpr)
    BY <2>4, <2>7, ConcatRest, ConcatElements
  <2> HIDE DEF abpr
  <2>9. /\ Has(abpr \o q, "storeRest") <=> RestMoved(new, old)
        /\ new.status # old.status => Pending(abpr \o q, Psc)
        /\ T9Rest(abpr \o q)
    BY <2>5, <2>8, ConcatRest
  <2>10. T9Arms(new, old) = abpr \o q BY DEF T9Arms, abpr, abp, ab, a, b, p, r, q
  <2> QED BY <2>9, <2>10
<1> QED BY <1>1, <1>5, <1>6

\* A gate that opens hides nothing of what is behind it.
LEMMA RestGate ==
  ASSUME NEW s \in Lists, s # <<>>, Head(s).op = "gate", NEW n, Opens(Head(s), Tail(s), n)
  PROVE  /\ n # <<>>
         /\ T5Rest(s) => T5Rest(n)
         /\ T9Rest(s) => T9Rest(n)
         /\ Has(s, "storeRest") <=> Has(n, "storeRest")
         /\ \A e : Pending(s, e) => Pending(n, e)
<1> DEFINE u == Tail(s)  m == Len(s)  a == Head(s)
<1>1. /\ u \in Lists /\ m \in Nat /\ m >= 1 /\ Len(u) = m - 1 /\ a = s[1]
      /\ \A i \in 1 .. m - 1 : u[i] = s[i + 1]
  BY TailElements
<1>2. PICK k \in {1, 2} :
           /\ n \in Lists /\ Len(n) = Len(u) + 1 + k
           /\ n[1].op = "restore" /\ n[1].event = a.event
           /\ n[2].op = "changed" /\ n[2].event = a.event
           /\ k = 2 => n[3].op = "gate" /\ n[3].event = Ncc
           /\ \A i \in k + 2 .. Len(n) : n[i] = u[i - k - 1]
  BY DEF Opens
<1> HIDE DEF u
<1>3. Len(n) = m + k BY SMT, <1>1, <1>2
<1>4. ASSUME NEW i \in 2 .. m PROVE i + k \in k + 2 .. Len(n) /\ i + k \in 1 .. Len(n) /\ n[i + k] = s[i]
  <2>1. /\ i + k \in k + 2 .. Len(n) /\ i + k \in 1 .. Len(n) /\ (i + k) - k - 1 = i - 1
        /\ i - 1 \in 1 .. m - 1 /\ (i - 1) + 1 = i
    BY SMT, <1>1, <1>3, <1>4
  <2>2. n[i + k] = u[(i + k) - k - 1] BY <1>2, <2>1
  <2> QED BY <1>1, <2>1, <2>2
<1>5. ASSUME NEW i \in 1 .. Len(n)
      PROVE  \/ i \in {1, 2} /\ n[i].op \in {"restore", "changed"} /\ n[i].event = a.event
             \/ i = 3 /\ k = 2 /\ n[i].op = "gate" /\ n[i].event = Ncc
             \/ i - k \in 2 .. m /\ n[i] = s[i - k]
  <2>1. CASE i \in {1, 2} BY <1>2, <2>1
  <2>2. CASE i \notin {1, 2} /\ i < k + 2
    <3>1. i = 3 /\ k = 2 BY SMT, <1>2, <1>5, <2>2
    <3> QED BY <1>2, <3>1
  <2>3. CASE ~(i < k + 2)
    <3>1. i - k \in 2 .. m /\ (i - k) + k = i BY SMT, <1>1, <1>3, <1>5, <2>3
    <3>2. n[(i - k) + k] = s[i - k] BY <1>4, <3>1
    <3> QED BY <3>1, <3>2
  <2> QED BY <2>1, <2>2, <2>3
<1>6. n # <<>>
  <2>1. Len(<<>>) = 0 BY SMT
  <2> QED BY SMT, <1>1, <1>3, <2>1
<1>7. \A i \in 1 .. m : i = 1 \/ i \in 2 .. m BY SMT, <1>1
<1>8. \A i \in 2 .. m : i \in 1 .. m BY SMT, <1>1
<1>9. /\ 1 \in 1 .. m /\ 2 \in 1 .. Len(n) BY SMT, <1>1, <1>3
<1>10. Ncc # Psc BY SMT DEF Ncc, Psc
<1>11. Has(s, "storeRest") <=> Has(n, "storeRest")
  <2>1. ASSUME Has(s, "storeRest") PROVE Has(n, "storeRest")
    <3>1. PICK i \in 1 .. m : s[i].op = "storeRest" BY <2>1 DEF Has
    <3>2. i # 1 BY <1>1, <3>1
    <3> QED BY <1>4, <1>7, <3>1, <3>2 DEF Has
  <2>2. ASSUME Has(n, "storeRest") PROVE Has(s, "storeRest")
    <3>1. PICK i \in 1 .. Len(n) : n[i].op = "storeRest" BY <2>2 DEF Has
    <3>2. i - k \in 2 .. m /\ n[i] = s[i - k] BY <1>5, <3>1
    <3> QED BY <1>8, <3>1, <3>2 DEF Has
  <2> QED BY <2>1, <2>2
<1>12. ASSUME NEW e, Pending(s, e) PROVE Pending(n, e)
  <2>1. PICK i \in 1 .. m : s[i].event = e /\ s[i].op \in {"gate", "changed"} BY <1>12 DEF Pending
  <2>2. CASE i = 1 BY <1>1, <1>2, <1>9, <2>1, <2>2 DEF Pending
  <2>3. CASE i # 1 BY <1>4, <1>7, <2>1, <2>3 DEF Pending
  <2> QED BY <2>2, <2>3
<1>13. ASSUME T5Rest(s) PROVE T5Rest(n)
  <2>1. a.event # Psc /\ m # 1 BY <1>1, <1>9, <1>13 DEF T5Rest
  <2>2. ASSUME NEW i \in 1 .. Len(n)
        PROVE  /\ n[i].op = "storeTrack" <=> i = Len(n)
               /\ n[i].op \in {"gate", "restore", "changed", "storeTrack"}
               /\ n[i].event # Psc
    <3>1. m >= 2 /\ Len(n) - k = m BY SMT, <1>1, <1>2, <1>3, <2>1
    <3>2. i \in {1, 2} => i # Len(n) BY SMT, <1>2, <1>3, <3>1
    <3>3. i = 3 /\ k = 2 => i # Len(n) BY SMT, <1>3, <3>1
    <3>4. i - k = m <=> i = Len(n) BY SMT, <1>1, <1>2, <1>3
    <3>5. ASSUME i - k \in 2 .. m, n[i] = s[i - k]
          PROVE  /\ n[i].op = "storeTrack" <=> i = Len(n)
                 /\ n[i].op \in {"gate", "restore", "changed", "storeTrack"}
                 /\ n[i].event # Psc
      <4>1. i - k \in 1 .. m BY <1>8, <3>5
      <4> QED BY <1>13, <3>4, <3>5, <4>1 DEF T5Rest
    <3> QED BY <1>5, <1>10, <2>1, <2>2, <3>2, <3>3, <3>5
  <2> QED BY <1>6, <2>2 DEF T5Rest
<1>14. ASSUME T9Rest(s) PROVE T9Rest(n)
  <2>1. ASSUME NEW i \in 1 .. Len(n), NEW j \in 2 .. m, s[j].op = "storeRest", i < j + k
        PROVE  \E l \in i + 1 .. Len(n) : n[l].op = "storeRest"
    <3>1. j + k \in i + 1 .. Len(n) BY SMT, <1>1, <1>2, <1>3, <2>1
    <3> QED BY <1>4, <2>1, <3>1
  <2>2. ASSUME NEW i \in 1 .. Len(n)
        PROVE  /\ n[i].op \in {"gate", "restore", "changed", "storeRest"}
               /\ n[i].event = Psc => \E l \in i + 1 .. Len(n) : n[l].op = "storeRest"
    <3>1. CASE i \in {1, 2} /\ n[i].op \in {"restore", "changed"} /\ n[i].event = a.event
      <4>1. ASSUME a.event = Psc PROVE \E l \in i + 1 .. Len(n) : n[l].op = "storeRest"
        <5>1. PICK j \in 1 + 1 .. m : s[j].op = "storeRest" BY <1>1, <1>9, <1>14, <4>1 DEF T9Rest
        <5>2. j \in 2 .. m /\ i < j + k BY SMT, <1>1, <1>2, <3>1, <5>1
        <5> QED BY <2>1, <2>2, <5>1, <5>2
      <4> QED BY <3>1, <4>1
    <3>2. CASE i = 3 /\ k = 2 /\ n[i].op = "gate" /\ n[i].event = Ncc BY <1>10, <3>2
    <3>3. CASE i - k \in 2 .. m /\ n[i] = s[i - k]
      <4>1. i - k \in 1 .. m BY <1>8, <3>3
      <4>2. ASSUME n[i].event = Psc PROVE \E l \in i + 1 .. Len(n) : n[l].op = "storeRest"
        <5>1. PICK j \in (i - k) + 1 .. m : s[j].op = "storeRest"
          BY <1>14, <3>3, <4>1, <4>2 DEF T9Rest
        <5>2. j \in 2 .. m /\ i < j + k BY SMT, <1>1, <1>2, <2>2, <3>3, <5>1
        <5> QED BY <2>1, <2>2, <5>1, <5>2
      <4>3. n[i].op \in {"gate", "restore", "changed", "storeRest"} BY <1>14, <3>3, <4>1 DEF T9Rest
      <4> QED BY <4>2, <4>3
    <3> QED BY <1>5, <2>2, <3>1, <3>2, <3>3
  <2> QED BY <2>2 DEF T9Rest
<1> QED BY <1>6, <1>11, <1>12, <1>13, <1>14

LEMMA Sat == "adapter" \in Threads /\ "inbound" \in Threads BY DEF Threads

\* The other thread's handler stays where it is.
LEMMA OneMoves ==
  ASSUME TypeInv, NEW t \in Threads, Step(t)
  PROVE  \A u \in Threads : u # t => run'[u] = run[u]
<1>1. \E l, r : Goes(t, l, r)
  BY ReadGoes, LoadGoes, DecideGoes, GateGoes, OtherGoes DEF Step
<1> QED BY <1>1 DEF Goes

\* What is behind the decision, one access o later.
RestMoves(o) ==
  /\ Notifying # <<>>
  /\ T5Rest(Notifying) => \/ T5Rest(Notifying') /\ o.op # "storeTrack"
                          \/ /\ Notifying' = <<>> /\ o.op = "storeTrack"
                             /\ \A e : ~Pending(Notifying, e)
  /\ T9Rest(Notifying) => T9Rest(Notifying') /\ o.op # "storeTrack"
  /\ o.op # "storeRest" => (Has(Notifying, "storeRest") <=> Has(Notifying', "storeRest"))
  /\ \A e : Pending(Notifying, e) => \/ Pending(Notifying', e)
                                     \/ o.op = "gate" /\ o.event = e /\ db[e] = 0
                                     \/ o.op = "changed" /\ o.event = e
  /\ T9Rest(Notifying) /\ o.event = Psc => Has(Notifying', "storeRest")
  /\ Notifying' # <<>> => run'["adapter"].copy = run["adapter"].copy
  /\ \/ o.op = "gate" /\ UNCHANGED <<bss, raced, ct>>
     \/ o.op = "restore" /\ UNCHANGED <<seen, raced, ct>>
     \/ o.op = "changed" /\ Notify("adapter") /\ Event("adapter") = o.event
          /\ Current("adapter").op = "changed"
     \/ o.op = "storeTrack" /\ UNCHANGED <<raced, ct>>
          /\ seen' = NarrowWrite(run["adapter"].copy, seen)
     \/ o.op = "storeRest" /\ UNCHANGED <<raced, ct>>
          /\ seen' = [run["adapter"].copy EXCEPT !.track = seen.track, !.end = seen.end]
  /\ UNCHANGED <<file, inbox, overlap, greeted, asked>> /\ run'["inbound"] = run["inbound"]

LEMMA RestStep ==
  ASSUME TypeInv, Step("adapter"), T5Rest(Notifying) \/ T9Rest(Notifying)
  PROVE  RestMoves(Head(Notifying))
<1> DEFINE o == Head(Notifying)
<1> DEFINE s == Notifying
<1>1. /\ s \in Lists /\ s # <<>> /\ Leads(s, o, Tail(s)) /\ o \in Accesses /\ s = run["adapter"].todo
      /\ o = Current("adapter")
  BY Sat, Performs, TailTyped DEF TypeInv, Handlers, Leads, Current, Notifying
<1>2. o.op \in {"gate", "restore", "changed", "storeTrack", "storeRest"}
  <2>1. Len(s) >= 1 /\ o = s[1] /\ Len(s) \in Nat BY <1>1, TailElements
  <2>2. 1 \in 1 .. Len(s) BY SMT, <2>1
  <2> QED BY <2>1, <2>2 DEF T5Rest, T9Rest
<1>3. T9Rest(s) => o.op # "storeTrack"
  <2>1. Len(s) >= 1 /\ o = s[1] /\ Len(s) \in Nat BY <1>1, TailElements
  <2>2. 1 \in 1 .. Len(s) BY SMT, <2>1
  <2> QED BY <2>1, <2>2 DEF T9Rest
<1>4. /\ UNCHANGED <<file, inbox, overlap, greeted, asked>> /\ run'["inbound"] = run["inbound"]
  BY Sat, StepShared, OneMoves
<1>5. CASE o.op = "gate" /\ db[o.event] # 0
  <2> DEFINE n == o.then \o Tail(s)
  <2>1. EventSubscribed("adapter") /\ Goes("adapter", n, run["adapter"])
    BY <1>1, <1>5, Sat, LedStep
  <2>2. Opens(o, Tail(s), n)
    <3>1. Tail(s) \in Lists BY <1>1, TailElements
    <3> QED BY <1>1, <1>5, <3>1, GateOpens
  <2> HIDE DEF n
  <2>3. /\ n # <<>> /\ (T5Rest(s) => T5Rest(n)) /\ (T9Rest(s) => T9Rest(n))
        /\ Has(s, "storeRest") <=> Has(n, "storeRest")
        /\ \A e : Pending(s, e) => Pending(n, e)
    BY <1>1, <1>5, <2>2, RestGate DEF Leads
  <2>4. Notifying' = n /\ run'["adapter"].copy = run["adapter"].copy
    BY <2>1, <2>3 DEF Goes, Notifying
  <2>5. UNCHANGED <<bss, raced, ct>> BY <2>1 DEF EventSubscribed, Other
  <2>6. T9Rest(s) /\ o.event = Psc => Has(s, "storeRest")
    <3>1. T9Rest(s) /\ o.event = Psc => Has(Tail(s), "storeRest") BY <1>1, TailHas
    <3>2. Has(Tail(s), "storeRest") => Has(s, "storeRest") BY <1>1, <1>5, TailHas
    <3> QED BY <3>1, <3>2
  <2> QED BY <1>1, <1>3, <1>4, <1>5, <2>3, <2>4, <2>5, <2>6 DEF RestMoves
<1>6. CASE ~(o.op = "gate" /\ db[o.event] # 0)
  <2>1. /\ Goes("adapter", Tail(s), run["adapter"]) /\ Event("adapter") = o.event
        /\ o.op = "gate" => EventSubscribed("adapter")
        /\ o.op = "restore" => RestoreConnTid("adapter")
        /\ o.op = "changed" => Notify("adapter")
        /\ o.op \in {"storeTrack", "storeRest"} => Store("adapter")
    BY <1>1, <1>2, <1>6, Sat, LedStep
  <2>2. Notifying' = Tail(s) /\ (Tail(s) # <<>> => run'["adapter"].copy = run["adapter"].copy)
    BY <2>1 DEF Goes, Notifying
  <2>3. /\ T5Rest(s) /\ o.op # "storeTrack" => T5Rest(Tail(s))
        /\ T5Rest(s) /\ o.op = "storeTrack" => Tail(s) = <<>> /\ \A e : ~Pending(s, e)
        /\ T9Rest(s) => T9Rest(Tail(s))
    BY <1>1, TailRest
  <2>4. /\ o.op # "storeRest" => (Has(s, "storeRest") <=> Has(Tail(s), "storeRest"))
        /\ \A e : ~(o.event = e /\ o.op \in {"gate", "changed"})
                         => (Pending(s, e) <=> Pending(Tail(s), e))
        /\ T9Rest(s) /\ o.event = Psc => Has(Tail(s), "storeRest")
    BY <1>1, TailHas
  <2>5. \/ o.op = "gate" /\ UNCHANGED <<bss, raced, ct>>
        \/ o.op = "restore" /\ UNCHANGED <<seen, raced, ct>>
        \/ o.op = "changed" /\ Notify("adapter") /\ Event("adapter") = o.event
             /\ Current("adapter").op = "changed"
        \/ o.op = "storeTrack" /\ UNCHANGED <<raced, ct>>
             /\ seen' = NarrowWrite(run["adapter"].copy, seen)
        \/ o.op = "storeRest" /\ UNCHANGED <<raced, ct>>
             /\ seen' = [run["adapter"].copy EXCEPT !.track = seen.track, !.end = seen.end]
    <3>1. o.op = "gate" => UNCHANGED <<bss, raced, ct>> BY <2>1 DEF EventSubscribed, Other
    <3>2. o.op = "restore" => UNCHANGED <<seen, raced, ct>> BY <2>1 DEF RestoreConnTid, Other
    <3>3. o.op = "changed" => Notify("adapter") /\ Current("adapter").op = "changed"
      BY <1>1, <2>1
    <3>4. TypeInv /\ raced \in BOOLEAN BY DEF TypeInv, TypeOK
    <3>5. o.op = "storeTrack" => /\ UNCHANGED <<raced, ct>>
                                 /\ seen' = NarrowWrite(run["adapter"].copy, seen)
      BY <1>1, <2>1, <3>4 DEF Store, Doing, Race
    <3>6. o.op = "storeRest" =>
            /\ UNCHANGED <<raced, ct>>
            /\ seen' = [run["adapter"].copy EXCEPT !.track = seen.track, !.end = seen.end]
      BY <1>1, <2>1 DEF Store, Doing
    <3> QED BY <1>2, <2>1, <3>1, <3>2, <3>3, <3>5, <3>6
  <2>6. \A e : Pending(s, e) => \/ Pending(Tail(s), e)
                                \/ o.op = "gate" /\ o.event = e /\ db[e] = 0
                                \/ o.op = "changed" /\ o.event = e
    BY <1>6, <2>4
  <2> QED BY <1>1, <1>3, <1>4, <2>2, <2>3, <2>4, <2>5, <2>6 DEF RestMoves
<1> QED BY <1>5, <1>6

\* Registering for e has the database know of e, once it has been entered.
LEMMA AskedStored ==
  ASSUME SessionInv, NEW e \in Events, asked[e] # 0, Receiving # RegisterNotification(e)
  PROVE  db[e] # 0
<1>1. asked # Unsubscribed BY DEF Unsubscribed
<1>2. CASE Even BY <1>1, <1>2 DEF Even
<1>3. CASE \E d \in Events : Receiving = RegisterNotification(d) /\ Saving(d)
  <2>1. PICK d \in Events : Receiving = RegisterNotification(d) /\ Saving(d) BY <1>3
  <2>2. d # e BY <2>1
  <2>3. db \in [Events -> 0 .. MaxTid + 1] BY DEF SessionInv, TypeInv, TypeOK
  <2> QED BY <2>1, <2>2, <2>3 DEF Saving
<1> QED BY <1>1, <1>2, <1>3 DEF SessionInv, CommandInv, SavedAs

\* Nothing is decided yet in the lists that T5 and T9 start with.
LEMMA BeforeRest ==
  \A l \in {NotificationTrackChanged, Loading5, Deciding5,
            NotificationPlayStatusChanged, Loading9, Deciding9} :
    l # <<>> /\ ~Has(l, "storeRest") /\ (\A e : ~Pending(l, e)) /\ ~T5Rest(l) /\ ~T9Rest(l)
<1>1. ASSUME NEW l \in Lists, NEW k \in {"read", "load", "T5", "T9"}, NEW r,
             Leads(l, Op(k, 0), r), ~Has(r, "storeRest"), \A e : ~Pending(r, e)
      PROVE  l # <<>> /\ ~Has(l, "storeRest") /\ (\A e : ~Pending(l, e)) /\ ~T5Rest(l) /\ ~T9Rest(l)
  <2>1. l # <<>> /\ Head(l).op = k /\ Tail(l) = r BY <1>1, OpFields DEF Leads
  <2>2. ~Has(l, "storeRest") /\ (\A e : ~Pending(l, e)) BY <1>1, <2>1, TailHas
  <2>3. Len(l) >= 1 /\ Head(l) = l[1] /\ Len(l) \in Nat BY <2>1, TailElements
  <2>4. 1 \in 1 .. Len(l) BY SMT, <2>3
  <2>5. ~T5Rest(l) /\ ~T9Rest(l) BY <2>1, <2>3, <2>4 DEF T5Rest, T9Rest
  <2> QED BY <2>1, <2>2, <2>5
<1> DEFINE Good(l) == l # <<>> /\ ~Has(l, "storeRest") /\ (\A e : ~Pending(l, e))
                        /\ ~T5Rest(l) /\ ~T9Rest(l)
<1>2. Good(Deciding5) /\ Good(Deciding9)
  <2>1. ~Has(<<>>, "storeRest") /\ \A e : ~Pending(<<>>, e) BY Decided
  <2> QED BY <1>1, <2>1, ListsLead, ListsTyped
<1>3. Good(Loading5) /\ Good(Loading9) BY <1>1, <1>2, ListsLead, ListsTyped
<1>4. Good(NotificationTrackChanged) /\ Good(NotificationPlayStatusChanged)
  BY <1>1, <1>3, ListsLead, HandlersTyped
<1> QED BY <1>2, <1>3, <1>4

LEMMA ListsDiffer ==
  /\ NotificationTrackChanged \notin {Loading5, Deciding5, NotificationPlayStatusChanged, Loading9,
                                      Deciding9, <<>>}
  /\ NotificationPlayStatusChanged \notin {Loading5, Deciding5, Loading9, Deciding9, <<>>}
  /\ Loading5 \notin {Deciding5, Loading9, Deciding9, <<>>}
  /\ Loading9 \notin {Deciding5, Deciding9, <<>>}
  /\ Deciding5 \notin {Deciding9, <<>>} /\ Deciding9 # <<>>
<1> DEFINE n5 == NotificationTrackChanged  n9 == NotificationPlayStatusChanged
<1>1. /\ Head(n5).op = "read" /\ Tail(n5) = Loading5
      /\ Head(n9).op = "read" /\ Tail(n9) = Loading9
      /\ Head(Loading5).op = "load" /\ Tail(Loading5) = Deciding5
      /\ Head(Loading9).op = "load" /\ Tail(Loading9) = Deciding9
      /\ Head(Deciding5).op = "T5" /\ Head(Deciding9).op = "T9"
  BY ListsLead, OpFields DEF Leads
<1>2. n5 # <<>> /\ n9 # <<>> /\ Loading5 # <<>> /\ Loading9 # <<>> /\ Deciding5 # <<>> /\ Deciding9 # <<>>
  BY ListsLead DEF Leads
<1> HIDE DEF n5, n9
<1>3. Deciding5 # Deciding9 BY <1>1
<1>4. Loading5 # Loading9 BY <1>1, <1>3
<1>5. n5 # n9 BY <1>1, <1>4
<1>6. /\ n5 \notin {Loading5, Deciding5, Loading9, Deciding9}
      /\ n9 \notin {Loading5, Deciding5, Loading9, Deciding9}
  BY <1>1
<1>7. Loading5 \notin {Deciding5, Deciding9} /\ Loading9 \notin {Deciding5, Deciding9} BY <1>1
<1> QED BY <1>2, <1>3, <1>4, <1>5, <1>6, <1>7 DEF n5, n9

\* What T5 and T9 do up to their decision.
LEMMA NoticeMoves ==
  ASSUME TypeInv, Undecided, Step("adapter")
  PROVE  /\ UNCHANGED <<bss, ct, raced, file, inbox, overlap>>
         /\ run'["inbound"] = run["inbound"]
         /\ Notifying = NotificationTrackChanged =>
              Notifying' = Loading5 /\ run'["adapter"].copy = file
         /\ Notifying = Loading5 =>
              /\ Notifying' = Deciding5 /\ run'["adapter"].copy = run["adapter"].copy
              /\ run'["adapter"].was = seen
         /\ Notifying = Deciding5 =>
              /\ Notifying' = IF Edge("adapter") THEN T5OnEdge(run["adapter"].copy.end) ELSE <<>>
              /\ Notifying' # <<>> => run'["adapter"].copy = run["adapter"].copy
         /\ Notifying = NotificationPlayStatusChanged =>
              Notifying' = Loading9 /\ run'["adapter"].copy = file
         /\ Notifying = Loading9 =>
              /\ Notifying' = Deciding9 /\ run'["adapter"].copy = run["adapter"].copy
              /\ run'["adapter"].was = seen
         /\ Notifying = Deciding9 =>
              /\ Notifying' = T9Arms(run["adapter"].copy, run["adapter"].was)
              /\ Notifying' # <<>> => run'["adapter"].copy = run["adapter"].copy
<1> DEFINE r == run["adapter"]
<1>1. /\ r \in Handlers /\ r.copy \in Images /\ Notifying = r.todo /\ raced \in BOOLEAN
      /\ file \in Images /\ seen \in Images
  BY Sat DEF TypeInv, TypeOK, Notifying
<1>2. ASSUME NEW l \in {Loading5, Loading9}, Leads(r.todo, Op("read", 0), l)
      PROVE  /\ UNCHANGED <<bss, ct, raced>> /\ Notifying' = l /\ run'["adapter"].copy = file
  <2>1. Read("adapter") /\ Goes("adapter", l, [run["adapter"] EXCEPT !.copy = file])
    BY <1>2, Sat, OpStep
  <2>2. l # <<>> BY ListsDiffer
  <2> QED BY <1>1, <2>1, <2>2 DEF Read, Other, Goes, Notifying, Handlers
<1>3. ASSUME NEW l \in {Deciding5, Deciding9}, Leads(r.todo, Op("load", 0), l)
      PROVE  /\ UNCHANGED <<bss, ct, raced>> /\ Notifying' = l /\ run'["adapter"].copy = r.copy
             /\ run'["adapter"].was = seen
  <2>1. Load("adapter") /\ Goes("adapter", l, [run["adapter"] EXCEPT !.was = seen])
    BY <1>3, Sat, OpStep
  <2>2. l # <<>> BY ListsDiffer
  <2> QED BY <1>1, <2>1, <2>2 DEF Load, Race, Goes, Notifying, Handlers
<1>4. ASSUME NEW k \in {"T5", "T9"}, Leads(r.todo, Op(k, 0), <<>>)
      PROVE  /\ UNCHANGED <<bss, ct, raced>>
             /\ Notifying' # <<>> => run'["adapter"].copy = r.copy
             /\ Notifying' = IF k = "T5" THEN IF Edge("adapter") THEN T5OnEdge(r.copy.end) ELSE <<>>
                                         ELSE T9Arms(r.copy, r.was)
  <2>1. /\ Decide("adapter") /\ Decision("adapter") \in Lists /\ Current("adapter").op = k
        /\ Goes("adapter", Decision("adapter") \o <<>>, run["adapter"])
    BY <1>4, Sat, OpStep
  <2>2. Decision("adapter") \o <<>> = Decision("adapter") BY <2>1, Empty DEF Lists
  <2>3. UNCHANGED <<bss, ct, raced>> BY <2>1 DEF Decide, Other
  <2>4. Decision("adapter") = IF k = "T5" THEN IF Edge("adapter") THEN T5OnEdge(r.copy.end) ELSE <<>>
                                          ELSE T9Arms(r.copy, r.was)
    BY <2>1 DEF Decision
  <2>5. Notifying' = Decision("adapter") /\ (Notifying' # <<>> => run'["adapter"].copy = r.copy)
    BY <2>1, <2>2 DEF Goes, Notifying
  <2> QED BY <2>3, <2>4, <2>5
<1>5. UNCHANGED <<file, inbox, overlap>> /\ run'["inbound"] = run["inbound"]
  BY Sat, StepShared, OneMoves
<1>6. CASE Notifying = NotificationTrackChanged
  <2>1. Leads(r.todo, Op("read", 0), Loading5) BY <1>1, <1>6, ListsLead
  <2> QED BY <1>2, <1>5, <1>6, <2>1, ListsDiffer
<1>7. CASE Notifying = NotificationPlayStatusChanged
  <2>1. Leads(r.todo, Op("read", 0), Loading9) BY <1>1, <1>7, ListsLead
  <2> QED BY <1>2, <1>5, <1>7, <2>1, ListsDiffer
<1>8. CASE Notifying = Loading5
  <2>1. Leads(r.todo, Op("load", 0), Deciding5) BY <1>1, <1>8, ListsLead
  <2> QED BY <1>3, <1>5, <1>8, <2>1, ListsDiffer
<1>9. CASE Notifying = Loading9
  <2>1. Leads(r.todo, Op("load", 0), Deciding9) BY <1>1, <1>9, ListsLead
  <2> QED BY <1>3, <1>5, <1>9, <2>1, ListsDiffer
<1>10. CASE Notifying = Deciding5
  <2>1. Leads(r.todo, Op("T5", 0), <<>>) BY <1>1, <1>10, ListsLead
  <2> QED BY <1>4, <1>5, <1>10, <2>1, ListsDiffer
<1>11. CASE Notifying = Deciding9
  <2>1. Leads(r.todo, Op("T9", 0), <<>>) BY <1>1, <1>11, ListsLead
  <2> QED BY <1>4, <1>5, <1>11, <2>1, ListsDiffer
<1> QED BY <1>6, <1>7, <1>8, <1>9, <1>10, <1>11 DEF Undecided

\* A broadcast in the inbox, or just taken from it.
Queued(cast) == \E i \in 1 .. Len(inbox) : inbox[i] = cast

LEMMA Delivered ==
  ASSUME TypeInv, Deliver
  PROVE  /\ Notifying = <<>> /\ run'["inbound"] = run["inbound"]
         /\ Notifying' \in {NotificationTrackChanged, NotificationPlayStatusChanged}
         /\ Queued("meta") => Queued("meta")' \/ Notifying' = NotificationTrackChanged
         /\ Queued("play") => Queued("play")' \/ Notifying' = NotificationPlayStatusChanged
         /\ UNCHANGED <<bss, ct, raced, file>>
<1>1. /\ run["adapter"] \in Handlers /\ run \in [Threads -> Handlers]
      /\ inbox \in Seq({"meta", "play"}) /\ inbox # <<>> /\ inbox' = Tail(inbox)
  BY Sat DEF TypeInv, TypeOK, Deliver
<1>2. /\ Notifying' = IF Head(inbox) = "meta" THEN NotificationTrackChanged
                                              ELSE NotificationPlayStatusChanged
      /\ Notifying = <<>> /\ run'["inbound"] = run["inbound"]
  BY <1>1, Sat, DeliverGoes DEF Notifying, Handlers
<1>3. ASSUME NEW cast, Queued(cast) PROVE Head(inbox) = cast \/ Queued(cast)'
  <2>1. PICK i \in 1 .. Len(inbox) : inbox[i] = cast BY <1>3 DEF Queued
  <2>2. /\ Len(inbox) \in Nat /\ Len(Tail(inbox)) = Len(inbox) - 1 /\ Head(inbox) = inbox[1]
        /\ \A j \in 1 .. Len(Tail(inbox)) : Tail(inbox)[j] = inbox[j + 1]
    BY <1>1, HeadTailProperties, LenProperties
  <2>3. CASE i = 1 BY <2>1, <2>2, <2>3
  <2>4. CASE i # 1
    <3>1. i - 1 \in 1 .. Len(Tail(inbox)) /\ (i - 1) + 1 = i BY SMT, <2>2, <2>4
    <3>2. Tail(inbox)[i - 1] = cast BY <2>1, <2>2, <3>1
    <3> QED BY <1>1, <3>1, <3>2 DEF Queued
  <2> QED BY <2>3, <2>4
<1>4. UNCHANGED <<bss, ct, raced, file>> BY DEF Deliver, threading
<1> QED BY <1>2, <1>3, <1>4

LEMMA Published ==
  ASSUME TypeInv, NextTrack \/ NewStatus \/ PlayStateChanged
  PROVE  /\ \A cast : Queued(cast) => Queued(cast)'
         /\ file'.track # file.track => Queued("meta")'
         /\ file'.status # file.status => Queued("play")'
         /\ UNCHANGED <<bss, ct, run, raced>>
<1>1. PICK new \in Images, casts \in Seq({"meta", "play"}) :
           /\ Publish(new, casts) /\ Len(casts) <= 2
           /\ new.track # file.track => \E i \in 1 .. Len(casts) : casts[i] = "meta"
           /\ new.status # file.status => \E i \in 1 .. Len(casts) : casts[i] = "play"
  BY Publications
<1>2. file' = new /\ inbox' = inbox \o casts /\ UNCHANGED <<bss, ct, run, raced>>
  BY <1>1 DEF Publish, threading
<1>3. inbox \in Seq({"meta", "play"}) BY DEF TypeInv, TypeOK
<1> DEFINE w == inbox \o casts
<1>4. /\ Len(inbox) \in Nat /\ Len(casts) \in Nat /\ Len(w) = Len(inbox) + Len(casts)
      /\ \A i \in 1 .. Len(inbox) + Len(casts) :
            w[i] = IF i <= Len(inbox) THEN inbox[i] ELSE casts[i - Len(inbox)]
  BY <1>3, ConcatProperties, LenProperties
<1> HIDE DEF w
<1>5. ASSUME NEW cast, Queued(cast) PROVE Queued(cast)'
  <2>1. PICK i \in 1 .. Len(inbox) : inbox[i] = cast BY <1>5 DEF Queued
  <2>2. i \in 1 .. Len(inbox) + Len(casts) /\ i <= Len(inbox) BY SMT, <1>4, <2>1
  <2>3. w[i] = cast BY <1>4, <2>1, <2>2
  <2>4. i \in 1 .. Len(w) BY <1>4, <2>2
  <2>5. inbox' = w BY <1>2 DEF w
  <2> QED BY <2>3, <2>4, <2>5 DEF Queued
<1>6. ASSUME NEW cast, NEW i \in 1 .. Len(casts), casts[i] = cast PROVE Queued(cast)'
  <2>1. /\ Len(inbox) + i \in 1 .. Len(inbox) + Len(casts) /\ ~(Len(inbox) + i <= Len(inbox))
        /\ (Len(inbox) + i) - Len(inbox) = i
    BY SMT, <1>4, <1>6
  <2>2. w[Len(inbox) + i] = cast BY <1>4, <1>6, <2>1
  <2>3. Len(inbox) + i \in 1 .. Len(w) BY <1>4, <2>1
  <2>4. inbox' = w BY <1>2 DEF w
  <2> QED BY <2>2, <2>3, <2>4 DEF Queued
<1> QED BY <1>1, <1>2, <1>5, <1>6

-----------------------------------------------------------------------------
(* What the controller knows of the play status.                           *)

\* Some broadcast is still to be taken that makes the adapter read the file.
PlayComing == Queued("play") \/ Notifying = NotificationPlayStatusChanged
MetaComing == Queued("meta") \/ Notifying = NotificationTrackChanged

StatusRead == run["adapter"].copy.status # file.status => PlayComing

\* T9 has read a status that is the file's, or will be read again.
StatusNotice ==
  \/ Notifying \in {NotificationTrackChanged, Loading5, Deciding5, NotificationPlayStatusChanged}
  \/ Notifying = Loading9 /\ StatusRead
  \/ Notifying = Deciding9 /\ StatusRead /\ seen.status = run["adapter"].was.status
  \/ T5Rest(Notifying)
  \/ T9Rest(Notifying) /\ (Has(Notifying, "storeRest") => StatusRead)

\* The edge state will catch up with the file.
StatusComing == \/ PlayComing \/ seen.status = file.status
                \/ Notifying \in {Loading9, Deciding9} \/ Has(Notifying, "storeRest")

\* The last CHANGED told the status acted upon, or another one is to follow.
Told == Pending(Notifying, Psc)
          \/ heard.status = IF Has(Notifying, "storeRest") THEN run["adapter"].copy.status
                                                           ELSE seen.status

Registering(e) == Receiving \in {RegisterNotification(e), Saved(e), Restoring(e), Interim(e)}

StatusInv ==
  /\ StatusNotice
  /\ heard.how = "changed" => StatusComing
  /\ asked[Psc] # 0 /\ heard.how = "changed" /\ ~Registering(Psc) => Told

\* What the receive loop does to the adapter's part and to what was heard.
LEMMA CommandHeard ==
  ASSUME SessionInv, Step("inbound")
  PROVE  /\ seen'.status = seen.status
         /\ heard' = heard \/ heard'.how # "changed"
         /\ Registering(Psc) => Registering(Psc)' \/ heard'.how # "changed"
         /\ UNCHANGED <<file, inbox, asked, greeted, overlap>>
         /\ Notifying' = Notifying /\ run'["adapter"] = run["adapter"]
<1> DEFINE r == run["inbound"]
<1>1. /\ TypeInv /\ r.copy \in Images /\ seen \in Images /\ Receiving = r.todo
  BY Sat DEF SessionInv, TypeInv, TypeOK, Receiving
<1>2. /\ UNCHANGED <<file, inbox, asked, greeted, overlap>>
      /\ Notifying' = Notifying /\ run'["adapter"] = run["adapter"]
  BY <1>1, Sat, StepShared, OneMoves DEF counters, Notifying
<1>3. ASSUME NEW k, NEW e, NEW l, Leads(r.todo, Op(k, e), l), k # "storeRest",
             k = "changed" => e # Psc
      PROVE  seen'.status = seen.status /\ (heard' = heard \/ heard'.how # "changed")
  <2>1. Current("inbound").op = k /\ Event("inbound") = e BY <1>1, <1>3, Sat, OpStep
  <2>2. CASE Store("inbound")
    <3>1. Doing("inbound", "storeTrack") /\ heard' = heard /\ seen' = NarrowWrite(r.copy, seen)
      BY <1>3, <2>1, <2>2 DEF Store, Doing, ct
    <3> QED BY <1>1, <3>1 DEF NarrowWrite, Images
  <2>3. CASE Notify("inbound")
    <3>1. seen' = seen /\ (heard' = heard \/ heard'.how = k) BY <2>1, <2>3 DEF Notify, bss
    <3>2. k = "changed" => heard' = heard BY <1>3, <2>1, <2>3 DEF Notify
    <3> QED BY <3>1, <3>2
  <2>4. CASE ~Store("inbound") /\ ~Notify("inbound")
    <3>1. seen' = seen /\ heard' = heard
      BY <2>4 DEF Step, Read, Load, Decide, WriteTid, SaveEventSeqId, ClearEventDatabase,
                  EventSubscribed, RestoreConnTid, Answer, Other, bss, ct
    <3> QED BY <3>1
  <2> QED BY <2>2, <2>3, <2>4
<1>4. \E k \in {"tid", "clear", "respond", "attributes", "read", "load", "getAttrs", "storeTrack",
                "save", "restore", "interim", "changed"} : \E e, l :
         Leads(r.todo, Op(k, e), l) /\ (k = "changed" => e = Track)
  <2>1. r.todo # <<>> BY Sat, Performs
  <2>2. CASE Receiving \in {GetCapabilities, GetPlayStatus, GetElementAttributes, Clearing, Answering}
    BY <1>1, <2>2, ListsLead
  <2>3. CASE Receiving \in {Polling, Reading, Loading, Deciding} BY <1>1, <2>3, ListsLead
  <2>4. CASE Receiving \in {Turning, Telling, Storing, Attributing} BY <1>1, <2>4, ListsLead
  <2>5. ASSUME NEW d \in Events,
               Receiving \in {RegisterNotification(d), Saved(d), Marking(d), Restoring(d), Interim(d)}
        PROVE  \E k \in {"read", "storeTrack", "save", "restore", "interim"} : \E e, l :
                 Leads(r.todo, Op(k, e), l)
    BY <1>1, <2>5, ListsLead
  <2>6. (\E d \in Events : Receiving \in {RegisterNotification(d), Saved(d), Marking(d), Restoring(d),
                                          Interim(d)}) =>
           \E k \in {"read", "storeTrack", "save", "restore", "interim"} : \E e, l :
                 Leads(r.todo, Op(k, e), l)
    BY <2>5
  <2>7. \/ Receiving \in {GetCapabilities, GetPlayStatus, GetElementAttributes, Clearing, Answering}
        \/ Receiving \in {Polling, Reading, Loading, Deciding}
        \/ Receiving \in {Turning, Telling, Storing, Attributing}
        \/ \E d \in Events : Receiving \in {RegisterNotification(d), Saved(d), Marking(d),
                                            Restoring(d), Interim(d)}
    BY <1>1, <2>1 DEF SessionInv, CommandInv
  <2> QED BY <2>2, <2>3, <2>4, <2>6, <2>7
<1>5. Psc # Track /\ Psc \in Events BY SMT DEF Psc, Track, Events
<1>6. seen'.status = seen.status /\ (heard' = heard \/ heard'.how # "changed")
  BY <1>3, <1>4, <1>5
<1>7. ASSUME Registering(Psc) PROVE Registering(Psc)' \/ heard'.how # "changed"
  <2>1. CASE Receiving \in {RegisterNotification(Psc), Saved(Psc), Restoring(Psc)}
    <3>1. \/ Leads(r.todo, Op("save", Psc), Saved(Psc))
          \/ Leads(r.todo, Op("read", 0), Restoring(Psc))
          \/ Leads(r.todo, Op("restore", Psc), Interim(Psc))
      BY <1>1, <1>5, <2>1, ListsLead
    <3>2. \E l \in {Saved(Psc), Restoring(Psc), Interim(Psc)} : \E q : Goes("inbound", l, q)
      BY <1>1, <3>1, Sat, OpStep
    <3>3. Receiving' \in {Saved(Psc), Restoring(Psc), Interim(Psc)} BY <3>2 DEF Goes, Receiving
    <3> QED BY <3>3 DEF Registering
  <2>2. CASE Receiving = Interim(Psc)
    <3>1. Leads(r.todo, Op("interim", Psc), <<>>) BY <1>1, <1>5, <2>2, ListsLead
    <3>2. Notify("inbound") /\ Event("inbound") = Psc /\ Current("inbound").op = "interim"
      BY <1>1, <3>1, Sat, OpStep
    <3> QED BY <3>2 DEF Notify
  <2> QED BY <1>7, <2>1, <2>2 DEF Registering
<1> QED BY <1>2, <1>6, <1>7

LEMMA StatusCommand == ASSUME SessionInv, StatusInv, Step("inbound") PROVE StatusInv'
<1>1. /\ seen'.status = seen.status
      /\ heard' = heard \/ heard'.how # "changed"
      /\ Registering(Psc) => Registering(Psc)' \/ heard'.how # "changed"
      /\ UNCHANGED <<file, inbox, asked, greeted, overlap>>
      /\ Notifying' = Notifying /\ run'["adapter"] = run["adapter"]
  BY CommandHeard
<1>2. PlayComing' <=> PlayComing BY <1>1 DEF PlayComing, Queued
<1>3. StatusRead' <=> StatusRead BY <1>1, <1>2 DEF StatusRead
<1>4. StatusNotice' BY <1>1, <1>3 DEF StatusInv, StatusNotice
<1>5. StatusComing' <=> StatusComing BY <1>1, <1>2 DEF StatusComing
<1>6. heard' = heard => (Told' <=> Told) BY <1>1 DEF Told
<1> QED BY <1>1, <1>4, <1>5, <1>6 DEF StatusInv

LEMMA StatusAdapter == ASSUME SessionInv, StatusInv, Step("adapter") PROVE StatusInv'
<1> DEFINE r == run["adapter"]
<1>1. /\ TypeInv /\ r.copy \in Images /\ r.was \in Images /\ seen \in Images
      /\ Psc \in Events
  <2>1. Psc \in Events BY SMT DEF Psc, Events
  <2> QED BY <2>1, Sat DEF SessionInv, TypeInv, TypeOK
<1>2. CASE Undecided
  <2> HIDE DEF r
  <2>1. /\ UNCHANGED <<bss, ct, raced, file, inbox, overlap>>
        /\ run'["inbound"] = run["inbound"]
    BY <1>1, <1>2, NoticeMoves
  <2>2. UNCHANGED <<seen, heard, asked, Receiving>> BY <2>1 DEF bss, ct, Receiving
  <2>3. Registering(Psc)' <=> Registering(Psc) BY <2>2 DEF Registering
  <2>4. Told => heard.status = seen.status BY <1>2, BeforeRest DEF Told, Undecided
  <2>5. Queued("play")' <=> Queued("play") BY <2>1 DEF Queued
  <2>6. /\ ~Has(Loading5, "storeRest") /\ ~Has(Deciding5, "storeRest")
        /\ ~Has(Loading9, "storeRest") /\ ~Has(Deciding9, "storeRest")
        /\ ~Has(NotificationTrackChanged, "storeRest")
        /\ ~Has(NotificationPlayStatusChanged, "storeRest")
    BY BeforeRest
  <2>7. Told /\ ~Has(Notifying', "storeRest") => Told' BY <2>2, <2>4 DEF Told
  <2>8. CASE Notifying = NotificationTrackChanged
    <3>1. Notifying' = Loading5 BY <1>1, <1>2, <2>8, NoticeMoves
    <3>2. StatusComing => StatusComing'
      BY <2>1, <2>2, <2>5, <2>6, <2>8, ListsDiffer DEF StatusComing, PlayComing
    <3>3. StatusNotice' BY <3>1 DEF StatusNotice
    <3> QED BY <2>2, <2>3, <2>6, <2>7, <3>1, <3>2, <3>3 DEF StatusInv
  <2>9. CASE Notifying = Loading5
    <3>1. Notifying' = Deciding5 BY <1>1, <1>2, <2>9, NoticeMoves
    <3>2. StatusComing => StatusComing'
      BY <2>1, <2>2, <2>5, <2>6, <2>9, ListsDiffer DEF StatusComing, PlayComing
    <3>3. StatusNotice' BY <3>1 DEF StatusNotice
    <3> QED BY <2>2, <2>3, <2>6, <2>7, <3>1, <3>2, <3>3 DEF StatusInv
  <2>10. CASE Notifying = Deciding5
    <3>1. T5Rest(Notifying') \/ Notifying' = <<>>
      BY <1>1, <1>2, <2>10, NoticeMoves, Decided
    <3>2. ~Has(Notifying', "storeRest")
      <4>1. ASSUME T5Rest(Notifying') PROVE ~Has(Notifying', "storeRest")
        BY <4>1 DEF T5Rest, Has
      <4> QED BY <3>1, <4>1, Decided
    <3>3. StatusComing => StatusComing'
      BY <2>1, <2>2, <2>5, <2>6, <2>10, ListsDiffer DEF StatusComing, PlayComing
    <3>4. StatusNotice' BY <3>1, <3>2, Decided DEF StatusNotice
    <3> QED BY <2>2, <2>3, <2>7, <3>2, <3>3, <3>4 DEF StatusInv
  <2>11. CASE Notifying = NotificationPlayStatusChanged
    <3>1. Notifying' = Loading9 /\ run'["adapter"].copy = file
      BY <1>1, <1>2, <2>11, NoticeMoves
    <3>2. StatusRead' /\ StatusComing' BY <2>1, <3>1 DEF StatusRead, StatusComing
    <3>3. StatusNotice' BY <3>1, <3>2 DEF StatusNotice
    <3> QED BY <2>2, <2>3, <2>6, <2>7, <3>1, <3>2, <3>3 DEF StatusInv
  <2>12. CASE Notifying = Loading9
    <3>1. /\ Notifying' = Deciding9 /\ run'["adapter"].copy = run["adapter"].copy
          /\ run'["adapter"].was = seen
      BY <1>1, <1>2, <2>12, NoticeMoves
    <3>2. StatusRead BY <2>12, ListsDiffer, BeforeRest DEF StatusInv, StatusNotice
    <3>3. PlayComing => PlayComing' BY <2>5, <2>12, ListsDiffer DEF PlayComing
    <3>4. StatusRead' BY <2>1, <3>1, <3>2, <3>3 DEF StatusRead
    <3>5. StatusNotice' BY <2>2, <3>1, <3>4 DEF StatusNotice
    <3>6. StatusComing' BY <3>1 DEF StatusComing
    <3> QED BY <2>2, <2>3, <2>6, <2>7, <3>1, <3>5, <3>6 DEF StatusInv
  <2>13. CASE Notifying = Deciding9
    <3> DEFINE new == run["adapter"].copy  old == run["adapter"].was
    <3>1. /\ Notifying' = T9Arms(new, old)
          /\ Notifying' # <<>> => run'["adapter"].copy = new
      BY <1>1, <1>2, <2>13, NoticeMoves
    <3>2. StatusRead /\ seen.status = old.status
      BY <2>13, ListsDiffer, BeforeRest DEF StatusInv, StatusNotice
    <3>3. PlayComing => PlayComing' BY <2>5, <2>13, ListsDiffer DEF PlayComing
    <3>4. /\ T9Rest(Notifying') /\ (Has(Notifying', "storeRest") <=> RestMoved(new, old))
          /\ new.status # old.status => Pending(Notifying', Psc)
      BY <3>1, Decided
    <3>5. Has(Notifying', "storeRest") => run'["adapter"].copy = new
      BY <3>1, Decided
    <3>6. StatusRead => (run'["adapter"].copy = new => StatusRead')
      BY <2>1, <3>3 DEF StatusRead
    <3>7. StatusNotice' BY <3>2, <3>4, <3>5, <3>6 DEF StatusNotice
    <3>8. StatusComing'
      <4>1. CASE RestMoved(new, old) BY <3>4, <4>1 DEF StatusComing
      <4>2. CASE ~RestMoved(new, old)
        <5>1. new.status = seen.status BY <3>2, <4>2 DEF RestMoved
        <5>2. seen.status = file.status \/ PlayComing BY <3>2, <5>1 DEF StatusRead
        <5> QED BY <2>1, <2>2, <3>3, <5>2 DEF StatusComing
      <4> QED BY <4>1, <4>2
    <3>9. Told => Told'
      <4>1. CASE new.status # old.status BY <3>4, <4>1 DEF Told
      <4>2. CASE new.status = old.status BY <2>2, <2>4, <3>2, <3>5, <4>2 DEF Told
      <4> QED BY <4>1, <4>2
    <3> QED BY <2>2, <2>3, <3>7, <3>8, <3>9 DEF StatusInv
  <2> QED BY <1>2, <2>8, <2>9, <2>10, <2>11, <2>12, <2>13 DEF Undecided
<1>3. CASE T5Rest(Notifying) \/ T9Rest(Notifying)
  <2> DEFINE o == Head(Notifying)
  <2>1. RestMoves(o) BY <1>1, <1>3, RestStep
  <2> HIDE DEF o, r
  <2>2. T5Rest(Notifying) => ~Has(Notifying, "storeRest") /\ (\A e : ~(o.event = Psc))
    <3>1. ASSUME T5Rest(Notifying) PROVE ~Has(Notifying, "storeRest") BY <3>1 DEF T5Rest, Has
    <3>2. ASSUME T5Rest(Notifying) PROVE o.event # Psc
      <4>1. Notifying \in Lists BY <1>1, Sat DEF TypeInv, Handlers, Notifying
      <4>2. Len(Notifying) >= 1 /\ o = Notifying[1] /\ Len(Notifying) \in Nat
        BY <2>1, <4>1, TailElements DEF RestMoves, o
      <4>3. 1 \in 1 .. Len(Notifying) BY SMT, <4>2
      <4> QED BY <3>2, <4>2, <4>3 DEF T5Rest
    <3> QED BY <3>1, <3>2
  <2>3. T5Rest(Notifying') \/ T9Rest(Notifying') BY <1>3, <2>1, Decided DEF RestMoves
  <2>4. Notifying # NotificationPlayStatusChanged /\ Notifying \notin {Loading9, Deciding9}
    BY <1>3, BeforeRest
  <2>5. PlayComing => PlayComing' BY <2>1, <2>4 DEF RestMoves, PlayComing, Queued
  <2>6. Registering(Psc)' <=> Registering(Psc) BY <2>1 DEF RestMoves, Registering, Receiving
  <2>7. Has(Notifying', "storeRest") => run'["adapter"].copy = run["adapter"].copy
    BY <2>1, Decided DEF RestMoves
  <2>8. Has(Notifying', "storeRest") /\ StatusRead => StatusRead'
    BY <2>1, <2>5, <2>7 DEF RestMoves, StatusRead
  <2>9. Has(Notifying, "storeRest") => StatusRead
    BY <1>3, <2>2, BeforeRest DEF StatusInv, StatusNotice
  <2>10. CASE o.op # "storeRest"
    <3>1. Has(Notifying, "storeRest") <=> Has(Notifying', "storeRest") BY <2>1, <2>10 DEF RestMoves
    <3>2. StatusNotice' BY <2>3, <2>8, <2>9, <3>1 DEF StatusNotice
    <3>3. seen'.status = seen.status
      BY <1>1, <2>1, <2>10 DEF RestMoves, Notify, bss, NarrowWrite, Images
    <3>4. StatusComing => StatusComing' BY <2>1, <2>4, <2>5, <3>1, <3>3 DEF RestMoves, StatusComing
    <3>5. CASE o.op = "changed" /\ o.event = Psc
      <4>1. Has(Notifying', "storeRest") BY <1>3, <2>1, <2>2, <3>5 DEF RestMoves
      <4>2. heard'.status = run["adapter"].copy.status BY <2>1, <3>5 DEF RestMoves, Notify
      <4>3. Told' BY <2>7, <4>1, <4>2 DEF Told
      <4>4. StatusComing' BY <4>1 DEF StatusComing
      <4> QED BY <3>2, <4>3, <4>4 DEF StatusInv
    <3>6. CASE ~(o.op = "changed" /\ o.event = Psc)
      <4>1. heard' = heard BY <2>1, <2>10, <3>6 DEF RestMoves, Notify, ct
      <4>2. ASSUME Told, asked[Psc] # 0, ~Registering(Psc) PROVE Told'
        <5>1. db[Psc] # 0 BY <1>1, <4>2, AskedStored DEF Registering
        <5>2. Pending(Notifying, Psc) => Pending(Notifying', Psc) BY <2>1, <3>6, <5>1 DEF RestMoves
        <5> QED BY <2>7, <3>1, <3>3, <4>1, <4>2, <5>2 DEF Told
      <4> QED BY <2>1, <2>6, <3>2, <3>4, <4>1, <4>2 DEF RestMoves, StatusInv
    <3> QED BY <3>5, <3>6
  <2>11. CASE o.op = "storeRest"
    <3>1. /\ seen'.status = run["adapter"].copy.status /\ heard' = heard
          /\ \A e : Pending(Notifying, e) => Pending(Notifying', e)
      BY <1>1, <2>1, <2>11 DEF RestMoves, ct, Images, r
    <3>2. Has(Notifying, "storeRest")
      <4>1. Notifying \in Lists BY <1>1, Sat DEF TypeInv, Handlers, Notifying
      <4>2. Len(Notifying) >= 1 /\ o = Notifying[1] /\ Len(Notifying) \in Nat
        BY <2>1, <4>1, TailElements DEF RestMoves, o
      <4>3. 1 \in 1 .. Len(Notifying) BY SMT, <4>2
      <4> QED BY <2>11, <4>2, <4>3 DEF Has
    <3>3. StatusNotice' BY <2>3, <2>8, <2>9, <3>2 DEF StatusNotice
    <3>4. StatusComing' BY <2>1, <2>5, <2>9, <3>1, <3>2 DEF RestMoves, StatusComing, StatusRead
    <3>5. Told => Told' BY <2>7, <3>1, <3>2 DEF Told
    <3> QED BY <2>1, <2>6, <3>1, <3>3, <3>4, <3>5 DEF RestMoves, StatusInv
  <2> QED BY <2>10, <2>11
<1> QED BY <1>2, <1>3 DEF StatusInv, StatusNotice, Undecided

LEMMA IdleNeitherRegisters == ASSUME NEW e \in Events, Receiving = <<>> PROVE ~Registering(e)
  BY ListsLead, Begun DEF Registering, Leads, Saved

\* Nothing of what StatusInv speaks of has changed, but that broadcasts may have
\* been added, for a new status among others.
LEMMA StatusKept ==
  ASSUME StatusInv, UNCHANGED <<seen, heard, asked, Receiving, Notifying>>,
         run'["adapter"] = run["adapter"], Queued("play") => Queued("play")',
         file'.status # file.status => Queued("play")'
  PROVE  StatusInv'
<1>1. PlayComing => PlayComing' BY DEF PlayComing
<1>2. file'.status = file.status \/ PlayComing' BY DEF PlayComing
<1>3. StatusRead => StatusRead' BY <1>1, <1>2 DEF StatusRead
<1>4. StatusComing => StatusComing' BY <1>1, <1>2 DEF StatusComing
<1>5. StatusNotice' BY <1>3 DEF StatusInv, StatusNotice
<1>6. Registering(Psc)' <=> Registering(Psc) BY DEF Registering
<1>7. Told' <=> Told BY DEF Told
<1> QED BY <1>4, <1>5, <1>6, <1>7 DEF StatusInv

LEMMA StatusInit == Init => StatusInv
<1> SUFFICES ASSUME Init PROVE StatusInv OBVIOUS
<1>1. Notifying = <<>> BY DEF Init, Resting, Threads, Notifying
<1>2. StatusNotice BY <1>1, Decided DEF StatusNotice
<1> QED BY <1>2 DEF Init, NotTold, StatusInv

LEMMA StatusDeliver == ASSUME SessionInv, StatusInv, Deliver PROVE StatusInv'
<1>1. /\ Notifying = <<>> /\ run'["inbound"] = run["inbound"]
      /\ Notifying' \in {NotificationTrackChanged, NotificationPlayStatusChanged}
      /\ Queued("play") => Queued("play")' \/ Notifying' = NotificationPlayStatusChanged
      /\ UNCHANGED <<bss, ct, file>>
  BY Delivered DEF SessionInv
<1>2. UNCHANGED <<seen, heard, asked, Receiving>> BY <1>1 DEF bss, ct, Receiving
<1>3. PlayComing => PlayComing' BY <1>1, ListsDiffer DEF PlayComing
<1>4. StatusNotice' BY <1>1 DEF StatusNotice
<1>5. StatusComing => StatusComing'
  BY <1>1, <1>2, <1>3, ListsDiffer, Decided DEF StatusComing
<1>6. Registering(Psc)' <=> Registering(Psc) BY <1>2 DEF Registering
<1>7. ~Has(Notifying', "storeRest") BY <1>1, BeforeRest
<1>8. Told => Told' BY <1>1, <1>2, <1>7, Decided DEF Told
<1> QED BY <1>2, <1>4, <1>5, <1>6, <1>8 DEF StatusInv

LEMMA StatusCommands ==
  ASSUME SessionInv, StatusInv, Greet \/ Register \/ Fetch \/ Poll PROVE StatusInv'
<1>1. PICK l \in Lists, tid \in 0 .. MaxTid : l # <<>> /\ Command(l, tid)
  <2>1. \A e \in Registrable : e \in Events BY SMT, EventsAssumption DEF Events
  <2> QED BY <2>1, HandlersTyped, Begun DEF Greet, Register, Fetch, Poll
<1>2. /\ Receiving = <<>> /\ Receiving' = l /\ run'["adapter"] = run["adapter"]
      /\ UNCHANGED <<seen, file, inbox>>
  BY <1>1, SessionCommand DEF Command, bss
<1>3. Notifying' = Notifying BY <1>2 DEF Notifying
<1>4. Psc \in Events BY SMT DEF Psc, Events
<1>5. ~Registering(Psc) BY <1>2, <1>4, IdleNeitherRegisters
<1>6. PlayComing' <=> PlayComing BY <1>2, <1>3 DEF PlayComing, Queued
<1>7. StatusRead' <=> StatusRead BY <1>2, <1>6 DEF StatusRead
<1>8. StatusNotice' BY <1>2, <1>3, <1>7 DEF StatusInv, StatusNotice
<1>9. StatusComing' <=> StatusComing BY <1>2, <1>3, <1>6 DEF StatusComing
<1>10. heard' = heard => (Told' <=> Told) BY <1>2, <1>3 DEF Told
<1>11. heard' = heard \/ heard'.how = "none"
  BY DEF Greet, Register, Fetch, Poll, NotTold
<1>12. asked'[Psc] # 0 /\ heard' = heard => asked[Psc] # 0 \/ Registering(Psc)'
  <2>1. CASE Register
    <3>1. PICK e \in Registrable, n \in 0 .. MaxTid :
            /\ Command(RegisterNotification(e), n) /\ asked' = [asked EXCEPT ![e] = n + 1]
      BY <2>1 DEF Register
    <3>2. CASE e = Psc
      <4>1. RegisterNotification(e) \in Lists /\ RegisterNotification(e) # <<>>
        BY <1>4, <3>2, HandlersTyped, Begun
      <4>2. Receiving' = RegisterNotification(e) BY <3>1, <4>1, SessionCommand
      <4> QED BY <3>2, <4>2 DEF Registering
    <3>3. CASE e # Psc
      <4>1. asked \in [Events -> 0 .. MaxTid + 1] BY DEF SessionInv, TypeInv, TypeOK
      <4> QED BY <1>4, <3>1, <3>3, <4>1
    <3> QED BY <3>2, <3>3
  <2>2. CASE Greet BY <1>4, <2>2 DEF Greet, Unsubscribed
  <2>3. CASE Fetch \/ Poll BY <2>3 DEF Fetch, Poll
  <2> QED BY <2>1, <2>2, <2>3
<1> QED BY <1>5, <1>8, <1>9, <1>10, <1>11, <1>12 DEF StatusInv

LEMMA StatusNext == ASSUME SessionInv, StatusInv, [Next]_vars PROVE StatusInv'
<1>1. CASE \E t \in Threads : Step(t) BY <1>1, StatusCommand, StatusAdapter DEF Threads
<1>2. CASE Deliver BY <1>2, StatusDeliver
<1>3. CASE NextTrack \/ NewStatus \/ PlayStateChanged
  <2>1. /\ UNCHANGED <<bss, ct, run>>
        /\ Queued("play") => Queued("play")'
        /\ file'.status # file.status => Queued("play")'
    BY <1>3, Published DEF SessionInv
  <2>2. UNCHANGED <<seen, heard, asked, run, Receiving, Notifying>>
    BY <2>1 DEF bss, ct, Receiving, Notifying
  <2> QED BY <2>1, <2>2, StatusKept
<1>4. CASE Greet \/ Register \/ Fetch \/ Poll BY <1>4, StatusCommands
<1>5. CASE Reconnect
  <2>1. UNCHANGED <<seen, file, inbox, run>> /\ heard' = NotTold
    BY <1>5 DEF Reconnect, Forget, bss
  <2>2. StatusNotice' <=> StatusNotice
    BY <2>1 DEF StatusNotice, StatusRead, PlayComing, Queued, Notifying
  <2> QED BY <2>1, <2>2 DEF StatusInv, NotTold
<1>6. CASE Restart
  <2>1. Notifying' = <<>> /\ heard' = NotTold BY <1>6 DEF Restart, Notifying, Forget, Threads, Resting
  <2>2. StatusNotice' BY <2>1, Decided DEF StatusNotice
  <2> QED BY <2>1, <2>2 DEF StatusInv, NotTold
<1>7. CASE UNCHANGED vars
  <2>1. /\ UNCHANGED <<seen, heard, asked, run, file, Receiving, Notifying>>
        /\ Queued("play") => Queued("play")'
    BY <1>7 DEF vars, bss, ct, Receiving, Notifying, Queued
  <2> QED BY <2>1, StatusKept
<1> QED BY <1>1, <1>2, <1>3, <1>4, <1>5, <1>6, <1>7 DEF Next, Environment

\* At rest, a registered controller whose last word on the play status was a CHANGED
\* of T9 knows the status in the file, however the two threads interleaved: a
\* status that T9 has not told yet is followed by a broadcast that makes it read
\* again.
THEOREM StatusCurrent == Spec => []ChangedStatusIsCurrent
<1>1. Init => SessionInv /\ StatusInv BY SessionInit, StatusInit
<1>2. SessionInv /\ StatusInv /\ [Next]_vars => (SessionInv /\ StatusInv)'
  BY SessionNext, StatusNext
<1>3. SessionInv /\ StatusInv => ChangedStatusIsCurrent
  <2> SUFFICES ASSUME SessionInv, StatusInv, Quiet, asked[Psc] # 0, heard.how = "changed"
               PROVE  heard.status = file.status
    BY DEF ChangedStatusIsCurrent
  <2>1. Receiving = <<>> /\ Notifying = <<>> /\ inbox = <<>>
    BY ZeroTyped DEF Quiet, Idle, Threads, Receiving, Notifying
  <2>2. Psc \in Events BY SMT DEF Psc, Events
  <2>3. Told BY <2>1, <2>2, IdleNeitherRegisters DEF StatusInv
  <2>4. ~Queued("play") BY SMT, <2>1 DEF Queued
  <2>5. ~PlayComing BY <2>1, <2>4, ListsDiffer DEF PlayComing
  <2>6. seen.status = file.status BY <2>1, <2>5, ListsDiffer, Decided DEF StatusInv, StatusComing
  <2> QED BY <2>1, <2>3, <2>6, Decided DEF Told
<1> QED BY <1>1, <1>2, <1>3, PTL DEF Spec

-----------------------------------------------------------------------------
(* What the controller knows of the track.                                 *)

TrackRead == run["adapter"].copy.track # file.track => MetaComing

\* T5 has read a track that is the file's, or will be read again; while nothing
\* races, its edge state is the one it loaded.
TrackNotice ==
  \/ Notifying = NotificationTrackChanged
  \/ Notifying = Loading5 /\ TrackRead
  \/ Notifying = Deciding5 /\ TrackRead /\ (~raced => seen.track = run["adapter"].was.track)
  \/ T5Rest(Notifying) /\ TrackRead
  \/ Notifying \in {NotificationPlayStatusChanged, Loading9, Deciding9} \/ T9Rest(Notifying)

TrackComing == MetaComing \/ seen.track = file.track \/ Notifying \in {Loading5, Deciding5}

\* The controller showing x is right, or will hear of it and ask.
Settled(x) ==
  asked[Track] # 0 /\ ~raced =>
    \/ fetch
    \/ T5Rest(Notifying) /\ Pending(Notifying, Track)
    \/ ~T5Rest(Notifying) /\ x = seen.track /\ TrackComing

\* T4 has read a track that is the file's, or the edge state is to move.
TrackAnswered == ~raced => TrackComing \/ run["inbound"].copy.track = file.track \/ T5Rest(Notifying)

TrackCommand ==
  \/ Receiving \in {<<>>, GetCapabilities, Clearing, GetPlayStatus, Polling, Answering}
       /\ Settled(shown)
  \/ Receiving \in {GetElementAttributes, Reading, Turning, Telling, Marking(Track)}
  \/ Receiving = Loading /\ TrackAnswered
  \/ Receiving = Deciding /\ (Edge("inbound") \/ Settled(run["inbound"].copy.track))
  \/ Receiving = Storing /\ fetch
  \/ Receiving = Attributing /\ Settled(run["inbound"].copy.track)
  \/ \E e \in Events : Registering(e) /\ (e # Track => Settled(shown))

TrackInv == TrackNotice /\ TrackCommand

LEMMA RestsDiffer == ASSUME NEW s \in Lists, T9Rest(s) PROVE ~T5Rest(s)
<1> SUFFICES ASSUME T5Rest(s) PROVE FALSE OBVIOUS
<1>1. s # <<>> BY DEF T5Rest
<1>2. Len(s) \in Nat /\ Len(s) >= 1 BY <1>1, TailElements
<1>3. Len(s) \in 1 .. Len(s) BY SMT, <1>2
<1> QED BY <1>3 DEF T5Rest, T9Rest

\* What a step of the adapter does to what TrackInv speaks of.
TrackMoves ==
  /\ TrackNotice'
  /\ UNCHANGED <<file, inbox, asked, shown, raced>> /\ run'["inbound"] = run["inbound"]
  /\ fetch => fetch'
  /\ ~raced /\ TrackComing /\ ~T5Rest(Notifying) =>
       \/ T5Rest(Notifying') /\ Pending(Notifying', Track)
       \/ ~T5Rest(Notifying') /\ TrackComing' /\ seen'.track = seen.track
  /\ T5Rest(Notifying) /\ Pending(Notifying, Track) /\ db[Track] # 0 =>
       fetch' \/ (T5Rest(Notifying') /\ Pending(Notifying', Track))
  /\ T5Rest(Notifying) => T5Rest(Notifying') \/ TrackComing'

LEMMA NoticeTrack == ASSUME SessionInv, TrackNotice, Undecided, Step("adapter") PROVE TrackMoves
<1>1. TypeInv /\ seen \in Images BY DEF SessionInv, TypeInv, TypeOK
<1>2. /\ UNCHANGED <<bss, ct, raced, file, inbox, overlap>> /\ run'["inbound"] = run["inbound"]
  BY <1>1, NoticeMoves
<1>3. /\ UNCHANGED <<seen, fetch, file, inbox, asked, shown, raced>> BY <1>2 DEF bss, ct
<1>4. Queued("meta")' <=> Queued("meta") BY <1>3 DEF Queued
<1>5. ~T5Rest(Notifying) BY BeforeRest DEF Undecided
<1>6. ASSUME TrackNotice', ~T5Rest(Notifying'), ~raced /\ TrackComing => TrackComing'
      PROVE  TrackMoves
  BY <1>2, <1>3, <1>5, <1>6 DEF TrackMoves
<1>7. CASE Notifying = NotificationTrackChanged
  <2>1. Notifying' = Loading5 /\ run'["adapter"].copy = file BY <1>1, <1>7, NoticeMoves
  <2>2. TrackNotice' BY <1>3, <2>1 DEF TrackNotice, TrackRead
  <2>3. TrackComing' BY <2>1 DEF TrackComing
  <2> QED BY <1>6, <2>1, <2>2, <2>3, BeforeRest
<1>8. CASE Notifying = Loading5
  <2>1. /\ Notifying' = Deciding5 /\ run'["adapter"].copy = run["adapter"].copy
        /\ run'["adapter"].was = seen
    BY <1>1, <1>8, NoticeMoves
  <2>2. TrackRead BY <1>8, ListsDiffer, BeforeRest DEF TrackNotice
  <2>3. TrackRead' BY <1>3, <1>4, <1>8, <2>1, <2>2, ListsDiffer DEF TrackRead, MetaComing
  <2>4. TrackNotice' BY <1>3, <2>1, <2>3 DEF TrackNotice
  <2>5. TrackComing' BY <2>1 DEF TrackComing
  <2> QED BY <1>6, <2>1, <2>4, <2>5, BeforeRest
<1>9. CASE Notifying = Deciding5
  <2> DEFINE new == run["adapter"].copy
  <2>1. /\ Notifying' = IF Edge("adapter") THEN T5OnEdge(new.end) ELSE <<>>
        /\ Notifying' # <<>> => run'["adapter"].copy = new
    BY <1>1, <1>9, NoticeMoves
  <2>2. TrackRead /\ (~raced => seen.track = run["adapter"].was.track)
    BY <1>9, ListsDiffer, BeforeRest DEF TrackNotice
  <2>3. CASE Edge("adapter")
    <3>1. T5Rest(Notifying') /\ Pending(Notifying', Track) BY <2>1, <2>3, Decided
    <3>2. Notifying' # <<>> BY <3>1, Decided
    <3>3. TrackRead' BY <1>3, <1>4, <1>9, <2>1, <2>2, <3>2, ListsDiffer DEF TrackRead, MetaComing
    <3>4. TrackNotice' BY <3>1, <3>3 DEF TrackNotice
    <3> QED BY <1>2, <1>3, <1>5, <3>1, <3>4 DEF TrackMoves
  <2>4. CASE ~Edge("adapter")
    <3>1. Notifying' = <<>> BY <2>1, <2>4
    <3>2. TrackNotice' BY <3>1, Decided DEF TrackNotice
    <3>3. ~raced => TrackComing'
      BY <1>3, <1>4, <1>9, <2>2, <2>4, ListsDiffer DEF TrackRead, MetaComing, TrackComing, Edge
    <3> QED BY <1>6, <3>1, <3>2, <3>3, Decided
  <2> QED BY <2>3, <2>4
<1>10. CASE Notifying \in {NotificationPlayStatusChanged, Loading9, Deciding9}
  <2>1. Notifying' \in {Loading9, Deciding9} \/ T9Rest(Notifying')
    BY <1>1, <1>10, NoticeMoves, Decided
  <2>2. TrackNotice' BY <2>1 DEF TrackNotice
  <2>3. ~T5Rest(Notifying')
    <3>1. TypeInv' BY <1>1, StepTyped DEF Threads
    <3>2. Notifying' \in Lists BY <3>1 DEF TypeInv, Handlers, Notifying, Threads
    <3> QED BY <2>1, <3>2, BeforeRest, RestsDiffer
  <2>4. TrackComing => TrackComing'
    BY <1>3, <1>4, <1>10, ListsDiffer DEF TrackComing, MetaComing
  <2> QED BY <1>6, <2>2, <2>3, <2>4
<1> QED BY <1>7, <1>8, <1>9, <1>10 DEF Undecided

LEMMA RestTrack ==
  ASSUME SessionInv, TrackNotice, T5Rest(Notifying) \/ T9Rest(Notifying), Step("adapter")
  PROVE  TrackMoves
<1> DEFINE o == Head(Notifying)
<1>1. /\ TypeInv /\ TypeInv' /\ Notifying \in Lists /\ Notifying' \in Lists
      /\ run["adapter"].copy \in Images /\ seen \in Images /\ Track \in Events
  <2>1. TypeInv /\ TypeInv' BY StepTyped DEF SessionInv, Threads
  <2>2. Track \in Events BY SMT DEF Track, Events
  <2> QED BY <2>1, <2>2 DEF TypeInv, TypeOK, Handlers, Notifying, Threads
<1>2. RestMoves(o) BY <1>1, RestStep
<1> HIDE DEF o
<1>3. UNCHANGED <<file, inbox, asked>> /\ run'["inbound"] = run["inbound"] BY <1>2 DEF RestMoves
<1>4. /\ UNCHANGED <<raced, shown>>
      /\ fetch => fetch'
      /\ o.op = "changed" /\ o.event = Track => fetch'
      /\ o.op # "storeTrack" => seen'.track = seen.track
      /\ o.op = "storeTrack" => seen'.track = run["adapter"].copy.track
  <2>1. CASE o.op = "changed"
    BY <1>2, <2>1 DEF RestMoves, Notify, Other, bss
  <2>2. CASE o.op \in {"storeTrack", "storeRest"}
    <3>1. UNCHANGED <<raced, ct>> BY <1>2, <2>2 DEF RestMoves
    <3>2. \/ o.op = "storeTrack" /\ seen' = NarrowWrite(run["adapter"].copy, seen)
          \/ /\ o.op = "storeRest"
             /\ seen' = [run["adapter"].copy EXCEPT !.track = seen.track, !.end = seen.end]
      BY <1>2, <2>2 DEF RestMoves
    <3> QED BY <1>1, <2>2, <3>1, <3>2 DEF NarrowWrite, Images, ct
  <2>3. CASE o.op \in {"gate", "restore"}
    BY <1>2, <2>3 DEF RestMoves, bss, ct
  <2> QED BY <1>2, <2>1, <2>2, <2>3 DEF RestMoves
<1>5. /\ Notifying \notin {NotificationTrackChanged, Loading5, Deciding5}
      /\ Notifying \notin {NotificationPlayStatusChanged, Loading9, Deciding9}
  BY BeforeRest
<1>6. Queued("meta")' <=> Queued("meta") BY <1>3 DEF Queued
<1>7. CASE T5Rest(Notifying)
  <2>1. TrackRead BY <1>1, <1>5, <1>7, RestsDiffer DEF TrackNotice
  <2>2. CASE T5Rest(Notifying') /\ o.op # "storeTrack"
    <3>1. run'["adapter"].copy = run["adapter"].copy BY <1>2, <2>2, Decided DEF RestMoves
    <3>2. TrackRead' BY <1>3, <1>5, <1>6, <2>1, <3>1 DEF TrackRead, MetaComing
    <3>3. TrackNotice' BY <2>2, <3>2 DEF TrackNotice
    <3>4. Pending(Notifying, Track) /\ db[Track] # 0 => fetch' \/ Pending(Notifying', Track)
      BY <1>2, <1>4 DEF RestMoves
    <3> QED BY <1>3, <1>4, <1>7, <2>2, <3>3, <3>4 DEF TrackMoves
  <2>3. CASE Notifying' = <<>> /\ o.op = "storeTrack" /\ \A e : ~Pending(Notifying, e)
    <3>1. TrackNotice' BY <2>3, Decided DEF TrackNotice
    <3>2. TrackComing'
      BY <1>3, <1>4, <1>5, <1>6, <2>1, <2>3 DEF TrackRead, MetaComing, TrackComing
    <3> QED BY <1>3, <1>4, <1>7, <2>3, <3>1, <3>2 DEF TrackMoves
  <2> QED BY <1>2, <1>7, <2>2, <2>3 DEF RestMoves
<1>8. CASE T9Rest(Notifying)
  <2>1. T9Rest(Notifying') /\ o.op # "storeTrack" BY <1>2, <1>8 DEF RestMoves
  <2>2. ~T5Rest(Notifying) /\ ~T5Rest(Notifying') BY <1>1, <1>8, <2>1, RestsDiffer
  <2>3. TrackNotice' BY <2>1 DEF TrackNotice
  <2>4. TrackComing => TrackComing'
    BY <1>3, <1>4, <1>5, <1>6, <2>1 DEF TrackComing, MetaComing
  <2> QED BY <1>3, <1>4, <2>1, <2>2, <2>3, <2>4 DEF TrackMoves
<1> QED BY <1>7, <1>8

\* The adapter leaves the receive loop's claims true.
LEMMA TrackAdapter == ASSUME SessionInv, TrackInv, Step("adapter") PROVE TrackInv'
<1>1. TrackMoves
  <2>1. Undecided \/ T5Rest(Notifying) \/ T9Rest(Notifying)
    BY DEF TrackInv, TrackNotice, Undecided
  <2> QED BY <2>1, NoticeTrack, RestTrack DEF TrackInv
<1>2. /\ TrackNotice' /\ UNCHANGED <<file, inbox, asked, shown, raced, Receiving>>
      /\ run'["inbound"] = run["inbound"]
  BY <1>1 DEF TrackMoves, Receiving
<1>3. Track \in Events BY SMT DEF Track, Events
<1>4. asked[Track] # 0 /\ Receiving # RegisterNotification(Track) => db[Track] # 0
  BY <1>3, AskedStored
<1>5. Settled(shown) /\ Receiving # RegisterNotification(Track) => Settled(shown)'
  BY <1>1, <1>2, <1>4 DEF Settled, TrackMoves
<1>6. Settled(run["inbound"].copy.track) /\ Receiving # RegisterNotification(Track)
        => Settled(run["inbound"].copy.track)'
  BY <1>1, <1>2, <1>4 DEF Settled, TrackMoves
<1>7. TrackAnswered => TrackAnswered' BY <1>1, <1>2 DEF TrackAnswered, TrackMoves
<1>8. Edge("inbound")' <=> Edge("inbound") BY <1>2 DEF Edge
<1>9. fetch => fetch' BY <1>1 DEF TrackMoves
<1>10. \A e : Registering(e)' <=> Registering(e) BY <1>2 DEF Registering
<1>11. /\ Head(RegisterNotification(Track)).op = "save"
       /\ Head(RegisterNotification(Track)).event = Track
       /\ RegisterNotification(Track) # <<>>
  <2>1. Leads(RegisterNotification(Track), Op("save", Track), Saved(Track)) BY <1>3, ListsLead
  <2> QED BY <2>1, OpFields DEF Leads
<1>19. ASSUME NEW k, NEW e, NEW l, k # "save", Leads(Receiving, Op(k, e), l)
      PROVE  Receiving # RegisterNotification(Track)
  BY <1>19, <1>11, OpFields DEF Leads
<1>12. CASE Receiving \in {<<>>, GetCapabilities, Clearing, GetPlayStatus, Polling, Answering}
              /\ Settled(shown)
  <2>1. Receiving # RegisterNotification(Track)
    <3>1. Receiving # <<>> =>
            \E k \in {"tid", "clear", "read", "respond"} : \E e, l : Leads(Receiving, Op(k, e), l)
      BY <1>12, ListsLead
    <3> QED BY <1>19, <1>11, <3>1
  <2> QED BY <1>2, <1>5, <1>12, <2>1 DEF TrackInv, TrackCommand
<1>13. CASE Receiving \in {GetElementAttributes, Reading, Turning, Telling, Marking(Track)}
  BY <1>2, <1>13 DEF TrackInv, TrackCommand
<1>14. CASE Receiving = Loading /\ TrackAnswered
  BY <1>2, <1>7, <1>14 DEF TrackInv, TrackCommand
<1>15. CASE Receiving = Deciding /\ (Edge("inbound") \/ Settled(run["inbound"].copy.track))
  <2>1. Receiving # RegisterNotification(Track)
    <3>1. Leads(Receiving, Op("getAttrs", 0), <<>>) BY <1>15, ListsLead
    <3> QED BY <1>19, <3>1
  <2> QED BY <1>2, <1>6, <1>8, <1>15, <2>1 DEF TrackInv, TrackCommand
<1>16. CASE Receiving = Storing /\ fetch
  BY <1>2, <1>9, <1>16 DEF TrackInv, TrackCommand
<1>17. CASE Receiving = Attributing /\ Settled(run["inbound"].copy.track)
  <2>1. Receiving # RegisterNotification(Track)
    <3>1. Leads(Receiving, Op("attributes", 0), <<>>) BY <1>17, ListsLead
    <3> QED BY <1>19, <3>1
  <2> QED BY <1>2, <1>6, <1>17, <2>1 DEF TrackInv, TrackCommand
<1>18. CASE \E e \in Events : Registering(e) /\ (e # Track => Settled(shown))
  <2>1. PICK e \in Events : Registering(e) /\ (e # Track => Settled(shown)) BY <1>18
  <2>2. e # Track => Receiving # RegisterNotification(Track)
    <3>1. \/ Leads(Receiving, Op("save", e), Saved(e))
          \/ Leads(Receiving, Op("read", 0), IF e = Track THEN Marking(e) ELSE Restoring(e))
          \/ Leads(Receiving, Op("restore", e), Interim(e))
          \/ Leads(Receiving, Op("interim", e), <<>>)
      BY <2>1, ListsLead DEF Registering
    <3> QED BY <1>11, <3>1, OpFields DEF Leads
  <2>3. Registering(e)' /\ (e # Track => Settled(shown)') BY <1>5, <1>10, <2>1, <2>2
  <2> QED BY <1>2, <2>3 DEF TrackInv, TrackCommand
<1> QED
  BY <1>12, <1>13, <1>14, <1>15, <1>16, <1>17, <1>18 DEF TrackInv, TrackCommand

\* While T5 is about to decide, or has its store before it, it is midway.
LEMMA WhileMidway == ASSUME TypeInv, Notifying = Deciding5 \/ T5Rest(Notifying) PROVE Midway
<1>1. Notifying = run["adapter"].todo BY DEF Notifying
<1>2. CASE Notifying = Deciding5
  <2>1. Leads(Notifying, Op("T5", 0), <<>>) BY <1>2, ListsLead
  <2>2. Doing("adapter", "T5") BY <1>1, <2>1, OpFields DEF Leads, Doing, Current
  <2> QED BY <2>2 DEF Midway
<1>3. CASE T5Rest(Notifying)
  <2>1. Notifying \in Lists /\ Notifying # <<>>
    BY <1>3 DEF T5Rest, TypeInv, Handlers, Notifying, Threads
  <2>2. Len(Notifying) \in Nat /\ Len(Notifying) >= 1 BY <2>1, TailElements
  <2>3. Len(Notifying) \in 1 .. Len(Notifying) BY SMT, <2>2
  <2>4. Notifying[Len(Notifying)].op = "storeTrack" BY <1>3, <2>3 DEF T5Rest
  <2> QED BY <1>1, <2>1, <2>4 DEF Midway
<1> QED BY <1>2, <1>3

LEMMA TrackCommandSteps == ASSUME SessionInv, TrackInv, Step("inbound") PROVE TrackInv'
<1> DEFINE r == run["inbound"]
<1>1. /\ TypeInv /\ r \in Handlers /\ r.copy \in Images /\ seen \in Images /\ file \in Images
      /\ Track \in Events /\ Receiving = r.todo /\ r.todo # <<>>
  <2>1. Track \in Events BY SMT DEF Track, Events
  <2> QED BY <2>1, Sat, Performs DEF SessionInv, TypeInv, TypeOK, Receiving
<1>2. /\ UNCHANGED <<file, inbox, asked, greeted>>
      /\ Notifying' = Notifying /\ run'["adapter"] = run["adapter"]
  BY CommandHeard
<1>3. /\ raced => raced'
      /\ fetch => fetch'
      /\ seen'.track = seen.track \/ Race("inbound")
  <2>1. CASE Store("inbound")
    <3>1. UNCHANGED ct /\ (Race("inbound") \/ (raced' = raced /\ seen'.track = seen.track))
      BY <1>1, <2>1 DEF Store, Images
    <3>2. raced \in BOOLEAN BY <1>1 DEF TypeInv, TypeOK
    <3> QED BY <3>1, <3>2 DEF Race, ct
  <2>2. CASE Load("inbound")
    <3>1. UNCHANGED <<ct, seen>> /\ Race("inbound") BY <2>2 DEF Load, bss
    <3> QED BY <3>1 DEF Race, ct
  <2>3. CASE Notify("inbound")
    <3>1. raced' = raced /\ seen' = seen /\ (fetch => fetch') BY <2>3 DEF Notify, Other, bss
    <3> QED BY <3>1
  <2>4. CASE ~Store("inbound") /\ ~Load("inbound") /\ ~Notify("inbound")
    <3>1. raced' = raced /\ seen' = seen /\ fetch' = fetch
      BY <2>4 DEF Step, Read, Decide, WriteTid, SaveEventSeqId, ClearEventDatabase,
                  EventSubscribed, RestoreConnTid, Answer, Other, bss, ct
    <3> QED BY <3>1
  <2> QED BY <2>1, <2>2, <2>3, <2>4
<1>4. MetaComing' <=> MetaComing BY <1>2 DEF MetaComing, Queued
<1>5. TrackNotice'
  <2>1. TrackRead' <=> TrackRead BY <1>2, <1>4 DEF TrackRead
  <2>2. Notifying = Deciding5 => seen'.track = seen.track \/ raced'
    BY <1>1, <1>3, WhileMidway DEF Race
  <2> QED BY <1>2, <1>3, <2>1, <2>2 DEF TrackInv, TrackNotice
<1>6. seen'.track = seen.track => (TrackComing' <=> TrackComing) BY <1>2, <1>4 DEF TrackComing
<1>7. seen'.track = seen.track /\ shown' = shown /\ Settled(shown) => Settled(shown)'
  BY <1>2, <1>3, <1>6 DEF Settled
<1>8. ASSUME NEW k, NEW e, NEW l, Leads(r.todo, Op(k, e), l)
      PROVE  /\ k \in {"tid", "clear", "save", "restore", "read", "getAttrs"} =>
                  UNCHANGED <<seen, shown, fetch, raced>>
             /\ k = "respond" => UNCHANGED <<seen, shown, fetch, raced>>
             /\ k \in {"changed", "interim"} => UNCHANGED <<seen, shown>> /\ (e = Track => fetch')
             /\ k \in {"tid", "clear", "save", "restore", "respond", "changed", "interim", "storeTrack"}
                  => Receiving' = l
             /\ k = "read" => Receiving' = l /\ (l # <<>> => run'["inbound"].copy = file)
  <2>1. k \in {"tid", "clear", "save", "restore", "read", "getAttrs"} =>
                  UNCHANGED <<seen, shown, fetch, raced>>
    <3>1. k \in {"tid", "clear", "save", "restore", "read", "getAttrs"} =>
            \/ WriteTid("inbound") \/ ClearEventDatabase("inbound") \/ SaveEventSeqId("inbound")
            \/ RestoreConnTid("inbound") \/ Read("inbound") \/ Decide("inbound")
      BY <1>1, <1>8, Sat, OpStep
    <3> QED BY <3>1 DEF WriteTid, ClearEventDatabase, SaveEventSeqId, RestoreConnTid, Read, Decide,
                        Other, bss, ct
  <2>2. k = "respond" => UNCHANGED <<seen, shown, fetch, raced>>
    <3>1. Current("inbound").op = k /\ (k = "respond" => Answer("inbound"))
      BY <1>1, <1>8, Sat, OpStep
    <3> QED BY <3>1 DEF Answer, Doing, Other, bss
  <2>3. k \in {"changed", "interim"} => UNCHANGED <<seen, shown>> /\ (e = Track => fetch')
    <3>1. Event("inbound") = e /\ (k \in {"changed", "interim"} => Notify("inbound"))
      BY <1>1, <1>8, Sat, OpStep
    <3> QED BY <3>1 DEF Notify, bss
  <2>4. k \in {"tid", "clear", "save", "restore", "respond", "changed", "interim", "storeTrack"} =>
          Receiving' = l
    <3>1. k \in {"tid", "clear", "save", "restore", "respond", "changed", "interim", "storeTrack"} =>
            Goes("inbound", l, r)
      BY <1>1, <1>8, Sat, OpStep
    <3> QED BY <3>1 DEF Goes, Receiving
  <2>5. k = "read" => Receiving' = l /\ (l # <<>> => run'["inbound"].copy = file)
    <3>1. k = "read" => Goes("inbound", l, [r EXCEPT !.copy = file]) BY <1>1, <1>8, Sat, OpStep
    <3> QED BY <1>1, <3>1 DEF Goes, Receiving, Handlers
  <2> QED BY <2>1, <2>2, <2>3, <2>4, <2>5
<1> HIDE DEF r
<1>9. CASE Receiving \in {GetCapabilities, Clearing, GetPlayStatus, Polling, Answering}
             /\ Settled(shown)
  <2>1. PICK k \in {"tid", "clear", "read", "respond"},
             l \in {Clearing, Answering, Polling, <<>>} : \E e : Leads(r.todo, Op(k, e), l)
    BY <1>1, <1>9, ListsLead
  <2>2. Receiving' = l /\ UNCHANGED <<seen, shown>> BY <1>8, <2>1
  <2>3. Settled(shown)' BY <1>7, <1>9, <2>2
  <2> QED BY <1>5, <2>1, <2>2, <2>3 DEF TrackInv, TrackCommand
<1>10. CASE Receiving = GetElementAttributes
  <2>1. Leads(r.todo, Op("tid", 0), Reading) BY <1>1, <1>10, ListsLead
  <2>2. Receiving' = Reading BY <1>8, <2>1
  <2> QED BY <1>5, <2>2 DEF TrackInv, TrackCommand
<1>11. CASE Receiving = Reading
  <2>1. Leads(r.todo, Op("read", 0), Loading) BY <1>1, <1>11, ListsLead
  <2>2. Receiving' = Loading /\ run'["inbound"].copy = file
    BY <1>8, <2>1, ListsNonempty
  <2>3. TrackAnswered' BY <1>2, <2>2 DEF TrackAnswered
  <2> QED BY <1>5, <2>2, <2>3 DEF TrackInv, TrackCommand
<1>12. CASE Receiving = Turning
  <2>1. Leads(r.todo, Op("restore", Track), Telling) BY <1>1, <1>12, ListsLead
  <2>2. Receiving' = Telling BY <1>8, <2>1
  <2> QED BY <1>5, <2>2 DEF TrackInv, TrackCommand
<1>13. CASE Receiving = Telling
  <2>1. Leads(r.todo, Op("changed", Track), Storing) BY <1>1, <1>13, ListsLead
  <2>2. Receiving' = Storing /\ fetch' BY <1>8, <2>1
  <2> QED BY <1>5, <2>2 DEF TrackInv, TrackCommand
<1>14. CASE Receiving = Storing /\ fetch
  <2>1. Leads(r.todo, Op("storeTrack", 0), Attributing) BY <1>1, <1>14, ListsLead
  <2>2. Receiving' = Attributing BY <1>8, <2>1
  <2>3. Settled(run["inbound"].copy.track)' BY <1>3, <1>14 DEF Settled
  <2> QED BY <1>5, <2>2, <2>3 DEF TrackInv, TrackCommand
<1>15. CASE Receiving = Marking(Track)
  <2>1. Leads(r.todo, Op("storeTrack", 0), Restoring(Track)) BY <1>1, <1>15, ListsLead
  <2>2. Receiving' = Restoring(Track) BY <1>8, <2>1
  <2>3. Registering(Track)' BY <2>2 DEF Registering
  <2> QED BY <1>1, <1>5, <2>3 DEF TrackInv, TrackCommand
<1>16. CASE Receiving = Loading /\ TrackAnswered
  <2>1. Leads(r.todo, Op("load", 0), Deciding) BY <1>1, <1>16, ListsLead
  <2>2. Load("inbound") /\ Goes("inbound", Deciding, [r EXCEPT !.was = seen])
    BY <1>1, <2>1, Sat, OpStep DEF r
  <2>3. /\ Receiving' = Deciding /\ run'["inbound"].copy = r.copy /\ run'["inbound"].was = seen
        /\ seen' = seen /\ Race("inbound")
    BY <1>1, <2>2, ListsNonempty DEF Goes, Receiving, Handlers, Load, bss
  <2>4. ASSUME ~Edge("inbound")' PROVE Settled(run["inbound"].copy.track)'
    <3>1. r.copy.track = seen.track BY <2>3, <2>4 DEF Edge
    <3>2. ~raced' => ~raced /\ ~T5Rest(Notifying) BY <1>1, <2>3, WhileMidway DEF Race
    <3>3. ~raced' => TrackComing'
      BY <1>6, <1>16, <2>3, <3>1, <3>2 DEF TrackAnswered, TrackComing, r
    <3> QED BY <1>2, <2>3, <3>1, <3>2, <3>3 DEF Settled
  <2> QED BY <1>5, <2>3, <2>4 DEF TrackInv, TrackCommand
<1>17. CASE Receiving = Deciding /\ (Edge("inbound") \/ Settled(run["inbound"].copy.track))
  <2>1. Leads(r.todo, Op("getAttrs", 0), <<>>) BY <1>1, <1>17, ListsLead
  <2>2. /\ Decision("inbound") \in Lists /\ Current("inbound").op = "getAttrs"
        /\ Goes("inbound", Decision("inbound") \o <<>>, r)
    BY <1>1, <2>1, Sat, OpStep DEF r
  <2>3. Decision("inbound") \o <<>> = Decision("inbound") BY <2>2, Empty DEF Lists
  <2>4. <<>> \o RespondAttrs = RespondAttrs BY DecisionsTyped, Empty DEF Lists
  <2>5. Decision("inbound") = IF Edge("inbound") THEN Turning ELSE Attributing
    BY <2>2, <2>4, Literals DEF Decision, RespondAttrs, Attributing
  <2>6. Receiving' = IF Edge("inbound") THEN Turning ELSE Attributing
    BY <2>2, <2>3, <2>5 DEF Goes, Receiving
  <2>7. run'["inbound"].copy = run["inbound"].copy
    BY <2>2, <2>3, <2>5, ListsNonempty DEF Goes, r
  <2>8. UNCHANGED <<seen, raced, fetch>> BY <1>8, <2>1
  <2>9. Settled(run["inbound"].copy.track) => Settled(run["inbound"].copy.track)'
    BY <1>2, <1>6, <2>7, <2>8 DEF Settled
  <2> QED BY <1>5, <1>17, <2>6, <2>9 DEF TrackInv, TrackCommand
<1>18. CASE Receiving = Attributing /\ Settled(run["inbound"].copy.track)
  <2>1. Leads(r.todo, Op("attributes", 0), <<>>) BY <1>1, <1>18, ListsLead
  <2>2. /\ Answer("inbound") /\ Goes("inbound", <<>>, r) /\ Current("inbound").op = "attributes"
    BY <1>1, <2>1, Sat, OpStep DEF r
  <2>3. Receiving' = <<>> BY <2>2 DEF Goes, Receiving
  <2>4. shown' = run["inbound"].copy.track /\ UNCHANGED <<seen, raced, fetch>>
    BY <2>2 DEF Answer, Doing, Other, bss
  <2>5. Settled(shown)' BY <1>2, <1>6, <1>18, <2>4 DEF Settled
  <2> QED BY <1>5, <2>3, <2>5 DEF TrackInv, TrackCommand
<1>19. ASSUME NEW e \in Events, Registering(e), e # Track => Settled(shown) PROVE TrackInv'
  <2>1. \/ Leads(r.todo, Op("save", e), Saved(e))
        \/ Leads(r.todo, Op("read", 0), IF e = Track THEN Marking(e) ELSE Restoring(e))
        \/ Leads(r.todo, Op("restore", e), Interim(e))
        \/ Leads(r.todo, Op("interim", e), <<>>)
    BY <1>1, <1>19, ListsLead DEF Registering
  <2>2. /\ UNCHANGED <<seen, shown>>
        /\ \/ Receiving' \in {Saved(e), Interim(e)}
           \/ Receiving' = IF e = Track THEN Marking(e) ELSE Restoring(e)
           \/ Receiving' = <<>> /\ (e = Track => fetch')
    BY <1>8, <2>1
  <2>3. e # Track => Settled(shown)' BY <1>7, <1>19, <2>2
  <2>4. CASE Registering(e)' BY <1>5, <2>3, <2>4 DEF TrackInv, TrackCommand
  <2>5. CASE e = Track /\ Receiving' = Marking(Track)
    BY <1>5, <2>5 DEF TrackInv, TrackCommand
  <2>6. CASE Receiving' = <<>> /\ (e = Track => fetch')
    <3>1. Settled(shown)' BY <2>3, <2>6 DEF Settled
    <3> QED BY <1>5, <2>6, <3>1 DEF TrackInv, TrackCommand
  <2> QED BY <2>2, <2>4, <2>5, <2>6 DEF Registering
<1>20. Receiving # <<>> BY <1>1
<1> QED
  BY <1>9, <1>10, <1>11, <1>12, <1>13, <1>14, <1>15, <1>16, <1>17, <1>18, <1>19, <1>20
  DEF TrackInv, TrackCommand

LEMMA IdleSettled == ASSUME TrackInv, Receiving = <<>> PROVE Settled(shown)
<1>1. \A e \in Events : ~Registering(e) BY IdleNeitherRegisters
<1>2. Track \in Events BY SMT DEF Track, Events
<1> QED BY <1>1, <1>2, ListsNonempty DEF TrackInv, TrackCommand

\* Broadcasts may have been added, for a new track among others, and the adapter
\* may have begun with one.
LEMMA TrackKept ==
  ASSUME TrackInv, UNCHANGED <<seen, raced, fetch, asked, shown, Receiving>>,
         run'["inbound"] = run["inbound"],
         TrackNotice', T5Rest(Notifying') <=> T5Rest(Notifying),
         T5Rest(Notifying) => Notifying' = Notifying,
         TrackComing => TrackComing', file'.track # file.track => TrackComing'
  PROVE  TrackInv'
<1>1. Settled(shown) => Settled(shown)' BY DEF Settled
<1>2. Settled(run["inbound"].copy.track) => Settled(run["inbound"].copy.track)' BY DEF Settled
<1>3. TrackAnswered => TrackAnswered' BY DEF TrackAnswered
<1>4. Edge("inbound")' <=> Edge("inbound") BY DEF Edge
<1>5. \A e : Registering(e)' <=> Registering(e) BY DEF Registering
<1> QED BY <1>1, <1>2, <1>3, <1>4, <1>5 DEF TrackInv, TrackCommand

LEMMA TrackPublished ==
  ASSUME TrackInv, UNCHANGED <<seen, raced, fetch, asked, shown, run>>,
         Queued("meta") => Queued("meta")', file'.track # file.track => Queued("meta")'
  PROVE  TrackInv'
<1>1. UNCHANGED <<Receiving, Notifying>> BY DEF Receiving, Notifying
<1>2. MetaComing => MetaComing' BY <1>1 DEF MetaComing
<1>3. file'.track = file.track \/ MetaComing' BY DEF MetaComing
<1>4. TrackRead => TrackRead' BY <1>2, <1>3 DEF TrackRead
<1>5. TrackNotice' BY <1>1, <1>4 DEF TrackInv, TrackNotice
<1>6. TrackComing => TrackComing' BY <1>1, <1>2, <1>3 DEF TrackComing
<1>7. file'.track # file.track => TrackComing' BY <1>3 DEF TrackComing
<1> QED BY <1>1, <1>5, <1>6, <1>7, TrackKept

LEMMA TrackDeliver == ASSUME SessionInv, TrackInv, Deliver PROVE TrackInv'
<1>1. /\ Notifying = <<>> /\ run'["inbound"] = run["inbound"]
      /\ Notifying' \in {NotificationTrackChanged, NotificationPlayStatusChanged}
      /\ Queued("meta") => Queued("meta")' \/ Notifying' = NotificationTrackChanged
      /\ UNCHANGED <<bss, ct, raced, file>>
  BY Delivered DEF SessionInv
<1>2. UNCHANGED <<seen, raced, fetch, asked, shown, Receiving>> BY <1>1 DEF bss, ct, Receiving
<1>3. TrackNotice' BY <1>1 DEF TrackNotice
<1>4. ~T5Rest(Notifying) /\ ~T5Rest(Notifying') BY <1>1, Decided, BeforeRest
<1>5. TrackComing => TrackComing' BY <1>1, <1>2, ListsDiffer DEF TrackComing, MetaComing
<1> QED BY <1>1, <1>2, <1>3, <1>4, <1>5, TrackKept

LEMMA TrackCommands == ASSUME SessionInv, TrackInv, Greet \/ Register \/ Fetch \/ Poll PROVE TrackInv'
<1>1. PICK l \in Lists, tid \in 0 .. MaxTid : l # <<>> /\ Command(l, tid)
  <2>1. \A e \in Registrable : e \in Events BY SMT, EventsAssumption DEF Events
  <2> QED BY <2>1, HandlersTyped, Begun DEF Greet, Register, Fetch, Poll
<1>2. /\ Receiving = <<>> /\ run'["adapter"] = run["adapter"]
      /\ UNCHANGED <<seen, file, inbox, raced, shown>>
  BY <1>1, SessionCommand DEF Command, bss, threading
<1>3. Notifying' = Notifying BY <1>2 DEF Notifying
<1>4. MetaComing' <=> MetaComing BY <1>2, <1>3 DEF MetaComing, Queued
<1>5. TrackRead' <=> TrackRead BY <1>2, <1>4 DEF TrackRead
<1>6. TrackNotice' BY <1>2, <1>3, <1>5 DEF TrackInv, TrackNotice
<1>7. TrackComing' <=> TrackComing BY <1>2, <1>3, <1>4 DEF TrackComing
<1>8. Settled(shown) BY <1>2, IdleSettled
<1>9. asked'[Track] = asked[Track] /\ fetch' = fetch => Settled(shown)'
  BY <1>2, <1>3, <1>7, <1>8 DEF Settled
<1>10. Track \in Events BY SMT DEF Track, Events
<1>11. CASE Greet
  <2>1. PICK n \in 0 .. MaxTid : Command(GetCapabilities, n) BY <1>11 DEF Greet
  <2>2. Receiving' = GetCapabilities BY <2>1, SessionCommand, HandlersTyped, Begun
  <2>3. asked'[Track] = 0 BY <1>10, <1>11 DEF Greet, Unsubscribed
  <2>4. Settled(shown)' BY <2>3 DEF Settled
  <2> QED BY <1>6, <2>2, <2>4 DEF TrackInv, TrackCommand
<1>12. CASE Register
  <2>1. PICK e \in Registrable, n \in 0 .. MaxTid :
          /\ Command(RegisterNotification(e), n)
          /\ asked' = [asked EXCEPT ![e] = n + 1] /\ fetch' = fetch
    BY <1>12 DEF Register
  <2>2. e \in Events BY SMT, EventsAssumption DEF Events
  <2>3. Receiving' = RegisterNotification(e) BY <2>1, <2>2, SessionCommand, HandlersTyped, Begun
  <2>4. asked \in [Events -> 0 .. MaxTid + 1] BY DEF SessionInv, TypeInv, TypeOK
  <2>5. e # Track => asked'[Track] = asked[Track] BY <1>10, <2>1, <2>4
  <2>6. e # Track => Settled(shown)' BY <1>9, <2>1, <2>5
  <2>7. Registering(e)' BY <2>3 DEF Registering
  <2> QED BY <1>6, <2>2, <2>6, <2>7 DEF TrackInv, TrackCommand
<1>13. CASE Fetch
  <2>1. PICK n \in 0 .. MaxTid : Command(GetElementAttributes, n) BY <1>13 DEF Fetch
  <2>2. Receiving' = GetElementAttributes BY <2>1, SessionCommand, HandlersTyped, Begun
  <2> QED BY <1>6, <2>2 DEF TrackInv, TrackCommand
<1>14. CASE Poll
  <2>1. PICK n \in 0 .. MaxTid : Command(GetPlayStatus, n) /\ UNCHANGED <<asked, fetch>>
    BY <1>14 DEF Poll
  <2>2. Receiving' = GetPlayStatus BY <2>1, SessionCommand, HandlersTyped, Begun
  <2>3. Settled(shown)' BY <1>9, <2>1
  <2> QED BY <1>6, <2>2, <2>3 DEF TrackInv, TrackCommand
<1> QED BY <1>11, <1>12, <1>13, <1>14

LEMMA TrackInit == Init => TrackInv
<1> SUFFICES ASSUME Init PROVE TrackInv OBVIOUS
<1>1. Notifying = <<>> /\ Receiving = <<>>
  BY DEF Init, Resting, Threads, Notifying, Receiving
<1>2. TrackNotice BY <1>1, Decided DEF TrackNotice
<1>3. Track \in Events BY SMT DEF Track, Events
<1>4. Settled(shown) BY <1>3 DEF Init, Unsubscribed, Settled
<1> QED BY <1>1, <1>2, <1>4 DEF TrackInv, TrackCommand

LEMMA TrackNext == ASSUME SessionInv, TrackInv, [Next]_vars PROVE TrackInv'
<1>1. CASE \E t \in Threads : Step(t) BY <1>1, TrackCommandSteps, TrackAdapter DEF Threads
<1>2. CASE Deliver BY <1>2, TrackDeliver
<1>3. CASE NextTrack \/ NewStatus \/ PlayStateChanged
  <2>1. /\ UNCHANGED <<bss, ct, run, raced>>
        /\ Queued("meta") => Queued("meta")'
        /\ file'.track # file.track => Queued("meta")'
    BY <1>3, Published DEF SessionInv
  <2>2. UNCHANGED <<seen, raced, fetch, asked, shown, run>> BY <2>1 DEF bss, ct
  <2> QED BY <2>1, <2>2, TrackPublished
<1>4. CASE Greet \/ Register \/ Fetch \/ Poll BY <1>4, TrackCommands
<1>5. Track \in Events BY SMT DEF Track, Events
<1>6. CASE Reconnect
  <2>1. UNCHANGED <<seen, file, inbox, run, raced>> /\ asked' = Unsubscribed /\ Receiving = <<>>
    BY <1>6, ZeroTyped DEF Reconnect, Forget, bss, threading, Idle, Receiving
  <2>2. Receiving' = <<>> BY <2>1 DEF Receiving
  <2>3. TrackNotice' <=> TrackNotice
    BY <2>1 DEF TrackNotice, TrackRead, MetaComing, Queued, Notifying
  <2>4. Settled(shown)' BY <1>5, <2>1 DEF Settled, Unsubscribed
  <2> QED BY <2>2, <2>3, <2>4 DEF TrackInv, TrackCommand
<1>7. CASE Restart
  <2>1. Notifying' = <<>> /\ Receiving' = <<>> /\ asked' = Unsubscribed
    BY <1>7 DEF Restart, Notifying, Receiving, Forget, Threads, Resting
  <2>2. TrackNotice' BY <2>1, Decided DEF TrackNotice
  <2>3. Settled(shown)' BY <1>5, <2>1 DEF Settled, Unsubscribed
  <2> QED BY <2>1, <2>2, <2>3 DEF TrackInv, TrackCommand
<1>8. CASE UNCHANGED vars
  <2>1. UNCHANGED <<seen, raced, fetch, asked, shown, run, file, inbox>>
    BY <1>8 DEF vars, bss, ct, threading
  <2>2. Queued("meta") => Queued("meta")' BY <2>1 DEF Queued
  <2> QED BY <2>1, <2>2, TrackPublished
<1> QED BY <1>1, <1>2, <1>3, <1>4, <1>6, <1>7, <1>8 DEF Next, Environment

\* At rest, a controller registered for TRACK_CHANGED shows the track in the file,
\* unless the receive loop worked on the edge state while T5 was midway: T4 and
\* extended_T2 use up an edge of T5 only together with an answer that tells it.
THEOREM MetadataCurrent == Spec => []MetadataConverges
<1>1. Init => SessionInv /\ TrackInv BY SessionInit, TrackInit
<1>2. SessionInv /\ TrackInv /\ [Next]_vars => (SessionInv /\ TrackInv)'
  BY SessionNext, TrackNext
<1>3. SessionInv /\ TrackInv => MetadataConverges
  <2> SUFFICES ASSUME SessionInv, TrackInv, Quiet, asked[Track] # 0, ~raced
               PROVE  shown = file.track
    BY DEF MetadataConverges
  <2>1. Receiving = <<>> /\ Notifying = <<>> /\ inbox = <<>> /\ ~fetch
    BY ZeroTyped DEF Quiet, Idle, Threads, Receiving, Notifying
  <2>2. Settled(shown) BY <2>1, IdleSettled
  <2>3. shown = seen.track /\ TrackComing BY <2>1, <2>2, Decided DEF Settled
  <2>4. ~Queued("meta") BY SMT, <2>1 DEF Queued
  <2>5. ~MetaComing BY <2>1, <2>4, ListsDiffer DEF MetaComing
  <2> QED BY <2>1, <2>3, <2>5, ListsDiffer DEF TrackComing
<1> QED BY <1>1, <1>2, <1>3, PTL DEF Spec
=============================================================================
