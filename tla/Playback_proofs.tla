---------------------------- MODULE Playback_proofs ----------------------------
(***************************************************************************)
(* Theorems about Playback, for any tracks and any length of its windows   *)
(* and periods.  What a thread has still to do is a list of operations; a  *)
(* small automaton reads such lists, and its mode before the first         *)
(* operation says how far the thread's methods have got: inside the        *)
(* monitor or not, before or after a flush, on the way to stop the ticker. *)
(* The invariant gives each thread a mode from which its list leads to the *)
(* end, and says what the shared variables are in terms of the modes.      *)
(***************************************************************************)
EXTENDS Playback, SequenceTheorems, TLAPS

-----------------------------------------------------------------------------
(* The points of the methods.                                              *)

\* In a toRestart that has set the new data source and not prepared it yet.
Early == {"sourced", "earlyHeld", "earlyLatched", "cleared", "earlyFlushed",
          "announcing", "announced"}
\* In the gate of wakePlayStateChanged, and the same within a pulse.
Gating == {"sampling", "sampled", "passing", "stamped", "loaded", "marked"}
PulseGating == {"psampling", "psampled", "ppassing", "pstamped", "ploaded", "pmarked"}
\* In phase 1 of a pulse, until phase 2 is queued.
Pulsing == {"pulsing", "pset", "pshown", "posting"} \cup PulseGating
\* Inside the monitor.
Holding == {"held", "set", "shown", "sought", "latched", "ended", "earlyHeld",
            "earlyLatched", "cleared", "earlyFlushed"} \cup Pulsing
Ats == {"free", "waking", "telling", "argument"} \cup Gating \cup Holding \cup Early

\* What the call in progress is still to do to the ticker and to the engine:
\* pass a play value on ("value", and before a new data source "turning"), set
\* the status to playing (and start the ticker), start it, stop it after a
\* pause (and before a new data source), stop it after a completion, or set
\* the data source.
Ends == {"none", "value", "turning", "play", "playStart", "start", "stop", "turn",
         "halt", "source"}

Modes == [at : Ats, ends : Ends]
Mode(a, e) == [at |-> a, ends |-> e]
Done == Mode("free", "none")

Ops == {"lock", "unlock", "flush", "playing", "stopped", "paused", "edge", "edgeOrEnd",
        "remember", "latch", "reset", "seek", "completion", "error", "pulse", "gate",
        "sample", "compare", "stamp", "load", "mark", "playstate", "post", "meta",
        "unlimited", "pauseGuard", "start", "stop", "source", "restore", "prepared",
        "report", "prepare"}

\* Operation o takes a method from point p to point q.
Goes(p, o, q) ==
  \/ o = "lock" /\ \/ p = "free" /\ q = "held"
                   \/ p = "sourced" /\ q = "earlyHeld"
  \/ o = "unlock" /\ \/ p \in {"held", "sought"} /\ q = "free"
                     \/ p = "shown" /\ q = "waking"
                     \/ p = "ended" /\ q = "telling"
                     \/ p = "earlyFlushed" /\ q = "announcing"
  \/ o = "flush" /\ \/ p = "set" /\ q = "shown"
                    \/ p = "pset" /\ q = "pshown"
                    \/ p = "latched" /\ q = "ended"
                    \/ p = "cleared" /\ q = "earlyFlushed"
                    \/ p \in {"held", "shown", "pshown", "ended"} /\ q = p
  \/ o \in Statuses /\ \/ p = "argument" /\ q = "free"
                       \/ p = "held" /\ q = "shown"
                       \/ o = "paused" /\ p = "pulsing" /\ q = "pshown"
  \/ o = "edge" /\ p \in {"shown", "pshown"} /\ q = p
  \/ o = "edgeOrEnd" /\ p = "ended" /\ q = p
  \/ o = "remember" /\ p = "latched" /\ q = p
  \/ o = "latch" /\ \/ p = "held" /\ q = "latched"
                    \/ p = "earlyHeld" /\ q = "earlyLatched"
  \/ o = "reset" /\ p = "earlyLatched" /\ q = "cleared"
  \/ o = "seek" /\ p = "held" /\ q = "sought"
  \/ o \in {"completion", "error", "pulse"} /\ p = "held" /\ q = p
  \/ o = "gate" /\ \/ p \in {"free", "waking"} /\ q = "free"
                   \/ p = "pshown" /\ q = "posting"
  \/ o = "sample" /\ \/ p = "sampling" /\ q = "sampled"
                     \/ p = "psampling" /\ q = "psampled"
  \/ o = "compare" /\ \/ p = "sampled" /\ q = "free"
                      \/ p = "psampled" /\ q = "posting"
  \/ o = "stamp" /\ \/ p = "passing" /\ q = "stamped"
                    \/ p = "ppassing" /\ q = "pstamped"
  \/ o = "load" /\ \/ p = "stamped" /\ q = "loaded"
                   \/ p = "pstamped" /\ q = "ploaded"
  \/ o = "mark" /\ \/ p = "loaded" /\ q = "marked"
                   \/ p = "ploaded" /\ q = "pmarked"
  \/ o = "playstate" /\ \/ p \in {"marked", "free"} /\ q = "free"
                        \/ p = "pmarked" /\ q = "posting"
  \/ o = "post" /\ p = "posting" /\ q = "held"
  \/ o = "meta" /\ \/ p \in {"free", "telling"} /\ q = "free"
                   \/ p = "announcing" /\ q = "announced"
  \/ /\ o \in {"unlimited", "pauseGuard", "start", "stop", "source", "restore", "prepared"}
     /\ p = "free" /\ q = p
  \/ o = "report" /\ p = "free" /\ q = "argument"
  \/ o = "prepare" /\ p = "announced" /\ q = "free"

\* Operation o, at point a, takes what is left to do from e to f.
Leaves(a, e, o, f) ==
  \/ o = "start" /\ e = "start" /\ f = "none"
  \/ o = "stop" /\ \/ e \in {"stop", "halt"} /\ f = "none"
                   \/ e = "turn" /\ f = "source"
  \/ o = "source" /\ e = "source" /\ f = "none"
  \/ o = "pauseGuard" /\ \/ e = "value" /\ f = "none"
                         \/ e = "turning" /\ f = "source"
  \/ o = "report" /\ e = "value" /\ f = "none"
  \/ o = "playing" /\ a # "argument" /\ \/ e = "play" /\ f = "none"
                                        \/ e = "playStart" /\ f = "start"
  \/ o \in {"paused", "stopped"} /\ a = "held" /\ e \in {"stop", "turn"} /\ f = e
  \/ /\ o \notin {"start", "stop", "source", "pauseGuard", "report"}
     /\ o \in Statuses => a = "argument" \/ (o = "paused" /\ a = "pulsing")
     /\ f = e

Move(p, o, q) == Goes(p.at, o, q.at) /\ Leaves(p.at, p.ends, o, q.ends)

\* The operations of s, one after the other, lead from p to q.
Via(s, p, q) ==
  \E d \in [1 .. Len(s) + 1 -> Modes] :
    /\ d[1] = p /\ d[Len(s) + 1] = q
    /\ \A i \in 1 .. Len(s) : Move(d[i], s[i], d[i + 1])

-----------------------------------------------------------------------------
(* Paths.                                                                  *)

LEMMA ViaNone == ASSUME NEW p \in Modes PROVE Via(<<>>, p, p)
<1> DEFINE d == [i \in 1 .. Len(<<>>) + 1 |-> p]
<1>1. d \in [1 .. Len(<<>>) + 1 -> Modes] OBVIOUS
<1>2. Len(<<>>) = 0 BY SMT
<1>3. d[1] = p /\ d[Len(<<>>) + 1] = p BY <1>2, SMT
<1>4. 1 .. Len(<<>>) = {} BY <1>2, SMT
<1> HIDE DEF d
<1> QED BY <1>1, <1>3, <1>4 DEF Via

LEMMA ViaNoneOnly == ASSUME NEW p, NEW q, Via(<<>>, p, q) PROVE p = q
<1>1. Len(<<>>) + 1 = 1 BY SMT
<1> QED BY <1>1 DEF Via

LEMMA ViaOne ==
  ASSUME NEW o, NEW p \in Modes, NEW q \in Modes, Move(p, o, q)
  PROVE  Via(<<o>>, p, q)
<1> DEFINE d == [i \in 1 .. 2 |-> IF i = 1 THEN p ELSE q]
<1>1. Len(<<o>>) = 1 /\ <<o>>[1] = o BY SMT
<1>2. Len(<<o>>) + 1 = 2 BY <1>1, SMT
<1>3. d \in [1 .. Len(<<o>>) + 1 -> Modes] BY <1>2
<1>4. d[1] = p /\ d[2] = q BY SMT
<1> HIDE DEF d
<1>5. \A i \in 1 .. Len(<<o>>) : i = 1 /\ i + 1 = 2 BY <1>1, SMT
<1>6. d[Len(<<o>>) + 1] = q BY <1>2, <1>4
<1>7. \A i \in 1 .. Len(<<o>>) : Move(d[i], <<o>>[i], d[i + 1]) BY <1>1, <1>4, <1>5
<1> QED BY <1>3, <1>4, <1>6, <1>7 DEF Via

LEMMA ViaConcat ==
  ASSUME NEW s \in Seq(Ops), NEW u \in Seq(Ops), NEW p, NEW q, NEW r,
         Via(s, p, q), Via(u, q, r)
  PROVE  Via(s \o u, p, r)
<1> DEFINE k == Len(s)  l == Len(u)
<1>1. PICK d \in [1 .. k + 1 -> Modes] :
        d[1] = p /\ d[k + 1] = q /\ \A i \in 1 .. k : Move(d[i], s[i], d[i + 1])
  BY DEF Via
<1>2. PICK e \in [1 .. l + 1 -> Modes] :
        e[1] = q /\ e[l + 1] = r /\ \A i \in 1 .. l : Move(e[i], u[i], e[i + 1])
  BY DEF Via
<1>3. k \in Nat /\ l \in Nat BY SMT
<1>4. Len(s \o u) = k + l BY SMT
<1>5. /\ \A i \in 1 .. k : (s \o u)[i] = s[i]
      /\ \A i \in k + 1 .. k + l : (s \o u)[i] = u[i - k]
  BY SMT
<1> HIDE DEF k, l
<1> DEFINE f == [i \in 1 .. k + l + 1 |-> IF i <= k THEN d[i] ELSE e[i - k]]
<1>6. \A i \in 1 .. k + l + 1 : f[i] = IF i <= k THEN d[i] ELSE e[i - k] OBVIOUS
<1>7. f \in [1 .. k + l + 1 -> Modes]
  <2>1. ASSUME NEW i \in 1 .. k + l + 1 PROVE (IF i <= k THEN d[i] ELSE e[i - k]) \in Modes
    BY <1>3, SMT
  <2> QED BY <2>1
<1> HIDE DEF f
<1>8. f[1] = p
  <2>1. CASE k = 0 BY <2>1, <1>1, <1>2, <1>3, <1>6, SMT
  <2>2. CASE k > 0 BY <2>2, <1>1, <1>3, <1>6, SMT
  <2> QED BY <2>1, <2>2, <1>3, SMT
<1>9. f[k + l + 1] = r BY <1>2, <1>3, <1>6, SMT
<1>10. ASSUME NEW i \in 1 .. k + l PROVE Move(f[i], (s \o u)[i], f[i + 1])
  <2>0. i \in 1 .. k + l + 1 /\ i + 1 \in 1 .. k + l + 1 BY <1>3, SMT
  <2>1. CASE i < k
    <3>0. i <= k /\ i + 1 <= k BY <2>1, <1>3, SMT
    <3>1. f[i] = d[i] /\ f[i + 1] = d[i + 1] BY <2>0, <3>0, <1>6
    <3>2. i \in 1 .. k BY <2>1, <1>3, SMT
    <3> QED BY <3>1, <3>2, <1>1, <1>5
  <2>2. CASE i = k
    <3>0. i <= k /\ ~(i + 1 <= k) /\ (i + 1) - k = 1 BY <2>2, <1>3, SMT
    <3>1. f[i] = d[i] /\ f[i + 1] = e[1] BY <2>0, <3>0, <1>6
    <3>2. i \in 1 .. k BY <2>2, <1>3, SMT
    <3>3. f[i + 1] = d[i + 1] BY <3>1, <2>2, <1>1, <1>2
    <3> QED BY <3>1, <3>2, <3>3, <1>1, <1>5
  <2>3. CASE i > k
    <3>0. ~(i <= k) /\ ~(i + 1 <= k) /\ (i + 1) - k = (i - k) + 1 BY <2>3, <1>3, SMT
    <3>1. f[i] = e[i - k] /\ f[i + 1] = e[(i - k) + 1] BY <2>0, <3>0, <1>6
    <3>2. i - k \in 1 .. l /\ i \in k + 1 .. k + l BY <2>3, <1>3, SMT
    <3>3. (s \o u)[i] = u[i - k] BY <3>2, <1>5
    <3>4. Move(e[i - k], u[i - k], e[(i - k) + 1]) BY <3>2, <1>2
    <3> QED BY <3>1, <3>3, <3>4
  <2>4. i < k \/ i = k \/ i > k BY <1>3, SMT
  <2> QED BY <2>1, <2>2, <2>3, <2>4
<1> QED BY <1>4, <1>7, <1>8, <1>9, <1>10 DEF Via

LEMMA ViaTail ==
  ASSUME NEW s \in Seq(Ops), NEW p, NEW q, s # <<>>, Via(s, p, q)
  PROVE  /\ Head(s) \in Ops /\ Tail(s) \in Seq(Ops)
         /\ \E r \in Modes : Move(p, Head(s), r) /\ Via(Tail(s), r, q)
<1>1. PICK d \in [1 .. Len(s) + 1 -> Modes] :
        d[1] = p /\ d[Len(s) + 1] = q /\ \A i \in 1 .. Len(s) : Move(d[i], s[i], d[i + 1])
  BY DEF Via
<1> DEFINE k == Len(s) - 1
<1>2. /\ k \in Nat /\ Len(s) = k + 1 /\ Len(Tail(s)) = k /\ Head(s) = s[1]
      /\ Head(s) \in Ops /\ Tail(s) \in Seq(Ops)
  BY SMT
<1>3. \A i \in 1 .. k : Tail(s)[i] = s[i + 1] BY SMT
<1> HIDE DEF k
<1> DEFINE e == [i \in 1 .. k + 1 |-> d[i + 1]]
<1>4. \A i \in 1 .. k + 1 : i + 1 \in 1 .. Len(s) + 1 BY <1>2, SMT
<1>5. e \in [1 .. k + 1 -> Modes] BY <1>4
<1>6. \A i \in 1 .. k + 1 : e[i] = d[i + 1] OBVIOUS
<1> HIDE DEF e
<1>7. 1 \in 1 .. k + 1 /\ k + 1 \in 1 .. k + 1 /\ 1 \in 1 .. Len(s) BY <1>2, SMT
<1>8. e[1] = d[2] /\ e[k + 1] = q
  <2>1. e[1] = d[1 + 1] /\ e[k + 1] = d[(k + 1) + 1] BY <1>6, <1>7
  <2> QED BY <2>1, <1>1, <1>2, SMT
<1>9. ASSUME NEW i \in 1 .. k PROVE Move(e[i], Tail(s)[i], e[i + 1])
  <2>1. i \in 1 .. k + 1 /\ i + 1 \in 1 .. k + 1 /\ i + 1 \in 1 .. Len(s) BY <1>2, SMT
  <2>2. e[i] = d[i + 1] /\ e[i + 1] = d[(i + 1) + 1] BY <2>1, <1>6
  <2> QED BY <2>1, <2>2, <1>1, <1>3
<1>10. Via(Tail(s), d[2], q) BY <1>2, <1>5, <1>8, <1>9 DEF Via
<1>11. Move(p, Head(s), d[1 + 1]) BY <1>1, <1>2, <1>7
<1>12. d[2] \in Modes BY <1>2, SMT
<1>13. 1 + 1 = 2 BY SMT
<1> QED BY <1>2, <1>10, <1>11, <1>12, <1>13

LEMMA Pair == ASSUME NEW x, NEW y PROVE <<x>> \o <<y>> = <<x, y>>
<1> DEFINE S == {x, y}
<1>1. <<x>> \o <<y>> \in Seq(S) /\ <<x, y>> \in Seq(S) BY SMT
<1>2. Len(<<x>> \o <<y>>) = 2 /\ Len(<<x, y>>) = 2 BY SMT
<1>3. \A i \in 1 .. 2 : (<<x>> \o <<y>>)[i] = <<x, y>>[i] BY SMT
<1> HIDE DEF S
<1> QED BY <1>1, <1>2, <1>3, SeqEqual

LEMMA Triple == ASSUME NEW x, NEW y, NEW z PROVE <<x, y>> \o <<z>> = <<x, y, z>>
<1> DEFINE S == {x, y, z}  l == <<x, y>> \o <<z>>  f == <<x, y, z>>
<1>1. l \in Seq(S) /\ f \in Seq(S) BY SMT
<1>2. Len(l) = 3 /\ Len(f) = 3 BY SMT
<1>3. \A i \in 1 .. 3 : l[i] = f[i] BY SMT
<1> HIDE DEF S, l, f
<1>4. l = f BY <1>1, <1>2, <1>3, SeqEqual
<1> QED BY <1>4 DEF l, f

LEMMA Quadruple ==
  ASSUME NEW w, NEW x, NEW y, NEW z PROVE <<w, x, y>> \o <<z>> = <<w, x, y, z>>
<1> DEFINE S == {w, x, y, z}  l == <<w, x, y>> \o <<z>>  f == <<w, x, y, z>>
<1>1. l \in Seq(S) /\ f \in Seq(S) BY SMT
<1>2. Len(l) = 4 /\ Len(f) = 4 BY SMT
<1>3. \A i \in 1 .. 4 : l[i] = f[i] BY SMT
<1> HIDE DEF S, l, f
<1>4. l = f BY <1>1, <1>2, <1>3, SeqEqual
<1> QED BY <1>4 DEF l, f

\* A method whose operations are known, from mode p to mode q.
Leads(s, p, q) == s \in Seq(Ops) /\ p \in Modes /\ q \in Modes /\ Via(s, p, q)

LEMMA LeadsOne ==
  ASSUME NEW o \in Ops, NEW a \in Ats, NEW b \in Ats, NEW e \in Ends, NEW f \in Ends,
         Goes(a, o, b), Leaves(a, e, o, f)
  PROVE  Leads(<<o>>, Mode(a, e), Mode(b, f))
<1>1. Mode(a, e) \in Modes /\ Mode(b, f) \in Modes BY DEF Modes, Mode
<1>2. Move(Mode(a, e), o, Mode(b, f)) BY DEF Move, Mode
<1>3. <<o>> \in Seq(Ops) BY SMT
<1> QED BY <1>1, <1>2, <1>3, ViaOne DEF Leads

LEMMA LeadsConcat ==
  ASSUME NEW s, NEW u, NEW p, NEW q, NEW r, Leads(s, p, q), Leads(u, q, r)
  PROVE  Leads(s \o u, p, r)
<1>1. s \in Seq(Ops) /\ u \in Seq(Ops) /\ Via(s, p, q) /\ Via(u, q, r) BY DEF Leads
<1>2. s \o u \in Seq(Ops) BY <1>1, SMT
<1> QED BY <1>1, <1>2, ViaConcat DEF Leads

LEMMA LeadsTwo ==
  ASSUME NEW x, NEW y, NEW p, NEW q, NEW r, Leads(<<x>>, p, q), Leads(<<y>>, q, r)
  PROVE  Leads(<<x, y>>, p, r)
  BY LeadsConcat, Pair

LEMMA LeadsThree ==
  ASSUME NEW x, NEW y, NEW z, NEW p, NEW q, NEW r, NEW u,
         Leads(<<x>>, p, q), Leads(<<y>>, q, r), Leads(<<z>>, r, u)
  PROVE  Leads(<<x, y, z>>, p, u)
<1>1. Leads(<<x, y>>, p, r) BY LeadsTwo
<1> QED BY <1>1, LeadsConcat, Triple

LEMMA LeadsFour ==
  ASSUME NEW w, NEW x, NEW y, NEW z, NEW p, NEW q, NEW r, NEW u, NEW v,
         Leads(<<w>>, p, q), Leads(<<x>>, q, r), Leads(<<y>>, r, u), Leads(<<z>>, u, v)
  PROVE  Leads(<<w, x, y, z>>, p, v)
<1>1. Leads(<<w, x, y>>, p, u) BY LeadsThree
<1> QED BY <1>1, LeadsConcat, Quadruple

-----------------------------------------------------------------------------
(* The methods.                                                            *)

LEMMA LeadsSynchronized ==
  ASSUME NEW s, NEW e \in Ends, NEW f \in Ends, NEW a \in Ats, NEW b \in Ats,
         Leads(s, Mode("held", e), Mode(a, f)), Goes(a, "unlock", b)
  PROVE  Leads(Synchronized(s), Mode("free", e), Mode(b, f))
<1>1. Leads(<<"lock">>, Mode("free", e), Mode("held", e))
  BY LeadsOne DEF Goes, Leaves, Statuses, Ats, Holding, Ops
<1>2. Leads(<<"unlock">>, Mode(a, f), Mode(b, f)) BY LeadsOne DEF Leaves, Statuses, Ops
<1>3. Leads(<<"lock">> \o s, Mode("free", e), Mode(a, f)) BY <1>1, LeadsConcat
<1> QED BY <1>2, <1>3, LeadsConcat DEF Synchronized

LEMMA LeadsWake ==
  ASSUME NEW e \in Ends, NEW a \in {"free", "waking"}
  PROVE  Leads(WakePlayStateChanged, Mode(a, e), Mode("free", e))
  BY LeadsOne DEF WakePlayStateChanged, Goes, Leaves, Statuses, Ats, Ops

\* What the gate puts in its place, outside a pulse and within one.
LEMMA LeadsSample ==
  ASSUME NEW e \in Ends
  PROVE  /\ Leads(<<"sample", "compare">>, Mode("sampling", e), Mode("free", e))
         /\ Leads(<<"sample", "compare">>, Mode("psampling", e), Mode("posting", e))
<1>1. /\ Leads(<<"sample">>, Mode("sampling", e), Mode("sampled", e))
      /\ Leads(<<"compare">>, Mode("sampled", e), Mode("free", e))
  BY LeadsOne DEF Goes, Leaves, Statuses, Ats, Gating, Ops
<1>2. /\ Leads(<<"sample">>, Mode("psampling", e), Mode("psampled", e))
      /\ Leads(<<"compare">>, Mode("psampled", e), Mode("posting", e))
  BY LeadsOne DEF Goes, Leaves, Statuses, Ats, Holding, Pulsing, PulseGating, Ops
<1> QED BY <1>1, <1>2, LeadsTwo

LEMMA LeadsProceed ==
  ASSUME NEW e \in Ends
  PROVE  /\ Leads(Proceed, Mode("passing", e), Mode("free", e))
         /\ Leads(Proceed, Mode("ppassing", e), Mode("posting", e))
<1>1. /\ Leads(<<"stamp">>, Mode("passing", e), Mode("stamped", e))
      /\ Leads(<<"load">>, Mode("stamped", e), Mode("loaded", e))
      /\ Leads(<<"mark">>, Mode("loaded", e), Mode("marked", e))
      /\ Leads(<<"playstate">>, Mode("marked", e), Mode("free", e))
  BY LeadsOne DEF Goes, Leaves, Statuses, Ats, Gating, Ops
<1>2. /\ Leads(<<"stamp">>, Mode("ppassing", e), Mode("pstamped", e))
      /\ Leads(<<"load">>, Mode("pstamped", e), Mode("ploaded", e))
      /\ Leads(<<"mark">>, Mode("ploaded", e), Mode("pmarked", e))
      /\ Leads(<<"playstate">>, Mode("pmarked", e), Mode("posting", e))
  BY LeadsOne DEF Goes, Leaves, Statuses, Ats, Holding, Pulsing, PulseGating, Ops
<1>3. Leads(Proceed, Mode("passing", e), Mode("free", e)) BY <1>1, LeadsFour DEF Proceed
<1>4. Leads(Proceed, Mode("ppassing", e), Mode("posting", e)) BY <1>2, LeadsFour DEF Proceed
<1> QED BY <1>3, <1>4

LEMMA LeadsMeta ==
  ASSUME NEW e \in Ends, NEW a \in {"free", "telling"}
  PROVE  Leads(WakeTrackChanged, Mode(a, e), Mode("free", e))
  BY LeadsOne DEF WakeTrackChanged, Goes, Leaves, Statuses, Ats, Ops

LEMMA LeadsSet ==
  ASSUME NEW s \in Statuses, NEW e \in Ends, NEW f \in Ends,
         \/ s = "playing" /\ e = "play" /\ f = "none"
         \/ s = "playing" /\ e = "playStart" /\ f = "start"
         \/ s # "playing" /\ e \in {"stop", "turn"} /\ f = e
  PROVE  Leads(SetPlayStatus(s) \o WakePlayStateChanged, Mode("free", e), Mode("free", f))
<1>1. Leads(<<s>>, Mode("held", e), Mode("shown", f))
  BY LeadsOne DEF Goes, Leaves, Statuses, Ats, Holding, Ops
<1>2. Leads(SetPlayStatus(s), Mode("free", e), Mode("waking", f))
  BY <1>1, LeadsSynchronized DEF SetPlayStatus, Goes, Ats, Holding
<1>3. Leads(WakePlayStateChanged, Mode("waking", f), Mode("free", f)) BY LeadsWake
<1> QED BY <1>2, <1>3, LeadsConcat

LEMMA LeadsAfterPlaying == Leads(AfterPlayValue("playing"), Mode("free", "start"), Done)
<1>1. Leads(<<"start">>, Mode("free", "start"), Done)
  BY LeadsOne DEF Goes, Leaves, Ats, Ends, Ops, Done
<1>2. Leads(WakeTrackChanged, Mode("free", "start"), Mode("free", "start"))
  BY LeadsMeta DEF Ends
<1> QED BY <1>1, <1>2, LeadsConcat DEF AfterPlayValue

LEMMA LeadsAfterPause ==
  ASSUME NEW s \in {"stopped", "paused"}, NEW e \in Ends, NEW f \in Ends,
         \/ e = "stop" /\ f = "none"
         \/ e = "turn" /\ f = "source"
  PROVE  Leads(AfterPlayValue(s), Mode("free", e), Mode("free", f))
<1>1. Leads(<<"stop">>, Mode("free", e), Mode("free", f))
  BY LeadsOne DEF Goes, Leaves, Ats, Ops
<1>2. Leads(WakeTrackChanged, Mode("free", e), Mode("free", e)) BY LeadsMeta
<1>3. AfterPlayValue(s) = WakeTrackChanged \o <<"stop">> BY DEF AfterPlayValue
<1> QED BY <1>1, <1>2, <1>3, LeadsConcat

LEMMA LeadsOnPlayValue ==
  ASSUME NEW s \in Statuses PROVE Leads(OnPlayValue(s), Mode("free", "value"), Done)
<1>1. CASE s = "paused"
  BY <1>1, LeadsOne DEF OnPlayValue, Goes, Leaves, Ats, Ends, Ops, Done
<1>2. CASE s # "paused"
  <2>1. Leads(<<"report">>, Mode("free", "value"), Mode("argument", "none"))
    BY LeadsOne DEF Goes, Leaves, Statuses, Ats, Ends, Ops
  <2>2. Leads(<<s>>, Mode("argument", "none"), Done)
    <3>1. s \in Ops /\ Goes("argument", s, "free") BY SMT DEF Goes, Statuses, Ops
    <3>2. Leaves("argument", "none", s, "none") BY SMT DEF Leaves, Statuses
    <3>3. "argument" \in Ats /\ "free" \in Ats /\ "none" \in Ends BY DEF Ats, Ends
    <3> QED BY <3>1, <3>2, <3>3, LeadsOne DEF Done
  <2>3. OnPlayValue(s) = <<"report", s>> BY <1>2 DEF OnPlayValue
  <2> QED BY <2>1, <2>2, <2>3, LeadsTwo
<1> QED BY <1>1, <1>2

LEMMA LeadsChangeTrack ==
  Leads(OnPlayValue("paused") \o <<"source">>, Mode("free", "turning"), Done)
<1>1. Leads(<<"pauseGuard">>, Mode("free", "turning"), Mode("free", "source"))
  BY LeadsOne DEF Goes, Leaves, Ats, Ends, Ops
<1>2. Leads(<<"source">>, Mode("free", "source"), Done)
  BY LeadsOne DEF Goes, Leaves, Ats, Ends, Ops, Done
<1> QED BY <1>1, <1>2, LeadsConcat DEF OnPlayValue

LEMMA LeadsFlushOnly ==
  ASSUME NEW e \in Ends PROVE Leads(FlushOnly, Mode("free", e), Mode("free", e))
<1>1. Leads(<<"flush">>, Mode("held", e), Mode("held", e))
  BY LeadsOne DEF Goes, Leaves, Statuses, Ats, Holding, Ops
<1> QED BY <1>1, LeadsSynchronized DEF FlushOnly, Goes, Ats, Holding

LEMMA LeadsEarlyTrackChange ==
  Leads(OnEarlyTrackChange \o <<"prepare">>, Mode("sourced", "none"), Done)
<1> DEFINE At(a) == Mode(a, "none")
<1>1. /\ Leads(<<"latch">>, At("earlyHeld"), At("earlyLatched"))
      /\ Leads(<<"reset">>, At("earlyLatched"), At("cleared"))
      /\ Leads(<<"flush">>, At("cleared"), At("earlyFlushed"))
      /\ Leads(<<"lock">>, At("sourced"), At("earlyHeld"))
      /\ Leads(<<"unlock">>, At("earlyFlushed"), At("announcing"))
      /\ Leads(WakeTrackChanged, At("announcing"), At("announced"))
      /\ Leads(<<"prepare">>, At("announced"), Done)
  BY LeadsOne DEF WakeTrackChanged, Goes, Leaves, Statuses, Ats, Early, Holding, Ends, Ops, Done
<1> HIDE DEF At
<1>2. Leads(<<"latch", "reset", "flush">>, At("earlyHeld"), At("earlyFlushed"))
  BY <1>1, LeadsThree
<1>3. Leads(OnFreshTrackChange, At("sourced"), At("announcing"))
  <2>1. Leads(<<"lock">> \o <<"latch", "reset", "flush">>, At("sourced"), At("earlyFlushed"))
    BY <1>1, <1>2, LeadsConcat
  <2> QED BY <1>1, <2>1, LeadsConcat DEF OnFreshTrackChange, Synchronized
<1>4. Leads(OnEarlyTrackChange, At("sourced"), At("announced"))
  BY <1>1, <1>3, LeadsConcat DEF OnEarlyTrackChange
<1> QED BY <1>1, <1>4, LeadsConcat DEF At

LEMMA LeadsPrepared == Leads(OnPrepared \o PlayerPrepared, Done, Done)
<1> DEFINE At(a) == Mode(a, "none")
<1>1. /\ Leads(<<"latch">>, At("held"), At("latched"))
      /\ Leads(<<"remember">>, At("latched"), At("latched"))
      /\ Leads(<<"flush">>, At("latched"), At("ended"))
      /\ Leads(<<"edgeOrEnd">>, At("ended"), At("ended"))
      /\ Leads(<<"pulse">>, At("held"), At("held"))
      /\ Leads(<<"prepared">>, At("free"), At("free"))
      /\ Leads(<<"restore">>, At("free"), At("free"))
  BY LeadsOne DEF Goes, Leaves, Statuses, Ats, Holding, Ends, Ops
<1>2. /\ Leads(WakeTrackChanged, At("free"), At("free"))
      /\ Leads(WakeTrackChanged, At("telling"), At("free"))
      /\ Leads(WakePlayStateChanged, At("free"), At("free"))
      /\ Leads(FlushOnly, At("free"), At("free"))
  BY LeadsMeta, LeadsWake, LeadsFlushOnly DEF Ends
<1>3. Leads(<<"latch", "remember", "flush", "edgeOrEnd">>, At("held"), At("ended"))
  <2> HIDE DEF At
  <2> QED BY <1>1, LeadsFour
<1>4. Leads(OnTrackEdge, At("free"), At("telling"))
  BY <1>3, LeadsSynchronized DEF OnTrackEdge, Goes, Ats, Holding, Ends
<1>5. Leads(PulsePlayStatusForCT, At("free"), At("free"))
  BY <1>1, LeadsSynchronized DEF PulsePlayStatusForCT, Goes, Ats, Holding, Ends
<1> HIDE DEF At
<1>6. Leads(OnTrackEdge \o WakeTrackChanged, At("free"), At("free")) BY <1>2, <1>4, LeadsConcat
<1>7. Leads(OnPrepared, At("free"), At("free")) BY <1>2, <1>6, LeadsConcat DEF OnPrepared
<1>8. Leads(<<"restore", "prepared">>, At("free"), At("free")) BY <1>1, LeadsTwo
<1>9. Leads(FlushOnly \o WakeTrackChanged, At("free"), At("free")) BY <1>2, LeadsConcat
<1>10. Leads(FlushOnly \o WakeTrackChanged \o WakePlayStateChanged, At("free"), At("free"))
  BY <1>2, <1>9, LeadsConcat
<1>11. Leads(OnPlayerPreparedTail, At("free"), At("free"))
  BY <1>5, <1>10, LeadsConcat DEF OnPlayerPreparedTail
<1>12. Leads(<<"restore", "prepared">> \o OnPlayerPreparedTail, At("free"), At("free"))
  BY <1>8, <1>11, LeadsConcat
<1>13. Leads(PlayerPrepared, At("free"), At("free"))
  BY <1>1, <1>12, LeadsConcat DEF PlayerPrepared
<1> QED BY <1>7, <1>13, LeadsConcat DEF At, Done

LEMMA LeadsCompletion == Leads(OnCompletion, Mode("free", "halt"), Done)
<1> DEFINE At(a) == Mode(a, "halt")
<1>1. /\ Leads(<<"completion">>, At("held"), At("held"))
      /\ Leads(<<"flush">>, At("held"), At("held"))
      /\ Leads(<<"stop">>, At("free"), Done)
  BY LeadsOne DEF Goes, Leaves, Statuses, Ats, Holding, Ends, Ops, Done
<1>2. Leads(<<"completion", "flush">>, At("held"), At("held"))
  <2> HIDE DEF At
  <2> QED BY <1>1, LeadsTwo
<1>3. Leads(MarkCompletion, At("free"), At("free"))
  BY <1>2, LeadsSynchronized DEF MarkCompletion, Goes, Ats, Holding, Ends
<1>4. Leads(WakePlayStateChanged, Done, Done) BY LeadsWake DEF Done, Ends
<1>5. Leads(MarkCompletion \o <<"stop">>, At("free"), Done) BY <1>1, <1>3, LeadsConcat
<1> QED BY <1>4, <1>5, LeadsConcat DEF OnCompletion

LEMMA LeadsError == Leads(OnError, Done, Done)
<1>1. Leads(<<"error">>, Mode("held", "none"), Mode("held", "none"))
  BY LeadsOne DEF Goes, Leaves, Statuses, Ats, Holding, Ends, Ops
<1> QED BY <1>1, LeadsSynchronized DEF OnError, MarkError, Goes, Ats, Holding, Ends, Done

LEMMA LeadsSeek ==
  ASSUME NEW e \in Ends PROVE Leads(OnSeek, Mode("free", e), Mode("free", e))
<1>1. Leads(<<"seek">>, Mode("held", e), Mode("sought", e))
  BY LeadsOne DEF Goes, Leaves, Statuses, Ats, Holding, Ops
<1> QED BY <1>1, LeadsSynchronized DEF OnSeek, Goes, Ats, Holding

LEMMA LeadsOtherUpdate == Leads(FlushOnly \o <<"playstate">>, Done, Done)
<1>1. Leads(<<"playstate">>, Done, Done)
  BY LeadsOne DEF Goes, Leaves, Statuses, Ats, Ends, Ops, Done
<1>2. Leads(FlushOnly, Done, Done) BY LeadsFlushOnly DEF Ends, Done
<1> QED BY <1>1, <1>2, LeadsConcat

LEMMA LeadsTicker ==
  Leads(<<"unlimited">> \o WakePlayStateChanged \o <<"start">>, Mode("free", "start"), Done)
<1>1. /\ Leads(<<"unlimited">>, Mode("free", "start"), Mode("free", "start"))
      /\ Leads(<<"start">>, Mode("free", "start"), Done)
  BY LeadsOne DEF Goes, Leaves, Statuses, Ats, Ends, Ops, Done
<1>2. Leads(WakePlayStateChanged, Mode("free", "start"), Mode("free", "start"))
  BY LeadsWake DEF Ends
<1>3. Leads(<<"unlimited">> \o WakePlayStateChanged, Mode("free", "start"), Mode("free", "start"))
  BY <1>1, <1>2, LeadsConcat
<1> QED BY <1>1, <1>3, LeadsConcat

\* Phase 1 of a pulse, under the monitor.
LEMMA LeadsPulse ==
  ASSUME NEW e \in Ends
  PROVE  Leads(<<"paused">> \o WakePlayStateChanged \o <<"post">>,
               Mode("pulsing", e), Mode("held", e))
<1>1. /\ Leads(<<"paused">>, Mode("pulsing", e), Mode("pshown", e))
      /\ Leads(WakePlayStateChanged, Mode("pshown", e), Mode("posting", e))
      /\ Leads(<<"post">>, Mode("posting", e), Mode("held", e))
  BY LeadsOne DEF WakePlayStateChanged, Goes, Leaves, Statuses, Ats, Holding, Pulsing, Ops
<1>2. Leads(<<"paused">> \o WakePlayStateChanged, Mode("pulsing", e), Mode("posting", e))
  BY <1>1, LeadsConcat
<1> QED BY <1>1, <1>2, LeadsConcat

-----------------------------------------------------------------------------
(* The invariant: the type of every variable, and a mode of each thread to *)
(* which the other variables answer.                                       *)

Typed ==
  /\ song \in Tracks /\ engine \in Tracks /\ prepared \in BOOLEAN
  /\ status \in Statuses /\ wokeAs \in Statuses
  /\ cachedId \in Tracks /\ posTrack \in Tracks /\ durTrack \in Tracks
  /\ pending \in BOOLEAN /\ naturalEnd \in BOOLEAN
  /\ freshLeft \in 0 .. FreshTicks /\ rateLeft \in 0 .. RateTicks
  /\ owner \in Threads \cup {"none"} /\ oldId \in Tracks
  /\ file \in [id : Tracks, status : Statuses, posTrack : Tracks, naturalEnd : BOOLEAN]
  /\ seen \in [Threads -> Statuses]
  /\ metaId \in Tracks /\ sentStatus \in Statuses /\ owedEnd \in BOOLEAN
  /\ guardLeft \in 0 .. GuardTicks
  /\ pulse \in 0 .. PulseTicks \cup {Off}
  /\ ticker \in 0 .. TickTicks \cup {Off}
  /\ listener \in Threads
  /\ loading \in {"no", "advanced", "source", "preparing"}
  /\ changing \in BOOLEAN

\* What each thread has still to do leads from its mode to its end.
Shape(m) == /\ todo \in [Threads -> Seq(Ops)]
            /\ \A t \in Threads : Via(todo[t], m[t], Done)
            /\ listener = "main" => todo["callback"] = <<>>

\* The callback thread changes no track and passes no play value on.
CallbackInv(m) ==
  /\ m["callback"].at \notin Early
  /\ m["callback"].ends \in {"none", "halt"}
  /\ listener = "main" => m["callback"] = Done

MonitorInv(m) ==
  \A t \in Threads : /\ owner = t <=> m[t].at \in Holding
                     /\ m[t].at # "argument"

\* Everything that is said of a track is said of the song now playing.
Settled == /\ engine = song /\ cachedId = song /\ posTrack = song /\ durTrack = song
           /\ file.id = song /\ file.posTrack = song

\* After its song has advanced the main thread is on its way to the reset, and
\* nobody else moves the anchor between the reset and the flush.
TrackInv(m) == LET p == m["main"] IN
  /\ ~changing => Settled /\ metaId = song
  /\ changing => p.ends \in {"turning", "turn", "source"} \/ p.at \in Early
  /\ p.at \in Early => p.ends = "none" /\ engine = song
  /\ p.at = "cleared" => posTrack = song /\ durTrack = song
  /\ p.at \in {"earlyFlushed", "announcing", "announced"} => Settled
  /\ p.at = "announced" => metaId = song

\* A status that the file does not have is about to be flushed.
FlushInv(m) == file.status = status \/ \E t \in Threads : m[t].at \in {"set", "pset"}

\* While not playing, a tick that is queued, or about to be, is about to be
\* taken back, or a status of playing is about to follow.
TickInv(m) ==
  (ticker # Off \/ m["main"].ends = "start") /\ status # "playing" =>
    \/ m["main"].ends \in {"stop", "turn", "play", "playStart"}
    \/ pulse # Off
    \/ \E t \in Threads : m[t].at \in Pulsing

\* A status that the Bluetooth side has not been told of is the one that the gate
\* noted last, or a thread is on its way to the gate or past it.  With one thread
\* the status noted is the status last broadcast.
WakeInv(m) ==
  /\ \/ sentStatus = file.status
     \/ wokeAs = status
     \/ \E t \in Threads :
          \/ m[t].at \in {"set", "shown", "waking", "sampling", "passing", "stamped",
                         "loaded", "marked", "pset", "pshown", "psampling", "ppassing",
                         "pstamped", "ploaded", "pmarked"}
          \/ m[t].at \in {"sampled", "psampled"} /\ seen[t] = status
  /\ LET p == m["main"].at IN listener = "main" =>
       /\ wokeAs = IF p \in {"marked", "pmarked"} THEN status ELSE sentStatus
       /\ p \in {"loaded", "ploaded"} => seen["main"] = status

\* A natural end that is owed is the one latched last, and a thread is on its way
\* to publish it, or, with the file showing it, to broadcast it.
EndInv(m) == owedEnd =>
  /\ naturalEnd
  /\ \E t \in Threads :
       \/ m[t].at \in {"latched", "earlyLatched", "cleared"}
       \/ /\ m[t].at \in {"ended", "telling", "earlyFlushed", "announcing"}
          /\ file.naturalEnd

ModeInv(m) == /\ CallbackInv(m) /\ MonitorInv(m) /\ TrackInv(m) /\ FlushInv(m)
              /\ TickInv(m) /\ WakeInv(m) /\ EndInv(m)

Inv(m) == Typed /\ Shape(m) /\ ModeInv(m)

IInv == \E m \in [Threads -> Modes] : Inv(m)

\* The modes m, but thread t is now in mode q.
With(m, t, q) == [m EXCEPT ![t] = q]

-----------------------------------------------------------------------------
(* What the lists of operations allow.                                     *)

LEMMA DoneMode == Done \in Modes
  BY DEF Done, Mode, Modes, Ats, Ends

LEMMA ModeOf ==
  ASSUME NEW q \in Modes PROVE q.at \in Ats /\ q.ends \in Ends /\ q = Mode(q.at, q.ends)
  BY DEF Modes, Mode

\* A thread that is not at the end has something to do.
LEMMA NotOver ==
  ASSUME NEW s, NEW q, Via(s, q, Done), q.at # "free" PROVE s # <<>>
<1> SUFFICES ASSUME s = <<>> PROVE FALSE OBVIOUS
<1>1. q = Done BY ViaNoneOnly
<1> QED BY <1>1 DEF Done, Mode

\* After a seek the monitor is released.
LEMMA AfterSeek ==
  ASSUME NEW p, NEW o, NEW q, Move(p, o, q), p.at = "sought"
  PROVE  q.at = "free" /\ q.ends = p.ends
<1> DEFINE a == p.at  b == q.at
<1>1. Goes(a, o, b) /\ a = "sought" BY DEF Move
<1>2. o = "unlock" /\ b = "free"
  <2> HIDE DEF a, b
  <2> QED BY <1>1, SMTT(30) DEF Goes, Statuses
<1>3. q.ends = p.ends BY <1>2, SMT DEF Move, Leaves, Statuses
<1> QED BY <1>2, <1>3

LEMMA LeadsMove ==
  ASSUME NEW o \in Ops, NEW p \in Modes, NEW q \in Modes, Move(p, o, q)
  PROVE  Leads(<<o>>, p, q)
<1>1. <<o>> \in Seq(Ops) BY SMT
<1> QED BY <1>1, ViaOne DEF Leads

LEMMA WithModes ==
  ASSUME NEW m \in [Threads -> Modes], NEW t \in Threads, NEW q \in Modes
  PROVE  /\ With(m, t, q) \in [Threads -> Modes]
         /\ \/ /\ t = "main"
               /\ With(m, t, q)["main"] = q /\ With(m, t, q)["callback"] = m["callback"]
            \/ /\ t = "callback"
               /\ With(m, t, q)["callback"] = q /\ With(m, t, q)["main"] = m["main"]
  BY DEF With, Threads

LEMMA IdleMode ==
  ASSUME NEW m \in [Threads -> Modes], Shape(m), NEW t \in Threads, todo[t] = <<>>
  PROVE  m[t] = Done
  BY ViaNoneOnly DEF Shape

\* The operation that t does is the first of its list.
LEMMA Advance ==
  ASSUME NEW m \in [Threads -> Modes], Shape(m), NEW t \in Threads, NEW o, Doing(t, o)
  PROVE  /\ o \in Ops
         /\ t = "callback" => listener # "main"
         /\ \E r \in Modes : Move(m[t], o, r) /\ Via(Tail(todo[t]), r, Done)
<1>1. todo[t] \in Seq(Ops) /\ todo[t] # <<>> /\ Head(todo[t]) = o /\ Via(todo[t], m[t], Done)
  BY DEF Shape, Doing
<1>2. t = "callback" => listener # "main" BY <1>1 DEF Shape
<1> QED BY <1>1, <1>2, ViaTail

\* Thread t goes on in mode q with the list s.
LEMMA Resume ==
  ASSUME NEW m \in [Threads -> Modes], Shape(m), NEW t \in Threads, NEW s \in Seq(Ops),
         NEW q \in Modes, Via(s, q, Done), t = "callback" => listener # "main",
         todo' = [todo EXCEPT ![t] = s], UNCHANGED listener
  PROVE  Shape(With(m, t, q))'
<1>1. todo \in [Threads -> Seq(Ops)] /\ \A u \in Threads : Via(todo[u], m[u], Done) BY DEF Shape
<1>2. todo' \in [Threads -> Seq(Ops)] BY <1>1
<1>3. ASSUME NEW u \in Threads PROVE Via(todo'[u], With(m, t, q)[u], Done)
  <2>1. CASE u = t
    <3>1. todo'[u] = s /\ With(m, t, q)[u] = q BY <2>1, <1>1 DEF With
    <3> QED BY <3>1
  <2>2. CASE u # t
    <3>1. todo'[u] = todo[u] /\ With(m, t, q)[u] = m[u] BY <2>2, <1>1 DEF With
    <3> QED BY <3>1, <1>1
  <2> QED BY <2>1, <2>2
<1>4. listener' = "main" => todo'["callback"] = <<>>
  <2>1. "callback" \in Threads BY DEF Threads
  <2> QED BY <2>1, <1>1 DEF Shape
<1> QED BY <1>2, <1>3, <1>4 DEF Shape

\* Thread t does one operation, which puts the operations s in its place.
LEMMA Replace ==
  ASSUME NEW m \in [Threads -> Modes], Shape(m), NEW t \in Threads, NEW o, Doing(t, o),
         NEW r, Via(Tail(todo[t]), r, Done),
         NEW s, NEW q, Leads(s, q, r), Then(t, s), UNCHANGED listener
  PROVE  Shape(With(m, t, q))'
<1>1. todo[t] \in Seq(Ops) /\ todo[t] # <<>> BY DEF Shape, Doing
<1>2. s \in Seq(Ops) /\ q \in Modes /\ Tail(todo[t]) \in Seq(Ops) BY <1>1, SMT DEF Leads
<1>3. s \o Tail(todo[t]) \in Seq(Ops) BY <1>2, SMT
<1>4. Via(s \o Tail(todo[t]), q, Done) BY <1>2, ViaConcat DEF Leads
<1>5. todo' = [todo EXCEPT ![t] = s \o Tail(todo[t])] BY DEF Then
<1> QED BY <1>2, <1>3, <1>4, <1>5, Advance, Resume

LEMMA Drop ==
  ASSUME NEW m \in [Threads -> Modes], Shape(m), NEW t \in Threads, NEW o, Doing(t, o),
         NEW r \in Modes, Via(Tail(todo[t]), r, Done), Then(t, <<>>), UNCHANGED listener
  PROVE  Shape(With(m, t, r))'
<1>1. Leads(<<>>, r, r)
  <2>1. <<>> \in Seq(Ops) BY SMT
  <2> QED BY <2>1, ViaNone DEF Leads
<1> QED BY <1>1, Replace

\* An idle thread starts the methods s.
LEMMA Begin ==
  ASSUME NEW m \in [Threads -> Modes], Shape(m), NEW t \in Threads,
         NEW s, NEW q, Leads(s, q, Done), Call(t, s), t = "callback" => listener # "main",
         UNCHANGED listener
  PROVE  m[t] = Done /\ Shape(With(m, t, q))'
  BY IdleMode, Resume DEF Call, Idle, Leads

OthersSame == UNCHANGED <<timers, loading, changing, listener>>

\* What a step does to the modes is compared part by part; the definitions of
\* the parts, and of the tuples of variables, are visible from here on.
USE DEF CallbackInv, MonitorInv, TrackInv, FlushInv, TickInv, WakeInv, EndInv, Settled,
        Early, Gating, PulseGating, Holding, Pulsing, Done, Mode, Threads, Statuses,
        player, fields, wake, monitor, sent, timers, OthersSame, envSame

-----------------------------------------------------------------------------
(* The operations of TrackInfoWriter.                                      *)

LEMMA LockKeeps ==
  ASSUME NEW m \in [Threads -> Modes], Inv(m), NEW t \in Threads, Lock(t), OthersSame
  PROVE  IInv'
<1>1. PICK r \in Modes : Move(m[t], "lock", r) /\ Via(Tail(todo[t]), r, Done)
  BY Advance DEF Inv, Lock
<1>2. t = "callback" => listener # "main" BY Advance DEF Inv, Lock
<1> DEFINE n == With(m, t, r)
<1>3. Shape(n)' BY <1>1, Drop DEF Inv, Lock
<1>4. Typed' BY DEF Inv, Typed, Lock
<1>5. n \in [Threads -> Modes] BY WithModes
<1>6. ModeInv(n)'
  <2> HIDE DEF n
  <2> QED BY <1>1, <1>2, WithModes, SMT DEF n, Inv, ModeInv, Move, Goes, Leaves, Lock
<1> QED BY <1>3, <1>4, <1>5, <1>6 DEF IInv, Inv

LEMMA UnlockKeeps ==
  ASSUME NEW m \in [Threads -> Modes], Inv(m), NEW t \in Threads, Unlock(t), OthersSame
  PROVE  IInv'
<1>1. PICK r \in Modes : Move(m[t], "unlock", r) /\ Via(Tail(todo[t]), r, Done)
  BY Advance DEF Inv, Unlock
<1>2. t = "callback" => listener # "main" BY Advance DEF Inv, Unlock
<1> DEFINE n == With(m, t, r)
<1>3. Shape(n)' BY <1>1, Drop DEF Inv, Unlock
<1>4. Typed' BY DEF Inv, Typed, Unlock
<1>5. n \in [Threads -> Modes] BY WithModes
<1>6. ModeInv(n)'
  <2> HIDE DEF n
  <2> QED BY <1>1, <1>2, WithModes, SMT DEF n, Inv, ModeInv, Move, Goes, Leaves, Unlock
<1> QED BY <1>3, <1>4, <1>5, <1>6 DEF IInv, Inv

LEMMA RememberKeeps ==
  ASSUME NEW m \in [Threads -> Modes], Inv(m), NEW t \in Threads, Remember(t), OthersSame
  PROVE  IInv'
<1>1. PICK r \in Modes : Move(m[t], "remember", r) /\ Via(Tail(todo[t]), r, Done)
  BY Advance DEF Inv, Remember
<1>2. t = "callback" => listener # "main" BY Advance DEF Inv, Remember
<1> DEFINE n == With(m, t, r)
<1>3. Shape(n)' BY <1>1, Drop DEF Inv, Remember
<1>4. Typed' BY DEF Inv, Typed, Remember
<1>5. n \in [Threads -> Modes] BY WithModes
<1>6. ModeInv(n)'
  <2> HIDE DEF n
  <2> QED BY <1>1, <1>2, WithModes, SMT DEF n, Inv, ModeInv, Move, Goes, Leaves, Remember
<1> QED BY <1>3, <1>4, <1>5, <1>6 DEF IInv, Inv

LEMMA FlushKeeps ==
  ASSUME NEW m \in [Threads -> Modes], Inv(m), NEW t \in Threads, Flush(t), OthersSame
  PROVE  IInv'
<1>1. PICK r \in Modes : Move(m[t], "flush", r) /\ Via(Tail(todo[t]), r, Done)
  BY Advance DEF Inv, Flush
<1>2. t = "callback" => listener # "main" BY Advance DEF Inv, Flush
<1> DEFINE n == With(m, t, r)
<1>3. Shape(n)' BY <1>1, Drop DEF Inv, Flush
<1>4. Typed' BY DEF Inv, Typed, Flush
<1>5. n \in [Threads -> Modes] BY WithModes
<1>6. ModeInv(n)'
  <2> HIDE DEF n
  <2> QED BY <1>1, <1>2, WithModes, SMT DEF n, Inv, ModeInv, Move, Goes, Leaves, Flush
<1> QED BY <1>3, <1>4, <1>5, <1>6 DEF IInv, Inv

LEMMA LatchKeeps ==
  ASSUME NEW m \in [Threads -> Modes], Inv(m), NEW t \in Threads, Latch(t), OthersSame
  PROVE  IInv'
<1>1. PICK r \in Modes : Move(m[t], "latch", r) /\ Via(Tail(todo[t]), r, Done)
  BY Advance DEF Inv, Latch
<1>2. t = "callback" => listener # "main" BY Advance DEF Inv, Latch
<1> DEFINE n == With(m, t, r)
<1>3. Shape(n)' BY <1>1, Drop DEF Inv, Latch
<1>4. Typed'
  <2>1. pending \in BOOLEAN /\ owedEnd \in BOOLEAN BY DEF Inv, Typed
  <2>2. naturalEnd' \in BOOLEAN /\ pending' \in BOOLEAN /\ owedEnd' \in BOOLEAN BY <2>1 DEF Latch
  <2> QED BY <2>2 DEF Inv, Typed, Latch
<1>5. n \in [Threads -> Modes] BY WithModes
<1>6. ModeInv(n)'
  <2> HIDE DEF n
  <2>1. (naturalEnd' <=> pending) /\ (owedEnd' <=> pending) BY DEF Latch
  <2>2. EndInv(n)'
    BY <1>1, <1>2, <2>1, WithModes, SMT DEF n, Inv, ModeInv, Move, Goes, Leaves, Latch
  <2> QED BY <1>1, <1>2, <2>2, WithModes, SMT DEF n, Inv, ModeInv, Move, Goes, Leaves, Latch
<1> QED BY <1>3, <1>4, <1>5, <1>6 DEF IInv, Inv

LEMMA ResetKeeps ==
  ASSUME NEW m \in [Threads -> Modes], Inv(m), NEW t \in Threads, Reset(t), OthersSame
  PROVE  IInv'
<1>1. PICK r \in Modes : Move(m[t], "reset", r) /\ Via(Tail(todo[t]), r, Done)
  BY Advance DEF Inv, Reset
<1>2. t = "callback" => listener # "main" BY Advance DEF Inv, Reset
<1> DEFINE n == With(m, t, r)
<1>3. Shape(n)' BY <1>1, Drop DEF Inv, Reset
<1>4. Typed' BY TicksAssumption DEF Inv, Typed, Reset
<1>5. n \in [Threads -> Modes] BY WithModes
<1>6. ModeInv(n)'
  <2> HIDE DEF n
  <2> QED BY <1>1, <1>2, WithModes, SMT DEF n, Inv, ModeInv, Move, Goes, Leaves, Reset
<1> QED BY <1>3, <1>4, <1>5, <1>6 DEF IInv, Inv

LEMMA CompletionKeeps ==
  ASSUME NEW m \in [Threads -> Modes], Inv(m), NEW t \in Threads, Completion(t), OthersSame
  PROVE  IInv'
<1>1. PICK r \in Modes : Move(m[t], "completion", r) /\ Via(Tail(todo[t]), r, Done)
  BY Advance DEF Inv, Completion
<1>2. t = "callback" => listener # "main" BY Advance DEF Inv, Completion
<1> DEFINE n == With(m, t, r)
<1>3. Shape(n)' BY <1>1, Drop DEF Inv, Completion
<1>4. Typed' BY DEF Inv, Typed, Completion
<1>5. n \in [Threads -> Modes] BY WithModes
<1>6. ModeInv(n)'
  <2> HIDE DEF n
  <2> QED BY <1>1, <1>2, WithModes, SMT DEF n, Inv, ModeInv, Move, Goes, Leaves, Completion
<1> QED BY <1>3, <1>4, <1>5, <1>6 DEF IInv, Inv

LEMMA ErrorKeeps ==
  ASSUME NEW m \in [Threads -> Modes], Inv(m), NEW t \in Threads, Error(t), OthersSame
  PROVE  IInv'
<1>1. PICK r \in Modes : Move(m[t], "error", r) /\ Via(Tail(todo[t]), r, Done)
  BY Advance DEF Inv, Error
<1>2. t = "callback" => listener # "main" BY Advance DEF Inv, Error
<1> DEFINE n == With(m, t, r)
<1>3. Shape(n)' BY <1>1, Drop DEF Inv, Error
<1>4. Typed'
  <2>1. pending' \in BOOLEAN BY DEF Error
  <2> QED BY <2>1 DEF Inv, Typed, Error
<1>5. n \in [Threads -> Modes] BY WithModes
<1>6. ModeInv(n)'
  <2> HIDE DEF n
  <2> QED BY <1>1, <1>2, WithModes, SMT DEF n, Inv, ModeInv, Move, Goes, Leaves, Error
<1> QED BY <1>3, <1>4, <1>5, <1>6 DEF IInv, Inv

LEMMA StampKeeps ==
  ASSUME NEW m \in [Threads -> Modes], Inv(m), NEW t \in Threads, Stamp(t), OthersSame
  PROVE  IInv'
<1>1. PICK r \in Modes : Move(m[t], "stamp", r) /\ Via(Tail(todo[t]), r, Done)
  BY Advance DEF Inv, Stamp
<1>2. t = "callback" => listener # "main" BY Advance DEF Inv, Stamp
<1> DEFINE n == With(m, t, r)
<1>3. Shape(n)' BY <1>1, Drop DEF Inv, Stamp
<1>4. Typed' BY TicksAssumption, SMT DEF Inv, Typed, Stamp
<1>5. n \in [Threads -> Modes] BY WithModes
<1>6. ModeInv(n)'
  <2> HIDE DEF n
  <2> QED BY <1>1, <1>2, WithModes, SMT DEF n, Inv, ModeInv, Move, Goes, Leaves, Stamp
<1> QED BY <1>3, <1>4, <1>5, <1>6 DEF IInv, Inv

LEMMA LoadKeeps ==
  ASSUME NEW m \in [Threads -> Modes], Inv(m), NEW t \in Threads, Load(t), OthersSame
  PROVE  IInv'
<1>1. PICK o \in {"sample", "load"} : Doing(t, o) BY DEF Load
<1>2. PICK r \in Modes : Move(m[t], o, r) /\ Via(Tail(todo[t]), r, Done)
  BY <1>1, Advance DEF Inv
<1>3. t = "callback" => listener # "main" BY <1>1, Advance DEF Inv
<1>4. /\ r.ends = m[t].ends
      /\ \/ m[t].at = "sampling" /\ r.at = "sampled"
         \/ m[t].at = "psampling" /\ r.at = "psampled"
         \/ m[t].at = "stamped" /\ r.at = "loaded"
         \/ m[t].at = "pstamped" /\ r.at = "ploaded"
  BY <1>2, SMT DEF Move, Goes, Leaves
<1> DEFINE n == With(m, t, r)
<1>5. Shape(n)' BY <1>1, <1>2, Drop DEF Inv, Load
<1>6. Typed' BY DEF Inv, Typed, Load
<1>7. n \in [Threads -> Modes] BY WithModes
<1>8. ModeInv(n)'
  <2> HIDE DEF n
  <2>1. seen'[t] = status /\ \A u \in Threads : u # t => seen'[u] = seen[u]
    BY DEF Inv, Typed, Load
  <2> QED BY <1>3, <1>4, <2>1, WithModes, SMT DEF n, Inv, ModeInv, Load
<1> QED BY <1>5, <1>6, <1>7, <1>8 DEF IInv, Inv

LEMMA MarkKeeps ==
  ASSUME NEW m \in [Threads -> Modes], Inv(m), NEW t \in Threads, Mark(t), OthersSame
  PROVE  IInv'
<1>1. PICK r \in Modes : Move(m[t], "mark", r) /\ Via(Tail(todo[t]), r, Done)
  BY Advance DEF Inv, Mark
<1>2. t = "callback" => listener # "main" BY Advance DEF Inv, Mark
<1> DEFINE n == With(m, t, r)
<1>3. Shape(n)' BY <1>1, Drop DEF Inv, Mark
<1>4. Typed' BY DEF Inv, Typed, Mark
<1>5. n \in [Threads -> Modes] BY WithModes
<1>6. ModeInv(n)'
  <2> HIDE DEF n
  <2>1. \A u \in Threads : u # t => seen'[u] = seen[u] BY DEF Inv, Typed, Mark
  <2> QED BY <1>1, <1>2, <2>1, WithModes, SMT DEF n, Inv, ModeInv, Move, Goes, Leaves, Mark
<1> QED BY <1>3, <1>4, <1>5, <1>6 DEF IInv, Inv

LEMMA PlayStateKeeps ==
  ASSUME NEW m \in [Threads -> Modes], Inv(m), NEW t \in Threads, PlayState(t), OthersSame
  PROVE  IInv'
<1>1. PICK r \in Modes : Move(m[t], "playstate", r) /\ Via(Tail(todo[t]), r, Done)
  BY Advance DEF Inv, PlayState
<1>2. t = "callback" => listener # "main" BY Advance DEF Inv, PlayState
<1> DEFINE n == With(m, t, r)
<1>3. Shape(n)' BY <1>1, Drop DEF Inv, PlayState
<1>4. Typed' BY DEF Inv, Typed, PlayState
<1>5. n \in [Threads -> Modes] BY WithModes
<1>6. ModeInv(n)'
  <2> HIDE DEF n
  <2> QED BY <1>1, <1>2, WithModes, SMT DEF n, Inv, ModeInv, Move, Goes, Leaves, PlayState
<1> QED BY <1>3, <1>4, <1>5, <1>6 DEF IInv, Inv

LEMMA MetaKeeps ==
  ASSUME NEW m \in [Threads -> Modes], Inv(m), NEW t \in Threads, Meta(t), OthersSame
  PROVE  IInv'
<1>1. PICK r \in Modes : Move(m[t], "meta", r) /\ Via(Tail(todo[t]), r, Done)
  BY Advance DEF Inv, Meta
<1>2. t = "callback" => listener # "main" BY Advance DEF Inv, Meta
<1> DEFINE n == With(m, t, r)
<1>3. Shape(n)' BY <1>1, Drop DEF Inv, Meta
<1>4. Typed' BY DEF Inv, Typed, Meta
<1>5. n \in [Threads -> Modes] BY WithModes
<1>6. ModeInv(n)'
  <2> HIDE DEF n
  <2>1. owedEnd' <=> owedEnd /\ ~file.naturalEnd BY DEF Meta
  <2>2. EndInv(n)'
    BY <1>1, <1>2, <2>1, WithModes, SMT DEF n, Inv, ModeInv, Move, Goes, Leaves, Meta
  <2> QED BY <1>1, <1>2, <2>2, WithModes, SMT DEF n, Inv, ModeInv, Move, Goes, Leaves, Meta
<1> QED BY <1>3, <1>4, <1>5, <1>6 DEF IInv, Inv

LEMMA ResetWakeRateLimitKeeps ==
  ASSUME NEW m \in [Threads -> Modes], Inv(m), NEW t \in Threads, ResetWakeRateLimit(t), OthersSame
  PROVE  IInv'
<1>1. PICK r \in Modes : Move(m[t], "unlimited", r) /\ Via(Tail(todo[t]), r, Done)
  BY Advance DEF Inv, ResetWakeRateLimit
<1>2. t = "callback" => listener # "main" BY Advance DEF Inv, ResetWakeRateLimit
<1> DEFINE n == With(m, t, r)
<1>3. Shape(n)' BY <1>1, Drop DEF Inv, ResetWakeRateLimit
<1>4. Typed' BY TicksAssumption, SMT DEF Inv, Typed, ResetWakeRateLimit
<1>5. n \in [Threads -> Modes] BY WithModes
<1>6. ModeInv(n)'
  <2> HIDE DEF n
  <2> QED BY <1>1, <1>2, WithModes, SMT DEF n, Inv, ModeInv, Move, Goes, Leaves, ResetWakeRateLimit
<1> QED BY <1>3, <1>4, <1>5, <1>6 DEF IInv, Inv

-----------------------------------------------------------------------------
(* The operations of PlaybackStateBridge, the timers and the player.       *)

LEMMA StartKeeps ==
  ASSUME NEW m \in [Threads -> Modes], Inv(m), NEW t \in Threads, Start(t), UNCHANGED listener
  PROVE  IInv'
<1>1. PICK r \in Modes : Move(m[t], "start", r) /\ Via(Tail(todo[t]), r, Done)
  BY Advance DEF Inv, Start
<1>2. t = "callback" => listener # "main" BY Advance DEF Inv, Start
<1> DEFINE n == With(m, t, r)
<1>3. Shape(n)' BY <1>1, Drop DEF Inv, Start
<1>4. Typed' BY TimersAssumption, SMT DEF Inv, Typed, Start
<1>5. n \in [Threads -> Modes] BY WithModes
<1>6. ModeInv(n)'
  <2> HIDE DEF n
  <2> QED BY <1>1, <1>2, WithModes, SMT DEF n, Inv, ModeInv, Move, Goes, Leaves, Start
<1> QED BY <1>3, <1>4, <1>5, <1>6 DEF IInv, Inv

LEMMA StopKeeps ==
  ASSUME NEW m \in [Threads -> Modes], Inv(m), NEW t \in Threads, Stop(t), UNCHANGED listener
  PROVE  IInv'
<1>1. PICK r \in Modes : Move(m[t], "stop", r) /\ Via(Tail(todo[t]), r, Done)
  BY Advance DEF Inv, Stop
<1>2. t = "callback" => listener # "main" BY Advance DEF Inv, Stop
<1> DEFINE n == With(m, t, r)
<1>3. Shape(n)' BY <1>1, Drop DEF Inv, Stop
<1>4. Typed' BY DEF Inv, Typed, Stop
<1>5. n \in [Threads -> Modes] BY WithModes
<1>6. ModeInv(n)'
  <2> HIDE DEF n
  <2> QED BY <1>1, <1>2, WithModes, SMT DEF n, Inv, ModeInv, Move, Goes, Leaves, Stop
<1> QED BY <1>3, <1>4, <1>5, <1>6 DEF IInv, Inv

LEMMA PostKeeps ==
  ASSUME NEW m \in [Threads -> Modes], Inv(m), NEW t \in Threads, Post(t), UNCHANGED listener
  PROVE  IInv'
<1>1. PICK r \in Modes : Move(m[t], "post", r) /\ Via(Tail(todo[t]), r, Done)
  BY Advance DEF Inv, Post
<1>2. t = "callback" => listener # "main" BY Advance DEF Inv, Post
<1> DEFINE n == With(m, t, r)
<1>3. Shape(n)' BY <1>1, Drop DEF Inv, Post
<1>4. Typed' BY TimersAssumption, SMT DEF Inv, Typed, Post
<1>5. n \in [Threads -> Modes] BY WithModes
<1>6. ModeInv(n)'
  <2> HIDE DEF n
  <2>1. PulseTicks # Off BY TimersAssumption, SMT DEF Off
  <2> QED BY <1>1, <1>2, <2>1, WithModes, SMT DEF n, Inv, ModeInv, Move, Goes, Leaves, Post
<1> QED BY <1>3, <1>4, <1>5, <1>6 DEF IInv, Inv

LEMMA PrepareAsyncKeeps ==
  ASSUME NEW m \in [Threads -> Modes], Inv(m), NEW t \in Threads, PrepareAsync(t),
         UNCHANGED listener
  PROVE  IInv'
<1>1. PICK r \in Modes : Move(m[t], "prepare", r) /\ Via(Tail(todo[t]), r, Done)
  BY Advance DEF Inv, PrepareAsync
<1>2. t = "callback" => listener # "main" BY Advance DEF Inv, PrepareAsync
<1> DEFINE n == With(m, t, r)
<1>3. Shape(n)' BY <1>1, Drop DEF Inv, PrepareAsync
<1>4. Typed'
  <2>1. changing' \in BOOLEAN BY DEF PrepareAsync
  <2> QED BY <2>1 DEF Inv, Typed, PrepareAsync
<1>5. n \in [Threads -> Modes] BY WithModes
<1>6. ModeInv(n)'
  <2> HIDE DEF n
  <2> QED BY <1>1, <1>2, WithModes, SMT DEF n, Inv, ModeInv, Move, Goes, Leaves, PrepareAsync
<1> QED BY <1>3, <1>4, <1>5, <1>6 DEF IInv, Inv

LEMMA PlayerIsPreparedKeeps ==
  ASSUME NEW m \in [Threads -> Modes], Inv(m), NEW t \in Threads, PlayerIsPrepared(t),
         UNCHANGED listener
  PROVE  IInv'
<1>1. PICK r \in Modes : Move(m[t], "prepared", r) /\ Via(Tail(todo[t]), r, Done)
  BY Advance DEF Inv, PlayerIsPrepared
<1>2. t = "callback" => listener # "main" BY Advance DEF Inv, PlayerIsPrepared
<1> DEFINE n == With(m, t, r)
<1>3. Shape(n)' BY <1>1, Drop DEF Inv, PlayerIsPrepared
<1>4. Typed' BY DEF Inv, Typed, PlayerIsPrepared
<1>5. n \in [Threads -> Modes] BY WithModes
<1>6. ModeInv(n)'
  <2> HIDE DEF n
  <2> QED BY <1>1, <1>2, WithModes, SMT DEF n, Inv, ModeInv, Move, Goes, Leaves, PlayerIsPrepared
<1> QED BY <1>3, <1>4, <1>5, <1>6 DEF IInv, Inv

-----------------------------------------------------------------------------
(* The operations that decide what comes next.                             *)

LEMMA EdgeKeeps ==
  ASSUME NEW m \in [Threads -> Modes], Inv(m), NEW t \in Threads, Edge(t), OthersSame
  PROVE  IInv'
<1>1. PICK o \in {"edge", "edgeOrEnd"} : Doing(t, o) BY DEF Edge
<1>2. PICK r \in Modes : Move(m[t], o, r) /\ Via(Tail(todo[t]), r, Done)
  BY <1>1, Advance DEF Inv
<1>3. t = "callback" => listener # "main" BY <1>1, Advance DEF Inv
<1>4. r = m[t] /\ r.at \in {"shown", "pshown", "ended"}
  <2>1. r.at = m[t].at /\ r.ends = m[t].ends /\ r.at \in {"shown", "pshown", "ended"}
    BY <1>1, <1>2, SMT DEF Move, Goes, Leaves
  <2> QED BY <2>1, ModeOf
<1> DEFINE n == With(m, t, r)
<1>5. Shape(n)'
  <2>1. CASE Then(t, <<>>) BY <2>1, <1>1, <1>2, Drop DEF Inv
  <2>2. CASE Then(t, <<"flush">>)
    <3>1. Move(r, "flush", r) BY <1>4 DEF Move, Goes, Leaves
    <3> QED BY <2>2, <3>1, <1>1, <1>2, LeadsMove, Replace DEF Inv, Ops
  <2> QED BY <2>1, <2>2 DEF Edge
<1>6. Typed' BY TicksAssumption, SMT DEF Inv, Typed, Edge
<1>7. n \in [Threads -> Modes] BY WithModes
<1>8. ModeInv(n)'
  <2> HIDE DEF n
  <2> QED BY <1>3, <1>4, WithModes, SMT DEF n, Inv, ModeInv, Edge
<1> QED BY <1>5, <1>6, <1>7, <1>8 DEF IInv, Inv

\* A status is set by setPlayStatus or by phase 1 of a pulse.
LEMMA StatusMove ==
  ASSUME NEW m \in [Threads -> Modes], Inv(m), NEW t \in Threads, NEW s \in Statuses,
         NEW r \in Modes, Move(m[t], s, r)
  PROVE  \/ /\ m[t].at = "held" /\ r.at = "shown"
            /\ \/ s = "playing" /\ m[t].ends = "play" /\ r.ends = "none"
               \/ s = "playing" /\ m[t].ends = "playStart" /\ r.ends = "start"
               \/ s # "playing" /\ m[t].ends \in {"stop", "turn"} /\ r.ends = m[t].ends
         \/ m[t].at = "pulsing" /\ r.at = "pshown" /\ s = "paused" /\ r.ends = m[t].ends
<1>1. m[t].at # "argument" BY DEF Inv, ModeInv
<1> QED BY <1>1, SMT DEF Move, Goes, Leaves

LEMMA SameStatusKeeps ==
  ASSUME NEW m \in [Threads -> Modes], Inv(m), NEW t \in Threads, NEW s \in Statuses,
         SameStatus(t, s), OthersSame
  PROVE  IInv'
<1>1. PICK r \in Modes : Move(m[t], s, r) /\ Via(Tail(todo[t]), r, Done)
  BY Advance DEF Inv, SameStatus
<1>2. t = "callback" => listener # "main" BY Advance DEF Inv, SameStatus
<1>3. \/ /\ m[t].at = "held" /\ r.at = "shown"
         /\ \/ s = "playing" /\ m[t].ends = "play" /\ r.ends = "none"
            \/ s = "playing" /\ m[t].ends = "playStart" /\ r.ends = "start"
            \/ s # "playing" /\ m[t].ends \in {"stop", "turn"} /\ r.ends = m[t].ends
      \/ m[t].at = "pulsing" /\ r.at = "pshown" /\ s = "paused" /\ r.ends = m[t].ends
  BY <1>1, StatusMove
<1> DEFINE n == With(m, t, r)
<1>4. Shape(n)'
  <2>1. CASE Then(t, <<>>) BY <2>1, <1>1, Drop DEF Inv, SameStatus
  <2>2. CASE Then(t, <<"flush">>)
    <3>1. Move(r, "flush", r) BY <1>3 DEF Move, Goes, Leaves
    <3> QED BY <2>2, <3>1, <1>1, LeadsMove, Replace DEF Inv, Ops, SameStatus
  <2> QED BY <2>1, <2>2 DEF SameStatus
<1>5. Typed' BY DEF Inv, Typed, SameStatus
<1>6. n \in [Threads -> Modes] BY WithModes
<1>7. ModeInv(n)'
  <2> HIDE DEF n
  <2> QED BY <1>2, <1>3, WithModes, SMT DEF n, Inv, ModeInv, SameStatus
<1> QED BY <1>4, <1>5, <1>6, <1>7 DEF IInv, Inv

LEMMA NewStatusKeeps ==
  ASSUME NEW m \in [Threads -> Modes], Inv(m), NEW t \in Threads, NEW s \in Statuses,
         NewStatus(t, s), OthersSame
  PROVE  IInv'
<1>1. PICK r \in Modes : Move(m[t], s, r) /\ Via(Tail(todo[t]), r, Done)
  BY Advance DEF Inv, NewStatus
<1>2. t = "callback" => listener # "main" BY Advance DEF Inv, NewStatus
<1>3. \/ /\ m[t].at = "held" /\ r.at = "shown"
         /\ \/ s = "playing" /\ m[t].ends = "play" /\ r.ends = "none"
            \/ s = "playing" /\ m[t].ends = "playStart" /\ r.ends = "start"
            \/ s # "playing" /\ m[t].ends \in {"stop", "turn"} /\ r.ends = m[t].ends
      \/ m[t].at = "pulsing" /\ r.at = "pshown" /\ s = "paused" /\ r.ends = m[t].ends
  BY <1>1, StatusMove
<1> DEFINE q == Mode(IF r.at = "shown" THEN "set" ELSE "pset", r.ends)
           n == With(m, t, q)
<1>4. /\ q \in Modes /\ q.ends = r.ends
      /\ \/ m[t].at = "held" /\ q.at = "set" /\ r.at = "shown"
         \/ m[t].at = "pulsing" /\ q.at = "pset" /\ r.at = "pshown"
  BY <1>3, ModeOf DEF Modes, Ats
<1> HIDE DEF q
<1>5. Shape(n)'
  <2>1. Move(q, "flush", r) /\ Move(r, "edge", r) BY <1>4 DEF Move, Goes, Leaves
  <2>2. Leads(<<"flush", "edge">>, q, r) BY <2>1, <1>4, LeadsMove, LeadsTwo DEF Ops
  <2> QED BY <2>2, <1>1, Replace DEF Inv, NewStatus
<1>6. Typed' BY DEF Inv, Typed, NewStatus
<1>7. n \in [Threads -> Modes] BY <1>4, WithModes
<1>8. ModeInv(n)'
  <2> HIDE DEF n
  <2> QED BY <1>2, <1>3, <1>4, WithModes, SMT DEF n, Inv, ModeInv, NewStatus
<1> QED BY <1>5, <1>6, <1>7, <1>8 DEF IInv, Inv

LEMMA SeekKeeps ==
  ASSUME NEW m \in [Threads -> Modes], Inv(m), NEW t \in Threads, Seek(t), OthersSame
  PROVE  IInv'
<1>1. PICK r \in Modes : Move(m[t], "seek", r) /\ Via(Tail(todo[t]), r, Done)
  BY Advance DEF Inv, Seek
<1>2. t = "callback" => listener # "main" BY Advance DEF Inv, Seek
<1>3. m[t].at = "held" /\ r.at = "sought" /\ r.ends = m[t].ends
  BY <1>1, SMT DEF Move, Goes, Leaves
<1>4. Typed'
  <2>1. posTrack' \in Tracks BY DEF Inv, Typed, Seek
  <2> QED BY <2>1 DEF Inv, Typed, Seek
<1>5. CASE freshLeft > 0
  <2> DEFINE n == With(m, t, r)
  <2>1. Shape(n)' BY <1>1, <1>5, Drop DEF Inv, Seek
  <2>2. n \in [Threads -> Modes] BY WithModes
  <2>3. ModeInv(n)'
    <3> HIDE DEF n
    <3> QED BY <1>2, <1>3, <1>5, WithModes, SMT DEF n, Inv, ModeInv, Seek
  <2> QED BY <1>4, <2>1, <2>2, <2>3 DEF IInv, Inv
<1>6. CASE ~(freshLeft > 0)
  <2> DEFINE q == m[t]
             rest == Tail(Tail(todo[t]))
             n == With(m, t, q)
  <2>1. todo[t] \in Seq(Ops) /\ todo[t] # <<>> /\ Tail(todo[t]) \in Seq(Ops)
    BY SMT DEF Inv, Shape, Seek, Doing
  <2>2. Tail(todo[t]) # <<>> BY <1>1, <1>3, NotOver
  <2>3. PICK u \in Modes : Move(r, Head(Tail(todo[t])), u) /\ Via(rest, u, Done)
    BY <1>1, <2>1, <2>2, ViaTail
  <2>4. rest \in Seq(Ops) BY <2>1, <2>2, SMT
  <2>5. u = Mode("free", q.ends)
    <3>1. u.at = "free" /\ u.ends = q.ends BY <1>3, <2>3, AfterSeek
    <3> QED BY <3>1, ModeOf
  <2>6. q \in Modes /\ q.at = "held" /\ q.ends \in Ends BY <1>3, ModeOf
  <2> HIDE DEF q, rest
  <2>7. Leads(<<"flush", "unlock">> \o WakePlayStateChanged, q, u)
    <3>1. Move(q, "flush", q) /\ Move(q, "unlock", u) BY <2>5, <2>6 DEF Move, Goes, Leaves
    <3>2. Leads(<<"flush", "unlock">>, q, u) BY <3>1, <2>6, LeadsMove, LeadsTwo DEF Ops
    <3>3. Leads(WakePlayStateChanged, u, u) BY <2>5, <2>6, LeadsWake
    <3> QED BY <3>2, <3>3, LeadsConcat
  <2> DEFINE ops == <<"flush", "unlock">> \o WakePlayStateChanged
  <2>8. todo' = [todo EXCEPT ![t] = ops \o rest] BY <1>6 DEF Seek, rest
  <2> HIDE DEF ops
  <2>9. ops \in Seq(Ops) /\ Via(ops, q, u) BY <2>7 DEF Leads, ops
  <2>10. ops \o rest \in Seq(Ops) /\ Via(ops \o rest, q, Done)
    BY <2>3, <2>4, <2>9, ViaConcat, SMT
  <2>11. Shape(n)' BY <1>2, <2>6, <2>8, <2>10, Resume DEF Inv
  <2>12. n \in [Threads -> Modes] BY <2>6, WithModes
  <2>13. ModeInv(n)'
    <3> HIDE DEF n
    <3>1. q = m[t] BY DEF q
    <3> QED BY <1>2, <1>3, <2>6, <3>1, <1>6, WithModes, SMT DEF n, Inv, ModeInv, Seek
  <2> QED BY <1>4, <2>11, <2>12, <2>13 DEF IInv, Inv
<1> QED BY <1>5, <1>6

LEMMA PulseKeeps ==
  ASSUME NEW m \in [Threads -> Modes], Inv(m), NEW t \in Threads, Pulse(t), OthersSame
  PROVE  IInv'
<1>1. PICK r \in Modes : Move(m[t], "pulse", r) /\ Via(Tail(todo[t]), r, Done)
  BY Advance DEF Inv, Pulse
<1>2. t = "callback" => listener # "main" BY Advance DEF Inv, Pulse
<1>3. m[t].at = "held" /\ r.at = "held" /\ r.ends = m[t].ends
  BY <1>1, SMT DEF Move, Goes, Leaves
<1>4. Typed' BY DEF Inv, Typed, Pulse
<1>5. PICK q \in Modes : q = IF status = "playing" THEN Mode("pulsing", r.ends) ELSE r
  <2>1. Mode("pulsing", r.ends) \in Modes BY ModeOf DEF Modes, Ats
  <2> QED BY <2>1
<1> DEFINE n == With(m, t, q)
<1>6. Shape(n)'
  <2>1. CASE status = "playing"
    <3>1. r = Mode("held", r.ends) /\ r.ends \in Ends BY <1>3, ModeOf
    <3>2. Leads(<<"paused">> \o WakePlayStateChanged \o <<"post">>, q, r)
      BY <1>5, <2>1, <3>1, LeadsPulse
    <3> QED BY <1>1, <2>1, <3>2, Replace DEF Inv, Pulse
  <2>2. CASE status # "playing" BY <1>1, <1>5, <2>2, Drop DEF Inv, Pulse
  <2> QED BY <2>1, <2>2
<1>7. n \in [Threads -> Modes] BY <1>5, WithModes
<1>8. q.ends = m[t].ends /\ q.at \in {"held", "pulsing"} BY <1>3, <1>5
<1>9. ModeInv(n)'
  <2> HIDE DEF n
  <2>1. UNCHANGED <<player, fields, wake, monitor, file, sent, timers, loading, changing,
                    listener>>
    BY DEF Pulse
  <2> QED BY <1>2, <1>3, <1>5, <1>8, <2>1, WithModes, SMT DEF n, Inv, ModeInv
<1> QED BY <1>4, <1>6, <1>7, <1>9 DEF IInv, Inv

\* The gate goes on to broadcast, or samples the status first.
LEMMA GateKeeps ==
  ASSUME NEW m \in [Threads -> Modes], Inv(m), NEW t \in Threads, Gate(t), OthersSame
  PROVE  IInv'
<1>1. PICK r \in Modes : Move(m[t], "gate", r) /\ Via(Tail(todo[t]), r, Done)
  BY Advance DEF Inv, Gate
<1>2. t = "callback" => listener # "main" BY Advance DEF Inv, Gate
<1>3. /\ r.ends = m[t].ends
      /\ \/ m[t].at \in {"free", "waking"} /\ r.at = "free"
         \/ m[t].at = "pshown" /\ r.at = "posting"
  BY <1>1, SMT DEF Move, Goes, Leaves
<1>4. Typed' BY DEF Inv, Typed, Gate
<1>5. PICK a \in Ats :
        a = IF r.at = "free"
              THEN IF rateLeft = 0 THEN "passing" ELSE "sampling"
              ELSE IF rateLeft = 0 THEN "ppassing" ELSE "psampling"
  BY DEF Ats
<1> DEFINE q == Mode(a, r.ends)
           n == With(m, t, q)
<1>6. r.ends \in Ends /\ r = Mode(r.at, r.ends) BY ModeOf
<1>7. Shape(n)'
  <2>1. CASE rateLeft = 0
    <3>1. Leads(Proceed, q, r) BY <1>3, <1>5, <1>6, <2>1, LeadsProceed
    <3>2. Then(t, Proceed) BY <2>1 DEF Gate
    <3> QED BY <1>1, <3>1, <3>2, Replace DEF Inv, Gate
  <2>2. CASE rateLeft # 0
    <3>1. Leads(<<"sample", "compare">>, q, r) BY <1>3, <1>5, <1>6, <2>2, LeadsSample
    <3>2. Then(t, <<"sample", "compare">>) BY <2>2 DEF Gate
    <3> QED BY <1>1, <3>1, <3>2, Replace DEF Inv, Gate
  <2> QED BY <2>1, <2>2
<1>8. /\ q \in Modes /\ q.ends = m[t].ends
      /\ \/ m[t].at \in {"free", "waking"} /\ q.at \in {"passing", "sampling"}
         \/ m[t].at = "pshown" /\ q.at \in {"ppassing", "psampling"}
  BY <1>3, <1>5, <1>6 DEF Modes
<1> HIDE DEF q
<1>9. n \in [Threads -> Modes] BY <1>8, WithModes
<1>10. ModeInv(n)'
  <2> HIDE DEF n
  <2>1. UNCHANGED <<player, fields, wake, monitor, file, sent, timers, loading, changing,
                    listener>>
    BY DEF Gate
  <2> QED BY <1>2, <1>8, <2>1, WithModes, SMT DEF n, Inv, ModeInv
<1> QED BY <1>4, <1>7, <1>9, <1>10 DEF IInv, Inv

\* A status that is compared equal to the one last noted is not broadcast.
LEMMA CompareKeeps ==
  ASSUME NEW m \in [Threads -> Modes], Inv(m), NEW t \in Threads, Compare(t), OthersSame
  PROVE  IInv'
<1>1. PICK r \in Modes : Move(m[t], "compare", r) /\ Via(Tail(todo[t]), r, Done)
  BY Advance DEF Inv, Compare
<1>2. t = "callback" => listener # "main" BY Advance DEF Inv, Compare
<1>3. /\ r.ends = m[t].ends
      /\ \/ m[t].at = "sampled" /\ r.at = "free"
         \/ m[t].at = "psampled" /\ r.at = "posting"
  BY <1>1, SMT DEF Move, Goes, Leaves
<1>4. Typed' BY DEF Inv, Typed, Compare
<1>5. \A u \in Threads : u # t => seen'[u] = seen[u] BY DEF Inv, Typed, Compare
<1>6. CASE Suppressed(t)
  <2> DEFINE n == With(m, t, r)
  <2>1. Then(t, <<>>) BY <1>6 DEF Compare
  <2>2. Shape(n)' BY <1>1, <2>1, Drop DEF Inv, Compare
  <2>3. n \in [Threads -> Modes] BY WithModes
  <2>4. ModeInv(n)'
    <3> HIDE DEF n
    <3>1. wokeAs = seen[t] BY <1>6 DEF Suppressed
    <3> QED BY <1>2, <1>3, <1>5, <3>1, WithModes, SMT DEF n, Inv, ModeInv, Compare
  <2> QED BY <1>4, <2>2, <2>3, <2>4 DEF IInv, Inv
<1>7. CASE ~Suppressed(t)
  <2> DEFINE a == IF r.at = "free" THEN "passing" ELSE "ppassing"
             q == Mode(a, r.ends)
             n == With(m, t, q)
  <2>1. r.ends \in Ends /\ r = Mode(r.at, r.ends) BY ModeOf
  <2>2. Leads(Proceed, q, r) BY <1>3, <2>1, LeadsProceed
  <2>3. Then(t, Proceed) BY <1>7 DEF Compare
  <2>4. Shape(n)' BY <1>1, <2>2, <2>3, Replace DEF Inv, Compare
  <2>5. /\ a \in Ats
        /\ \/ m[t].at = "sampled" /\ a = "passing"
           \/ m[t].at = "psampled" /\ a = "ppassing"
    BY <1>3 DEF Ats
  <2> HIDE DEF a
  <2>6. q \in Modes /\ q.at = a /\ q.ends = m[t].ends BY <1>3, <2>1, <2>5 DEF Modes
  <2>7. n \in [Threads -> Modes] BY <2>6, WithModes
  <2>8. ModeInv(n)'
    <3> HIDE DEF n, q
    <3> QED BY <1>2, <1>5, <2>5, <2>6, WithModes, SMT DEF n, Inv, ModeInv, Compare
  <2> QED BY <1>4, <2>4, <2>7, <2>8 DEF IInv, Inv
<1> QED BY <1>6, <1>7

LEMMA PauseGuardKeeps ==
  ASSUME NEW m \in [Threads -> Modes], Inv(m), NEW t \in Threads, PauseGuard(t),
         UNCHANGED listener
  PROVE  IInv'
<1>1. PICK r \in Modes : Move(m[t], "pauseGuard", r) /\ Via(Tail(todo[t]), r, Done)
  BY Advance DEF Inv, PauseGuard
<1>2. t = "callback" => listener # "main" BY Advance DEF Inv, PauseGuard
<1>3. /\ m[t].at = "free" /\ r.at = "free"
      /\ \/ m[t].ends = "value" /\ r.ends = "none"
         \/ m[t].ends = "turning" /\ r.ends = "source"
  BY <1>1, SMT DEF Move, Goes, Leaves
<1>4. Typed' BY DEF Inv, Typed, PauseGuard
<1> DEFINE e == IF r.ends = "none" THEN "stop" ELSE "turn"
           q == Mode("free", e)
           n == With(m, t, q)
<1>5. e \in Ends /\ r.ends \in Ends /\ r = Mode("free", r.ends) BY <1>3, ModeOf DEF Ends
<1>6. \/ e = "stop" /\ r.ends = "none"
      \/ e = "turn" /\ r.ends = "source"
  BY <1>3
<1>7. q \in Modes BY <1>5 DEF Modes, Ats
<1> HIDE DEF e
<1>8. Shape(n)'
  <2>1. Leads(AfterPlayValue("paused"), q, r) BY <1>5, <1>6, LeadsAfterPause
  <2>2. Leads(SetPlayStatus("paused") \o WakePlayStateChanged, q, q) BY <1>5, <1>6, LeadsSet
  <2>3. Leads(SetPlayStatus("paused") \o WakePlayStateChanged \o AfterPlayValue("paused"), q, r)
    BY <2>1, <2>2, LeadsConcat
  <2>4. CASE guardLeft > 0 BY <1>1, <2>1, <2>4, Replace DEF Inv, PauseGuard
  <2>5. CASE ~(guardLeft > 0) BY <1>1, <2>3, <2>5, Replace DEF Inv, PauseGuard
  <2> QED BY <2>4, <2>5
<1>9. n \in [Threads -> Modes] BY <1>7, WithModes
<1>10. ModeInv(n)'
  <2>1. q.at = "free" /\ q.ends = e OBVIOUS
  <2> HIDE DEF n, q
  <2> QED BY <1>2, <1>3, <1>6, <1>7, <2>1, WithModes, SMT DEF n, Inv, ModeInv, PauseGuard
<1> QED BY <1>4, <1>8, <1>9, <1>10 DEF IInv, Inv

LEMMA ReportKeeps ==
  ASSUME NEW m \in [Threads -> Modes], Inv(m), NEW t \in Threads, Report(t),
         UNCHANGED listener
  PROVE  IInv'
<1>1. PICK r \in Modes : Move(m[t], "report", r) /\ Via(Tail(todo[t]), r, Done)
  BY Advance DEF Inv, Report
<1>2. t = "callback" => listener # "main" BY Advance DEF Inv, Report
<1>3. /\ m[t].at = "free" /\ r.at = "argument"
      /\ m[t].ends = "value" /\ r.ends = "none"
  BY <1>1, SMT DEF Move, Goes, Leaves
<1>4. Typed' BY DEF Inv, Typed, Report
<1> DEFINE l == Tail(todo[t])
           s == todo[t][2]
<1>5. todo[t] \in Seq(Ops) /\ todo[t] # <<>> /\ l \in Seq(Ops)
  BY SMT DEF Inv, Shape, Report, Doing
<1>6. l # <<>> BY <1>1, <1>3, NotOver
<1>7. s = Head(l) /\ SubSeq(todo[t], 3, Len(todo[t])) = Tail(l) /\ Tail(l) \in Seq(Ops)
  <2>1. s = Head(l) /\ Tail(l) \in Seq(Ops) BY <1>5, <1>6, SMT
  <2>2. SubSeq(todo[t], 3, Len(todo[t])) \in Seq(Ops) BY <1>5, <1>6, SMT
  <2>3. Len(SubSeq(todo[t], 3, Len(todo[t]))) = Len(Tail(l)) BY <1>5, <1>6, SMT
  <2>4. \A i \in 1 .. Len(Tail(l)) : SubSeq(todo[t], 3, Len(todo[t]))[i] = Tail(l)[i]
    BY <1>5, <1>6, SMT
  <2> HIDE DEF l, s
  <2>5. SubSeq(todo[t], 3, Len(todo[t])) = Tail(l) BY <2>1, <2>2, <2>3, <2>4, SeqEqual
  <2> QED BY <2>1, <2>5
<1> HIDE DEF l, s
<1>8. PICK u \in Modes : Move(r, Head(l), u) /\ Via(Tail(l), u, Done)
  BY <1>1, <1>5, <1>6, ViaTail DEF l
<1>9. s \in Statuses /\ u = Done
  <2>1. s \in Statuses /\ u.at = "free" /\ u.ends = "none"
    BY <1>3, <1>7, <1>8, SMT DEF Move, Goes, Leaves
  <2> QED BY <2>1, ModeOf
<1>10. PICK e \in Ends : e = IF s = "playing" THEN "playStart" ELSE "stop"
  BY DEF Ends
<1> DEFINE q == Mode("free", e)
           n == With(m, t, q)
           ops == SetPlayStatus(s) \o WakePlayStateChanged \o AfterPlayValue(s)
<1>11. q \in Modes /\ q.at = "free" /\ q.ends \in {"playStart", "stop"} BY <1>10 DEF Modes, Ats
<1>12. Leads(ops, q, Done)
  <2>1. CASE s = "playing"
    <3>1. Leads(SetPlayStatus(s) \o WakePlayStateChanged, q, Mode("free", "start"))
      BY <1>9, <1>10, <2>1, LeadsSet DEF Ends
    <3> QED BY <2>1, <3>1, LeadsAfterPlaying, LeadsConcat
  <2>2. CASE s # "playing"
    <3>1. Leads(SetPlayStatus(s) \o WakePlayStateChanged, q, q)
      BY <1>9, <1>10, <2>2, LeadsSet DEF Ends
    <3>2. s \in {"stopped", "paused"} BY <1>9, <2>2
    <3>3. "stop" \in Ends /\ "none" \in Ends BY DEF Ends
    <3>4. Leads(AfterPlayValue(s), Mode("free", "stop"), Mode("free", "none"))
      BY <3>2, <3>3, LeadsAfterPause
    <3>5. Leads(AfterPlayValue(s), q, Done) BY <1>10, <2>2, <3>4
    <3> QED BY <3>1, <3>5, LeadsConcat
  <2> QED BY <2>1, <2>2
<1>13. todo' = [todo EXCEPT ![t] = ops \o Tail(l)]
  <2>1. todo' = [todo EXCEPT ![t] = ops \o SubSeq(todo[t], 3, Len(todo[t]))] BY DEF Report, s
  <2> QED BY <2>1, <1>7
<1> HIDE DEF ops, q
<1>14. ops \in Seq(Ops) /\ Via(ops, q, Done) BY <1>12 DEF Leads
<1>15. ops \o Tail(l) \in Seq(Ops) BY <1>7, <1>14, SMT
<1>16. Via(ops \o Tail(l), q, Done) BY <1>7, <1>8, <1>9, <1>14, ViaConcat
<1>17. Shape(n)' BY <1>2, <1>11, <1>13, <1>15, <1>16, Resume DEF Inv
<1>18. n \in [Threads -> Modes] BY <1>11, WithModes
<1>19. ModeInv(n)'
  <2> HIDE DEF n
  <2>1. UNCHANGED <<player, fields, wake, monitor, file, sent, timers, loading, changing,
                    listener>>
    BY DEF Report
  <2> QED BY <1>2, <1>3, <1>11, <2>1, WithModes, SMT DEF n, Inv, ModeInv
<1> HIDE DEF n
<1> QED BY <1>4, <1>17, <1>18, <1>19 DEF IInv, Inv

LEMMA SetDataSourceKeeps ==
  ASSUME NEW m \in [Threads -> Modes], Inv(m), NEW t \in Threads, SetDataSource(t),
         UNCHANGED listener
  PROVE  IInv'
<1>1. PICK r \in Modes : Move(m[t], "source", r) /\ Via(Tail(todo[t]), r, Done)
  BY Advance DEF Inv, SetDataSource
<1>2. t = "callback" => listener # "main" BY Advance DEF Inv, SetDataSource
<1>3. m[t].at = "free" /\ m[t].ends = "source" /\ r = Done
  <2>1. m[t].at = "free" /\ r.at = "free" /\ m[t].ends = "source" /\ r.ends = "none"
    BY <1>1, SMT DEF Move, Goes, Leaves
  <2> QED BY <2>1, ModeOf
<1>4. Typed'
  <2>1. prepared' \in BOOLEAN BY DEF SetDataSource
  <2> QED BY <2>1 DEF Inv, Typed, SetDataSource
<1> DEFINE q == Mode("sourced", "none")
           n == With(m, t, q)
<1>5. q \in Modes /\ q.at = "sourced" /\ q.ends = "none" BY DEF Modes, Ats, Ends
<1>6. Shape(n)' BY <1>1, <1>3, LeadsEarlyTrackChange, Replace DEF Inv, SetDataSource
<1>7. n \in [Threads -> Modes] BY <1>5, WithModes
<1>8. ModeInv(n)'
  <2> HIDE DEF n, q
  <2> QED BY <1>2, <1>3, <1>5, WithModes, SMT DEF n, Inv, ModeInv, SetDataSource
<1> QED BY <1>4, <1>6, <1>7, <1>8 DEF IInv, Inv

LEMMA RestoreKeeps ==
  ASSUME NEW m \in [Threads -> Modes], Inv(m), NEW t \in Threads, Restore(t), UNCHANGED listener
  PROVE  IInv'
<1>1. PICK r \in Modes : Move(m[t], "restore", r) /\ Via(Tail(todo[t]), r, Done)
  BY Advance DEF Inv, Restore
<1>2. t = "callback" => listener # "main" BY Advance DEF Inv, Restore
<1>3. r = m[t] /\ r.at = "free"
  <2>1. r.at = m[t].at /\ r.ends = m[t].ends /\ r.at = "free"
    BY <1>1, SMT DEF Move, Goes, Leaves
  <2> QED BY <2>1, ModeOf
<1> DEFINE n == With(m, t, r)
<1>4. Shape(n)'
  <2>1. CASE Then(t, <<>>) BY <1>1, <2>1, Drop DEF Inv, Restore
  <2>2. CASE Then(t, OnSeek)
    <3>1. r = Mode("free", r.ends) /\ r.ends \in Ends BY <1>3, ModeOf
    <3>2. Leads(OnSeek, r, r) BY <3>1, LeadsSeek
    <3> QED BY <1>1, <2>2, <3>2, Replace DEF Inv, Restore
  <2> QED BY <2>1, <2>2 DEF Restore
<1>5. Typed' BY DEF Inv, Typed, Restore
<1>6. n \in [Threads -> Modes] BY WithModes
<1>7. ModeInv(n)'
  <2> HIDE DEF n
  <2>1. UNCHANGED <<player, fields, wake, monitor, file, sent, timers, loading, changing,
                    listener>>
    BY DEF Restore
  <2> QED BY <1>2, <1>3, <2>1, WithModes, SMT DEF n, Inv, ModeInv
<1> QED BY <1>4, <1>5, <1>6, <1>7 DEF IInv, Inv

-----------------------------------------------------------------------------
(* The looper, the user and the engine.                                    *)

LEMMA TickerRunKeeps ==
  ASSUME NEW m \in [Threads -> Modes], Inv(m), TickerRun, UNCHANGED listener
  PROVE  IInv'
<1>1. PICK t \in Threads : t = "main" OBVIOUS
<1>2. PICK q \in Modes : q = Mode("free", "start") BY DoneMode DEF Modes, Ats, Ends
<1> DEFINE n == With(m, t, q)
<1>3. m[t] = Done /\ Shape(n)' BY <1>1, <1>2, LeadsTicker, Begin DEF Inv, TickerRun
<1>4. Typed' BY DEF Inv, Typed, TickerRun
<1>5. n \in [Threads -> Modes] BY WithModes
<1>6. ModeInv(n)'
  <2> HIDE DEF n
  <2> QED BY <1>1, <1>2, <1>3, WithModes, SMT DEF n, Inv, ModeInv, TickerRun, Off
<1> QED BY <1>3, <1>4, <1>5, <1>6 DEF IInv, Inv

LEMMA LeadsPulseRun ==
  Leads(SetPlayStatus("playing") \o WakePlayStateChanged, Mode("free", "play"), Done)
  BY LeadsSet DEF Ends

LEMMA PulseRunKeeps ==
  ASSUME NEW m \in [Threads -> Modes], Inv(m), PulseRun, UNCHANGED listener
  PROVE  IInv'
<1>1. PICK t \in Threads : t = "main" OBVIOUS
<1>2. PICK q \in Modes : q = Mode("free", "play") BY DoneMode DEF Modes, Ats, Ends
<1> DEFINE n == With(m, t, q)
<1>3. m[t] = Done /\ Shape(n)' BY <1>1, <1>2, LeadsPulseRun, Begin DEF Inv, PulseRun
<1>4. Typed' BY DEF Inv, Typed, PulseRun
<1>5. n \in [Threads -> Modes] BY WithModes
<1>6. ModeInv(n)'
  <2> HIDE DEF n
  <2> QED BY <1>1, <1>2, <1>3, WithModes, SMT DEF n, Inv, ModeInv, PulseRun
<1> QED BY <1>3, <1>4, <1>5, <1>6 DEF IInv, Inv

LEMMA SetPlayValueKeeps ==
  ASSUME NEW m \in [Threads -> Modes], Inv(m), SetPlayValue, UNCHANGED listener
  PROVE  IInv'
<1>1. PICK t \in Threads : t = "main" OBVIOUS
<1>2. PICK q \in Modes : q = Mode("free", "value") BY DoneMode DEF Modes, Ats, Ends
<1> DEFINE n == With(m, t, q)
<1>3. m[t] = Done /\ Shape(n)'
  BY <1>1, <1>2, LeadsOnPlayValue, Begin, PlayValuesAssumption DEF Inv, SetPlayValue
<1>4. Typed' BY DEF Inv, Typed, SetPlayValue
<1>5. n \in [Threads -> Modes] BY WithModes
<1>6. ModeInv(n)'
  <2> HIDE DEF n
  <2> QED BY <1>1, <1>2, <1>3, WithModes, SMT DEF n, Inv, ModeInv, SetPlayValue
<1> QED BY <1>3, <1>4, <1>5, <1>6 DEF IInv, Inv

LEMMA ChangeTrackKeeps ==
  ASSUME NEW m \in [Threads -> Modes], Inv(m), ChangeTrack, UNCHANGED listener
  PROVE  IInv'
<1>1. PICK t \in Threads : t = "main" OBVIOUS
<1>2. PICK q \in Modes : q = Mode("free", "turning") BY DoneMode DEF Modes, Ats, Ends
<1> DEFINE n == With(m, t, q)
<1>3. m[t] = Done /\ Shape(n)' BY <1>1, <1>2, LeadsChangeTrack, Begin DEF Inv, ChangeTrack
<1>4. Typed'
  <2>1. changing' \in BOOLEAN BY DEF ChangeTrack
  <2>2. guardLeft' \in 0 .. GuardTicks BY TimersAssumption, SMT DEF ChangeTrack
  <2> QED BY <2>1, <2>2 DEF Inv, Typed, ChangeTrack
<1>5. n \in [Threads -> Modes] BY WithModes
<1>6. ModeInv(n)'
  <2> HIDE DEF n
  <2> QED BY <1>1, <1>2, <1>3, WithModes, SMT DEF n, Inv, ModeInv, ChangeTrack
<1> QED BY <1>3, <1>4, <1>5, <1>6 DEF IInv, Inv

LEMMA EnginePreparedKeeps ==
  ASSUME NEW m \in [Threads -> Modes], Inv(m), EnginePrepared, UNCHANGED listener
  PROVE  IInv'
<1>1. PICK t \in Threads : t = listener /\ (t = "callback" => listener # "main")
  BY DEF Inv, Typed
<1>2. PICK q \in Modes : q = Done BY DoneMode DEF Modes, Ats, Ends
<1> DEFINE n == With(m, t, q)
<1>3. m[t] = Done /\ Shape(n)' BY <1>1, <1>2, LeadsPrepared, Begin DEF Inv, EnginePrepared
<1>4. Typed' BY DEF Inv, Typed, EnginePrepared
<1>5. n \in [Threads -> Modes] BY WithModes
<1>6. ModeInv(n)'
  <2> HIDE DEF n
  <2> QED BY <1>1, <1>2, <1>3, WithModes, SMT DEF n, Inv, ModeInv, EnginePrepared
<1> QED BY <1>3, <1>4, <1>5, <1>6 DEF IInv, Inv

LEMMA EngineFailsKeeps ==
  ASSUME NEW m \in [Threads -> Modes], Inv(m), EngineFails, UNCHANGED listener
  PROVE  IInv'
<1>1. PICK t \in Threads : t = listener /\ (t = "callback" => listener # "main")
  BY DEF Inv, Typed
<1>2. PICK q \in Modes : q = Done BY DoneMode DEF Modes, Ats, Ends
<1> DEFINE n == With(m, t, q)
<1>3. m[t] = Done /\ Shape(n)' BY <1>1, <1>2, LeadsError, Begin DEF Inv, EngineFails
<1>4. Typed' BY DEF Inv, Typed, EngineFails
<1>5. n \in [Threads -> Modes] BY WithModes
<1>6. ModeInv(n)'
  <2> HIDE DEF n
  <2> QED BY <1>1, <1>2, <1>3, WithModes, SMT DEF n, Inv, ModeInv, EngineFails
<1> QED BY <1>3, <1>4, <1>5, <1>6 DEF IInv, Inv

LEMMA EngineCompletesKeeps ==
  ASSUME NEW m \in [Threads -> Modes], Inv(m), EngineCompletes, UNCHANGED listener
  PROVE  IInv'
<1>1. PICK t \in Threads : t = listener /\ (t = "callback" => listener # "main")
  BY DEF Inv, Typed
<1>2. PICK q \in Modes : q = Mode("free", "halt") BY DoneMode DEF Modes, Ats, Ends
<1> DEFINE n == With(m, t, q)
<1>3. m[t] = Done /\ Shape(n)' BY <1>1, <1>2, LeadsCompletion, Begin DEF Inv, EngineCompletes
<1>4. Typed' BY DEF Inv, Typed, EngineCompletes
<1>5. n \in [Threads -> Modes] BY WithModes
<1>6. ModeInv(n)'
  <2> HIDE DEF n
  <2> QED BY <1>1, <1>2, <1>3, WithModes, SMT DEF n, Inv, ModeInv, EngineCompletes
<1> QED BY <1>3, <1>4, <1>5, <1>6 DEF IInv, Inv

LEMMA UserSeeksKeeps ==
  ASSUME NEW m \in [Threads -> Modes], Inv(m), UserSeeks, UNCHANGED listener
  PROVE  IInv'
<1>1. PICK t \in Threads : t = "main" OBVIOUS
<1>2. PICK q \in Modes : q = Done BY DoneMode DEF Modes, Ats, Ends
<1> DEFINE n == With(m, t, q)
<1>3. m[t] = Done /\ Shape(n)' BY <1>1, <1>2, LeadsSeek, Begin DEF Ends, Inv, UserSeeks
<1>4. Typed' BY DEF Inv, Typed, UserSeeks
<1>5. n \in [Threads -> Modes] BY WithModes
<1>6. ModeInv(n)'
  <2> HIDE DEF n
  <2> QED BY <1>1, <1>2, <1>3, WithModes, SMT DEF n, Inv, ModeInv, UserSeeks
<1> QED BY <1>3, <1>4, <1>5, <1>6 DEF IInv, Inv

LEMMA OtherUpdateKeeps ==
  ASSUME NEW m \in [Threads -> Modes], Inv(m), OtherUpdate, UNCHANGED listener
  PROVE  IInv'
<1>1. PICK t \in Threads : t = "main" OBVIOUS
<1>2. PICK q \in Modes : q = Done BY DoneMode DEF Modes, Ats, Ends
<1> DEFINE n == With(m, t, q)
<1>3. m[t] = Done /\ Shape(n)' BY <1>1, <1>2, LeadsOtherUpdate, Begin DEF Inv, OtherUpdate
<1>4. Typed' BY DEF Inv, Typed, OtherUpdate
<1>5. n \in [Threads -> Modes] BY WithModes
<1>6. ModeInv(n)'
  <2> HIDE DEF n
  <2> QED BY <1>1, <1>2, <1>3, WithModes, SMT DEF n, Inv, ModeInv, OtherUpdate
<1> QED BY <1>3, <1>4, <1>5, <1>6 DEF IInv, Inv

LEMMA TickKeeps ==
  ASSUME NEW m \in [Threads -> Modes], Inv(m), Tick, UNCHANGED listener
  PROVE  IInv'
<1>1. /\ 0 .. FreshTicks \subseteq Nat /\ 0 .. RateTicks \subseteq Nat
      /\ GuardTicks \in 0 .. 98 /\ PulseTicks \in 0 .. 98 /\ TickTicks \in 0 .. 98
  BY TimersAssumption, SMT DEF Off
<1>2. \A k \in Nat : k <= 98 => \A x \in 0 .. k \cup {Off} :
        /\ Down(x) \in 0 .. k \cup {Off}
        /\ Down(x) = Off <=> x = Off
  BY SMT DEF Down, Off
<1>3. \A k \in Nat : \A x \in 0 .. k : Down(x) \in 0 .. k BY SMT DEF Down, Off
<1>4. /\ freshLeft' \in 0 .. FreshTicks /\ rateLeft' \in 0 .. RateTicks
      /\ guardLeft' \in 0 .. GuardTicks
      /\ pulse' \in 0 .. PulseTicks \cup {Off} /\ (pulse' = Off <=> pulse = Off)
      /\ ticker' \in 0 .. TickTicks \cup {Off} /\ (ticker' = Off <=> ticker = Off)
  <2>1. /\ freshLeft \in 0 .. FreshTicks /\ rateLeft \in 0 .. RateTicks
        /\ guardLeft \in 0 .. GuardTicks
        /\ pulse \in 0 .. PulseTicks \cup {Off} /\ ticker \in 0 .. TickTicks \cup {Off}
    BY DEF Inv, Typed
  <2>2. /\ FreshTicks \in Nat /\ RateTicks \in Nat
        /\ GuardTicks \in Nat /\ PulseTicks \in Nat /\ TickTicks \in Nat
        /\ PulseTicks <= 98 /\ TickTicks <= 98
    BY <1>1, TicksAssumption, SMT
  <2> QED BY <1>2, <1>3, <2>1, <2>2 DEF Tick
<1>5. Typed' BY <1>4 DEF Inv, Typed, Tick
<1>6. Shape(m)' BY DEF Inv, Shape, Tick
<1>7. ModeInv(m)' BY <1>4, SMT DEF Inv, ModeInv, Tick
<1> QED BY <1>5, <1>6, <1>7 DEF IInv, Inv

-----------------------------------------------------------------------------
(* The specification.                                                      *)

LEMMA Initially == Init => IInv
<1> SUFFICES ASSUME Init PROVE IInv OBVIOUS
<1> DEFINE m == [t \in Threads |-> Done]
<1>1. m \in [Threads -> Modes] BY DoneMode
<1>2. Typed
  <2>1. /\ prepared \in BOOLEAN /\ pending \in BOOLEAN /\ naturalEnd \in BOOLEAN
        /\ owedEnd \in BOOLEAN /\ changing \in BOOLEAN
    BY DEF Init, WriterInit
  <2>2. /\ freshLeft \in 0 .. FreshTicks /\ rateLeft \in 0 .. RateTicks
        /\ guardLeft \in 0 .. GuardTicks
    <3>1. GuardTicks \in Nat BY TimersAssumption, SMT
    <3> QED BY <3>1, TicksAssumption, SMT DEF Init, WriterInit
  <2>3. file \in [id : Tracks, status : Statuses, posTrack : Tracks, naturalEnd : BOOLEAN]
    BY DEF Init, WriterInit
  <2> QED BY <2>1, <2>2, <2>3 DEF Init, WriterInit, Typed
<1>3. Shape(m)
  <2>1. <<>> \in Seq(Ops) BY SMT
  <2>2. todo = [t \in Threads |-> <<>>] BY DEF Init, WriterInit
  <2>3. \A t \in Threads : Via(<<>>, Done, Done) BY ViaNone, DoneMode
  <2> QED BY <2>1, <2>2, <2>3 DEF Shape
<1>4. m["main"] = Done /\ m["callback"] = Done OBVIOUS
<1>5. ModeInv(m)
  <2> HIDE DEF m
  <2> QED BY <1>4, SMT DEF Init, WriterInit, ModeInv
<1> QED BY <1>1, <1>2, <1>3, <1>5 DEF IInv, Inv

LEMMA WriterStepKeeps ==
  ASSUME IInv, NEW t \in Threads, WriterStep(t), OthersSame
  PROVE  IInv'
<1> PICK m \in [Threads -> Modes] : Inv(m) BY DEF IInv
<1> USE DEF WriterStep
<1>1. CASE Lock(t) \/ Unlock(t) \/ Remember(t) \/ Flush(t) \/ Edge(t) \/ Latch(t)
  BY <1>1, LockKeeps, UnlockKeeps, RememberKeeps, FlushKeeps, EdgeKeeps, LatchKeeps
<1>2. CASE Reset(t) \/ Seek(t) \/ Completion(t) \/ Error(t) \/ Pulse(t)
  BY <1>2, ResetKeeps, SeekKeeps, CompletionKeeps, ErrorKeeps, PulseKeeps
<1>3. CASE Gate(t) \/ Load(t) \/ Compare(t) \/ Stamp(t) \/ Mark(t)
  BY <1>3, GateKeeps, LoadKeeps, CompareKeeps, StampKeeps, MarkKeeps
<1>4. CASE PlayState(t) \/ Meta(t) \/ ResetWakeRateLimit(t)
  BY <1>4, PlayStateKeeps, MetaKeeps, ResetWakeRateLimitKeeps
<1>5. CASE \E s \in Statuses : SameStatus(t, s) \/ NewStatus(t, s)
  BY <1>5, SameStatusKeeps, NewStatusKeeps
<1> QED BY <1>1, <1>2, <1>3, <1>4, <1>5

LEMMA StepKeeps ==
  ASSUME IInv, NEW t \in Threads, Step(t), UNCHANGED listener
  PROVE  IInv'
<1> PICK m \in [Threads -> Modes] : Inv(m) BY DEF IInv
<1>1. CASE WriterStep(t) /\ UNCHANGED <<timers, loading, changing>>
  <2>1. OthersSame BY <1>1
  <2> QED BY <1>1, <2>1, WriterStepKeeps
<1>2. CASE PauseGuard(t) \/ Report(t) \/ Start(t) \/ Stop(t) \/ Post(t)
  BY <1>2, PauseGuardKeeps, ReportKeeps, StartKeeps, StopKeeps, PostKeeps
<1>3. CASE SetDataSource(t) \/ PrepareAsync(t) \/ Restore(t) \/ PlayerIsPrepared(t)
  BY <1>3, SetDataSourceKeeps, PrepareAsyncKeeps, RestoreKeeps, PlayerIsPreparedKeeps
<1> QED BY <1>1, <1>2, <1>3 DEF Step

LEMMA Steadily == IInv /\ [Next]_vars => IInv'
<1> SUFFICES ASSUME IInv, [Next]_vars PROVE IInv' OBVIOUS
<1> PICK m \in [Threads -> Modes] : Inv(m) BY DEF IInv
<1>1. CASE UNCHANGED vars
  <2>1. Typed' BY <1>1 DEF vars, writerVars, Inv, Typed
  <2>2. Shape(m)' BY <1>1 DEF vars, writerVars, Inv, Shape
  <2>3. ModeInv(m)' BY <1>1, SMT DEF vars, writerVars, Inv, ModeInv
  <2> QED BY <2>1, <2>2, <2>3 DEF IInv, Inv
<1>2. CASE Next
  <2>1. UNCHANGED listener BY <1>2 DEF Next
  <2>2. CASE \E t \in Threads : Step(t) BY <2>1, <2>2, StepKeeps
  <2>3. CASE Looper BY <2>1, <2>3, TickerRunKeeps, PulseRunKeeps DEF Looper
  <2>4. CASE Environment
    BY <2>1, <2>4, SetPlayValueKeeps, ChangeTrackKeeps, EnginePreparedKeeps, EngineFailsKeeps,
       EngineCompletesKeeps, UserSeeksKeeps, OtherUpdateKeeps DEF Environment
  <2>5. CASE Tick BY <2>1, <2>5, TickKeeps
  <2> QED BY <1>2, <2>2, <2>3, <2>4, <2>5 DEF Next
<1> QED BY <1>1, <1>2

\* The invariant holds in every reachable state.
THEOREM Invariance == Spec => []IInv
<1> QED BY Initially, Steadily, PTL DEF Spec

\* Every variable has its type, and the holder of the monitor has not returned.
THEOREM TypeCorrect == Spec => []TypeOK
<1>1. IInv => TypeOK
  <2> SUFFICES ASSUME NEW m \in [Threads -> Modes], Inv(m) PROVE TypeOK BY DEF IInv
  <2>1. \A t \in Threads : owner = t => todo[t] # <<>>
    <3> SUFFICES ASSUME NEW t \in Threads, owner = t, todo[t] = <<>> PROVE FALSE OBVIOUS
    <3>1. m[t].at \in Holding BY DEF Inv, ModeInv
    <3>2. m[t] = Done BY IdleMode DEF Inv
    <3> QED BY <3>1, <3>2
  <2> QED BY <2>1 DEF Inv, Typed, TypeOK, WriterTypeOK
<1> QED BY <1>1, Invariance, PTL

\* Two threads that have returned are in the mode of the end.
LEMMA BothDone ==
  ASSUME NEW m \in [Threads -> Modes], Inv(m), AllIdle
  PROVE  m["main"] = Done /\ m["callback"] = Done
  BY IdleMode DEF Inv, AllIdle, Idle

\* Except between a song's advance and its fresh-track reset, the published
\* position was measured on the published track, whichever thread flushed.
THEOREM PositionMatches == Spec => []PositionBelongsToTrack
<1>1. IInv => PositionBelongsToTrack
  <2> SUFFICES ASSUME NEW m \in [Threads -> Modes], Inv(m) PROVE PositionBelongsToTrack
    BY DEF IInv
  <2> QED BY DEF Inv, ModeInv, PositionBelongsToTrack
<1> QED BY <1>1, Invariance, PTL

\* With every method returned, the last metachanged was broadcast when the file
\* held the audio id it holds now.
THEOREM AnnouncesTrack == Spec => []TrackAnnounced
<1>1. IInv => TrackAnnounced
  <2> SUFFICES ASSUME NEW m \in [Threads -> Modes], Inv(m), AllIdle PROVE metaId = file.id
    BY DEF IInv, TrackAnnounced
  <2>1. ~changing BY BothDone DEF Inv, ModeInv
  <2> QED BY <2>1 DEF Inv, ModeInv
<1> QED BY <1>1, Invariance, PTL

\* PositionTicker is queued only while the published status is PLAYING, or is
\* about to be again because a pulse is under way.
THEOREM TicksWhilePlaying == Spec => []TickerOnlyWhilePlaying
<1>1. IInv => TickerOnlyWhilePlaying
  <2> SUFFICES ASSUME NEW m \in [Threads -> Modes], Inv(m), AllIdle, ticker # Off, pulse = Off
               PROVE  status = "playing" /\ file.status = "playing"
    BY DEF IInv, TickerOnlyWhilePlaying
  <2>1. m["main"] = Done /\ m["callback"] = Done BY BothDone
  <2>2. status = "playing" BY <2>1, SMT DEF Inv, ModeInv
  <2>3. file.status = status BY <2>1, SMT DEF Inv, ModeInv
  <2> QED BY <2>2, <2>3
<1> QED BY <1>1, Invariance, PTL

\* With every method returned, whichever thread ran it: if the last track edge
\* consumed a natural end, a metachanged after it was sent with it in the file.
THEOREM AnnouncesNaturalEnd == Spec => []NaturalEndAnnounced
<1>1. IInv => NaturalEndAnnounced
  <2> SUFFICES ASSUME NEW m \in [Threads -> Modes], Inv(m), AllIdle PROVE ~owedEnd
    BY DEF IInv, NaturalEndAnnounced
  <2>1. m["main"] = Done /\ m["callback"] = Done BY BothDone
  <2> QED BY <2>1, SMT DEF Inv, ModeInv
<1> QED BY <1>1, Invariance, PTL

\* With every method returned, the Bluetooth side has been told of the status in
\* the file, unless the gate of wakePlayStateChanged noted a status that was not
\* the one broadcast; that takes a listener on a thread of its own.
THEOREM TellsEveryEdge == Spec => []EdgeNotSwallowed
<1>1. IInv => EdgeNotSwallowed
  <2> SUFFICES ASSUME NEW m \in [Threads -> Modes], Inv(m), AllIdle, sentStatus # file.status
               PROVE  wokeAs # sentStatus /\ listener # "main"
    BY DEF IInv, EdgeNotSwallowed
  <2>1. m["main"] = Done /\ m["callback"] = Done BY BothDone
  <2>2. wokeAs = file.status BY <2>1, SMT DEF Inv, ModeInv
  <2>3. listener = "main" => wokeAs = sentStatus BY <2>1, SMT DEF Inv, ModeInv
  <2> QED BY <2>2, <2>3
<1> QED BY <1>1, Invariance, PTL
================================================================================
