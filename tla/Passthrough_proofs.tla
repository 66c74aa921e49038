------------------------- MODULE Passthrough_proofs -------------------------
(***************************************************************************)
(* Proofs about KeyEventPatch, for any stock method, and about Passthrough,*)
(* for any builds, presses and repeats.                                    *)
(*                                                                         *)
(* The patch: running a method is followed instruction by instruction,     *)
(* code inserted into one changes nothing that the rest of its body reads, *)
(* and the block the patch inserts answers the AVRCP keys.  What a         *)
(* recursive function computes is proved with the least input at which it  *)
(* would be wrong.                                                         *)
(*                                                                         *)
(* The path: every event and every repeat carries the key of the press     *)
(* that made it, so that what a PAUSE causes is what the receiver does     *)
(* with its key; each class of each image answers the AVRCP keys or does   *)
(* not load; and the events of a press on their way hold at most one that  *)
(* can act.                                                                *)
(***************************************************************************)
EXTENDS Passthrough, WellFoundedInduction, SequenceTheorems, TLAPS

-----------------------------------------------------------------------------
(* Induction over numbers, as the least element of a set: the library's    *)
(* induction rule takes an operator, this fact takes a set.                *)

LEMMA LeastNat ==
  ASSUME NEW T \in SUBSET Nat, T # {}
  PROVE  \E x \in T : \A y \in T : x <= y
<1>1. IsWellFoundedOn(OpToRel(<, Nat), Nat) BY NatLessThanWellFounded
<1>2. PICK x \in T : \A y \in T : ~ (<<y, x>> \in OpToRel(<, Nat)) BY <1>1, WFMin
<1>3. \A y \in T : <<y, x>> \in Nat \X Nat BY <1>2
<1>4. \A y \in T : ~ (y < x) BY <1>2, <1>3 DEF OpToRel
<1>5. \A y \in T : x <= y
  <2> TAKE y \in T
  <2>1. x \in Nat /\ y \in Nat /\ ~ (y < x) BY <1>2, <1>4
  <2> QED BY <2>1, SMT
<1> QED BY <1>2, <1>5

LEMMA GreatestNat ==
  ASSUME NEW L \in Nat, NEW T \in SUBSET (0 .. L), T # {}
  PROVE  \E x \in T : \A y \in T : y <= x
<1> DEFINE S == {L - x : x \in T}
<1>1. S \in SUBSET Nat /\ S # {}
  <2>1. PICK x \in T : TRUE OBVIOUS
  <2>2. L - x \in S BY <2>1
  <2>3. \A y \in T : L - y \in Nat BY SMT
  <2> QED BY <2>2, <2>3
<1>2. PICK s \in S : \A y \in S : s <= y BY <1>1, LeastNat
<1>3. PICK x \in T : s = L - x BY <1>2
<1>4. \A y \in T : L - y \in S OBVIOUS
<1>5. \A y \in T : y \in Int /\ L - x <= L - y BY SMT, <1>2, <1>3, <1>4
<1> QED BY SMT, <1>3, <1>5

LEMMA LeastOf ==
  ASSUME NEW S \in SUBSET Nat, S # {}
  PROVE  Min(S) \in S /\ \A y \in S : Min(S) <= y
  BY LeastNat, Zenon DEF Min

-----------------------------------------------------------------------------
(* Running a method: Run's function exists, instruction by instruction.    *)

Trace(m, e, L, run) ==
  /\ DOMAIN run = 0 .. L
  /\ run[0] = Entry(m)
  /\ \A n \in 1 .. L : run[n] = IF run[n - 1].out = "none" THEN Step(m, e, run[n - 1], m.code[n])
                                ELSE run[n - 1]

LEMMA TraceExists ==
  ASSUME NEW m, NEW e, NEW L \in Nat
  PROVE  \E run : Trace(m, e, L, run)
<1> DEFINE Bad == {k \in Nat : ~ \E run : Trace(m, e, k, run)}
<1>1. ASSUME Bad # {} PROVE FALSE
  <2>1. PICK k \in Bad : \A y \in Bad : k <= y
    <3> HIDE DEF Bad
    <3>1. Bad \in SUBSET Nat BY Zenon DEF Bad
    <3> QED BY <1>1, <3>1, LeastNat
  <2>2. CASE k = 0
    <3>1. Trace(m, e, 0, [n \in 0 .. 0 |-> Entry(m)]) BY SMT DEF Trace
    <3> QED BY <2>1, <2>2, <3>1
  <2>3. CASE k # 0
    <3>1. k - 1 \in Nat /\ ~ (k <= k - 1) /\ k \in Nat BY SMT, <2>1, <2>3
    <3>2. PICK run : Trace(m, e, k - 1, run) BY <2>1, <3>1
    <3> DEFINE newest == IF run[k - 1].out = "none" THEN Step(m, e, run[k - 1], m.code[k]) ELSE run[k - 1]
    <3> HIDE DEF newest
    <3> DEFINE longer == [n \in 0 .. k |-> IF n = k THEN newest ELSE run[n]]
    <3>3. DOMAIN longer = 0 .. k /\ longer[0] = Entry(m)
      BY SMT, <3>1, <3>2, <2>3 DEF Trace
    <3>4. \A n \in 1 .. k : longer[n - 1] = run[n - 1] BY SMT, <3>1
    <3>5. longer[k] = newest /\ \A n \in 1 .. k : n # k => longer[n] = run[n] /\ n \in 1 .. k - 1
      BY SMT, <3>1
    <3> HIDE DEF longer
    <3>6. ASSUME NEW n \in 1 .. k
          PROVE  longer[n] = IF longer[n - 1].out = "none" THEN Step(m, e, longer[n - 1], m.code[n])
                             ELSE longer[n - 1]
      <4>1. CASE n = k BY <3>4, <3>5, <4>1 DEF newest
      <4>2. CASE n # k
        <5>1. run[n] = IF run[n - 1].out = "none" THEN Step(m, e, run[n - 1], m.code[n]) ELSE run[n - 1]
          BY <3>2, <3>5, <4>2 DEF Trace
        <5> QED BY <3>4, <3>5, <4>2, <5>1
      <4> QED BY <4>1, <4>2
    <3>7. Trace(m, e, k, longer) BY <3>3, <3>6 DEF Trace
    <3> QED BY <2>1, <3>7
  <2> QED BY <2>2, <2>3
<1> QED BY <1>1

LEMMA RunIsTraced ==
  ASSUME NEW m, NEW e, Len(m.code) \in Nat
  PROVE  \E run : Trace(m, e, Len(m.code), run) /\ Run(m, e) = run[Len(m.code)]
<1> DEFINE L == Len(m.code)
           Unfolded(f) == [n \in 0 .. L |-> IF n = 0 THEN Entry(m)
                             ELSE IF f[n - 1].out = "none" THEN Step(m, e, f[n - 1], m.code[n])
                             ELSE f[n - 1]]
           run == CHOOSE f : f = Unfolded(f)
<1>1. Run(m, e) = run[L] BY DEF Run
<1>2. PICK g : Trace(m, e, L, g) BY TraceExists
<1>3. g = Unfolded(g)
  <2>1. g = [n \in 0 .. L |-> g[n]]
    BY <1>2 DEF Trace
  <2>2. ASSUME NEW n \in 0 .. L
        PROVE  g[n] = IF n = 0 THEN Entry(m)
                      ELSE IF g[n - 1].out = "none" THEN Step(m, e, g[n - 1], m.code[n]) ELSE g[n - 1]
    <3>1. n = 0 \/ n \in 1 .. L BY SMT
    <3>2. n \in 1 .. L => n # 0 BY SMT
    <3> QED BY <1>2, <3>1, <3>2 DEF Trace
  <2> QED BY <2>1, <2>2
<1>4. run = Unfolded(run) BY <1>3
<1> HIDE DEF run
<1>5. Trace(m, e, L, run)
  <2>1. DOMAIN run = 0 .. L /\ 0 \in 0 .. L BY <1>4, SMT
  <2>2. run[0] = Entry(m) BY <1>4, <2>1
  <2>3. ASSUME NEW n \in 1 .. L
        PROVE  run[n] = IF run[n - 1].out = "none" THEN Step(m, e, run[n - 1], m.code[n]) ELSE run[n - 1]
    <3>1. n \in 0 .. L /\ n # 0 BY SMT
    <3> QED BY <1>4, <3>1
  <2> QED BY <2>1, <2>2, <2>3 DEF Trace
<1> QED BY <1>1, <1>5

-----------------------------------------------------------------------------
(* Methods as the patch leaves them: straight code, then the body, and     *)
(* every inserted block right behind the getKeyCode whose register it has. *)

Reading == {"const", "getAction", "getKeyCode"}
\* The block's register holds the key code, and is not the scratch register.
GuardedBlock(m, n) ==
  /\ m.code[n].op = "block" /\ n > 1 /\ m.locals >= 4
  /\ m.code[n].d \in 0 .. m.locals - 1 /\ m.code[n].d # 3
  /\ m.code[n - 1].op = "getKeyCode" /\ m.code[n - 1].d = m.code[n].d
Shaped(m) ==
  /\ m.locals \in Nat /\ Len(m.code) \in Nat \ {0}
  /\ \A n \in 1 .. Len(m.code) - 1 : Straight(m.code[n], m) \/ GuardedBlock(m, n)
  /\ m.code[Len(m.code)].op = "body"

\* The register that an instruction writes, the block's being v3.
Clobbers(i, r) == Writes(i, r) \/ (i.op = "block" /\ r = 3)
Value(i, e) == CASE i.op = "const" -> i.n [] i.op = "getAction" -> Action
                 [] i.op = "getKeyCode" -> e.code [] i.op = "block" -> MEDIA_PREVIOUS

Outs == {"none", "propagate", "consume", "stock"}
States(m) == [regs : [Registers(m) -> Int], sound : BOOLEAN, out : Outs]
\* The KeyEvent is where p1 is, and nothing has gone wrong.
Sane(m, st) == st \in States(m) /\ st.sound = TRUE /\ Holds(m, st, P1, Event)

LEMMA MaxType == ASSUME NEW a \in Nat, NEW b \in Nat
                 PROVE  Max({a, b}) \in Nat /\ a <= Max({a, b}) /\ b <= Max({a, b})
                        /\ (Max({a, b}) = a \/ Max({a, b}) = b)
<1>1. \E x \in {a, b} : \A y \in {a, b} : x >= y
  <2>1. CASE a >= b BY SMT, <2>1
  <2>2. CASE ~(a >= b) BY SMT, <2>2
  <2> QED BY <2>1, <2>2
<1>2. Max({a, b}) \in {a, b} /\ \A y \in {a, b} : Max({a, b}) >= y BY <1>1, Zenon DEF Max
<1> QED BY SMT, <1>2

LEMMA MinType == ASSUME NEW a \in Nat, NEW b \in Nat
                 PROVE  /\ Min({a, b}) \in Nat /\ (Min({a, b}) = a \/ Min({a, b}) = b)
                        /\ Min({a, b}) <= a /\ Min({a, b}) <= b
<1>1. \E x \in {a, b} : \A y \in {a, b} : x <= y
  <2>1. CASE a <= b BY SMT, <2>1
  <2>2. CASE ~(a <= b) BY SMT, <2>2
  <2> QED BY <2>1, <2>2
<1>2. Min({a, b}) \in {a, b} /\ \A y \in {a, b} : Min({a, b}) <= y BY <1>1, Zenon DEF Min
<1> QED BY SMT, <1>2

LEMMA RegistersHold ==
  ASSUME NEW m, m.locals \in Nat
  PROVE  /\ \A r \in 0 .. m.locals - 1 : r \in Registers(m) /\ r \in Nat /\ Slot(m, r) = r /\ r # m.locals + 1
         /\ 3 \in Registers(m) /\ Slot(m, 3) = 3
         /\ m.locals + 1 \in Registers(m) /\ Slot(m, P1) = m.locals + 1
<1>1. m.locals + 1 \in Nat /\ 3 \in Nat BY SMT
<1> DEFINE top == Max({m.locals + 1, 3})
<1>2. top \in Nat /\ m.locals + 1 <= top /\ 3 <= top BY <1>1, MaxType
<1> HIDE DEF top
<1>3. Registers(m) = 0 .. top BY DEF Registers, top
<1>4. P1 = -1 BY DEF P1
<1> QED BY SMT, <1>1, <1>2, <1>3, <1>4 DEF Slot

LEMMA WroteFacts ==
  ASSUME NEW m, m.locals \in Nat, NEW st \in States(m), NEW d, NEW v \in Int,
         Slot(m, d) = d, d \in Registers(m)
  PROVE  /\ Wrote(m, st, d, v) \in States(m)
         /\ Wrote(m, st, d, v).regs[d] = v
         /\ \A r \in Registers(m) : r # d => Wrote(m, st, d, v).regs[r] = st.regs[r]
         /\ Wrote(m, st, d, v).sound = st.sound /\ Wrote(m, st, d, v).out = st.out
<1> DEFINE R == Registers(m)
<1> HIDE DEF R
<1>1. st \in [regs : [R -> Int], sound : BOOLEAN, out : Outs] /\ d \in R BY DEF States, R
<1>2. Wrote(m, st, d, v) = [st EXCEPT !.regs[d] = v] BY DEF Wrote
<1>3. [st.regs EXCEPT ![d] = v] \in [R -> Int] BY <1>1
<1>4. /\ [st EXCEPT !.regs[d] = v].regs = [st.regs EXCEPT ![d] = v]
      /\ [st EXCEPT !.regs[d] = v].sound = st.sound /\ [st EXCEPT !.regs[d] = v].out = st.out
  BY <1>1
<1>5. [st EXCEPT !.regs[d] = v] \in [regs : [R -> Int], sound : BOOLEAN, out : Outs]
  BY <1>1, <1>3
<1>6. /\ [st.regs EXCEPT ![d] = v][d] = v
      /\ \A r \in R : r # d => [st.regs EXCEPT ![d] = v][r] = st.regs[r]
  BY <1>1
<1>7. Wrote(m, st, d, v) \in States(m) BY <1>2, <1>5 DEF States, R
<1>8. /\ Wrote(m, st, d, v).regs = [st.regs EXCEPT ![d] = v]
      /\ Wrote(m, st, d, v).sound = st.sound /\ Wrote(m, st, d, v).out = st.out
  BY <1>2, <1>4
<1> QED BY <1>6, <1>7, <1>8 DEF R

LEMMA CalledFacts ==
  ASSUME NEW m, NEW st, Sane(m, st)
  PROVE  Called(m, st) = st
<1>1. st \in [regs : [Registers(m) -> Int], sound : BOOLEAN, out : Outs] BY DEF Sane, States
<1>2. (st.sound /\ Holds(m, st, P1, Event)) = st.sound BY DEF Sane
<1>3. Called(m, st) = [st EXCEPT !.sound = st.sound] BY <1>2 DEF Called
<1> QED BY <1>1, <1>3

LEMMA CodesAreInt == KeyCodes \subseteq Nat /\ MEDIA_PREVIOUS \in Int /\ Action \in Int /\ Event \in Int
                     /\ Unset \in Int /\ Unset # Event /\ \A k \in KeyCodes : k # Unset
  BY SMT DEF KeyCodes, AvrcpKeys, MEDIA_PLAY, MEDIA_PAUSE, MEDIA_STOP, MEDIA_NEXT, MEDIA_PREVIOUS,
         PLAY_PAUSE, Action, Event, Unset

LEMMA EntrySane == ASSUME NEW m, m.locals \in Nat PROVE Sane(m, Entry(m)) /\ Entry(m).out = "none"
<1>1. Slot(m, P1) \in Registers(m) BY RegistersHold
<1> DEFINE R == Registers(m)
           p == Slot(m, P1)
           regs == [r \in R |-> IF r = p THEN Event ELSE Unset]
<1>2. Entry(m) = [regs |-> regs, sound |-> TRUE, out |-> "none"] BY DEF Entry
<1>3. regs \in [R -> Int] /\ regs[p] = Event
  <2>1. Event \in Int /\ Unset \in Int BY CodesAreInt
  <2> HIDE DEF R, p
  <2>2. p \in R BY <1>1 DEF R, p
  <2> QED BY <2>1, <2>2
<1> HIDE DEF regs
<1>4. Entry(m).regs = regs /\ Entry(m).sound = TRUE /\ Entry(m).out = "none" BY <1>2
<1>5. Entry(m) \in States(m)
  <2>1. "none" \in Outs BY DEF Outs
  <2>2. [regs |-> regs, sound |-> TRUE, out |-> "none"] \in [regs : [R -> Int], sound : BOOLEAN, out : Outs]
    <3> HIDE DEF R
    <3> QED BY <1>3, <2>1
  <2> QED BY <1>2, <2>2 DEF States
<1> QED BY <1>3, <1>4, <1>5 DEF Sane, Holds

\* What one instruction does: straight code, ...
LEMMA StraightStep ==
  ASSUME NEW m, m.locals \in Nat, NEW st, Sane(m, st), NEW e \in Events, NEW i, Straight(i, m)
  PROVE  /\ Sane(m, Step(m, e, st, i)) /\ Step(m, e, st, i).out = st.out
         /\ \A r : Writes(i, r) => Step(m, e, st, i).regs[r] = Value(i, e)
         /\ \A r \in 0 .. m.locals - 1 : ~Writes(i, r) => Step(m, e, st, i).regs[r] = st.regs[r]
<1>0. st \in States(m) /\ Called(m, st) = st /\ st.regs[m.locals + 1] = Event /\ st.sound = TRUE
  BY CalledFacts, RegistersHold DEF Sane, Holds
<1>1. CASE i.op \in {"line", "checkNotNull"}
  <2>1. Step(m, e, st, i) = st BY <1>0, <1>1 DEF Step
  <2>2. \A r : ~Writes(i, r) BY <1>1 DEF Writes
  <2> QED BY <2>1, <2>2
<1>2. CASE i.op \in Reading
  <2>1. /\ i.d \in 0 .. m.locals - 1 /\ i.d \in Registers(m) /\ Slot(m, i.d) = i.d /\ i.d # m.locals + 1
        /\ Slot(m, P1) = m.locals + 1 /\ m.locals + 1 \in Registers(m)
    BY <1>2, RegistersHold DEF Straight, Reading
  <2>2. Value(i, e) \in Int
    <3>1. CASE i.op = "const" BY <1>2, <3>1 DEF Straight, Value
    <3>2. CASE i.op = "getAction" BY <3>2, CodesAreInt DEF Value
    <3>3. CASE i.op = "getKeyCode"
      <4>1. e.code \in KeyCodes BY DEF Events
      <4> QED BY <3>3, <4>1, CodesAreInt DEF Value
    <3> QED BY <1>2, <3>1, <3>2, <3>3 DEF Reading
  <2>3. Step(m, e, st, i) = Wrote(m, st, i.d, Value(i, e))
    <3>1. CASE i.op = "const" BY <3>1 DEF Step, Value
    <3>2. CASE i.op = "getAction" BY <1>0, <3>2 DEF Step, Value
    <3>3. CASE i.op = "getKeyCode" BY <1>0, <3>3 DEF Step, Value
    <3> QED BY <1>2, <3>1, <3>2, <3>3 DEF Reading
  <2> DEFINE t == Wrote(m, st, i.d, Value(i, e))
  <2>4. /\ t \in States(m) /\ t.regs[i.d] = Value(i, e) /\ t.sound = st.sound /\ t.out = st.out
        /\ \A r \in Registers(m) : r # i.d => t.regs[r] = st.regs[r]
    BY <1>0, <2>1, <2>2, WroteFacts
  <2> HIDE DEF t
  <2>5. t.regs[m.locals + 1] = Event BY <1>0, <2>1, <2>4
  <2>6. Sane(m, t) BY <1>0, <2>1, <2>4, <2>5 DEF Sane, Holds
  <2>7. \A r : Writes(i, r) <=> r = i.d BY <1>2 DEF Writes, Reading
  <2>8. \A r \in 0 .. m.locals - 1 : r \in Registers(m) BY RegistersHold
  <2>9. Step(m, e, st, i) = t BY <2>3 DEF t
  <2> QED BY <2>4, <2>6, <2>7, <2>8, <2>9
<1> QED BY <1>1, <1>2 DEF Straight, Reading

\* ... an inserted block that finds the key code, ...
LEMMA BlockStep ==
  ASSUME NEW m, m.locals \in Nat, m.locals >= 4, NEW st, Sane(m, st), NEW e \in Events, NEW i,
         i.op = "block", i.d \in 0 .. m.locals - 1, i.d # 3, st.regs[i.d] = e.code
  PROVE  /\ Sane(m, Step(m, e, st, i))
         /\ Step(m, e, st, i).out = (IF e.code \in AvrcpKeys THEN Answer(e.repeat) ELSE st.out)
         /\ Step(m, e, st, i).regs[3] = MEDIA_PREVIOUS
         /\ \A r \in 0 .. m.locals - 1 : r # 3 => Step(m, e, st, i).regs[r] = st.regs[r]
<1>0. st \in States(m) /\ st.regs[m.locals + 1] = Event /\ st.sound = TRUE
  BY RegistersHold DEF Sane, Holds
<1>1. /\ Slot(m, i.d) = i.d /\ i.d \in Registers(m) /\ Slot(m, 3) = 3 /\ 3 \in Registers(m)
      /\ Slot(m, P1) = m.locals + 1 /\ m.locals + 1 \in Registers(m) /\ 3 # m.locals + 1
      /\ \A r \in 0 .. m.locals - 1 : r \in Registers(m)
  BY RegistersHold
<1>2. e.code \in KeyCodes /\ e.code # Unset BY CodesAreInt DEF Events
<1>3. ~Holds(m, st, i.d, Unset) BY <1>1, <1>2 DEF Holds
<1>4. [st EXCEPT !.sound = @ /\ ~Holds(m, st, i.d, Unset)] = st
  <2>1. (st.sound /\ ~Holds(m, st, i.d, Unset)) = st.sound BY <1>0, <1>3
  <2>2. [st EXCEPT !.sound = st.sound] = st BY <1>0 DEF States
  <2> QED BY <2>1, <2>2
<1> DEFINE past == Wrote(m, st, 3, MEDIA_PREVIOUS)
<1>5. /\ past \in States(m) /\ past.regs[3] = MEDIA_PREVIOUS /\ past.sound = st.sound /\ past.out = st.out
      /\ \A r \in Registers(m) : r # 3 => past.regs[r] = st.regs[r]
  BY <1>0, <1>1, CodesAreInt, WroteFacts
<1>6. Step(m, e, st, i) = IF e.code \in AvrcpKeys THEN [Called(m, past) EXCEPT !.out = Answer(e.repeat)]
                          ELSE past
  <2>1. Step(m, e, st, i) = BlockRun(m, st, i.d, e) BY DEF Step
  <2> QED BY <1>1, <1>4, <2>1 DEF BlockRun
<1> HIDE DEF past
<1>7. past.regs[m.locals + 1] = Event BY <1>0, <1>1, <1>5
<1>8. Sane(m, past) BY <1>0, <1>1, <1>5, <1>7 DEF Sane, Holds
<1>9. CASE e.code \in AvrcpKeys
  <2>1. Answer(e.repeat) \in Outs BY DEF Answer, Outs
  <2>2. Step(m, e, st, i) = [past EXCEPT !.out = Answer(e.repeat)] BY <1>6, <1>8, <1>9, CalledFacts
  <2> DEFINE a == Answer(e.repeat)
             R == Registers(m)
  <2> HIDE DEF a, R
  <2>3. past \in [regs : [R -> Int], sound : BOOLEAN, out : Outs] BY <1>5 DEF States, R
  <2>4. /\ [past EXCEPT !.out = a] \in [regs : [R -> Int], sound : BOOLEAN, out : Outs]
        /\ [past EXCEPT !.out = a].out = a /\ [past EXCEPT !.out = a].regs = past.regs
        /\ [past EXCEPT !.out = a].sound = past.sound
    BY <2>1, <2>3 DEF a
  <2>5. Sane(m, [past EXCEPT !.out = a]) BY <1>8, <2>4 DEF Sane, States, Holds, R
  <2> QED BY <1>1, <1>5, <1>9, <2>2, <2>4, <2>5 DEF a
<1>10. CASE e.code \notin AvrcpKeys
  BY <1>1, <1>5, <1>6, <1>8, <1>10
<1> QED BY <1>9, <1>10

\* ... and the rest of the body.
LEMMA BodyStep ==
  ASSUME NEW m, NEW st, Sane(m, st), NEW e, NEW i, i.op = "body"
  PROVE  Step(m, e, st, i).sound = TRUE /\ Step(m, e, st, i).out = "stock"
<1>1. Step(m, e, st, i) = [st EXCEPT !.out = "stock"] BY CalledFacts DEF Step
<1> QED BY <1>1 DEF Sane, States

LEMMA BodyKeeps ==
  ASSUME NEW m, NEW st, Sane(m, st), NEW e, NEW i, i.op = "body"
  PROVE  Step(m, e, st, i).regs = st.regs
<1>1. Step(m, e, st, i) = [st EXCEPT !.out = "stock"] BY CalledFacts DEF Step
<1> QED BY <1>1 DEF Sane, States

-----------------------------------------------------------------------------
(* Whole runs of shaped methods.                                           *)

\* Up to the body nothing goes wrong; the method goes on, or one of the blocks
\* has answered an AVRCP key; and the key code is where getKeyCode put it.
Underway(m, e, st, n) ==
  /\ Sane(m, st)
  /\ st.out = "none" \/ (e.code \in AvrcpKeys /\ st.out = Answer(e.repeat))
  /\ (n > 0 /\ st.out = "none" /\ m.code[n].op = "getKeyCode") => st.regs[m.code[n].d] = e.code

LEMMA AnswerIsFinal == \A r : Answer(r) # "none" /\ Answer(r) \in Outs
  BY DEF Answer, Outs

LEMMA StepUnderway ==
  ASSUME NEW m, Shaped(m), NEW e \in Events, NEW n \in 1 .. Len(m.code) - 1,
         NEW st, Underway(m, e, st, n - 1), st.out = "none"
  PROVE  /\ Underway(m, e, Step(m, e, st, m.code[n]), n)
         /\ m.code[n].op = "block" /\ e.code \in AvrcpKeys => Step(m, e, st, m.code[n]).out = Answer(e.repeat)
         /\ e.code \notin AvrcpKeys =>
              /\ Step(m, e, st, m.code[n]).out = "none"
              /\ \A r \in 0 .. m.locals - 1 :
                   Step(m, e, st, m.code[n]).regs[r] =
                     IF Clobbers(m.code[n], r) THEN Value(m.code[n], e) ELSE st.regs[r]
<1> DEFINE i == m.code[n]
<1>0. m.locals \in Nat /\ Sane(m, st) /\ n > 0 BY SMT DEF Shaped, Underway
<1>1. CASE Straight(i, m)
  <2>1. i.op # "block" BY <1>1 DEF Straight
  <2>2. /\ Sane(m, Step(m, e, st, i)) /\ Step(m, e, st, i).out = st.out
        /\ \A r : Writes(i, r) => Step(m, e, st, i).regs[r] = Value(i, e)
        /\ \A r \in 0 .. m.locals - 1 : ~Writes(i, r) => Step(m, e, st, i).regs[r] = st.regs[r]
    BY <1>0, <1>1, StraightStep
  <2>3. i.op = "getKeyCode" => Step(m, e, st, i).regs[i.d] = e.code
    BY <2>2 DEF Writes, Value
  <2>4. \A r : Clobbers(i, r) <=> Writes(i, r) BY <2>1 DEF Clobbers
  <2> QED BY <2>1, <2>2, <2>3, <2>4 DEF Underway
<1>2. CASE GuardedBlock(m, n)
  <2>1. st.regs[i.d] = e.code
    <3>1. n - 1 > 0 BY <1>2, SMT DEF GuardedBlock
    <3> QED BY <1>2, <3>1 DEF GuardedBlock, Underway
  <2>2. i.op = "block" /\ m.locals >= 4 /\ i.d \in 0 .. m.locals - 1 /\ i.d # 3
    BY <1>2 DEF GuardedBlock
  <2>3. /\ Sane(m, Step(m, e, st, i))
        /\ Step(m, e, st, i).out = (IF e.code \in AvrcpKeys THEN Answer(e.repeat) ELSE st.out)
        /\ Step(m, e, st, i).regs[3] = MEDIA_PREVIOUS
        /\ \A r \in 0 .. m.locals - 1 : r # 3 => Step(m, e, st, i).regs[r] = st.regs[r]
    BY <1>0, <2>1, <2>2, BlockStep
  <2>4. /\ \A r : Clobbers(i, r) <=> r = 3
        /\ Value(i, e) = MEDIA_PREVIOUS
    BY <2>2 DEF Clobbers, Writes, Value
  <2>5. \A r \in 0 .. m.locals - 1 :
          Step(m, e, st, i).regs[r] = IF Clobbers(i, r) THEN Value(i, e) ELSE st.regs[r]
    BY <2>3, <2>4
  <2>6. Underway(m, e, Step(m, e, st, i), n) BY <2>2, <2>3 DEF Underway
  <2> QED BY <2>3, <2>5, <2>6
<1> QED BY <1>1, <1>2 DEF Shaped

LEMMA RunUnderway ==
  ASSUME NEW m, Shaped(m), NEW e \in Events, NEW run, Trace(m, e, Len(m.code), run)
  PROVE  \A n \in 0 .. Len(m.code) - 1 : Underway(m, e, run[n], n)
<1> DEFINE L == Len(m.code)
           Bad == {n \in 0 .. L - 1 : ~Underway(m, e, run[n], n)}
<1>0. L \in Nat \ {0} /\ m.locals \in Nat BY DEF Shaped
<1>1. ASSUME Bad # {} PROVE FALSE
  <2>0. Bad \in SUBSET Nat BY <1>0, SMT
  <2>1. PICK n \in Bad : \A y \in Bad : n <= y
    <3> HIDE DEF Bad
    <3> QED BY <1>1, <2>0, LeastNat
  <2>2. n \in 0 .. L - 1 /\ ~Underway(m, e, run[n], n) BY <2>1
  <2>3. CASE n = 0
    <3>1. run[0] = Entry(m) BY DEF Trace
    <3>2. Underway(m, e, run[0], 0) BY <1>0, <3>1, EntrySane, SMT DEF Underway
    <3> QED BY <2>2, <2>3, <3>2
  <2>4. CASE n # 0
    <3>1. n - 1 \in 0 .. L - 1 /\ n \in 1 .. L - 1 /\ n \in 1 .. L /\ ~(n <= n - 1)
      BY SMT, <1>0, <2>2, <2>4
    <3>2. Underway(m, e, run[n - 1], n - 1) BY <2>1, <3>1
    <3>3. run[n] = IF run[n - 1].out = "none" THEN Step(m, e, run[n - 1], m.code[n]) ELSE run[n - 1]
      BY <3>1 DEF Trace
    <3>4. CASE run[n - 1].out = "none"
      <4>1. Underway(m, e, Step(m, e, run[n - 1], m.code[n]), n) BY <3>1, <3>2, <3>4, StepUnderway
      <4> QED BY <2>2, <3>3, <3>4, <4>1
    <3>5. CASE run[n - 1].out # "none"
      BY <2>2, <3>2, <3>3, <3>5 DEF Underway
    <3> QED BY <3>4, <3>5
  <2> QED BY <2>3, <2>4
<1> QED BY <1>1

\* An answer stands until the method returns.
LEMMA AnswerStands ==
  ASSUME NEW m, NEW e, NEW L \in Nat, NEW run, Trace(m, e, L, run),
         NEW b \in 0 .. L, run[b].out # "none"
  PROVE  run[L] = run[b]
<1> DEFINE Bad == {n \in Nat : n \in b .. L /\ run[n] # run[b]}
<1>1. ASSUME Bad # {} PROVE FALSE
  <2>1. PICK n \in Bad : \A y \in Bad : n <= y
    <3>1. Bad \in SUBSET Nat OBVIOUS
    <3> HIDE DEF Bad
    <3> QED BY <1>1, <3>1, LeastNat
  <2>2. n \in b .. L /\ n \in Nat /\ n # b BY <2>1
  <2>3. n - 1 \in b .. L /\ n - 1 \in Nat /\ ~(n <= n - 1) /\ n \in 1 .. L BY SMT, <2>2
  <2>4. run[n - 1] = run[b] BY <2>1, <2>3
  <2>5. run[n] = run[n - 1] BY <2>3, <2>4 DEF Trace
  <2> QED BY <2>1, <2>4, <2>5
<1>2. L \in b .. L /\ L \in Nat BY SMT
<1> QED BY <1>1, <1>2

\* A shaped method verifies, a block of it answers the AVRCP keys, and every other
\* key gets to the stock body.
LEMMA ShapedAnswers ==
  ASSUME NEW m, Shaped(m), NEW e \in Events
  PROVE  /\ Run(m, e).sound = TRUE
         /\ e.code \notin AvrcpKeys => Run(m, e).out = "stock"
         /\ e.code \in AvrcpKeys /\ (\E b \in 1 .. Len(m.code) - 1 : m.code[b].op = "block")
              => Run(m, e).out = Answer(e.repeat)
<1> DEFINE L == Len(m.code)
<1>0. L \in Nat \ {0} /\ m.locals \in Nat /\ m.code[L].op = "body" BY DEF Shaped
<1>1. PICK run : Trace(m, e, L, run) /\ Run(m, e) = run[L] BY <1>0, RunIsTraced
<1>2. \A n \in 0 .. L - 1 : Underway(m, e, run[n], n) BY <1>1, RunUnderway
<1>3. L - 1 \in 0 .. L - 1 /\ L \in 1 .. L /\ L - 1 \in 0 .. L BY SMT, <1>0
<1>4. run[L] = IF run[L - 1].out = "none" THEN Step(m, e, run[L - 1], m.code[L]) ELSE run[L - 1]
  BY <1>1, <1>3 DEF Trace
<1>5. Underway(m, e, run[L - 1], L - 1) BY <1>2, <1>3
<1>9. Sane(m, run[L - 1]) /\ run[L - 1].sound = TRUE BY <1>5 DEF Underway, Sane
<1> DEFINE body == m.code[L]
           end  == Step(m, e, run[L - 1], body)
<1>10. end.sound = TRUE /\ end.out = "stock"
  <2> DEFINE st == run[L - 1]
  <2>1. body.op = "body" /\ Sane(m, st) BY <1>0, <1>9
  <2> HIDE DEF body, st
  <2>2. Step(m, e, st, body).sound = TRUE /\ Step(m, e, st, body).out = "stock" BY <2>1, BodyStep
  <2> QED BY <2>2 DEF st
<1> HIDE DEF end
<1>11. run[L] = IF run[L - 1].out = "none" THEN end ELSE run[L - 1] BY <1>4 DEF end
<1>6. run[L].sound = TRUE BY <1>9, <1>10, <1>11
<1>12. e.code \notin AvrcpKeys => run[L - 1].out = "none" BY <1>5, Zenon DEF Underway
<1>7. e.code \notin AvrcpKeys => run[L].out = "stock" BY <1>10, <1>11, <1>12
<1>8. ASSUME e.code \in AvrcpKeys, NEW b \in 1 .. L - 1, m.code[b].op = "block"
      PROVE  run[L].out = Answer(e.repeat)
  <2>1. b - 1 \in 0 .. L - 1 /\ b \in 0 .. L - 1 /\ b \in 1 .. L /\ b \in 0 .. L BY SMT, <1>0
  <2>2. run[b] = IF run[b - 1].out = "none" THEN Step(m, e, run[b - 1], m.code[b]) ELSE run[b - 1]
    BY <1>1, <2>1 DEF Trace
  <2>3. Underway(m, e, run[b - 1], b - 1) BY <1>2, <2>1
  <2>4. run[b].out = Answer(e.repeat)
    <3>1. CASE run[b - 1].out = "none"
      <4>1. Step(m, e, run[b - 1], m.code[b]).out = Answer(e.repeat)
        BY <1>8, <2>3, <3>1, StepUnderway
      <4> QED BY <2>2, <3>1, <4>1
    <3>2. CASE run[b - 1].out # "none"
      <4>1. run[b - 1].out = Answer(e.repeat) BY <2>3, <3>2, Zenon DEF Underway
      <4> QED BY <2>2, <3>2, <4>1
    <3> QED BY <3>1, <3>2
  <2>6. run[b].out # "none" BY <2>4, AnswerIsFinal
  <2>5. run[L] = run[b]
    <3>1. L \in Nat /\ Trace(m, e, L, run) /\ b \in 0 .. L BY <1>0, <1>1, <2>1
    <3> HIDE DEF L
    <3> QED BY <2>6, <3>1, AnswerStands
  <2> QED BY <2>4, <2>5
<1> QED BY <1>1, <1>6, <1>7, <1>8

\* What the body finds in a register is what the last instruction that wrote it left.
LEMMA LastWriteFound ==
  ASSUME NEW m, Shaped(m), NEW e \in Events, e.code \notin AvrcpKeys,
         NEW r \in 0 .. m.locals - 1, NEW j \in 1 .. Len(m.code) - 1, Clobbers(m.code[j], r),
         \A n \in j + 1 .. Len(m.code) - 1 : ~Clobbers(m.code[n], r)
  PROVE  Run(m, e).regs[r] = Value(m.code[j], e)
<1> DEFINE L == Len(m.code)
<1>0. L \in Nat \ {0} /\ m.locals \in Nat /\ m.code[L].op = "body" BY DEF Shaped
<1>1. PICK run : Trace(m, e, L, run) /\ Run(m, e) = run[L] BY <1>0, RunIsTraced
<1>2. \A n \in 0 .. L - 1 : Underway(m, e, run[n], n) BY <1>1, RunUnderway
<1>3. \A n \in 0 .. L - 1 : run[n].out = "none"
  <2> TAKE n \in 0 .. L - 1
  <2>1. Underway(m, e, run[n], n) BY <1>2
  <2> QED BY <2>1, Zenon DEF Underway
<1>4. ASSUME NEW n \in 1 .. L - 1
      PROVE  run[n].regs[r] = IF Clobbers(m.code[n], r) THEN Value(m.code[n], e) ELSE run[n - 1].regs[r]
  <2>1. n - 1 \in 0 .. L - 1 /\ n \in 1 .. L BY SMT, <1>0
  <2>2. run[n] = Step(m, e, run[n - 1], m.code[n]) BY <1>1, <1>3, <2>1 DEF Trace
  <2>3. Underway(m, e, run[n - 1], n - 1) /\ run[n - 1].out = "none" BY <1>2, <1>3, <2>1
  <2>4. \A q \in 0 .. m.locals - 1 :
          Step(m, e, run[n - 1], m.code[n]).regs[q] =
             IF Clobbers(m.code[n], q) THEN Value(m.code[n], e) ELSE run[n - 1].regs[q]
    <3> DEFINE st == run[n - 1]
    <3>1. Underway(m, e, st, n - 1) /\ st.out = "none" BY <2>3
    <3> HIDE DEF st
    <3>2. \A q \in 0 .. m.locals - 1 :
            Step(m, e, st, m.code[n]).regs[q] =
              IF Clobbers(m.code[n], q) THEN Value(m.code[n], e) ELSE st.regs[q]
      BY <3>1, StepUnderway
    <3> QED BY <3>2 DEF st
  <2> QED BY <2>2, <2>4
<1> DEFINE v == Value(m.code[j], e)
           Bad == {n \in Nat : n \in j .. L - 1 /\ run[n].regs[r] # v}
<1>5. ASSUME Bad # {} PROVE FALSE
  <2>1. PICK n \in Bad : \A y \in Bad : n <= y
    <3>1. Bad \in SUBSET Nat OBVIOUS
    <3> HIDE DEF Bad
    <3> QED BY <1>5, <3>1, LeastNat
  <2>2. n \in j .. L - 1 /\ n \in Nat /\ run[n].regs[r] # v BY <2>1
  <2>3. n \in 1 .. L - 1 BY SMT, <2>2
  <2>4. CASE n = j BY <1>4, <2>2, <2>3, <2>4
  <2>5. CASE n # j
    <3>1. n - 1 \in j .. L - 1 /\ n - 1 \in Nat /\ ~(n <= n - 1) /\ n \in j + 1 .. L - 1 BY SMT, <2>2, <2>5
    <3>2. run[n - 1].regs[r] = v BY <2>1, <3>1
    <3> QED BY <1>4, <2>2, <2>3, <3>1, <3>2
  <2> QED BY <2>4, <2>5
<1>6. L - 1 \in j .. L - 1 /\ L - 1 \in Nat /\ L - 1 \in 0 .. L - 1 /\ L \in 1 .. L BY SMT, <1>0
<1>7. run[L - 1].regs[r] = v BY <1>5, <1>6
<1>8. run[L] = Step(m, e, run[L - 1], m.code[L]) BY <1>1, <1>3, <1>6 DEF Trace
<1>10. Underway(m, e, run[L - 1], L - 1) BY <1>2, <1>6
<1>11. Sane(m, run[L - 1]) BY <1>10 DEF Underway
<1>9. run[L].regs = run[L - 1].regs
  <2> DEFINE st   == run[L - 1]
             body == m.code[L]
  <2>1. body.op = "body" /\ Sane(m, st) BY <1>0, <1>11
  <2> HIDE DEF body, st, v, Bad, L
  <2>2. Step(m, e, st, body).regs = st.regs BY <2>1, BodyKeeps
  <2> QED BY <1>8, <2>2 DEF st, body
<1> QED BY <1>1, <1>7, <1>9

-----------------------------------------------------------------------------
(* Inserting code into a shaped method.                                    *)

\* m2 is m with c more instructions behind the k-th.
Inserted(m, m2, k, c) ==
  /\ m2.locals \in Nat /\ m.locals <= m2.locals
  /\ Len(m2.code) = Len(m.code) + c
  /\ \A n \in 1 .. k : m2.code[n] = m.code[n]
  /\ \A n \in k + 1 .. Len(m.code) : m2.code[n + c] = m.code[n]

\* The body reads only registers that the code in front of it has written.
Fed(m) ==
  \A r \in m.code[Len(m.code)].needs : \E n \in 1 .. Len(m.code) - 1 : Clobbers(m.code[n], r)

\* What the new code overwrites, and the body reads, is written again behind it.
Harmless(m, m2, k, c) ==
  \A r \in m.code[Len(m.code)].needs : \A i \in k + 1 .. k + c :
    Clobbers(m2.code[i], r) => \E n \in k + 1 .. Len(m.code) - 1 : Clobbers(m.code[n], r)

LEMMA ShiftBack ==
  ASSUME NEW L \in Int, NEW c \in Int, NEW j \in Int, NEW i \in j + c + 1 .. L + c - 1
  PROVE  i - c \in j + 1 .. L - 1 /\ (i - c) + c = i /\ i - c \in Int
  BY SMT

LEMMA Widened ==
  ASSUME NEW L \in Int, NEW k \in Int, NEW j \in Int, ~ (j > k), NEW a \in k + 1 .. L - 1
  PROVE  a \in j + 1 .. L - 1 /\ a \in k + 1 .. L
  BY SMT

LEMMA ClobberedIsLocal ==
  ASSUME NEW m, Shaped(m), NEW n \in 1 .. Len(m.code) - 1, NEW r, Clobbers(m.code[n], r)
  PROVE  r \in 0 .. m.locals - 1
<1>0. m.locals \in Nat BY DEF Shaped
<1>1. CASE Straight(m.code[n], m) BY <1>1 DEF Straight, Clobbers, Writes
<1>2. CASE GuardedBlock(m, n)
  <2>1. r = 3 BY <1>2 DEF GuardedBlock, Clobbers, Writes
  <2>2. m.locals >= 4 BY <1>2 DEF GuardedBlock
  <2> QED BY SMT, <1>0, <2>1, <2>2
<1> QED BY <1>1, <1>2 DEF Shaped

LEMMA StraightGrows ==
  ASSUME NEW m, m.locals \in Nat, NEW m2, m2.locals \in Nat, m.locals <= m2.locals,
         NEW i, Straight(i, m)
  PROVE  Straight(i, m2)
<1>1. 0 .. m.locals - 1 \subseteq 0 .. m2.locals - 1 BY SMT
<1> QED BY <1>1 DEF Straight

\* Blocks keep their getKeyCode, and the new code is straight or guarded.
LEMMA InsertedIsShaped ==
  ASSUME NEW m, Shaped(m), NEW m2, NEW c \in Nat, NEW k \in 0 .. Len(m.code) - 1, Inserted(m, m2, k, c),
         m.code[k + 1].op # "block",
         \A i \in k + 1 .. k + c : Straight(m2.code[i], m2) \/ GuardedBlock(m2, i)
  PROVE  Shaped(m2)
<1> DEFINE L == Len(m.code)
<1>0. L \in Nat \ {0} /\ m.locals \in Nat /\ m2.locals \in Nat /\ m.locals <= m2.locals
  BY DEF Shaped, Inserted
<1>1. Len(m2.code) = L + c /\ L + c \in Nat \ {0} BY SMT, <1>0 DEF Inserted
<1>2. m2.code[L + c] = m.code[L]
  <2>1. L \in k + 1 .. L BY SMT, <1>0
  <2> QED BY <2>1 DEF Inserted
<1>3. ASSUME NEW n \in 1 .. L - 1, NEW n2 \in {n, n + c}, m2.code[n2] = m.code[n],
             m.code[n].op = "block" => m2.code[n2 - 1] = m.code[n - 1]
      PROVE  Straight(m2.code[n2], m2) \/ GuardedBlock(m2, n2)
  <2>1. CASE Straight(m.code[n], m) BY <1>0, <1>3, <2>1, StraightGrows
  <2>2. CASE GuardedBlock(m, n)
    <3>1. m.code[n].op = "block" /\ n > 1 /\ m.locals >= 4 /\ m.code[n].d \in 0 .. m.locals - 1
      BY <2>2 DEF GuardedBlock
    <3>2. n2 > 1 /\ m2.locals >= 4 /\ 0 .. m.locals - 1 \subseteq 0 .. m2.locals - 1
      BY SMT, <1>0, <3>1
    <3>3. m.code[n].d \in 0 .. m2.locals - 1 BY <3>1, <3>2
    <3> QED BY <1>3, <2>2, <3>1, <3>2, <3>3 DEF GuardedBlock
  <2> QED BY <2>1, <2>2 DEF Shaped
<1>4. ASSUME NEW n2 \in 1 .. L + c - 1
      PROVE  Straight(m2.code[n2], m2) \/ GuardedBlock(m2, n2)
  <2>1. CASE n2 \in 1 .. k
    <3>1. n2 \in 1 .. L - 1 /\ (n2 - 1 \in 1 .. k \/ n2 = 1) BY SMT, <1>0, <2>1
    <3>2. m2.code[n2] = m.code[n2] BY <2>1 DEF Inserted
    <3>3. m.code[n2].op = "block" => m2.code[n2 - 1] = m.code[n2 - 1]
      <4>1. CASE n2 - 1 \in 1 .. k BY <4>1 DEF Inserted
      <4>2. CASE n2 = 1
        <5>1. ~GuardedBlock(m, n2) BY <4>2, SMT DEF GuardedBlock
        <5>2. Straight(m.code[n2], m) BY <3>1, <5>1 DEF Shaped
        <5> QED BY <5>2 DEF Straight
      <4> QED BY <3>1, <4>1, <4>2
    <3>4. n2 \in {n2, n2 + c} OBVIOUS
    <3> QED BY <1>3, <3>1, <3>2, <3>3, <3>4
  <2>2. CASE n2 \in k + 1 .. k + c BY <2>2
  <2>3. CASE n2 \in k + c + 1 .. L + c - 1
    <3> DEFINE n == n2 - c
    <3>1. n \in 1 .. L - 1 /\ n \in k + 1 .. L /\ n + c = n2 /\ n2 \in {n, n + c}
          /\ (n = k + 1 \/ n - 1 \in k + 1 .. L) /\ (n - 1) + c = n2 - 1
      BY SMT, <1>0, <2>3
    <3> HIDE DEF n
    <3>2. m2.code[n2] = m.code[n] BY <3>1 DEF Inserted
    <3>3. m.code[n].op = "block" => m2.code[n2 - 1] = m.code[n - 1]
      <4>1. CASE n = k + 1 BY <4>1
      <4>2. CASE n - 1 \in k + 1 .. L BY <3>1, <4>2 DEF Inserted
      <4> QED BY <3>1, <4>1, <4>2
    <3> QED BY <1>3, <3>1, <3>2, <3>3
  <2> QED BY SMT, <1>0, <2>1, <2>2, <2>3
<1> QED BY <1>0, <1>1, <1>2, <1>4 DEF Shaped

\* Where the last instruction that writes r is.
LastClobber(m, r, j) ==
  /\ j \in 1 .. Len(m.code) - 1 /\ Clobbers(m.code[j], r)
  /\ \A n \in j + 1 .. Len(m.code) - 1 : ~Clobbers(m.code[n], r)

LEMMA LastClobberExists ==
  ASSUME NEW m, Len(m.code) \in Nat, NEW r, NEW n \in 1 .. Len(m.code) - 1, Clobbers(m.code[n], r)
  PROVE  \E j \in 1 .. Len(m.code) - 1 : n <= j /\ LastClobber(m, r, j)
<1> DEFINE L == Len(m.code)
           T == {j \in 1 .. L - 1 : Clobbers(m.code[j], r)}
<1>1. T \in SUBSET (0 .. L) /\ n \in T BY SMT
<1>2. PICK j \in T : \A y \in T : y <= j
  <2> HIDE DEF T
  <2>1. T # {} /\ L \in Nat BY <1>1
  <2> HIDE DEF L
  <2> QED BY <1>1, <2>1, GreatestNat
<1>3. j \in 1 .. L - 1 /\ Clobbers(m.code[j], r) /\ n <= j BY <1>1, <1>2
<1>4. ASSUME NEW i \in j + 1 .. L - 1, Clobbers(m.code[i], r) PROVE FALSE
  <2>1. i \in 1 .. L - 1 /\ ~(i <= j) BY SMT, <1>3
  <2>2. i \in T BY <1>4, <2>1
  <2> QED BY <1>2, <2>1, <2>2
<1> QED BY <1>3, <1>4 DEF LastClobber

\* The rest of the body finds what it finds without the new code.
LEMMA InsertedIsTransparent ==
  ASSUME NEW m, Shaped(m), Fed(m), NEW m2, Shaped(m2), NEW c \in Nat, NEW k \in 0 .. Len(m.code) - 1,
         Inserted(m, m2, k, c), Harmless(m, m2, k, c)
  PROVE  /\ m2.code[Len(m2.code)] = m.code[Len(m.code)]
         /\ Fed(m2)
         /\ \A e \in Events : e.code \notin AvrcpKeys => Found(m2, e) = Found(m, e)
<1> DEFINE L == Len(m.code)
<1>0. L \in Nat \ {0} /\ m.locals \in Nat /\ m2.locals \in Nat /\ m.locals <= m2.locals
      /\ Len(m2.code) = L + c /\ L + c \in Nat /\ k \in Int
  BY SMT DEF Shaped, Inserted
<1>1. m2.code[L + c] = m.code[L]
  <2>1. L \in k + 1 .. L BY SMT, <1>0
  <2> QED BY <2>1 DEF Inserted
<1> DEFINE needs == m.code[L].needs
<1>2. ASSUME NEW r \in needs
      PROVE  \E j \in 1 .. L - 1 : \E j2 \in 1 .. L + c - 1 :
               LastClobber(m, r, j) /\ LastClobber(m2, r, j2) /\ m2.code[j2] = m.code[j]
  <2>1. PICK n \in 1 .. L - 1 : Clobbers(m.code[n], r) BY DEF Fed
  <2>2. PICK j \in 1 .. L - 1 : n <= j /\ LastClobber(m, r, j) BY <1>0, <2>1, LastClobberExists
  <2>3. Clobbers(m.code[j], r) /\ \A i \in j + 1 .. L - 1 : ~Clobbers(m.code[i], r)
    BY <2>2 DEF LastClobber
  <2>4. CASE j > k
    <3>1. j \in k + 1 .. L /\ j + c \in 1 .. L + c - 1 BY SMT, <1>0, <2>4
    <3>2. m2.code[j + c] = m.code[j] BY <3>1 DEF Inserted
    <3>3. ASSUME NEW i \in j + c + 1 .. L + c - 1, Clobbers(m2.code[i], r) PROVE FALSE
      <4>0. i - c \in j + 1 .. L - 1 /\ (i - c) + c = i BY <1>0, ShiftBack
      <4>1. i - c \in k + 1 .. L BY SMT, <1>0, <2>4, <4>0
      <4>2. m2.code[i] = m.code[i - c] BY <4>0, <4>1 DEF Inserted
      <4> QED BY <2>3, <3>3, <4>0, <4>2
    <3>4. LastClobber(m2, r, j + c) BY <1>0, <2>3, <3>1, <3>2, <3>3 DEF LastClobber
    <3> QED BY <2>2, <3>1, <3>2, <3>4
  <2>5. CASE ~(j > k)
    <3>1. j \in 1 .. k /\ j \in 1 .. L + c - 1 BY SMT, <1>0, <2>5
    <3>2. m2.code[j] = m.code[j] BY <3>1 DEF Inserted
    <3>3. ASSUME NEW i \in j + 1 .. L + c - 1, Clobbers(m2.code[i], r) PROVE FALSE
      <4>1. CASE i \in j + 1 .. k
        <5>1. i \in 1 .. k /\ i \in j + 1 .. L - 1 BY SMT, <1>0, <4>1, <3>1
        <5>2. m2.code[i] = m.code[i] BY <5>1 DEF Inserted
        <5> QED BY <2>3, <3>3, <5>1, <5>2
      <4>2. CASE i \in k + 1 .. k + c
        <5>1. PICK q \in k + 1 .. L - 1 : Clobbers(m.code[q], r) BY <3>3, <4>2 DEF Harmless
        <5>2. q \in j + 1 .. L - 1 BY SMT, <1>0, <2>5, <5>1
        <5> QED BY <2>3, <5>1, <5>2
      <4>3. CASE i \in k + c + 1 .. L + c - 1
        <5>0. i - c \in k + 1 .. L - 1 /\ (i - c) + c = i /\ i - c \in Int BY <1>0, <4>3, ShiftBack
        <5>3. j \in Int BY SMT, <3>1
        <5>1. i - c \in j + 1 .. L - 1 /\ i - c \in k + 1 .. L BY <1>0, <2>5, <5>0, <5>3, Widened
        <5>2. m2.code[i] = m.code[i - c] BY <5>0, <5>1 DEF Inserted
        <5> QED BY <2>3, <3>3, <5>1, <5>2
      <4> QED BY SMT, <1>0, <3>1, <3>3, <4>1, <4>2, <4>3
    <3>4. LastClobber(m2, r, j) BY <1>0, <2>3, <3>1, <3>2, <3>3 DEF LastClobber
    <3> QED BY <2>2, <3>1, <3>2, <3>4
  <2> QED BY <2>4, <2>5
<1>3. Fed(m2)
  <2> SUFFICES ASSUME NEW r \in needs PROVE \E n \in 1 .. L + c - 1 : Clobbers(m2.code[n], r)
    BY <1>0, <1>1 DEF Fed
  <2>1. PICK j2 \in 1 .. L + c - 1 : LastClobber(m2, r, j2) BY <1>2
  <2> QED BY <2>1 DEF LastClobber
<1>4. ASSUME NEW e \in Events, e.code \notin AvrcpKeys, NEW r \in needs
      PROVE  Run(m2, e).regs[Slot(m2, r)] = Run(m, e).regs[Slot(m, r)]
  <2>1. PICK j \in 1 .. L - 1, j2 \in 1 .. L + c - 1 :
          LastClobber(m, r, j) /\ LastClobber(m2, r, j2) /\ m2.code[j2] = m.code[j]
    BY <1>2
  <2>2. r \in 0 .. m.locals - 1 BY <2>1, ClobberedIsLocal DEF LastClobber
  <2>3. r \in 0 .. m2.locals - 1 BY SMT, <1>0, <2>2
  <2>4. Slot(m, r) = r /\ Slot(m2, r) = r BY <1>0, <2>2, <2>3, RegistersHold
  <2>5. Run(m, e).regs[r] = Value(m.code[j], e)
    BY <1>4, <2>1, <2>2, LastWriteFound DEF LastClobber
  <2>6. Run(m2, e).regs[r] = Value(m2.code[j2], e)
    BY <1>0, <1>4, <2>1, <2>3, LastWriteFound DEF LastClobber
  <2> QED BY <2>1, <2>4, <2>5, <2>6
<1>5. ASSUME NEW e \in Events, e.code \notin AvrcpKeys PROVE Found(m2, e) = Found(m, e)
  <2>1. \A r \in needs : Run(m2, e).regs[Slot(m2, r)] = Run(m, e).regs[Slot(m, r)] BY <1>4, <1>5
  <2> QED BY <1>0, <1>1, <2>1 DEF Found
<1> QED BY <1>0, <1>1, <1>3, <1>5

-----------------------------------------------------------------------------
(* The stock method, and the ways the patch inserts code into it.          *)

LEMMA StockIsShaped ==
  ASSUME NEW m, StockMethod(m)
  PROVE  /\ Shaped(m) /\ Fed(m)
         /\ \A n \in 1 .. Len(m.code) - 1 : Straight(m.code[n], m) /\ m.code[n].op # "block"
         /\ m.code[Len(m.code)].op # "block"
         /\ m.code \in Seq(ToSet(m.code)) /\ DOMAIN m.code = 1 .. Len(m.code)
         /\ \A r \in m.code[Len(m.code)].needs : \A n \in DOMAIN m.code :
              Writes(m.code[n], r) => n \in 1 .. Len(m.code) - 1 /\ Clobbers(m.code[n], r)
         /\ m = [locals |-> m.locals, code |-> m.code]
<1> DEFINE S == ToSet(m.code)
           L == Len(m.code)
<1>1. m.locals \in Nat /\ m.code # <<>> /\ m.code \in Seq(S) /\ m.code[L].op = "body"
      /\ m = [locals |-> m.locals, code |-> m.code]
  BY DEF StockMethod
<1>2. L \in Nat \ {0} /\ DOMAIN m.code = 1 .. L
  <2> DEFINE s == m.code
  <2>1. s \in Seq(S) /\ s # <<>> BY <1>1
  <2> HIDE DEF s, S
  <2>2. Len(s) \in Nat \ {0} /\ DOMAIN s = 1 .. Len(s) BY SMT, <2>1
  <2> QED BY <2>2 DEF s
<1>3. \A n \in 1 .. L - 1 : Straight(m.code[n], m) BY DEF StockMethod
<1>4. \A i : Straight(i, m) => i.op # "block" BY DEF Straight
<1>5. Shaped(m) BY <1>1, <1>2, <1>3 DEF Shaped
<1>6. ASSUME NEW r, NEW n \in 1 .. L, Writes(m.code[n], r)
      PROVE  n \in 1 .. L - 1 /\ Clobbers(m.code[n], r)
  <2>1. n # L BY <1>1, <1>6 DEF Writes
  <2>2. n \in 1 .. L - 1 BY SMT, <1>2, <2>1
  <2> QED BY <1>6, <2>2 DEF Clobbers
<1>7. Fed(m)
  <2> SUFFICES ASSUME NEW r \in m.code[L].needs PROVE \E n \in 1 .. L - 1 : Clobbers(m.code[n], r)
    BY DEF Fed
  <2>1. PICK n \in DOMAIN m.code : Writes(m.code[n], r) BY DEF StockMethod
  <2> QED BY <1>2, <1>6, <2>1
<1> QED BY <1>1, <1>2, <1>3, <1>4, <1>5, <1>6, <1>7

LEMMA Concatenated ==
  ASSUME NEW S, NEW s1 \in Seq(S), NEW s2 \in Seq(S), NEW a, a = Len(s1), NEW b, b = Len(s2)
  PROVE  /\ s1 \o s2 \in Seq(S)
         /\ Len(s1 \o s2) = a + b
         /\ \A i \in 1 .. a + b : (s1 \o s2)[i] = IF i <= a THEN s1[i] ELSE s2[i - a]
  BY ConcatProperties

\* A known prologue is replaced by one that is c instructions longer.
Lengthened(old, new, k, c) ==
  /\ Len(new) = Len(old) + c /\ k \in 0 .. Len(old)
  /\ \A n \in 1 .. k : new[n] = old[n]
  /\ \A n \in k + 1 .. Len(old) : new[n + c] = old[n]

Swapped(m, pair, S, k, c) ==
  /\ Inserted(m, Replaced(pair, m), k, c)
  /\ \A n \in 1 .. Len(pair.old.code) : m.code[n] = pair.old.code[n]
  /\ \A n \in 1 .. Len(pair.new.code) : Replaced(pair, m).code[n] = pair.new.code[n]
  /\ Replaced(pair, m).locals = pair.new.locals /\ Replaced(pair, m).code \in Seq(S)

LEMMA ReplacedInserts ==
  ASSUME NEW m, NEW S, m.code \in Seq(S), NEW pair, pair.old.code \in Seq(S), pair.new.code \in Seq(S),
         IsPrefix(pair.old.code, m.code), m.locals \in Nat, pair.new.locals \in Nat,
         m.locals <= pair.new.locals,
         NEW c \in Nat, NEW k, Lengthened(pair.old.code, pair.new.code, k, c)
  PROVE  Swapped(m, pair, S, k, c)
<1> DEFINE s == m.code
           old == pair.old.code
           new == pair.new.code
           P == Len(old)
           L == Len(s)
           tail == SubSeq(s, P + 1, L)
<1>1. /\ s \in Seq(S) /\ old \in Seq(S) /\ new \in Seq(S) /\ IsPrefix(old, s)
      /\ Len(new) = P + c /\ k \in 0 .. P
      /\ \A n \in 1 .. k : new[n] = old[n]
      /\ \A n \in k + 1 .. P : new[n + c] = old[n]
  BY DEF Lengthened
<1>2. Replaced(pair, m) = [locals |-> pair.new.locals, code |-> new \o tail] BY DEF Replaced
<1>3. Replaced(pair, m).locals = pair.new.locals /\ Replaced(pair, m).code = new \o tail
  <2> DEFINE a == pair.new.locals
             b == new \o tail
  <2>1. Replaced(pair, m) = [locals |-> a, code |-> b] BY <1>2
  <2> HIDE DEF a, b
  <2>2. Replaced(pair, m).locals = a /\ Replaced(pair, m).code = b BY <2>1
  <2> QED BY <2>2 DEF a, b
<1> HIDE DEF s, old, new
<1>4. P \in Nat /\ L \in Nat /\ P <= L /\ SubSeq(old, 1, P) = SubSeq(s, 1, P)
  BY <1>1, LenProperties DEF IsPrefix
<1>5. \A n \in 1 .. P : s[n] = old[n]
  <2> TAKE n \in 1 .. P
  <2>1. \A i \in 1 .. P : old[i] \in S /\ s[i] \in S
    BY <1>1, <1>4, ElementOfSeq
  <2>2. SubSeq(old, 1, P)[n] = old[1 + n - 1] /\ SubSeq(s, 1, P)[n] = s[1 + n - 1]
    BY <1>4, <2>1, SubSeqProperties
  <2>3. 1 + n - 1 = n BY SMT
  <2> QED BY <1>4, <2>2, <2>3
<1>6. /\ tail \in Seq(S) /\ Len(tail) = L - P
      /\ \A i \in 1 .. L - P : tail[i] = s[P + i]
  <2>1. \A i \in P + 1 .. L : s[i] \in S
    <3> TAKE i \in P + 1 .. L
    <3>1. i \in 1 .. L BY SMT, <1>4
    <3> QED BY <1>1, <3>1, ElementOfSeq
  <2>2. /\ tail \in Seq(S)
        /\ Len(tail) = IF P + 1 <= L THEN L - (P + 1) + 1 ELSE 0
        /\ \A i \in 1 .. L - (P + 1) + 1 : tail[i] = s[(P + 1) + i - 1]
    BY <1>4, <2>1, SubSeqProperties
  <2>3. L - (P + 1) + 1 = L - P /\ (~ (P + 1 <= L) => L - P = 0) BY SMT, <1>4
  <2>4. \A i \in 1 .. L - P : (P + 1) + i - 1 = P + i BY SMT, <1>4
  <2> QED BY <2>2, <2>3, <2>4
<1> HIDE DEF tail
<1>7. /\ Len(new \o tail) = (P + c) + (L - P)
      /\ \A i \in 1 .. (P + c) + (L - P) :
           (new \o tail)[i] = IF i <= P + c THEN new[i] ELSE tail[i - (P + c)]
  <2> DEFINE a == P + c
             b == L - P
  <2>0. new \in Seq(S) /\ tail \in Seq(S) BY <1>1, <1>6
  <2>1. a = Len(new) /\ b = Len(tail) BY <1>1, <1>6
  <2> HIDE DEF a, b
  <2>2. /\ Len(new \o tail) = a + b
        /\ \A i \in 1 .. a + b : (new \o tail)[i] = IF i <= a THEN new[i] ELSE tail[i - a]
    BY <2>0, <2>1, Concatenated
  <2> QED BY <2>2 DEF a, b
<1>8. (P + c) + (L - P) = L + c BY SMT, <1>4
<1>9. \A n \in 1 .. P + c : (new \o tail)[n] = new[n]
  <2> TAKE n \in 1 .. P + c
  <2>1. n \in 1 .. (P + c) + (L - P) /\ n <= P + c BY SMT, <1>4
  <2> QED BY <1>7, <2>1
<1>10. \A n \in 1 .. k : (new \o tail)[n] = s[n]
  <2> TAKE n \in 1 .. k
  <2>1. n \in 1 .. P + c /\ n \in 1 .. P BY SMT, <1>1, <1>4
  <2> QED BY <1>1, <1>5, <1>9, <2>1
<1>11. \A n \in k + 1 .. L : (new \o tail)[n + c] = s[n]
  <2> TAKE n \in k + 1 .. L
  <2>1. CASE n \in k + 1 .. P
    <3>1. n + c \in 1 .. P + c /\ n \in 1 .. P BY SMT, <1>1, <1>4, <2>1
    <3> QED BY <1>1, <1>5, <1>9, <2>1, <3>1
  <2>2. CASE n \in P + 1 .. L
    <3>1. /\ n + c \in 1 .. (P + c) + (L - P) /\ ~(n + c <= P + c)
          /\ n + c - (P + c) \in 1 .. L - P /\ P + (n + c - (P + c)) = n
      BY SMT, <1>4, <2>2
    <3>2. (new \o tail)[n + c] = tail[n + c - (P + c)]
      <4> DEFINE i == n + c
      <4>1. i \in 1 .. (P + c) + (L - P) /\ ~(i <= P + c) BY <3>1
      <4> HIDE DEF i
      <4>2. (new \o tail)[i] = IF i <= P + c THEN new[i] ELSE tail[i - (P + c)] BY <1>7, <4>1
      <4>3. (new \o tail)[i] = tail[i - (P + c)] BY <4>1, <4>2
      <4> QED BY <4>3 DEF i
    <3>3. tail[n + c - (P + c)] = s[P + (n + c - (P + c))] BY <1>6, <3>1
    <3> QED BY <3>1, <3>2, <3>3
  <2>3. n \in k + 1 .. P \/ n \in P + 1 .. L BY SMT, <1>1, <1>4
  <2> QED BY <2>1, <2>2, <2>3
<1>12. /\ m.locals <= Replaced(pair, m).locals /\ Replaced(pair, m).locals \in Nat
  BY <1>3
<1>13. Inserted(m, Replaced(pair, m), k, c)
  BY <1>3, <1>7, <1>8, <1>10, <1>11, <1>12 DEF Inserted, s
<1>14. new \o tail \in Seq(S)
  <2>1. new \in Seq(S) /\ tail \in Seq(S) BY <1>1, <1>6
  <2> QED BY <2>1, ConcatProperties
<1> QED BY <1>1, <1>3, <1>5, <1>9, <1>13, <1>14 DEF Swapped, s, old, new

\* One more instruction behind the k-th.
LEMMA InsertAtInserts ==
  ASSUME NEW m, NEW S, m.code \in Seq(S), NEW i \in S, NEW k \in 0 .. Len(m.code),
         NEW m2, m2.code = InsertAt(m.code, k + 1, i), m2.locals \in Nat, m.locals <= m2.locals
  PROVE  Inserted(m, m2, k, 1) /\ m2.code[k + 1] = i /\ m2.code \in Seq(S)
<1> DEFINE s == m.code
           L == Len(s)
           front_ == SubSeq(s, 1, k)
           tail == SubSeq(s, k + 1, L)
<1>0. s \in Seq(S) /\ L \in Nat /\ k \in Nat /\ k <= L /\ k \in Int
  <2>1. L \in Nat BY LenProperties
  <2> QED BY SMT, <2>1
<1>1. m2.code = (front_ \o <<i>>) \o tail
  <2>1. (k + 1) - 1 = k BY SMT, <1>0
  <2> QED BY <2>1 DEF InsertAt
<1>2. \A n \in 1 .. L : s[n] \in S BY <1>0, ElementOfSeq
<1> HIDE DEF s
<1>3. front_ \in Seq(S) /\ Len(front_) = k /\ \A n \in 1 .. k : front_[n] = s[n]
  <2>1. \A n \in 1 .. k : s[n] \in S
    <3> TAKE n \in 1 .. k
    <3>1. n \in 1 .. L BY SMT, <1>0
    <3> QED BY <1>2, <3>1
  <2>2. /\ front_ \in Seq(S) /\ Len(front_) = IF 1 <= k THEN k - 1 + 1 ELSE 0
        /\ \A n \in 1 .. k - 1 + 1 : front_[n] = s[1 + n - 1]
    BY <1>0, <2>1, SubSeqProperties
  <2>3. k - 1 + 1 = k /\ (~(1 <= k) => k = 0) /\ \A n \in 1 .. k : 1 + n - 1 = n BY SMT, <1>0
  <2> QED BY <2>2, <2>3
<1>4. /\ tail \in Seq(S) /\ Len(tail) = L - k
      /\ \A n \in 1 .. L - k : tail[n] = s[k + n]
  <2>1. \A n \in k + 1 .. L : s[n] \in S
    <3> TAKE n \in k + 1 .. L
    <3>1. n \in 1 .. L BY SMT, <1>0
    <3> QED BY <1>2, <3>1
  <2>2. /\ tail \in Seq(S)
        /\ Len(tail) = IF k + 1 <= L THEN L - (k + 1) + 1 ELSE 0
        /\ \A n \in 1 .. L - (k + 1) + 1 : tail[n] = s[(k + 1) + n - 1]
    BY <1>0, <2>1, SubSeqProperties
  <2>3. L - (k + 1) + 1 = L - k /\ (~ (k + 1 <= L) => L - k = 0) BY SMT, <1>0
  <2>4. \A n \in 1 .. L - k : (k + 1) + n - 1 = k + n BY SMT, <1>0
  <2> QED BY <2>2, <2>3, <2>4
<1>5. <<i>> \in Seq(S) /\ Len(<<i>>) = 1 /\ <<i>>[1] = i BY SMT
<1> DEFINE new == front_ \o <<i>>
<1>6. /\ new \in Seq(S) /\ Len(new) = k + 1
      /\ \A n \in 1 .. k : new[n] = s[n]
      /\ new[k + 1] = i
  <2> HIDE DEF front_
  <2> DEFINE one == <<i>>
  <2>1. one \in Seq(S) /\ Len(one) = 1 /\ one[1] = i BY <1>5
  <2> HIDE DEF one
  <2>2. /\ front_ \o one \in Seq(S) /\ Len(front_ \o one) = k + 1
        /\ \A n \in 1 .. k + 1 : (front_ \o one)[n] = IF n <= k THEN front_[n] ELSE one[n - k]
    <3> DEFINE a == k
               b == 1
    <3>1. front_ \in Seq(S) /\ one \in Seq(S) /\ a = Len(front_) /\ b = Len(one) BY <1>3, <2>1
    <3> HIDE DEF a, b
    <3>2. /\ front_ \o one \in Seq(S) /\ Len(front_ \o one) = a + b
          /\ \A n \in 1 .. a + b : (front_ \o one)[n] = IF n <= a THEN front_[n] ELSE one[n - a]
      BY <3>1, Concatenated
    <3> QED BY <3>2 DEF a, b
  <2>3. k + 1 \in 1 .. k + 1 /\ ~(k + 1 <= k) /\ (k + 1) - k = 1 BY SMT, <1>0
  <2>4. \A n \in 1 .. k : n \in 1 .. k + 1 /\ n <= k BY SMT, <1>0
  <2> QED BY <1>3, <2>1, <2>2, <2>3, <2>4 DEF one
<1>7. m2.code = new \o tail BY <1>1
<1> HIDE DEF new, tail, front_
<1>8. /\ Len(new \o tail) = (k + 1) + (L - k)
      /\ \A n \in 1 .. (k + 1) + (L - k) :
           (new \o tail)[n] = IF n <= k + 1 THEN new[n] ELSE tail[n - (k + 1)]
  <2> DEFINE a == k + 1
             b == L - k
  <2>0. new \in Seq(S) /\ tail \in Seq(S) BY <1>4, <1>6
  <2>1. a = Len(new) /\ b = Len(tail) BY <1>4, <1>6
  <2> HIDE DEF a, b
  <2>2. /\ Len(new \o tail) = a + b
        /\ \A n \in 1 .. a + b : (new \o tail)[n] = IF n <= a THEN new[n] ELSE tail[n - a]
    BY <2>0, <2>1, Concatenated
  <2> QED BY <2>2 DEF a, b
<1>9. (k + 1) + (L - k) = L + 1 BY SMT, <1>0
<1>10. \A n \in 1 .. k + 1 : (new \o tail)[n] = new[n]
  <2> TAKE n \in 1 .. k + 1
  <2>1. n \in 1 .. (k + 1) + (L - k) /\ n <= k + 1 BY SMT, <1>0
  <2> QED BY <1>8, <2>1
<1>11. /\ \A n \in 1 .. k : (new \o tail)[n] = s[n]
       /\ (new \o tail)[k + 1] = i
  <2>1. k + 1 \in 1 .. k + 1 /\ \A n \in 1 .. k : n \in 1 .. k + 1 BY SMT, <1>0
  <2> QED BY <1>6, <1>10, <2>1
<1>12. \A n \in k + 1 .. L : (new \o tail)[n + 1] = s[n]
  <2> TAKE n \in k + 1 .. L
  <2>1. /\ n + 1 \in 1 .. (k + 1) + (L - k) /\ ~(n + 1 <= k + 1)
        /\ n + 1 - (k + 1) \in 1 .. L - k /\ k + (n + 1 - (k + 1)) = n
    BY SMT, <1>0
  <2> QED BY <1>4, <1>8, <2>1
<1>13. new \o tail \in Seq(S)
  <2>1. new \in Seq(S) /\ tail \in Seq(S) BY <1>4, <1>6
  <2> QED BY <2>1, ConcatProperties
<1> QED BY <1>7, <1>8, <1>9, <1>11, <1>12, <1>13 DEF Inserted, s

\* m2 is what the patch makes of m: it verifies, a block answers its AVRCP keys, and
\* the rest of the body finds in its registers what stock leaves there.
Answering(m, m2) ==
  /\ Shaped(m2) /\ Fed(m2)
  /\ \E S : m2.code \in Seq(S)
  /\ \E b \in 1 .. Len(m2.code) - 1 : m2.code[b].op = "block"
  /\ m2.code[Len(m2.code)] = m.code[Len(m.code)]
  /\ \A e \in Events : e.code \notin AvrcpKeys => Found(m2, e) = Found(m, e)

LEMMA InsertedAnswers ==
  ASSUME NEW m, StockMethod(m), NEW m2, NEW S, m2.code \in Seq(S), NEW c \in Nat,
         NEW k \in 0 .. Len(m.code) - 1, Inserted(m, m2, k, c), Harmless(m, m2, k, c),
         \A i \in k + 1 .. k + c : Straight(m2.code[i], m2) \/ GuardedBlock(m2, i),
         NEW b \in k + 1 .. k + c, GuardedBlock(m2, b)
  PROVE  Answering(m, m2)
<1>1. Shaped(m) /\ Fed(m) BY StockIsShaped
<1>2. Len(m.code) \in Nat \ {0} BY <1>1 DEF Shaped
<1>3. m.code[k + 1].op # "block"
  <2>1. k + 1 \in 1 .. Len(m.code) - 1 \/ k + 1 = Len(m.code) BY SMT, <1>2
  <2> QED BY <2>1, StockIsShaped
<1>4. Shaped(m2) BY <1>1, <1>3, InsertedIsShaped
<1>5. /\ m2.code[Len(m2.code)] = m.code[Len(m.code)] /\ Fed(m2)
      /\ \A e \in Events : e.code \notin AvrcpKeys => Found(m2, e) = Found(m, e)
  BY <1>1, <1>4, InsertedIsTransparent
<1>6. b \in 1 .. Len(m2.code) - 1
  <2>1. Len(m2.code) = Len(m.code) + c BY DEF Inserted
  <2> QED BY SMT, <1>2, <2>1
<1>7. m2.code[b].op = "block" BY DEF GuardedBlock
<1> QED BY <1>4, <1>5, <1>6, <1>7 DEF Answering

LEMMA FirstGetKeyCode ==
  ASSUME NEW m, Len(m.code) \in Nat, KeyCodeAt(m) # 0
  PROVE  KeyCodeAt(m) \in 1 .. Len(m.code) /\ m.code[KeyCodeAt(m)].op = "getKeyCode"
<1> DEFINE I == {i \in 1 .. Len(m.code) : m.code[i].op = "getKeyCode"}
<1>1. KeyCodeAt(m) = IF I # {} THEN Min(I) ELSE 0 BY DEF KeyCodeAt, SelectInSeq
<1>2. I # {} BY <1>1
<1>3. I \in SUBSET Nat BY SMT
<1>4. Min(I) \in I
  <2> HIDE DEF I
  <2> QED BY <1>2, <1>3, LeastOf
<1> QED BY <1>1, <1>2, <1>4

\* The anchor: right behind the first getKeyCode.
LEMMA AnchorAnswers ==
  ASSUME NEW m, StockMethod(m), ScratchV3(m), KeyCodeAt(m) # 0
  PROVE  Answering(m, AtAnchor(m))
<1> DEFINE at == KeyCodeAt(m)
           L == Len(m.code)
           m2 == AtAnchor(m)
           d == m.code[at].d
<1>0. L \in Nat \ {0} /\ m.locals \in Nat /\ m = [locals |-> m.locals, code |-> m.code]
      /\ m.code \in Seq(ToSet(m.code)) /\ DOMAIN m.code = 1 .. L /\ m.code[L].op = "body"
  BY StockIsShaped DEF Shaped
<1>1. at \in 1 .. L /\ m.code[at].op = "getKeyCode" BY <1>0, FirstGetKeyCode
<1>2. at # L BY <1>0, <1>1
<1>3. at \in 1 .. L - 1 /\ at \in 0 .. L - 1 /\ at \in 0 .. L /\ at > 0 /\ at \in Int /\ at + 1 > 1 /\ (at + 1) - 1 = at
      /\ at \in 1 .. at
  BY SMT, <1>0, <1>1, <1>2
<1>4. d \in 0 .. m.locals - 1 /\ d # 3
  <2>1. Straight(m.code[at], m) BY <1>3, StockIsShaped
  <2> QED BY <1>1, <1>3, <2>1 DEF Straight, ScratchV3
<1> DEFINE four == Max({m.locals, 4})
<1>5. four \in Nat /\ m.locals <= four /\ four >= 4 BY <1>0, MaxType
<1> DEFINE code2 == InsertAt(m.code, at + 1, Block(d))
<1>6. m2.locals = four /\ m2.code = code2
  <2>1. FourLocals(m) = [locals |-> four, code |-> m.code] BY <1>0 DEF FourLocals
  <2>2. m2 = [FourLocals(m) EXCEPT !.code = InsertAt(@, at + 1, Block(d))] BY DEF AtAnchor
  <2> HIDE DEF four
  <2>3. m2 = [locals |-> four, code |-> code2] BY <2>1, <2>2
  <2> HIDE DEF code2, m2
  <2> QED BY <2>3
<1> HIDE DEF four, code2, m2
<1> DEFINE S == ToSet(m.code) \union {Block(d)}
<1>7. Inserted(m, m2, at, 1) /\ m2.code[at + 1] = Block(d) /\ m2.code \in Seq(S)
  <2>1. m.code \in Seq(S) BY <1>0, SeqMonotonic
  <2>2. Block(d) \in S OBVIOUS
  <2>3. m2.code = InsertAt(m.code, at + 1, Block(d)) BY <1>6 DEF code2
  <2> HIDE DEF S, d, at
  <2> QED BY <1>3, <1>5, <1>6, <2>1, <2>2, <2>3, InsertAtInserts
<1>8. Block(d).op = "block" /\ Block(d).d = d BY DEF Block
<1>9. m2.code[at] = m.code[at] BY <1>3, <1>7 DEF Inserted
<1>10. GuardedBlock(m2, at + 1)
  <2>1. d \in 0 .. m2.locals - 1 BY SMT, <1>0, <1>4, <1>5, <1>6
  <2> QED BY <1>1, <1>3, <1>4, <1>5, <1>6, <1>7, <1>8, <1>9, <2>1 DEF GuardedBlock
<1>11. Harmless(m, m2, at, 1)
  <2> SUFFICES ASSUME NEW r \in m.code[L].needs, NEW i \in at + 1 .. at + 1, Clobbers(m2.code[i], r)
               PROVE  \E n \in at + 1 .. L - 1 : Clobbers(m.code[n], r)
    BY DEF Harmless
  <2>1. i = at + 1 BY SMT, <1>3
  <2>2. r = 3 BY <1>7, <1>8, <2>1 DEF Clobbers, Writes
  <2>3. PICK n \in at + 1 .. L : Writes(m.code[n], 3) BY <1>3, <2>2 DEF ScratchV3
  <2>4. n \in 1 .. L BY SMT, <1>0, <1>3
  <2>5. n \in 1 .. L - 1 /\ Clobbers(m.code[n], r) BY <1>0, <2>2, <2>3, <2>4, StockIsShaped
  <2>6. n \in at + 1 .. L - 1 BY SMT, <1>0, <1>3, <2>3, <2>5
  <2> QED BY <2>5, <2>6
<1>12. \A i \in at + 1 .. at + 1 : GuardedBlock(m2, i)
  <2> TAKE i \in at + 1 .. at + 1
  <2>1. i = at + 1 BY SMT, <1>3
  <2> QED BY <1>10, <2>1
<1>13. at + 1 \in at + 1 .. at + 1 BY SMT, <1>3
<1> HIDE DEF at, S
<1>14. 1 \in Nat OBVIOUS
<1>15. Answering(m, m2) BY <1>3, <1>7, <1>10, <1>11, <1>12, <1>13, <1>14, InsertedAnswers
<1> QED BY <1>15 DEF m2

Prologue == {Const(0, 1), Line(673), GetAction(1), Line(674), NotNull}

LEMMA HeadFacts ==
  ASSUME NEW n \in DOMAIN BaseActivityPairs
  PROVE  \E h \in Seq(Prologue), locals \in {4, 7} :
           /\ BaseActivityPairs[n].old = [locals |-> locals, code |-> (h \o <<GetKeyCode(2)>>) \o <<Const(3, 3)>>]
           /\ BaseActivityPairs[n].new = [locals |-> locals, code |-> (h \o <<GetKeyCode(2)>>) \o <<Block(2), Const(3, 3)>>]
<1> DEFINE head == ActivityHeads[n][2] \o <<GetKeyCode(2)>>
           locals == ActivityHeads[n][1]
<1>1. n \in DOMAIN ActivityHeads BY DEF BaseActivityPairs
<1>2. BaseActivityPairs[n] = Pair(locals, head \o <<Const(3, 3)>>, locals, head \o <<Block(2), Const(3, 3)>>)
  BY <1>1 DEF BaseActivityPairs
<1>3. /\ BaseActivityPairs[n].old = [locals |-> locals, code |-> head \o <<Const(3, 3)>>]
      /\ BaseActivityPairs[n].new = [locals |-> locals, code |-> head \o <<Block(2), Const(3, 3)>>]
  <2> DEFINE a == head \o <<Const(3, 3)>>
             b == head \o <<Block(2), Const(3, 3)>>
  <2> HIDE DEF head, locals, a, b
  <2>1. BaseActivityPairs[n] = Pair(locals, a, locals, b) BY <1>2 DEF a, b
  <2>2. BaseActivityPairs[n].old = [locals |-> locals, code |-> a]
        /\ BaseActivityPairs[n].new = [locals |-> locals, code |-> b]
    BY <2>1 DEF Pair
  <2> QED BY <2>2 DEF a, b
<1>4. locals \in {4, 7} /\ ActivityHeads[n][2] \in Seq(Prologue)
  <2> DEFINE a == Const(0, 1)
             b == Line(673)
             c == GetAction(1)
             d == Line(674)
             e == NotNull
             S == Prologue
  <2>1. a \in S /\ b \in S /\ c \in S /\ d \in S /\ e \in S BY DEF Prologue
  <2>2. ActivityHeads = << <<7, <<a, b, c, d>> >>, <<7, <<a, c>> >>, <<7, <<a, e, c>> >>, <<4, <<a, e, c>> >> >>
    BY DEF ActivityHeads
  <2> HIDE DEF a, b, c, d, e, S
  <2>3. n \in 1 .. 4 BY <1>1, <2>2
  <2>4. <<a, b, c, d>> \in Seq(S) /\ <<a, c>> \in Seq(S) /\ <<a, e, c>> \in Seq(S) BY <2>1
  <2>5. n = 1 \/ n = 2 \/ n = 3 \/ n = 4 BY SMT, <2>3
  <2>6. CASE n = 1
    <3>1. ActivityHeads[n] = <<7, <<a, b, c, d>> >> BY <2>2, <2>6
    <3> QED BY <2>4, <3>1 DEF S
  <2>7. CASE n = 2
    <3>1. ActivityHeads[n] = <<7, <<a, c>> >> BY <2>2, <2>7
    <3> QED BY <2>4, <3>1 DEF S
  <2>8. CASE n = 3
    <3>1. ActivityHeads[n] = <<7, <<a, e, c>> >> BY <2>2, <2>8
    <3> QED BY <2>4, <3>1 DEF S
  <2>9. CASE n = 4
    <3>1. ActivityHeads[n] = <<4, <<a, e, c>> >> BY <2>2, <2>9
    <3> QED BY <2>4, <3>1 DEF S
  <2> QED BY <2>5, <2>6, <2>7, <2>8, <2>9
<1> QED BY <1>3, <1>4

\* The two tails of a head, with the key code and without the block or with it.
LEMMA HeadTails ==
  ASSUME NEW S, NEW h \in Seq(S), NEW key \in S, NEW block \in S, NEW const \in S
  PROVE  /\ (h \o <<key>>) \o <<const>> \in Seq(S) /\ (h \o <<key>>) \o <<block, const>> \in Seq(S)
         /\ Len((h \o <<key>>) \o <<const>>) = Len(h) + 2
         /\ Len((h \o <<key>>) \o <<block, const>>) = Len(h) + 3
         /\ \A n \in 1 .. Len(h) + 1 : ((h \o <<key>>) \o <<block, const>>)[n] = ((h \o <<key>>) \o <<const>>)[n]
         /\ ((h \o <<key>>) \o <<const>>)[Len(h) + 1] = key
         /\ ((h \o <<key>>) \o <<const>>)[Len(h) + 2] = const
         /\ ((h \o <<key>>) \o <<block, const>>)[Len(h) + 2] = block
         /\ ((h \o <<key>>) \o <<block, const>>)[Len(h) + 3] = const
<1> DEFINE H == Len(h)
           one == <<key>>
           c1 == <<const>>
           c2 == <<block, const>>
           a == h \o one
<1>1. /\ H \in Nat /\ one \in Seq(S) /\ c1 \in Seq(S) /\ c2 \in Seq(S)
      /\ Len(one) = 1 /\ Len(c1) = 1 /\ Len(c2) = 2
      /\ one[1] = key /\ c1[1] = const /\ c2[1] = block /\ c2[2] = const
  BY LenProperties
<1> HIDE DEF one, c1, c2, a, H
<1>2. a \in Seq(S) /\ Len(a) = H + 1 /\ a[H + 1] = key
  <2>1. h \o one \in Seq(S) /\ Len(h \o one) = H + 1
        /\ \A i \in 1 .. H + 1 : (h \o one)[i] = IF i <= H THEN h[i] ELSE one[i - H]
    <3> DEFINE b == 1
    <3>1. H = Len(h) /\ b = Len(one) /\ h \in Seq(S) /\ one \in Seq(S) BY <1>1 DEF H
    <3> HIDE DEF b
    <3>2. h \o one \in Seq(S) /\ Len(h \o one) = H + b
          /\ \A i \in 1 .. H + b : (h \o one)[i] = IF i <= H THEN h[i] ELSE one[i - H]
      BY <3>1, Concatenated
    <3> QED BY <3>2 DEF b
  <2>2. H + 1 \in 1 .. H + 1 /\ ~(H + 1 <= H) /\ (H + 1) - H = 1 BY SMT, <1>1
  <2> QED BY <1>1, <2>1, <2>2 DEF a
<1>3. ASSUME NEW b \in Nat, NEW t \in Seq(S), Len(t) = b
      PROVE  /\ a \o t \in Seq(S) /\ Len(a \o t) = H + 1 + b
             /\ \A i \in 1 .. H + 1 : (a \o t)[i] = a[i]
             /\ \A i \in 1 .. b : (a \o t)[H + 1 + i] = t[i]
  <2> DEFINE p == H + 1
  <2>1. p = Len(a) /\ b = Len(t) /\ p \in Nat BY <1>1, <1>2, <1>3
  <2> HIDE DEF p
  <2>2. a \o t \in Seq(S) /\ Len(a \o t) = p + b
        /\ \A i \in 1 .. p + b : (a \o t)[i] = IF i <= p THEN a[i] ELSE t[i - p]
    <3>1. a \in Seq(S) /\ t \in Seq(S) /\ p = Len(a) /\ b = Len(t) BY <1>2, <2>1
    <3> QED BY <3>1, Concatenated
  <2>3. ASSUME NEW i \in 1 .. p PROVE (a \o t)[i] = a[i]
    <3>1. i \in 1 .. p + b /\ i <= p BY SMT, <2>1
    <3> QED BY <2>2, <3>1
  <2>4. ASSUME NEW i \in 1 .. b PROVE (a \o t)[p + i] = t[i]
    <3> DEFINE q == p + i
    <3>1. q \in 1 .. p + b /\ ~(q <= p) /\ q - p = i BY SMT, <2>1
    <3> HIDE DEF q
    <3>2. (a \o t)[q] = t[q - p] BY <2>2, <3>1
    <3> QED BY <3>1, <3>2 DEF q
  <2> QED BY <2>2, <2>3, <2>4 DEF p
<1>4. /\ a \o c1 \in Seq(S) /\ Len(a \o c1) = H + 1 + 1
      /\ \A i \in 1 .. H + 1 : (a \o c1)[i] = a[i]
      /\ (a \o c1)[H + 1 + 1] = const
  <2>1. 1 \in 1 .. 1 /\ 1 \in Nat OBVIOUS
  <2> QED BY <1>1, <1>3, <2>1
<1>5. /\ a \o c2 \in Seq(S) /\ Len(a \o c2) = H + 1 + 2
      /\ \A i \in 1 .. H + 1 : (a \o c2)[i] = a[i]
      /\ (a \o c2)[H + 1 + 1] = block /\ (a \o c2)[H + 1 + 2] = const
  <2>1. 1 \in 1 .. 2 /\ 2 \in 1 .. 2 /\ 2 \in Nat OBVIOUS
  <2> QED BY <1>1, <1>3, <2>1
<1>6. H + 1 + 1 = H + 2 /\ H + 1 + 2 = H + 3 /\ H + 1 \in 1 .. H + 1 BY SMT, <1>1
<1> QED BY <1>2, <1>4, <1>5, <1>6 DEF a, one, c1, c2, H

\* BaseActivity: the block goes between the key code and the constant that v3 gets.
LEMMA HeadAnswers ==
  ASSUME NEW m, StockMethod(m), NEW n \in DOMAIN BaseActivityPairs, Knows(BaseActivityPairs[n], m)
  PROVE  Answering(m, Replaced(BaseActivityPairs[n], m))
<1> DEFINE pair == BaseActivityPairs[n]
           L == Len(m.code)
           key == GetKeyCode(2)
           block == Block(2)
           const == Const(3, 3)
<1>1. PICK h \in Seq(Prologue), locals \in {4, 7} :
        /\ pair.old = [locals |-> locals, code |-> (h \o <<key>>) \o <<const>>]
        /\ pair.new = [locals |-> locals, code |-> (h \o <<key>>) \o <<block, const>>]
  BY HeadFacts
<1> DEFINE old == (h \o <<key>>) \o <<const>>
           new == (h \o <<key>>) \o <<block, const>>
           H == Len(h)
           S == Prologue \union {key, block, const} \union ToSet(m.code)
<1>2. /\ pair.old.locals = locals /\ pair.old.code = old /\ pair.new.locals = locals /\ pair.new.code = new
  <2> HIDE DEF old, new
  <2>1. pair.old = [locals |-> locals, code |-> old] /\ pair.new = [locals |-> locals, code |-> new]
    BY <1>1 DEF old, new
  <2> HIDE DEF pair
  <2> QED BY <2>1
<1>3. /\ old \in Seq(S) /\ new \in Seq(S) /\ Len(old) = H + 2 /\ Len(new) = H + 3
      /\ \A i \in 1 .. H + 1 : new[i] = old[i]
      /\ old[H + 1] = key /\ old[H + 2] = const /\ new[H + 2] = block /\ new[H + 3] = const
  <2>1. h \in Seq(S) BY SeqMonotonic
  <2>2. key \in S /\ block \in S /\ const \in S OBVIOUS
  <2> HIDE DEF key, block, const, S
  <2> QED BY <2>1, <2>2, HeadTails
<1>4. H \in Nat BY LenProperties
<1>5. /\ L \in Nat \ {0} /\ m.code \in Seq(S) /\ m.locals = locals /\ IsPrefix(old, m.code) /\ m.code[L].op = "body"
  <2>1. m.code \in Seq(ToSet(m.code)) /\ L \in Nat \ {0} /\ m.code[L].op = "body" BY StockIsShaped DEF Shaped
  <2>2. m.code \in Seq(S) BY <2>1, SeqMonotonic
  <2> QED BY <1>2, <2>1, <2>2 DEF Knows
<1>6. /\ key.op = "getKeyCode" /\ key.d = 2 /\ block.op = "block" /\ block.d = 2
      /\ const.op = "const" /\ const.d = 3
  BY DEF GetKeyCode, Block, Const
<1> DEFINE m2 == Replaced(pair, m)
           k == H + 1
<1> HIDE DEF key, block, const, S, old, new, H, L
<1>7. /\ Inserted(m, m2, k, 1) /\ m2.locals = locals /\ m2.code \in Seq(S)
      /\ \A i \in 1 .. H + 2 : m.code[i] = old[i]
      /\ \A i \in 1 .. H + 3 : m2.code[i] = new[i]
  <2>1. m.locals \in Nat /\ pair.new.locals \in Nat /\ m.locals <= pair.new.locals
    BY <1>2, <1>5
  <2>2. 1 \in Nat /\ Len(pair.new.code) = Len(pair.old.code) + 1
    BY SMT, <1>2, <1>3, <1>4
  <2>3. k \in 0 .. Len(pair.old.code) BY SMT, <1>2, <1>3, <1>4
  <2>4. \A i \in 1 .. k : pair.new.code[i] = pair.old.code[i] BY <1>2, <1>3
  <2>5. \A i \in k + 1 .. Len(pair.old.code) : pair.new.code[i + 1] = pair.old.code[i]
    <3> TAKE i \in k + 1 .. Len(pair.old.code)
    <3>1. i = H + 2 /\ i + 1 = H + 3 BY SMT, <1>2, <1>3, <1>4
    <3> QED BY <1>2, <1>3, <3>1
  <2>6. IsPrefix(pair.old.code, m.code) /\ pair.old.code \in Seq(S) /\ pair.new.code \in Seq(S)
    BY <1>2, <1>3, <1>5
  <2>8. Lengthened(pair.old.code, pair.new.code, k, 1) BY <2>2, <2>3, <2>4, <2>5 DEF Lengthened
  <2> HIDE DEF k, pair
  <2>7. Swapped(m, pair, S, k, 1) BY <1>5, <2>1, <2>2, <2>6, <2>8, ReplacedInserts
  <2> QED BY <1>2, <1>3, <2>7 DEF Swapped
<1>8. H + 2 \in 1 .. H + 2 /\ H + 1 \in 1 .. H + 3 /\ H + 2 \in 1 .. H + 3 /\ H + 1 \in 1 .. H + 1
      /\ H + 2 > 1 /\ (H + 2) - 1 = H + 1 /\ k + 1 = H + 2 /\ k + 1 \in k + 1 .. k + 1
  BY SMT, <1>4
<1>9. GuardedBlock(m2, k + 1)
  <2>1. m2.code[H + 2] = block /\ m2.code[H + 1] = key BY <1>3, <1>7, <1>8
  <2>2. m2.locals \in {4, 7} BY <1>7
  <2>3. 2 \in 0 .. m2.locals - 1 /\ m2.locals >= 4 BY SMT, <2>2
  <2> HIDE DEF m2, k
  <2> QED BY <1>6, <1>8, <2>1, <2>3 DEF GuardedBlock
<1>10. H + 2 \in k + 1 .. L - 1 /\ m.code[H + 2] = const /\ k \in 0 .. L - 1
  <2>1. m.code[H + 2] = const BY <1>3, <1>7, <1>8
  <2>2. H + 2 # L BY <1>5, <1>6, <2>1
  <2>3. H + 2 <= L BY <1>3, <1>5 DEF IsPrefix, L
  <2> QED BY SMT, <1>4, <1>5, <2>1, <2>2, <2>3
<1>11. Harmless(m, m2, k, 1)
  <2> SUFFICES ASSUME NEW r \in m.code[L].needs, NEW i \in k + 1 .. k + 1, Clobbers(m2.code[i], r)
               PROVE  \E q \in k + 1 .. L - 1 : Clobbers(m.code[q], r)
    BY DEF Harmless, L
  <2>1. i = k + 1 BY SMT, <1>4
  <2>2. m2.code[i].op = "block" BY <1>9, <2>1 DEF GuardedBlock
  <2>3. r = 3 BY <2>2 DEF Clobbers, Writes
  <2>4. Clobbers(m.code[H + 2], r) BY <1>6, <1>10, <2>3 DEF Clobbers, Writes
  <2> QED BY <1>10, <2>4
<1>12. \A i \in k + 1 .. k + 1 : GuardedBlock(m2, i)
  <2> TAKE i \in k + 1 .. k + 1
  <2>1. i = k + 1 BY SMT, <1>4
  <2> QED BY <1>9, <2>1
<1>13. Answering(m, m2)
  <2>1. 1 \in Nat /\ k \in 0 .. Len(m.code) - 1 BY <1>10 DEF L
  <2> HIDE DEF k, m2
  <2> QED BY <1>7, <1>8, <1>9, <1>11, <1>12, <2>1, InsertedAnswers
<1> QED BY <1>13

\* The new code in it is a block behind a getKeyCode of the old, or both.
Blocks(new, k, c) ==
  /\ \A n \in k + 1 .. k + c :
       \/ new[n] = GetKeyCode(0)
       \/ new[n] = Block(0) /\ n > 1 /\ new[n - 1] = GetKeyCode(0)
  /\ k = 0 \/ \A n \in k + 1 .. k + c : new[n] = Block(0)
  /\ \E b \in k + 1 .. k + c : new[b] = Block(0)

\* BasePlayerActivity: two locals become four, and a block goes in behind a getKeyCode
\* of the method or, with its own, at the very front.
LEMMA ScreenAnswers ==
  ASSUME NEW m, StockMethod(m), NEW pair, Knows(pair, m), NEW S,
         pair.old.locals = 2, pair.new.locals = 4,
         pair.old.code \in Seq(S), pair.new.code \in Seq(S),
         NEW c \in Nat, NEW k, Lengthened(pair.old.code, pair.new.code, k, c), k < Len(pair.old.code),
         Blocks(pair.new.code, k, c)
  PROVE  Answering(m, Replaced(pair, m))
<1> DEFINE L == Len(m.code)
           P == Len(pair.old.code)
           m2 == Replaced(pair, m)
           T == S \union ToSet(m.code)
<1>0. /\ L \in Nat \ {0} /\ m.code \in Seq(T) /\ m.locals = 2 /\ IsPrefix(pair.old.code, m.code) /\ Shaped(m) /\ Fed(m)
      /\ pair.old.code \in Seq(T) /\ pair.new.code \in Seq(T) /\ P \in Nat
  <2>1. m.code \in Seq(ToSet(m.code)) /\ L \in Nat \ {0} /\ Shaped(m) /\ Fed(m) BY StockIsShaped DEF Shaped
  <2>2. m.code \in Seq(T) /\ pair.old.code \in Seq(T) /\ pair.new.code \in Seq(T) BY <2>1, SeqMonotonic
  <2>3. P \in Nat BY LenProperties
  <2> QED BY <2>1, <2>2, <2>3 DEF Knows
<1>1. P <= L BY <1>0 DEF IsPrefix
<1> HIDE DEF T
<1>2. /\ Inserted(m, m2, k, c) /\ m2.locals = 4 /\ m2.code \in Seq(T)
      /\ \A n \in 1 .. P + c : m2.code[n] = pair.new.code[n]
  <2>2. Len(pair.new.code) = P + c BY DEF Lengthened
  <2>1. m.locals \in Nat /\ pair.new.locals \in Nat /\ m.locals <= pair.new.locals BY <1>0
  <2>3. Swapped(m, pair, T, k, c) BY <1>0, <2>1, ReplacedInserts
  <2> QED BY <2>2, <2>3 DEF Swapped
<1> HIDE DEF m2
<1>3. k \in 0 .. L - 1 /\ k + c <= P + c /\ k \in Nat
  <2>1. k \in 0 .. P /\ k < P BY DEF Lengthened
  <2> QED BY SMT, <1>0, <1>1, <2>1
<1>4. /\ GetKeyCode(0).op = "getKeyCode" /\ GetKeyCode(0).d = 0
      /\ Block(0).op = "block" /\ Block(0).d = 0
  BY DEF GetKeyCode, Block
<1>5. 0 \in 0 .. m2.locals - 1 /\ m2.locals >= 4 BY <1>2
<1>6. \A n \in k + 1 .. k + c : n \in 1 .. P + c /\ (n > 1 => n - 1 \in 1 .. P + c) BY SMT, <1>3
<1>7. ASSUME NEW n \in k + 1 .. k + c
      PROVE  /\ Straight(m2.code[n], m2) \/ GuardedBlock(m2, n)
             /\ m2.code[n] = Block(0) => GuardedBlock(m2, n)
             /\ k = 0 \/ m2.code[n] = Block(0)
  <2>1. m2.code[n] = pair.new.code[n] /\ (n > 1 => m2.code[n - 1] = pair.new.code[n - 1]) BY <1>2, <1>6
  <2>2. CASE pair.new.code[n] = GetKeyCode(0)
    <3>1. Straight(m2.code[n], m2) BY <1>4, <1>5, <2>1, <2>2 DEF Straight
    <3>2. m2.code[n] # Block(0) BY <1>4, <2>1, <2>2
    <3>3. k = 0 \/ pair.new.code[n] = Block(0) BY DEF Blocks
    <3> QED BY <2>1, <3>1, <3>2, <3>3
  <2>3. CASE pair.new.code[n] = Block(0) /\ n > 1 /\ pair.new.code[n - 1] = GetKeyCode(0)
    <3>1. 0 # 3 OBVIOUS
    <3>2. GuardedBlock(m2, n) BY <1>4, <1>5, <2>1, <2>3, <3>1 DEF GuardedBlock
    <3> QED BY <2>1, <2>3, <3>2
  <2> QED BY <2>2, <2>3 DEF Blocks
<1>8. Harmless(m, m2, k, c)
  <2> SUFFICES ASSUME NEW r \in m.code[L].needs, NEW n \in k + 1 .. k + c, Clobbers(m2.code[n], r)
               PROVE  \E q \in k + 1 .. L - 1 : Clobbers(m.code[q], r)
    BY DEF Harmless
  <2>1. PICK q \in 1 .. L - 1 : Clobbers(m.code[q], r) BY <1>0 DEF Fed
  <2>2. r \in 0 .. 1
    <3>1. r \in 0 .. m.locals - 1 BY <1>0, <2>1, ClobberedIsLocal
    <3> QED BY SMT, <1>0, <3>1
  <2>3. CASE k = 0 BY SMT, <2>1, <2>3
  <2>4. CASE m2.code[n] = Block(0)
    <3>1. r = 3 BY <1>4, <2>4 DEF Clobbers, Writes
    <3> QED BY SMT, <2>2, <3>1
  <2> QED BY <1>7, <2>3, <2>4
<1>9. PICK b \in k + 1 .. k + c : GuardedBlock(m2, b)
  <2>1. PICK b \in k + 1 .. k + c : pair.new.code[b] = Block(0) BY DEF Blocks
  <2> QED BY <1>2, <1>6, <1>7, <2>1
<1>10. \A i \in k + 1 .. k + c : Straight(m2.code[i], m2) \/ GuardedBlock(m2, i) BY <1>7
<1>11. Answering(m, m2) BY <1>2, <1>3, <1>8, <1>9, <1>10, InsertedAnswers
<1> QED BY <1>11 DEF m2

LEMMA PlayerAnswers ==
  ASSUME NEW m, StockMethod(m), NEW n \in DOMAIN PlayerPairs, Knows(PlayerPairs[n], m)
  PROVE  Answering(m, Replaced(PlayerPairs[n], m))
<1> DEFINE line   == Line(304)
           null   == NotNull
           key    == GetKeyCode(0)
           block  == Block(0)
           act    == GetAction(0)
           act1   == GetAction(1)
           pair   == PlayerPairs[n]
           S      == {line, null, key, block, act, act1}
           old1   == <<line, null, act>>
           new1   == <<key, block, line, null, act>>
           old2   == <<null, act>>
           new2   == <<key, block, null, act>>
           old3   == <<null, key, act1>>
           new3   == <<null, key, block, act1>>
<1>1. PlayerPairs = <<Pair(2, old1, 4, new1), Pair(2, old2, 4, new2), Pair(2, old3, 4, new3)>>
  BY DEF PlayerPairs
<1>2. line \in S /\ null \in S /\ key \in S /\ block \in S /\ act \in S /\ act1 \in S OBVIOUS
<1>3. key = GetKeyCode(0) /\ block = Block(0) OBVIOUS
<1> HIDE DEF line, null, key, block, act, act1, S
<1>4. n = 1 \/ n = 2 \/ n = 3
  <2>1. DOMAIN PlayerPairs = 1 .. 3 BY <1>1
  <2> QED BY SMT, <2>1
<1>5. ASSUME NEW old, NEW new, pair = Pair(2, old, 4, new)
      PROVE  pair.old.locals = 2 /\ pair.new.locals = 4 /\ pair.old.code = old /\ pair.new.code = new
  <2> HIDE DEF pair
  <2> QED BY <1>5 DEF Pair
<1>6. CASE n = 1
  <2>1. pair = Pair(2, old1, 4, new1) BY <1>1, <1>6
  <2>2. pair.old.locals = 2 /\ pair.new.locals = 4 /\ pair.old.code = old1 /\ pair.new.code = new1
    BY <1>5, <2>1
  <2>3. old1 \in Seq(S) /\ new1 \in Seq(S) /\ Len(old1) = 3 /\ Len(new1) = 5
        /\ new1[1] = key /\ new1[2] = block
        /\ \A i \in 1 .. 3 : new1[i + 2] = old1[i]
    <3>1. \A i \in 1 .. 3 : i = 1 \/ i = 2 \/ i = 3 BY SMT
    <3>2. new1[1 + 2] = line /\ new1[2 + 2] = null /\ new1[3 + 2] = act
          /\ old1[1] = line /\ old1[2] = null /\ old1[3] = act BY SMT
    <3>3. old1 \in Seq(S) /\ new1 \in Seq(S) /\ Len(old1) = 3 /\ Len(new1) = 5
          /\ new1[1] = key /\ new1[2] = block BY <1>2
    <3> QED BY <3>1, <3>2, <3>3
  <2> HIDE DEF old1, new1
  <2>4. /\ 2 \in Nat /\ 0 \in 0 .. Len(old1) - 1 /\ Len(new1) = Len(old1) + 2
        /\ \A i \in 1 .. 0 : new1[i] = old1[i]
        /\ \A i \in 0 + 1 .. Len(old1) : new1[i + 2] = old1[i]
        /\ 2 \in 0 + 1 .. 0 + 2
    BY SMT, <2>3
  <2>5. \A i \in 0 + 1 .. 0 + 2 : new1[i] = key \/ (new1[i] = block /\ i > 1 /\ new1[i - 1] = key)
    <3> TAKE i \in 0 + 1 .. 0 + 2
    <3>1. i = 1 \/ (i = 2 /\ i > 1 /\ i - 1 = 1) BY SMT
    <3> QED BY <2>3, <3>1
  <2> HIDE DEF pair
  <2>7. Knows(pair, m) BY DEF pair
  <2>8. Lengthened(old1, new1, 0, 2) /\ 0 < Len(old1) BY <2>3, <2>4, <2>5 DEF Lengthened
  <2>9. Blocks(new1, 0, 2) BY <1>3, <2>3, <2>4, <2>5 DEF Blocks
  <2>6. Answering(m, Replaced(pair, m)) BY <2>2, <2>3, <2>4, <2>7, <2>8, <2>9, ScreenAnswers
  <2> QED BY <2>6 DEF pair
<1>7. CASE n = 2
  <2>1. pair = Pair(2, old2, 4, new2) BY <1>1, <1>7
  <2>2. pair.old.locals = 2 /\ pair.new.locals = 4 /\ pair.old.code = old2 /\ pair.new.code = new2
    BY <1>5, <2>1
  <2>3. old2 \in Seq(S) /\ new2 \in Seq(S) /\ Len(old2) = 2 /\ Len(new2) = 4
        /\ new2[1] = key /\ new2[2] = block
        /\ \A i \in 1 .. 2 : new2[i + 2] = old2[i]
    <3>1. \A i \in 1 .. 2 : i = 1 \/ i = 2 BY SMT
    <3>2. new2[1 + 2] = null /\ new2[2 + 2] = act /\ old2[1] = null /\ old2[2] = act BY SMT
    <3>3. old2 \in Seq(S) /\ new2 \in Seq(S) /\ Len(old2) = 2 /\ Len(new2) = 4
          /\ new2[1] = key /\ new2[2] = block BY <1>2
    <3> QED BY <3>1, <3>2, <3>3
  <2> HIDE DEF old2, new2
  <2>4. /\ 2 \in Nat /\ 0 \in 0 .. Len(old2) - 1 /\ Len(new2) = Len(old2) + 2
        /\ \A i \in 1 .. 0 : new2[i] = old2[i]
        /\ \A i \in 0 + 1 .. Len(old2) : new2[i + 2] = old2[i]
        /\ 2 \in 0 + 1 .. 0 + 2
    BY SMT, <2>3
  <2>5. \A i \in 0 + 1 .. 0 + 2 : new2[i] = key \/ (new2[i] = block /\ i > 1 /\ new2[i - 1] = key)
    <3> TAKE i \in 0 + 1 .. 0 + 2
    <3>1. i = 1 \/ (i = 2 /\ i > 1 /\ i - 1 = 1) BY SMT
    <3> QED BY <2>3, <3>1
  <2> HIDE DEF pair
  <2>7. Knows(pair, m) BY DEF pair
  <2>8. Lengthened(old2, new2, 0, 2) /\ 0 < Len(old2) BY <2>3, <2>4, <2>5 DEF Lengthened
  <2>9. Blocks(new2, 0, 2) BY <1>3, <2>3, <2>4, <2>5 DEF Blocks
  <2>6. Answering(m, Replaced(pair, m)) BY <2>2, <2>3, <2>4, <2>7, <2>8, <2>9, ScreenAnswers
  <2> QED BY <2>6 DEF pair
<1>8. CASE n = 3
  <2>1. pair = Pair(2, old3, 4, new3) BY <1>1, <1>8
  <2>2. pair.old.locals = 2 /\ pair.new.locals = 4 /\ pair.old.code = old3 /\ pair.new.code = new3
    BY <1>5, <2>1
  <2>3. old3 \in Seq(S) /\ new3 \in Seq(S) /\ Len(old3) = 3 /\ Len(new3) = 4
        /\ new3[1] = old3[1] /\ new3[2] = old3[2] /\ new3[2] = key /\ new3[3] = block /\ new3[3 + 1] = old3[3]
    <3>1. new3[3 + 1] = act1 /\ old3[3] = act1 /\ new3[1] = null /\ old3[1] = null /\ old3[2] = key BY SMT
    <3> QED BY <1>2, <3>1
  <2> HIDE DEF old3, new3
  <2>4. /\ 1 \in Nat /\ 2 \in 0 .. Len(old3) - 1 /\ Len(new3) = Len(old3) + 1
        /\ 3 \in 2 + 1 .. 2 + 1
    BY SMT, <2>3
  <2>5. /\ \A i \in 1 .. 2 : new3[i] = old3[i]
        /\ \A i \in 2 + 1 .. Len(old3) : new3[i + 1] = old3[i]
        /\ \A i \in 2 + 1 .. 2 + 1 : new3[i] = block /\ i > 1 /\ new3[i - 1] = key
    <3>1. \A i \in 1 .. 2 : i = 1 \/ i = 2 BY SMT
    <3>2. \A i \in 2 + 1 .. Len(old3) : i = 3 BY SMT, <2>3
    <3>3. \A i \in 2 + 1 .. 2 + 1 : i = 3 /\ i > 1 /\ i - 1 = 2 BY SMT
    <3> QED BY <2>3, <3>1, <3>2, <3>3
  <2> HIDE DEF pair
  <2>7. Knows(pair, m) BY DEF pair
  <2>8. Lengthened(old3, new3, 2, 1) /\ 2 < Len(old3) BY <2>3, <2>4, <2>5 DEF Lengthened
  <2>9. Blocks(new3, 2, 1) BY <1>3, <2>3, <2>4, <2>5 DEF Blocks
  <2>6. Answering(m, Replaced(pair, m)) BY <2>2, <2>3, <2>4, <2>7, <2>8, <2>9, ScreenAnswers
  <2> QED BY <2>6 DEF pair
<1> QED BY <1>4, <1>6, <1>7, <1>8

-----------------------------------------------------------------------------
(* --debug, and the whole of the two patches.                              *)

LEMMA LogAnswers ==
  ASSUME NEW m, StockMethod(m), NEW p, Answering(m, p)
  PROVE  Answering(m, WithLog(p))
<1> DEFINE L == Len(p.code)
           m2 == WithLog(p)
           two == Max({p.locals, 2})
           c0 == Const(0, 0)
           c1 == Const(1, 0)
           log == <<c0, c1>>
<1>0. Shaped(p) /\ Fed(p) /\ L \in Nat \ {0} /\ p.locals \in Nat BY DEF Answering, Shaped
<1>1. PICK S0 : p.code \in Seq(S0) BY DEF Answering
<1> DEFINE S == S0 \union {c0, c1}
<1>2. p.code \in Seq(S) BY <1>1, SeqMonotonic
<1>3. log \in Seq(S) /\ Len(log) = 2 /\ log[1] = c0 /\ log[2] = c1
  <2>1. c0 \in S /\ c1 \in S OBVIOUS
  <2> HIDE DEF c0, c1, S
  <2> QED BY <2>1
<1>4. two \in Nat /\ p.locals <= two /\ two >= 2 BY <1>0, MaxType
<1> HIDE DEF two
<1>5. m2.locals = two /\ m2.code = log \o p.code
  <2> HIDE DEF log
  <2>1. m2 = [locals |-> two, code |-> log \o p.code] BY DEF WithLog, two, log
  <2> HIDE DEF m2
  <2> QED BY <2>1
<1>6. c0.op = "const" /\ c0.d = 0 /\ c0.n = 0 /\ c1.op = "const" /\ c1.d = 1 /\ c1.n = 0 BY DEF Const
<1> HIDE DEF log, m2, S, c0, c1
<1>7. /\ m2.code \in Seq(S) /\ Len(m2.code) = 2 + L
      /\ \A i \in 1 .. 2 + L : m2.code[i] = IF i <= 2 THEN log[i] ELSE p.code[i - 2]
  <2> DEFINE s == p.code
             a == 2
             b == L
  <2>1. a = Len(log) /\ b = Len(s) /\ log \in Seq(S) /\ s \in Seq(S) BY <1>2, <1>3
  <2> HIDE DEF s, a, b
  <2>2. /\ log \o s \in Seq(S) /\ Len(log \o s) = a + b
        /\ \A i \in 1 .. a + b : (log \o s)[i] = IF i <= a THEN log[i] ELSE s[i - a]
    BY <2>1, Concatenated
  <2> QED BY <1>5, <2>2 DEF s, a, b
<1>8. Inserted(p, m2, 0, 2)
  <2>1. 2 + L = L + 2 /\ \A n \in 1 .. 0 : FALSE BY SMT, <1>0
  <2>2. \A n \in 0 + 1 .. L : m2.code[n + 2] = p.code[n]
    <3> TAKE n \in 0 + 1 .. L
    <3> DEFINE i == n + 2
    <3>1. i \in 1 .. 2 + L /\ ~(i <= 2) /\ i - 2 = n BY SMT, <1>0
    <3> HIDE DEF i
    <3>2. m2.code[i] = p.code[n] BY <1>7, <3>1
    <3> QED BY <3>2 DEF i
  <2> QED BY <1>4, <1>5, <1>7, <2>1, <2>2 DEF Inserted
<1>9. \A i \in 0 + 1 .. 0 + 2 : Straight(m2.code[i], m2)
  <2> TAKE i \in 0 + 1 .. 0 + 2
  <2>1. (i = 1 \/ i = 2) /\ i \in 1 .. 2 + L /\ i <= 2 BY SMT, <1>0
  <2>2. m2.code[i] = log[i] BY <1>7, <2>1
  <2>3. 0 \in 0 .. m2.locals - 1 /\ 1 \in 0 .. m2.locals - 1 BY SMT, <1>4, <1>5
  <2>4. m2.code[i] \in {c0, c1} BY <1>3, <2>1, <2>2
  <2>5. 0 \in Int OBVIOUS
  <2> QED BY <1>6, <2>3, <2>4, <2>5 DEF Straight
<1>10. p.code[0 + 1].op # "block"
  <2>1. ~GuardedBlock(p, 0 + 1) BY SMT DEF GuardedBlock
  <2>2. 0 + 1 \in 1 .. L - 1 \/ 0 + 1 = L
    <3>1. L \in Nat \ {0} BY <1>0
    <3> HIDE DEF L
    <3> QED BY SMT, <3>1
  <2>3. CASE 0 + 1 = L BY <1>0, <2>3 DEF Shaped
  <2>4. CASE 0 + 1 \in 1 .. L - 1
    <3>1. Straight(p.code[0 + 1], p) BY <1>0, <2>1, <2>4 DEF Shaped
    <3> QED BY <3>1 DEF Straight
  <2> QED BY <2>2, <2>3, <2>4
<1>11. 0 \in 0 .. L - 1 /\ 2 \in Nat BY SMT, <1>0
<1>12. Harmless(p, m2, 0, 2)
  <2>1. \A r \in p.code[L].needs : \E n \in 0 + 1 .. L - 1 : Clobbers(p.code[n], r)
    <3>1. 0 + 1 = 1 OBVIOUS
    <3> QED BY <1>0, <3>1 DEF Fed
  <2> QED BY <2>1 DEF Harmless
<1>13. Shaped(m2) BY <1>0, <1>8, <1>9, <1>10, <1>11, InsertedIsShaped
<1>14. /\ m2.code[Len(m2.code)] = p.code[L] /\ Fed(m2)
       /\ \A e \in Events : e.code \notin AvrcpKeys => Found(m2, e) = Found(p, e)
  BY <1>0, <1>8, <1>11, <1>12, <1>13, InsertedIsTransparent
<1>15. \E b \in 1 .. Len(m2.code) - 1 : m2.code[b].op = "block"
  <2>1. PICK b \in 1 .. L - 1 : p.code[b].op = "block" BY DEF Answering
  <2>2. b \in 0 + 1 .. L /\ b + 2 \in 1 .. (2 + L) - 1 BY SMT, <1>0
  <2>3. m2.code[b + 2] = p.code[b] BY <1>8, <2>2 DEF Inserted
  <2> QED BY <1>7, <2>1, <2>2, <2>3
<1>16. /\ p.code[L] = m.code[Len(m.code)]
       /\ \A e \in Events : e.code \notin AvrcpKeys => Found(p, e) = Found(m, e)
  BY DEF Answering
<1>17. Answering(m, m2) BY <1>7, <1>13, <1>14, <1>15, <1>16 DEF Answering
<1> QED BY <1>17 DEF m2

\* Patches H and H': where the script knows the prologue or finds a getKeyCode, the block
\* answers every AVRCP key, and any other key finds what it finds in the stock method.
THEOREM PatchedAnswers ==
  ASSUME NEW m, StockMethod(m), ScratchV3(m), NEW pairs \in {BaseActivityPairs, PlayerPairs},
         ~OnlyTheEntry(pairs, m)
  PROVE  Answering(m, Patched(pairs, m))
<1> DEFINE known == Known(pairs, m)
<1>1. CASE known # {}
  <2>1. Patched(pairs, m) = Replaced(pairs[Min(known)], m) BY <1>1 DEF Patched
  <2>2. known \in SUBSET Nat
    <3>1. DOMAIN pairs \subseteq Nat
      <4>1. DOMAIN BaseActivityPairs = 1 .. 4 BY DEF BaseActivityPairs, ActivityHeads
      <4>2. DOMAIN PlayerPairs = 1 .. 3 BY DEF PlayerPairs
      <4>3. 1 .. 4 \subseteq Nat /\ 1 .. 3 \subseteq Nat BY SMT
      <4> QED BY <4>1, <4>2, <4>3
    <3> QED BY <3>1 DEF Known
  <2>3. Min(known) \in known
    <3> HIDE DEF known
    <3> QED BY <1>1, <2>2, LeastOf
  <2>4. Min(known) \in DOMAIN pairs /\ Knows(pairs[Min(known)], m) BY <2>3 DEF Known
  <2> HIDE DEF known
  <2>5. CASE pairs = BaseActivityPairs BY <2>1, <2>4, <2>5, HeadAnswers
  <2>6. CASE pairs = PlayerPairs BY <2>1, <2>4, <2>6, PlayerAnswers
  <2> QED BY <2>5, <2>6
<1>2. CASE known = {}
  <2>1. KeyCodeAt(m) # 0 BY <1>2 DEF OnlyTheEntry
  <2>2. Patched(pairs, m) = AtAnchor(m) BY <1>2 DEF Patched
  <2> QED BY <2>1, <2>2, AnchorAnswers
<1> QED BY <1>1, <1>2

-----------------------------------------------------------------------------
(* The insert at the method entry: its block reads v2 before it is written. *)

LEMMA StepKeepsFault ==
  ASSUME NEW m, m.locals \in Nat, NEW st \in States(m), st.sound = FALSE, NEW e \in Events,
         NEW i, Straight(i, m) \/ i.op = "body"
  PROVE  Step(m, e, st, i) \in States(m) /\ Step(m, e, st, i).sound = FALSE
<1>1. Called(m, st) = st
  <2>1. (st.sound /\ Holds(m, st, P1, Event)) = st.sound OBVIOUS
  <2>2. [st EXCEPT !.sound = st.sound] = st BY DEF States
  <2> QED BY <2>1, <2>2 DEF Called
<1>2. CASE i.op \in {"line", "checkNotNull"}
  <2>1. Step(m, e, st, i) = st BY <1>1, <1>2 DEF Step
  <2> QED BY <2>1
<1>3. CASE i.op \in Reading /\ Straight(i, m)
  <2>1. i.d \in 0 .. m.locals - 1 /\ i.d \in Registers(m) /\ Slot(m, i.d) = i.d
    BY <1>3, RegistersHold DEF Straight, Reading
  <2>2. Value(i, e) \in Int
    <3>1. CASE i.op = "const" BY <1>3, <3>1 DEF Straight, Value
    <3>2. CASE i.op = "getAction" BY <3>2, CodesAreInt DEF Value
    <3>3. CASE i.op = "getKeyCode"
      <4>1. e.code \in KeyCodes BY DEF Events
      <4> QED BY <3>3, <4>1, CodesAreInt DEF Value
    <3> QED BY <1>3, <3>1, <3>2, <3>3 DEF Reading
  <2>3. Step(m, e, st, i) = Wrote(m, st, i.d, Value(i, e))
    <3>1. CASE i.op = "const" BY <3>1 DEF Step, Value
    <3>2. CASE i.op = "getAction" BY <1>1, <3>2 DEF Step, Value
    <3>3. CASE i.op = "getKeyCode" BY <1>1, <3>3 DEF Step, Value
    <3> QED BY <1>3, <3>1, <3>2, <3>3 DEF Reading
  <2>4. Wrote(m, st, i.d, Value(i, e)) \in States(m) /\ Wrote(m, st, i.d, Value(i, e)).sound = st.sound
    BY <2>1, <2>2, WroteFacts
  <2> QED BY <2>3, <2>4
<1>4. CASE i.op = "body"
  <2>1. Step(m, e, st, i) = [st EXCEPT !.out = "stock"] BY <1>1, <1>4 DEF Step
  <2> DEFINE R == Registers(m)
             O == Outs
  <2>2. st \in [regs : [R -> Int], sound : BOOLEAN, out : O] /\ "stock" \in O BY DEF States, Outs
  <2> HIDE DEF R, O
  <2>3. [st EXCEPT !.out = "stock"] \in [regs : [R -> Int], sound : BOOLEAN, out : O]
        /\ [st EXCEPT !.out = "stock"].sound = st.sound
    BY <2>2
  <2> QED BY <2>1, <2>3 DEF States, R, O
<1> QED BY <1>2, <1>3, <1>4 DEF Straight, Reading

\* A block on v2 before anything wrote v2.
Blind(m, b) ==
  /\ m.locals \in Nat /\ m.locals >= 4 /\ Len(m.code) \in Nat
  /\ b \in 1 .. Len(m.code) - 1 /\ m.code[b] = Block(2)
  /\ \A n \in 1 .. b - 1 : Straight(m.code[n], m) /\ ~Writes(m.code[n], 2)
  /\ \A n \in b + 1 .. Len(m.code) : Straight(m.code[n], m) \/ m.code[n].op = "body"

LEMMA BlindFails ==
  ASSUME NEW m, NEW b, Blind(m, b)
  PROVE  ~Verifies(m)
<1> DEFINE L == Len(m.code)
           e == [code |-> MEDIA_PLAY, repeat |-> 0]
<1>0. /\ m.locals \in Nat /\ m.locals >= 4 /\ L \in Nat
      /\ b \in 1 .. L - 1 /\ m.code[b] = Block(2)
      /\ \A n \in 1 .. b - 1 : Straight(m.code[n], m) /\ ~Writes(m.code[n], 2)
      /\ \A n \in b + 1 .. L : Straight(m.code[n], m) \/ m.code[n].op = "body"
  BY DEF Blind
<1>1. e \in Events
  <2>1. MEDIA_PLAY \in KeyCodes /\ 0 \in 0 .. 1 BY DEF KeyCodes, AvrcpKeys
  <2> QED BY <2>1 DEF Events
<1> HIDE DEF e, L
<1>2. PICK run : Trace(m, e, L, run) /\ Run(m, e) = run[L] BY <1>0, RunIsTraced DEF L
<1>3. 2 \in 0 .. m.locals - 1 /\ 2 \in Registers(m) /\ 2 # m.locals + 1 /\ Slot(m, 2) = 2
      /\ Slot(m, 3) = 3 /\ 3 \in Registers(m) /\ m.locals + 1 \in Registers(m)
  <2>1. 2 \in 0 .. m.locals - 1 BY SMT, <1>0
  <2> QED BY <1>0, <2>1, RegistersHold
<1> DEFINE Waiting(st) == Sane(m, st) /\ st.out = "none" /\ st.regs[2] = Unset
           BadA == {n \in Nat : n \in 0 .. b - 1 /\ ~Waiting(run[n])}
           BadB == {n \in Nat : n \in b .. L /\ ~(run[n] \in States(m) /\ run[n].sound = FALSE)}
<1>4. ASSUME BadA # {} PROVE FALSE
  <2>1. PICK n \in BadA : \A y \in BadA : n <= y
    <3>1. BadA \in SUBSET Nat OBVIOUS
    <3> HIDE DEF BadA
    <3> QED BY <1>4, <3>1, LeastNat
  <2>2. n \in Nat /\ n \in 0 .. b - 1 /\ ~Waiting(run[n]) BY <2>1
  <2>3. CASE n = 0
    <3>1. run[0] = Entry(m) BY <1>2 DEF Trace
    <3>2. Sane(m, Entry(m)) /\ Entry(m).out = "none" BY <1>0, EntrySane
    <3>3. Entry(m).regs[2] = Unset
      <4>1. Slot(m, P1) # 2 BY <1>0, <1>3, RegistersHold
      <4> QED BY <1>3, <4>1 DEF Entry
    <3> QED BY <2>2, <2>3, <3>1, <3>2, <3>3
  <2>4. CASE n # 0
    <3>1. n - 1 \in 0 .. b - 1 /\ n - 1 \in Nat /\ n \in 1 .. b - 1 /\ n \in 1 .. L /\ ~(n <= n - 1)
      BY SMT, <1>0, <2>2, <2>4
    <3>2. Waiting(run[n - 1]) BY <2>1, <3>1
    <3>3. run[n] = Step(m, e, run[n - 1], m.code[n]) BY <1>2, <3>1, <3>2 DEF Trace
    <3> DEFINE st == run[n - 1]
               i  == m.code[n]
    <3>4. Sane(m, st) /\ Straight(i, m) /\ ~Writes(i, 2) /\ st.out = "none" /\ st.regs[2] = Unset
      BY <1>0, <3>1, <3>2
    <3> HIDE DEF st, i
    <3>5. /\ Sane(m, Step(m, e, st, i)) /\ Step(m, e, st, i).out = st.out
          /\ \A r \in 0 .. m.locals - 1 : ~Writes(i, r) => Step(m, e, st, i).regs[r] = st.regs[r]
      BY <1>0, <1>1, <3>4, StraightStep
    <3>6. Waiting(Step(m, e, st, i)) BY <1>3, <3>4, <3>5
    <3> QED BY <2>2, <3>3, <3>6 DEF st, i
  <2> QED BY <2>3, <2>4
<1>5. b - 1 \in 0 .. b - 1 /\ b - 1 \in Nat /\ b \in 1 .. L BY SMT, <1>0
<1>6. Waiting(run[b - 1]) BY <1>4, <1>5
<1>7. run[b] = Step(m, e, run[b - 1], m.code[b]) BY <1>2, <1>5, <1>6 DEF Trace
<1>8. run[b] \in States(m) /\ run[b].sound = FALSE
  <2> DEFINE st == run[b - 1]
             fault == [st EXCEPT !.sound = FALSE]
             past == Wrote(m, fault, 3, MEDIA_PREVIOUS)
  <2>1. st \in States(m) /\ st.sound = TRUE /\ st.regs[2] = Unset BY <1>6 DEF Sane
  <2> HIDE DEF st
  <2>2. Holds(m, st, 2, Unset) BY <1>3, <2>1 DEF Holds
  <2>3. [st EXCEPT !.sound = @ /\ ~Holds(m, st, 2, Unset)] = fault
    <3>1. (st.sound /\ ~Holds(m, st, 2, Unset)) = FALSE BY <2>2
    <3> QED BY <3>1
  <2>4. fault \in States(m) /\ fault.sound = FALSE
    <3> DEFINE R == Registers(m)
               O == Outs
    <3>1. st \in [regs : [R -> Int], sound : BOOLEAN, out : O] BY <2>1 DEF States
    <3> HIDE DEF R, O
    <3>2. fault \in [regs : [R -> Int], sound : BOOLEAN, out : O] /\ fault.sound = FALSE BY <3>1
    <3> QED BY <3>2 DEF States, R, O
  <2>5. Unset \notin AvrcpKeys
    BY SMT DEF Unset, AvrcpKeys, MEDIA_PLAY, MEDIA_PAUSE, MEDIA_STOP, MEDIA_NEXT, MEDIA_PREVIOUS
  <2>6. Step(m, e, st, m.code[b]) = past
    <3>1. Block(2).op = "block" /\ Block(2).d = 2 BY DEF Block
    <3>2. Step(m, e, st, m.code[b]) = BlockRun(m, st, 2, e) BY <1>0, <3>1 DEF Step
    <3>3. 2 # 3 OBVIOUS
    <3> HIDE DEF fault, past
    <3>4. past = Wrote(m, [st EXCEPT !.sound = @ /\ ~Holds(m, st, 2, Unset)], 3, MEDIA_PREVIOUS)
      BY <2>3 DEF past
    <3> QED BY <1>3, <2>1, <2>5, <3>2, <3>3, <3>4 DEF BlockRun
  <2> HIDE DEF fault
  <2>7. past \in States(m) /\ past.sound = FALSE BY <1>0, <1>3, <2>4, CodesAreInt, WroteFacts
  <2> QED BY <1>7, <2>6, <2>7 DEF st
<1>9. ASSUME BadB # {} PROVE FALSE
  <2>1. PICK n \in BadB : \A y \in BadB : n <= y
    <3>1. BadB \in SUBSET Nat OBVIOUS
    <3> HIDE DEF BadB
    <3> QED BY <1>9, <3>1, LeastNat
  <2>2. n \in Nat /\ n \in b .. L /\ ~(run[n] \in States(m) /\ run[n].sound = FALSE) BY <2>1
  <2>3. n # b BY <1>8, <2>2
  <2>4. n - 1 \in b .. L /\ n - 1 \in Nat /\ n \in b + 1 .. L /\ n \in 1 .. L /\ ~(n <= n - 1)
    BY SMT, <1>0, <2>2, <2>3
  <2>5. run[n - 1] \in States(m) /\ run[n - 1].sound = FALSE BY <2>1, <2>4
  <2>6. run[n] = IF run[n - 1].out = "none" THEN Step(m, e, run[n - 1], m.code[n]) ELSE run[n - 1]
    BY <1>2, <2>4 DEF Trace
  <2>7. Step(m, e, run[n - 1], m.code[n]) \in States(m) /\ Step(m, e, run[n - 1], m.code[n]).sound = FALSE
    <3> DEFINE st == run[n - 1]
               i  == m.code[n]
    <3>1. st \in States(m) /\ st.sound = FALSE /\ (Straight(i, m) \/ i.op = "body") BY <1>0, <2>4, <2>5
    <3> HIDE DEF st, i
    <3>2. Step(m, e, st, i) \in States(m) /\ Step(m, e, st, i).sound = FALSE
      BY <1>0, <1>1, <3>1, StepKeepsFault
    <3> QED BY <3>2 DEF st, i
  <2> QED BY <2>2, <2>5, <2>6, <2>7
<1>10. L \in b .. L /\ L \in Nat BY SMT, <1>0
<1>11. run[L].sound = FALSE BY <1>9, <1>10
<1> QED BY <1>1, <1>2, <1>11 DEF Verifies

LEMMA EntryIsBlind ==
  ASSUME NEW m, StockMethod(m)
  PROVE  Blind(AtMethodEntry(m), 1) /\ \E S : AtMethodEntry(m).code \in Seq(S)
<1> DEFINE L == Len(m.code)
           S == ToSet(m.code) \union {Block(2)}
           s == m.code
           one == <<Block(2)>>
           m2 == AtMethodEntry(m)
           four == Max({m.locals, 4})
<1>1. /\ L \in Nat \ {0} /\ m.locals \in Nat /\ m = [locals |-> m.locals, code |-> m.code]
      /\ s \in Seq(ToSet(m.code)) /\ s[L].op = "body"
      /\ \A n \in 1 .. L - 1 : Straight(s[n], m)
  BY StockIsShaped DEF Shaped
<1>2. four \in Nat /\ m.locals <= four /\ four >= 4 BY <1>1, MaxType
<1>3. m2.locals = four /\ m2.code = one \o s
  <2>1. FourLocals(m) = [locals |-> four, code |-> m.code] BY <1>1 DEF FourLocals
  <2>2. m2 = [FourLocals(m) EXCEPT !.code = <<Block(2)>> \o @] BY DEF AtMethodEntry
  <2> HIDE DEF four
  <2>4. m2 = [[locals |-> four, code |-> s] EXCEPT !.code = one \o @] BY <2>1, <2>2
  <2> HIDE DEF one, s, m2
  <2>3. m2 = [locals |-> four, code |-> one \o s] BY <2>4
  <2> HIDE DEF one, s, m2
  <2> QED BY <2>3
<1> HIDE DEF four
<1>4. one \in Seq(S) /\ Len(one) = 1 /\ one[1] = Block(2) /\ s \in Seq(S)
  <2>1. s \in Seq(S) BY <1>1, SeqMonotonic
  <2> DEFINE b == Block(2)
  <2>2. b \in S OBVIOUS
  <2> HIDE DEF b, S
  <2>3. <<b>> \in Seq(S) /\ Len(<<b>>) = 1 /\ <<b>>[1] = b BY <2>2
  <2> QED BY <2>1, <2>3 DEF b
<1> HIDE DEF one, m2, S
<1>5. /\ one \o s \in Seq(S) /\ Len(one \o s) = 1 + L
      /\ \A i \in 1 .. 1 + L : (one \o s)[i] = IF i <= 1 THEN one[i] ELSE s[i - 1]
  <2> DEFINE a == 1
             b == L
  <2>1. a = Len(one) /\ b = Len(s) /\ one \in Seq(S) /\ s \in Seq(S) BY <1>4
  <2> HIDE DEF s, a, b
  <2>2. /\ one \o s \in Seq(S) /\ Len(one \o s) = a + b
        /\ \A i \in 1 .. a + b : (one \o s)[i] = IF i <= a THEN one[i] ELSE s[i - a]
    BY <2>1, Concatenated
  <2> QED BY <2>2 DEF a, b, s
<1>6. 1 \in 1 .. 1 + L /\ 1 <= 1 /\ 1 \in 1 .. (1 + L) - 1 /\ 1 + L \in Nat /\ \A n \in 1 .. 1 - 1 : FALSE
  BY SMT, <1>1
<1>7. m2.code[1] = Block(2) BY <1>3, <1>4, <1>5, <1>6
<1>8. \A n \in 1 + 1 .. 1 + L : Straight(m2.code[n], m2) \/ m2.code[n].op = "body"
  <2> TAKE n \in 1 + 1 .. 1 + L
  <2> DEFINE i == n - 1
  <2>1. n \in 1 .. 1 + L /\ ~(n <= 1) /\ (i = L \/ i \in 1 .. L - 1) BY SMT, <1>1
  <2>2. m2.code[n] = s[i] BY <1>3, <1>5, <2>1
  <2> HIDE DEF i
  <2>3. CASE i = L BY <1>1, <2>2, <2>3
  <2>4. CASE i \in 1 .. L - 1
    <3>1. Straight(s[i], m) BY <1>1, <2>4
    <3> HIDE DEF s
    <3> QED BY <1>1, <1>2, <1>3, <2>2, <3>1, StraightGrows
  <2> QED BY <2>1, <2>3, <2>4
<1>9. Blind(m2, 1)
  <2>1. Len(m2.code) = 1 + L BY <1>3, <1>5
  <2> HIDE DEF L
  <2> QED BY <1>2, <1>3, <1>6, <1>7, <1>8, <2>1 DEF Blind
<1> QED BY <1>3, <1>5, <1>9 DEF m2

LEMMA LogIsBlind ==
  ASSUME NEW m, Blind(m, 1), NEW S0, m.code \in Seq(S0)
  PROVE  Blind(WithLog(m), 3)
<1> DEFINE L == Len(m.code)
           s == m.code
           m2 == WithLog(m)
           two == Max({m.locals, 2})
           c0 == Const(0, 0)
           c1 == Const(1, 0)
           log == <<c0, c1>>
           S == S0 \union {c0, c1}
<1>1. /\ m.locals \in Nat /\ m.locals >= 4 /\ L \in Nat /\ 1 \in 1 .. L - 1 /\ s[1] = Block(2)
      /\ \A n \in 1 + 1 .. L : Straight(s[n], m) \/ s[n].op = "body"
  BY DEF Blind
<1>2. s \in Seq(S) BY SeqMonotonic
<1>3. log \in Seq(S) /\ Len(log) = 2 /\ log[1] = c0 /\ log[2] = c1
  <2>1. c0 \in S /\ c1 \in S OBVIOUS
  <2> HIDE DEF c0, c1, S
  <2> QED BY <2>1
<1>4. two \in Nat /\ m.locals <= two BY <1>1, MaxType
<1> HIDE DEF two
<1>5. m2.locals = two /\ m2.code = log \o s
  <2> HIDE DEF log
  <2>1. m2 = [locals |-> two, code |-> log \o s] BY DEF WithLog, two, log
  <2> HIDE DEF m2
  <2> QED BY <2>1
<1>6. c0.op = "const" /\ c0.d = 0 /\ c0.n = 0 /\ c1.op = "const" /\ c1.d = 1 /\ c1.n = 0 BY DEF Const
<1> HIDE DEF log, m2, S, c0, c1
<1>7. /\ Len(m2.code) = 2 + L
      /\ \A i \in 1 .. 2 + L : m2.code[i] = IF i <= 2 THEN log[i] ELSE s[i - 2]
  <2> DEFINE a == 2
             b == L
  <2>1. a = Len(log) /\ b = Len(s) /\ log \in Seq(S) /\ s \in Seq(S) BY <1>2, <1>3
  <2> HIDE DEF s, a, b
  <2>2. /\ Len(log \o s) = a + b
        /\ \A i \in 1 .. a + b : (log \o s)[i] = IF i <= a THEN log[i] ELSE s[i - a]
    BY <2>1, Concatenated
  <2> QED BY <1>5, <2>2 DEF s, a, b
<1>8. m2.locals \in Nat /\ m2.locals >= 4 /\ m.locals <= m2.locals BY SMT, <1>1, <1>4, <1>5
<1>9. 2 + L \in Nat /\ 3 \in 1 .. (2 + L) - 1 /\ 3 \in 1 .. 2 + L /\ ~(3 <= 2) /\ 3 - 2 = 1 BY SMT, <1>1
<1>10. m2.code[3] = Block(2) BY <1>1, <1>7, <1>9
<1>11. \A n \in 1 .. 3 - 1 : Straight(m2.code[n], m2) /\ ~Writes(m2.code[n], 2)
  <2> TAKE n \in 1 .. 3 - 1
  <2>1. (n = 1 \/ n = 2) /\ n \in 1 .. 2 + L /\ n <= 2 BY SMT, <1>1
  <2>2. m2.code[n] \in {c0, c1} BY <1>3, <1>7, <2>1
  <2>3. 0 \in 0 .. m2.locals - 1 /\ 1 \in 0 .. m2.locals - 1 /\ 0 \in Int /\ 0 # 2 /\ 1 # 2 BY SMT, <1>8
  <2> QED BY <1>6, <2>2, <2>3 DEF Straight, Writes
<1>12. \A n \in 3 + 1 .. 2 + L : Straight(m2.code[n], m2) \/ m2.code[n].op = "body"
  <2> TAKE n \in 3 + 1 .. 2 + L
  <2> DEFINE i == n - 2
  <2>1. n \in 1 .. 2 + L /\ ~(n <= 2) /\ i \in 1 + 1 .. L BY SMT, <1>1
  <2>2. m2.code[n] = s[i] BY <1>7, <2>1
  <2> HIDE DEF i, s
  <2>3. CASE s[i].op = "body" BY <2>2, <2>3
  <2>4. CASE Straight(s[i], m) BY <1>1, <1>8, <2>2, <2>4, StraightGrows
  <2> QED BY <1>1, <2>1, <2>3, <2>4
<1>13. Blind(m2, 3)
  <2> HIDE DEF L
  <2> QED BY <1>7, <1>8, <1>9, <1>10, <1>11, <1>12 DEF Blind
<1> QED BY <1>13 DEF m2
-----------------------------------------------------------------------------
(* The path of a press, from here on.                                      *)

Records == [code : KeyCodes, action : {"down", "up"}, repeat : Nat, press : Nat]

\* e was made by a press of s, and has the key code of that press.
Made(e, s) ==
  /\ e.press \in 1 .. Len(s)
  /\ e.code = KeyCode(s[e.press])
  /\ e.action = "up" => e.repeat = 0
Queue(q, s) == q \in Seq(Records) /\ \A i \in 1 .. Len(q) : Made(q[i], s)

\* The key that the dispatcher repeats.
Repeats(l, s) ==
  \/ l = NoKey
  \/ /\ l \in [code : KeyCodes, press : Nat, count : Nat]
     /\ l.press \in 1 .. Len(s)
     /\ l.code = KeyCode(s[l.press])

\* The kernel holds down the keys of presses.
Keys(h, s) ==
  /\ h \in [Ops -> 0 .. Len(s)]
  /\ \A op \in Ops : h[op] # 0 => s[h[op]] = op

DeviceInv ==
  /\ actsOn \in {"down", "up"} /\ service \in BOOLEAN /\ scrub \in BOOLEAN
  /\ front \in Fronts
  /\ player \in {"playing", "paused", "stopped"}
  /\ outside \subseteq 1 .. Len(sent)

PressInv ==
  /\ sent \in Seq(Ops) /\ Len(sent) <= MaxPresses
  /\ holding \in 0 .. Len(sent)

IInv ==
  /\ DeviceInv /\ PressInv
  /\ Queue(inq, sent) /\ Queue(intents, sent)
  /\ Keys(held, sent) /\ Repeats(last, sent)

-----------------------------------------------------------------------------
LEMMA KeyCodeTyped == ASSUME NEW op \in Ops PROVE KeyCode(op) \in KeyCodes
<1>1. CASE op \in RemoteOps
  <2>1. KeyCode(op) = KeyLayout(LinuxKey[op]) BY <1>1 DEF KeyCode, RemoteOps
  <2>2. LinuxKey[op] \in {200, 166, 201, 163, 165}
    <3>1. /\ LinuxKey["PLAY"] = 200 /\ LinuxKey["STOP"] = 166 /\ LinuxKey["PAUSE"] = 201
          /\ LinuxKey["FORWARD"] = 163 /\ LinuxKey["BACKWARD"] = 165
      BY SMT DEF LinuxKey
    <3> QED BY <1>1, <3>1 DEF RemoteOps
  <2>3. \A k \in {200, 166, 201, 163, 165} : KeyLayout(k) \in KeyCodes
    BY SMT DEF KeyLayout, StockKeyLayout, KeyCodes, AvrcpKeys, MEDIA_PLAY, MEDIA_PAUSE,
               MEDIA_STOP, MEDIA_NEXT, MEDIA_PREVIOUS, PLAY_PAUSE
  <2> QED BY <2>1, <2>2, <2>3
<1>2. CASE op \notin RemoteOps
  <2>1. op \in {"touch PLAY", "touch RIGHT", "touch LEFT"}
    BY <1>2, PassthroughAssumption DEF Ops
  <2>2. CASE op = "touch PLAY" BY <1>2, <2>2 DEF KeyCode, KeyCodes
  <2>3. CASE op = "touch RIGHT" BY <1>2, <2>3 DEF KeyCode, KeyCodes, AvrcpKeys
  <2>4. CASE op = "touch LEFT" BY <1>2, <2>4 DEF KeyCode, KeyCodes, AvrcpKeys
  <2> QED BY <2>1, <2>2, <2>3, <2>4
<1> QED BY <1>1, <1>2

\* A PAUSE of the remote has the discrete key, a STOP the one that stops.
LEMMA SilentKeys == KeyCode("PAUSE") = MEDIA_PAUSE /\ KeyCode("STOP") = MEDIA_STOP
<1>1. "PAUSE" \in RemoteOps /\ "STOP" \in RemoteOps BY DEF RemoteOps
<1>2. LinuxKey["PAUSE"] = 201 /\ LinuxKey["STOP"] = 166 BY SMT DEF LinuxKey
<1>3. KeyLayout(201) = MEDIA_PAUSE /\ KeyLayout(166) = MEDIA_STOP BY SMT DEF KeyLayout, StockKeyLayout
<1> QED BY <1>1, <1>2, <1>3 DEF KeyCode, RemoteOps

-----------------------------------------------------------------------------
(* Presses that were made stay as they are when another one is added.      *)

LEMMA Grown ==
  ASSUME NEW s \in Seq(Ops), NEW op \in Ops
  PROVE  /\ Append(s, op) \in Seq(Ops) /\ Len(Append(s, op)) = Len(s) + 1 /\ Len(s) \in Nat
         /\ Append(s, op)[Len(s) + 1] = op
         /\ \A n \in 1 .. Len(s) : n \in 1 .. Len(s) + 1 /\ Append(s, op)[n] = s[n]
  BY SMT

LEMMA QueueGrows ==
  ASSUME NEW s \in Seq(Ops), NEW op \in Ops, NEW q, Queue(q, s)
  PROVE  Queue(q, Append(s, op))
  BY Grown DEF Queue, Made

LEMMA RepeatsGrows ==
  ASSUME NEW s \in Seq(Ops), NEW op \in Ops, NEW l, Repeats(l, s)
  PROVE  Repeats(l, Append(s, op))
  BY Grown DEF Repeats

LEMMA KeysGrows ==
  ASSUME NEW s \in Seq(Ops), NEW op \in Ops, NEW h, Keys(h, s)
  PROVE  Keys(h, Append(s, op))
<1>1. h \in [Ops -> 0 .. Len(s) + 1] BY SMT, Grown DEF Keys
<1>2. ASSUME NEW k \in Ops, h[k] # 0 PROVE Append(s, op)[h[k]] = k
  <2>1. h[k] \in 1 .. Len(s) BY SMT, <1>2, Grown DEF Keys
  <2> QED BY <1>2, <2>1, Grown DEF Keys
<1> QED BY <1>1, <1>2, Grown DEF Keys

LEMMA QueueAppend ==
  ASSUME NEW s, NEW q, Queue(q, s), NEW e \in Records, Made(e, s)
  PROVE  Queue(Append(q, e), s)
<1>1. q \in Seq(Records) /\ Append(q, e) \in Seq(Records) BY DEF Queue
<1>2. ASSUME NEW i \in 1 .. Len(Append(q, e)) PROVE Made(Append(q, e)[i], s)
  <2>1. i \in 1 .. Len(q) \/ Append(q, e)[i] = e BY SMT, <1>1
  <2>2. i \in 1 .. Len(q) => Append(q, e)[i] = q[i] BY SMT, <1>1
  <2> QED BY <2>1, <2>2 DEF Queue
<1> QED BY <1>1, <1>2 DEF Queue

LEMMA QueueTail ==
  ASSUME NEW s, NEW q, Queue(q, s), q # <<>>
  PROVE  /\ Head(q) \in Records /\ Made(Head(q), s)
         /\ Queue(Tail(q), s)
<1>1. q \in Seq(Records) /\ Tail(q) \in Seq(Records) /\ 1 \in 1 .. Len(q) /\ Head(q) = q[1]
  BY SMT DEF Queue
<1>2. ASSUME NEW i \in 1 .. Len(Tail(q)) PROVE i + 1 \in 1 .. Len(q) /\ Tail(q)[i] = q[i + 1]
  BY SMT, <1>1
<1>3. \A i \in 1 .. Len(q) : q[i] \in Records BY SMT, <1>1
<1> QED BY <1>1, <1>2, <1>3 DEF Queue

-----------------------------------------------------------------------------
(* The kernel and the input dispatcher.                                    *)

\* The press is already counted in s; the key is not held by any other.
LEMMA KeyDownKeeps ==
  ASSUME NEW s \in Seq(Ops), NEW op \in Ops, NEW n \in 1 .. Len(s), s[n] = op,
         Queue(inq, s), Keys(held, s), Repeats(last, s), KeyDown(op, n)
  PROVE  Queue(inq', s) /\ Keys(held', s) /\ Repeats(last', s)
<1>1. CASE held[op] # 0 BY <1>1 DEF KeyDown
<1>2. CASE held[op] = 0
  <2> DEFINE code == KeyCode(op)
             count == IF last.code = code THEN last.count + 1 ELSE 0
             e == KeyEvent(code, "down", count, n)
  <2>1. code \in KeyCodes BY KeyCodeTyped
  <2>2. count \in Nat BY SMT, <2>1 DEF Repeats, NoKey
  <2>3. /\ held' = [held EXCEPT ![op] = n]
        /\ last' = [code |-> code, press |-> n, count |-> count]
        /\ inq' = Append(inq, e)
    BY <1>2 DEF KeyDown
  <2>4. n \in Nat BY SMT
  <2> HIDE DEF count, code
  <2>5. e \in Records /\ e.press = n /\ e.code = code /\ e.action = "down"
    BY <2>1, <2>2, <2>4 DEF Records, KeyEvent
  <2>6. Made(e, s) BY <2>5 DEF Made, code
  <2>7. Queue(inq', s) BY <2>3, <2>5, <2>6, QueueAppend
  <2>8. Repeats(last', s)
    <3>1. last' \in [code : KeyCodes, press : Nat, count : Nat] /\ last'.press = n /\ last'.code = code
      BY <2>1, <2>2, <2>3, <2>4
    <3> QED BY <3>1 DEF Repeats, code
  <2>9. Keys(held', s)
    <3>1. held' \in [Ops -> 0 .. Len(s)] BY SMT, <2>3 DEF Keys
    <3>2. ASSUME NEW k \in Ops, held'[k] # 0 PROVE s[held'[k]] = k
      BY <2>3, <3>2 DEF Keys
    <3> QED BY <3>1, <3>2 DEF Keys
  <2> QED BY <2>7, <2>8, <2>9
<1> QED BY <1>1, <1>2

LEMMA KeyUpKeeps ==
  ASSUME NEW s \in Seq(Ops), NEW op \in Ops,
         Queue(inq, s), Keys(held, s), Repeats(last, s), KeyUp(op)
  PROVE  Queue(inq', s) /\ Keys(held', s) /\ Repeats(last', s)
<1>1. CASE held[op] = 0 BY <1>1 DEF KeyUp
<1>2. CASE held[op] # 0
  <2> DEFINE e == KeyEvent(KeyCode(op), "up", 0, held[op])
  <2>1. held' = [held EXCEPT ![op] = 0] /\ last' = NoKey /\ inq' = Append(inq, e)
    BY <1>2 DEF KeyUp
  <2>2. held[op] \in 1 .. Len(s) /\ held[op] \in Nat /\ s[held[op]] = op BY SMT, <1>2 DEF Keys
  <2>3. KeyCode(op) \in KeyCodes BY KeyCodeTyped
  <2>4. 0 \in Nat BY SMT
  <2>5. /\ e \in Records /\ e.press = held[op] /\ e.code = KeyCode(op)
        /\ e.action = "up" /\ e.repeat = 0
    BY <2>2, <2>3, <2>4 DEF Records, KeyEvent
  <2>6. Made(e, s) BY <2>2, <2>5 DEF Made
  <2>7. Queue(inq', s) BY <2>1, <2>5, <2>6, QueueAppend
  <2>8. Keys(held', s)
    <3>1. held' \in [Ops -> 0 .. Len(s)] BY SMT, <2>1 DEF Keys
    <3>2. ASSUME NEW k \in Ops, held'[k] # 0 PROVE s[held'[k]] = k
      BY <2>1, <3>2 DEF Keys
    <3> QED BY <3>1, <3>2 DEF Keys
  <2> QED BY <2>1, <2>7, <2>8 DEF Repeats
<1> QED BY <1>1, <1>2

-----------------------------------------------------------------------------
(* The actions.                                                            *)

LEMMA InitIInv == Init => IInv
<1> SUFFICES ASSUME Init PROVE IInv OBVIOUS
<1>1. <<>> \in Seq(Ops) /\ Len(<<>>) = 0 /\ <<>> \in Seq(Records) /\ 1 .. 0 = {} BY SMT
<1>2. sent = <<>> /\ inq = <<>> /\ intents = <<>> /\ holding = 0 /\ last = NoKey BY DEF Init
<1>3. held = [op \in Ops |-> 0] BY DEF Init
<1>4. DeviceInv BY DEF Init, DeviceInv, Fronts
<1>5. PressInv
  <2>1. MaxPresses \in Nat BY PassthroughAssumption
  <2> QED BY SMT, <1>1, <1>2, <2>1 DEF PressInv
<1>6. Queue(inq, sent) /\ Queue(intents, sent) BY <1>1, <1>2 DEF Queue
<1>7. Keys(held, sent) BY SMT, <1>1, <1>2, <1>3 DEF Keys
<1> QED BY <1>2, <1>4, <1>5, <1>6, <1>7 DEF IInv, Repeats

LEMMA PressIInv ==
  ASSUME IInv, NEW op \in Ops, Press(op), holding' \in {holding, Len(sent) + 1}
  PROVE  IInv'
<1> DEFINE s == Append(sent, op)
           n == Len(sent) + 1
<1>1. sent \in Seq(Ops) /\ sent' = s BY DEF IInv, PressInv, Press
<1>2. s \in Seq(Ops) /\ Len(s) = n /\ s[n] = op /\ Len(sent) \in Nat BY <1>1, Grown
<1>3. n \in 1 .. Len(s) /\ holding' \in 0 .. Len(s) /\ Len(s) <= MaxPresses
      /\ 1 .. Len(sent) \subseteq 1 .. Len(s)
  <2>1. MaxPresses \in Nat BY PassthroughAssumption
  <2>2. Len(sent) < MaxPresses /\ holding \in 0 .. Len(sent) BY DEF Press, IInv, PressInv
  <2> HIDE DEF s
  <2> QED BY SMT, <1>2, <2>1, <2>2
<1>4. Queue(inq, s) /\ Queue(intents, s) /\ Keys(held, s) /\ Repeats(last, s)
  BY <1>1, QueueGrows, KeysGrows, RepeatsGrows DEF IInv
<1>5. KeyDown(op, n) BY DEF Press
<1>6. UNCHANGED <<actsOn, service, scrub, front, player, outside, intents>> BY DEF Press, devvars
<1> HIDE DEF s, n
<1>7. Queue(inq', s) /\ Keys(held', s) /\ Repeats(last', s)
  BY <1>2, <1>3, <1>4, <1>5, KeyDownKeeps
<1>8. DeviceInv' BY <1>1, <1>3, <1>6 DEF IInv, DeviceInv
<1>9. PressInv' BY <1>1, <1>2, <1>3 DEF PressInv
<1> QED BY <1>1, <1>4, <1>6, <1>7, <1>8, <1>9 DEF IInv

LEMMA ReleaseIInv ==
  ASSUME IInv, NEW op \in Ops, KeyUp(op), UNCHANGED rest, holding' \in {holding, 0}
  PROVE  IInv'
<1>1. UNCHANGED <<actsOn, service, scrub, front, player, outside, intents, sent>> BY DEF rest, devvars
<1>2. Queue(inq', sent) /\ Keys(held', sent) /\ Repeats(last', sent)
  BY KeyUpKeeps DEF IInv, PressInv
<1>3. DeviceInv' BY <1>1 DEF IInv, DeviceInv
<1>4. PressInv' BY SMT, <1>1 DEF IInv, PressInv
<1> QED BY <1>1, <1>2, <1>3, <1>4 DEF IInv

LEMMA RemoteReleaseIInv == ASSUME IInv, RemoteRelease PROVE IInv'
<1>1. holding \in 1 .. Len(sent) BY SMT DEF IInv, PressInv, RemoteRelease
<1>2. sent[holding] \in Ops BY SMT, <1>1 DEF IInv, PressInv
<1> QED BY <1>2, ReleaseIInv DEF RemoteRelease

LEMMA RepeatIInv == ASSUME IInv, SynthesizeRepeat PROVE IInv'
<1> DEFINE e == KeyEvent(last.code, "down", last.count + 1, last.press)
<1>1. /\ last' = [last EXCEPT !.count = @ + 1] /\ inq' = Append(inq, e)
      /\ UNCHANGED <<actsOn, service, scrub, front, player, outside, intents, sent, holding, held>>
  BY DEF SynthesizeRepeat, rest, devvars
<1>2. /\ last \in [code : KeyCodes, press : Nat, count : Nat]
      /\ last.press \in 1 .. Len(sent) /\ last.code = KeyCode(sent[last.press])
  BY DEF SynthesizeRepeat, IInv, Repeats
<1>3. last.count + 1 \in Nat BY SMT, <1>2
<1>4. e \in Records /\ e.press = last.press /\ e.code = last.code /\ e.action = "down"
  BY <1>2, <1>3 DEF Records, KeyEvent
<1>5. Made(e, sent) BY <1>2, <1>4 DEF Made
<1> HIDE DEF e
<1>6. Queue(inq', sent) BY <1>1, <1>4, <1>5, QueueAppend DEF IInv
<1>7. Repeats(last', sent) BY <1>1, <1>2, <1>3 DEF Repeats
<1> QED BY <1>1, <1>6, <1>7 DEF IInv, DeviceInv, PressInv

LEMMA ActTyped ==
  ASSUME NEW n, NEW outcomes \in SUBSET {"playing", "paused", "stopped"}, Act(n, outcomes)
  PROVE  player' \in {"playing", "paused", "stopped"}
  BY DEF Act

LEMMA Outcomes ==
  ASSUME IInv
  PROVE  {playOrPause, play, pause, stop, changeSong} \subseteq SUBSET {"playing", "paused", "stopped"}
  BY DEF IInv, DeviceInv, playOrPause, play, pause, stop, changeSong

LEMMA StockKeyTyped ==
  ASSUME IInv, NEW e, StockKey(e)
  PROVE  player' \in {"playing", "paused", "stopped"} /\ scrub' \in BOOLEAN
<1>1. \/ UNCHANGED player \/ Act(e.press, changeSong) \/ Act(e.press, playOrPause)
  BY DEF StockKey, DoNothing
<1>2. scrub' \in BOOLEAN BY DEF StockKey, IInv, DeviceInv
<1> QED BY <1>1, <1>2, ActTyped, Outcomes DEF IInv, DeviceInv

LEMMA DispatchIInv == ASSUME IInv, Dispatch PROVE IInv'
<1> DEFINE e == Head(inq)
<1>1. inq # <<>> /\ inq' = Tail(inq) /\ UNCHANGED <<actsOn, service, front, sent, holding, held, last>>
  BY DEF Dispatch, devvars
<1>2. e \in Records /\ Made(e, sent) /\ Queue(inq', sent) BY <1>1, QueueTail DEF IInv
<1>3. \/ intents' = Append(intents, e) /\ DoNothing /\ UNCHANGED scrub
      \/ DoNothing /\ UNCHANGED <<intents, scrub>>
      \/ StockKey(e) /\ UNCHANGED intents
  BY DEF Dispatch
<1>4. outside' \in {outside, outside \cup {e.press}} BY DEF Dispatch
<1> HIDE DEF e
<1>5. Queue(intents', sent) BY <1>2, <1>3, QueueAppend DEF IInv
<1>6. player' \in {"playing", "paused", "stopped"} /\ scrub' \in BOOLEAN
  BY <1>3, StockKeyTyped DEF IInv, DeviceInv, DoNothing
<1>7. outside' \subseteq 1 .. Len(sent) BY <1>2, <1>4 DEF Made, IInv, DeviceInv
<1> QED BY <1>1, <1>2, <1>5, <1>6, <1>7 DEF IInv, DeviceInv, PressInv

LEMMA ArmTyped ==
  ASSUME IInv, NEW code \in KeyCodes
  PROVE  Arm(code) \in {playOrPause, play, pause, stop, changeSong}
<1> HIDE DEF playOrPause, play, pause, stop, changeSong
<1> QED BY DEF Arm, KeyCodes, AvrcpKeys, MEDIA_PLAY, MEDIA_PAUSE, MEDIA_STOP, MEDIA_NEXT,
               MEDIA_PREVIOUS, PLAY_PAUSE

LEMMA ReceiveIInv == ASSUME IInv, Receive PROVE IInv'
<1> DEFINE e == Head(intents)
<1>1. /\ intents # <<>> /\ intents' = Tail(intents)
      /\ UNCHANGED <<actsOn, service, front, sent, holding, held, last, inq, scrub, outside>>
  BY DEF Receive, devvars
<1>2. e \in Records /\ Queue(intents', sent) BY <1>1, QueueTail DEF IInv
<1>3. Act(e.press, Arm(e.code)) \/ DoNothing BY DEF Receive
<1> HIDE DEF e
<1>4. e.code \in KeyCodes BY <1>2 DEF Records
<1>5. player' \in {"playing", "paused", "stopped"}
  BY <1>3, <1>4, ArmTyped, Outcomes, ActTyped DEF IInv, DeviceInv, DoNothing
<1> QED BY <1>1, <1>2, <1>5 DEF IInv, DeviceInv, PressInv

LEMMA NextIInv == IInv /\ [Next]_vars => IInv'
<1> SUFFICES ASSUME IInv, [Next]_vars PROVE IInv' OBVIOUS
<1>1. ASSUME NEW op \in RemoteOps, RemotePress(op) PROVE IInv'
  BY <1>1, PressIInv DEF RemotePress, Ops
<1>2. ASSUME NEW op \in TouchOps, TouchPress(op) PROVE IInv'
  BY <1>2, PressIInv DEF TouchPress, Ops
<1>3. ASSUME NEW op \in TouchOps, TouchRelease(op) PROVE IInv'
  BY <1>3, ReleaseIInv DEF TouchRelease, Ops
<1>4. CASE LoseRelease
  <2>1. holding' = 0 /\ 0 \in 0 .. Len(sent) BY SMT, <1>4 DEF LoseRelease, IInv, PressInv
  <2> QED BY <1>4, <2>1 DEF LoseRelease, rest, devvars, IInv, DeviceInv, PressInv
<1>5. CASE StartService BY <1>5 DEF StartService, devvars, IInv, DeviceInv, PressInv
<1>6. ASSUME NEW f \in Fronts, SwitchFront(f) PROVE IInv'
  BY <1>6 DEF SwitchFront, devvars, IInv, DeviceInv, PressInv
<1>7. CASE UNCHANGED vars BY <1>7 DEF vars, devvars, IInv, DeviceInv, PressInv
<1> QED BY <1>1, <1>2, <1>3, <1>4, <1>5, <1>6, <1>7, RemoteReleaseIInv, RepeatIInv,
          DispatchIInv, ReceiveIInv DEF Next

LEMMA Inductive == Spec => []IInv
  BY InitIInv, NextIInv, PTL DEF Spec

-----------------------------------------------------------------------------
\* Every reachable state of the control path is well typed, and every event in
\* it belongs to a press that was made.
THEOREM TypeCorrect == Spec => []TypeOK
<1>1. ASSUME IInv PROVE TypeOK
  <2>1. ASSUME NEW e \in ToSet(inq \o intents)
        PROVE  e.code \in KeyCodes /\ e.press \in Presses /\ (e.action = "up" => e.repeat = 0)
    <3>1. inq \in Seq(Records) /\ intents \in Seq(Records) BY <1>1 DEF IInv, Queue
    <3>2. PICK i \in DOMAIN (inq \o intents) : e = (inq \o intents)[i] BY DEF ToSet
    <3>3. \/ i \in 1 .. Len(inq) /\ e = inq[i]
          \/ i - Len(inq) \in 1 .. Len(intents) /\ e = intents[i - Len(inq)]
      BY SMT, <3>1, <3>2
    <3>4. e \in Records /\ Made(e, sent)
      <4>1. \A k \in 1 .. Len(inq) : inq[k] \in Records BY SMT, <3>1
      <4>2. \A k \in 1 .. Len(intents) : intents[k] \in Records BY SMT, <3>1
      <4> QED BY <3>3, <4>1, <4>2, <1>1 DEF IInv, Queue
    <3> QED BY <3>4 DEF Records, Made, Presses
  <2>2. \A n : n \in 0 .. Len(sent) => n \in {0} \cup Presses BY SMT DEF Presses
  <2>3. holding \in {0} \cup Presses /\ held \in [Ops -> {0} \cup Presses]
    BY <1>1, <2>2 DEF IInv, PressInv, Keys
  <2>4. last # NoKey => last.code \in KeyCodes /\ last.press \in Presses
    BY <1>1 DEF IInv, Repeats, Presses
  <2>5. {service, scrub} \subseteq BOOLEAN BY <1>1 DEF IInv, DeviceInv
  <2> QED BY <2>1, <2>3, <2>4, <2>5, <1>1 DEF IInv, DeviceInv, PressInv, Presses, TypeOK
<1> QED BY <1>1, Inductive, PTL

-----------------------------------------------------------------------------
LEMMA ReceiveSilent ==
  ASSUME IInv, Receive, StartsPlaying, NEW n, n = Head(intents).press
  PROVE  sent[n] \notin {"PAUSE", "STOP"}
<1> DEFINE e == Head(intents)
<1>1. intents # <<>> /\ (Act(e.press, Arm(e.code)) \/ DoNothing) BY DEF Receive
<1>2. Made(e, sent) BY <1>1, QueueTail DEF IInv
<1>3. player' \in Arm(e.code) /\ player # "playing" /\ player' = "playing"
  BY <1>1 DEF Act, DoNothing, StartsPlaying
<1>4. CASE e.code = MEDIA_PAUSE
  <2>1. Arm(e.code) = pause BY <1>4 DEF Arm, MEDIA_PLAY, MEDIA_PAUSE, PLAY_PAUSE, MEDIA_STOP, MEDIA_NEXT, MEDIA_PREVIOUS
  <2> QED BY <1>3, <2>1 DEF pause
<1>5. CASE e.code = MEDIA_STOP
  <2>1. Arm(e.code) = stop BY <1>5 DEF Arm, MEDIA_PLAY, MEDIA_PAUSE, PLAY_PAUSE, MEDIA_STOP, MEDIA_NEXT, MEDIA_PREVIOUS
  <2> QED BY <1>3, <2>1 DEF stop
<1>6. CASE e.code \notin {MEDIA_PAUSE, MEDIA_STOP}
  BY <1>2, <1>6, SilentKeys DEF Made
<1> QED BY <1>4, <1>5, <1>6

LEMMA DispatchSilent ==
  ASSUME IInv, Dispatch, StartsPlaying, NEW n, n = Head(inq).press
  PROVE  sent[n] \notin {"PAUSE", "STOP"}
<1> DEFINE e == Head(inq)
<1>1. inq # <<>> /\ (StockKey(e) \/ DoNothing) BY DEF Dispatch
<1>2. Made(e, sent) BY <1>1, QueueTail DEF IInv
<1>3. player' # player BY DEF StartsPlaying
<1>4. e.code \in {MEDIA_NEXT, MEDIA_PREVIOUS, PLAY_PAUSE}
  BY <1>1, <1>3 DEF StockKey, DoNothing
<1>5. MEDIA_PAUSE \notin {MEDIA_NEXT, MEDIA_PREVIOUS, PLAY_PAUSE}
      /\ MEDIA_STOP \notin {MEDIA_NEXT, MEDIA_PREVIOUS, PLAY_PAUSE}
  BY DEF MEDIA_PAUSE, MEDIA_STOP, MEDIA_NEXT, MEDIA_PREVIOUS, PLAY_PAUSE
<1> QED BY <1>2, <1>4, <1>5, SilentKeys DEF Made

\* [K1] and Patch E: nothing that a PAUSE or a STOP of the remote causes starts
\* the player, however many keys are held, repeated, or lost on the air.
THEOREM PauseStaysSilent == Spec => PauseNeverPlays
<1> DEFINE Silent == StartsPlaying => sent[Cause] \notin {"PAUSE", "STOP"}
<1>1. ASSUME IInv, Next, StartsPlaying PROVE sent[Cause] \notin {"PAUSE", "STOP"}
  <2>1. player' # player BY <1>1 DEF StartsPlaying
  <2>2. Dispatch \/ Receive
    BY <1>1, <2>1 DEF Next, RemotePress, TouchPress, TouchRelease, Press, RemoteRelease, LoseRelease,
                  SynthesizeRepeat, StartService, SwitchFront, rest
  <2>3. CASE Receive
    <3>1. Len(intents') < Len(intents)
      <4>1. intents \in Seq(Records) /\ intents # <<>> /\ intents' = Tail(intents)
        BY <1>1, <2>3 DEF IInv, Queue, Receive
      <4> QED BY SMT, <4>1
    <3> QED BY <1>1, <2>3, <3>1, ReceiveSilent DEF Cause
  <2>4. CASE Dispatch
    <3>1. ~(Len(intents') < Len(intents))
      <4>1. intents \in Seq(Records) /\ (intents' = intents \/ intents' = Append(intents, Head(inq)))
        BY <1>1, <2>4 DEF IInv, Queue, Dispatch
      <4> QED BY SMT, <4>1
    <3> QED BY <1>1, <2>4, <3>1, DispatchSilent DEF Cause
  <2> QED BY <2>2, <2>3, <2>4
<1>2. ASSUME IInv, [Next]_vars PROVE [Silent]_vars BY <1>1, <1>2 DEF vars
<1> QED BY <1>2, Inductive, PTL DEF Spec, PauseNeverPlays

-----------------------------------------------------------------------------
(* The two classes of each image.                                          *)

Pairs(f) == IF f = "BaseActivity" THEN BaseActivityPairs ELSE PlayerPairs

LEMMA ImageIsPatched ==
  ASSUME NEW b \in DOMAIN Builds, NEW f \in Activities
  PROVE  /\ Image[b][f] = IF Builds[b].debug THEN WithLog(Patched(Pairs(f), Builds[b][f]))
                          ELSE Patched(Pairs(f), Builds[b][f])
         /\ StockMethod(Builds[b][f]) /\ ScratchV3(Builds[b][f])
         /\ Pairs(f) \in {BaseActivityPairs, PlayerPairs}
<1>1. StockMethod(Builds[b][f]) /\ ScratchV3(Builds[b][f]) BY StockAssumption
<1> DEFINE log(m) == IF Builds[b].debug THEN WithLog(m) ELSE m
           base   == log(PatchH(Builds[b].BaseActivity))
           screen == log(PatchHPrime(Builds[b].BasePlayerActivity))
<1>2. Image[b] = [BaseActivity |-> base, BasePlayerActivity |-> screen] BY DEF Image
<1>3. Image[b].BaseActivity = base /\ Image[b].BasePlayerActivity = screen
  <2> HIDE DEF base, screen
  <2> QED BY <1>2
<1>4. CASE f = "BaseActivity" BY <1>1, <1>3, <1>4 DEF PatchH, Pairs
<1>5. CASE f = "BasePlayerActivity" BY <1>1, <1>3, <1>5 DEF PatchHPrime, Pairs
<1> QED BY <1>4, <1>5 DEF Activities

\* Where the patch finds its place, the class answers; ...
LEMMA ImageAnswers ==
  ASSUME NEW b \in DOMAIN Builds, NEW f \in Activities, ~OnlyTheEntry(Pairs(f), Builds[b][f])
  PROVE  Answering(Builds[b][f], Image[b][f])
<1> DEFINE m == Builds[b][f]
           p == Patched(Pairs(f), m)
<1>1. StockMethod(m) /\ ScratchV3(m) /\ Pairs(f) \in {BaseActivityPairs, PlayerPairs} BY ImageIsPatched
<1>2. Answering(m, p) BY <1>1, PatchedAnswers
<1>3. Answering(m, WithLog(p)) BY <1>1, <1>2, LogAnswers
<1> QED BY <1>2, <1>3, ImageIsPatched

\* ... where it only finds the method entry, the class does not load: the block that
\* _patch_h_avrcp_block puts there compares a register nothing has written.
THEOREM EntryDoesNotLoad ==
  ASSUME NEW b \in DOMAIN Builds, NEW f \in Activities, OnlyTheEntry(Pairs(f), Builds[b][f])
  PROVE  ~Verifies(Image[b][f])
<1> DEFINE m == Builds[b][f]
           p == AtMethodEntry(m)
<1>1. StockMethod(m) BY ImageIsPatched
<1>2. Patched(Pairs(f), m) = p BY DEF Patched, OnlyTheEntry
<1>3. Blind(p, 1) /\ \E S : p.code \in Seq(S) BY <1>1, EntryIsBlind
<1>4. Blind(WithLog(p), 3) BY <1>3, LogIsBlind
<1>5. ~Verifies(p) BY <1>3, BlindFails
<1>6. ~Verifies(WithLog(p)) BY <1>4, BlindFails
<1> QED BY <1>2, <1>5, <1>6, ImageIsPatched

LEMMA AnsweringIsTransparent ==
  ASSUME NEW m, NEW p, Answering(m, p)
  PROVE  Transparent(m, p)
<1>1. \A e \in Events : Run(p, e).sound = TRUE BY ShapedAnswers DEF Answering
<1>2. Verifies(p) BY <1>1 DEF Verifies
<1>3. ASSUME NEW e \in [code : KeyCodes \ AvrcpKeys, repeat : 0 .. 1] PROVE Found(p, e) = Found(m, e)
  <2>1. e \in Events /\ e.code \notin AvrcpKeys BY DEF Events
  <2> QED BY <2>1 DEF Answering
<1> QED BY <1>2, <1>3 DEF Transparent

\* Whatever the stock methods of a build are, the patch is transparent to them.
LEMMA BuildIsTransparent == \A b \in DOMAIN Builds : <<b, TRUE>> \in Transparency
<1> TAKE b \in DOMAIN Builds
<1> DEFINE A == \/ OnlyTheEntry(BaseActivityPairs, Builds[b].BaseActivity)
                \/ Transparent(Builds[b].BaseActivity, Image[b].BaseActivity)
           B == \/ OnlyTheEntry(PlayerPairs, Builds[b].BasePlayerActivity)
                \/ Transparent(Builds[b].BasePlayerActivity, Image[b].BasePlayerActivity)
<1>1. A
  <2>1. "BaseActivity" \in Activities /\ Pairs("BaseActivity") = BaseActivityPairs BY DEF Activities, Pairs
  <2> QED BY <2>1, ImageAnswers, AnsweringIsTransparent
<1>2. B
  <2>1. "BasePlayerActivity" \in Activities /\ Pairs("BasePlayerActivity") = PlayerPairs BY DEF Activities, Pairs
  <2> QED BY <2>1, ImageAnswers, AnsweringIsTransparent
<1>3. <<b, A /\ B>> \in Transparency BY DEF Transparency
<1>4. (A /\ B) = TRUE BY <1>1, <1>2
<1> QED BY <1>3, <1>4

\* What an activity that has loaded does with a key: one of the five is answered, the
\* others get to the stock body.
LEMMA LoadedAnswers ==
  ASSUME NEW b, NEW f, <<b, f, TRUE>> \in Verdicts, NEW e \in Events
  PROVE  /\ b \in DOMAIN Builds /\ f \in Activities
         /\ Run(Image[b][f], e).out = IF e.code \in AvrcpKeys THEN Answer(e.repeat) ELSE "stock"
<1> DEFINE V(c, g) == Verifies(Image[c][g])
<1>7. Verdicts = {<<c, g, V(c, g)>> : c \in DOMAIN Builds, g \in Activities} BY DEF Verdicts
<1> HIDE DEF V
<1>9. \A t \in Verdicts : \E c \in DOMAIN Builds, g \in Activities : t = <<c, g, V(c, g)>>
  BY <1>7
<1>8. PICK c \in DOMAIN Builds, g \in Activities : <<b, f, TRUE>> = <<c, g, V(c, g)>> BY <1>9
<1>1. b = c /\ f = g /\ Verifies(Image[c][g]) BY <1>8 DEF V
<1>2. b \in DOMAIN Builds /\ f \in Activities /\ Verifies(Image[b][f]) BY <1>1
<1>3. Answering(Builds[b][f], Image[b][f]) BY <1>2, ImageAnswers, EntryDoesNotLoad
<1> DEFINE p == Image[b][f]
<1>4. Shaped(p) /\ \E i \in 1 .. Len(p.code) - 1 : p.code[i].op = "block" BY <1>3 DEF Answering
<1> HIDE DEF p
<1>5. e.code \notin AvrcpKeys => Run(p, e).out = "stock"
  <2>1. Shaped(p) BY <1>4
  <2> QED BY <2>1, ShapedAnswers
<1>6. e.code \in AvrcpKeys => Run(p, e).out = Answer(e.repeat)
  <2>1. Shaped(p) BY <1>4
  <2>2. \E i \in 1 .. Len(p.code) - 1 : p.code[i].op = "block" BY <1>4
  <2> QED BY <2>1, <2>2, ShapedAnswers
<1> QED BY <1>2, <1>5, <1>6 DEF p

-----------------------------------------------------------------------------
(* One press, one action.                                                  *)

\* The event on which something acts: the stock player screen takes the UP of the play
\* key, the receiver the one its handler is for.
Trigger(code, a) == IF code = PLAY_PAUSE THEN "up" ELSE a
Counts(e, a) == e.repeat = 0 /\ e.action = Trigger(e.code, a)

\* No two events on their way are the same first DOWN, or the same UP, of a press.
Same(d, e) == d.press = e.press /\ d.action = e.action /\ d.repeat = 0 /\ e.repeat = 0
Distinct(q) == \A i, j \in 1 .. Len(q) : Same(q[i], q[j]) => i = j
Apart(q, r) == \A i \in 1 .. Len(q), j \in 1 .. Len(r) : ~Same(q[i], r[j])
Once(q, r) == Distinct(q) /\ Distinct(r) /\ Apart(q, r)

\* A key that is down has not been released yet.
NoneUp(q, n) == \A i \in 1 .. Len(q) : q[i].press = n => q[i].action # "up"
StillDown(h, q, r) == \A op \in Ops : h[op] # 0 => NoneUp(q, h[op]) /\ NoneUp(r, h[op])

\* A press that has done something has no event left that could do more.
NoneCounts(q, n, a) == \A i \in 1 .. Len(q) : q[i].press = n => ~Counts(q[i], a)
Spent(n, code, q, r, h, a) ==
  /\ NoneCounts(q, n, a) /\ NoneCounts(r, n, a)
  /\ Trigger(code, a) = "up" => \A op \in Ops : h[op] # n

\* What the two activities have handed on.
Handed(r, n) == \A i \in 1 .. Len(r) : r[i].press = n => r[i].repeat = 0 /\ r[i].code # PLAY_PAUSE
Private(n, done, code, q, r, h, a) ==
  /\ Handed(r, n)
  /\ done <= 1
  /\ done # 0 => Spent(n, code, q, r, h, a)

Loaded == front # "other" => <<build, front, TRUE>> \in Verdicts
Fresh(x, s) == x \in [1 .. MaxPresses -> Nat] /\ \A n \in 1 .. MaxPresses : n > Len(s) => x[n] = 0

OnceInv ==
  /\ build \in DOMAIN Builds /\ Loaded /\ scrub = FALSE
  /\ Fresh(acted, sent)
  /\ Once(inq, intents) /\ StillDown(held, inq, intents)
  /\ \A n \in 1 .. Len(sent) :
       n \notin outside => Private(n, acted[n], KeyCode(sent[n]), inq, intents, held, actsOn)

-----------------------------------------------------------------------------
(* Queues, one event more or one less.                                     *)

LEMMA Appended ==
  ASSUME NEW S, NEW q \in Seq(S), NEW e
  PROVE  \A i \in 1 .. Len(Append(q, e)) :
           (i \in 1 .. Len(q) /\ Append(q, e)[i] = q[i]) \/ (i = Len(q) + 1 /\ Append(q, e)[i] = e)
  BY SMT

LEMMA Tailed ==
  ASSUME NEW S, NEW q \in Seq(S), q # <<>>
  PROVE  /\ \A i \in 1 .. Len(Tail(q)) : i + 1 \in 1 .. Len(q) /\ i + 1 # 1 /\ Tail(q)[i] = q[i + 1] /\ i \in Int
         /\ 1 \in 1 .. Len(q) /\ Head(q) = q[1]
  BY SMT

LEMMA SameIsSymmetric == ASSUME NEW d, NEW e, Same(d, e) PROVE Same(e, d)
  BY DEF Same

LEMMA DistinctAppend ==
  ASSUME NEW S, NEW q \in Seq(S), Distinct(q), NEW e, \A i \in 1 .. Len(q) : ~Same(q[i], e)
  PROVE  Distinct(Append(q, e))
<1> DEFINE p == Append(q, e)
<1>1. \A i \in 1 .. Len(p) : (i \in 1 .. Len(q) /\ p[i] = q[i]) \/ (i = Len(q) + 1 /\ p[i] = e)
  BY Appended
<1> HIDE DEF p
<1>2. \A i \in 1 .. Len(q) : ~Same(e, q[i]) BY SameIsSymmetric
<1>3. Distinct(p) BY <1>1, <1>2 DEF Distinct
<1> QED BY <1>3 DEF p

LEMMA DistinctTail ==
  ASSUME NEW S, NEW q \in Seq(S), q # <<>>, Distinct(q)
  PROVE  Distinct(Tail(q)) /\ \A i \in 1 .. Len(Tail(q)) : ~Same(Tail(q)[i], Head(q))
<1> DEFINE p == Tail(q)
<1>1. /\ \A i \in 1 .. Len(p) : i + 1 \in 1 .. Len(q) /\ i + 1 # 1 /\ p[i] = q[i + 1] /\ i \in Int
      /\ 1 \in 1 .. Len(q) /\ Head(q) = q[1]
  BY Tailed
<1> HIDE DEF p
<1>2. ASSUME NEW i \in 1 .. Len(p), NEW j \in 1 .. Len(p), Same(p[i], p[j]) PROVE i = j
  <2>1. i + 1 = j + 1 BY <1>1, <1>2 DEF Distinct
  <2> QED BY SMT, <1>1, <2>1
<1>3. ASSUME NEW i \in 1 .. Len(p), Same(p[i], Head(q)) PROVE FALSE
  BY <1>1, <1>3 DEF Distinct
<1> QED BY <1>2, <1>3 DEF Distinct, p

LEMMA ApartAppend ==
  ASSUME NEW S, NEW q \in Seq(S), NEW r, Apart(q, r), NEW e, \A i \in 1 .. Len(r) : ~Same(e, r[i])
  PROVE  Apart(Append(q, e), r)
<1> DEFINE p == Append(q, e)
<1>1. \A i \in 1 .. Len(p) : (i \in 1 .. Len(q) /\ p[i] = q[i]) \/ (i = Len(q) + 1 /\ p[i] = e)
  BY Appended
<1> HIDE DEF p
<1>2. Apart(p, r) BY <1>1 DEF Apart
<1> QED BY <1>2 DEF p

LEMMA ApartIsSymmetric == ASSUME NEW q, NEW r, Apart(q, r) PROVE Apart(r, q)
  BY SameIsSymmetric DEF Apart

LEMMA ApartTail ==
  ASSUME NEW S, NEW q \in Seq(S), q # <<>>, NEW r, Apart(q, r)
  PROVE  Apart(Tail(q), r) /\ \A i \in 1 .. Len(r) : ~Same(Head(q), r[i])
<1> DEFINE p == Tail(q)
<1>1. /\ \A i \in 1 .. Len(p) : i + 1 \in 1 .. Len(q) /\ p[i] = q[i + 1]
      /\ 1 \in 1 .. Len(q) /\ Head(q) = q[1]
  BY Tailed
<1> HIDE DEF p
<1>2. Apart(p, r) BY <1>1 DEF Apart
<1> QED BY <1>1, <1>2 DEF Apart, p

\* The head of one queue goes to the end of the other, ...
LEMMA OnceMoves ==
  ASSUME NEW S, NEW q \in Seq(S), q # <<>>, NEW r \in Seq(S), Once(q, r)
  PROVE  Once(Tail(q), Append(r, Head(q)))
<1>1. Distinct(Tail(q)) /\ (\A i \in 1 .. Len(Tail(q)) : ~Same(Tail(q)[i], Head(q)))
  BY DistinctTail DEF Once
<1>2. Apart(Tail(q), r) /\ (\A i \in 1 .. Len(r) : ~Same(Head(q), r[i])) BY ApartTail DEF Once
<1>3. \A i \in 1 .. Len(r) : ~Same(r[i], Head(q)) BY <1>2, SameIsSymmetric
<1>4. Distinct(Append(r, Head(q))) BY <1>3, DistinctAppend DEF Once
<1>5. \A i \in 1 .. Len(Tail(q)) : ~Same(Head(q), Tail(q)[i]) BY <1>1, SameIsSymmetric
<1>6. Apart(r, Tail(q)) BY <1>2, ApartIsSymmetric
<1>7. Apart(Append(r, Head(q)), Tail(q)) BY <1>5, <1>6, ApartAppend
<1>8. Apart(Tail(q), Append(r, Head(q))) BY <1>7, ApartIsSymmetric
<1> QED BY <1>1, <1>4, <1>8 DEF Once

\* ... or is dropped, ...
LEMMA OnceDrops ==
  ASSUME NEW S, NEW q \in Seq(S), q # <<>>, NEW r, Once(q, r)
  PROVE  Once(Tail(q), r) /\ Once(r, Tail(q))
<1>1. Distinct(Tail(q)) /\ Apart(Tail(q), r) /\ Distinct(r) BY DistinctTail, ApartTail DEF Once
<1> QED BY <1>1, ApartIsSymmetric DEF Once

LEMMA OnceIsSymmetric == ASSUME NEW q, NEW r, Once(q, r) PROVE Once(r, q)
  BY ApartIsSymmetric DEF Once

\* ... or a new event comes.
LEMMA OnceAppend ==
  ASSUME NEW S, NEW q \in Seq(S), NEW r \in Seq(S), Once(q, r), NEW e,
         \A i \in 1 .. Len(q) : ~Same(q[i], e), \A i \in 1 .. Len(r) : ~Same(r[i], e)
  PROVE  Once(Append(q, e), r)
<1>1. \A i \in 1 .. Len(r) : ~Same(e, r[i]) BY SameIsSymmetric
<1> QED BY <1>1, DistinctAppend, ApartAppend DEF Once

LEMMA NoneAppend ==
  ASSUME NEW S, NEW q \in Seq(S), NEW e, NEW n, NEW a
  PROVE  /\ NoneUp(q, n) /\ (e.press = n => e.action # "up") => NoneUp(Append(q, e), n)
         /\ NoneCounts(q, n, a) /\ (e.press = n => ~Counts(e, a)) => NoneCounts(Append(q, e), n, a)
         /\ Handed(q, n) /\ (e.press = n => e.repeat = 0 /\ e.code # PLAY_PAUSE) => Handed(Append(q, e), n)
<1> DEFINE p == Append(q, e)
<1>1. \A i \in 1 .. Len(p) : (i \in 1 .. Len(q) /\ p[i] = q[i]) \/ (i = Len(q) + 1 /\ p[i] = e)
  BY Appended
<1> HIDE DEF p
<1>2. NoneUp(q, n) /\ (e.press = n => e.action # "up") => NoneUp(p, n) BY <1>1 DEF NoneUp
<1>3. NoneCounts(q, n, a) /\ (e.press = n => ~Counts(e, a)) => NoneCounts(p, n, a) BY <1>1 DEF NoneCounts
<1>4. Handed(q, n) /\ (e.press = n => e.repeat = 0 /\ e.code # PLAY_PAUSE) => Handed(p, n) BY <1>1 DEF Handed
<1> QED BY <1>2, <1>3, <1>4 DEF p

LEMMA NoneTail ==
  ASSUME NEW S, NEW q \in Seq(S), q # <<>>, NEW n, NEW a
  PROVE  /\ NoneUp(q, n) => NoneUp(Tail(q), n)
         /\ NoneCounts(q, n, a) => NoneCounts(Tail(q), n, a)
         /\ Handed(q, n) => Handed(Tail(q), n)
         /\ NoneUp(q, n) /\ Head(q).press = n => Head(q).action # "up"
         /\ NoneCounts(q, n, a) /\ Head(q).press = n => ~Counts(Head(q), a)
         /\ Handed(q, n) /\ Head(q).press = n => Head(q).repeat = 0 /\ Head(q).code # PLAY_PAUSE
<1> DEFINE p == Tail(q)
<1>1. /\ \A i \in 1 .. Len(p) : i + 1 \in 1 .. Len(q) /\ p[i] = q[i + 1]
      /\ 1 \in 1 .. Len(q) /\ Head(q) = q[1]
  BY Tailed
<1> HIDE DEF p
<1>2. NoneUp(q, n) => NoneUp(p, n) BY <1>1 DEF NoneUp
<1>3. NoneCounts(q, n, a) => NoneCounts(p, n, a) BY <1>1 DEF NoneCounts
<1>4. Handed(q, n) => Handed(p, n) BY <1>1 DEF Handed
<1>5. NoneUp(q, n) /\ Head(q).press = n => Head(q).action # "up" BY <1>1 DEF NoneUp
<1>6. NoneCounts(q, n, a) /\ Head(q).press = n => ~Counts(Head(q), a) BY <1>1 DEF NoneCounts
<1>7. Handed(q, n) /\ Head(q).press = n => Head(q).repeat = 0 /\ Head(q).code # PLAY_PAUSE BY <1>1 DEF Handed
<1> QED BY <1>2, <1>3, <1>4, <1>5, <1>6, <1>7 DEF p

\* The event that counts is the only one of its press that does.
LEMMA HeadIsLast ==
  ASSUME NEW s, NEW q, Queue(q, s), q # <<>>, NEW r, Queue(r, s), Once(q, r), NEW a, Counts(Head(q), a)
  PROVE  NoneCounts(Tail(q), Head(q).press, a) /\ NoneCounts(r, Head(q).press, a)
<1> DEFINE e == Head(q)
<1>1. Made(e, s) /\ Queue(Tail(q), s) BY QueueTail
<1>2. ASSUME NEW d, Made(d, s), d.press = e.press, Counts(d, a) PROVE Same(d, e) /\ Same(e, d)
  <2>1. d.code = e.code BY <1>1, <1>2 DEF Made
  <2> QED BY <1>2, <2>1 DEF Counts, Same
<1>3. \A i \in 1 .. Len(Tail(q)) : Made(Tail(q)[i], s) /\ ~Same(Tail(q)[i], e)
  BY <1>1, DistinctTail DEF Queue, Once
<1>4. \A i \in 1 .. Len(r) : Made(r[i], s) /\ ~Same(e, r[i]) BY ApartTail DEF Queue, Once
<1> HIDE DEF e
<1>5. NoneCounts(Tail(q), e.press, a) BY <1>2, <1>3 DEF NoneCounts
<1>6. NoneCounts(r, e.press, a) BY <1>2, <1>4 DEF NoneCounts
<1> QED BY <1>5, <1>6 DEF e

\* A press that was not made yet has no event.
LEMMA NoEventYet ==
  ASSUME NEW s \in Seq(Ops), NEW q, Queue(q, s), NEW e, e.press = Len(s) + 1, NEW a
  PROVE  /\ \A i \in 1 .. Len(q) : ~Same(q[i], e) /\ q[i].press # e.press
         /\ NoneUp(q, e.press) /\ NoneCounts(q, e.press, a) /\ Handed(q, e.press)
<1>1. Len(s) \in Nat /\ Len(s) + 1 \notin 1 .. Len(s) BY SMT
<1>2. ASSUME NEW i \in 1 .. Len(q) PROVE q[i].press # e.press
  <2>1. q[i].press \in 1 .. Len(s) BY DEF Queue, Made
  <2> QED BY <1>1, <2>1
<1> QED BY <1>2 DEF Same, NoneUp, NoneCounts, Handed

LEMMA InitOnce == Init => OnceInv
<1> SUFFICES ASSUME Init PROVE OnceInv OBVIOUS
<1>1. /\ build \in DOMAIN Builds /\ front = "other" /\ scrub = FALSE /\ sent = <<>> /\ inq = <<>>
      /\ intents = <<>> /\ held = [op \in Ops |-> 0] /\ acted = [n \in 1 .. MaxPresses |-> 0]
  BY DEF Init
<1>2. Len(<<>>) = 0 /\ 1 .. 0 = {} BY SMT
<1>3. Fresh(acted, sent) BY <1>1 DEF Fresh
<1>4. Once(inq, intents) BY <1>1, <1>2 DEF Once, Distinct, Apart
<1>5. StillDown(held, inq, intents) BY <1>1 DEF StillDown
<1>6. \A n \in 1 .. Len(sent) : FALSE BY <1>1, <1>2
<1> QED BY <1>1, <1>3, <1>4, <1>5, <1>6 DEF OnceInv, Loaded

LEMMA PressOnce == ASSUME IInv, OnceInv, NEW op \in Ops, Press(op) PROVE OnceInv'
<1> DEFINE s == Append(sent, op)
           p == Len(sent) + 1
           a == actsOn
<1>1. sent \in Seq(Ops) /\ Queue(inq, sent) /\ Queue(intents, sent) /\ Keys(held, sent)
  BY DEF IInv, PressInv
<1>2. /\ sent' = s /\ KeyDown(op, p) /\ Len(sent) < MaxPresses
      /\ UNCHANGED <<build, actsOn, front, intents, scrub, acted, outside>>
  BY DEF Press, devvars
<1>3. /\ Len(s) = p /\ Len(sent) \in Nat /\ s[p] = op
      /\ \A n \in 1 .. Len(sent) : s[n] = sent[n]
  BY <1>1, Grown
<1>4. p \in 1 .. MaxPresses /\ p > Len(sent)
  <2>1. MaxPresses \in Nat BY PassthroughAssumption
  <2> QED BY SMT, <1>2, <1>3, <2>1
<1>5. acted[p] = 0 BY <1>4 DEF OnceInv, Fresh
<1>6. \A n \in 1 .. Len(s) : n \in 1 .. Len(sent) \/ n = p BY SMT, <1>3
<1>7. \A n \in 1 .. Len(sent) : n # p BY SMT, <1>3
<1>8. Fresh(acted, s)
  <2>1. \A n \in 1 .. MaxPresses : n > Len(s) => n > Len(sent) BY SMT, <1>3
  <2> QED BY <2>1 DEF OnceInv, Fresh
<1>9. /\ NoneUp(inq, p) /\ NoneUp(intents, p) /\ Handed(intents, p)
  <2> DEFINE e == [press |-> p]
  <2>1. e.press = p OBVIOUS
  <2> HIDE DEF e, p
  <2>2. e.press = Len(sent) + 1 BY <2>1 DEF p
  <2> QED BY <1>1, <2>1, <2>2, NoEventYet
<1> HIDE DEF s, p
<1>10. CASE held[op] # 0
  <2>1. UNCHANGED <<held, inq>> BY <1>2, <1>10 DEF KeyDown
  <2>2. ASSUME NEW n \in 1 .. Len(s), n \notin outside
        PROVE  Private(n, acted[n], KeyCode(s[n]), inq, intents, held, actsOn)
    <3>1. CASE n \in 1 .. Len(sent) BY <1>3, <2>2, <3>1 DEF OnceInv
    <3>2. CASE n = p BY <1>5, <1>9, <3>2 DEF Private
    <3> QED BY <1>6, <3>1, <3>2
  <2> QED BY <1>2, <1>8, <2>1, <2>2 DEF OnceInv, Loaded
<1>11. CASE held[op] = 0
  <2>1. PICK count : inq' = Append(inq, KeyEvent(KeyCode(op), "down", count, p))
    BY <1>2, <1>11, Zenon DEF KeyDown
  <2> DEFINE e == KeyEvent(KeyCode(op), "down", count, p)
  <2>2. e.press = p /\ e.action = "down" BY DEF KeyEvent
  <2>3. held' = [held EXCEPT ![op] = p] BY <1>2, <1>11, Zenon DEF KeyDown
  <2> HIDE DEF e
  <2>4. inq' = Append(inq, e) BY <2>1 DEF e
  <2>5. inq \in Seq(Records) /\ intents \in Seq(Records) BY <1>1 DEF Queue
  <2>6. /\ \A i \in 1 .. Len(inq) : ~Same(inq[i], e)
        /\ \A i \in 1 .. Len(intents) : ~Same(intents[i], e)
    <3>1. e.press = Len(sent) + 1 BY <2>2 DEF p
    <3> QED BY <1>1, <3>1, NoEventYet
  <2>7. Once(inq', intents) BY <2>4, <2>5, <2>6, OnceAppend DEF OnceInv
  <2>8. held \in [Ops -> 0 .. Len(sent)] BY <1>1 DEF Keys
  <2>9. StillDown(held', inq', intents)
    <3> SUFFICES ASSUME NEW k \in Ops, held'[k] # 0 PROVE NoneUp(inq', held'[k]) /\ NoneUp(intents, held'[k])
      BY DEF StillDown
    <3>0. e.action # "up" BY <2>2
    <3>1. CASE k = op
      <4>1. held'[k] = p BY <2>3, <2>8, <3>1
      <4> QED BY <1>9, <2>4, <2>5, <3>0, <4>1, NoneAppend
    <3>2. CASE k # op
      <4>1. held'[k] = held[k] BY <2>3, <2>8, <3>2
      <4>2. NoneUp(inq, held[k]) /\ NoneUp(intents, held[k]) BY <4>1 DEF OnceInv, StillDown
      <4> QED BY <2>4, <2>5, <3>0, <4>1, <4>2, NoneAppend
    <3> QED BY <3>1, <3>2
  <2>10. ASSUME NEW n \in 1 .. Len(s), n \notin outside
         PROVE  Private(n, acted[n], KeyCode(s[n]), inq', intents, held', actsOn)
    <3>1. CASE n \in 1 .. Len(sent)
      <4>1. Private(n, acted[n], KeyCode(s[n]), inq, intents, held, actsOn)
        BY <1>3, <2>10, <3>1 DEF OnceInv
      <4>2. e.press # n BY <1>7, <2>2, <3>1
      <4>3. NoneCounts(inq, n, actsOn) => NoneCounts(inq', n, actsOn) BY <2>4, <2>5, <4>2, NoneAppend
      <4>4. (\A k \in Ops : held[k] # n) => (\A k \in Ops : held'[k] # n)
        BY <1>7, <2>3, <2>8, <3>1
      <4> QED BY <4>1, <4>3, <4>4 DEF Private, Spent
    <3>2. CASE n = p BY <1>5, <1>9, <3>2 DEF Private
    <3> QED BY <1>6, <3>1, <3>2
  <2> QED BY <1>2, <1>8, <2>7, <2>9, <2>10 DEF OnceInv, Loaded
<1> QED BY <1>10, <1>11

LEMMA ReleaseOnce ==
  ASSUME IInv, OnceInv, NEW op \in Ops, KeyUp(op), UNCHANGED rest PROVE OnceInv'
<1>1. sent \in Seq(Ops) /\ Queue(inq, sent) /\ Queue(intents, sent) /\ Keys(held, sent)
  BY DEF IInv, PressInv
<1>2. UNCHANGED <<build, actsOn, front, sent, intents, scrub, acted, outside>> BY DEF rest, devvars
<1>3. CASE held[op] = 0
  <2>1. UNCHANGED <<held, inq>> BY <1>3 DEF KeyUp
  <2> QED BY <1>2, <2>1 DEF OnceInv, Loaded
<1>4. CASE held[op] # 0
  <2> DEFINE n == held[op]
             e == KeyEvent(KeyCode(op), "up", 0, n)
  <2>1. held' = [held EXCEPT ![op] = 0] /\ inq' = Append(inq, e) BY <1>4 DEF KeyUp
  <2>2. e.press = n /\ e.action = "up" /\ e.code = KeyCode(op) /\ e.repeat = 0 BY DEF KeyEvent
  <2>3. sent[n] = op /\ held \in [Ops -> 0 .. Len(sent)] BY <1>1, <1>4 DEF Keys
  <2> HIDE DEF e, n
  <2>4. inq \in Seq(Records) /\ intents \in Seq(Records) BY <1>1 DEF Queue
  <2>5. NoneUp(inq, n) /\ NoneUp(intents, n) BY <1>4 DEF OnceInv, StillDown, n
  <2>6. Once(inq', intents)
    <3>1. \A i \in 1 .. Len(inq) : ~Same(inq[i], e) BY <2>2, <2>5 DEF NoneUp, Same
    <3>2. \A i \in 1 .. Len(intents) : ~Same(intents[i], e) BY <2>2, <2>5 DEF NoneUp, Same
    <3> QED BY <2>1, <2>4, <3>1, <3>2, OnceAppend DEF OnceInv
  <2>7. \A k \in Ops : held'[k] = IF k = op THEN 0 ELSE held[k] BY <2>1, <2>3
  <2>8. \A k \in Ops : k # op /\ held[k] # 0 => held[k] # n BY <1>1, <2>3 DEF Keys
  <2>9. StillDown(held', inq', intents)
    <3> SUFFICES ASSUME NEW k \in Ops, held'[k] # 0 PROVE NoneUp(inq', held'[k]) /\ NoneUp(intents, held'[k])
      BY DEF StillDown
    <3>1. held'[k] = held[k] /\ held[k] # 0 /\ held[k] # n BY <2>7, <2>8
    <3>2. NoneUp(inq, held[k]) /\ NoneUp(intents, held[k]) BY <3>1 DEF OnceInv, StillDown
    <3>3. e.press # held[k] BY <2>2, <3>1
    <3> QED BY <2>1, <2>4, <3>1, <3>2, <3>3, NoneAppend
  <2>10. ASSUME NEW k \in 1 .. Len(sent), k \notin outside
         PROVE  Private(k, acted[k], KeyCode(sent[k]), inq', intents, held', actsOn)
    <3>1. Private(k, acted[k], KeyCode(sent[k]), inq, intents, held, actsOn) BY <2>10 DEF OnceInv
    <3>2. ASSUME acted[k] # 0 PROVE Spent(k, KeyCode(sent[k]), inq', intents, held', actsOn)
      <4>1. Spent(k, KeyCode(sent[k]), inq, intents, held, actsOn) BY <3>1, <3>2 DEF Private
      <4>2. e.press = k => ~Counts(e, actsOn)
        <5>1. CASE k = n
          <6>1. KeyCode(sent[k]) = e.code BY <2>2, <2>3, <5>1
          <6>2. held[op] = k BY <5>1 DEF n
          <6>3. Trigger(e.code, actsOn) # "up" BY <4>1, <6>1, <6>2 DEF Spent
          <6> QED BY <2>2, <6>3 DEF Counts
        <5> QED BY <2>2, <5>1
      <4>3. NoneCounts(inq', k, actsOn) BY <2>1, <2>4, <4>1, <4>2, NoneAppend DEF Spent
      <4>4. k # 0 BY SMT
      <4>5. (\A i \in Ops : held[i] # k) => (\A i \in Ops : held'[i] # k) BY <2>7, <4>4
      <4> QED BY <4>1, <4>3, <4>5 DEF Spent
    <3> QED BY <3>1, <3>2 DEF Private
  <2> QED BY <1>2, <2>6, <2>9, <2>10 DEF OnceInv, Loaded
<1> QED BY <1>3, <1>4

LEMMA RemoteReleaseOnce == ASSUME IInv, OnceInv, RemoteRelease PROVE OnceInv'
<1>1. holding \in 1 .. Len(sent) BY SMT DEF IInv, PressInv, RemoteRelease
<1>2. sent[holding] \in Ops BY SMT, <1>1 DEF IInv, PressInv
<1> QED BY <1>2, ReleaseOnce DEF RemoteRelease

LEMMA RepeatOnce == ASSUME IInv, OnceInv, SynthesizeRepeat PROVE OnceInv'
<1> DEFINE e == KeyEvent(last.code, "down", last.count + 1, last.press)
<1>1. /\ inq' = Append(inq, e)
      /\ UNCHANGED <<build, actsOn, front, sent, intents, scrub, acted, outside, held>>
  BY DEF SynthesizeRepeat, rest, devvars
<1>2. last \in [code : KeyCodes, press : Nat, count : Nat] BY DEF SynthesizeRepeat, IInv, Repeats
<1>3. last.count + 1 # 0 BY SMT, <1>2
<1>4. e.repeat # 0 /\ e.action # "up" BY <1>3 DEF KeyEvent
<1> HIDE DEF e
<1>5. inq \in Seq(Records) /\ intents \in Seq(Records) BY DEF IInv, Queue
<1>6. /\ \A i \in 1 .. Len(inq) : ~Same(inq[i], e)
      /\ \A i \in 1 .. Len(intents) : ~Same(intents[i], e)
      /\ ~Counts(e, actsOn)
  BY <1>4 DEF Same, Counts
<1>7. Once(inq', intents) BY <1>1, <1>5, <1>6, OnceAppend DEF OnceInv
<1>8. /\ \A n : NoneUp(inq, n) => NoneUp(inq', n)
      /\ \A n : NoneCounts(inq, n, actsOn) => NoneCounts(inq', n, actsOn)
  BY <1>1, <1>4, <1>5, <1>6, NoneAppend
<1>9. StillDown(held, inq', intents) BY <1>8 DEF OnceInv, StillDown
<1>10. \A n \in 1 .. Len(sent) : n \notin outside =>
         Private(n, acted[n], KeyCode(sent[n]), inq', intents, held, actsOn)
  BY <1>8 DEF OnceInv, Private, Spent
<1> QED BY <1>1, <1>7, <1>9, <1>10 DEF OnceInv, Loaded

\* What the activity in front, one that has loaded, does with an event.
LEMMA LoadedDoes ==
  ASSUME OnceInv, front # "other", NEW e \in Records, NEW out
  PROVE  Does(out, e) <=>
           out = IF e.code \in AvrcpKeys THEN Answer(Min({e.repeat, 1})) ELSE "stock"
<1> DEFINE m == Min({e.repeat, 1})
           d == [code |-> e.code, repeat |-> m]
           R(c, g, x) == Run(Image[c][g], x).out
<1>1. m \in 0 .. 1 /\ e.code \in KeyCodes
  <2>1. e.repeat \in Nat /\ e.code \in KeyCodes BY DEF Records
  <2>2. 1 \in Nat OBVIOUS
  <2>3. m \in Nat /\ m <= 1 BY <2>1, <2>2, MinType
  <2> HIDE DEF m
  <2> QED BY SMT, <2>1, <2>3
<1>2. Does(out, e) <=> <<build, front, e.code, m, out>> \in Answers BY DEF Does
<1> HIDE DEF m
<1>3. d \in Events /\ d.code = e.code /\ d.repeat = m BY <1>1 DEF Events
<1>4. /\ build \in DOMAIN Builds /\ front \in Activities
      /\ R(build, front, d) = IF e.code \in AvrcpKeys THEN Answer(m) ELSE "stock"
  <2>1. <<build, front, TRUE>> \in Verdicts BY DEF OnceInv, Loaded
  <2> HIDE DEF d
  <2> QED BY <1>3, <2>1, LoadedAnswers
<1>5. Answers = {<<c, g, x.code, x.repeat, R(c, g, x)>> : c \in DOMAIN Builds, g \in Activities, x \in Events}
  BY DEF Answers
<1> HIDE DEF R
<1>6. \A t \in Answers : \E c \in DOMAIN Builds, g \in Activities, x \in Events :
        t = <<c, g, x.code, x.repeat, R(c, g, x)>>
  BY <1>5
<1>7. <<build, front, d.code, d.repeat, R(build, front, d)>> \in Answers BY <1>3, <1>4, <1>5
<1>8. ASSUME <<build, front, e.code, m, out>> \in Answers PROVE out = R(build, front, d)
  <2>1. PICK c \in DOMAIN Builds, g \in Activities, x \in Events :
          <<build, front, e.code, m, out>> = <<c, g, x.code, x.repeat, R(c, g, x)>>
    BY <1>6, <1>8
  <2>2. c = build /\ g = front /\ x.code = e.code /\ x.repeat = m /\ out = R(c, g, x) BY <2>1
  <2>3. x = d BY <2>2 DEF Events
  <2> QED BY <2>2, <2>3
<1> QED BY <1>2, <1>3, <1>4, <1>7, <1>8 DEF m

\* The first DOWN and the UP of one of the five keys go on to the framework, its repeats
\* go nowhere, and only the play key gets to the stock player screen.
LEMMA LoadedRoutes ==
  ASSUME OnceInv, front # "other", NEW e \in Records
  PROVE  /\ Does("propagate", e) => e.repeat = 0 /\ e.code # PLAY_PAUSE
         /\ ~Does("propagate", e) /\ ~Does("consume", e) => e.code = PLAY_PAUSE
<1> DEFINE m == Min({e.repeat, 1})
<1>1. e.repeat \in Nat /\ e.code \in KeyCodes BY DEF Records
<1>2. m = e.repeat \/ m = 1
  <2>1. 1 \in Nat OBVIOUS
  <2> QED BY <1>1, <2>1, MinType
<1>3. \A out : Does(out, e) <=> out = IF e.code \in AvrcpKeys THEN Answer(m) ELSE "stock"
  BY LoadedDoes
<1> HIDE DEF m
<1>4. PLAY_PAUSE \notin AvrcpKeys
  BY DEF PLAY_PAUSE, AvrcpKeys, MEDIA_PLAY, MEDIA_PAUSE, MEDIA_STOP, MEDIA_NEXT, MEDIA_PREVIOUS
<1>5. e.code \notin AvrcpKeys => e.code = PLAY_PAUSE BY <1>1 DEF KeyCodes
<1>6. Answer(m) \in {"propagate", "consume"} /\ (Answer(m) = "propagate" => m = 0) BY DEF Answer
<1> QED BY <1>2, <1>3, <1>4, <1>5, <1>6

\* A press that has done nothing yet, and then does something with its one event.
LEMMA HandOn ==
  ASSUME NEW q, NEW r, NEW n, NEW done, NEW code, NEW h, NEW a, NEW S,
         q \in Seq(S), r \in Seq(S), q # <<>>,
         Private(n, done, code, q, r, h, a),
         Head(q).press = n => Head(q).repeat = 0 /\ Head(q).code # PLAY_PAUSE
  PROVE  Private(n, done, code, Tail(q), Append(r, Head(q)), h, a)
<1>1. Handed(Append(r, Head(q)), n) BY NoneAppend DEF Private
<1>2. ASSUME Spent(n, code, q, r, h, a) PROVE Spent(n, code, Tail(q), Append(r, Head(q)), h, a)
  <2>1. NoneCounts(Tail(q), n, a) /\ (Head(q).press = n => ~Counts(Head(q), a))
    BY <1>2, NoneTail DEF Spent
  <2>2. NoneCounts(Append(r, Head(q)), n, a) BY <1>2, <2>1, NoneAppend DEF Spent
  <2> QED BY <1>2, <2>1, <2>2 DEF Spent
<1> QED BY <1>1, <1>2 DEF Private

LEMMA DropFirst ==
  ASSUME NEW q, NEW r, NEW n, NEW done, NEW code, NEW h, NEW a, NEW S,
         q \in Seq(S), q # <<>>,
         Private(n, done, code, q, r, h, a)
  PROVE  Private(n, done, code, Tail(q), r, h, a)
  BY NoneTail DEF Private, Spent

LEMMA DropSecond ==
  ASSUME NEW q, NEW r, NEW n, NEW done, NEW code, NEW h, NEW a, NEW S,
         r \in Seq(S), r # <<>>,
         Private(n, done, code, q, r, h, a)
  PROVE  Private(n, done, code, q, Tail(r), h, a)
  BY NoneTail DEF Private, Spent

LEMMA DownStays ==
  ASSUME NEW q, NEW r, NEW h, NEW S, q \in Seq(S), r \in Seq(S), StillDown(h, q, r)
  PROVE  /\ q # <<>> => StillDown(h, Tail(q), Append(r, Head(q))) /\ StillDown(h, Tail(q), r)
         /\ r # <<>> => StillDown(h, q, Tail(r))
<1>1. ASSUME NEW op \in Ops, h[op] # 0 PROVE NoneUp(q, h[op]) /\ NoneUp(r, h[op])
  BY <1>1 DEF StillDown
<1>2. ASSUME q # <<>>, NEW op \in Ops, h[op] # 0
      PROVE  NoneUp(Tail(q), h[op]) /\ NoneUp(Append(r, Head(q)), h[op])
  <2>1. NoneUp(Tail(q), h[op]) /\ (Head(q).press = h[op] => Head(q).action # "up")
    BY <1>1, <1>2, NoneTail
  <2> QED BY <1>1, <1>2, <2>1, NoneAppend
<1>3. ASSUME r # <<>>, NEW op \in Ops, h[op] # 0 PROVE NoneUp(Tail(r), h[op])
  BY <1>1, <1>3, NoneTail
<1> QED BY <1>1, <1>2, <1>3 DEF StillDown

\* One more is counted for press n of s.
Counted(x, y, n, s) ==
  /\ Fresh(y, s)
  /\ y[n] = x[n] + 1 /\ x[n] \in Nat
  /\ \A k \in 1 .. Len(s) : k # n => y[k] = x[k]

LEMMA CountsOne ==
  ASSUME NEW s \in Seq(Ops), Len(s) <= MaxPresses, NEW x, Fresh(x, s), NEW n \in 1 .. Len(s),
         NEW y, y = [x EXCEPT ![n] = @ + 1]
  PROVE  Counted(x, y, n, s)
<1>1. MaxPresses \in Nat BY PassthroughAssumption
<1>2. n \in 1 .. MaxPresses /\ ~(n > Len(s)) BY SMT, <1>1
<1>3. \A k \in 1 .. Len(s) : k \in 1 .. MaxPresses BY SMT, <1>1
<1>4. x \in [1 .. MaxPresses -> Nat] BY DEF Fresh
<1>5. x[n] + 1 \in Nat BY SMT, <1>2, <1>4
<1>6. y \in [1 .. MaxPresses -> Nat] BY <1>2, <1>4, <1>5
<1>7. \A k \in 1 .. MaxPresses : y[k] = IF k = n THEN x[n] + 1 ELSE x[k]
  BY <1>2, <1>4
<1>8. x[n] \in Nat BY <1>2, <1>4
<1> QED BY <1>2, <1>3, <1>6, <1>7, <1>8 DEF Fresh, Counted

\* The press that acts: it had done nothing, and it has nothing left to act with.
LEMMA ActsOnce ==
  ASSUME NEW s, NEW q, NEW r, NEW h, NEW a, NEW done,
         Queue(q, s), Queue(r, s), q # <<>>, Once(q, r), Counts(Head(q), a),
         done \in Nat,
         StillDown(h, q, r) \/ StillDown(h, r, q),
         done # 0 => NoneCounts(q, Head(q).press, a)
  PROVE  done + 1 = 1 /\ Spent(Head(q).press, Head(q).code, Tail(q), r, h, a)
                      /\ Spent(Head(q).press, Head(q).code, r, Tail(q), h, a)
<1> DEFINE e == Head(q)
<1>1. NoneCounts(Tail(q), e.press, a) /\ NoneCounts(r, e.press, a) BY HeadIsLast
<1>2. q \in Seq(Records) BY DEF Queue
<1>3. NoneCounts(q, e.press, a) => ~Counts(e, a) BY <1>2, NoneTail
<1>4. done + 1 = 1
  <2>1. done = 0 BY <1>3
  <2> QED BY <2>1
<1>5. Made(e, s) BY QueueTail
<1>6. e.press # 0 BY SMT, <1>5 DEF Made
<1>7. ASSUME Trigger(e.code, a) = "up", NEW op \in Ops, h[op] = e.press PROVE FALSE
  <2>1. NoneUp(q, e.press) BY <1>6, <1>7 DEF StillDown
  <2>2. e.action # "up" BY <1>2, <2>1, NoneTail
  <2> QED BY <1>7, <2>2 DEF Counts
<1> QED BY <1>1, <1>4, <1>7 DEF Spent

LEMMA DispatchOnce == ASSUME IInv, OnceInv, Dispatch PROVE OnceInv'
<1> DEFINE e == Head(inq)
           n == e.press
<1>1. /\ inq # <<>> /\ inq' = Tail(inq) /\ UNCHANGED <<build, actsOn, front, sent, held>>
      /\ outside \subseteq outside'
  BY DEF Dispatch, devvars
<1>2. /\ e \in Records /\ Made(e, sent) /\ Queue(inq, sent) /\ Queue(intents, sent)
      /\ inq \in Seq(Records) /\ intents \in Seq(Records)
  BY <1>1, QueueTail DEF IInv, Queue
<1>3. \A k \in 1 .. Len(sent) : k \notin outside' =>
        Private(k, acted[k], KeyCode(sent[k]), inq, intents, held, actsOn)
  BY <1>1 DEF OnceInv
<1>4. Once(inq, intents) /\ StillDown(held, inq, intents) /\ scrub = FALSE /\ Fresh(acted, sent) BY DEF OnceInv
<1>5. CASE /\ intents' = Append(intents, e) /\ UNCHANGED <<acted, scrub>>
           /\ n \notin outside' => e.repeat = 0 /\ e.code # PLAY_PAUSE
  <2>1. Once(inq', intents') BY <1>1, <1>2, <1>4, <1>5, OnceMoves
  <2>2. StillDown(held, inq', intents') BY <1>1, <1>2, <1>4, <1>5, DownStays
  <2>3. \A k \in 1 .. Len(sent) : k \notin outside' =>
          Private(k, acted[k], KeyCode(sent[k]), inq', intents', held, actsOn)
    BY <1>1, <1>2, <1>3, <1>5, HandOn
  <2> QED BY <1>1, <1>4, <1>5, <2>1, <2>2, <2>3 DEF OnceInv, Loaded
<1>6. Once(inq', intents) /\ StillDown(held, inq', intents)
  BY <1>1, <1>2, <1>4, OnceDrops, DownStays
<1>7. \A k \in 1 .. Len(sent) : k \notin outside' =>
        Private(k, acted[k], KeyCode(sent[k]), inq', intents, held, actsOn)
  BY <1>1, <1>2, <1>3, DropFirst
<1>8. CASE UNCHANGED <<intents, acted, scrub>>
  BY <1>1, <1>4, <1>6, <1>7, <1>8 DEF OnceInv, Loaded
<1>9. CASE /\ front # "other" /\ e.code = PLAY_PAUSE /\ e.action = "up"
           /\ acted' = [acted EXCEPT ![n] = @ + 1] /\ UNCHANGED <<intents, scrub>>
  <2>1. n \in 1 .. Len(sent) /\ e.code = KeyCode(sent[n]) /\ e.repeat = 0 BY <1>2, <1>9 DEF Made
  <2>2. Counts(e, actsOn) BY <1>9, <2>1 DEF Counts, Trigger
  <2>3. sent \in Seq(Ops) /\ Len(sent) <= MaxPresses BY DEF IInv, PressInv
  <2>0. acted' = [acted EXCEPT ![n] = @ + 1] BY <1>9
  <2> HIDE DEF n
  <2>4. /\ Fresh(acted', sent) /\ acted'[n] = acted[n] + 1 /\ acted[n] \in Nat
        /\ \A k \in 1 .. Len(sent) : k # n => acted'[k] = acted[k]
    <3>1. Counted(acted, acted', n, sent) BY <1>4, <2>0, <2>1, <2>3, CountsOne
    <3> QED BY <3>1 DEF Counted
  <2>5. ASSUME n \notin outside' PROVE Private(n, acted'[n], KeyCode(sent[n]), inq', intents, held, actsOn)
    <3>1. Private(n, acted[n], KeyCode(sent[n]), inq, intents, held, actsOn) BY <1>3, <2>1, <2>5
    <3>2. acted[n] # 0 => NoneCounts(inq, n, actsOn) BY <3>1 DEF Private, Spent
    <3>3. acted[n] \in Nat BY <2>4
    <3>4. acted[n] + 1 = 1 /\ Spent(e.press, e.code, Tail(inq), intents, held, actsOn)
      BY <1>1, <1>2, <1>4, <2>2, <3>2, <3>3, ActsOnce DEF n
    <3>5. Spent(n, KeyCode(sent[n]), inq', intents, held, actsOn) BY <1>1, <2>1, <3>4 DEF n
    <3>6. acted'[n] <= 1 BY <2>4, <3>4
    <3> QED BY <3>1, <3>5, <3>6 DEF Private
  <2>6. \A k \in 1 .. Len(sent) : k \notin outside' =>
          Private(k, acted'[k], KeyCode(sent[k]), inq', intents, held, actsOn)
    BY <1>7, <2>4, <2>5
  <2> QED BY <1>1, <1>4, <1>6, <1>9, <2>4, <2>6 DEF OnceInv, Loaded
<1>10. CASE front = "other"
  <2>1. Does("propagate", e) BY <1>10 DEF Does
  <2>2. intents' = Append(intents, e) /\ UNCHANGED <<acted, scrub>> BY <2>1 DEF Dispatch, DoNothing
  <2>3. n \in outside' BY <1>10 DEF Dispatch
  <2> QED BY <1>5, <2>2, <2>3
<1>11. CASE front # "other"
  <2>1. /\ Does("propagate", e) => e.repeat = 0 /\ e.code # PLAY_PAUSE
        /\ ~Does("propagate", e) /\ ~Does("consume", e) => e.code = PLAY_PAUSE
    <3> HIDE DEF e
    <3> QED BY <1>2, <1>11, LoadedRoutes
  <2>2. CASE Does("propagate", e)
    <3>1. intents' = Append(intents, e) /\ UNCHANGED <<acted, scrub>> BY <2>2 DEF Dispatch, DoNothing
    <3> QED BY <1>5, <2>1, <2>2, <3>1
  <2>3. CASE ~Does("propagate", e) /\ Does("consume", e)
    <3>1. UNCHANGED <<intents, acted, scrub>> BY <2>3 DEF Dispatch, DoNothing
    <3> QED BY <1>8, <3>1
  <2>4. CASE ~Does("propagate", e) /\ ~Does("consume", e)
    <3>1. StockKey(e) /\ UNCHANGED intents BY <2>4 DEF Dispatch
    <3>2. e.code = PLAY_PAUSE BY <2>1, <2>4
    <3>3. PLAY_PAUSE \notin {MEDIA_NEXT, MEDIA_PREVIOUS} BY DEF PLAY_PAUSE, MEDIA_NEXT, MEDIA_PREVIOUS
    <3> HIDE DEF e
    <3>4. \/ e.action = "up" /\ Act(e.press, playOrPause) /\ UNCHANGED scrub
          \/ DoNothing /\ UNCHANGED scrub
      BY <3>1, <3>2, <3>3 DEF StockKey
    <3>5. CASE DoNothing /\ UNCHANGED scrub BY <1>8, <3>1, <3>5 DEF DoNothing
    <3>6. CASE e.action = "up" /\ Act(e.press, playOrPause) /\ UNCHANGED scrub
      <4>1. acted' = [acted EXCEPT ![n] = @ + 1] BY <3>6 DEF Act
      <4> QED BY <1>9, <1>11, <3>1, <3>2, <3>6, <4>1
    <3> QED BY <3>4, <3>5, <3>6
  <2> QED BY <2>2, <2>3, <2>4
<1> QED BY <1>10, <1>11

LEMMA ReceiveOnce == ASSUME IInv, OnceInv, Receive PROVE OnceInv'
<1> DEFINE e == Head(intents)
           n == e.press
<1>1. /\ intents # <<>> /\ intents' = Tail(intents)
      /\ UNCHANGED <<build, actsOn, front, sent, held, inq, scrub, outside>>
  BY DEF Receive, devvars
<1>2. /\ e \in Records /\ Made(e, sent) /\ Queue(inq, sent) /\ Queue(intents, sent)
      /\ inq \in Seq(Records) /\ intents \in Seq(Records)
  BY <1>1, QueueTail DEF IInv, Queue
<1>3. \A k \in 1 .. Len(sent) : k \notin outside =>
        Private(k, acted[k], KeyCode(sent[k]), inq, intents, held, actsOn)
  BY DEF OnceInv
<1>4. Once(inq, intents) /\ StillDown(held, inq, intents) /\ scrub = FALSE /\ Fresh(acted, sent) BY DEF OnceInv
<1>5. Once(intents, inq) BY <1>4, OnceIsSymmetric
<1>6. Once(inq, intents') /\ StillDown(held, inq, intents')
  BY <1>1, <1>2, <1>4, <1>5, OnceDrops, DownStays
<1>7. \A k \in 1 .. Len(sent) : k \notin outside =>
        Private(k, acted[k], KeyCode(sent[k]), inq, intents', held, actsOn)
  BY <1>1, <1>2, <1>3, DropSecond
<1>8. CASE UNCHANGED acted
  BY <1>1, <1>4, <1>6, <1>7, <1>8 DEF OnceInv, Loaded
<1>9. CASE e.action = actsOn /\ acted' = [acted EXCEPT ![n] = @ + 1]
  <2>1. n \in 1 .. Len(sent) /\ e.code = KeyCode(sent[n]) BY <1>2 DEF Made
  <2>2. sent \in Seq(Ops) /\ Len(sent) <= MaxPresses BY DEF IInv, PressInv
  <2>0. acted' = [acted EXCEPT ![n] = @ + 1] BY <1>9
  <2> HIDE DEF n
  <2>3. /\ Fresh(acted', sent) /\ acted'[n] = acted[n] + 1 /\ acted[n] \in Nat
        /\ \A k \in 1 .. Len(sent) : k # n => acted'[k] = acted[k]
    <3>1. Counted(acted, acted', n, sent) BY <1>4, <2>0, <2>1, <2>2, CountsOne
    <3> QED BY <3>1 DEF Counted
  <2>4. ASSUME n \notin outside PROVE Private(n, acted'[n], KeyCode(sent[n]), inq, intents', held, actsOn)
    <3>1. Private(n, acted[n], KeyCode(sent[n]), inq, intents, held, actsOn) BY <1>3, <2>1, <2>4
    <3>2. acted[n] # 0 => NoneCounts(intents, n, actsOn) BY <3>1 DEF Private, Spent
    <3>3. acted[n] \in Nat BY <2>3
    <3>4. Handed(intents, n) BY <3>1 DEF Private
    <3>5. e.repeat = 0 /\ e.code # PLAY_PAUSE BY <1>1, <1>2, <3>4, NoneTail DEF n
    <3>6. Counts(e, actsOn) BY <1>9, <3>5 DEF Counts, Trigger
    <3>7. acted[n] + 1 = 1 /\ Spent(e.press, e.code, inq, Tail(intents), held, actsOn)
      BY <1>1, <1>2, <1>4, <1>5, <3>2, <3>3, <3>6, ActsOnce DEF n
    <3>8. Spent(n, KeyCode(sent[n]), inq, intents', held, actsOn) BY <1>1, <2>1, <3>7 DEF n
    <3>9. acted'[n] <= 1 BY <2>3, <3>7
    <3>10. Handed(intents', n) BY <1>1, <1>2, <3>4, NoneTail
    <3> QED BY <3>8, <3>9, <3>10 DEF Private
  <2>5. \A k \in 1 .. Len(sent) : k \notin outside =>
          Private(k, acted'[k], KeyCode(sent[k]), inq, intents', held, actsOn)
    BY <1>7, <2>3, <2>4
  <2> QED BY <1>1, <1>4, <1>6, <2>3, <2>5 DEF OnceInv, Loaded
<1>10. UNCHANGED acted \/ (e.action = actsOn /\ acted' = [acted EXCEPT ![n] = @ + 1])
  BY DEF Receive, DoNothing, Act
<1> QED BY <1>8, <1>9, <1>10

LEMMA NextOnce == IInv /\ OnceInv /\ [Next]_vars => OnceInv'
<1> SUFFICES ASSUME IInv, OnceInv, [Next]_vars PROVE OnceInv' OBVIOUS
<1>1. ASSUME NEW op \in RemoteOps, RemotePress(op) PROVE OnceInv'
  BY <1>1, PressOnce DEF RemotePress, Ops
<1>2. ASSUME NEW op \in TouchOps, TouchPress(op) PROVE OnceInv'
  BY <1>2, PressOnce DEF TouchPress, Ops
<1>3. ASSUME NEW op \in TouchOps, TouchRelease(op) PROVE OnceInv'
  BY <1>3, ReleaseOnce DEF TouchRelease, Ops
<1>4. CASE LoseRelease BY <1>4 DEF LoseRelease, rest, devvars, OnceInv, Loaded
<1>5. CASE StartService BY <1>5 DEF StartService, devvars, OnceInv, Loaded
<1>6. ASSUME NEW f \in Fronts, SwitchFront(f) PROVE OnceInv'
  BY <1>6 DEF SwitchFront, devvars, OnceInv, Loaded
<1>7. CASE UNCHANGED vars BY <1>7 DEF vars, devvars, OnceInv, Loaded
<1> QED BY <1>1, <1>2, <1>3, <1>4, <1>5, <1>6, <1>7, RemoteReleaseOnce, RepeatOnce,
          DispatchOnce, ReceiveOnce DEF Next

-----------------------------------------------------------------------------
\* Patches H, H' and H'': a press made while the music application is in front acts at
\* most once, whatever repeats, releases and changes of activity come between, and
\* never leaves the player screen scrubbing.
THEOREM PressActsOnce == Spec => []OnePressOneAction
<1>1. IInv /\ OnceInv => OnePressOneAction
  <2> SUFFICES ASSUME OnceInv PROVE OnePressOneAction OBVIOUS
  <2>1. \A n \in Presses \ outside : acted[n] <= 1 BY DEF OnceInv, Private, Presses
  <2> QED BY <2>1 DEF OnceInv, OnePressOneAction
<1> QED BY <1>1, InitIInv, NextIInv, InitOnce, NextOnce, PTL DEF Spec

\* Patches H and H': on any build whose stock methods keep StockAssumption, the patched
\* methods verify, and a key that is none of the five finds the stock registers.
THEOREM PatchStaysTransparent == Spec => []PatchIsTransparent
<1>1. IInv /\ OnceInv => PatchIsTransparent BY BuildIsTransparent DEF OnceInv, PatchIsTransparent
<1> QED BY <1>1, InitIInv, NextIInv, InitOnce, NextOnce, PTL DEF Spec
=============================================================================
