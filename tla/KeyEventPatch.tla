--------------------------- MODULE KeyEventPatch ---------------------------
(***************************************************************************)
(* Patch H and H' of patch_y1_apk.py: how the script finds its place in a  *)
(* decompiled dispatchKeyEvent and what the method then does.              *)
(*                                                                         *)
(* A smali method is its .locals and the instructions that touch the       *)
(* registers the inserted block uses; the rest of the body is one token.   *)
(* Registers are numbers, and the parameters come right after the locals:  *)
(* with ".locals 2" the name v3 IS the KeyEvent parameter p1.              *)
(***************************************************************************)
EXTENDS Integers, Sequences, SequencesExt, FiniteSetsExt

MEDIA_STOP      == 86
MEDIA_NEXT      == 87
MEDIA_PREVIOUS  == 88
MEDIA_PLAY      == 126
MEDIA_PAUSE     == 127
PLAY_PAUSE      == 85

AvrcpKeysNoPause == {MEDIA_PLAY, MEDIA_STOP, MEDIA_NEXT, MEDIA_PREVIOUS}
\* The keys the inserted block takes for AVRCP keys.
AvrcpKeys == {MEDIA_PLAY, MEDIA_PAUSE, MEDIA_STOP, MEDIA_NEXT, MEDIA_PREVIOUS}

KeyCodes == AvrcpKeys \union {PLAY_PAUSE}

----------------------------------------------------------------------------
(* Instructions and methods                                                *)

Action == 1     \* what getAction returns; nothing here depends on it
P1 == -1        \* the KeyEvent parameter, wherever .locals puts it
Unset == -1     \* a register nobody has written
Event == -2     \* a reference to the KeyEvent

Line(n)        == [op |-> "line", d |-> n]
Const(d, n)    == [op |-> "const", d |-> d, n |-> n]
NotNull        == [op |-> "checkNotNull"]
GetAction(d)   == [op |-> "getAction", d |-> d]
GetKeyCode(d)  == [op |-> "getKeyCode", d |-> d]
Block(k)       == [op |-> "block", d |-> k]
Body(needs)    == [op |-> "body", needs |-> needs]

Slot(m, r) == IF r = P1 THEN m.locals + 1 ELSE r
Registers(m) == 0 .. Max({m.locals + 1, 3})

----------------------------------------------------------------------------
(* Running a method on a key event                                         *)

Wrote(m, st, d, v) == [st EXCEPT !.regs[Slot(m, d)] = v]
Holds(m, st, r, v) == st.regs[Slot(m, r)] = v
Called(m, st) == [st EXCEPT !.sound = @ /\ Holds(m, st, P1, Event)]

AnswerAnyCount(repeat) == "propagate"
\* A first press goes on to the framework (FALSE), a repeat is swallowed (TRUE).
Answer(repeat) == IF repeat = 0 THEN "propagate" ELSE "consume"

\* The block compares the key with five constants it loads into v3, then
\* reads the repeat count into v3 as well.
BlockRun(m, st, k, e) ==
    LET key  == IF Slot(m, k) = 3 THEN MEDIA_PLAY ELSE st.regs[Slot(m, k)]
        past == Wrote(m, [st EXCEPT !.sound = @ /\ ~Holds(m, st, k, Unset)],
                      3, MEDIA_PREVIOUS)
    IN  IF key \in AvrcpKeys
        THEN [Called(m, past) EXCEPT !.out = Answer(e.repeat)]
        ELSE past

Step(m, e, st, i) ==
    CASE i.op = "line"         -> st
      [] i.op = "const"        -> Wrote(m, st, i.d, i.n)
      [] i.op = "checkNotNull" -> Called(m, st)
      [] i.op = "getAction"    -> Wrote(m, Called(m, st), i.d, Action)
      [] i.op = "getKeyCode"   -> Wrote(m, Called(m, st), i.d, e.code)
      [] i.op = "block"        -> BlockRun(m, st, i.d, e)
      [] i.op = "body"         -> [Called(m, st) EXCEPT !.out = "stock"]

Entry(m) ==
    [regs  |-> [r \in Registers(m) |-> IF r = Slot(m, P1) THEN Event ELSE Unset],
     sound |-> TRUE,
     out   |-> "none"]

\* The state in which the method returns, or enters the rest of its body.
Run(m, e) ==
    LET run[n \in 0 .. Len(m.code)] ==
            IF n = 0 THEN Entry(m)
            ELSE IF run[n - 1].out = "none" THEN Step(m, e, run[n - 1], m.code[n])
            ELSE run[n - 1]
    IN  run[Len(m.code)]

Events == [code : KeyCodes, repeat : 0 .. 1]

\* Dalvik loads the class: no path reads a register that was not written, or
\* calls the KeyEvent through one that holds a number.
Verifies(m) == \A e \in Events : Run(m, e).sound

\* What the rest of the body finds in the registers it reads.
Found(m, e) == [r \in m.code[Len(m.code)].needs |-> Run(m, e).regs[Slot(m, r)]]

----------------------------------------------------------------------------
(* The patch                                                               *)

\* Both the anchor and the entry insert raise .locals to four, so that v3 is
\* a register of its own.
SameLocals(m) == m
FourLocals(m) == [m EXCEPT !.locals = Max({@, 4})]

KeyCodeAt(m) == SelectInSeq(m.code, LAMBDA i : i.op = "getKeyCode")

\* What the patch takes for granted of a stock method: the rest of its body reads
\* only registers that the code in front of it has written, ...
Writes(i, r) == i.op \in {"const", "getAction", "getKeyCode"} /\ i.d = r

Straight(i, m) ==
    \/ i.op \in {"line", "checkNotNull"}
    \/ i.op \in {"getAction", "getKeyCode"} /\ i.d \in 0 .. m.locals - 1
    \/ i.op = "const" /\ i.d \in 0 .. m.locals - 1 /\ i.n \in Int

StockMethod(m) ==
    /\ m = [locals |-> m.locals, code |-> m.code]
    /\ m.locals \in Nat
    /\ m.code # <<>> /\ m.code \in Seq(ToSet(m.code))
    /\ \A n \in 1 .. Len(m.code) - 1 : Straight(m.code[n], m)
    /\ m.code[Len(m.code)].op = "body"
    /\ \A r \in m.code[Len(m.code)].needs :
           \E n \in DOMAIN m.code : Writes(m.code[n], r)

\* ... and v3 is scratch behind its first getKeyCode: the key code is not in it,
\* and what the body finds in it is written later.
ScratchV3(m) ==
    KeyCodeAt(m) > 0 =>
        /\ m.code[KeyCodeAt(m)].d # 3
        /\ 3 \in m.code[Len(m.code)].needs =>
               \E n \in KeyCodeAt(m) + 1 .. Len(m.code) : Writes(m.code[n], 3)

\* Right behind the first getKeyCode of the method, whatever surrounds it.
AtAnchor(m) ==
    LET at == KeyCodeAt(m)
    IN  [FourLocals(m) EXCEPT !.code = InsertAt(@, at + 1, Block(m.code[at].d))]

\* A body that never asks for the key code gets the block at its entry, where
\* the register the block compares is not written yet.
AtMethodEntry(m) == [FourLocals(m) EXCEPT !.code = <<Block(2)>> \o @]

\* A pair is a known prologue, .locals included, and what replaces it.
Knows(pair, m) == pair.old.locals = m.locals /\ IsPrefix(pair.old.code, m.code)

Replaced(pair, m) ==
    [locals |-> pair.new.locals,
     code   |-> pair.new.code
                \o SubSeq(m.code, Len(pair.old.code) + 1, Len(m.code))]

Known(pairs, m) == {n \in DOMAIN pairs : Knows(pairs[n], m)}
OnlyTheEntry(pairs, m) == Known(pairs, m) = {} /\ KeyCodeAt(m) = 0

\* Exact prologues first, in order, then the anchor, then the method entry.
Patched(pairs, m) ==
    IF Known(pairs, m) # {} THEN Replaced(pairs[Min(Known(pairs, m))], m)
    ELSE IF OnlyTheEntry(pairs, m) THEN AtMethodEntry(m)
    ELSE AtAnchor(m)

\* --debug writes two registers at the very top of the method.
WithLog(m) == [locals |-> Max({m.locals, 2}),
               code   |-> <<Const(0, 0), Const(1, 0)>> \o m.code]

----------------------------------------------------------------------------
(* The prologues the script knows                                          *)

Pair(locals, old, newLocals, new) ==
    [old |-> [locals |-> locals, code |-> old],
     new |-> [locals |-> newLocals, code |-> new]]

\* BaseActivity: v0 = 1, action in v1, key code in v2, then v3 = 3.
ActivityHeads ==
    << <<7, <<Const(0, 1), Line(673), GetAction(1), Line(674)>> >>,
       <<7, <<Const(0, 1), GetAction(1)>> >>,
       <<7, <<Const(0, 1), NotNull, GetAction(1)>> >>,
       <<4, <<Const(0, 1), NotNull, GetAction(1)>> >> >>

BaseActivityPairs ==
    [n \in DOMAIN ActivityHeads |->
        LET locals == ActivityHeads[n][1]
            head   == ActivityHeads[n][2] \o <<GetKeyCode(2)>>
        IN  Pair(locals, head \o <<Const(3, 3)>>,
                 locals, head \o <<Block(2), Const(3, 3)>>)]

\* BasePlayerActivity: the method is raised from two locals to four. Where it
\* does not ask for the key code up front, the patch does, in v0.
PlayerPairs ==
    << Pair(2, <<Line(304), NotNull, GetAction(0)>>,
            4, <<GetKeyCode(0), Block(0), Line(304), NotNull, GetAction(0)>>),
       Pair(2, <<NotNull, GetAction(0)>>,
            4, <<GetKeyCode(0), Block(0), NotNull, GetAction(0)>>),
       Pair(2, <<NotNull, GetKeyCode(0), GetAction(1)>>,
            4, <<NotNull, GetKeyCode(0), Block(0), GetAction(1)>>) >>

PatchH(m)      == Patched(BaseActivityPairs, m)
Unpatched(m)   == m
PatchHPrime(m) == Patched(PlayerPairs, m)
=============================================================================
