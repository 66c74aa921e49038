--------------------------- MODULE MCPassthrough ---------------------------
(***************************************************************************)
(* The control path on the shapes of dispatchKeyEvent that                 *)
(* patch_y1_apk.py names (3.0.x, 2.8.x), on two that only the getKeyCode   *)
(* anchor fits, and on one that never asks for the key code up front.      *)
(***************************************************************************)
EXTENDS Passthrough

Method(locals, code, needs) ==
    [locals |-> locals, code |-> Append(code, [op |-> "body", needs |-> needs])]

Activity(n) ==
    LET old == BaseActivityPairs[n].old
    IN  Method(old.locals, old.code, 0 .. 3)

Player(n, needs) ==
    LET old == PlayerPairs[n].old
    IN  Method(old.locals, old.code, needs)

\* Other line numbers; and fewer locals than the block needs.
OtherLines == Method(7, <<Const(0, 1), Line(681), GetAction(1), Line(682),
                          GetKeyCode(2), Const(3, 3)>>, 0 .. 3)
FewLocals  == Method(2, <<Line(310), NotNull, GetKeyCode(0), GetAction(1)>>, 0 .. 1)
NoKeyCode  == Method(2, <<NotNull, Line(1)>>, {})

Build(base, screen, debug) ==
    [BaseActivity |-> base, BasePlayerActivity |-> screen, debug |-> debug]

MCBuilds ==
    [ java      |-> Build(Activity(1), Player(1, {0}), FALSE),
      javaDebug |-> Build(Activity(2), Player(2, {0}), TRUE),
      kotlin    |-> Build(Activity(3), Player(3, 0 .. 1), FALSE),
      kotlin4   |-> Build(Activity(4), Player(3, 0 .. 1), TRUE),
      anchored  |-> Build(OtherLines, FewLocals, TRUE),
      entry     |-> Build(FewLocals, NoKeyCode, FALSE) ]
=============================================================================
