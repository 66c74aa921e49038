----------------------------- MODULE MCPatcher -----------------------------
(***************************************************************************)
(* The patchers under every command line that apply.bash or a developer    *)
(* gives them: release and debug, --skip-md5, --verify-only.  The builds:  *)
(* the stock firmware, a file of another kind, and builds that differ from *)
(* stock elsewhere and at one site at most, which may hold other bytes, or *)
(* the new ones already; an odex comes with a wrong adler32 too.           *)
(***************************************************************************)
EXTENDS Patcher

MCOptions == [mode : Modes, skip : BOOLEAN, verify : BOOLEAN]
Alternates(p) ==
    {File([Stock(p).at EXCEPT ![a] = token], "alternate", sum) :
        a \in Offsets(p), token \in {"stock", "release", "other"},
        sum \in IF p.magic THEN BOOLEAN ELSE {TRUE}}
MCBuilds ==
    [t \in Targets |->
        LET p == Patchers[t]
        IN  {Stock(p), File([a \in Offsets(p) |-> "other"], "foreign", TRUE)} \cup Alternates(p)]
=============================================================================
