------------------------------ MODULE Patcher ------------------------------
(***************************************************************************)
(* The six byte patchers of src/patches and the wrapper of apply.bash that *)
(* runs them on a file of the firmware: check the whole file and the       *)
(* patch sites, rewrite the sites, check again, write the output, and copy *)
(* it back into the image.                                                 *)
(*                                                                         *)
(* A file is the content of its patch sites and of the rest; its MD5 is    *)
(* its identity.  Where a site lies, how long it is and which addresses    *)
(* its new instructions jump to are the numbers of the source.             *)
(***************************************************************************)
EXTENDS Integers, FiniteSetsExt, Thumb2

CONSTANTS Options,   \* command lines: the mode, --skip-md5, --verify-only
          Builds     \* per target, the contents it may have in some firmware

Modes == {"release", "debug"}
ASSUME OptionsAssumption == Options \subseteq [mode : Modes, skip : BOOLEAN, verify : BOOLEAN]

VARIABLES target,  \* the file of the firmware that is patched
          file,    \* its content in the image
          run      \* the last run of its patcher

vars == <<target, file, run>>

(***************************************************************************)
(* A patch site.  "varies": the new bytes depend on the mode; "goes": the  *)
(* addresses that they jump to; "entries": where a jump into them may land.*)
(***************************************************************************)
Code(at, length, varies, goes, entries) ==
    [at |-> at, length |-> length, varies |-> varies, goes |-> goes, entries |-> entries]
Site(at, length) == Code(at, length, FALSE, {}, {at})
Wide(at, h1, h2) == at + 4 + T4Offset(h1, h2)
Narrow(at, hw) == at + 4 + Signed(Bits(hw, 1, 2048) * 2, 4096)

-----------------------------------------------------------------------------
\* patch_mtkbt.py.  The served SDP records and the AVDTP dispatch (V5: a
\* halfword of the TBH table at 0xaa81e).
SdpSites == {Site(\hEBA58, 1), Site(\h10DCA, 2), Site(\hEBA6D, 1), Site(\hEB9F2, 1),
             Site(\hEBA09, 1), Code(\hAA834, 2, FALSE, {\hAA81E + 2 * \h83}, {}),
             Site(\hF97EC, 12), Site(\hF9798, 12), Site(\hEBA4E, 1), Site(\hEB938, 4)}
\* P1, M1, M6, M8: inbound frames, response types, AVCTP kept across CLOSE.
FrameSites == {Code(\h144E8, 2, FALSE, {Narrow(\h144E8, \hE01E)}, {\h144E8}),
               Site(\h12230, 2), Site(\h12244, 2), Site(\hFA38, 4)}
\* M2, M3, M10, M4: the gates of the two outbound builders become no-ops.
GateSites == {Site(\h6D06E, 2), Site(\h6DF42, 4), Site(\h6DF3A, 2), Site(\h6D116, 2)}

EchoCave(mode, tail) == Code(\hF3680, 24, TRUE, {tail}, {\hF3680})
\* M5 and its cave, which returns behind the six bytes it replaces.
EchoSites == {Code(\h6D186, 6, FALSE, {Wide(\h6D186, \hF086, \hBA7B)}, {\h6D186}),
              EchoCave("release", Wide(\hF3694, \hF779, \hBD7A))}

D1Cave == Code(\hF36A0, 50, TRUE, {\hAE44C}, {\hF36A0})
D2Cave == Code(\hF3700, 74, TRUE, {\h6D18C}, {\hF3700})
Hook == Code(\hAE448, 4, TRUE, {D1Cave.at}, {\hAE448})

\* Mutant: D2 is hooked by a patch of its own over the last branch of M5's cave.
OverlappingHook ==
    EchoSites \cup {Hook, D1Cave, D2Cave, Code(\hF3694, 4, TRUE, {D2Cave.at}, {\hF3694})}

\* Debug builds: D1, D2, and M5's cave written with a tail that enters D2.
DebugSites == {s \in EchoSites : s.at # \hF3680}
                  \cup {EchoCave("debug", D2Cave.at), Hook, D1Cave, D2Cave}

Past(s) == s.at + s.length
Aligned4(n) == ((n + 3) \div 4) * 4
\* The end of LOAD #1 covers the caves, and is written to filesz and memsz.
MtkbtEnd(mode) ==
    IF mode = "release" THEN \hF3698
    ELSE Max({\hF3698, Aligned4(Past(D1Cave)), Aligned4(Past(D2Cave))})
MtkbtSites(mode) ==
    SdpSites \cup FrameSites \cup GateSites
        \cup (IF mode = "debug" THEN DebugSites ELSE EchoSites)
        \cup {Code(\h84, 4, TRUE, {}, {}), Code(\h88, 4, TRUE, {}, {})}

\* patch_libextavrcp_jni.py: the labels and the end of the trampoline blob ...
T4_VADDR == \hAC54
Labels(mode) ==
    IF mode = "release"
    THEN [T1 |-> T4_VADDR, T2 |-> \hAEE0, T5 |-> \hAF38, T9 |-> \hB550, past |-> T4_VADDR + 3156]
    ELSE [T1 |-> T4_VADDR, T2 |-> \hAEF4, T5 |-> \hAF60, T9 |-> \hB578, past |-> T4_VADDR + 3312]
Stubs(mode) ==
    LET to == Labels(mode)
    IN  {Code(\h7308, 40, FALSE, {to.T1}, {\h7308}),
         Code(\h3BC0, 4, TRUE, {to.T5}, {\h3BC0}),
         Code(\h3C88, 4, TRUE, {to.T9}, {\h3C88}),
         Code(\h72D0, 48, TRUE, {to.T2}, {\h72D0, \h72D4})}
\* ... R1 (bl T1), U1, the stubs, the blob, filesz and memsz.
JniSites(mode) ==
    LET to == Labels(mode)
    IN  Stubs(mode) \cup
        {Code(\h6538, 4, FALSE, {Wide(\h6538, \hF000, \hFEE6)}, {\h6538}), Site(\h74E8, 4),
         Code(T4_VADDR, to.past - T4_VADDR, TRUE, {}, {to.T1, to.T2, to.T5, to.T9}),
         Code(\h64, 4, TRUE, {}, {}), Code(\h68, 4, TRUE, {}, {})}

OdexSites == {Site(\h3E0EA, 1), Site(\h3C530, 4), Site(\h3C4FE, 4), Site(\h3B310, 4),
              Site(\h3F21A, 14)}

-----------------------------------------------------------------------------
(***************************************************************************)
(* The patchers.  "end" and "limit": where LOAD #1 ends in a mode and where *)
(* LOAD #2 begins (0: the file has no grown segment); "magic", "sum": the   *)
(* odex's magic and adler32 are checked; "sites": the sites are always      *)
(* verified, and a wrong output MD5 is an error even with --skip-md5.       *)
(***************************************************************************)
Kind(sites, end, limit, magic, always) ==
    [sites |-> sites, end |-> end, limit |-> limit, magic |-> magic, always |-> always]
Plain(S) == Kind([m \in Modes |-> S], [m \in Modes |-> 0], 0, FALSE, FALSE)

mtkbt == Kind([m \in Modes |-> MtkbtSites(m)], [m \in Modes |-> MtkbtEnd(m)], \hF3D40, FALSE, FALSE)
libextavrcp_jni ==
    Kind([m \in Modes |-> JniSites(m)], [m \in Modes |-> Labels(m).past], \hBC08, FALSE, FALSE)
libextavrcp == Plain({Site(\h2266, 2)})
libaudio_a2dp == Plain({Site(\h86AB, 1)})
mtkbt_odex == [Plain(OdexSites) EXCEPT !.magic = TRUE]
avrcp_kl == [Plain({Site(\h2AC, 35)}) EXCEPT !.always = TRUE]

Patchers == [mtkbt |-> mtkbt, libextavrcp_jni |-> libextavrcp_jni, libextavrcp |-> libextavrcp,
             libaudio_a2dp |-> libaudio_a2dp, mtkbt_odex |-> mtkbt_odex, avrcp_kl |-> avrcp_kl]
Targets == DOMAIN Patchers

\* What a site holds: the stock bytes, the new ones of a mode, or others.
After(s, mode) == IF s.varies THEN mode ELSE "release"
Offsets(p) == {s.at : s \in p.sites["release"] \cup p.sites["debug"]}
File(at, rest, sum) == [at |-> at, rest |-> rest, sum |-> sum]
Stock(p) == File([a \in Offsets(p) |-> "stock"], "stock", TRUE)
\* Another build may hold anything at a site and elsewhere; a foreign file is
\* not even of its kind, and a torn one is what a failed copy leaves.
Tokens == {"stock", "other"} \cup Modes
Contents(p, rests) == [at : [Offsets(p) -> Tokens], rest : rests, sum : BOOLEAN]
Firmwares(p) == Contents(p, {"stock", "alternate", "foreign"})
ASSUME BuildsAssumption == \A t \in Targets : Builds[t] \subseteq Firmwares(Patchers[t])

-----------------------------------------------------------------------------
\* The sites of this run.
patches == Patchers[target].sites[run.mode]
Overlap(s, q) == s.at < Past(q) /\ q.at < Past(s)
ShowsBefore(f, S) == \A s \in S : f.at[s.at] = "stock"
ShowsAfter(f, S, mode) == \A s \in S : f.at[s.at] = After(s, mode)

\* The sites written one after another: one that another one overlaps is torn.
Written(f, S, mode) ==
    File([a \in DOMAIN f.at |->
             IF \E s \in S : s.at = a
             THEN LET s == CHOOSE s \in S : s.at = a
                  IN  IF \E q \in S \ {s} : Overlap(s, q) THEN "other" ELSE After(s, mode)
             ELSE f.at[a]], f.rest, ~Patchers[target].magic)
Resummed(f) == File(f.at, f.rest, TRUE)

\* EXPECTED_OUTPUT_MD5 and STOCK_MD5: the pinned hashes.
Expected(t, mode) ==
    LET p == Patchers[t]
    IN  File([a \in Offsets(p) |->
                 IF \E s \in p.sites[mode] : s.at = a
                 THEN After(CHOOSE s \in p.sites[mode] : s.at = a, mode) ELSE "stock"],
             "stock", TRUE)

Idle == [pc |-> "idle", mode |-> "release", skip |-> FALSE, verify |-> FALSE,
         wrote |-> FALSE, before |-> Stock(mtkbt), output |-> Stock(mtkbt)]
Init ==
    /\ target \in Targets
    /\ file \in Builds[target]
    /\ run = [Idle EXCEPT !.before = file, !.output = file]

\* The stock file is taken out of the image, and the patcher starts.
Start ==
    /\ run.pc \in {"idle", "done", "failed"}
    /\ \E o \in Options :
           run' = [pc |-> "main", mode |-> o.mode, skip |-> o.skip, verify |-> o.verify,
                   wrote |-> FALSE, before |-> file, output |-> file]
    /\ UNCHANGED <<target, file>>

Exit(code) == run' = [run EXCEPT !.pc = code] /\ UNCHANGED <<target, file>>
AtExpected == run.pc = "main" /\ file = Expected(target, run.mode)
Proceeds == run.pc = "main" /\ file # Expected(target, run.mode)
\* show_sites: the sites are looked at only where the MD5 decides nothing.
show_sites == run.skip \/ Patchers[target].always
Patched == show_sites /\ ~ShowsBefore(file, patches) /\ ShowsAfter(file, patches, run.mode)

\* Why a run ends in an error before it changes anything.
Unknown == ~run.skip /\ file # Stock(Patchers[target])
NoMagic == Patchers[target].magic /\ file.rest = "foreign"
OverBudget == Patchers[target].end[run.mode] > Patchers[target].limit
NoMatch == show_sites /\ ~ShowsBefore(file, patches) /\ ~ShowsAfter(file, patches, run.mode)
Refused == Unknown \/ NoMagic \/ OverBudget \/ NoMatch

NothingToDo == AtExpected /\ Exit("exit0")
Refuse == Proceeds /\ Refused /\ Exit("exit1")
AlreadyPatched == Proceeds /\ ~Refused /\ Patched /\ Exit("exit0")
VerifyOnly == Proceeds /\ ~Refused /\ ~Patched /\ run.verify /\ Exit("exit0")

\* Patch, compute the adler32 of an odex anew, verify if the sites are shown or the MD5 is not the expected one,
\* write the output, and fail if only then the MD5 turns out to be wrong.
Patch ==
    /\ Proceeds /\ ~Refused /\ ~Patched /\ ~run.verify
    /\ LET data == Resummed(Written(file, patches, run.mode))
           mismatch == data # Expected(target, run.mode)
           verified == ShowsAfter(data, patches, run.mode) /\ data.sum
           written == verified \/ ~(show_sites \/ mismatch)
           error == ~written \/ (mismatch /\ (~run.skip \/ Patchers[target].always))
       IN  run' = [run EXCEPT !.pc = IF error THEN "exit1" ELSE "exit0",
                              !.wrote = written, !.output = IF written THEN data ELSE @]
    /\ UNCHANGED <<target, file>>

\* patch_in_place_bytes: the patcher failed; it succeeded, and its output is
\* copied back if there is one.
GiveUp == run.pc = "exit1" /\ Exit("failed")
WriteBack ==
    /\ run.pc = "exit0"
    /\ file' = IF run.wrote THEN run.output ELSE file
    /\ run' = [run EXCEPT !.pc = "done"]
    /\ UNCHANGED target

\* cp fails: the file ends early, behind some of its sites.
Truncated(f, cut) ==
    File([a \in DOMAIN f.at |-> IF a < cut THEN f.at[a] ELSE "other"], "torn", FALSE)
CopyFails ==
    /\ run.pc = "exit0" /\ run.wrote
    /\ \E cut \in {0} \cup {Past(s) : s \in patches} :
           file' = Truncated(run.output, cut)
    /\ run' = [run EXCEPT !.pc = "failed"]
    /\ UNCHANGED target

Main == NothingToDo \/ Refuse \/ AlreadyPatched \/ VerifyOnly \/ Patch
Next == Start \/ Main \/ GiveUp \/ WriteBack \/ CopyFails
Spec == Init /\ [][Next]_vars

-----------------------------------------------------------------------------
InForce(f, mode) == \A s \in Patchers[target].sites[mode] : f.at[s.at] = After(s, mode)
Ended == run.pc \in {"done", "failed"}
TornCopy == run.wrote /\ run.pc = "failed"

\* A run that ends well, --verify-only apart, leaves every site patched, the
\* adler32 right if it wrote the file, and without --skip-md5 exactly the file
\* that is pinned.
SuccessMeansPatched ==
    run.pc = "done" /\ ~run.verify =>
        /\ InForce(file, run.mode)
        /\ run.wrote => file.sum
        /\ run.skip \/ file = Expected(target, run.mode)

\* A run that fails changes nothing, unless it is the copy that fails.
FailureChangesNothing == Ended /\ file # run.before => run.pc = "done" \/ TornCopy

\* The stock file is always patched, a patched one is left alone by a second
\* run, and a file of the other mode is refused where the modes differ.
RerunsAreSafe ==
    Ended =>
        /\ run.before = Stock(Patchers[target]) /\ ~run.verify => run.pc = "done" \/ TornCopy
        /\ run.before = Expected(target, run.mode) => run.pc = "done" /\ file = run.before
        /\ \A m \in Modes : run.before = Expected(target, m) => file = run.before

\* No run leaves a file in the image half patched, or patched in two modes: it
\* is patched for one, or as the build had it, or truncated by a failed copy.
NeverMixed ==
    \/ file.rest = "torn"
    \/ \E m \in Modes : InForce(file, m)
    \/ file \in Builds[target] /\ file = run.before

\* In a patched file every jump of a patch lands where a patch may be entered,
\* inside the loaded segment, or on the instruction of the stock code that the
\* comments name, which no patch has overwritten.
Rejoined == {\hAA924, \h14528, \h6D18C, \hAE44C}
JumpsLand ==
    \A m \in Modes :
        InForce(file, m) =>
            LET p == Patchers[target]
            IN  \A s \in p.sites[m] : \A to \in s.goes :
                    \/ \E q \in p.sites[m] : to \in q.entries /\ Past(q) <= p.end[m]
                    \/ /\ to \in Rejoined
                       /\ \A q \in p.sites[m] : to < q.at \/ to >= Past(q)

\* What the six patchers promise of every file that they are run on, for every
\* order of runs, modes and options (main of each patch_*.py).
PatchedOrRefused ==
    SuccessMeansPatched /\ FailureChangesNothing /\ RerunsAreSafe /\ NeverMixed /\ JumpsLand
=============================================================================
