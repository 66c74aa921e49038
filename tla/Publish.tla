------------------------------- MODULE Publish -------------------------------
(***************************************************************************)
(* build-firmware-releases.yml and build-one.sh: a push to main, the weekly *)
(* schedule or a developer starts a job that patches upstream's rom.zip    *)
(* with apply.bash on a fresh runner and replaces the GitHub release.      *)
(* Nothing keeps two runs of the workflow apart.  The jobs of the other    *)
(* firmware have a release of their own.                                   *)
(***************************************************************************)
EXTENDS Apply

CONSTANTS Jobs,      \* runners, each with its machine
          Firmware,  \* the firmware of this release
          MaxEvents  \* bound: commits, manual runs and changes upstream

ASSUME JobsAssumption == Jobs \subseteq Machines
ASSUME FirmwareAssumption == Firmware \in Known
ASSUME EventsAssumption == MaxEvents \in Nat

VARIABLES
  place,     \* external: the machines that the behaviour tells of
  head,      \* main: its last commit
  upstream,  \* the rom.zip that upstream serves
  release,   \* the release of Firmware, or NoRelease
  legacy,    \* a release with a tag of the old form is there
  job,       \* per runner: where its job is, and the job's environment
  events     \* counter for the bound

siteVars == <<place, head, upstream, release, legacy, events>>
vars == <<applyVars, siteVars, job>>

All == Patches
Benches == Machines \ Jobs
NoRelease == [rev |-> 0, rom |-> "none", has |-> {}]
Release(rev, rom, has) == [rev |-> rev, rom |-> rom, has |-> has]
AtRest == {"none", "done", "failed"}
JobPcs == AtRest \cup {"check", "download", "patch", "legacy", "legacyDelete",
                            "view", "delete", "create"}
Revs == 1 .. MaxEvents + 1

Releases == [rev : Revs, rom : Roms, has : SUBSET Patches]
JobStates == [pc : JobPcs, rev : Revs, force : BOOLEAN, weekly : BOOLEAN, digest : Roms]

TypeOK ==
  /\ ApplyTypeOK
  /\ place \in {"ci", "bench"}
  /\ head \in Revs /\ upstream \in Roms
  /\ release \in {NoRelease} \cup Releases
  /\ legacy \in BOOLEAN
  /\ job \in [Jobs -> JobStates]
  /\ events \in 0 .. MaxEvents

\* There is a release of the first commit.
Init ==
  /\ ApplyInit
  /\ place \in {"ci", "bench"}
  /\ head = 1 /\ upstream = Firmware
  /\ release = Release(1, Firmware, All) /\ legacy = TRUE
  /\ job = [j \in Jobs |-> [pc |-> "none", rev |-> 1, force |-> FALSE, weekly |-> FALSE,
                            digest |-> Firmware]]
  /\ events = 0

-----------------------------------------------------------------------------
(* What starts a job.                                                      *)

Happens == place = "ci" /\ events < MaxEvents /\ events' = events + 1

\* discover: the sha256 that upstream states; the checkout is the commit of the event.
Trigger(j, rev, force, weekly) ==
  /\ job[j].pc \in AtRest
  /\ job' = [job EXCEPT ![j] = [pc |-> "check", rev |-> rev, force |-> force,
                                weekly |-> weekly, digest |-> upstream]]
  /\ UNCHANGED <<applyVars, place, upstream, release, legacy>>

\* Mutant: the checkout is one commit ahead of the branch.
NextRevAhead == head + 2

NextRev == head + 1

\* A commit to main on one of the paths of the workflow, or on another.
Push == Happens /\ head' = NextRev /\ \E j \in Jobs : Trigger(j, head', TRUE, FALSE)
Commit == /\ Happens /\ head' = NextRev
          /\ UNCHANGED <<applyVars, place, upstream, release, legacy, job>>
Dispatch == \E j \in Jobs, force \in BOOLEAN :
  Happens /\ Trigger(j, head, force, FALSE) /\ UNCHANGED head

\* Every Monday; the job of the week before has ended, a job may take six hours.
Schedule == \E j \in Jobs :
  /\ place = "ci" /\ \A k \in Jobs : job[k].weekly => job[k].pc \in AtRest
  /\ Trigger(j, head, FALSE, TRUE)
  /\ UNCHANGED <<head, events>>

UpstreamChanges ==
  /\ Happens /\ upstream' \in Roms \ {upstream}
  /\ UNCHANGED <<applyVars, place, head, release, legacy, job>>

-----------------------------------------------------------------------------
(* build-one.sh                                                            *)

JobAt(j, pc) == job[j].pc = pc
JobGoto(j, pc) == job' = [job EXCEPT ![j].pc = pc]
JobFails(j) == JobGoto(j, "failed")

\* Mutant: the git revision is not compared.
CurrentDigest(j) == release.rom = job[j].digest

\* release_already_current
Current(j) == release.rev = job[j].rev /\ release.rom = job[j].digest

\* Mutant: an outdated release is removed at once.
CheckCurrentRemoves(j) ==
  /\ JobAt(j, "check") /\ Works
  /\ LET skip == ~job[j].force /\ Current(j) IN
       /\ JobGoto(j, IF skip THEN "done" ELSE "download")
       /\ release' = IF skip THEN release ELSE NoRelease
  /\ UNCHANGED <<script, image, mounted, outputs, device, place, head, upstream, legacy, events>>

\* A release that cannot be read is taken for one that is not there.
CheckCurrent(j) ==
  /\ JobAt(j, "check")
  /\ \/ Works /\ JobGoto(j, IF ~job[j].force /\ Current(j) THEN "done" ELSE "download")
     \/ ~job[j].force /\ Fails /\ JobGoto(j, "download")
  /\ UNCHANGED <<script, image, mounted, outputs, device, siteVars>>

\* curl, sha256 against the digest, md5 against the manifest's row of this firmware;
\* then apply.bash --all --no-flash starts on the fresh runner.
Download(j) ==
  /\ JobAt(j, "download")
  /\ \/ /\ Works /\ upstream = job[j].digest /\ upstream = Firmware
        /\ script' = [script EXCEPT ![j] = Begun(upstream, All, FALSE, FALSE)]
        /\ image' = [image EXCEPT ![j] = [r \in Roms |-> Image("none", {})]]
        /\ mounted' = [mounted EXCEPT ![j] = "none"]
        /\ outputs' = [outputs EXCEPT ![j] = {}]
        /\ JobGoto(j, "patch")
     \/ /\ Fails \/ (Works /\ (upstream # job[j].digest \/ upstream # Firmware))
        /\ JobFails(j)
        /\ UNCHANGED <<script, image, mounted, outputs>>
  /\ UNCHANGED <<device, siteVars>>

\* resolve_devel_img, repack-rom.sh, and an output that equals upstream is refused.
\* Sizes are not modelled: one that is not larger than upstream is a failure.
Repack(j) ==
  /\ JobAt(j, "patch") /\ script[j].pc \in {"ok", "failed"}
  /\ \/ Works /\ JobGoto(j, IF script[j].pc = "ok" /\ image[j][script[j].rom].has # {}
                               THEN "legacy" ELSE "failed")
     \/ Fails /\ JobFails(j)
  /\ UNCHANGED <<script, image, mounted, outputs, device, siteVars>>

\* A tag of the old form that cannot be viewed is taken for one that is not there;
\* deleting it fails if another job has done so since.
ViewLegacy(j) ==
  /\ JobAt(j, "legacy")
  /\ \/ Works /\ JobGoto(j, IF legacy THEN "legacyDelete" ELSE "view")
     \/ legacy /\ Fails /\ JobGoto(j, "view")
  /\ UNCHANGED <<script, image, mounted, outputs, device, siteVars>>

DeleteLegacy(j) ==
  /\ JobAt(j, "legacyDelete")
  /\ \/ Works /\ legacy /\ legacy' = FALSE /\ JobGoto(j, "view")
     \/ /\ Fails \/ (Works /\ ~legacy)
        /\ JobFails(j) /\ UNCHANGED legacy
  /\ UNCHANGED <<script, image, mounted, outputs, device, place, head, upstream, release, events>>

ViewRelease(j) ==
  /\ JobAt(j, "view")
  /\ \/ Works /\ JobGoto(j, IF release # NoRelease THEN "delete" ELSE "create")
     \/ Fails /\ JobGoto(j, "create")
  /\ UNCHANGED <<script, image, mounted, outputs, device, siteVars>>

\* gh release delete fails if another job has deleted the release since.
DeleteRelease(j) ==
  /\ JobAt(j, "delete")
  /\ \/ Works /\ release # NoRelease /\ release' = NoRelease /\ JobGoto(j, "create")
     \/ /\ Fails \/ (Works /\ release = NoRelease)
        /\ JobFails(j) /\ UNCHANGED release
  /\ UNCHANGED <<script, image, mounted, outputs, device, place, head, upstream, legacy, events>>

\* gh release create fails if there is one by then.
CreateRelease(j) ==
  /\ JobAt(j, "create")
  /\ \/ /\ Works /\ release = NoRelease /\ JobGoto(j, "done")
        /\ release' = Release(job[j].rev, script[j].rom, image[j][script[j].rom].has)
     \/ /\ Fails \/ (Works /\ release # NoRelease)
        /\ JobFails(j) /\ UNCHANGED release
  /\ UNCHANGED <<script, image, mounted, outputs, device, place, head, upstream, legacy, events>>

JobStep(j) ==
  \/ CheckCurrent(j) \/ Download(j) \/ Repack(j) \/ ViewLegacy(j) \/ DeleteLegacy(j)
  \/ ViewRelease(j) \/ DeleteRelease(j) \/ CreateRelease(j)
  \/ JobAt(j, "patch") /\ ApplyStep(j) /\ UNCHANGED <<siteVars, job>>

\* The runner is lost, or the job runs into its limit.
JobDies(j) ==
  /\ job[j].pc \notin AtRest /\ Fails /\ JobFails(j)
  /\ UNCHANGED <<script, image, mounted, outputs, device, siteVars>>

-----------------------------------------------------------------------------
(* A developer's machine, which keeps what a script leaves behind.         *)

Bench(m) ==
  /\ place = "bench" /\ UNCHANGED <<place, head, upstream, release, legacy, job>>
  /\ \/ /\ script[m].pc \in Ended /\ events < MaxEvents /\ events' = events + 1
        /\ \E rom \in Roms, request \in Requests, accept \in BOOLEAN, flash \in BOOLEAN :
             script' = [script EXCEPT ![m] = Begun(rom, request, accept, flash)]
        /\ UNCHANGED <<image, mounted, outputs, device, failures>>
     \/ (ApplyStep(m) \/ Killed(m) \/ UmountByHand(m)) /\ UNCHANGED events

Next ==
  \/ Push \/ Commit \/ Dispatch \/ Schedule \/ UpstreamChanges
  \/ \E j \in Jobs : JobStep(j) \/ JobDies(j)
  \/ \E m \in Benches : Bench(m)

Spec == Init /\ [][Next]_vars

\* A job goes on until it ends, and there is another Monday.
FairSpec == Spec /\ WF_vars(Schedule) /\ \A j \in Jobs : WF_vars(JobStep(j))

-----------------------------------------------------------------------------
(* Properties.                                                             *)

\* Jobs that interleave as they like, and upstream's changes, never leave the
\* repository without the release it had, as long as no command fails.
ReleaseKept == failures = 0 /\ (\A j \in Jobs : job[j].pc \in AtRest) => release # NoRelease

\* What is released is the firmware of the manifest with every tested patch.
ReleaseVerified == release # NoRelease => release.rom = Firmware /\ Checked \subseteq release.has

\* "so patched APKs stay current": whatever failed, and in whatever order the jobs
\* of several pushes have replaced the release, the weekly runs bring it to main's
\* last commit, unless upstream's rom.zip is not the firmware.
ReleasesHeal == <>[](release.rev = head \/ upstream # Firmware)
=============================================================================
