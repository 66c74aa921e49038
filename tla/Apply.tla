-------------------------------- MODULE Apply --------------------------------
(***************************************************************************)
(* apply.bash on a machine: copy system.img out of rom.zip, mount it, edit *)
(* it file by file, unmount it, flash it.  The script runs without set -e, *)
(* so a command that is not tested may fail and the script goes on.        *)
(***************************************************************************)
EXTENDS Integers

CONSTANTS Machines,
          Known,        \* KNOWN_FIRMWARES
          Requests,     \* sets of patches that a developer asks for
          MaxFailures   \* bound: commands that fail, and scripts that are killed

Patches == {"adb", "root", "avrcp", "bluetooth", "music", "remove"}
Rank == [adb |-> 1, root |-> 2, avrcp |-> 3, bluetooth |-> 4, music |-> 5, remove |-> 6]
\* Patches whose commands are all tested; a failure of another one goes unnoticed.
Checked == {"root", "avrcp", "music"}

ASSUME KnownAssumption == "other" \notin Known /\ "none" \notin Known
ASSUME RequestsAssumption == Requests \subseteq SUBSET Patches
ASSUME FailuresAssumption == MaxFailures \in Nat

VARIABLES
  script,    \* per machine: pc, options, patches still to do, the variable MOUNTED
  image,     \* per machine and rom.zip: the file system-*-devel.img
  mounted,   \* per machine: whose devel.img is mounted at /mnt/y1-devel
  outputs,   \* per machine: patched music APKs in src/patches/output
  device,    \* per machine: the player that is plugged in
  failures   \* counter for the bound

applyVars == <<script, image, mounted, outputs, device, failures>>

Roms == Known \cup {"other"}
Images == [state : {"none", "whole", "partial", "mixed"}, has : SUBSET Patches]
Image(state, has) == [state |-> state, has |-> has]
Ended == {"new", "ok", "failed"}
Pcs == Ended \cup {"validate", "extract", "copy", "check", "mount", "patch", "flash",
                   "writing", "cleanup"}
Untouched == [rom |-> "none", image |-> Image("none", {}), request |-> {}]
NotStarted == [pc |-> "new", rom |-> "other", request |-> {}, left |-> {},
               accept |-> FALSE, flash |-> FALSE, MOUNTED |-> FALSE]

Scripts == [pc : Pcs, rom : Roms, request : SUBSET Patches, left : SUBSET Patches,
            accept : BOOLEAN, flash : BOOLEAN, MOUNTED : BOOLEAN]
Devices == [rom : Roms \cup {"none"}, image : Images, request : SUBSET Patches]

ApplyTypeOK ==
  /\ script \in [Machines -> Scripts]
  /\ image \in [Machines -> [Roms -> Images]]
  /\ mounted \in [Machines -> Roms \cup {"none"}]
  /\ outputs \in [Machines -> SUBSET Roms]
  /\ device \in [Machines -> Devices]
  /\ failures \in 0 .. MaxFailures

ApplyInit ==
  /\ script = [m \in Machines |-> NotStarted]
  /\ image = [m \in Machines |-> [r \in Roms |-> Image("none", {})]]
  /\ mounted = [m \in Machines |-> "none"]
  /\ outputs = [m \in Machines |-> {}]
  /\ device = [m \in Machines |-> Untouched]
  /\ failures = 0

Works == UNCHANGED failures
Fails == failures < MaxFailures /\ failures' = failures + 1
At(m, pc) == script[m].pc = pc
Goto(m, pc) == script' = [script EXCEPT ![m].pc = pc]
Exit(m) == Goto(m, "cleanup")
Store(m, i) == image' = [image EXCEPT ![m][script[m].rom] = i]

-----------------------------------------------------------------------------
\* The script as it begins with a rom.zip in the artifacts directory.
Begun(rom, request, accept, flash) ==
  [pc |-> "validate", rom |-> rom, request |-> request, left |-> request,
   accept |-> accept, flash |-> flash, MOUNTED |-> FALSE]

\* The md5 of rom.zip is in the manifest, or --accept-any-firmware is given.
Validate(m) ==
  /\ At(m, "validate")
  /\ IF script[m].rom \in Known \/ script[m].accept THEN Goto(m, "extract") ELSE Exit(m)
  /\ UNCHANGED <<image, mounted, outputs, device, failures>>

\* unzip, simg2img, md5 of system.img.
Extract(m) ==
  /\ At(m, "extract")
  /\ \/ Works /\ Goto(m, "copy")
     \/ Fails /\ Exit(m)
  /\ UNCHANGED <<image, mounted, outputs, device>>

\* Mutant: a copy that is there already is used.
CopyImageOnce(m) ==
  /\ At(m, "copy") /\ Works /\ Goto(m, "check")
  /\ Store(m, IF image[m][script[m].rom].state = "whole" THEN image[m][script[m].rom]
              ELSE Image("whole", {}))
  /\ UNCHANGED <<mounted, outputs, device>>

\* cp to system-*-devel.img, before anything asks whether an earlier run has
\* left that very file mounted.
CopyImage(m) ==
  /\ At(m, "copy")
  /\ LET open == mounted[m] = script[m].rom IN
       \/ /\ Works /\ Goto(m, "check")
          /\ Store(m, Image(IF open THEN "mixed" ELSE "whole", {}))
       \/ Fails /\ Exit(m) /\ Store(m, Image("partial", {}))
  /\ UNCHANGED <<mounted, outputs, device>>

CheckMountpoint(m) ==
  /\ At(m, "check")
  /\ IF mounted[m] # "none" THEN Exit(m) ELSE Goto(m, "mount")
  /\ UNCHANGED <<image, mounted, outputs, device, failures>>

\* An image that is not in the manifest is searched for one music APK.
Mount(m) ==
  /\ At(m, "mount")
  /\ \/ /\ Works
        /\ mounted' = [mounted EXCEPT ![m] = script[m].rom]
        /\ \E found \in {TRUE, script[m].rom \in Known} :
             script' = [script EXCEPT ![m].MOUNTED = TRUE,
                                      ![m].pc = IF found THEN "patch" ELSE "cleanup"]
     \/ Fails /\ Exit(m) /\ UNCHANGED mounted
  /\ UNCHANGED <<image, outputs, device>>

NextPatch(left) == CHOOSE p \in left : \A q \in left : Rank[p] <= Rank[q]
Patched(m, p) == [image[m][script[m].rom] EXCEPT !.has = @ \cup {p}]
Done(m, p) == script' = [script EXCEPT ![m].left = @ \ {p}]

\* patch_in_place_y1_apk looks for exactly one patched APK in a directory that
\* nothing ever empties; the patcher names its output after the APK's version, and
\* each rom.zip has another.
PatchMusic(m) ==
  LET produced == outputs[m] \cup {script[m].rom} IN
  /\ outputs' = [outputs EXCEPT ![m] = produced]
  /\ IF produced = {script[m].rom} THEN Done(m, "music") /\ Store(m, Patched(m, "music"))
     ELSE Exit(m) /\ UNCHANGED image

PatchWorks(m, p) ==
  IF p = "music" THEN PatchMusic(m)
  ELSE Done(m, p) /\ Store(m, Patched(m, p)) /\ UNCHANGED outputs

\* Mutant: the exit status of a patcher is not looked at.
PatchFailsUnnoticed(m, p) == Done(m, p) /\ UNCHANGED <<image, outputs>>

PatchFails(m, p) ==
  /\ UNCHANGED outputs
  /\ IF p \in Checked
        THEN Exit(m) /\ Store(m, [image[m][script[m].rom] EXCEPT !.state = "partial"])
        ELSE Done(m, p) /\ UNCHANGED image

Patch(m) ==
  /\ At(m, "patch") /\ script[m].left # {}
  /\ LET p == NextPatch(script[m].left) IN
       \/ Works /\ PatchWorks(m, p)
       \/ Fails /\ PatchFails(m, p)
  /\ UNCHANGED <<mounted, device>>

AfterUmount(m) == IF script[m].flash THEN "flash" ELSE "ok"

\* Mutant: the exit status of umount is not looked at.
UmountUnnoticed(m) ==
  /\ At(m, "patch") /\ script[m].left = {}
  /\ Goto(m, AfterUmount(m))
  /\ \/ Works /\ mounted' = [mounted EXCEPT ![m] = "none"]
     \/ Fails /\ UNCHANGED mounted
  /\ UNCHANGED <<image, outputs, device>>

Umount(m) ==
  /\ At(m, "patch") /\ script[m].left = {}
  /\ \/ /\ Works /\ mounted' = [mounted EXCEPT ![m] = "none"]
        /\ script' = [script EXCEPT ![m].MOUNTED = FALSE, ![m].pc = AfterUmount(m)]
     \/ Fails /\ Exit(m) /\ UNCHANGED mounted
  /\ UNCHANGED <<image, outputs, device>>

\* mtk.py is looked up only now; while it writes, and when it fails, the player
\* is in an unknown state.
BeginFlash(m) ==
  /\ At(m, "flash")
  /\ \/ Works /\ Goto(m, "writing") /\ device' = [device EXCEPT ![m] = Untouched]
     \/ Fails /\ Exit(m) /\ UNCHANGED device
  /\ UNCHANGED <<image, mounted, outputs>>

EndFlash(m) ==
  /\ At(m, "writing")
  /\ \/ /\ Works /\ Goto(m, "ok")
        /\ device' = [device EXCEPT ![m] = [rom |-> script[m].rom,
                                           image |-> image[m][script[m].rom],
                                           request |-> script[m].request]]
     \/ Fails /\ Exit(m) /\ UNCHANGED device
  /\ UNCHANGED <<image, mounted, outputs>>

\* The trap on EXIT; its umount may fail in silence.
Cleanup(m) ==
  /\ At(m, "cleanup")
  /\ \/ Works /\ mounted' = [mounted EXCEPT ![m] = IF script[m].MOUNTED THEN "none" ELSE @]
     \/ script[m].MOUNTED /\ Fails /\ UNCHANGED mounted
  /\ Goto(m, "failed")
  /\ UNCHANGED <<image, outputs, device>>

ApplyStep(m) ==
  \/ Validate(m) \/ Extract(m) \/ CopyImage(m) \/ CheckMountpoint(m) \/ Mount(m)
  \/ Patch(m) \/ Umount(m) \/ BeginFlash(m) \/ EndFlash(m) \/ Cleanup(m)

\* The script is killed and runs no trap: what it has mounted stays mounted.
Killed(m) ==
  /\ script[m].pc \notin Ended /\ Fails /\ Goto(m, "failed")
  /\ UNCHANGED <<image, mounted, outputs, device>>

\* sudo umount /mnt/y1-devel, as the error message advises.
UmountByHand(m) ==
  /\ script[m].pc \in Ended /\ mounted[m] # "none"
  /\ mounted' = [mounted EXCEPT ![m] = "none"]
  /\ UNCHANGED <<script, image, outputs, device, failures>>

-----------------------------------------------------------------------------
(* Properties.                                                             *)

\* A player that has been flashed without an error has one whole image of the
\* firmware, with every tested patch of the flags given and no other patch,
\* whatever earlier scripts on the machine have left behind.
FlashedAsRequested == \A m \in Machines :
  device[m] # Untouched =>
    /\ device[m].image.state = "whole"
    /\ device[m].request \cap Checked \subseteq device[m].image.has
    /\ device[m].image.has \subseteq device[m].request

\* "Refusing to flash a still-mounted image": nothing is mounted while mtk.py
\* writes, neither by this script nor by one that was killed before it.
NeverFlashMounted == \A m \in Machines : At(m, "writing") => mounted[m] = "none"
=============================================================================
