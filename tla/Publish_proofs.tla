--------------------------- MODULE Publish_proofs ---------------------------
(***************************************************************************)
(* Proofs about Apply and Publish, for any number of machines, jobs,       *)
(* firmwares, events and failures.                                         *)
(***************************************************************************)
EXTENDS Publish, TLAPS

\* The working copy that script m is about.
Copy(m) == image[m][script[m].rom]

Before == {"validate", "extract", "copy", "check", "mount"}

\* i is whole, and holds of the patches asked for the tested ones among done.
Holds(i, request, done) ==
  i.state = "whole" /\ i.has \subseteq request /\ done \cap Checked \subseteq i.has

\* What the script has made of its copy, stage by stage.
CopyInv(m) ==
  /\ At(m, "check") => mounted[m] = script[m].rom \/ Copy(m) = Image("whole", {})
  /\ At(m, "mount") => Copy(m) = Image("whole", {})
  /\ At(m, "patch") => Holds(Copy(m), script[m].request, script[m].request \ script[m].left)
  /\ script[m].pc \in {"flash", "writing", "ok"} =>
       Holds(Copy(m), script[m].request, script[m].request)

\* What is left to do, and what is mounted.
StageInv(m) ==
  /\ script[m].pc \in Before => script[m].left = script[m].request
  /\ script[m].left \subseteq script[m].request
  /\ script[m].pc \in {"flash", "writing"} => mounted[m] = "none"

\* What m's player has been flashed with.
DeviceInv(m) == device[m] # Untouched =>
  Holds(device[m].image, device[m].request, device[m].request)

MachineInv(m) == CopyInv(m) /\ StageInv(m) /\ DeviceInv(m)

\* The image that a job is about to release is the finished one of its script.
JobInv(j) ==
  /\ JobAt(j, "patch") => script[j].rom = Firmware /\ script[j].request = All
  /\ job[j].pc \in {"legacy", "legacyDelete", "view", "delete", "create"} =>
       script[j].rom = Firmware /\ script[j].request = All /\ script[j].pc = "ok"

\* Without failures a release that is missing is about to come back.
ComingBack == failures = 0 /\ release = NoRelease => \E j \in Jobs : JobAt(j, "create")

IInv ==
  /\ TypeOK
  /\ head <= events + 1
  /\ \A m \in Machines : MachineInv(m)
  /\ \A j \in Jobs : JobInv(j)
  /\ ReleaseVerified
  /\ ComingBack

-----------------------------------------------------------------------------
(* Types.                                                                  *)

LEMMA GotoType ==
  ASSUME NEW m \in Machines, NEW pc \in Pcs, script \in [Machines -> Scripts], Goto(m, pc)
  PROVE  script' \in [Machines -> Scripts]
  BY DEF Goto, Scripts

LEMMA StoreType ==
  ASSUME NEW m \in Machines, NEW i \in Images, script \in [Machines -> Scripts],
         image \in [Machines -> [Roms -> Images]], Store(m, i)
  PROVE  image' \in [Machines -> [Roms -> Images]]
<1>1. script[m].rom \in Roms
  BY DEF Scripts
<1>2. [image[m] EXCEPT ![script[m].rom] = i] \in [Roms -> Images]
  BY <1>1
<1> QED BY <1>2 DEF Store

LEMMA ImageType ==
  ASSUME NEW state \in {"none", "whole", "partial", "mixed"}, NEW has \in SUBSET Patches
  PROVE  Image(state, has) \in Images
  BY DEF Image, Images

LEMMA CountType ==
  ASSUME failures \in 0 .. MaxFailures, Works \/ Fails
  PROVE  failures' \in 0 .. MaxFailures
  BY FailuresAssumption DEF Works, Fails

\* The first of the patches that are left is one of them.
LEMMA NextPatchIsLeft ==
  ASSUME NEW left \in SUBSET Patches, left # {}
  PROVE  NextPatch(left) \in left
<1>1. \E p \in left : \A q \in left : Rank[p] <= Rank[q]
  <2>1. CASE "adb" \in left
    BY <2>1 DEF Patches, Rank
  <2>2. CASE "adb" \notin left /\ "root" \in left
    BY <2>2 DEF Patches, Rank
  <2>3. CASE "adb" \notin left /\ "root" \notin left /\ "avrcp" \in left
    BY <2>3 DEF Patches, Rank
  <2>4. CASE left \subseteq {"bluetooth", "music", "remove"} /\ "bluetooth" \in left
    BY <2>4 DEF Rank
  <2>5. CASE left \subseteq {"music", "remove"} /\ "music" \in left
    BY <2>5 DEF Rank
  <2>6. CASE left \subseteq {"remove"} /\ "remove" \in left
    BY <2>6 DEF Rank
  <2> QED BY <2>1, <2>2, <2>3, <2>4, <2>5, <2>6 DEF Patches
<1> QED BY <1>1 DEF NextPatch

LEMMA MountedType ==
  ASSUME NEW r \in Scripts, NEW b \in BOOLEAN, NEW pc \in Pcs
  PROVE  [r EXCEPT !.MOUNTED = b, !.pc = pc] \in Scripts
  BY DEF Scripts

LEMMA DoneType ==
  ASSUME NEW m \in Machines, NEW p, script \in [Machines -> Scripts], Done(m, p)
  PROVE  script' \in [Machines -> Scripts]
  BY DEF Done, Scripts

LEMMA PatchedType ==
  ASSUME NEW m \in Machines, NEW p \in Patches, script \in [Machines -> Scripts],
         image \in [Machines -> [Roms -> Images]]
  PROVE  /\ Patched(m, p) \in Images
         /\ [Copy(m) EXCEPT !.state = "partial"] \in Images
<1>1. Copy(m) \in Images
  BY DEF Copy, Scripts
<1> QED BY <1>1 DEF Patched, Copy, Images

LEMMA MachineStepType ==
  ASSUME NEW m \in Machines, ApplyTypeOK, ApplyStep(m) \/ Killed(m) \/ UmountByHand(m)
  PROVE  ApplyTypeOK'
<1> USE DEF ApplyTypeOK
<1>r. script[m].rom \in Roms /\ script[m].request \in SUBSET Patches /\ image[m][script[m].rom] \in Images
  BY DEF Scripts
<1>p. Pcs = {"new", "ok", "failed", "validate", "extract", "copy", "check", "mount", "patch",
             "flash", "writing", "cleanup"}
  BY DEF Pcs, Ended
<1>x. ASSUME Exit(m)
      PROVE  script' \in [Machines -> Scripts]
  BY <1>x, <1>p, GotoType DEF Exit
<1>1. CASE Validate(m)
  BY <1>1, <1>p, <1>x, GotoType DEF Validate
<1>2. CASE Extract(m)
  BY <1>2, <1>p, <1>x, GotoType, CountType DEF Extract
<1>3. CASE CopyImage(m)
  <2>1. /\ Image("whole", {}) \in Images
        /\ Image("mixed", {}) \in Images
        /\ Image("partial", {}) \in Images
    BY ImageType
  <2>2. image' \in [Machines -> [Roms -> Images]]
    BY <1>3, <2>1, StoreType DEF CopyImage
  <2>3. script' \in [Machines -> Scripts]
    BY <1>3, <1>p, <1>x, GotoType DEF CopyImage
  <2> QED BY <1>3, <2>2, <2>3, CountType DEF CopyImage
<1>4. CASE CheckMountpoint(m)
  BY <1>4, <1>p, <1>x, GotoType DEF CheckMountpoint
<1>5. CASE Mount(m)
  <2>1. script' \in [Machines -> Scripts]
    <3>1. CASE Exit(m)
      BY <3>1, <1>x
    <3>2. CASE \E found \in {TRUE, script[m].rom \in Known} :
                 script' = [script EXCEPT ![m].MOUNTED = TRUE,
                                          ![m].pc = IF found THEN "patch" ELSE "cleanup"]
      <4>1. PICK pc \in Pcs : script' = [script EXCEPT ![m] = [@ EXCEPT !.MOUNTED = TRUE, !.pc = pc]]
        BY <3>2, <1>p, Zenon
      <4>2. [script[m] EXCEPT !.MOUNTED = TRUE, !.pc = pc] \in Scripts
        BY MountedType
      <4> QED BY <4>1, <4>2
    <3> QED BY <1>5, <3>1, <3>2 DEF Mount
  <2>2. mounted' \in [Machines -> Roms \cup {"none"}]
    BY <1>5, <1>r DEF Mount
  <2> QED BY <1>5, <2>1, <2>2, CountType DEF Mount
<1>6. CASE Patch(m)
  <2>1. script[m].left \in SUBSET Patches /\ script[m].left # {}
    BY <1>6 DEF Patch, Scripts
  <2> DEFINE p == NextPatch(script[m].left)
  <2>2. p \in Patches
    BY <2>1, NextPatchIsLeft
  <2>3. /\ Patched(m, p) \in Images /\ Patched(m, "music") \in Images
        /\ [image[m][script[m].rom] EXCEPT !.state = "partial"] \in Images
    BY <2>2, PatchedType DEF Copy, Patches
  <2>4. CASE PatchWorks(m, p)
    <3>1. script' \in [Machines -> Scripts]
      BY <2>4, <1>x, DoneType DEF PatchWorks, PatchMusic
    <3>2. image' \in [Machines -> [Roms -> Images]]
      BY <2>4, <2>3, StoreType DEF PatchWorks, PatchMusic
    <3>3. outputs' \in [Machines -> SUBSET Roms]
      BY <2>4, <1>r DEF PatchWorks, PatchMusic
    <3> QED BY <1>6, <3>1, <3>2, <3>3, CountType DEF Patch
  <2>5. CASE PatchFails(m, p)
    <3>1. script' \in [Machines -> Scripts]
      BY <2>5, <1>x, DoneType DEF PatchFails
    <3>2. image' \in [Machines -> [Roms -> Images]]
      BY <2>5, <2>3, StoreType DEF PatchFails
    <3> QED BY <1>6, <2>5, <3>1, <3>2, CountType DEF Patch, PatchFails
  <2> QED BY <1>6, <2>4, <2>5 DEF Patch
<1>7. CASE Umount(m)
  <2>1. AfterUmount(m) \in Pcs
    BY <1>p DEF AfterUmount
  <2>2. script' \in [Machines -> Scripts]
    <3>1. CASE Exit(m)
      BY <3>1, <1>x
    <3>2. CASE script' = [script EXCEPT ![m].MOUNTED = FALSE, ![m].pc = AfterUmount(m)]
      <4>1. [script[m] EXCEPT !.MOUNTED = FALSE, !.pc = AfterUmount(m)] \in Scripts
        BY <2>1, MountedType
      <4> QED BY <3>2, <4>1
    <3> QED BY <1>7, <3>1, <3>2 DEF Umount
  <2>3. mounted' \in [Machines -> Roms \cup {"none"}]
    BY <1>7 DEF Umount
  <2> QED BY <1>7, <2>2, <2>3, CountType DEF Umount
<1>8. CASE BeginFlash(m)
  <2>1. Untouched \in Devices
    BY ImageType DEF Untouched, Devices
  <2>2. script' \in [Machines -> Scripts]
    BY <1>8, <1>p, <1>x, GotoType DEF BeginFlash
  <2>3. device' \in [Machines -> Devices]
    BY <1>8, <2>1 DEF BeginFlash
  <2> QED BY <1>8, <2>2, <2>3, CountType DEF BeginFlash
<1>9. CASE EndFlash(m)
  <2>1. [rom |-> script[m].rom, image |-> image[m][script[m].rom],
         request |-> script[m].request] \in Devices
    BY <1>r DEF Devices
  <2>2. script' \in [Machines -> Scripts]
    BY <1>9, <1>p, <1>x, GotoType DEF EndFlash
  <2>3. device' \in [Machines -> Devices]
    BY <1>9, <2>1 DEF EndFlash
  <2> QED BY <1>9, <2>2, <2>3, CountType DEF EndFlash
<1>10. CASE Cleanup(m)
  <2>1. script' \in [Machines -> Scripts]
    BY <1>10, <1>p, GotoType DEF Cleanup
  <2>2. mounted' \in [Machines -> Roms \cup {"none"}]
    BY <1>10 DEF Cleanup
  <2> QED BY <1>10, <2>1, <2>2, CountType DEF Cleanup
<1>11. CASE Killed(m)
  BY <1>11, <1>p, GotoType, CountType DEF Killed
<1>12. CASE UmountByHand(m)
  BY <1>12 DEF UmountByHand
<1> QED BY <1>1, <1>2, <1>3, <1>4, <1>5, <1>6, <1>7, <1>8, <1>9, <1>10, <1>11, <1>12 DEF ApplyStep

-----------------------------------------------------------------------------
(* One machine.                                                            *)

Same(m) == /\ script'[m].rom = script[m].rom
           /\ script'[m].request = script[m].request

LEMMA GotoEffect ==
  ASSUME NEW m \in Machines, NEW pc, script \in [Machines -> Scripts], Goto(m, pc)
  PROVE  script'[m].pc = pc /\ Same(m) /\ script'[m].left = script[m].left
  BY DEF Goto, Scripts, Same

LEMMA DoneEffect ==
  ASSUME NEW m \in Machines, NEW p, script \in [Machines -> Scripts], Done(m, p)
  PROVE  /\ Same(m) /\ script'[m].pc = script[m].pc
         /\ script'[m].left = script[m].left \ {p}
  BY DEF Done, Scripts, Same

LEMMA StoreEffect ==
  ASSUME NEW m \in Machines, NEW i, script \in [Machines -> Scripts],
         image \in [Machines -> [Roms -> Images]], Store(m, i), Same(m)
  PROVE  Copy(m)' = i
<1>1. script[m].rom \in Roms
  BY DEF Scripts
<1> QED BY <1>1 DEF Store, Copy, Same

LEMMA CopyUnchanged ==
  ASSUME NEW m \in Machines, UNCHANGED image, Same(m)
  PROVE  Copy(m)' = Copy(m)
  BY DEF Copy, Same

\* A script that has stopped early owes nothing but a tidy device.
LEMMA ExitKeeps ==
  ASSUME NEW m \in Machines, NEW pc \in {"cleanup", "failed"}, script \in [Machines -> Scripts],
         Goto(m, pc), UNCHANGED device, MachineInv(m)
  PROVE  MachineInv(m)'
<1>1. script'[m].pc = pc /\ script'[m].left = script[m].left /\ Same(m)
  BY GotoEffect
<1>2. CopyInv(m)'
  BY <1>1 DEF CopyInv, At
<1>3. StageInv(m)'
  BY <1>1 DEF MachineInv, StageInv, Same, Before
<1>4. DeviceInv(m)'
  BY DEF MachineInv, DeviceInv
<1> QED BY <1>2, <1>3, <1>4 DEF MachineInv

LEMMA PatchKeepsMachine ==
  ASSUME NEW m \in Machines, ApplyTypeOK, MachineInv(m), Patch(m)
  PROVE  MachineInv(m)'
<1> USE DEF ApplyTypeOK
<1> DEFINE p == NextPatch(script[m].left)
           request == script[m].request
           left == script[m].left
<1>1. /\ script[m].pc = "patch" /\ p \in left /\ left \subseteq request
      /\ Holds(Copy(m), request, request \ left) /\ Copy(m) \in Images
  <2>1. script[m].left \in SUBSET Patches /\ script[m].left # {}
    BY DEF Patch, Scripts
  <2>2. Copy(m) \in Images
    BY DEF Copy, Scripts
  <2> QED BY <2>1, <2>2, NextPatchIsLeft DEF Patch, MachineInv, CopyInv, StageInv, At
<1>2. UNCHANGED <<mounted, device>>
  BY DEF Patch
<1>3. CASE Exit(m)
  BY <1>2, <1>3, ExitKeeps DEF Exit
<1>4. ASSUME Done(m, p), Holds(Copy(m)', request, request \ (left \ {p}))
      PROVE  MachineInv(m)'
  <2>1. /\ script'[m].pc = "patch" /\ script'[m].left = left \ {p}
        /\ script'[m].request = request
    BY <1>1, <1>4, DoneEffect DEF Same
  <2>2. CopyInv(m)'
    BY <2>1, <1>4 DEF CopyInv, At
  <2>3. StageInv(m)'
    BY <2>1, <1>1 DEF StageInv, Before
  <2>4. DeviceInv(m)'
    BY <1>2 DEF MachineInv, DeviceInv
  <2> QED BY <2>2, <2>3, <2>4 DEF MachineInv
<1>5. ASSUME Done(m, p), Store(m, Patched(m, p))
      PROVE  MachineInv(m)'
  <2>1. Copy(m)' = [Copy(m) EXCEPT !.has = @ \cup {p}]
    BY <1>5, DoneEffect, StoreEffect DEF Patched, Copy
  <2>2. Copy(m)'.state = Copy(m).state /\ Copy(m)'.has = Copy(m).has \cup {p}
    BY <2>1, <1>1 DEF Images
  <2>3. Holds(Copy(m)', request, request \ (left \ {p}))
    BY <2>2, <1>1 DEF Holds
  <2> QED BY <1>5, <2>3, <1>4
<1>6. CASE PatchWorks(m, p)
  <2>1. CASE p = "music"
    BY <2>1, <1>6, <1>3, <1>5 DEF PatchWorks, PatchMusic
  <2>2. CASE p # "music"
    BY <2>2, <1>6, <1>5 DEF PatchWorks
  <2> QED BY <2>1, <2>2
<1>7. CASE PatchFails(m, p)
  <2>1. CASE p \in Checked
    BY <2>1, <1>7, <1>3 DEF PatchFails
  <2>2. CASE p \notin Checked
    <3>1. Done(m, p) /\ UNCHANGED image
      BY <2>2, <1>7 DEF PatchFails
    <3>2. Copy(m)' = Copy(m)
      BY <3>1, DoneEffect, CopyUnchanged
    <3>3. Holds(Copy(m)', request, request \ (left \ {p}))
      BY <3>2, <2>2, <1>1 DEF Holds
    <3> QED BY <3>1, <3>3, <1>4
  <2> QED BY <2>1, <2>2
<1> QED BY <1>6, <1>7 DEF Patch

LEMMA MachineStepKeeps ==
  ASSUME NEW m \in Machines, ApplyTypeOK, MachineInv(m),
         ApplyStep(m) \/ Killed(m) \/ UmountByHand(m)
  PROVE  MachineInv(m)'
<1> USE DEF ApplyTypeOK
<1>r. script[m].rom \in Roms /\ script[m].rom # "none" /\ mounted[m] \in Roms \cup {"none"}
  BY KnownAssumption DEF Scripts, Roms
<1>d. ASSUME UNCHANGED device
      PROVE  DeviceInv(m)'
  BY <1>d DEF MachineInv, DeviceInv
<1>x. ASSUME Exit(m), UNCHANGED device
      PROVE  MachineInv(m)'
  BY <1>x, ExitKeeps DEF Exit
<1>1. CASE Validate(m)
  <2>1. CASE Goto(m, "extract")
    <3>1. script'[m].pc = "extract" /\ script'[m].left = script[m].left /\ Same(m)
      BY <2>1, GotoEffect
    <3> QED BY <3>1, <1>1, <1>d DEF Validate, MachineInv, CopyInv, StageInv, At, Same, Before
  <2> QED BY <1>1, <2>1, <1>x DEF Validate
<1>2. CASE Extract(m)
  <2>1. CASE Goto(m, "copy")
    <3>1. script'[m].pc = "copy" /\ script'[m].left = script[m].left /\ Same(m)
      BY <2>1, GotoEffect
    <3> QED BY <3>1, <1>2, <1>d DEF Extract, MachineInv, CopyInv, StageInv, At, Same, Before
  <2> QED BY <1>2, <2>1, <1>x DEF Extract
<1>3. CASE CopyImage(m)
  <2>1. CASE /\ Goto(m, "check")
             /\ Store(m, Image(IF mounted[m] = script[m].rom THEN "mixed" ELSE "whole", {}))
    <3>1. script'[m].pc = "check" /\ script'[m].left = script[m].left /\ Same(m)
      BY <2>1, GotoEffect
    <3>2. Copy(m)' = Image(IF mounted[m] = script[m].rom THEN "mixed" ELSE "whole", {})
      BY <2>1, <3>1, StoreEffect
    <3>3. CopyInv(m)'
      BY <3>1, <3>2, <1>3 DEF CopyImage, CopyInv, At, Same
    <3>4. StageInv(m)'
      BY <3>1, <1>3 DEF CopyImage, MachineInv, StageInv, At, Same, Before
    <3> QED BY <3>3, <3>4, <1>3, <1>d DEF CopyImage, MachineInv
  <2> QED BY <1>3, <2>1, <1>x DEF CopyImage
<1>4. CASE CheckMountpoint(m)
  <2>1. CASE Goto(m, "mount") /\ mounted[m] = "none"
    <3>1. script'[m].pc = "mount" /\ script'[m].left = script[m].left /\ Same(m)
      BY <2>1, GotoEffect
    <3>2. Copy(m)' = Image("whole", {})
      BY <2>1, <3>1, <1>4, <1>r, CopyUnchanged DEF CheckMountpoint, MachineInv, CopyInv, At
    <3>3. CopyInv(m)'
      BY <3>1, <3>2 DEF CopyInv, At
    <3>4. StageInv(m)'
      BY <3>1, <1>4 DEF CheckMountpoint, MachineInv, StageInv, At, Same, Before
    <3> QED BY <3>3, <3>4, <1>4, <1>d DEF CheckMountpoint, MachineInv
  <2> QED BY <1>4, <2>1, <1>x DEF CheckMountpoint
<1>5. CASE Mount(m)
  <2>1. CASE \E found \in {TRUE, script[m].rom \in Known} :
               script' = [script EXCEPT ![m].MOUNTED = TRUE,
                                        ![m].pc = IF found THEN "patch" ELSE "cleanup"]
    <3>1. /\ script'[m].pc \in {"patch", "cleanup"} /\ script'[m].left = script[m].left
          /\ Same(m)
      BY <2>1 DEF Scripts, Same
    <3>2. Copy(m)' = Image("whole", {})
      BY <3>1, <1>5, CopyUnchanged DEF Mount, MachineInv, CopyInv, At
    <3>3. Holds(Copy(m)', script[m].request, {})
      BY <3>2 DEF Holds, Image
    <3>4. script[m].left = script[m].request
      BY <1>5 DEF Mount, MachineInv, StageInv, At, Before
    <3>5. CopyInv(m)'
      BY <3>1, <3>3, <3>4 DEF CopyInv, At, Same, Holds
    <3>6. StageInv(m)'
      BY <3>1, <3>4 DEF StageInv, Same, Before
    <3> QED BY <3>5, <3>6, <1>5, <1>d DEF Mount, MachineInv
  <2> QED BY <1>5, <2>1, <1>x DEF Mount
<1>6. CASE Patch(m)
  BY <1>6, PatchKeepsMachine
<1>7. CASE Umount(m)
  <2>1. CASE /\ mounted' = [mounted EXCEPT ![m] = "none"]
             /\ script' = [script EXCEPT ![m].MOUNTED = FALSE, ![m].pc = AfterUmount(m)]
    <3>1. /\ script'[m].pc \in {"flash", "ok"} /\ script'[m].left = script[m].left
          /\ Same(m) /\ mounted'[m] = "none"
      BY <2>1 DEF Scripts, Same, AfterUmount
    <3>2. Copy(m)' = Copy(m)
      BY <3>1, <1>7, CopyUnchanged DEF Umount
    <3>3. Holds(Copy(m), script[m].request, script[m].request)
      BY <1>7 DEF Umount, MachineInv, CopyInv, At, Holds
    <3>4. CopyInv(m)'
      BY <3>1, <3>2, <3>3 DEF CopyInv, At, Same
    <3>5. StageInv(m)'
      BY <3>1 DEF StageInv, MachineInv, Same, Before
    <3> QED BY <3>4, <3>5, <1>7, <1>d DEF Umount, MachineInv
  <2> QED BY <1>7, <2>1, <1>x DEF Umount
<1>8. CASE BeginFlash(m)
  <2>1. CASE Goto(m, "writing") /\ device' = [device EXCEPT ![m] = Untouched]
    <3>1. script'[m].pc = "writing" /\ script'[m].left = script[m].left /\ Same(m)
      BY <2>1, GotoEffect
    <3>2. Copy(m)' = Copy(m)
      BY <3>1, <1>8, CopyUnchanged DEF BeginFlash
    <3>3. CopyInv(m)'
      BY <3>1, <3>2, <1>8 DEF BeginFlash, MachineInv, CopyInv, At, Same
    <3>4. StageInv(m)'
      BY <3>1, <1>8 DEF BeginFlash, MachineInv, StageInv, At, Same, Before
    <3>5. DeviceInv(m)'
      BY <2>1 DEF DeviceInv
    <3> QED BY <3>3, <3>4, <3>5 DEF MachineInv
  <2> QED BY <1>8, <2>1, <1>x DEF BeginFlash
<1>9. CASE EndFlash(m)
  <2>1. CASE /\ Goto(m, "ok")
             /\ device' = [device EXCEPT ![m] = [rom |-> script[m].rom,
                              image |-> image[m][script[m].rom], request |-> script[m].request]]
    <3>1. script'[m].pc = "ok" /\ script'[m].left = script[m].left /\ Same(m)
      BY <2>1, GotoEffect
    <3>2. Copy(m)' = Copy(m)
      BY <3>1, <1>9, CopyUnchanged DEF EndFlash
    <3>3. Holds(Copy(m), script[m].request, script[m].request)
      BY <1>9 DEF EndFlash, MachineInv, CopyInv, At
    <3>4. CopyInv(m)'
      BY <3>1, <3>2, <3>3 DEF CopyInv, At, Same
    <3>5. StageInv(m)'
      BY <3>1 DEF MachineInv, StageInv, Same, Before
    <3>6. DeviceInv(m)'
      <4>1. device'[m].image = Copy(m) /\ device'[m].request = script[m].request
        BY <2>1 DEF Copy
      <4> QED BY <4>1, <3>3 DEF DeviceInv
    <3> QED BY <3>4, <3>5, <3>6 DEF MachineInv
  <2> QED BY <1>9, <2>1, <1>x DEF EndFlash
<1>10. CASE Cleanup(m)
  BY <1>10, ExitKeeps DEF Cleanup
<1>11. CASE Killed(m)
  BY <1>11, ExitKeeps DEF Killed
<1>12. CASE UmountByHand(m)
  <2>1. Same(m) /\ UNCHANGED <<script, image, device>> /\ mounted'[m] = "none"
    BY <1>12 DEF UmountByHand, Same
  <2>2. Copy(m)' = Copy(m) /\ script[m].pc \in Ended
    BY <2>1, <1>12, CopyUnchanged DEF UmountByHand
  <2> QED BY <2>1, <2>2 DEF MachineInv, CopyInv, StageInv, DeviceInv, At, Ended
<1> QED BY <1>1, <1>2, <1>3, <1>4, <1>5, <1>6, <1>7, <1>8, <1>9, <1>10, <1>11, <1>12 DEF ApplyStep

\* A step of one machine's script leaves the other machines alone, and keeps its task.
LEMMA StepFrame ==
  ASSUME NEW m \in Machines, NEW n \in Machines, ApplyTypeOK,
         ApplyStep(m) \/ Killed(m) \/ UmountByHand(m)
  PROVE  /\ n # m => /\ script'[n] = script[n] /\ image'[n] = image[n]
                     /\ mounted'[n] = mounted[n] /\ device'[n] = device[n]
         /\ Same(m)
<1> USE DEF ApplyTypeOK
<1>g. ASSUME NEW pc, Goto(m, pc)
      PROVE  Same(m) /\ (n # m => script'[n] = script[n])
  BY <1>g DEF Goto, Scripts, Same
<1>x. ASSUME Exit(m)
      PROVE  Same(m) /\ (n # m => script'[n] = script[n])
  BY <1>x, <1>g DEF Exit
<1>s. ASSUME NEW i, Store(m, i)
      PROVE  n # m => image'[n] = image[n]
  BY <1>s DEF Store
<1>1. CASE Validate(m)
  BY <1>1, <1>g, <1>x DEF Validate
<1>2. CASE Extract(m)
  BY <1>2, <1>g, <1>x DEF Extract
<1>3. CASE CopyImage(m)
  BY <1>3, <1>g, <1>x, <1>s DEF CopyImage
<1>4. CASE CheckMountpoint(m)
  BY <1>4, <1>g, <1>x DEF CheckMountpoint
<1>5. CASE Mount(m)
  <2>1. CASE \E found \in {TRUE, script[m].rom \in Known} :
               script' = [script EXCEPT ![m].MOUNTED = TRUE,
                                        ![m].pc = IF found THEN "patch" ELSE "cleanup"]
    BY <2>1, <1>5 DEF Mount, Scripts, Same
  <2> QED BY <1>5, <2>1, <1>x DEF Mount
<1>6. CASE Patch(m)
  <2>1. ASSUME NEW p, Done(m, p)
        PROVE  Same(m) /\ (n # m => script'[n] = script[n])
    BY <2>1 DEF Done, Scripts, Same
  <2>2. Same(m) /\ (n # m => script'[n] = script[n])
    BY <1>6, <2>1, <1>x DEF Patch, PatchWorks, PatchMusic, PatchFails
  <2>3. n # m => image'[n] = image[n]
    BY <1>6, <1>s DEF Patch, PatchWorks, PatchMusic, PatchFails
  <2> QED BY <1>6, <2>2, <2>3 DEF Patch
<1>7. CASE Umount(m)
  <2>1. CASE script' = [script EXCEPT ![m].MOUNTED = FALSE, ![m].pc = AfterUmount(m)]
    BY <2>1, <1>7 DEF Umount, Scripts, Same
  <2> QED BY <1>7, <2>1, <1>x DEF Umount
<1>8. CASE BeginFlash(m)
  BY <1>8, <1>g, <1>x DEF BeginFlash
<1>9. CASE EndFlash(m)
  BY <1>9, <1>g, <1>x DEF EndFlash
<1>10. CASE Cleanup(m)
  BY <1>10, <1>g DEF Cleanup
<1>11. CASE Killed(m)
  BY <1>11, <1>g DEF Killed
<1>12. CASE UmountByHand(m)
  BY <1>12 DEF UmountByHand, Same
<1> QED BY <1>1, <1>2, <1>3, <1>4, <1>5, <1>6, <1>7, <1>8, <1>9, <1>10, <1>11, <1>12 DEF ApplyStep

LEMMA StepCounts ==
  ASSUME NEW m \in Machines, ApplyTypeOK, ApplyStep(m) \/ Killed(m) \/ UmountByHand(m)
  PROVE  failures' >= failures
<1>1. failures \in Int
  BY FailuresAssumption DEF ApplyTypeOK
<1>2. Works \/ Fails \/ UNCHANGED failures
  BY DEF ApplyStep, Validate, Extract, CopyImage, CheckMountpoint, Mount, Patch, Umount,
         BeginFlash, EndFlash, Cleanup, Killed, UmountByHand
<1> QED BY <1>1, <1>2 DEF Works, Fails

LEMMA MachineFrame ==
  ASSUME NEW n \in Machines, MachineInv(n), script'[n] = script[n], image'[n] = image[n],
         mounted'[n] = mounted[n], device'[n] = device[n]
  PROVE  MachineInv(n)'
  BY DEF MachineInv, CopyInv, StageInv, DeviceInv, Copy, At

LEMMA MachinesKept ==
  ASSUME NEW m \in Machines, ApplyTypeOK, \A n \in Machines : MachineInv(n),
         ApplyStep(m) \/ Killed(m) \/ UmountByHand(m)
  PROVE  \A n \in Machines : MachineInv(n)'
<1> TAKE n \in Machines
<1>1. CASE n = m
  BY <1>1, MachineStepKeeps
<1>2. CASE n # m
  BY <1>2, StepFrame, MachineFrame
<1> QED BY <1>1, <1>2

\* A script that has just begun, on a machine where nothing else has changed for
\* the worse.
LEMMA BegunKeeps ==
  ASSUME NEW m \in Machines, NEW rom, NEW request, NEW accept, NEW flash,
         script'[m] = Begun(rom, request, accept, flash), device'[m] = device[m], MachineInv(m)
  PROVE  MachineInv(m)'
  BY DEF Begun, MachineInv, CopyInv, StageInv, DeviceInv, At, Before

-----------------------------------------------------------------------------
(* Jobs and the release.                                                   *)

LEMMA JobGotoEffect ==
  ASSUME NEW j \in Jobs, NEW pc \in JobPcs, job \in [Jobs -> JobStates], JobGoto(j, pc)
  PROVE  /\ job' \in [Jobs -> JobStates] /\ job'[j].pc = pc
         /\ \A k \in Jobs : k # j => job'[k] = job[k]
  BY DEF JobGoto, JobStates

LEMMA JobPcsAre ==
  JobPcs = {"none", "done", "failed", "check", "download", "patch", "legacy",
            "legacyDelete", "view", "delete", "create"}
  BY DEF JobPcs, AtRest

\* Nothing happens on the machines.
LEMMA ApplyQuiet ==
  ASSUME UNCHANGED applyVars
  PROVE  /\ ApplyTypeOK => ApplyTypeOK'
         /\ (\A m \in Machines : MachineInv(m)) => \A m \in Machines : MachineInv(m)'
  BY DEF applyVars, ApplyTypeOK, MachineInv, CopyInv, StageInv, DeviceInv, Copy, At

\* What starts a job, or changes upstream.
LEMMA EnvironmentKeeps ==
  ASSUME IInv, Push \/ Commit \/ Dispatch \/ Schedule \/ UpstreamChanges
  PROVE  IInv'
<1> USE DEF IInv, TypeOK
<1>t. ASSUME NEW j \in Jobs, NEW rev \in Revs, NEW force \in BOOLEAN, NEW weekly \in BOOLEAN,
             Trigger(j, rev, force, weekly)
      PROVE  /\ job' \in [Jobs -> JobStates] /\ UNCHANGED <<applyVars, place, upstream, release, legacy>>
             /\ \A k \in Jobs : JobInv(k)'
             /\ ComingBack'
  <2>1. job[j].pc \in AtRest /\ UNCHANGED <<applyVars, place, upstream, release, legacy>>
    BY <1>t DEF Trigger
  <2>2. /\ job' \in [Jobs -> JobStates] /\ job'[j].pc = "check"
        /\ \A k \in Jobs : k # j => job'[k] = job[k]
    BY <1>t, JobPcsAre DEF Trigger, JobStates
  <2>3. \A k \in Jobs : JobInv(k)'
    BY <2>1, <2>2 DEF applyVars, JobInv, JobAt
  <2>4. ComingBack'
    BY <2>1, <2>2 DEF applyVars, ComingBack, JobAt, AtRest
  <2> QED BY <2>1, <2>2, <2>3, <2>4
<1>q. ASSUME UNCHANGED <<applyVars, release>>
      PROVE  /\ ApplyTypeOK' /\ (\A m \in Machines : MachineInv(m)')
             /\ ReleaseVerified' /\ release' \in {NoRelease} \cup Releases
  BY <1>q, ApplyQuiet DEF ReleaseVerified
<1>h. ASSUME Happens
      PROVE  events' = events + 1 /\ events' \in 0 .. MaxEvents /\ head \in Revs /\ NextRev \in Revs
  BY <1>h, EventsAssumption DEF Happens, Revs, NextRev
<1>1. CASE Push
  <2>1. PICK j \in Jobs : Trigger(j, head', TRUE, FALSE)
    BY <1>1 DEF Push
  <2>2. Happens /\ head' = NextRev
    BY <1>1 DEF Push
  <2>3. head' \in Revs /\ head' <= events' + 1
    BY <2>2, <1>h DEF NextRev, Revs
  <2> QED BY <2>1, <2>2, <2>3, <1>t, <1>q, <1>h
<1>2. CASE Commit
  <2>1. Happens /\ head' = NextRev /\ UNCHANGED <<applyVars, place, upstream, release, legacy, job>>
    BY <1>2 DEF Commit
  <2>2. head' \in Revs /\ head' <= events' + 1
    BY <2>1, <1>h DEF NextRev, Revs
  <2>3. (\A k \in Jobs : JobInv(k)') /\ ComingBack'
    BY <2>1 DEF applyVars, JobInv, JobAt, ComingBack
  <2> QED BY <2>1, <2>2, <2>3, <1>q, <1>h
<1>3. CASE Dispatch
  <2>1. PICK j \in Jobs, force \in BOOLEAN : Happens /\ Trigger(j, head, force, FALSE) /\ UNCHANGED head
    BY <1>3 DEF Dispatch
  <2>2. head' <= events' + 1
    BY <2>1, <1>h DEF Revs
  <2> QED BY <2>1, <2>2, <1>t, <1>q, <1>h
<1>4. CASE Schedule
  <2>1. PICK j \in Jobs : Trigger(j, head, FALSE, TRUE) /\ UNCHANGED <<head, events>>
    BY <1>4 DEF Schedule
  <2> QED BY <2>1, <1>t, <1>q
<1>5. CASE UpstreamChanges
  <2>1. Happens /\ upstream' \in Roms /\ UNCHANGED <<applyVars, place, head, release, legacy, job>>
    BY <1>5 DEF UpstreamChanges
  <2>2. head' <= events' + 1
    BY <2>1, <1>h DEF Revs
  <2>3. (\A k \in Jobs : JobInv(k)') /\ ComingBack'
    BY <2>1 DEF applyVars, JobInv, JobAt, ComingBack
  <2> QED BY <2>1, <2>2, <2>3, <1>q, <1>h
<1> QED BY <1>1, <1>2, <1>3, <1>4, <1>5

LEMMA StillBounded ==
  ASSUME NEW h \in Int, NEW e \in Int, NEW f \in Int, h <= e + 1, f >= e
  PROVE  h <= f + 1
  OBVIOUS

LEMMA BenchKeeps ==
  ASSUME IInv, NEW m \in Benches, Bench(m)
  PROVE  IInv'
<1> USE DEF IInv, TypeOK
<1>1. m \in Machines /\ m \notin Jobs /\ UNCHANGED <<place, head, upstream, release, legacy, job>>
  BY DEF Bench, Benches
<1>2. ReleaseVerified'
  BY <1>1 DEF ReleaseVerified
<1>3. ASSUME ApplyTypeOK', \A n \in Machines : MachineInv(n)', events' \in 0 .. MaxEvents, events' >= events,
             failures' >= failures, \A j \in Jobs : script'[j] = script[j]
      PROVE  IInv'
  <2>1. \A j \in Jobs : JobInv(j)'
    BY <1>1, <1>3 DEF JobInv, JobAt
  <2>2. ComingBack'
    <3>1. failures \in Nat /\ failures' \in Nat
      BY <1>3, FailuresAssumption DEF ApplyTypeOK
    <3> QED BY <1>1, <1>3, <3>1 DEF ComingBack, JobAt
  <2>3. head' <= events' + 1
    <3>1. head \in Int /\ events \in Int /\ events' \in Int
      BY <1>3, EventsAssumption DEF Revs
    <3>2. head <= events + 1 /\ head' = head /\ events' >= events
      BY <1>1, <1>3
    <3> QED BY <3>1, <3>2, StillBounded
  <2> QED BY <1>1, <1>2, <1>3, <2>1, <2>2, <2>3
<1>4. CASE (ApplyStep(m) \/ Killed(m) \/ UmountByHand(m)) /\ UNCHANGED events
  <2>1. ApplyTypeOK'
    BY <1>1, <1>4, MachineStepType
  <2>2. \A n \in Machines : MachineInv(n)'
    BY <1>1, <1>4, MachinesKept
  <2>3. \A j \in Jobs : script'[j] = script[j]
    BY <1>1, <1>4, StepFrame, JobsAssumption
  <2>4. failures' >= failures
    BY <1>4, StepCounts, <1>1
  <2>5. events' \in 0 .. MaxEvents /\ events' >= events
    BY <1>4, EventsAssumption
  <2> QED BY <2>1, <2>2, <2>3, <2>4, <2>5, <1>3
<1>5. ASSUME NEW rom \in Roms, NEW request \in Requests, NEW accept \in BOOLEAN, NEW flash \in BOOLEAN,
             script' = [script EXCEPT ![m] = Begun(rom, request, accept, flash)],
             UNCHANGED <<image, mounted, outputs, device, failures>>,
             events < MaxEvents, events' = events + 1
      PROVE  IInv'
  <2>1. Begun(rom, request, accept, flash) \in Scripts
    BY RequestsAssumption DEF Begun, Scripts, Pcs, Ended
  <2>2. ApplyTypeOK'
    BY <1>5, <2>1 DEF ApplyTypeOK
  <2>3. \A n \in Machines : MachineInv(n)'
    <3> TAKE n \in Machines
    <3>1. CASE n = m
      BY <3>1, <1>5, BegunKeeps DEF ApplyTypeOK
    <3>2. CASE n # m
      BY <3>2, <1>5, MachineFrame DEF ApplyTypeOK
    <3> QED BY <3>1, <3>2
  <2>4. \A j \in Jobs : script'[j] = script[j]
    BY <1>1, <1>5, JobsAssumption DEF ApplyTypeOK
  <2>5. failures' >= failures /\ events' >= events /\ events' \in 0 .. MaxEvents
    BY <1>5, EventsAssumption, FailuresAssumption DEF ApplyTypeOK
  <2> QED BY <2>2, <2>3, <2>4, <2>5, <1>3
<1> QED BY <1>4, <1>5 DEF Bench

\* A step of build-one.sh that leaves the runner's machine alone.
LEMMA QuietJobStep ==
  ASSUME IInv, NEW j \in Jobs, NEW pc \in JobPcs, JobGoto(j, pc),
         UNCHANGED <<script, image, mounted, outputs, device, place, head, upstream, events>>,
         Works \/ Fails, legacy' \in BOOLEAN, release' \in {NoRelease} \cup Releases,
         ReleaseVerified', JobInv(j)',
         failures' = 0 /\ release' = NoRelease => \E k \in Jobs : JobAt(k, "create")'
  PROVE  IInv'
<1> USE DEF IInv, TypeOK
<1>1. /\ job' \in [Jobs -> JobStates]
      /\ \A k \in Jobs : k # j => job'[k] = job[k]
  BY JobGotoEffect
<1>2. ApplyTypeOK'
  BY CountType DEF ApplyTypeOK
<1>3. \A m \in Machines : MachineInv(m)'
  BY MachineFrame
<1>4. \A k \in Jobs : JobInv(k)'
  <2> TAKE k \in Jobs
  <2>1. CASE k # j
    BY <2>1, <1>1 DEF JobInv, JobAt
  <2> QED BY <2>1
<1>5. ComingBack'
  BY DEF ComingBack
<1> QED BY <1>1, <1>2, <1>3, <1>4, <1>5

\* The same, without a change of the release.
LEMMA QuietJobStepKeeping ==
  ASSUME IInv, NEW j \in Jobs, NEW pc \in JobPcs, JobGoto(j, pc),
         UNCHANGED <<script, image, mounted, outputs, device, place, head, upstream, release, events>>,
         Works \/ Fails, legacy' \in BOOLEAN, JobInv(j)',
         JobAt(j, "create") => Fails \/ release # NoRelease
  PROVE  IInv'
<1> USE DEF IInv, TypeOK
<1>1. job'[j].pc = pc /\ \A k \in Jobs : k # j => job'[k] = job[k]
  BY JobGotoEffect
<1>2. ReleaseVerified' /\ release' \in {NoRelease} \cup Releases
  BY DEF ReleaseVerified
<1>3. ASSUME failures' = 0, release' = NoRelease
      PROVE  \E k \in Jobs : JobAt(k, "create")'
  <2>1. failures = 0 /\ ~Fails
    BY <1>3, FailuresAssumption DEF ApplyTypeOK, Works, Fails
  <2>2. PICK k \in Jobs : JobAt(k, "create")
    BY <1>3, <2>1 DEF ComingBack
  <2>3. k # j
    BY <1>3, <2>1, <2>2
  <2> QED BY <1>1, <2>2, <2>3 DEF JobAt
<1> QED BY <1>2, <1>3, QuietJobStep

LEMMA JobStepKeeps ==
  ASSUME IInv, NEW j \in Jobs, JobStep(j) \/ JobDies(j)
  PROVE  IInv'
<1> USE DEF IInv, TypeOK
<1>j. j \in Machines
  BY JobsAssumption
<1>p. \A pc : JobGoto(j, pc) /\ pc \in JobPcs => job'[j].pc = pc
  BY JobGotoEffect
<1>1. CASE CheckCurrent(j)
  <2>1. PICK pc \in {"done", "download"} : JobGoto(j, pc)
    BY <1>1 DEF CheckCurrent
  <2>2. JobInv(j)'
    BY <2>1, <1>p, JobPcsAre DEF JobInv, JobAt
  <2> QED BY <1>1, <2>1, <2>2, JobPcsAre, QuietJobStepKeeping DEF CheckCurrent, siteVars, JobAt
<1>2. CASE Download(j)
  <2>1. CASE JobFails(j) /\ UNCHANGED <<script, image, mounted, outputs>>
    <3>1. JobInv(j)'
      BY <2>1, <1>p, JobPcsAre DEF JobInv, JobAt, JobFails
    <3> QED BY <1>2, <2>1, <3>1, JobPcsAre, QuietJobStepKeeping DEF Download, siteVars, JobAt, JobFails
  <2>2. CASE /\ Works /\ upstream = Firmware
             /\ script' = [script EXCEPT ![j] = Begun(upstream, All, FALSE, FALSE)]
             /\ image' = [image EXCEPT ![j] = [r \in Roms |-> Image("none", {})]]
             /\ mounted' = [mounted EXCEPT ![j] = "none"]
             /\ outputs' = [outputs EXCEPT ![j] = {}]
             /\ JobGoto(j, "patch")
    <3>1. UNCHANGED <<device, siteVars>>
      BY <1>2 DEF Download
    <3>2. Begun(upstream, All, FALSE, FALSE) \in Scripts
      BY DEF Begun, Scripts, Pcs, Ended, All
    <3>3. ApplyTypeOK'
      <4>1. [r \in Roms |-> Image("none", {})] \in [Roms -> Images]
        BY ImageType
      <4> QED BY <1>j, <2>2, <3>1, <3>2, <4>1 DEF ApplyTypeOK, Works
    <3>4. \A n \in Machines : MachineInv(n)'
      <4> TAKE n \in Machines
      <4>1. CASE n = j
        BY <4>1, <2>2, <3>1, BegunKeeps DEF ApplyTypeOK
      <4>2. CASE n # j
        BY <4>2, <1>j, <2>2, <3>1, MachineFrame DEF ApplyTypeOK
      <4> QED BY <4>1, <4>2
    <3>5. /\ job' \in [Jobs -> JobStates] /\ job'[j].pc = "patch"
          /\ \A k \in Jobs : k # j => job'[k] = job[k]
      BY <2>2, JobPcsAre, JobGotoEffect
    <3>6. /\ script'[j].rom = Firmware /\ script'[j].request = All
          /\ \A k \in Jobs : k # j => script'[k] = script[k]
      BY <1>j, <2>2, JobsAssumption DEF Begun, ApplyTypeOK
    <3>7. \A k \in Jobs : JobInv(k)'
      BY <3>5, <3>6 DEF JobInv, JobAt
    <3>8. ReleaseVerified'
      BY <3>1 DEF siteVars, ReleaseVerified
    <3>9. ComingBack'
      BY <1>2, <2>2, <3>1, <3>5 DEF Download, siteVars, ComingBack, Works, JobAt
    <3> QED BY <3>1, <3>3, <3>4, <3>5, <3>7, <3>8, <3>9 DEF siteVars
  <2> QED BY <1>2, <2>1, <2>2 DEF Download
<1>3. CASE Repack(j)
  <2>1. PICK pc \in {"legacy", "failed"} : JobGoto(j, pc) /\ (pc = "legacy" => script[j].pc = "ok")
    BY <1>3 DEF Repack, JobFails
  <2>2. JobInv(j)'
    BY <1>3, <2>1, <1>p, JobPcsAre DEF Repack, JobInv, JobAt
  <2> QED BY <1>3, <2>1, <2>2, JobPcsAre, QuietJobStepKeeping DEF Repack, siteVars, JobAt
<1>4. CASE ViewLegacy(j)
  <2>1. PICK pc \in {"legacyDelete", "view"} : JobGoto(j, pc)
    BY <1>4 DEF ViewLegacy
  <2>2. JobInv(j)'
    BY <1>4, <2>1, <1>p, JobPcsAre DEF ViewLegacy, JobInv, JobAt
  <2> QED BY <1>4, <2>1, <2>2, JobPcsAre, QuietJobStepKeeping DEF ViewLegacy, siteVars, JobAt
<1>10. CASE DeleteLegacy(j)
  <2>1. PICK pc \in {"view", "failed"} : JobGoto(j, pc)
    BY <1>10 DEF DeleteLegacy, JobFails
  <2>2. JobInv(j)'
    BY <1>10, <2>1, <1>p, JobPcsAre DEF DeleteLegacy, JobInv, JobAt
  <2>3. legacy' \in BOOLEAN
    BY <1>10 DEF DeleteLegacy
  <2> QED BY <1>10, <2>1, <2>2, <2>3, JobPcsAre, QuietJobStepKeeping DEF DeleteLegacy, JobAt
<1>5. CASE ViewRelease(j)
  <2>1. PICK pc \in {"delete", "create"} : JobGoto(j, pc)
    BY <1>5 DEF ViewRelease
  <2>2. JobInv(j)'
    BY <1>5, <2>1, <1>p, JobPcsAre DEF ViewRelease, JobInv, JobAt
  <2> QED BY <1>5, <2>1, <2>2, JobPcsAre, QuietJobStepKeeping DEF ViewRelease, siteVars, JobAt
<1>6. CASE DeleteRelease(j)
  <2>1. CASE JobFails(j) /\ UNCHANGED release
    <3>1. JobInv(j)'
      BY <1>6, <2>1, <1>p, JobPcsAre DEF DeleteRelease, JobInv, JobAt, JobFails
    <3> QED BY <1>6, <2>1, <3>1, JobPcsAre, QuietJobStepKeeping DEF DeleteRelease, JobAt, JobFails
  <2>2. CASE Works /\ release' = NoRelease /\ JobGoto(j, "create")
    <3>1. JobInv(j)'
      BY <1>6, <2>2, <1>p, JobPcsAre DEF DeleteRelease, JobInv, JobAt
    <3>2. ReleaseVerified' /\ JobAt(j, "create")'
      BY <2>2, <1>p, JobPcsAre DEF ReleaseVerified, JobAt
    <3> QED BY <1>6, <2>2, <3>1, <3>2, JobPcsAre, QuietJobStep DEF DeleteRelease
  <2> QED BY <1>6, <2>1, <2>2 DEF DeleteRelease
<1>7. CASE CreateRelease(j)
  <2>1. CASE (Fails \/ release # NoRelease) /\ JobFails(j) /\ UNCHANGED release
    <3>1. JobInv(j)'
      BY <1>7, <2>1, <1>p, JobPcsAre DEF CreateRelease, JobInv, JobAt, JobFails
    <3> QED BY <1>7, <2>1, <3>1, JobPcsAre, QuietJobStepKeeping DEF CreateRelease, JobAt, JobFails
  <2>2. CASE /\ Works /\ JobGoto(j, "done")
             /\ release' = Release(job[j].rev, script[j].rom, image[j][script[j].rom].has)
    <3>1. JobInv(j)'
      BY <1>7, <2>2, <1>p, JobPcsAre DEF CreateRelease, JobInv, JobAt
    <3>2. /\ script[j].rom = Firmware /\ script[j].request = All
          /\ Holds(Copy(j), All, All) /\ Copy(j) \in Images
      <4>1. script[j].rom = Firmware /\ script[j].request = All /\ script[j].pc = "ok"
        BY <1>7 DEF CreateRelease, JobInv, JobAt
      <4>2. Copy(j) \in Images
        BY <1>j DEF Copy, ApplyTypeOK, Scripts
      <4> QED BY <1>j, <4>1, <4>2 DEF MachineInv, CopyInv
    <3>3. release'.rom = Firmware /\ Checked \subseteq release'.has
      BY <2>2, <3>2 DEF Release, Holds, Copy, All, Patches, Checked
    <3>4. release' \in Releases /\ release'.rev \in Revs
      <4>1. job[j].rev \in Revs /\ Copy(j).has \in SUBSET Patches /\ Firmware \in Roms
        BY <3>2, FirmwareAssumption DEF JobStates, Images, Roms
      <4> QED BY <2>2, <3>2, <4>1 DEF Release, Releases, Copy
    <3>5. release' # NoRelease
      BY <3>4 DEF NoRelease, Revs
    <3> QED BY <1>7, <2>2, <3>1, <3>3, <3>4, <3>5, JobPcsAre, QuietJobStep DEF CreateRelease, ReleaseVerified
  <2> QED BY <1>7, <2>1, <2>2 DEF CreateRelease
<1>8. CASE JobAt(j, "patch") /\ ApplyStep(j) /\ UNCHANGED <<siteVars, job>>
  <2>1. ApplyTypeOK' /\ \A n \in Machines : MachineInv(n)'
    BY <1>8, <1>j, MachineStepType, MachinesKept
  <2>2. \A k \in Jobs : JobInv(k)'
    <3> TAKE k \in Jobs
    <3>1. CASE k = j
      BY <3>1, <1>8, <1>j, StepFrame DEF JobInv, JobAt, Same
    <3>2. CASE k # j
      BY <3>2, <1>8, <1>j, JobsAssumption, StepFrame DEF JobInv, JobAt
    <3> QED BY <3>1, <3>2
  <2>3. ReleaseVerified'
    BY <1>8 DEF siteVars, ReleaseVerified
  <2>4. ComingBack'
    <3>1. failures \in 0 .. MaxFailures /\ failures' \in 0 .. MaxFailures
      BY <2>1 DEF ApplyTypeOK
    <3>2. failures' >= failures
      BY <1>8, <1>j, StepCounts
    <3>3. failures' = 0 => failures = 0
      BY <3>1, <3>2, FailuresAssumption
    <3> QED BY <1>8, <3>3 DEF siteVars, ComingBack, JobAt
  <2> QED BY <1>8, <2>1, <2>2, <2>3, <2>4 DEF siteVars
<1>9. CASE JobDies(j)
  <2>1. JobInv(j)'
    BY <1>9, <1>p, JobPcsAre DEF JobDies, JobInv, JobAt, JobFails
  <2> QED BY <1>9, <2>1, JobPcsAre, QuietJobStepKeeping DEF JobDies, siteVars, JobFails
<1> QED BY <1>1, <1>2, <1>3, <1>4, <1>5, <1>6, <1>7, <1>8, <1>9, <1>10 DEF JobStep

-----------------------------------------------------------------------------
(* The invariant and what follows from it.                                 *)

LEMMA InitIInv == Init => IInv
<1> SUFFICES ASSUME Init PROVE IInv
  OBVIOUS
<1> USE DEF Init
<1>1. ApplyTypeOK
  <2>1. Image("none", {}) \in Images
    BY ImageType
  <2>2. NotStarted \in Scripts
    BY DEF NotStarted, Scripts, Pcs, Ended, Roms
  <2>3. Untouched \in Devices
    BY <2>1 DEF Untouched, Devices
  <2> QED BY <2>1, <2>2, <2>3, FailuresAssumption DEF ApplyInit, ApplyTypeOK
<1>2. Firmware \in Roms /\ 1 \in Revs
  BY FirmwareAssumption, EventsAssumption DEF Roms, Revs
<1>3. Release(1, Firmware, All) \in Releases
  BY <1>2 DEF Release, Releases, All
<1>4. job \in [Jobs -> JobStates]
  BY <1>2, JobPcsAre DEF JobStates
<1>5. TypeOK /\ head <= events + 1
  <2>1. head \in Revs /\ upstream \in Roms /\ release \in Releases /\ legacy \in BOOLEAN
    BY <1>2, <1>3
  <2>2. events \in 0 .. MaxEvents /\ head <= events + 1
    BY EventsAssumption
  <2> QED BY <1>1, <1>4, <2>1, <2>2 DEF TypeOK
<1>6. \A m \in Machines : MachineInv(m)
  BY DEF ApplyInit, NotStarted, MachineInv, CopyInv, StageInv, DeviceInv, At, Before
<1>7. \A j \in Jobs : JobInv(j)
  BY DEF JobInv, JobAt
<1>8. ReleaseVerified
  BY DEF ReleaseVerified, Release, All, Checked, Patches
<1>9. ComingBack
  <2>1. release.rev = 1 /\ NoRelease.rev = 0
    BY DEF Release, NoRelease
  <2> QED BY <2>1 DEF ComingBack
<1> QED BY <1>5, <1>6, <1>7, <1>8, <1>9 DEF IInv

LEMMA NextIInv == IInv /\ [Next]_vars => IInv'
<1> SUFFICES ASSUME IInv, [Next]_vars PROVE IInv'
  OBVIOUS
<1>1. CASE Push \/ Commit \/ Dispatch \/ Schedule \/ UpstreamChanges
  BY <1>1, EnvironmentKeeps
<1>2. ASSUME NEW j \in Jobs, JobStep(j) \/ JobDies(j)
      PROVE  IInv'
  BY <1>2, JobStepKeeps
<1>3. ASSUME NEW m \in Benches, Bench(m)
      PROVE  IInv'
  BY <1>3, BenchKeeps
<1>4. CASE UNCHANGED vars
  <2>1. UNCHANGED <<applyVars, siteVars, job>>
    BY <1>4 DEF vars
  <2>2. ApplyTypeOK' /\ \A m \in Machines : MachineInv(m)'
    BY <2>1, ApplyQuiet DEF IInv, TypeOK
  <2>3. \A j \in Jobs : JobInv(j)'
    BY <2>1 DEF IInv, applyVars, JobInv, JobAt
  <2>4. ReleaseVerified' /\ ComingBack'
    BY <2>1 DEF IInv, applyVars, siteVars, ReleaseVerified, ComingBack, JobAt
  <2> QED BY <2>1, <2>2, <2>3, <2>4 DEF IInv, TypeOK, siteVars
<1> QED BY <1>1, <1>2, <1>3, <1>4 DEF Next

LEMMA AlwaysIInv == Spec => []IInv
<1> QED BY InitIInv, NextIInv, PTL DEF Spec

\* Every reachable state of the machines and of the site is well typed.
THEOREM TypeCorrect == Spec => []TypeOK
<1>1. IInv => TypeOK
  BY DEF IInv
<1> QED BY <1>1, AlwaysIInv, PTL

\* A player that apply.bash has flashed without an error has one whole image with
\* every tested patch that was asked for and none that was not.
THEOREM FlashesWhatWasAsked == Spec => []FlashedAsRequested
<1>1. IInv => FlashedAsRequested
  BY DEF IInv, MachineInv, DeviceInv, Holds, FlashedAsRequested
<1> QED BY <1>1, AlwaysIInv, PTL

\* apply.bash refuses to flash an image that is still mounted.
THEOREM FlashesUnmounted == Spec => []NeverFlashMounted
<1>1. IInv => NeverFlashMounted
  BY DEF IInv, MachineInv, StageInv, NeverFlashMounted, At
<1> QED BY <1>1, AlwaysIInv, PTL

\* build-one.sh publishes the manifest's firmware with every tested patch.
THEOREM ReleasesVerified == Spec => []ReleaseVerified
<1>1. IInv => ReleaseVerified
  BY DEF IInv
<1> QED BY <1>1, AlwaysIInv, PTL

\* Jobs that replace one release at the same time do not lose it.
THEOREM ReleasesKept == Spec => []ReleaseKept
<1>1. IInv => ReleaseKept
  BY DEF IInv, ComingBack, ReleaseKept, JobAt, AtRest
<1> QED BY <1>1, AlwaysIInv, PTL
=============================================================================
