# Koensayr in TLA+

Koensayr patches the firmware of the Innioasis Y1 music player so that a car or
a pair of headphones (the controller, CT) sees what is playing, over AVRCP 1.3.
At run time four parts of the patched device cooperate; around them stands the
tooling that builds, releases and flashes the firmware. This directory holds
TLA+ models of the run-time core, of the remote control's way to the player, of
the assembler and the byte patchers, and of the builds; the TLC runs that check
them; and TLAPS proofs.

## 1. The system

    player (stock, hooked)                                    controller (CT)
        |  calls                                                    ^  |
    PlaybackStateBridge ----> TrackInfoWriter                CHANGED |  | commands
    PositionTicker, PscPulse      |        \                 INTERIM |  v
    BatteryReceiver, papp         |         \ broadcasts      trampolines in
                                  v          `----------->    libextavrcp_jni.so
                     file y1-track-info  ------ mmap ------>  (com.android.bluetooth)
                                         ------ mmap ------>  Y1Bridge (Binder)

| part | state | operations | interacts with |
|---|---|---|---|
| `TrackInfoWriter` (music app) | status, position anchor, cached audio id and duration, natural-end latch, stamps of the rate limits; the file | `setPlayStatus`, `onSeek`, `markCompletion`, `markError`, `onFreshTrackChange`, `onTrackEdge`, `setBattery`, `setPapp`, `flush`, the two wake-ups | synchronized on one object; reads `PlayerService`; writes the file; broadcasts |
| `PlaybackStateBridge` | deadline of a track change | one method per hook of the player | called on the main thread and on the engine's listener thread |
| `PositionTicker`, `PscPulse` | a queued handler message | `start`, `stop`, `run`; `fire`, `run` | main looper |
| the file `y1-track-info` | active byte, two slots | flush; read by mmap | the music app writes; the Bluetooth process and Y1Bridge read; no lock |
| trampolines | `.bss`: subscription database, edge state; byte `conn[+0x11]` | T1_extended, extended_T2, T4, T5, T6, T8, T9, T_papp, ... | receive loop and the adapter's thread, no lock |
| player application settings | file `y1-papp-set` | T_papp 0x14, `writePappSet`, `PappSetFileObserver`, `PappStateBroadcaster` | CT to player and back |
| Y1Bridge | mapping of the file | Binder transactions 1 to 37 | MtkBt |
| remote control | which keys are held, the dispatcher's repeats, the player's status | a press, its RELEASE, `dispatchKeyEvent`, `onReceive` | kernel, input dispatcher, two activities, a broadcast to `PlayControllerReceiver` |
| `release.sh`, CI, `apply.bash` | git, GitHub releases, a mounted image | the steps of a release, a build, a flash | developer, runners |
| assembler `_thumb2asm` | a blob under construction: bytes, labels, fixups | one method per instruction, `label`, `resolve` | used by `_trampolines.py` to build the blob |
| byte patchers | the file to patch, the file in the image | `patch_*.py`, and the write-back of `apply.bash` | sequential; run again and again on what earlier runs left |

What is hard here: the file is shared by three processes with no lock; two
threads of the Bluetooth process share the edge state and the byte from which
every frame takes its transaction label; the two wake-ups of the music app are
not synchronized although the mutators are; a track change is a dozen calls
on two threads with three time windows; anything may die at any step.

What makes each part correct, and where it stands:

* file: a reader gets one whole image, the one current when it began (`DoubleBuffer`);
* writer and bridge: id and position belong together, every published change is
  announced after it is in the file, the ticker follows the status (`Playback`);
* trampolines: the CT ends up showing the file's track and status; notifications
  follow registrations; commands are answered under their own TID (`Trampolines`);
* settings: the last Set reaches the player, and what is published follows the
  player's preferences (`Papp`);
* builds: a release is verified, is not lost when jobs overlap, and ends up at main's
  last commit (`Publish`);
* `apply.bash`: what is flashed is one whole, unmounted image with the patches asked
  for, whatever earlier scripts left behind (`Apply`);
* remote control: one press acts once, whatever is held, repeated or lost; a PAUSE
  never plays; the patch does not disturb other keys (`Passthrough`);
* assembler: every reference lands on its label or the build stops (`Assembler`);
* byte patchers: a file is wholly patched, for one mode, or left alone (`Patcher`);
* `release.sh`: a failed precondition leaves nothing behind (not modelled).

## 2. Modules

| module | models | source |
|---|---|---|
| `TrackInfoSnapshot` | abstract: one current image, changed in one step | - |
| `DoubleBuffer` | the file: `ensureFile`, the file part of `flushLocked`, `get_or_init_mmap`, `read_track_info`, Y1Bridge's reads | `TrackInfoWriter.smali`, `_trampolines.py`, `MediaBridgeService.java` |
| `MCDoubleBuffer` | its constants for TLC | - |
| `DoubleBuffer_proofs` | theorems about `DoubleBuffer` | - |
| `TrackInfoWriter` | mutators and wake-ups, per thread | `TrackInfoWriter.smali` |
| `Playback` | extends it with the bridge, the ticker, the pulse and the player | `PlaybackStateBridge.smali`, `PositionTicker.smali`, `PscPulse.smali`, `patch_y1_apk.py` |
| `MCPlayback` | symmetry for TLC | - |
| `MCPlaybackPulse` | `Playback` with a history of the pauses inside a pulse | - |
| `Playback_proofs` | theorems about `Playback` | - |
| `Trampolines` | the handlers of the Bluetooth process and the CT | `_trampolines.py` |
| `MCTrampolines` | symmetry for TLC | - |
| `Trampolines_proofs` | theorems about `Trampolines` | - |
| `Papp` | player application settings, from the CT's Set to the published bytes | `_trampolines.py`, `PappSetFileObserver.smali`, `patch_y1_apk.py`, `TrackInfoWriter.smali`, `MediaBridgeService.java` |
| `MCPapp` | bounds for TLC | - |
| `Papp_proofs` | theorems about `Papp` | - |
| `KeyEventPatch` | Patches H, H', H'' as the script makes them: where the block goes in a `dispatchKeyEvent` of a given shape, which registers it uses, what it does with an event | `patch_y1_apk.py` |
| `Passthrough` | extends it with the remote, the key layouts, the input dispatcher, the activities and the receiver | `patch_y1_apk.py`, `patch_avrcp_kl.py` |
| `MCPassthrough` | presses, activities and shapes for TLC | - |
| `Passthrough_proofs` | theorems about `KeyEventPatch` and `Passthrough` | - |
| `Thumb2` | the encoders, and ARMv7 decoders to read their results back | `_thumb2asm.py` |
| `Assembler` | `Asm`: emission, labels, fixups, `resolve` | `_thumb2asm.py` |
| `MCAssembler` | blobs and distances for TLC | - |
| `Assembler_proofs` | theorems about `Assembler` | - |
| `Patcher` | `main` of the six patchers, their sites, the write-back | `patch_mtkbt.py`, `patch_mtkbt_odex.py`, `patch_libextavrcp.py`, `patch_libextavrcp_jni.py`, `patch_libaudio_a2dp.py`, `patch_avrcp_kl.py`, `apply.bash` |
| `MCPatcher` | command lines and builds for TLC | - |
| `Patcher_proofs` | theorems about `Patcher` | - |
| `Apply` | one machine on which `apply.bash` runs again and again | `apply.bash` |
| `Publish` | extends it with the workflow, its jobs and the release | `build-firmware-releases.yml`, `tools/ci/*.sh` |
| `MCPublish` | requests for TLC | - |
| `Publish_proofs` | theorems about `Apply` and `Publish` | - |

**DoubleBuffer.** An image is a function from pieces to the number of the flush
that wrote the piece; a torn image is one with two numbers. Every system call of
a flush is an action, and so are its failure (`FlushFails`, the catch block) and
the death of the app. A reader reads byte 0 (`LatchActive`) and copies the slot it
names piece by piece. History variables number the flushes and note, per reader,
how far the writer got during its read: `calm`, `passed` (one image was published)
or `overrun` (then another flush began).

**TrackInfoWriter and Playback.** A method is the list of operations it stands
for, `todo[t]` what thread `t` has left; an operation that decides what follows
puts it at the head of the list, so threads interleave between any two operations
except inside the monitor. A flush is one operation here: `DoubleBuffer` is about
what is inside it. Positions are abstracted to the track they were measured on and
clock readings to the ticks left until a window closes. The header of
`TrackInfoWriter.smali` (lines 20 to 22) says that `setPlayValue` runs on the main
thread and the engine's callbacks off it. `listener` is chosen once per behaviour, "callback" for
what the header says and "main" for an engine created on a thread with a looper, as
Android's `MediaPlayer` would have it; every property of `Playback` is about both. The
two wake-ups take no monitor, so each of their loads and stores is an
operation: `Gate` loads the stamp, `Load` the status, `Compare` the status last noted,
`Stamp` and `Mark` store both anew, and only then `PlayState` broadcasts. What a
broadcast tells is what the file holds at that moment (`metaId`, `sentStatus`).
`playerPrepared` may seek to a saved position, before its flag or behind it
(`Restore`). Without a prepared engine `flushLocked` asks the file's own header for the duration,
which may fail: `Flush` then keeps the one it had. `MCPlaybackPulse` adds the history that
`PulseKeepsPause` speaks of.

**Trampolines.** A handler is the list of its accesses to shared memory (copy the
file, load the state, store the state, write `conn[+0x11]`, test a subscription,
send). Machine code between them touches only registers and the stack.
`overlap` chooses whether the receive loop and the adapter's thread may run
handlers at the same time; the history variable `raced` notes that the receive loop
loaded or stored the track id of the edge state while T5 was between its load and its
store. The CT is the environment: it sends GetCapabilities
first on a connection, fetches metadata when it hears TRACK_CHANGED, and
registers and polls as it likes.

**Papp.** Two bytes of `y1-papp-set` (`bytes`) travel from T_papp or the bridge, two
writers that know nothing of each other, to the observer thread, from there into
the preferences, and from the preferences through the listener on the main
thread into the two bytes that the app publishes in `y1-track-info`
(`published`) and that GetCurrent returns. Open with truncation, write and close are three actions, taking the
event off inotify's queue and reading the file are two, and `sendNow` reads one
preference after the other, so every mixture can arise. inotify merges equal
events: `closed` is a flag. `promised` is history: what the last writer asked of each
attribute, forgotten when the user changes it or the app restarts. Any process
may die at any step; the preferences may then be anything, since `apply()` saves
them later.

**Apply and Publish.** The script is a program counter per machine and one action per
stage between two points where it can stop. It runs without `set -e`: a failing
command that is tested ends in `_cleanup`, one that is not leaves its patch out and
goes on (`PatchFails`; `Checked` are the patches whose commands are all tested). An
image is the set of patches in it and whether it is whole, half written, or written
under a mounted file system (`mixed`). What outlives a script is state of the
machine: the devel.img of each rom.zip, the mount, the directory of patched
music APKs. `Publish` has two kinds of machines. Runners start clean: a
job compares the release with its commit and upstream's digest, downloads, verifies,
runs the script, then views and deletes the tags of the old form, and views, deletes and
creates the release, each a step of its own, so
that jobs of two runs of the workflow interleave on it. The developer's machine
keeps everything, and the developer may unmount by hand. The two share nothing
but the script, so `place` chooses once per behaviour which of them it tells of. A rom.zip
outside the manifest stands for any firmware with a music APK of another version.

**KeyEventPatch and Passthrough.** The script edits a method that is not in the
repository, so the model takes the shapes that its comments and its fallbacks name:
`Shapes` are methods with the statement after `getKeyCode` (the anchor) or without
it, with few or many locals, with a frame of each size. For each shape `KeyEventPatch`
computes what the script computes (the place, the register of the key event, the
register of the key code, the scratch register or a refusal) and from that what the
verifier and a key event make of it. `Passthrough` has one action per event: a press
and a release by the remote or the device, either of which may get lost on
the air; the kernel, which ignores a press of a key it holds down; the input
dispatcher, which repeats the key for as long as it is down; `dispatchKeyEvent` of the
activity in front; the broadcast; `onReceive`. Whether the stock handler acts on DOWN or
on UP is not in the repository: `actsOn` is chosen in Init.

**Thumb2 and Assembler.** Two programs and their inverse: the encoders of
`_thumb2asm.py` are translated, and the decoders come from the ARM Architecture Reference
Manual (external in the map), so that a run can ask whether the machine reads
back what was meant. A behaviour is one blob: it emits items, binds labels at
distances chosen so that both sides of every range limit occur, and resolves its
fixups one by one; `error` is the exception with which the code stops.

**Patcher.** A file is one token per site (stock bytes, the new ones of the release or
of the debug form, or others), what the rest of it is (stock, that of another build, not of this
kind of file, cut short by a failed copy), and for the odex file whether its Adler32 is right. MD5 is
identity of files. `Builds` is what the file may hold in some build of the firmware; the first
state is one of these. Each site carries its real offset and length, from the tables of the
patchers, and the branches that were encoded by hand are decoded with `Thumb2`. `Start` takes the file
out of the image and runs the patcher with some mode, `--skip-md5` and `--verify-only`; each exit
of `main` is an action (`NothingToDo`, `Refuse`, `AlreadyPatched`, `VerifyOnly`, `Patch`), and so are what
`patch_in_place_bytes` does next: `GiveUp`, `WriteBack`, or a copy that fails and leaves a
truncated file (`CopyFails`). Then the next run starts on what this one left, with other options.

## 3. Runs

| run | bounds | shows |
|---|---|---|
| `double_buffer` | one thread per process, 2 pieces, 3 flushes | six properties below |
| `playback` | listeners on either thread, 2 tracks, play values `playing` and `paused`, windows of 1 tick, timers due at once | six properties below |
| `playback_gate` | as `playback`, all three play values | violation: a real edge does not bypass the rate limit |
| `playback_pulse` | as `playback`, all three play values, the pulse takes 1 tick | violation: a pause inside the pulse is lost |
| `trampolines` | 2 tracks, 2 TIDs, events 1, 2, 5, 8, 2 CT commands besides fetches, 2 changes of the file, 1 restart | four properties below |
| `trampolines_live` | 2 TIDs, events 2, 3, 6, 9, 3 commands, 1 change | `NotifiesAsAsked`, `FallsQuiet` |
| `trampolines_race` | 2 tracks, event 2, one TID, 2 commands, 3 changes | violation: the CT is left with an old track |
| `papp` | values 2 and 3, one command, one Set of the bridge, one change by the user, one death | five properties below |
| `passthrough` | the remote's 5 keys and 2 of the device, 2 presses, 1 repeat, keys pressed on one build, 6 builds verified | four properties below |
| `assembler` | blobs of two items and a label, distances around every limit | four properties below |
| `patchers` | all six patchers, every command line, builds that differ from stock at one site at most, any number of runs | `PatchedOrRefused` |
| `publish` | 2 jobs, 1 developer's machine, 2 known firmwares and one that is not, 2 events or scripts, 1 failure | six properties below |

Properties.

* `ActiveSlotComplete`, `ActiveSlotUntouched`: the active slot is always the last
  completed flush and is never written, whatever fails or dies.
* `IntactUnlessOverrun`, `ImplementsSnapshot`: a read that is not overrun is an
  atomic read of the abstract snapshot.
* `MappedFileIsBacked`: nobody maps the new file before it has contents.
* `TickerOnlyWhilePlaying`: with both threads idle and no pulse pending, the
  ticker is queued only when the status is PLAYING.
* `PositionBelongsToTrack`: the published position and id are of the same track,
  but for the interval in which the player has advanced and the bridge not been
  told; in that interval a flush on any path publishes the new id with the old
  position.
* `TrackAnnounced`: no change of the id is published without a later metachanged.
* `NaturalEndAnnounced`: whichever thread runs the listeners, a natural end that the
  last track edge consumed is broadcast while the file still says so. (If another edge
  takes the latch before that broadcast, what counts is what that edge consumed.)
* `EdgeNotSwallowed`: with every method returned, a `playstatechanged` has followed
  the flush of the status in the file. There is one way out of it: the gate has noted a status
  other than the one that was broadcast, for which one thread must change the status while
  another is inside `wakePlayStateChanged`. With the listeners on main there is none. `EdgesBypassGate` is the
  same without the exception, as the code's comment has it, and fails.
* `MetadataConverges`: at rest, a CT registered for TRACK_CHANGED shows the file's
  track, whichever of T4, T5 and extended_T2 used up the edge, overlapping or not,
  unless the receive loop used the edge state while T5 was between its load and its
  store (`raced`). `NoEdgeLostToRaces` is the same without the exception, and fails.
* `ChangedStatusIsCurrent`: at rest, if the CT's last word on the play status was
  a CHANGED, it is the file's status. An INTERIM of T8 is excluded: T8 leaves the
  edge state alone, so it can put an older or a newer status before the CT than T9
  believes it has.
* `NotifiesAsAsked`: without overlap, T5 and T9 send only what was registered since
  this connection's GetCapabilities, under the TID of the registration.
* `EchoesCommandTid`: without overlap, a command is answered under its own TID,
  except by T4 on a track edge.
  (T4 makes the edge's CHANGED first and leaves `conn` with the label of that event.)
* `OnePressOneAction`: while the music application is in front, a press does at most
  one thing to the player, however long it is held, with its RELEASE or without, and
  whichever of two activities gets its DOWN, its repeats and its UP.
* `PauseNeverPlays`: no event of a PAUSE or STOP of the remote starts the player.
* `PressReachesPlayer`: an event of the remote that the receiver takes does something,
  whichever activity of an image that loads is in front.
* `PatchIsTransparent`: on every shape of `dispatchKeyEvent` with a known prologue or a
  `getKeyCode`, the patched method passes the verifier, and what the rest of the body
  reads is what it would read without the patch, for every key that is not the patch's own.
* `LandsOnLabel`: in a finished blob the core reads every branch, call and literal as the
  instruction asked for, about the address of its label. Labels at odd addresses (possible
  only for branches to data) are excluded: `b` and `bl` lose the low bit without a check.
* `GoesWhereAsked`: after CMP of any two words, a conditional branch goes where its name
  says; a wide one is an inverted short branch over a `b.w`, so the polarity and the skip
  must be right together.
* `OperandsSurvive`: every method without a label encodes exactly the operands it was
  given or raises; no two methods can be confused.
* `OnlyPlaceholders`: `resolve` changes no byte but those of the fixup it is at.
* `PatchedOrRefused`: whatever files, modes and options a patcher is run with, in any
  order: success means that every site holds the bytes of the mode asked for; failure
  changes nothing unless the copy itself fails; stock is always patched, patched is left
  alone, the other mode's file is refused; no file is ever half patched: it is patched
  for one mode, or as the build had it, or truncated by a copy that failed; and in a patched
  file every jump lands on an entry of a cave inside the grown LOAD #1 or on an
  untouched stock instruction.
* `LastSetApplied`: once writers and observer are done, the Set whose bytes are in
  the file is in force, however the two writers and the observer interleaved.
* `SettingsConverge`: when the main thread has nothing left to do and no call of the
  listener is about to be posted (a setter commits first and posts then, in two steps), the published
  bytes are the preferences, although `sendNow` reads them one by one while the
  observer sets them, and although a restart publishes defaults first.
* `AnswersAdvertised`: GetCurrent reports only values that ListValues offers, except
  in the moment between the creation of the file and its first flush.
* `SetsTakeEffect`: a Set that is not followed by another reaches the published bytes.
* `FlashedAsRequested`: a player flashed without an error has one whole image with every
  tested patch asked for and no other, whatever earlier scripts left behind.
* `NeverFlashMounted`: nothing is mounted while `mtk.py` writes, not even the leftover
  of a script that was killed.
* `ReleaseKept`: jobs that interleave between view, delete and create never leave the
  repository without the release, as long as no command fails.
* `ReleaseVerified`: what is released is the manifest's firmware with every tested patch.
* `ReleasesHeal`: the release ends up at main's last commit. Two pushes may finish in
  the wrong order, and a failure may lose the release altogether: it is the weekly
  run that repairs both, so this is liveness and no invariant.
* `FallsQuiet`: CHANGED and the fetches it provokes do not go on for ever.

Each passing property is accompanied by a mutated definition (marked `Mutant` in
the modules) that a plausible mistake would have produced and under which TLC
finds the property violated.

**Why the bounds suffice.** An overrun needs two flushes during a read, and a
third to observe recovery; one reader per process meets everything two would,
since readers share only the mapping; two pieces suffice for tearing. Two
tracks suffice because ids are only compared. In `passthrough` two presses are the one that is held or
whose RELEASE is lost and the one that meets it; the dispatcher's repeats
count from zero, so that one repeat is both a repeat and the long press
(`LongPress` is 8 in the framework; only its order to 0 matters). Keys are pressed on
one build only (`Flashed`), since the patched methods of the six answer keys alike
as far as they verify; the verifier and the registers are checked on all six, which are
the four prologues of `BaseActivity`, the three of `BasePlayerActivity`, an
unknown one with the anchor, one with too few locals, and one that falls back to the
method entry. In `assembler` the distances are those on both sides of every limit of a
16-bit branch (254 and 256), of a literal (4095) and of `b.w`, `bl` and `blx` (16 MB),
from an even and an odd word; every instruction without a label is
encoded with the first, the last and inner values of every field; `Base` is the real
address of the blob, 0xac54. `patchers` has no bound but one: another firmware differs
from stock at one site. In `Playback` a stop passes through the same methods as a pause does
outside the window of a track change, so `playback` leaves it out; the two runs that
look for a violation have it, and the theorems hold for any `PlayValues`. A window is open or
closed, so one tick each gives both; a timer of zero ticks is due at once and
still waits for the looper. In `Trampolines` two changes give an edge that is
overtaken by another; two commands give a registration after a reconnect; the
queue of broadcasts is bounded at 2 (3 after a `NewStatus`). In `Papp` one Set
by each writer, one toggle and one death meet each other in every order; the
values 2 and 3 are valid and not valid for Shuffle, both valid for Repeat. In
`Publish` two events are two pushes, or a push and a change upstream, each
overlapping the weekly run; two scripts are the one that leaves something behind and
the one that meets it, and one failure is enough to leave a mount, since every
property speaks of what a single fault may do. Deadlock is not
checked: each of these models stops when its bounded counters are used up; `patchers`
does not stop, and its deadlock is checked.

**Symmetry.** `TrackSymmetry` permutes the tracks, which no definition names; it
is used with invariants and action properties only.

**Fairness.** `FairSpec` of `Trampolines`: a thread that is inside a handler goes
on (`WF(Step(t))`: the handlers contain no loop on a condition and take no lock),
the adapter takes its next message (`WF(Deliver)`: a looper), and a CT that has
heard TRACK_CHANGED fetches (`WF(fetch /\ Fetch)`, an assumption about the CT that
makes `FallsQuiet` harder, since every fetch may send another TRACK_CHANGED).
Nothing is assumed of the music app or of registrations. `FairSpec` of `Papp`: a
writer goes on with a Set it has begun (three system calls in a row), and the
observer thread and the main thread of the app go on as long as they have work; no
fairness for commands, the user or deaths. `FairSpec` of `Publish`: a job goes on until it
ends (a runner that hangs is killed: `JobDies`), and the weekly schedule comes again
(`WF(Schedule)`; a job may last six hours, so the job of the week before has ended).
No fairness for pushes, the developer or failures. `Spec` of
`Passthrough`: the looper of the activity and the one of the receiver go on while they
have messages (`WF(Dispatch)`, `WF(Receive)`); none for the remote.

## 4. Findings

* `PscPulse.run` writes PLAYING over a pause of the last 50 ms (`playback_pulse`).
* The comment on the rate limit of `wakePlayStateChanged` (`TrackInfoWriter.smali:1849`) says that
  real play-state edges always bypass it (`playback_gate`). The callback of `onPrepared` is past
  the gate when `setPlayStatus` on main stores a new status. The callback loads
  `mPlayStatus` a second time, notes the new status as told, and broadcasts; the file
  still has the old one. Main flushes, and its own wake, within 800 ms, finds nothing new and
  returns. Whether the Bluetooth side shows the new status then depends on whether
  it came to read the file before or after main's flush; nothing else
  tells it until the next edge or the next wake after the 800 ms, and while paused there is
  no ticker to send one.
* The comment on the edge state says that no two threads read, modify and write it
  (`_trampolines.py:175`), but T4 and extended_T2 on the receive loop store the track id
  as T5 does on the adapter's thread, and T5 stores it only after its notifications, the first of
  which makes the CT fetch (`trampolines_race`). T5 loads for track b and sends
  TRACK_CHANGED; the file moves on to a; T4, answering the fetch, stores a and sends a's
  attributes; T5 stores b. When b comes next, neither T5 nor T4 sees an edge, and
  the CT shows a until some later track. The docstring of T9 (line 2626) knows of races and
  says that "the next event recovers" a missed CHANGED; here the next event is the one
  that is missed.

Three more disagreements are exceptions of properties that hold, and have no run of
their own:

* The header of `TrackInfoWriter.smali` promises that a reader never sees a torn
  slot; two flushes during one read tear it (the exception of `IntactUnlessOverrun`).
  Flushes come in pairs in `setPlayStatus` and `onTrackEdge`, so two are close together.
* BT-COMPLIANCE says every response echoes the TID of its command; T4's answer on
  a track edge carries the TID of the TRACK_CHANGED registration (`EchoesCommandTid`).
* Of two Sets close together, both acknowledged, the first may never be applied:
  the observer reads the file after the second has replaced it (`LastSetApplied`
  speaks of the last one). One preset of Repeat and Shuffle by a CT is such a pair.

Read while modelling, and not the subject of a property:

* `papp_attr_text` clears `r5`, which holds the connection, to use it as the flag
  `wantShuffle` (`_trampolines.py:1579`), and passes `r5 + 8`, that is 8 or 9, as the
  connection (lines 1627 and 1645): every GetPlayerApplicationSettingAttributeText for an
  attribute the player has faults in the Bluetooth process, although
  `docs/PATCHES.md:376` and `BT-COMPLIANCE.md:67` list it as answered. `Papp` has the step
  (`AttrText`).
* A completion that reaches `markCompletion` after the early edge of a skip leaves
  its latch to the next edge: a later skip may then publish a natural end, although
  `docs/PATCHES.md:331` says that TRACK_REACHED_END fires on a natural end and not on a skip.
  The other way round, `onTrackEdge` on the listener's thread may publish its own
  latch, which is empty, before the early edge on main has broadcast the end it consumed.

* On one checkout, `--music-apk` or `--all` works for the first version of the firmware
  only: `src/patches/output` keeps its patched APK, and the next version ends in
  "multiple patched APKs" (`apply.bash:501`) until someone deletes it, although the
  header says that compatibility is defined by the manifest. `Apply` has the
  behaviour (`outputs`); CI is not affected, since its checkouts are new.
* `docs/PATCHES.md` (lines 559 and 622) says that key 201 stays `MEDIA_PLAY_PAUSE`
  and the key layout stock, while [K1] maps it to the discrete pause. Without [K1],
  `PauseNeverPlays` fails: that is its mutant.
* The docstring of Patch H promises an insertion "immediately after getKeyCode"; where there is
  none, the fallback goes to the method entry, where the register it compares is not
  written, and the class would not verify. `PatchIsTransparent` leaves that
  case out (`OnlyTheEntry`).
* `patch_avrcp_kl.py` lists three accepted MD5s (line 35) but accepts one, and prints that
  `--skip-md5` suppresses the mismatch of the output although it then exits with 1.
* With `--skip-md5`, a file whose sites are all patched counts as already patched
  even if it is truncated behind them, and the odex's Adler32 is not looked at.
* `_thumb2asm.py` (line 175) says ±1 MB of the wide conditional branch; it is made of a
  `b.w` and reaches ±16 MB.
* The comment on the D2 cave of `patch_mtkbt.py` describes another test than its code makes.

## 5. Proofs

`DoubleBuffer_proofs`, for every set of threads, number of pieces and number of
flushes, from `ThreadsAssumption` (the two processes have different threads) and
`BoundsAssumption` (an image has at least one piece):

| theorem | property |
|---|---|
| `TypeCorrect` | `TypeOK` |
| `PublishedComplete` | `ActiveSlotComplete` |
| `ReadsIntact` | `IntactUnlessOverrun` |
| `FileBacked` | `MappedFileIsBacked` |
| `ActiveSlotStable` | `ActiveSlotUntouched` |
| `DoubleBufferImplementsSnapshot` | `ImplementsSnapshot` |

None of the invariants but the first is inductive alone. `IInv` adds what the
writer has stored so far and that its slot is not the active one (`WriterInv`: else a
flip could publish a partial image), which slot a reader copies in each phase
(`ReaderInv`: a `calm` reader the active one, a `passed` reader the other while the
writer is between flushes, so that a store never hits a slot being copied intact),
and when the file has contents (`FileInv`). Each part is preserved by a step from
a state that satisfies all of them, one lemma per part, one case per action. The
refinement maps `current` to the active slot and `flushing` to the two program
counters between the choice of a slot and the flip; every step is then a step of
`TrackInfoSnapshot` or a stutter.

`Papp_proofs`, for every set of byte values and any bounds on the environment, from
`ValuesAssumption` (values are bytes) and `LimitAssumption` (bounds are numbers):

| theorem | property |
|---|---|
| `TypeCorrect` | `TypeOK`, hence only AVRCP values are ever published |
| `LastSetWins` | `LastSetApplied` |
| `PublishedFollows` | `SettingsConverge` |
| `GetCurrentOffered` | `AnswersAdvertised` |

`LastSetApplied` speaks of rest and says nothing of the way there. `SetInv` does: while
the promised bytes are in the file, either an event is queued or about to be
(`Pending`), or the observer holds exactly these bytes, or it is idle and the preference has them; it must not be
possible that the observer holds older bytes and nothing is queued. `MainInv`
says which of `sendNow`'s locals is current at each step, or that another
call is posted. `PromiseInv` says that a promise is for an advertised value, and
`DispatchRoundTrip` that such a value comes back from the player as itself.
`OfferInv` is what `AnswersAdvertised` needs: whatever was mapped from a preference, on its
way to the file or in it, is advertised; the one other value is the zero of a file that
no flush has reached.

`Publish_proofs`, for every set of machines, jobs and firmwares, any requests, and any
number of events and failures, from `KnownAssumption` ("other" names no known firmware),
`RequestsAssumption`, `JobsAssumption` (runners are machines), `FirmwareAssumption` (it is
in the manifest), `FailuresAssumption` and `EventsAssumption` (bounds are numbers):

| theorem | property |
|---|---|
| `TypeCorrect` | `TypeOK` |
| `FlashesWhatWasAsked` | `FlashedAsRequested` |
| `FlashesUnmounted` | `NeverFlashMounted` |
| `ReleasesVerified` | `ReleaseVerified` |
| `ReleasesKept` | `ReleaseKept` |

`CopyInv` says for each stage what the copy holds: after `cp` it is whole unless the mount
point is taken by this very file, which is why the mount check may come after the
`cp`; while patching it holds the tested patches that are no longer left.
`JobInv` ties a job that is about to publish to the finished script of its runner.
`ComingBack` is what makes `ReleaseKept` inductive: without failures, a
missing release means that some job is at `gh release create`, and it can only
fail there because another has been faster.

`Assembler_proofs`, for every base address, every set of label names and every
program, from `BaseAssumption`, `ProgramsAssumption`, `NamesAssumption` and `OperandsAssumption`:

| theorem | property |
|---|---|
| `TypesHold` | `TypeOK` |
| `PlaceholdersOnly` | `OnlyPlaceholders` |
| `ReferencesLand` | `LandsOnLabel`: for every distance, not only the tried ones |
| `BranchesGo` | `GoesWhereAsked`: at every even place, for every label at an even address |
| `OperandsIntact` | `OperandsSurvive`: for all operands, not only those at the ends of their fields |

`IInv` says that the fixups are disjoint intervals of the buffer in rising
order (`Layout`) and that those before `next` are filled with the encoding of their offset; its
core are the round trips `encode, then decode` for each kind of reference, which are
statements of integer arithmetic on the bit fields. `AskedInv` adds that each conditional
branch that was asked for has its placeholder, or, if it is wide, two in a row with the inverted
condition and a label behind both; `BranchesGo` then follows from what the two instructions
do. It needs `NamesAssumption`, that no caller's label has the name `_bcond_w` invents: the code
writes `_bcw_{len(fixups)}_{len(buf)}` (`_thumb2asm.py:169`), which no blob uses.

`OperandsIntact` has two halves. What a method emits is a number written with the digits of its
fields, in a mixed radix whose bases are the sizes of the fields (`Radix`, `Read1` to
`Read4`), so each field is read back as the digit put there (`AnySurvives`, by families of methods that
share a layout); the decoder's layouts and the encoder's shifts are two independent
tables, and this is where they meet. And the fixed bits at the top of a halfword put it into an
interval that is one method's (`Opening`, `AnyNamed`), so that no other method matches
(`OneReading`). `PlainInv` keeps, along a program, that each call made so far was let through
by its `_check`. `OperandsAssumption` asks of the callers what Python or the code's
comments ask: as many operands as the method has, and registers for `add_imm_t3`, which checks its
immediate only (`_thumb2asm.py:270`).

`Passthrough_proofs`, for every set of builds, whatever their
two stock methods look like, any keys of the device, presses, repeats and long press, from
`PassthroughAssumption` (the keys are among those modelled, a long press is a repeat that
can happen) and `StockAssumption`:

| theorem | property |
|---|---|
| `TypeCorrect` | `TypeOK` |
| `PauseStaysSilent` | `PauseNeverPlays` |
| `PressActsOnce` | `OnePressOneAction` |
| `PatchStaysTransparent` | `PatchIsTransparent` |
| `PatchedAnswers` | (of any stock method, without a build) |
| `EntryDoesNotLoad` | (the fallback at the method entry never verifies when the method has no `getKeyCode`) |

`StockAssumption` is what the script takes for granted of code it has not got, in two parts.
The stock method is straight code before the rest of its body, and that body reads only
registers the code has written (`StockMethod`: else Dalvik would not have loaded the stock
application). And `v3` is scratch behind the first `getKeyCode` (`ScratchV3`), as the
docstring of `_patch_h_avrcp_block` says (`patch_y1_apk.py:1072`): the key code is in another
register, and what the body reads in `v3` is written after the block. TLC checks the
assumption on the shapes it runs, so it has models.

`IInv` says of every event in the queue, every intent under way and every key held
that it belongs to a press that was made, with the key the layout gives that press;
a PAUSE or STOP is then a key the patch and the receiver answer by pausing only.

A method is followed one instruction at a time (`Trace`). `Shaped` says that each inserted block is right
behind the `getKeyCode` whose register it compares and that this register is not `v3`: then nothing goes wrong
up to the body, and some block answers the AVRCP keys (`ShapedAnswers`). `Inserted` relates a
method to the same with some more instructions: when the new ones overwrite only what is written again
later, the last instruction to write a register that the body reads is the same one
(`LastWriteFound`), and it finds the same there. Every way the script puts the block in, known prologue,
anchor and `--debug`'s log on top of either, is such an insertion.

`OnceInv` is about the events of one press on their way. No two of them are the same
first DOWN or the same UP (`Once`: over both queues, for an event that was handed on must not come
back); a key that is down has no UP under way (`StillDown`); what an activity of the player handed on
is no repeat and not the play key (`Handed`: here `LoadedRoutes` uses what was proved of the classes);
and a press that has acted has nothing left that could act again (`Spent`). `acted[n] <= 1`
alone is far from inductive: it says nothing of the events that are still to come.

`Trampolines_proofs`, for every set of tracks, statuses and settings, any TIDs, any
registrable events and any bounds on the environment, from `EventsAssumption`,
`TidAssumption`, `DataAssumption` (there is a battery bucket and a setting) and
`BoundsAssumption` (bounds are numbers):

| theorem | property |
|---|---|
| `TypeCorrect` | `TypeOK` |
| `AsAsked` | `NotifiesAsAsked` |
| `EchoesOwn` | `EchoesCommandTid` |
| `StatusCurrent` | `ChangedStatusIsCurrent` |
| `MetadataCurrent` | `MetadataConverges` |

A handler is a list that its own accesses lengthen and shorten, so the invariant is
about what is left of it. `SessionInv` (`CommandInv`, `NoticeInv`) says for each suffix of
each command's list what the shared memory holds there: the database is what this
connection registered (`Even`), but for the slot that `RegisterNotification` is
about to fill and between `GetCapabilities` and its clearing; `conn` is the command's TID until T4 turns
to an event. Of the adapter it says that each event's check, restore of the TID and
send follow each other (`Order`), so that a send has the TID that the restore put there (`Aimed`).
Without `overlap` the other thread has nothing left to do meanwhile. The two
properties of the state at rest hold with overlapping threads too. `StatusInv` and
`TrackInv` speak of the way there: a copy of the file that is out of date has another
broadcast behind it (`StatusRead`, `TrackRead`); the edge state will catch up with
the file (`StatusComing`, `TrackComing`); and what the controller was told or
shows is the edge state, or a notification or a fetch is still to come (`Told`,
`Settled`). T9 alone stores the status, which is why its copy of the state cannot be
out of date. For the track that needs `~raced`: there the proof uses
that nothing has stored a track between T5's load and its store.

`Playback_proofs`, for every set of tracks, every window and rate limit and every timer
shorter than the number that stands for a message that is not queued, from
`TicksAssumption`, `TimersAssumption` and `PlayValuesAssumption` (the player sets statuses), and
whichever thread the listeners run on:

| theorem | property |
|---|---|
| `TypeCorrect` | `TypeOK` |
| `PositionMatches` | `PositionBelongsToTrack` |
| `AnnouncesTrack` | `TrackAnnounced` |
| `TicksWhilePlaying` | `TickerOnlyWhilePlaying` |
| `AnnouncesNaturalEnd` | `NaturalEndAnnounced` |
| `TellsEveryEdge` | `EdgeNotSwallowed` |

Here too the work is in the lists. An automaton reads them: `Move(p, o, q)` says that
operation `o` takes a method from mode `p` to mode `q`, and `Via(s, p, q)` that the
operations of `s` do so one after the other. A mode has two parts, where the thread is
(`at`: inside the monitor, between a change and the flush that publishes it, past the gate)
and what its call will yet do to the ticker and the engine (`ends`). A lemma for each
method says which modes it leads between (`LeadsPrepared`, `LeadsEarlyTrackChange`), and one
for each operation that puts others in its place that the new list leads on. `IInv` gives
each thread a mode from which its list leads to the end, and says what holds in it:
one thread at most is at a point inside the monitor (`MonitorInv`); while the song has
advanced and is not reset, the main thread is on its way there, and once it has reset
the anchor nobody moves it before the flush (`TrackInv`); a status not in the file is about to be
flushed (`FlushInv`); a tick that is queued without PLAYING is about to be taken back
(`TickInv`); a status not broadcast is the one the gate has noted, or a thread is on its way to
the gate or past it, and with one thread the status noted is the one last broadcast, but between
the two stores (`WakeInv`); a natural end that is owed is the one latched last, and a thread is on
its way to publish it, or, once the file shows it, to broadcast it (`EndInv`). None of the six properties is
inductive by itself: each speaks of a moment of rest, or of the file alone, and holds
because of what some list still has to do.

`Patcher_proofs`, for every set of command lines and every set of builds, from
`OptionsAssumption` and `BuildsAssumption` (a build's file has the sites of its patcher, with stock,
patched or other bytes in each, and is not truncated):

| theorem | property |
|---|---|
| `PatchersKeepTheirWord` | `PatchedOrRefused` |
| `ReplacesStockOnly` | (without `--skip-md5` only the exact stock file is ever replaced, even by a copy that fails) |
| `OnlyPinnedFiles` | (if no command line has `--skip-md5`, the image holds a file of the build, a pinned one, or a truncated one, for ever) |

TLC's run has builds that differ from stock at one site at most; the theorems have
builds that differ at any number of them. The proof has three parts. The tables are
computed (`WellFormed`): no two sites of a mode overlap or share an offset (`Apart`), the segment
ends within its limit, every jump lands (`Lands`), and the tables of the two modes are the same,
or differ in a site they share (`ModesDiffer`). From these alone follows what a file holds
(`UniqueSite`, `NewBytes`, `WrittenFile`): a file whose sites are rewritten shows exactly the new bytes, one made from stock is
the pinned one, and a pinned file of the other mode shows neither the stock bytes nor this mode's, so
that `NoMatch` refuses it (`OtherMode`). `IInv` then follows a run: until the
write-back the file is the one the run began with and the output is not in the image (`RunInv`);
behind `exit0` the output, or the file if nothing was written, is patched for the mode asked for, and
pinned unless `--skip-md5` was given; behind `exit1` the file is not the pinned one, nor stock unless
`--verify-only` was given; and a failed run changed nothing unless the copy is what failed (`DoneInv`, `FailedInv`). `PatchedOrRefused` speaks of ended runs only, and so says nothing of an output that
is written and not yet copied: that is why it is not inductive.

Every safety invariant and action property of the passing runs is stated by a theorem.
`PressReachesPlayer`, `FallsQuiet`, `SetsTakeEffect` and `ReleasesHeal` stay
with TLC for good: liveness under fairness and ENABLED are beyond the prover. Induction over
data is within its reach in one form only: the library's induction rules take an operator, which
no installed prover can instantiate, but that a non-empty set of numbers has a least element
(`LeastNat`, from `WFMin`) is a statement about a set. What `Run` computes is proved
with the least instruction at which it would be wrong. No module declares a RECURSIVE
operator.

## 6. Not modelled

* Machine code of the trampolines as such, wire formats, strings, the stock player and Bluetooth
  stack beyond how they call the code. The instructions inside the caves of
  `patch_mtkbt.py` are modelled only as to where they jump.
* Positions as numbers: the wrap of the 32-bit clock and `computePosition` are listed
  hazards without a property.
* `release.sh`: it stops at the first command that fails and leaves the effects of the ones
  before it, by design, so that there is no promise to state; the hazard is listed.
* The APK patcher's edits that add no state (labels, manifests, layouts), `apktool` and the
  rebuild of the DEX files.
* `_axml.py`: nothing in the repository calls it.
* `NowPlayingRefresher` (draws icons), the superseded `AvrcpBridgeService` and
  `AvrcpBinder`, capture and debug tools, the two small C programs, set-up scripts.
* In `Playback` the values of `onPlayValue` that change nothing (reason 1, unmapped values).
* In `Apply` the parsing of options, the debug flag and two scripts at once on one machine
  (nothing in the script locks, and nothing promises it); in `Publish` the version in the
  release tag, which is constant, and sizes: a rom.zip that is refused because it is not larger than
  upstream's counts as one of the failures.
* In `Patcher` the death of a patcher half way (it writes its output in one call, beside the
  image) and the formats of the binaries beyond their sites.

By design of the code and not of a property: a real pause within a second of a track
change is taken for the blip of `restartPlay` (`PlaybackStateBridge.smali:186`), a seek within two
seconds of a fresh track is not published (`TrackInfoWriter.smali:515`), and a Set whose file could
not be opened is acknowledged all the same (`MediaBridgeService.java:217`).

## 7. Plan

Done: the file, the writer and the bridge, the trampolines, the settings, the remote
control, the assembler, the byte patchers, the builds and `apply.bash`, the proofs of
section 5. What would come next, in this order:

1. Y1Bridge's Binder interface and the clock arithmetic of T6, T9 and
   `computePosition` (modulo 2^w for a small w, against a reference definition).
