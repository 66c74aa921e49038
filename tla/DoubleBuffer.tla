----------------------------- MODULE DoubleBuffer -----------------------------
(***************************************************************************)
(* The file y1-track-info: an active byte and two slots.  The music app    *)
(* (TrackInfoWriter) writes the slot that is not active, then flips the    *)
(* byte.  Threads of the Bluetooth process (the trampolines) and of        *)
(* Y1Bridge map the file, read the byte and copy the slot it names, with   *)
(* no lock between them and the writer.                                    *)
(*                                                                         *)
(* An image is a function from pieces to the number of the flush that      *)
(* wrote the piece; 0 is whatever the file held before this model starts.  *)
(***************************************************************************)
EXTENDS Naturals

CONSTANTS BtThreads,      \* trampoline threads of the Bluetooth process
          BridgeThreads,  \* Binder threads of Y1Bridge
          NumPieces,      \* pieces in which an image is copied
          MaxFlush        \* bound: number of flushes in a behaviour

ASSUME ThreadsAssumption == BtThreads \cap BridgeThreads = {}
ASSUME BoundsAssumption == NumPieces \in Nat \ {0} /\ MaxFlush \in Nat

VARIABLES
  size,      \* length of the file: none, empty, legacy (1104 B), full (2213 B)
  readable,  \* the file's mode lets other uids read it
  active,    \* byte 0 of the file
  slot,      \* the two slots
  wpc,       \* where the music app is in init() or flushLocked()
  wver,      \* number of flushes begun; the number of the one in progress
  widx,      \* the writer's inactive slot (register v6 of flushLocked)
  wnext,     \* next piece the writer stores
  mapped,    \* processes that hold the mapping
  rpc,       \* per thread, idle or copying
  ract,      \* per thread, the active byte it has read
  rnext,     \* per thread, next piece it copies
  rbuf,      \* per thread, its buffer
  shown,     \* history: number of the flush published last
  phase,     \* history: per thread, how far the writer got during its read
  seen,      \* history: per thread, the image that was active at its start
  result     \* history: per thread, what its last finished read returned

writerVars == <<wpc, wver, widx, wnext>>
fileVars == <<size, readable, active, slot>>
readVars == <<rpc, ract, rnext, rbuf>>
history == <<shown, phase, seen, result>>
vars == <<fileVars, writerVars, mapped, readVars, history>>

Readers == BtThreads \cup BridgeThreads
Processes == {"bt", "bridge"}
ProcessOf(r) == IF r \in BtThreads THEN "bt" ELSE "bridge"

Pieces == 1 .. NumPieces
Images == [Pieces -> 0 .. MaxFlush]
Whole(v) == [p \in Pieces |-> v]

WriterPcs == {"down", "create", "zero", "chmod", "ready", "size", "choose",
              "copy", "flip", "expose"}
Phases == {"none", "calm", "passed", "overrun"}

TypeOK ==
  /\ size \in {"none", "empty", "legacy", "full"}
  /\ readable \in BOOLEAN
  /\ active \in {0, 1}
  /\ slot \in [{0, 1} -> Images]
  /\ wpc \in WriterPcs
  /\ wver \in 0 .. MaxFlush
  /\ widx \in {0, 1}
  /\ wnext \in Pieces
  /\ mapped \in SUBSET Processes
  /\ rpc \in [Readers -> {"idle", "copy"}]
  /\ ract \in [Readers -> {0, 1}]
  /\ rnext \in [Readers -> Pieces]
  /\ rbuf \in [Readers -> Images]
  /\ shown \in 0 .. MaxFlush
  /\ phase \in [Readers -> Phases]
  /\ seen \in [Readers -> Images]
  /\ result \in [Readers -> Images]

\* The file may be missing, left by an older build, or left by this one.
Init ==
  /\ \/ size = "none" /\ readable = FALSE /\ active = 0
     \/ size = "legacy" /\ readable = TRUE /\ active = 0
     \/ size = "full" /\ readable = TRUE /\ active \in {0, 1}
  /\ slot = [s \in {0, 1} |-> Whole(0)]
  /\ wpc = "down" /\ wver = 0 /\ widx = 0 /\ wnext = 1
  /\ mapped = {}
  /\ rpc = [r \in Readers |-> "idle"]
  /\ ract = [r \in Readers |-> 0]
  /\ rnext = [r \in Readers |-> 1]
  /\ rbuf = [r \in Readers |-> Whole(0)]
  /\ shown = 0
  /\ phase = [r \in Readers |-> "none"]
  /\ seen = [r \in Readers |-> Whole(0)]
  /\ result = [r \in Readers |-> Whole(0)]

-----------------------------------------------------------------------------
(* The music app.                                                          *)

\* Y1Application.onCreate calls TrackInfoWriter.init.
AppStart == /\ wpc = "down"
            /\ wpc' = IF size = "none" THEN "create" ELSE "ready"
            /\ UNCHANGED <<fileVars, wver, widx, wnext, mapped, readVars, history>>

\* Mutant: the file is created world-readable instead of chmodded at the end.
EnsureCreateReadable ==
  /\ wpc = "create"
  /\ size' = "empty" /\ readable' = TRUE
  /\ wpc' = "zero"
  /\ UNCHANGED <<active, slot, wver, widx, wnext, mapped, readVars, history>>

\* ensureFile: the new file is private to the music app until it is chmodded.
EnsureCreate == /\ wpc = "create"
                /\ size' = "empty" /\ readable' = FALSE
                /\ wpc' = "zero"
                /\ UNCHANGED <<active, slot, wver, widx, wnext, mapped, readVars, history>>

EnsureZero == /\ wpc = "zero"
              /\ size' = "full"
              /\ wpc' = "chmod"
              /\ UNCHANGED <<readable, active, slot, wver, widx, wnext, mapped, readVars, history>>

EnsureReadable == /\ wpc = "chmod"
                  /\ readable' = TRUE
                  /\ wpc' = "ready"
                  /\ UNCHANGED <<size, active, slot, wver, widx, wnext, mapped, readVars, history>>

\* prepareFilesLocked catches every Throwable and init goes on to the flush.
PrepareFails == /\ wpc \in {"create", "zero", "chmod"}
                /\ wpc' = "ready"
                /\ UNCHANGED <<fileVars, wver, widx, wnext, mapped, readVars, history>>

\* A mutator has built a new image under the monitor and enters the file part.
BeginFlush == /\ wpc = "ready"
              /\ wver < MaxFlush
              /\ wver' = wver + 1
              /\ wpc' = "size"
              /\ UNCHANGED <<fileVars, widx, wnext, mapped, readVars, history>>

\* RandomAccessFile("rw") creates a missing file; setLength extends a short one.
SetLength == /\ wpc = "size"
             /\ size' = "full"
             /\ wpc' = "choose"
             /\ UNCHANGED <<readable, active, slot, wver, widx, wnext, mapped, readVars, history>>

\* Mutants: the slot index is not wrapped; the slot is toggled from a count of
\* the flushes instead of byte 0, which a failed flush leaves behind.
NextSlot(a) == a + 1
SlotByCount(a) == wver % 2

Inactive(a) == 1 - a

ChooseInactive ==
  /\ wpc = "choose"
  /\ widx' = Inactive(active)
  /\ wnext' = 1
  /\ wpc' = "copy"
  /\ phase' = [r \in Readers |->
                 IF phase[r] = "passed" THEN "overrun" ELSE phase[r]]
  /\ UNCHANGED <<fileVars, wver, mapped, readVars, shown, seen, result>>

WritePiece ==
  /\ wpc = "copy"
  /\ slot' = [slot EXCEPT ![widx] = [@ EXCEPT ![wnext] = wver]]
  /\ IF wnext = NumPieces
       THEN wpc' = "flip" /\ wnext' = 1
       ELSE wpc' = "copy" /\ wnext' = wnext + 1
  /\ UNCHANGED <<size, readable, active, wver, widx, mapped, readVars, history>>

Flip ==
  /\ wpc = "flip"
  /\ active' = widx
  /\ wpc' = "expose"
  /\ shown' = wver
  /\ phase' = [r \in Readers |->
                 IF phase[r] = "calm" THEN "passed" ELSE phase[r]]
  /\ UNCHANGED <<size, readable, slot, wver, widx, wnext, mapped, readVars, seen, result>>

\* close() and setReadable(true, false).
Expose == /\ wpc = "expose"
          /\ readable' = TRUE
          /\ wpc' = "ready"
          /\ UNCHANGED <<size, active, slot, wver, widx, wnext, mapped, readVars, history>>

\* Mutant: byte 0 is stored in the finally block, after a failed write too.
FlushFailsFlipped == /\ wpc = "copy"
                     /\ wpc' = "ready"
                     /\ active' = widx
                     /\ UNCHANGED <<size, readable, slot, wver, widx, wnext, mapped, readVars, history>>

\* Any call of the file part throws: the file is closed, the error logged.
FlushFails == /\ wpc \in {"size", "choose", "copy", "flip", "expose"}
              /\ wpc' = "ready"
              /\ UNCHANGED <<fileVars, wver, widx, wnext, mapped, readVars, history>>

AppCrash == /\ wpc # "down"
            /\ wpc' = "down"
            /\ UNCHANGED <<fileVars, wver, widx, wnext, mapped, readVars, history>>

Writer == \/ AppStart \/ EnsureCreate \/ EnsureZero \/ EnsureReadable \/ PrepareFails
          \/ BeginFlush \/ SetLength \/ ChooseInactive \/ WritePiece \/ Flip \/ Expose
          \/ FlushFails \/ AppCrash

-----------------------------------------------------------------------------
(* The readers.                                                            *)

\* open() needs the file to exist and to be readable; only Y1Bridge's
\* FileChannel.map refuses a file shorter than the mapping.
MapFile(p) == /\ p \notin mapped
              /\ size # "none" /\ readable
              /\ p = "bridge" => size = "full"
              /\ mapped' = mapped \cup {p}
              /\ UNCHANGED <<fileVars, writerVars, readVars, history>>

LatchActive(r) == /\ rpc[r] = "idle"
                  /\ ProcessOf(r) \in mapped
                  /\ ract' = [ract EXCEPT ![r] = active]
                  /\ rpc' = [rpc EXCEPT ![r] = "copy"]
                  /\ phase' = [phase EXCEPT ![r] = "calm"]
                  /\ seen' = [seen EXCEPT ![r] = slot[active]]
                  /\ UNCHANGED <<fileVars, writerVars, mapped, rnext, rbuf, shown, result>>

\* Mutant: byte 0 is loaded again for every piece.
CopiedReloaded(r) == [rbuf[r] EXCEPT ![rnext[r]] = slot[active][rnext[r]]]

Copied(r) == [rbuf[r] EXCEPT ![rnext[r]] = slot[ract[r]][rnext[r]]]

CopyPiece(r) == /\ rpc[r] = "copy"
                /\ rnext[r] < NumPieces
                /\ rbuf' = [rbuf EXCEPT ![r] = Copied(r)]
                /\ rnext' = [rnext EXCEPT ![r] = @ + 1]
                /\ UNCHANGED <<fileVars, writerVars, mapped, rpc, ract, history>>

CopyLastPiece(r) == /\ rpc[r] = "copy"
                    /\ rnext[r] = NumPieces
                    /\ rbuf' = [rbuf EXCEPT ![r] = Whole(0)]
                    /\ rnext' = [rnext EXCEPT ![r] = 1]
                    /\ rpc' = [rpc EXCEPT ![r] = "idle"]
                    /\ result' = [result EXCEPT ![r] = Copied(r)]
                    /\ phase' = [phase EXCEPT ![r] = "none"]
                    /\ seen' = [seen EXCEPT ![r] = Whole(0)]
                    /\ UNCHANGED <<fileVars, writerVars, mapped, ract, shown>>

\* The process dies: the mapping (a word of .bss, a static field) goes with it.
ReaderDies(p) ==
  /\ p \in mapped
  /\ mapped' = mapped \ {p}
  /\ rpc' = [r \in Readers |-> IF ProcessOf(r) = p THEN "idle" ELSE rpc[r]]
  /\ rnext' = [r \in Readers |-> IF ProcessOf(r) = p THEN 1 ELSE rnext[r]]
  /\ rbuf' = [r \in Readers |-> IF ProcessOf(r) = p THEN Whole(0) ELSE rbuf[r]]
  /\ phase' = [r \in Readers |-> IF ProcessOf(r) = p THEN "none" ELSE phase[r]]
  /\ seen' = [r \in Readers |-> IF ProcessOf(r) = p THEN Whole(0) ELSE seen[r]]
  /\ UNCHANGED <<fileVars, writerVars, ract, shown, result>>

Read(r) == LatchActive(r) \/ CopyPiece(r) \/ CopyLastPiece(r)

Next == \/ Writer
        \/ \E p \in Processes : MapFile(p) \/ ReaderDies(p)
        \/ \E r \in Readers : Read(r)

Spec == Init /\ [][Next]_vars

-----------------------------------------------------------------------------
(* Properties.                                                             *)

\* At any instant slot[file[0]] is the image of the last completed flush, also
\* after failed flushes and after a crash at any step of a flush.
ActiveSlotComplete == slot[active] = Whole(shown)

\* A reader's copy so far is the image that was active when it read byte 0,
\* as long as the writer has not published one image and begun another flush.
IntactUnlessOverrun ==
  \A r \in Readers :
    rpc[r] = "copy" /\ phase[r] # "overrun" =>
      /\ \A p \in 1 .. rnext[r] - 1 : rbuf[r][p] = seen[r][p]
      /\ slot[ract[r]] = seen[r]

\* No process maps the file while it is empty, where the first load would
\* raise SIGBUS: ensureFile makes the file readable only after filling it.
MappedFileIsBacked == mapped # {} => size \notin {"none", "empty"}

\* The writer never stores into the slot that byte 0 names, and never moves
\* byte 0 to a slot with pieces of two flushes.
ActiveSlotUntouched ==
  [][/\ slot'[active] = slot[active]
     /\ active' # active => slot' = slot /\ slot[active'] = Whole(wver)]_vars

Snapshot == INSTANCE TrackInfoSnapshot
              WITH current <- slot[active], flushing <- wpc \in {"copy", "flip"}

\* The double buffer implements the atomic snapshot.
ImplementsSnapshot == Snapshot!Spec
=============================================================================
