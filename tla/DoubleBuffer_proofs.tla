-------------------------- MODULE DoubleBuffer_proofs --------------------------
(***************************************************************************)
(* Proofs about DoubleBuffer for any set of threads, any granularity of    *)
(* the copies and any number of flushes.                                   *)
(***************************************************************************)
EXTENDS DoubleBuffer, TLAPS

Midway == {"copy", "flip"}   \* the writer has chosen its slot and not flipped

\* What the writer has stored so far, and where.
WriterInv ==
  /\ shown <= wver
  /\ wpc \in {"size", "choose"} \cup Midway => shown < wver
  /\ wpc \in Midway => widx = Inactive(active)
  /\ wpc = "copy" => \A p \in 1 .. wnext - 1 : slot[widx][p] = wver
  /\ wpc = "flip" => slot[widx] = Whole(wver)

\* A reader in phase "calm" copies the active slot; in phase "passed" it copies
\* the other one, and the writer is between two flushes.
ReaderInv ==
  \A r \in Readers :
    /\ rpc[r] = "copy" <=> phase[r] # "none"
    /\ rpc[r] = "idle" => rnext[r] = 1
    /\ phase[r] = "calm" => ract[r] = active
    /\ phase[r] = "passed" => ract[r] = Inactive(active) /\ wpc \notin Midway

\* Whoever can open the file, or has mapped it, finds bytes in it.
FileInv == /\ readable \/ mapped # {} => size \in {"legacy", "full"}
           /\ wpc = "create" => size = "none"
           /\ wpc \in {"chmod", "choose", "copy", "flip", "expose"} => size = "full"

\* The inductive invariant.
IInv == /\ TypeOK
        /\ WriterInv
        /\ ActiveSlotComplete
        /\ ReaderInv
        /\ IntactUnlessOverrun
        /\ FileInv

-----------------------------------------------------------------------------

(* Facts about images, the only place where their representation matters.  *)

LEMMA Numbers == /\ 1 \in Pieces /\ NumPieces \in Pieces /\ Pieces \subseteq Nat
                 /\ 0 \in 0 .. MaxFlush
                 /\ \A n \in Pieces : n # NumPieces => n + 1 \in Pieces
  BY BoundsAssumption DEF Pieces

LEMMA WholeIsImage == ASSUME NEW v \in 0 .. MaxFlush
                      PROVE  Whole(v) \in Images
  BY DEF Whole, Images

LEMMA StoreIsImage == ASSUME NEW image \in Images, NEW p \in Pieces,
                             NEW v \in 0 .. MaxFlush
                      PROVE  [image EXCEPT ![p] = v] \in Images
  BY DEF Images

LEMMA PieceOfImage == ASSUME NEW image \in Images, NEW p \in Pieces
                      PROVE  image[p] \in 0 .. MaxFlush
  BY DEF Images

-----------------------------------------------------------------------------

LEMMA InitTypeOK == Init => TypeOK
<1> USE Numbers, WholeIsImage DEF Init, TypeOK
<1> SUFFICES ASSUME Init PROVE TypeOK
  OBVIOUS
<1>1. /\ size \in {"none", "empty", "legacy", "full"}
      /\ readable \in BOOLEAN
      /\ active \in {0, 1}
      /\ slot \in [{0, 1} -> Images]
  OBVIOUS
<1>2. wpc \in WriterPcs /\ wver \in 0 .. MaxFlush /\ widx \in {0, 1} /\ wnext \in Pieces
  BY DEF WriterPcs
<1>3. /\ mapped \in SUBSET Processes
      /\ rpc \in [Readers -> {"idle", "copy"}]
      /\ ract \in [Readers -> {0, 1}]
      /\ rnext \in [Readers -> Pieces]
      /\ rbuf \in [Readers -> Images]
  OBVIOUS
<1>4. /\ shown \in 0 .. MaxFlush
      /\ phase \in [Readers -> Phases]
      /\ seen \in [Readers -> Images]
      /\ result \in [Readers -> Images]
  BY DEF Phases
<1> QED BY <1>1, <1>2, <1>3, <1>4

LEMMA CopiedIsImage == ASSUME TypeOK, NEW r \in Readers
                       PROVE  Copied(r) \in Images
<1> DEFINE v == slot[ract[r]][rnext[r]]
<1>1. slot[ract[r]] \in Images /\ rbuf[r] \in Images /\ rnext[r] \in Pieces
  BY DEF TypeOK
<1>2. v \in 0 .. MaxFlush
  BY <1>1, PieceOfImage
<1> QED BY <1>1, <1>2, StoreIsImage DEF Copied

LEMMA NextTypeOK == TypeOK /\ [Next]_vars => TypeOK'
<1> SUFFICES ASSUME TypeOK, [Next]_vars
             PROVE  TypeOK'
  OBVIOUS
<1> USE DEF fileVars, writerVars, readVars, history
<1>1. CASE AppStart \/ EnsureCreate \/ EnsureZero \/ EnsureReadable \/ PrepareFails
  BY <1>1 DEF AppStart, EnsureCreate, EnsureZero, EnsureReadable, PrepareFails,
              TypeOK, WriterPcs
<1>2. CASE BeginFlush
  <2>1. wver' \in 0 .. MaxFlush
    BY <1>2, BoundsAssumption DEF BeginFlush, TypeOK
  <2> QED BY <1>2, <2>1 DEF BeginFlush, TypeOK, WriterPcs
<1>3. CASE SetLength \/ Expose \/ FlushFails \/ AppCrash
  BY <1>3 DEF SetLength, Expose, FlushFails, AppCrash, TypeOK, WriterPcs
<1>4. CASE ChooseInactive
  BY <1>4, Numbers DEF ChooseInactive, Inactive, TypeOK, WriterPcs, Phases
<1>5. CASE WritePiece
  <2>1. [slot[widx] EXCEPT ![wnext] = wver] \in Images
    BY StoreIsImage DEF TypeOK
  <2>2. slot' \in [{0, 1} -> Images]
    BY <1>5, <2>1 DEF WritePiece, TypeOK
  <2>3. wnext' \in Pieces /\ wpc' \in WriterPcs
    BY <1>5, Numbers DEF WritePiece, TypeOK, WriterPcs
  <2> QED BY <1>5, <2>2, <2>3 DEF WritePiece, TypeOK
<1>6. CASE Flip
  BY <1>6 DEF Flip, TypeOK, WriterPcs, Phases
<1>7. ASSUME NEW p \in Processes, MapFile(p)
      PROVE  TypeOK'
  BY <1>7 DEF MapFile, TypeOK
<1>8. ASSUME NEW p \in Processes, ReaderDies(p)
      PROVE  TypeOK'
  BY <1>8, Numbers, WholeIsImage DEF ReaderDies, TypeOK, Phases
<1>9. ASSUME NEW r \in Readers, LatchActive(r)
      PROVE  TypeOK'
  BY <1>9 DEF LatchActive, TypeOK, Phases
<1>10. ASSUME NEW r \in Readers, CopyPiece(r)
       PROVE  TypeOK'
  <2>1. rnext[r] + 1 \in Pieces
    BY <1>10, BoundsAssumption DEF CopyPiece, TypeOK, Pieces
  <2> QED BY <1>10, <2>1, CopiedIsImage DEF CopyPiece, TypeOK
<1>11. ASSUME NEW r \in Readers, CopyLastPiece(r)
       PROVE  TypeOK'
  BY <1>11, CopiedIsImage, Numbers, WholeIsImage DEF CopyLastPiece, TypeOK, Phases
<1>12. CASE UNCHANGED vars
  BY <1>12 DEF vars, TypeOK
<1> QED
  BY <1>1, <1>2, <1>3, <1>4, <1>5, <1>6, <1>7, <1>8, <1>9, <1>10, <1>11, <1>12
     DEF Next, Writer, Read

\* Every state of DoubleBuffer is well typed.
THEOREM TypeCorrect == Spec => []TypeOK
  BY InitTypeOK, NextTypeOK, PTL DEF Spec

-----------------------------------------------------------------------------
(* The inductive invariant.  Each part is preserved by a step from a state *)
(* that satisfies all of them.                                             *)

LEMMA InitIInv == Init => IInv
<1> SUFFICES ASSUME Init PROVE IInv
  OBVIOUS
<1>1. WriterInv
  BY DEF Init, WriterInv, Midway
<1>2. ActiveSlotComplete
  BY DEF Init, ActiveSlotComplete
<1>3. ReaderInv /\ IntactUnlessOverrun /\ FileInv
  BY DEF Init, ReaderInv, IntactUnlessOverrun, FileInv
<1> QED BY <1>1, <1>2, <1>3, InitTypeOK DEF IInv

\* Steps of the readers leave the writer and the file alone.
ReaderStep == \/ \E p \in Processes : MapFile(p) \/ ReaderDies(p)
              \/ \E r \in Readers : Read(r)

LEMMA ReaderStepFrame == ReaderStep => UNCHANGED <<fileVars, writerVars, shown>>
  BY DEF ReaderStep, Read, MapFile, ReaderDies, LatchActive, CopyPiece, CopyLastPiece,
         fileVars, writerVars, history

\* Steps of the writer leave the readers alone, but for the history of how far
\* it got during their reads.
LEMMA WriterFrame == Writer => UNCHANGED <<mapped, readVars, seen, result>>
  BY DEF Writer, AppStart, EnsureCreate, EnsureZero, EnsureReadable, PrepareFails,
         BeginFlush, SetLength, ChooseInactive, WritePiece, Flip, Expose, FlushFails,
         AppCrash, history, fileVars, writerVars, readVars

\* What the writer's steps may do to the slots and to the active byte.
LEMMA WriterSteps ==
  ASSUME IInv, Writer
  PROVE  \/ Flip
         \/ /\ active' = active /\ shown' = shown
            /\ \/ WritePiece
               \/ slot' = slot
  BY DEF Writer, AppStart, EnsureCreate, EnsureZero, EnsureReadable, PrepareFails,
         BeginFlush, SetLength, ChooseInactive, Expose, FlushFails, AppCrash, WritePiece,
         history, fileVars

LEMMA WritePieceStep ==
  ASSUME IInv, WritePiece
  PROVE  /\ slot'[active] = slot[active]
         /\ slot'[widx] = [slot[widx] EXCEPT ![wnext] = wver]
         /\ active \in {0, 1} /\ widx \in {0, 1} /\ widx # active
<1>1. active \in {0, 1} /\ widx = Inactive(active) /\ slot \in [{0, 1} -> Images]
  BY DEF IInv, TypeOK, WriterInv, WritePiece, Midway
<1>2. widx \in {0, 1} /\ widx # active
  BY <1>1 DEF Inactive
<1> QED BY <1>1, <1>2 DEF WritePiece

LEMMA FlipStep ==
  ASSUME IInv, Flip
  PROVE  /\ active' = widx /\ widx = Inactive(active) /\ active' # active
         /\ slot' = slot /\ slot[widx] = Whole(wver)
         /\ shown < wver /\ shown' = wver
<1>1. widx = Inactive(active) /\ slot[widx] = Whole(wver) /\ shown < wver
  BY DEF IInv, WriterInv, Flip, Midway
<1> QED BY <1>1 DEF Flip, IInv, TypeOK, Inactive

LEMMA NextActiveSlot == IInv /\ [Next]_vars => ActiveSlotComplete'
<1> SUFFICES ASSUME IInv, [Next]_vars PROVE ActiveSlotComplete'
  OBVIOUS
<1> USE DEF ActiveSlotComplete
<1>1. slot[active] = Whole(shown)
  BY DEF IInv
<1>2. CASE Flip
  BY <1>2, FlipStep
<1>3. CASE WritePiece /\ active' = active /\ shown' = shown
  BY <1>1, <1>3, WritePieceStep
<1>4. CASE UNCHANGED <<active, slot, shown>>
  BY <1>1, <1>4
<1>5. CASE ReaderStep
  BY <1>4, <1>5, ReaderStepFrame DEF fileVars
<1>6. CASE UNCHANGED vars
  BY <1>4, <1>6 DEF vars, fileVars, history
<1> QED BY <1>2, <1>3, <1>4, <1>5, <1>6, WriterSteps DEF Next, ReaderStep

LEMMA NextWriterInv == IInv /\ [Next]_vars => WriterInv'
<1> SUFFICES ASSUME IInv, [Next]_vars PROVE WriterInv'
  OBVIOUS
<1> USE DEF WriterInv, Midway
<1>1. TypeOK /\ WriterInv /\ shown \in Nat /\ wver \in Nat
  BY DEF IInv, TypeOK
<1>2. CASE AppStart \/ EnsureCreate \/ EnsureZero \/ EnsureReadable \/ PrepareFails
  BY <1>1, <1>2 DEF AppStart, EnsureCreate, EnsureZero, EnsureReadable, PrepareFails,
     fileVars, history
<1>3. CASE BeginFlush
  BY <1>1, <1>3 DEF BeginFlush, fileVars, history
<1>4. CASE SetLength \/ Expose \/ FlushFails \/ AppCrash
  BY <1>1, <1>4 DEF SetLength, Expose, FlushFails, AppCrash, fileVars, history
<1>5. CASE ChooseInactive
  BY <1>1, <1>5 DEF ChooseInactive, fileVars
<1>6. CASE WritePiece
  <2>1. /\ active' = active /\ widx' = widx /\ wver' = wver /\ shown' = shown
        /\ wpc' \in Midway /\ wpc = "copy" /\ widx = Inactive(active) /\ shown < wver
    BY <1>1, <1>6 DEF WritePiece, history
  <2>2. slot[widx] \in Images /\ wnext \in Pieces
    BY <1>1 DEF TypeOK
  <2>3. \A p \in 1 .. wnext : slot'[widx][p] = wver
    <3>1. slot'[widx] = [slot[widx] EXCEPT ![wnext] = wver]
      BY <1>6, WritePieceStep
    <3>2. \A p \in 1 .. wnext - 1 : slot[widx][p] = wver
      BY <1>1, <2>1
    <3>3. DOMAIN slot[widx] = Pieces
      BY <2>2 DEF Images
    <3> SUFFICES ASSUME NEW p \in 1 .. wnext PROVE slot'[widx][p] = wver
      OBVIOUS
    <3>4. p \in Pieces /\ (p = wnext \/ p \in 1 .. wnext - 1)
      BY <2>2, BoundsAssumption DEF Pieces
    <3> QED BY <3>1, <3>2, <3>3, <3>4
  <2>4. CASE wnext = NumPieces
    <3>1. wpc' = "flip"
      BY <1>6, <2>4 DEF WritePiece
    <3>2. slot'[widx] \in Images
      BY <1>1, <2>2, WritePieceStep, <1>6, StoreIsImage DEF TypeOK
    <3>3. slot'[widx] = Whole(wver)
      BY <2>3, <2>4, <3>2 DEF Images, Whole, Pieces
    <3> QED BY <1>1, <2>1, <3>1, <3>3
  <2>5. CASE wnext # NumPieces
    <3>1. wpc' = "copy" /\ wnext' = wnext + 1
      BY <1>6, <2>5 DEF WritePiece
    <3> QED BY <1>1, <2>1, <2>2, <2>3, <3>1, BoundsAssumption DEF Pieces
  <2> QED BY <2>4, <2>5
<1>7. CASE Flip
  BY <1>1, <1>7, FlipStep DEF Flip
<1>8. CASE ReaderStep
  BY <1>1, <1>8, ReaderStepFrame DEF fileVars, writerVars
<1>9. CASE UNCHANGED vars
  BY <1>1, <1>9 DEF vars, fileVars, writerVars, history
<1> QED
  BY <1>2, <1>3, <1>4, <1>5, <1>6, <1>7, <1>8, <1>9 DEF Next, Writer, ReaderStep

LEMMA NextFileInv == IInv /\ [Next]_vars => FileInv'
<1> SUFFICES ASSUME IInv, [Next]_vars PROVE FileInv'
  OBVIOUS
<1> USE DEF FileInv
<1>1. TypeOK /\ FileInv
  BY DEF IInv
<1>2. CASE Writer
  <2>1. mapped' = mapped
    BY <1>2, WriterFrame
  <2>2. CASE AppStart \/ EnsureCreate \/ EnsureZero \/ EnsureReadable \/ PrepareFails
    BY <1>1, <2>1, <2>2 DEF AppStart, EnsureCreate, EnsureZero, EnsureReadable,
       PrepareFails, fileVars, TypeOK
  <2>3. CASE SetLength \/ Expose
    BY <1>1, <2>1, <2>3 DEF SetLength, Expose, TypeOK
  <2>4. CASE BeginFlush \/ ChooseInactive \/ WritePiece \/ Flip \/ FlushFails \/ AppCrash
    BY <1>1, <2>1, <2>4 DEF BeginFlush, ChooseInactive, WritePiece, Flip, FlushFails,
       AppCrash, fileVars
  <2> QED BY <1>2, <2>2, <2>3, <2>4 DEF Writer
<1>3. CASE ReaderStep
  <2>1. mapped' \subseteq mapped \/ readable
    BY <1>1, <1>3 DEF ReaderStep, MapFile, ReaderDies, Read, LatchActive, CopyPiece,
                CopyLastPiece
  <2> QED BY <1>1, <1>3, <2>1, ReaderStepFrame DEF fileVars, writerVars
<1>4. CASE UNCHANGED vars
  BY <1>1, <1>4 DEF vars, fileVars, writerVars
<1> QED BY <1>2, <1>3, <1>4 DEF Next, ReaderStep

\* A writer step other than choosing a slot and flipping keeps every phase.
LEMMA WriterPhases ==
  ASSUME IInv, Writer
  PROVE  \/ ChooseInactive \/ Flip
         \/ phase' = phase /\ active' = active /\ (wpc' \in Midway => wpc \in Midway)
  BY DEF Writer, AppStart, EnsureCreate, EnsureZero, EnsureReadable, PrepareFails,
         BeginFlush, SetLength, WritePiece, Expose, FlushFails, AppCrash, history,
         fileVars, Midway

LEMMA NextReaderInv == IInv /\ [Next]_vars => ReaderInv'
<1> SUFFICES ASSUME IInv, [Next]_vars, NEW q \in Readers
             PROVE  /\ rpc'[q] = "copy" <=> phase'[q] # "none"
                    /\ rpc'[q] = "idle" => rnext'[q] = 1
                    /\ phase'[q] = "calm" => ract'[q] = active'
                    /\ phase'[q] = "passed" => /\ ract'[q] = Inactive(active')
                                               /\ wpc' \notin Midway
  BY DEF ReaderInv
<1>1. /\ TypeOK /\ phase \in [Readers -> Phases] /\ active \in {0, 1}
      /\ rpc \in [Readers -> {"idle", "copy"}] /\ ract \in [Readers -> {0, 1}]
      /\ rnext \in [Readers -> Pieces]
  BY DEF IInv, TypeOK
<1>2. /\ rpc[q] = "copy" <=> phase[q] # "none"
      /\ rpc[q] = "idle" => rnext[q] = 1
      /\ phase[q] = "calm" => ract[q] = active
      /\ phase[q] = "passed" => ract[q] = Inactive(active) /\ wpc \notin Midway
  BY DEF IInv, ReaderInv
<1>3. CASE Writer
  <2>1. rpc' = rpc /\ ract' = ract /\ rnext' = rnext
    BY <1>3, WriterFrame DEF readVars
  <2>2. CASE ChooseInactive
    BY <1>1, <1>2, <2>1, <2>2 DEF ChooseInactive, fileVars
  <2>3. CASE Flip
    BY <1>1, <1>2, <2>1, <2>3, FlipStep DEF Flip, Midway, Inactive
  <2> QED BY <1>2, <1>3, <2>1, <2>2, <2>3, WriterPhases
<1>4. CASE ReaderStep
  <2>1. active' = active /\ wpc' = wpc
    BY <1>4, ReaderStepFrame DEF fileVars, writerVars
  <2>2. ASSUME NEW p \in Processes, MapFile(p)
        PROVE  UNCHANGED <<rpc, ract, rnext, phase>>
    BY <2>2 DEF MapFile, readVars, history
  <2>3. ASSUME NEW p \in Processes, ReaderDies(p)
        PROVE  /\ ract' = ract
               /\ \/ rpc'[q] = "idle" /\ phase'[q] = "none" /\ rnext'[q] = 1
                  \/ rpc'[q] = rpc[q] /\ phase'[q] = phase[q] /\ rnext'[q] = rnext[q]
    BY <2>3 DEF ReaderDies
  <2>4. ASSUME NEW r \in Readers, LatchActive(r)
        PROVE  \/ q = r /\ rpc'[q] = "copy" /\ phase'[q] = "calm" /\ ract'[q] = active
               \/ /\ rpc'[q] = rpc[q] /\ phase'[q] = phase[q]
                  /\ ract'[q] = ract[q] /\ rnext'[q] = rnext[q]
    BY <1>1, <2>4 DEF LatchActive
  <2>5. ASSUME NEW r \in Readers, CopyPiece(r)
        PROVE  UNCHANGED <<rpc, ract, phase>> /\ rpc[r] = "copy" /\
               \A s \in Readers \ {r} : rnext'[s] = rnext[s]
    BY <1>1, <2>5 DEF CopyPiece, history
  <2>6. ASSUME NEW r \in Readers, CopyLastPiece(r)
        PROVE  /\ ract' = ract
               /\ \/ rpc'[q] = "idle" /\ phase'[q] = "none" /\ rnext'[q] = 1
                  \/ rpc'[q] = rpc[q] /\ phase'[q] = phase[q] /\ rnext'[q] = rnext[q]
    BY <1>1, <2>6 DEF CopyLastPiece
  <2> QED BY <1>2, <1>4, <2>1, <2>2, <2>3, <2>4, <2>5, <2>6 DEF ReaderStep, Read
<1>5. CASE UNCHANGED vars
  BY <1>2, <1>5 DEF vars, fileVars, writerVars, readVars, history
<1> QED BY <1>3, <1>4, <1>5 DEF Next, ReaderStep

\* While a reader has not been overrun, no step of the writer stores into the
\* slot it copies.
LEMMA CopiedSlotUntouched ==
  ASSUME IInv, Writer, NEW q \in Readers, rpc[q] = "copy", phase'[q] # "overrun"
  PROVE  phase[q] # "overrun" /\ slot'[ract[q]] = slot[ract[q]]
<1>1. phase \in [Readers -> Phases] /\ active \in {0, 1} /\ slot \in [{0, 1} -> Images]
  BY DEF IInv, TypeOK
<1>2. phase[q] # "overrun"
  <2>1. CASE ChooseInactive
    BY <2>1 DEF ChooseInactive
  <2>2. CASE Flip
    BY <2>2 DEF Flip
  <2>3. CASE phase' = phase
    BY <2>3
  <2> QED BY <2>1, <2>2, <2>3, WriterPhases
<1>3. \/ phase[q] = "calm" /\ ract[q] = active
      \/ phase[q] = "passed" /\ wpc \notin Midway
  <2>1. /\ phase[q] # "none"
        /\ phase[q] = "calm" => ract[q] = active
        /\ phase[q] = "passed" => wpc \notin Midway
    BY DEF IInv, ReaderInv
  <2>2. phase[q] \in {"calm", "passed"}
    BY <1>1, <1>2, <2>1 DEF Phases
  <2> QED BY <2>1, <2>2
<1>4. CASE WritePiece
  <2>1. ract[q] = active
    BY <1>3, <1>4 DEF WritePiece, Midway
  <2> QED BY <1>2, <1>4, <2>1, WritePieceStep
<1>5. CASE slot' = slot
  BY <1>2, <1>5
<1> QED BY <1>4, <1>5, WriterSteps, FlipStep

LEMMA NextIntact == IInv /\ [Next]_vars => IntactUnlessOverrun'
<1> SUFFICES ASSUME IInv, [Next]_vars, NEW q \in Readers,
                    rpc'[q] = "copy", phase'[q] # "overrun"
             PROVE  /\ \A p \in 1 .. rnext'[q] - 1 : rbuf'[q][p] = seen'[q][p]
                    /\ slot'[ract'[q]] = seen'[q]
  BY DEF IntactUnlessOverrun
<1>1. /\ rpc \in [Readers -> {"idle", "copy"}] /\ ract \in [Readers -> {0, 1}]
      /\ rnext \in [Readers -> Pieces] /\ rbuf \in [Readers -> Images]
      /\ phase \in [Readers -> Phases] /\ seen \in [Readers -> Images]
  BY DEF IInv, TypeOK
<1>2. rpc[q] = "copy" /\ phase[q] # "overrun" =>
        /\ \A p \in 1 .. rnext[q] - 1 : rbuf[q][p] = seen[q][p]
        /\ slot[ract[q]] = seen[q]
  BY DEF IInv, IntactUnlessOverrun
<1>3. CASE Writer
  <2>1. UNCHANGED <<rpc, ract, rnext, rbuf, seen>>
    BY <1>3, WriterFrame DEF readVars
  <2> QED BY <1>2, <1>3, <2>1, CopiedSlotUntouched
<1>4. CASE ReaderStep
  <2>1. slot' = slot /\ active' = active
    BY <1>4, ReaderStepFrame DEF fileVars
  <2>2. CASE /\ rpc[q] = "copy" /\ phase[q] # "overrun" /\ ract'[q] = ract[q]
             /\ rnext'[q] = rnext[q] /\ rbuf'[q] = rbuf[q] /\ seen'[q] = seen[q]
    BY <1>2, <2>1, <2>2
  <2>3. ASSUME NEW p \in Processes, MapFile(p) \/ ReaderDies(p)
        PROVE  /\ rpc[q] = "copy" /\ phase[q] # "overrun" /\ ract'[q] = ract[q]
               /\ rnext'[q] = rnext[q] /\ rbuf'[q] = rbuf[q] /\ seen'[q] = seen[q]
    BY <2>3 DEF MapFile, ReaderDies, readVars, history
  <2>4. ASSUME NEW r \in Readers, r # q, Read(r)
        PROVE  /\ rpc[q] = "copy" /\ phase[q] # "overrun" /\ ract'[q] = ract[q]
               /\ rnext'[q] = rnext[q] /\ rbuf'[q] = rbuf[q] /\ seen'[q] = seen[q]
    BY <1>1, <2>4 DEF Read, LatchActive, CopyPiece, CopyLastPiece, history
  <2>5. CASE LatchActive(q)
    <3>1. rpc[q] = "idle" /\ ract'[q] = active /\ rnext' = rnext /\ rbuf' = rbuf
          /\ seen'[q] = slot[active]
      BY <1>1, <2>5 DEF LatchActive
    <3>2. rnext[q] = 1
      BY <3>1 DEF IInv, ReaderInv
    <3> QED BY <2>1, <3>1, <3>2
  <2>6. CASE CopyPiece(q)
    <3>1. /\ rpc[q] = "copy" /\ ract' = ract /\ seen' = seen /\ phase' = phase
          /\ rnext'[q] = rnext[q] + 1
          /\ rbuf'[q] = [rbuf[q] EXCEPT ![rnext[q]] = slot[ract[q]][rnext[q]]]
      BY <1>1, <2>6 DEF CopyPiece, history, Copied
    <3>2. DOMAIN rbuf[q] = Pieces /\ rnext[q] \in Pieces
      BY <1>1 DEF Images
    <3>3. slot[ract[q]] = seen[q] /\ \A p \in 1 .. rnext[q] - 1 : rbuf[q][p] = seen[q][p]
      BY <1>2, <3>1
    <3>4. ASSUME NEW p \in 1 .. rnext'[q] - 1
          PROVE  rbuf'[q][p] = seen'[q][p]
      <4>1. p \in Pieces /\ (p = rnext[q] \/ p \in 1 .. rnext[q] - 1)
        BY <3>1, <3>2, BoundsAssumption DEF Pieces
      <4> QED BY <3>1, <3>2, <3>3, <4>1
    <3> QED BY <2>1, <3>1, <3>3, <3>4
  <2>7. CASE CopyLastPiece(q)
    BY <1>1, <2>7 DEF CopyLastPiece
  <2> QED BY <1>4, <2>2, <2>3, <2>4, <2>5, <2>6, <2>7 DEF ReaderStep, Read
<1>5. CASE UNCHANGED vars
  BY <1>2, <1>5 DEF vars, fileVars, readVars, history
<1> QED BY <1>3, <1>4, <1>5 DEF Next, ReaderStep

LEMMA IInvInvariant == Spec => []IInv
<1>1. IInv /\ [Next]_vars => IInv'
  BY NextTypeOK, NextWriterInv, NextActiveSlot, NextReaderInv, NextIntact, NextFileInv
     DEF IInv
<1> QED BY <1>1, InitIInv, PTL DEF Spec

-----------------------------------------------------------------------------

\* At any instant byte 0 of y1-track-info names a slot with all the pieces of
\* the last completed flush.
THEOREM PublishedComplete == Spec => []ActiveSlotComplete
  BY IInvInvariant, PTL DEF IInv

\* A read during which the writer has not published an image and begun another
\* flush copies the image that was active when the read began.
THEOREM ReadsIntact == Spec => []IntactUnlessOverrun
  BY IInvInvariant, PTL DEF IInv

\* No reading process has an empty file mapped.
THEOREM FileBacked == Spec => []MappedFileIsBacked
<1>1. IInv => MappedFileIsBacked
  BY DEF IInv, FileInv, MappedFileIsBacked
<1> QED BY <1>1, IInvInvariant, PTL

\* No step stores into the slot that byte 0 names, and byte 0 only moves to a
\* slot that holds all the pieces of the flush that moves it.
THEOREM ActiveSlotStable == Spec => ActiveSlotUntouched
<1>1. ASSUME IInv, [Next]_vars
      PROVE  /\ slot'[active] = slot[active]
             /\ active' # active => slot' = slot /\ slot[active'] = Whole(wver)
  <2>1. CASE Flip
    BY <1>1, <2>1, FlipStep
  <2>2. CASE WritePiece /\ active' = active
    BY <1>1, <2>2, WritePieceStep
  <2>3. CASE active' = active /\ slot' = slot
    BY <2>3
  <2>4. CASE Writer
    BY <1>1, <2>1, <2>2, <2>3, <2>4, WriterSteps
  <2>5. CASE ReaderStep
    BY <2>3, <2>5, ReaderStepFrame DEF fileVars
  <2>6. CASE UNCHANGED vars
    BY <2>3, <2>6 DEF vars, fileVars
  <2> QED BY <1>1, <2>4, <2>5, <2>6 DEF Next, ReaderStep
<1> QED BY <1>1, IInvInvariant, PTL DEF Spec, ActiveSlotUntouched

-----------------------------------------------------------------------------
(* The double buffer implements the atomic snapshot.                       *)

LEMMA SnapshotInit == Init => Snapshot!Init
  BY DEF Init, Snapshot!Init, Snapshot!Whole, Snapshot!Pieces, Whole, Pieces

\* A step of the writer begins, abandons or publishes a flush, or stutters.
LEMMA SnapshotWriter ==
  ASSUME IInv, Writer
  PROVE  \/ Snapshot!BeginFlush \/ Snapshot!Abandon \/ Snapshot!Publish
         \/ UNCHANGED Snapshot!vars
<1> USE DEF Snapshot!vars
<1>1. UNCHANGED <<seen, result>>
  BY WriterFrame
<1>2. CASE ChooseInactive
  BY <1>1, <1>2 DEF ChooseInactive, Snapshot!BeginFlush, fileVars
<1>3. CASE Flip
  <2>1. slot'[active'] = Whole(wver) /\ slot[active] = Whole(shown) /\ shown < wver
    BY <1>3, FlipStep DEF IInv, ActiveSlotComplete
  <2>2. shown \in Nat /\ wver \in 0 .. MaxFlush
    BY DEF IInv, TypeOK
  <2>3. wver \in 1 .. MaxFlush /\ \A p \in Pieces : slot[active][p] < wver
    BY <2>1, <2>2 DEF Whole
  <2>4. slot'[active'] = Snapshot!Whole(wver)
    BY <2>1 DEF Whole, Snapshot!Whole, Pieces, Snapshot!Pieces
  <2>5. Snapshot!Publish
    BY <1>1, <1>3, <2>3, <2>4 DEF Flip, Snapshot!Publish, Pieces, Snapshot!Pieces
  <2> QED BY <2>5
<1>4. CASE \/ AppStart \/ EnsureCreate \/ EnsureZero \/ EnsureReadable \/ PrepareFails
           \/ BeginFlush \/ SetLength \/ Expose
  <2>1. UNCHANGED <<slot, active, phase>> /\ wpc \notin Midway /\ wpc' \notin Midway
    BY <1>4 DEF AppStart, EnsureCreate, EnsureZero, EnsureReadable, PrepareFails,
       BeginFlush, SetLength, Expose, fileVars, history, Midway
  <2> QED BY <1>1, <2>1 DEF Midway
<1>5. CASE WritePiece
  <2>1. slot'[active'] = slot[active] /\ phase' = phase
    BY <1>5, WritePieceStep DEF WritePiece, history
  <2>2. wpc \in Midway /\ wpc' \in Midway
    BY <1>5 DEF WritePiece, Midway
  <2> QED BY <1>1, <2>1, <2>2 DEF Midway
<1>6. CASE FlushFails \/ AppCrash
  <2>1. UNCHANGED <<slot, active, phase>> /\ wpc' \notin Midway
    BY <1>6 DEF FlushFails, AppCrash, fileVars, history, Midway
  <2> QED BY <1>1, <2>1 DEF Midway, Snapshot!Abandon
<1> QED BY <1>2, <1>3, <1>4, <1>5, <1>6 DEF Writer

\* A step of a reader begins, ends or drops a read, or stutters.
LEMMA SnapshotReader ==
  ASSUME IInv, ReaderStep
  PROVE  \/ Snapshot!DropReads
         \/ \E r \in Readers : Snapshot!BeginRead(r) \/ Snapshot!EndRead(r)
         \/ UNCHANGED Snapshot!vars
<1> USE DEF Snapshot!vars
<1>1. UNCHANGED <<slot, active, wpc, shown>>
  BY ReaderStepFrame DEF fileVars, writerVars
<1>2. Snapshot!Whole(0) = Whole(0) /\ Snapshot!Images = Images
  BY DEF Whole, Images, Pieces, Snapshot!Whole, Snapshot!Images, Snapshot!Pieces
<1>3. ASSUME NEW p \in Processes, MapFile(p)
      PROVE  UNCHANGED Snapshot!vars
  BY <1>1, <1>3 DEF MapFile, history
<1>4. ASSUME NEW p \in Processes, ReaderDies(p)
      PROVE  Snapshot!DropReads
  <2> DEFINE R == {r \in Readers : ProcessOf(r) = p}
  <2>1. /\ phase' = [r \in Readers |-> IF r \in R THEN "none" ELSE phase[r]]
        /\ seen' = [r \in Readers |-> IF r \in R THEN Whole(0) ELSE seen[r]]
        /\ result' = result
    BY <1>4 DEF ReaderDies
  <2>2. R \in SUBSET Readers
    OBVIOUS
  <2> QED BY <1>1, <1>2, <2>1, <2>2 DEF Snapshot!DropReads
<1>5. ASSUME NEW r \in Readers, LatchActive(r)
      PROVE  Snapshot!BeginRead(r)
  <2>1. phase[r] = "none"
    BY <1>5 DEF LatchActive, IInv, ReaderInv
  <2> QED BY <1>1, <1>5, <2>1 DEF LatchActive, Snapshot!BeginRead
<1>6. ASSUME NEW r \in Readers, CopyPiece(r)
      PROVE  UNCHANGED Snapshot!vars
  BY <1>1, <1>6 DEF CopyPiece, history
<1>7. ASSUME NEW r \in Readers, CopyLastPiece(r)
      PROVE  Snapshot!EndRead(r)
  <2>1. rpc[r] = "copy" /\ rnext[r] = NumPieces /\ phase[r] # "none"
    BY <1>7 DEF CopyLastPiece, IInv, ReaderInv
  <2>2. Copied(r) \in Images /\ rbuf[r] \in Images /\ seen[r] \in Images
    BY CopiedIsImage DEF IInv, TypeOK
  <2>3. ASSUME phase[r] # "overrun"
        PROVE  Copied(r) = seen[r]
    <3>1. /\ \A p \in 1 .. NumPieces - 1 : rbuf[r][p] = seen[r][p]
          /\ slot[ract[r]] = seen[r]
      BY <2>1, <2>3 DEF IInv, IntactUnlessOverrun
    <3>2. \A p \in Pieces : Copied(r)[p] = seen[r][p]
      BY <2>1, <2>2, <3>1, BoundsAssumption DEF Copied, Images, Pieces
    <3> QED BY <2>2, <3>2 DEF Images
  <2> QED BY <1>1, <1>2, <1>7, <2>1, <2>2, <2>3 DEF CopyLastPiece, Snapshot!EndRead
<1> QED BY <1>3, <1>4, <1>5, <1>6, <1>7 DEF ReaderStep, Read

\* Seen through byte 0, the file is an atomic snapshot: it changes in one step
\* from one flush's image to a later one's, and a read that is not overrun
\* returns the image that was current when it began.
THEOREM DoubleBufferImplementsSnapshot == Spec => ImplementsSnapshot
<1>1. IInv /\ [Next]_vars => [Snapshot!Next]_(Snapshot!vars)
  <2> SUFFICES ASSUME IInv, [Next]_vars
               PROVE  [Snapshot!Next]_(Snapshot!vars)
    OBVIOUS
  <2>1. CASE UNCHANGED vars
    BY <2>1 DEF vars, fileVars, writerVars, history, Snapshot!vars
  <2>2. CASE Writer \/ ReaderStep
    BY <2>2, SnapshotWriter, SnapshotReader DEF Snapshot!Next
  <2> QED BY <2>1, <2>2 DEF Next, ReaderStep
<1> QED BY <1>1, SnapshotInit, IInvInvariant, PTL
        DEF Spec, ImplementsSnapshot, Snapshot!Spec
=============================================================================
