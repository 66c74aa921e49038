------------------------------- MODULE Thumb2 -------------------------------
(***************************************************************************)
(* The instruction encodings of src/patches/_thumb2asm.py, and the         *)
(* architecture's reading of them.  An instruction is a sequence of one or *)
(* two halfwords.  The first part is what the methods of Asm compute, the  *)
(* second what an ARMv7 core does with the result (written from the bit    *)
(* layouts, and in the other direction: fields first, then the operands).  *)
(***************************************************************************)
EXTENDS Integers, Sequences

\* The field of v that starts at bit value lo and has `size' values:
\* (v >> n) & (2^w - 1) with lo = 2^n and size = 2^w.
Bits(v, lo, size) == (v \div lo) % size
Xor(a, b) == (a + b) % 2
Align4(a) == a - (a % 4)
Bit22 == 4194304
Bit23 == 8388608
Bit24 == 16777216
Bit25 == 33554432
IsHalfword(hw) == hw \in Nat /\ hw <= 65535

-----------------------------------------------------------------------------
(* Instructions without a label.  A row is one method: its opcode and the  *)
(* largest operands that its _check admits.                                *)

Row(hw, max) == [hw |-> hw, max |-> max]
NarrowMethods == [
  movs_imm8  |-> Row(<<\h2000>>, <<7, 255>>),
  cmp_imm8   |-> Row(<<\h2800>>, <<7, 255>>),
  add_sp_imm |-> Row(<<\hA800>>, <<7, 1020>>),
  str_sp_imm |-> Row(<<\h9000>>, <<7, 1020>>),
  ldr_sp_imm |-> Row(<<\h9800>>, <<7, 1020>>),
  mov_lo_lo  |-> Row(<<\h4600>>, <<15, 15>>),
  add_reg    |-> Row(<<\h4400>>, <<15, 15>>),
  bx         |-> Row(<<\h4700>>, <<15>>),
  svc        |-> Row(<<\hDF00>>, <<255>>),
  rev_lo_lo  |-> Row(<<\hBA00>>, <<7, 7>>),
  muls_lo_lo |-> Row(<<\h4340>>, <<7, 7>>),
  ldrb_reg   |-> Row(<<\h5C00>>, <<7, 7, 7>>),
  adds_lo_lo |-> Row(<<\h1800>>, <<7, 7, 7>>),
  subs_lo_lo |-> Row(<<\h1A00>>, <<7, 7, 7>>),
  lsrs_imm5  |-> Row(<<\h0800>>, <<7, 7, 31>>),
  lsls_imm5  |-> Row(<<\h0000>>, <<7, 7, 31>>)]
WideMethods == [
  ldrb_w     |-> Row(<<\hF890, 0>>, <<14, 14, 4095>>),
  ldrh_w     |-> Row(<<\hF8B0, 0>>, <<14, 14, 4095>>),
  ldr_w      |-> Row(<<\hF8D0, 0>>, <<14, 14, 4095>>),
  strb_w     |-> Row(<<\hF880, 0>>, <<14, 14, 4095>>),
  addw       |-> Row(<<\hF200, 0>>, <<14, 15, 4095>>),
  subw       |-> Row(<<\hF2A0, 0>>, <<14, 15, 4095>>),
  add_imm_t3 |-> Row(<<\hF100, 0>>, <<14, 14, 255, 1>>),
  cmp_w      |-> Row(<<\hEBB0, \h0F00>>, <<14, 14>>),
  movw       |-> Row(<<\hF240, 0>>, <<14, 65535>>),
  movt       |-> Row(<<\hF2C0, 0>>, <<14, 65535>>),
  umull      |-> Row(<<\hFBA0, 0>>, <<12, 12, 12, 12>>),
  mvn_imm    |-> Row(<<\hF06F, 0>>, <<14, 0>>)]
Methods == [op \in DOMAIN NarrowMethods \cup DOMAIN WideMethods |->
              IF op \in DOMAIN NarrowMethods THEN NarrowMethods[op] ELSE WideMethods[op]]
SpMethods == {"add_sp_imm", "str_sp_imm", "ldr_sp_imm"}

\* The _check of a method (umull wants two registers, add_imm_t3 checks the
\* immediate only).
Admits(op, args) ==
  /\ op = "add_imm_t3" \/ \A k \in DOMAIN args : args[k] \in 0..Methods[op].max[k]
  /\ op \in SpMethods => args[2] % 4 = 0
  /\ op = "umull" => args[1] # args[2]
  /\ op = "add_imm_t3" => args[3] \in 0..255

\* How many times a method calls _hw.
Halfwords(op) == IF op \in DOMAIN NarrowMethods THEN 1 ELSE 2

\* Mutant: bit 11 of the immediate is lost.
ImmHighLost(v) == 0
\* i, and imm3 and imm8, of an immediate of 12 bits (of the low 12 of 16).
ImmHigh(v) == 1024 * Bits(v, 2048, 2)
ImmLow(v) == 4096 * Bits(v, 256, 8) + Bits(v, 1, 256)
\* What a method puts into the opcode's halfwords for its operands a.
OperandBits(op, a) ==
  CASE op \in {"movs_imm8", "cmp_imm8"} -> <<256 * a[1] + a[2]>>
    [] op \in SpMethods -> <<256 * a[1] + (a[2] \div 4)>>
    [] op \in {"mov_lo_lo", "add_reg"} -> <<128 * Bits(a[1], 8, 2) + 8 * a[2] + Bits(a[1], 1, 8)>>
    [] op = "bx" -> <<8 * a[1]>>
    [] op = "svc" -> <<a[1]>>
    [] op \in {"rev_lo_lo", "muls_lo_lo"} -> <<8 * a[2] + a[1]>>
    [] op \in {"ldrb_reg", "adds_lo_lo", "subs_lo_lo", "lsrs_imm5", "lsls_imm5"} -> <<64 * a[3] + 8 * a[2] + a[1]>>
    [] op \in {"ldrb_w", "ldrh_w", "ldr_w", "strb_w"} -> <<a[2], 4096 * a[1] + a[3]>>
    [] op \in {"addw", "subw"} -> <<ImmHigh(a[3]) + a[2], 256 * a[1] + ImmLow(a[3])>>
    [] op = "add_imm_t3" -> <<16 * a[4] + a[2], 256 * a[1] + a[3]>>
    [] op = "cmp_w" -> <<a[1], a[2]>>
    [] op \in {"movw", "movt"} -> <<ImmHigh(a[2]) + Bits(a[2], 4096, 16), 256 * a[1] + ImmLow(a[2])>>
    [] op = "umull" -> <<a[3], 4096 * a[1] + 256 * a[2] + a[4]>>
    [] op = "mvn_imm" -> <<0, 256 * a[1]>>
Encode(op, args) == [h \in 1..Halfwords(op) |-> Methods[op].hw[h] + OperandBits(op, args)[h]]

-----------------------------------------------------------------------------
(* Instructions with a label: op, then the offset that resolve() finds.    *)

\* bcond: the condition of each short method, and the condition under which
\* the wide ones skip their b.w.
ShortCond == [beq |-> 0, bne |-> 1, bcs |-> 2, bhs |-> 2, bcc |-> 3, blo |-> 3, bhi |-> 8,
              bls |-> 9, bge |-> 10, blt |-> 11, bgt |-> 12, ble |-> 13]
\* Mutant: blt and bge keep their own condition.
WideSkipOwn == [beq_w |-> 1, bne_w |-> 0, blt_w |-> 11, bge_w |-> 10, bgt_w |-> 13, ble_w |-> 12,
                bhi_w |-> 9, bhs_w |-> 3]
WideSkip == [beq_w |-> 1, bne_w |-> 0, blt_w |-> 10, bge_w |-> 11, bgt_w |-> 13, ble_w |-> 12,
             bhi_w |-> 9, bhs_w |-> 3]

InShort(off) == -256 <= off /\ off <= 254 /\ off % 2 = 0
EncodeShort(cond, off) == <<\hD000 + 256 * cond + Bits(off, 2, 256)>>

\* _encode_t4_branch
InT4(kind, off) == -Bit24 <= off /\ off < Bit24 /\ (kind = "blx" => off % 2 = 0)
\* Mutant: imm10 without its mask.
EncodeT4Unmasked(kind, off) ==
  LET u == IF off < 0 THEN off + Bit25 ELSE off
  IN  <<\hF000 + (u \div 4096), \h9000 + Bits(u, 2, 2048)>>
EncodeT4(kind, off) ==
  LET u == IF off < 0 THEN off + Bit25 ELSE off
      s == Bits(u, Bit24, 2)
      j1 == Xor(1 - Bits(u, Bit23, 2), s)
      j2 == Xor(1 - Bits(u, Bit22, 2), s)
      op == CASE kind = "b" -> \h9000 [] kind = "bl" -> \hD000 [] kind = "blx" -> \hC000
      low == IF kind = "blx" THEN 2 * Bits(u, 4, 1024) ELSE Bits(u, 2, 2048)
  IN  <<\hF000 + 1024 * s + Bits(u, 4096, 1024), op + 8192 * j1 + 2048 * j2 + low>>

\* adr_w (ADD and SUB form) and ldr_lit_w (with the U bit)
InLiteral(off) == -4095 <= off /\ off <= 4095
EncodeAdr(rd, off) ==
  LET imm == IF off >= 0 THEN off ELSE -off
      op == IF off >= 0 THEN \hF20F ELSE \hF2AF
  IN  <<op + 1024 * Bits(imm, 2048, 2), 4096 * Bits(imm, 256, 8) + 256 * rd + Bits(imm, 1, 256)>>
EncodeLdrLit(rt, off) ==
  LET imm == IF off >= 0 THEN off ELSE -off
  IN  <<\hF85F + (IF off >= 0 THEN 128 ELSE 0), 4096 * rt + imm>>

-----------------------------------------------------------------------------
(* The architecture: the layout of each instruction from its highest bit   *)
(* down, as fixed bits Is(size, value) or operand bits Of(size, operand,   *)
(* weight); size is the number of values of the field.                     *)

Is(size, value) == [size |-> size, is |-> value, k |-> 0, weight |-> 0]
Of(size, k, weight) == [size |-> size, is |-> 0, k |-> k, weight |-> weight]
R3(k) == Of(8, k, 1)
R4(k) == Of(16, k, 1)
Mem(bits) == <<<<Is(512, 497), Is(8, bits), R4(2)>>, <<R4(1), Of(4096, 3, 1)>>>>
Wide12(bits) == <<<<Is(32, 30), Of(2, 3, 2048), Is(64, bits), R4(2)>>,
                  <<Is(2, 0), Of(8, 3, 256), R4(1), Of(256, 3, 1)>>>>
Wide16(bits) == <<<<Is(32, 30), Of(2, 2, 2048), Is(64, bits), Of(16, 2, 4096)>>,
                  <<Is(2, 0), Of(8, 2, 256), R4(1), Of(256, 2, 1)>>>>

Layouts == [
  movs_imm8  |-> <<<<Is(32, 4), R3(1), Of(256, 2, 1)>>>>,
  cmp_imm8   |-> <<<<Is(32, 5), R3(1), Of(256, 2, 1)>>>>,
  add_sp_imm |-> <<<<Is(32, 21), R3(1), Of(256, 2, 4)>>>>,
  str_sp_imm |-> <<<<Is(32, 18), R3(1), Of(256, 2, 4)>>>>,
  ldr_sp_imm |-> <<<<Is(32, 19), R3(1), Of(256, 2, 4)>>>>,
  mov_lo_lo  |-> <<<<Is(256, 70), Of(2, 1, 8), R4(2), R3(1)>>>>,
  add_reg    |-> <<<<Is(256, 68), Of(2, 1, 8), R4(2), R3(1)>>>>,
  bx         |-> <<<<Is(512, 142), R4(1), Is(8, 0)>>>>,
  svc        |-> <<<<Is(256, 223), Of(256, 1, 1)>>>>,
  rev_lo_lo  |-> <<<<Is(1024, 744), R3(2), R3(1)>>>>,
  muls_lo_lo |-> <<<<Is(1024, 269), R3(2), R3(1)>>>>,
  ldrb_reg   |-> <<<<Is(128, 46), R3(3), R3(2), R3(1)>>>>,
  adds_lo_lo |-> <<<<Is(128, 12), R3(3), R3(2), R3(1)>>>>,
  subs_lo_lo |-> <<<<Is(128, 13), R3(3), R3(2), R3(1)>>>>,
  lsrs_imm5  |-> <<<<Is(32, 1), Of(32, 3, 1), R3(2), R3(1)>>>>,
  lsls_imm5  |-> <<<<Is(32, 0), Of(32, 3, 1), R3(2), R3(1)>>>>,
  strb_w     |-> Mem(0),
  ldrb_w     |-> Mem(1),
  ldrh_w     |-> Mem(3),
  ldr_w      |-> Mem(5),
  addw       |-> Wide12(32),
  subw       |-> Wide12(42),
  add_imm_t3 |-> <<<<Is(2048, 1928), Of(2, 4, 1), R4(2)>>, <<Is(16, 0), R4(1), Of(256, 3, 1)>>>>,
  cmp_w      |-> <<<<Is(4096, 3771), R4(1)>>, <<Is(4096, 240), R4(2)>>>>,
  movw       |-> Wide16(36),
  movt       |-> Wide16(44),
  umull      |-> <<<<Is(4096, 4026), R4(3)>>, <<R4(1), R4(2), Is(16, 0), R4(4)>>>>,
  mvn_imm    |-> <<<<Is(65536, 61551)>>, <<Is(16, 0), R4(1), Is(256, 0)>>>>]
\* The value at which a field of a halfword's layout l starts: the fields
\* behind it, of which there are at most three, are lower.
Size(l, j) == IF j \in DOMAIN l THEN l[j].size ELSE 1
Low(l, j) == Size(l, j + 1) * Size(l, j + 2) * Size(l, j + 3)
Field(hw, l, j) == Bits(hw, Low(l, j), l[j].size)
Matches(hws, op) ==
  /\ DOMAIN hws = DOMAIN Layouts[op]
  /\ \A h \in DOMAIN hws : \A j \in DOMAIN Layouts[op][h] :
       Layouts[op][h][j].k = 0 => Field(hws[h], Layouts[op][h], j) = Layouts[op][h][j].is
\* What a field, a halfword, and both contribute to operand k.
Share(hw, l, j, k) == IF j \in DOMAIN l /\ l[j].k = k THEN Field(hw, l, j) * l[j].weight ELSE 0
Shares(hw, l, k) == Share(hw, l, 1, k) + Share(hw, l, 2, k) + Share(hw, l, 3, k) + Share(hw, l, 4, k)
Operand(hws, op, k) ==
  Shares(hws[1], Layouts[op][1], k) + (IF 2 \in DOMAIN hws THEN Shares(hws[2], Layouts[op][2], k) ELSE 0)

\* The instructions a core may take the halfwords for.
Decoded(hws) ==
  {<<op, [k \in DOMAIN Methods[op].max |-> Operand(hws, op, k)]>> :
     op \in {o \in DOMAIN Layouts : Matches(hws, o)}}

\* A first halfword from 0xE800 on says that a second follows.
Announced(hw) == IF hw >= \hE800 THEN 2 ELSE 1

Signed(v, size) == IF 2 * v >= size THEN v - size ELSE v
ShortOffset(hw) == Signed(Bits(hw, 1, 256) * 2, 512)
T4Value(s, i1, i2, imm10, imm11) == Bit24 * s + Bit23 * i1 + Bit22 * i2 + 4096 * imm10 + 2 * imm11
T4Offset(h1, h2) ==
  LET s == Bits(h1, 1024, 2)
      i1 == 1 - Xor(Bits(h2, 8192, 2), s)
      i2 == 1 - Xor(Bits(h2, 2048, 2), s)
  IN  Signed(T4Value(s, i1, i2, Bits(h1, 1, 1024), Bits(h2, 1, 2048)), Bit25)

\* The address a two-halfword instruction at pc is about, with its kind and
\* its register (0 for branches).
IsT4(h1, h2) == Bits(h1, 2048, 32) = 30 /\ h2 \div 32768 = 1
T4Kind(m) ==
  IF m \in {1, 3} THEN "b" ELSE IF m \in {5, 7} THEN "bl" ELSE IF m \in {4, 6} THEN "blx" ELSE "other"
Reads(pc, h1, h2) ==
  LET aligned == Align4(pc + 4)
      kind == T4Kind(Bits(h2, 4096, 8))
      imm == Bits(h1, 1024, 2) * 2048 + Bits(h2, 4096, 8) * 256 + Bits(h2, 1, 256)
  IN  IF IsT4(h1, h2)
      THEN [kind |-> kind, arg |-> 0, to |-> (IF kind = "blx" THEN aligned ELSE pc + 4) + T4Offset(h1, h2)]
      ELSE IF h1 \in {\hF20F, \hF60F, \hF2AF, \hF6AF} /\ h2 < 32768
      THEN [kind |-> "adr", arg |-> Bits(h2, 256, 16), to |-> aligned + (IF h1 \in {\hF20F, \hF60F} THEN imm ELSE -imm)]
      ELSE IF h1 \in {\hF8DF, \hF85F}
      THEN [kind |-> "ldr", arg |-> h2 \div 4096, to |-> aligned + (IF h1 = \hF8DF THEN h2 % 4096 ELSE -(h2 % 4096))]
      ELSE [kind |-> "other", arg |-> 0, to |-> 0]

\* Whether a condition passes under the flags.
Passes(cond, f) ==
  LET even == CASE cond \div 2 = 0 -> f.z
                [] cond \div 2 = 1 -> f.c
                [] cond \div 2 = 2 -> f.n
                [] cond \div 2 = 3 -> f.v
                [] cond \div 2 = 4 -> f.c /\ ~f.z
                [] cond \div 2 = 5 -> f.n = f.v
                [] cond \div 2 = 6 -> f.n = f.v /\ ~f.z
                [] OTHER -> TRUE
  IN  even = (cond % 2 = 0)

\* The flags that CMP leaves for words x and y of the given size, and what
\* the name of a branch says of two words.
Cmp(x, y, size) ==
  LET d == (x - y + size) % size
      high(w) == 2 * w >= size
  IN  [n |-> high(d), z |-> d = 0, c |-> x >= y, v |-> high(x) # high(y) /\ high(d) # high(x)]
Says(method, x, y, size) ==
  LET sx == Signed(x, size)
      sy == Signed(y, size)
  IN  CASE method \in {"beq", "beq_w"} -> x = y
        [] method \in {"bne", "bne_w"} -> x # y
        [] method \in {"bhs", "bcs", "bhs_w"} -> x >= y
        [] method \in {"blo", "bcc"} -> x < y
        [] method \in {"bhi", "bhi_w"} -> x > y
        [] method = "bls" -> x <= y
        [] method \in {"bge", "bge_w"} -> sx >= sy
        [] method \in {"blt", "blt_w"} -> sx < sy
        [] method \in {"bgt", "bgt_w"} -> sx > sy
        [] method \in {"ble", "ble_w"} -> sx <= sy
=============================================================================
