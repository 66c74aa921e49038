--------------------------- MODULE Assembler_proofs ---------------------------
(***************************************************************************)
(* For every base address and every program: the types, that resolve()     *)
(* writes placeholders only, that what it writes is read by the core as a  *)
(* reference to the label, and that a conditional branch takes the core    *)
(* where its name says.  The lemmas of the first part say of each encoding *)
(* that the architecture's decoding inverts it over its whole range.       *)
(* (Leaves with large numerals name SMT: Zenon writes numerals in unary.)  *)
(***************************************************************************)
EXTENDS Assembler, TLAPS

LEMMA DivMod ==
  ASSUME NEW n \in Nat \ {0}, NEW u \in Int
  PROVE  /\ u \div n \in Int /\ u % n \in Int
         /\ 0 <= u % n /\ u % n < n
         /\ u = n * (u \div n) + (u % n)
  BY SMT

LEMMA AlignType == ASSUME NEW a \in Int PROVE Align4(a) \in Int /\ Align4(a) % 4 = 0
<1>1. /\ a % 4 \in Int /\ a \div 4 \in Int /\ a = 4 * (a \div 4) + (a % 4) BY SMT, DivMod
<1>2. Align4(a) = 4 * (a \div 4) BY SMT, <1>1 DEF Align4
<1> QED BY SMT, <1>1, <1>2

-----------------------------------------------------------------------------
(* Short branches.                                                         *)

LEMMA ShortRoundTrip ==
  ASSUME NEW cond \in 0..14, NEW off \in Int, InShort(off),
         NEW hw, hw = \hD000 + 256 * cond + Bits(off, 2, 256)
  PROVE  /\ IsHalfword(hw)
         /\ hw \div 4096 = 13
         /\ Bits(hw, 256, 16) = cond
         /\ ShortOffset(hw) = off
<1> DEFINE half == off \div 2
           imm == half % 256
<1>1. half \in Int /\ off = 2 * half BY SMT, DivMod DEF InShort
<1>2. half \in -128..127 BY SMT, <1>1 DEF InShort
<1> HIDE DEF half
<1>3. imm \in 0..255 /\ imm = (IF half >= 0 THEN half ELSE half + 256) BY SMT, <1>2
<1>4. Bits(off, 2, 256) = imm BY DEF Bits, half
<1> HIDE DEF imm
<1>5. hw = 53248 + 256 * cond + imm BY SMT, <1>4
<1>6. hw \in Int /\ IsHalfword(hw) BY SMT, <1>3, <1>5 DEF IsHalfword
<1>6a. hw \div 4096 = 13 BY SMT, <1>3, <1>5, <1>6, DivMod
<1>7. hw \div 256 = 208 + cond BY SMT, <1>3, <1>5
<1>8. (208 + cond) % 16 = cond BY SMT
<1>9. hw % 256 = imm BY SMT, <1>3, <1>5
<1>10. hw \div 1 = hw BY SMT, <1>6, DivMod
<1>11. ShortOffset(hw) = Signed(imm * 2, 512) BY <1>9, <1>10 DEF ShortOffset, Bits
<1>12. Signed(imm * 2, 512) = off BY SMT, <1>1, <1>2, <1>3 DEF Signed
<1> QED BY SMT, <1>6, <1>6a, <1>7, <1>8, <1>11, <1>12 DEF Bits

-----------------------------------------------------------------------------
(* B.W, BL and BLX.                                                        *)

InFields(s, i, j, hi, lo) == s \in 0..1 /\ i \in 0..1 /\ j \in 0..1 /\ hi \in 0..1023 /\ lo \in 0..2047

\* The fields that _encode_t4_branch takes from u make up u.
LEMMA T4Pieces ==
  ASSUME NEW u \in Nat, u < Bit25, u % 2 = 0
  PROVE  /\ InFields(Bits(u, Bit24, 2), Bits(u, Bit23, 2), Bits(u, Bit22, 2), Bits(u, 4096, 1024), Bits(u, 2, 2048))
         /\ u = T4Value(Bits(u, Bit24, 2), Bits(u, Bit23, 2), Bits(u, Bit22, 2),
                        Bits(u, 4096, 1024), Bits(u, 2, 2048))
         /\ u % 4 = 0 => 2 * Bits(u, 4, 1024) = Bits(u, 2, 2048)
<1> DEFINE a == u \div 2
           b == a \div 2048
           c == b \div 1024
           d == c \div 2
           s == d \div 2
           i == d % 2
           j == c % 2
           hi == b % 1024
           lo == a % 2048
<1>0. u \in Int BY SMT
<1>1. a \in Int /\ u = 2 * a BY SMT, DivMod, <1>0
<1>2. b \in Int /\ lo \in 0..2047 /\ a = 2048 * b + lo BY SMT, <1>1, DivMod
<1>3. c \in Int /\ hi \in 0..1023 /\ b = 1024 * c + hi BY SMT, <1>2, DivMod
<1>4. d \in Int /\ j \in 0..1 /\ c = 2 * d + j BY SMT, <1>3, DivMod
<1>5. s \in Int /\ i \in 0..1 /\ d = 2 * s + i BY SMT, <1>4, DivMod
<1> HIDE DEF a, b, c, d, s, i, j, hi, lo
<1>6. s \in 0..1 BY SMT, <1>1, <1>2, <1>3, <1>4, <1>5 DEF Bit22, Bit23, Bit24, Bit25
<1>7. u = 16777216 * s + 8388608 * i + 4194304 * j + 4096 * hi + 2 * lo
  BY SMT, <1>1, <1>2, <1>3, <1>4, <1>5
<1>8. /\ Bits(u, Bit24, 2) = s /\ Bits(u, Bit23, 2) = i /\ Bits(u, Bit22, 2) = j
      /\ Bits(u, 4096, 1024) = hi /\ Bits(u, 2, 2048) = lo
  <2>1. u \div 16777216 = s BY SMT, DivMod, <1>0, <1>2, <1>3, <1>4, <1>5, <1>6, <1>7
  <2>2. u \div 8388608 = 2 * s + i BY SMT, DivMod, <1>0, <1>2, <1>3, <1>4, <1>5, <1>6, <1>7
  <2>3. u \div 4194304 = 4 * s + 2 * i + j BY SMT, DivMod, <1>0, <1>2, <1>3, <1>4, <1>5, <1>6, <1>7
  <2>4. u \div 4096 = 4096 * s + 2048 * i + 1024 * j + hi BY SMT, DivMod, <1>0, <1>2, <1>3, <1>4, <1>5, <1>6, <1>7
  <2>5. u \div 2 = 8388608 * s + 4194304 * i + 2097152 * j + 2048 * hi + lo
    BY SMT, DivMod, <1>0, <1>2, <1>3, <1>4, <1>5, <1>6, <1>7
  <2>6. s % 2 = s /\ (2 * s + i) % 2 = i /\ (4 * s + 2 * i + j) % 2 = j BY SMT, <1>4, <1>5, <1>6
  <2>7. (4096 * s + 2048 * i + 1024 * j + hi) % 1024 = hi BY SMT, <1>3, <1>4, <1>5, <1>6
  <2>8. (8388608 * s + 4194304 * i + 2097152 * j + 2048 * hi + lo) % 2048 = lo
    BY SMT, <1>2, <1>3, <1>4, <1>5, <1>6
  <2> QED BY SMT, <2>1, <2>2, <2>3, <2>4, <2>5, <2>6, <2>7, <2>8 DEF Bits, Bit22, Bit23, Bit24
<1>9. ASSUME u % 4 = 0 PROVE 2 * Bits(u, 4, 1024) = lo
  <2> DEFINE q == u \div 4
             l == lo \div 2
             p == lo % 2
  <2>1. q \in Int /\ u = 4 * q BY SMT, <1>0, <1>9, DivMod
  <2>2. l \in Int /\ p \in 0..1 /\ lo = 2 * l + p BY SMT, <1>2, DivMod
  <2> HIDE DEF q, l, p
  <2>2a. u = 2 * (8388608 * s + 4194304 * i + 2097152 * j + 2048 * hi) + 2 * lo
    BY SMT, <1>2, <1>3, <1>4, <1>5, <1>6, <1>7
  <2>2b. 2 * q = 8388608 * s + 4194304 * i + 2097152 * j + 2048 * hi + lo
    BY SMT, <1>2, <1>3, <1>4, <1>5, <1>6, <2>1, <2>2a
  <2>3. p = 0
    <3> DEFINE m == q - 4194304 * s - 2097152 * i - 1048576 * j - 1024 * hi - l
    <3>1. m \in Int /\ p = 2 * m BY SMT, <1>3, <1>4, <1>5, <1>6, <2>1, <2>2, <2>2b
    <3> HIDE DEF m
    <3> QED BY SMT, <2>2, <3>1
  <2>4. l \in 0..1023 /\ lo = 2 * l BY SMT, <1>2, <2>2, <2>3
  <2>5. q = 4194304 * s + 2097152 * i + 1048576 * j + 1024 * hi + l
    BY SMT, <1>3, <1>4, <1>5, <1>6, <1>7, <2>1, <2>4
  <2>6. (4194304 * s + 2097152 * i + 1048576 * j + 1024 * hi + l) % 1024 = l
    BY SMT, <1>3, <1>4, <1>5, <1>6, <2>4
  <2>7. Bits(u, 4, 1024) = l BY SMT, <2>5, <2>6 DEF Bits, q
  <2> QED BY SMT, <2>4, <2>7
<1>9a. InFields(s, i, j, hi, lo) BY SMT, <1>2, <1>3, <1>4, <1>5, <1>6 DEF InFields
<1>10. InFields(Bits(u, Bit24, 2), Bits(u, Bit23, 2), Bits(u, Bit22, 2), Bits(u, 4096, 1024), Bits(u, 2, 2048))
  BY SMT, <1>8, <1>9a
<1>11. u = T4Value(s, i, j, hi, lo) BY SMT, <1>7 DEF T4Value, Bit22, Bit23, Bit24
<1>11a. u = T4Value(Bits(u, Bit24, 2), Bits(u, Bit23, 2), Bits(u, Bit22, 2),
                    Bits(u, 4096, 1024), Bits(u, 2, 2048))
  BY <1>8, <1>11
<1>12. u % 4 = 0 => 2 * Bits(u, 4, 1024) = Bits(u, 2, 2048) BY <1>8, <1>9
<1> QED BY <1>10, <1>11a, <1>12

\* The first halfword, and the second for each kind (op is its opcode).
Half1(s, hi) == \hF000 + 1024 * s + hi
Half2(op, a, b, lo) == 4096 * op + 8192 * a + 2048 * b + lo
First(h, s, hi) == IsHalfword(h) /\ Bits(h, 2048, 32) = 30 /\ Bits(h, 1024, 2) = s /\ Bits(h, 1, 1024) = hi
Second(h, op, a, b, lo) ==
  /\ IsHalfword(h) /\ h \div 32768 = 1 /\ Bits(h, 4096, 8) = op - 8 + 2 * a
  /\ Bits(h, 8192, 2) = a /\ Bits(h, 2048, 2) = b /\ Bits(h, 1, 2048) = lo

LEMMA T4First ==
  ASSUME NEW s, NEW i, NEW j, NEW hi, NEW lo, InFields(s, i, j, hi, lo)
  PROVE  First(Half1(s, hi), s, hi)
<1> DEFINE h == Half1(s, hi)
<1>0. s \in 0..1 /\ hi \in 0..1023 /\ h = \hF000 + 1024 * s + hi BY SMT DEF Half1, InFields
<1> HIDE DEF h
<1>1. h \in Int /\ IsHalfword(h) BY SMT, <1>0 DEF IsHalfword
<1>2. h \div 2048 = 30 /\ h \div 1024 = 60 + s /\ h \div 1 = h BY SMT, <1>0, <1>1, DivMod
<1>3. (60 + s) % 2 = s /\ h % 1024 = hi BY SMT, <1>0
<1>4. First(h, s, hi) BY SMT, <1>1, <1>2, <1>3 DEF Bits, First
<1> QED BY <1>4 DEF h

Opcode(op) == op \in {9, 13, 12}
Bit(b) == b \in 0..1

LEMMA T4Second ==
  ASSUME NEW s, NEW i, NEW j, NEW hi, NEW lo, InFields(s, i, j, hi, lo),
         NEW op, NEW a, NEW b, Opcode(op), Bit(a), Bit(b)
  PROVE  Second(Half2(op, a, b, lo), op, a, b, lo)
<1> DEFINE h == Half2(op, a, b, lo)
<1>a. op \in {9, 13, 12} /\ a \in 0..1 /\ b \in 0..1 /\ lo \in 0..2047 BY SMT DEF InFields, Opcode, Bit
<1>b. h = 4096 * op + 8192 * a + 2048 * b + lo BY SMT DEF Half2
<1> HIDE DEF h
<1>0. h \in Int BY SMT, <1>a, <1>b
<1>1. IsHalfword(h) /\ h \div 1 = h BY SMT, <1>a, <1>b, <1>0, DivMod DEF IsHalfword
<1>2. h \div 32768 = 1 BY SMT, <1>a, <1>b
<1>3. h \div 8192 = (op \div 2) + a /\ h \div 4096 = op + 2 * a BY SMT, <1>a, <1>b
<1>4. h \div 2048 = 2 * op + 4 * a + b BY SMT, <1>a, <1>b
<1>5. ((op \div 2) + a) % 2 = a BY SMT, <1>a
<1>6. (op + 2 * a) % 8 = op - 8 + 2 * a BY SMT, <1>a
<1>7. (2 * op + 4 * a + b) % 2 = b /\ h % 2048 = lo BY SMT, <1>a, <1>b
<1>8. Second(h, op, a, b, lo)
  BY SMT, <1>1, <1>2, <1>3, <1>4, <1>5, <1>6, <1>7 DEF Bits, Second
<1> QED BY <1>8 DEF h

\* _encode_t4_branch: the offset comes back, over the whole range, as the kind asked for.
T4Read(kind, off, h1, h2) ==
  /\ IsHalfword(h1) /\ IsHalfword(h2) /\ IsT4(h1, h2)
  /\ Bits(h2, 4096, 8) \in (CASE kind = "b" -> {1, 3} [] kind = "bl" -> {5, 7} [] kind = "blx" -> {4, 6})
  /\ T4Offset(h1, h2) = off

LEMMA T4RoundTrip ==
  ASSUME NEW kind \in {"b", "bl", "blx"}, NEW off \in Int, InT4(kind, off),
         off % 2 = 0, kind = "blx" => off % 4 = 0
  PROVE  /\ DOMAIN EncodeT4(kind, off) = {1, 2}
         /\ T4Read(kind, off, EncodeT4(kind, off)[1], EncodeT4(kind, off)[2])
<1> DEFINE u == IF off < 0 THEN off + Bit25 ELSE off
           s == Bits(u, Bit24, 2)
           i == Bits(u, Bit23, 2)
           j == Bits(u, Bit22, 2)
           hi == Bits(u, 4096, 1024)
           lo == Bits(u, 2, 2048)
           low == IF kind = "blx" THEN 2 * Bits(u, 4, 1024) ELSE Bits(u, 2, 2048)
           op == CASE kind = "b" -> 9 [] kind = "bl" -> 13 [] kind = "blx" -> 12
           j1 == Xor(1 - i, s)
           j2 == Xor(1 - j, s)
           h1 == Half1(s, hi)
           h2 == Half2(op, j1, j2, low)
<1>1. u \in Nat /\ u < Bit25 BY SMT DEF InT4, Bit24, Bit25
<1>2. u % 2 = 0 BY SMT DEF InT4, Bit25
<1>3. kind = "blx" => u % 4 = 0 BY SMT DEF InT4, Bit25
<1>4. Signed(u, Bit25) = off BY SMT DEF Signed, InT4, Bit24, Bit25
<1> HIDE DEF u
<1>5. /\ InFields(s, i, j, hi, lo)
      /\ u = T4Value(s, i, j, hi, lo)
      /\ u % 4 = 0 => 2 * Bits(u, 4, 1024) = lo
  BY SMT, <1>1, <1>2, T4Pieces
<1>6. low = lo BY SMT, <1>3, <1>5
<1>6a. s \in 0..1 /\ i \in 0..1 /\ j \in 0..1 /\ hi \in 0..1023 /\ lo \in 0..2047 BY SMT, <1>5 DEF InFields
<1>7. EncodeT4(kind, off) = <<h1, h2>>
  <2>1. CASE kind = "b" BY SMT, <2>1 DEF EncodeT4, u, Half1, Half2
  <2>2. CASE kind = "bl" BY SMT, <2>2 DEF EncodeT4, u, Half1, Half2
  <2>3. CASE kind = "blx" BY SMT, <2>3 DEF EncodeT4, u, Half1, Half2
  <2> QED BY SMT, <2>1, <2>2, <2>3
<1> HIDE DEF s, i, j, hi, lo, low
<1>8. Opcode(op) /\ op - 8 = (CASE kind = "b" -> 1 [] kind = "bl" -> 5 [] kind = "blx" -> 4) BY SMT DEF Opcode
<1> HIDE DEF op
<1>9. /\ Bit(j1) /\ 1 - Xor(j1, s) = i
      /\ Bit(j2) /\ 1 - Xor(j2, s) = j
  BY SMT, <1>6a DEF Xor, Bit
<1> HIDE DEF j1, j2
<1>10. First(h1, s, hi) BY <1>5, T4First
<1>11. Second(h2, op, j1, j2, lo) BY <1>5, <1>6, <1>8, <1>9, T4Second
<1> HIDE DEF h1, h2
<1>12. T4Offset(h1, h2) = Signed(T4Value(s, i, j, hi, lo), Bit25)
  BY SMT, <1>9, <1>10, <1>11 DEF T4Offset, First, Second
<1>13. T4Offset(h1, h2) = off BY SMT, <1>4, <1>5, <1>12
<1>14. Bits(h2, 4096, 8) \in (CASE kind = "b" -> {1, 3} [] kind = "bl" -> {5, 7} [] kind = "blx" -> {4, 6})
  BY SMT, <1>8, <1>9, <1>11 DEF Second, Bit
<1>15. T4Read(kind, off, h1, h2) BY SMT, <1>10, <1>11, <1>13, <1>14 DEF T4Read, IsT4, First, Second
<1> QED BY SMT, <1>7, <1>15

-----------------------------------------------------------------------------
(* ADR and LDR (literal).                                                  *)

LEMMA Imm12Bits ==
  ASSUME NEW imm \in Nat, imm <= 4095
  PROVE  /\ Bits(imm, 2048, 2) \in 0..1 /\ Bits(imm, 256, 8) \in 0..7 /\ Bits(imm, 1, 256) \in 0..255
         /\ imm = 2048 * Bits(imm, 2048, 2) + 256 * Bits(imm, 256, 8) + Bits(imm, 1, 256)
<1> DEFINE q == imm \div 256
           e == q \div 8
<1>1. q \in Int /\ imm % 256 \in 0..255 /\ imm = 256 * q + (imm % 256) BY SMT, DivMod
<1>2. e \in Int /\ q % 8 \in 0..7 /\ q = 8 * e + (q % 8) BY SMT, <1>1, DivMod
<1> HIDE DEF q, e
<1>3. e \in 0..1 BY SMT, <1>1, <1>2
<1>4. imm \div 2048 = e BY SMT, <1>1, <1>2, <1>3, DivMod
<1>5. e % 2 = e BY SMT, <1>3
<1>6. imm \div 1 = imm BY SMT, DivMod
<1>7. Bits(imm, 2048, 2) = e /\ Bits(imm, 256, 8) = q % 8 /\ Bits(imm, 1, 256) = imm % 256
  BY SMT, <1>4, <1>5, <1>6 DEF Bits, q
<1> QED BY SMT, <1>1, <1>2, <1>3, <1>7

\* The second halfwords.
AdrHalf(imm3, rd, imm8) == 4096 * imm3 + 256 * rd + imm8
LdrHalf(rt, imm) == 4096 * rt + imm
IsImm12(imm) == imm \in 0..4095
IsLdr(h, rt, imm) == IsHalfword(h) /\ h \div 4096 = rt /\ h % 4096 = imm
IsAdr(h, imm3, rd, imm8) ==
  IsHalfword(h) /\ h < 32768 /\ Bits(h, 4096, 8) = imm3 /\ Bits(h, 256, 16) = rd /\ Bits(h, 1, 256) = imm8

LEMMA AdrSecond ==
  ASSUME NEW imm3 \in 0..7, NEW rd \in 0..14, NEW imm8 \in 0..255
  PROVE  IsAdr(AdrHalf(imm3, rd, imm8), imm3, rd, imm8)
<1> DEFINE h == AdrHalf(imm3, rd, imm8)
<1>0. h \in Int /\ h = 4096 * imm3 + 256 * rd + imm8 BY SMT DEF AdrHalf
<1> HIDE DEF h
<1>1. IsHalfword(h) /\ h < 32768 /\ h \div 1 = h BY SMT, <1>0, DivMod DEF IsHalfword
<1>2. h \div 4096 = imm3 /\ h \div 256 = 16 * imm3 + rd BY SMT, <1>0, DivMod
<1>3. imm3 % 8 = imm3 /\ (16 * imm3 + rd) % 16 = rd /\ h % 256 = imm8 BY SMT, <1>0
<1>4. IsAdr(h, imm3, rd, imm8) BY SMT, <1>1, <1>2, <1>3 DEF Bits, IsAdr
<1> QED BY <1>4 DEF h

LEMMA LdrSecond ==
  ASSUME NEW rt \in 0..14, NEW imm, IsImm12(imm)
  PROVE  IsLdr(LdrHalf(rt, imm), rt, imm)
<1> DEFINE h == LdrHalf(rt, imm)
<1>0. imm \in 0..4095 /\ h \in Int /\ h = 4096 * rt + imm BY SMT DEF LdrHalf, IsImm12
<1> HIDE DEF h
<1>1. IsHalfword(h) BY SMT, <1>0 DEF IsHalfword
<1>2. h \div 4096 = rt BY SMT, <1>0, DivMod
<1>3. h % 4096 = imm BY SMT, <1>0, <1>2, DivMod
<1>4. IsLdr(h, rt, imm) BY <1>1, <1>2, <1>3 DEF IsLdr
<1> QED BY <1>4 DEF h

-----------------------------------------------------------------------------
(* What the core reads at a fixup that was filled in.                      *)

LEMMA T4Reads ==
  ASSUME NEW kind \in {"b", "bl", "blx"}, NEW off \in Int, NEW pc \in Int, NEW h1, NEW h2,
         T4Read(kind, off, h1, h2)
  PROVE  Reads(pc, h1, h2) = [kind |-> kind, arg |-> 0,
                              to |-> (IF kind = "blx" THEN Align4(pc + 4) ELSE pc + 4) + off]
<1> DEFINE m == Bits(h2, 4096, 8)
<1>1. IsT4(h1, h2) /\ T4Offset(h1, h2) = off BY DEF T4Read
<1>2. T4Kind(m) = kind
  <2>1. CASE kind = "b" BY SMT, <2>1 DEF T4Read, T4Kind
  <2>2. CASE kind = "bl" BY SMT, <2>2 DEF T4Read, T4Kind
  <2>3. CASE kind = "blx" BY SMT, <2>3 DEF T4Read, T4Kind
  <2> QED BY <2>1, <2>2, <2>3
<1> HIDE DEF m
<1> QED BY SMT, <1>1, <1>2 DEF Reads, m

LEMMA AdrReads ==
  ASSUME NEW rd \in 0..14, NEW off \in Int, InLiteral(off), NEW pc \in Int
  PROVE  /\ DOMAIN EncodeAdr(rd, off) = {1, 2}
         /\ IsHalfword(EncodeAdr(rd, off)[1]) /\ IsHalfword(EncodeAdr(rd, off)[2])
         /\ Reads(pc, EncodeAdr(rd, off)[1], EncodeAdr(rd, off)[2])
              = [kind |-> "adr", arg |-> rd, to |-> Align4(pc + 4) + off]
<1> DEFINE imm == IF off >= 0 THEN off ELSE -off
           i == Bits(imm, 2048, 2)
           imm3 == Bits(imm, 256, 8)
           imm8 == Bits(imm, 1, 256)
           h1 == (IF off >= 0 THEN \hF20F ELSE \hF2AF) + 1024 * i
           h2 == AdrHalf(imm3, rd, imm8)
<1>1. imm \in Nat /\ imm <= 4095 BY SMT DEF InLiteral
<1> HIDE DEF imm
<1>2. EncodeAdr(rd, off) = <<h1, h2>> BY SMT DEF EncodeAdr, AdrHalf, imm
<1>3. /\ i \in 0..1 /\ imm3 \in 0..7 /\ imm8 \in 0..255
      /\ imm = 2048 * i + 256 * imm3 + imm8
  BY SMT, <1>1, Imm12Bits
<1> HIDE DEF i, imm3, imm8
<1>4. IsAdr(h2, imm3, rd, imm8) BY <1>3, AdrSecond
<1>5. \/ off >= 0 /\ h1 \in {\hF20F, \hF60F}
      \/ off < 0 /\ h1 \in {\hF2AF, \hF6AF}
  BY SMT, <1>3
<1>6. IsHalfword(h1) BY SMT, <1>5 DEF IsHalfword
<1>7. Bits(h1, 1024, 2) = i
  <2>1. h1 \div 1024 = 60 + i BY SMT, <1>3
  <2>2. (60 + i) % 2 = i BY SMT, <1>3
  <2> QED BY <2>1, <2>2 DEF Bits
<1> HIDE DEF h1, h2
<1>7a. /\ IsHalfword(h2) /\ h2 < 32768
       /\ Bits(h2, 4096, 8) = imm3 /\ Bits(h2, 256, 16) = rd /\ Bits(h2, 1, 256) = imm8
  BY SMT, <1>4 DEF IsAdr
<1>8. ~IsT4(h1, h2) /\ h2 \in Nat BY SMT, <1>7a, DivMod DEF IsT4, IsHalfword
<1>9. imm = 2048 * i + 256 * imm3 + imm8 /\ Align4(pc + 4) \in Int BY SMT, <1>3, AlignType
<1>10. Reads(pc, h1, h2) = [kind |-> "adr", arg |-> rd, to |-> Align4(pc + 4) + off]
  <2>1. CASE off >= 0
    <3>1. h1 \in {\hF20F, \hF60F} /\ imm = off BY SMT, <1>5, <2>1 DEF imm
    <3> QED BY SMT, <1>3, <1>7a, <1>7, <1>8, <1>9, <3>1 DEF Reads
  <2>2. CASE off < 0
    <3>1. h1 \in {\hF2AF, \hF6AF} /\ imm = -off BY SMT, <1>5, <2>2 DEF imm
    <3> QED BY SMT, <1>3, <1>7a, <1>7, <1>8, <1>9, <3>1 DEF Reads
  <2> QED BY SMT, <2>1, <2>2
<1> QED BY SMT, <1>2, <1>7a, <1>6, <1>10

LEMMA LdrReads ==
  ASSUME NEW rt \in 0..14, NEW off \in Int, InLiteral(off), NEW pc \in Int
  PROVE  /\ DOMAIN EncodeLdrLit(rt, off) = {1, 2}
         /\ IsHalfword(EncodeLdrLit(rt, off)[1]) /\ IsHalfword(EncodeLdrLit(rt, off)[2])
         /\ Reads(pc, EncodeLdrLit(rt, off)[1], EncodeLdrLit(rt, off)[2])
              = [kind |-> "ldr", arg |-> rt, to |-> Align4(pc + 4) + off]
<1> DEFINE imm == IF off >= 0 THEN off ELSE -off
           h1 == IF off >= 0 THEN \hF8DF ELSE \hF85F
           h2 == LdrHalf(rt, imm)
<1>1. imm \in 0..4095 /\ imm \in Nat /\ IsImm12(imm) BY SMT DEF InLiteral, IsImm12
<1>2. EncodeLdrLit(rt, off) = <<h1, h2>> BY SMT DEF EncodeLdrLit, LdrHalf
<1> HIDE DEF imm
<1>2a. IsLdr(h2, rt, imm) BY <1>1, LdrSecond
<1>3. IsHalfword(h2) /\ h2 \div 4096 = rt /\ h2 % 4096 = imm BY <1>2a DEF IsLdr
<1>4. h1 \in {\hF8DF, \hF85F} BY SMT
<1>5. IsHalfword(h1) BY SMT DEF IsHalfword
<1>6. Bits(h1, 2048, 32) = 31
  <2>1. h1 \div 2048 = 31 BY SMT
  <2>2. 31 % 32 = 31 BY SMT
  <2> QED BY <2>1, <2>2 DEF Bits
<1> HIDE DEF h2
<1>7. ~IsT4(h1, h2) BY SMT, <1>6 DEF IsT4
<1>8. Reads(pc, h1, h2) = [kind |-> "ldr", arg |-> rt, to |-> Align4(pc + 4) + off]
  <2>1. CASE off >= 0
    <3>1. h1 = \hF8DF /\ imm = off BY SMT, <2>1 DEF imm
    <3> HIDE DEF h1
    <3> QED BY SMT, <1>3, <1>7, <3>1 DEF Reads
  <2>2. CASE off < 0
    <3>1. h1 = \hF85F /\ imm = -off BY SMT, <2>2 DEF imm
    <3>2. Align4(pc + 4) \in Int BY SMT, AlignType
    <3> HIDE DEF h1
    <3> QED BY SMT, <1>1, <1>3, <1>7, <3>1, <3>2 DEF Reads
  <2> QED BY SMT, <2>1, <2>2
<1> QED BY SMT, <1>2, <1>3, <1>5, <1>8

-----------------------------------------------------------------------------
(* Helpers of the machine.                                                 *)

Place(at, n) == IF n = 1 THEN {at} ELSE {at, at + 2}

IsWritten(W, c, at, n, hws) ==
  /\ DOMAIN W = DOMAIN c \cup Place(at, n)
  /\ W[at] = hws[1] /\ (n = 2 => W[at + 2] = hws[2])
  /\ \A o \in DOMAIN c : o \in Place(at, n) \/ W[o] = c[o]

\* Written puts the halfwords there and leaves the rest.
LEMMA WrittenFacts ==
  ASSUME NEW c, NEW at \in Nat, NEW n \in {1, 2}, NEW hws, DOMAIN hws = 1..n
  PROVE  IsWritten(Written(c, at, hws), c, at, n, hws)
<1> DEFINE place == {at + 2 * (h - 1) : h \in DOMAIN hws}
           W == Written(c, at, hws)
<1>1. place = Place(at, n)
  <2>1. CASE n = 1
    <3>1. DOMAIN hws = {1} BY SMT, <2>1
    <3> QED BY SMT, <2>1, <3>1 DEF Place
  <2>2. CASE n = 2
    <3>1. DOMAIN hws = {1, 2} BY SMT, <2>2
    <3>2. place = {at + 2 * (1 - 1), at + 2 * (2 - 1)} BY ONLY <3>1, SMT
    <3> QED BY SMT, <2>2, <3>2 DEF Place
  <2> QED BY <2>1, <2>2
<1>2. W = [o \in DOMAIN c \cup place |-> IF o \in place THEN hws[((o - at) \div 2) + 1] ELSE c[o]]
  BY DEF Written
<1> HIDE DEF place, W
<1>3. DOMAIN W = DOMAIN c \cup Place(at, n) BY <1>1, <1>2
<1>4. \A o \in DOMAIN c : o \in Place(at, n) \/ W[o] = c[o] BY <1>1, <1>2
<1>5. W[at] = hws[1]
  <2>1. at \in place BY SMT, <1>1 DEF Place
  <2>2. W[at] = hws[((at - at) \div 2) + 1] BY <1>2, <2>1
  <2>3. ((at - at) \div 2) + 1 = 1 BY SMT
  <2> QED BY <2>2, <2>3
<1>6. ASSUME n = 2 PROVE W[at + 2] = hws[2]
  <2>1. at + 2 \in place BY SMT, <1>1, <1>6 DEF Place
  <2>2. W[at + 2] = hws[((at + 2 - at) \div 2) + 1] BY <1>2, <2>1
  <2>3. ((at + 2 - at) \div 2) + 1 = 2 BY SMT
  <2> QED BY <2>2, <2>3
<1> QED BY <1>3, <1>4, <1>5, <1>6 DEF W, IsWritten

LEMMA DefinedFacts ==
  ASSUME NEW f, NEW name, NEW value, \A n \in DOMAIN f : f[n] \in Nat, value \in Nat
  PROVE  \A n \in DOMAIN Defined(f, name, value) : Defined(f, name, value)[n] \in Nat
  BY DEF Defined

LEMMA CallTypes ==
  ASSUME NEW c \in Calls
  PROVE  /\ c.do = "assign" => c.addr \in Nat
         /\ c.do = "plain" => c.op \in DOMAIN Methods /\ c.args \in Seq(Nat)
         /\ c.do \in {"raw", "align"} => c.n \in Nat \ {0}
         /\ c.do = "short" => c.method \in DOMAIN ShortCond
         /\ c.do = "wide" => c.method \in DOMAIN WideSkip
         /\ c.do \in {"short", "wide", "b", "bl", "adr", "ldr"} => c.to \in Names
         /\ c.do = "blx" => c.addr \in Nat
<1>1. \/ c \in [do : {"label"}, name : Names]
      \/ c \in [do : {"assign"}, name : Names, addr : Nat]
      \/ c \in [do : {"plain"}, op : DOMAIN Methods, args : Seq(Nat)]
      \/ c \in [do : {"raw", "align"}, n : Nat \ {0}]
      \/ c \in [do : {"short"}, method : DOMAIN ShortCond, to : Names]
      \/ c \in [do : {"wide"}, method : DOMAIN WideSkip, to : Names]
      \/ c \in [do : {"b", "bl"}, to : Names]
      \/ c \in [do : {"adr", "ldr"}, reg : Nat, to : Names]
      \/ c \in [do : {"blx"}, addr : Nat]
  BY DEF Calls
<1>2. CASE c \in [do : {"label"}, name : Names] BY SMT, <1>2
<1>3. CASE c \in [do : {"assign"}, name : Names, addr : Nat] BY SMT, <1>3
<1>4. CASE c \in [do : {"plain"}, op : DOMAIN Methods, args : Seq(Nat)] BY SMT, <1>4
<1>5. CASE c \in [do : {"raw", "align"}, n : Nat \ {0}] BY SMT, <1>5
<1>6. CASE c \in [do : {"short"}, method : DOMAIN ShortCond, to : Names] BY SMT, <1>6
<1>7. CASE c \in [do : {"wide"}, method : DOMAIN WideSkip, to : Names] BY SMT, <1>7
<1>8. CASE c \in [do : {"b", "bl"}, to : Names] BY SMT, <1>8
<1>9. CASE c \in [do : {"adr", "ldr"}, reg : Nat, to : Names] BY SMT, <1>9
<1>10. CASE c \in [do : {"blx"}, addr : Nat] BY SMT, <1>10
<1> QED BY <1>1, <1>2, <1>3, <1>4, <1>5, <1>6, <1>7, <1>8, <1>9, <1>10

LEMMA ConditionTypes ==
  /\ \A m \in DOMAIN ShortCond : ShortCond[m] \in 0..14
  /\ \A m \in DOMAIN WideSkip : WideSkip[m] \in 0..14
  BY SMT DEF ShortCond, WideSkip

LEMMA EncodeDomain ==
  ASSUME NEW op, NEW args
  PROVE  Halfwords(op) \in {1, 2} /\ DOMAIN Encode(op, args) = 1..Halfwords(op)
  BY DEF Encode, Halfwords

-----------------------------------------------------------------------------
(* The layout of the buffer: the placeholders are in it, in the order of   *)
(* the fixups, and do not overlap.                                         *)

FixupRecs == [at : Nat, kind : Kinds, arg : 0..14, to : Names \cup Nat \cup (Nat \X Nat)]
Halves(kind) == IF kind = "bcond" THEN 1 ELSE 2
OfKind(f) == /\ f.kind \in {"b", "bl", "blx"} => f.arg = 0
             /\ f.kind = "blx" => f.to \in Nat /\ f.to % 4 = 0
Fits(f, c, sz) == OfKind(f) /\ f.at + Span(f.kind) <= sz /\ Place(f.at, Halves(f.kind)) \subseteq DOMAIN c
Before(f, g) == f.at + Span(f.kind) <= g.at
Filling(c, sz) == \A o \in DOMAIN c : o \in 0..(sz - 2) /\ IsHalfword(c[o])
Layout(fx, c, sz) ==
  /\ fx \in Seq(FixupRecs) /\ Filling(c, sz)
  /\ \A i \in 1..Len(fx) : Fits(fx[i], c, sz)
  /\ \A i, j \in 1..Len(fx) : i < j => Before(fx[i], fx[j])

LEMMA KindFacts ==
  ASSUME NEW kind \in Kinds
  PROVE  /\ Halves(kind) \in {1, 2} /\ Span(kind) = 2 * Halves(kind)
         /\ DOMAIN Zeros(kind) = 1..Halves(kind) /\ \A h \in 1..Halves(kind) : Zeros(kind)[h] = 0
<1>1. CASE kind = "bcond"
  <2>1. Halves(kind) = 1 /\ Span(kind) = 2 /\ Zeros(kind) = <<0>> BY <1>1 DEF Halves, Span, Zeros
  <2> QED BY SMT, <2>1
<1>2. CASE kind # "bcond"
  <2>1. Halves(kind) = 2 /\ Span(kind) = 4 /\ Zeros(kind) = <<0, 0>> BY <1>2 DEF Halves, Span, Zeros
  <2> QED BY SMT, <2>1
<1> QED BY <1>1, <1>2

LEMMA FillingWritten ==
  ASSUME NEW c, NEW sz \in Nat, Filling(c, sz), NEW n \in {1, 2}, NEW at \in Nat, NEW hws, DOMAIN hws = 1..n,
         \A h \in 1..n : IsHalfword(hws[h]), NEW s2 \in Nat, sz <= s2, at + 2 * n <= s2
  PROVE  Filling(Written(c, at, hws), s2)
<1> DEFINE W == Written(c, at, hws)
<1>0. IsWritten(W, c, at, n, hws) BY WrittenFacts
<1>1. /\ DOMAIN W = DOMAIN c \cup Place(at, n)
      /\ W[at] = hws[1]
      /\ n = 2 => W[at + 2] = hws[2]
      /\ \A o \in DOMAIN c : o \in Place(at, n) \/ W[o] = c[o]
  BY <1>0 DEF IsWritten
<1> HIDE DEF W
<1> SUFFICES ASSUME NEW o \in DOMAIN W PROVE o \in 0..(s2 - 2) /\ IsHalfword(W[o]) BY DEF Filling, W
<1>2. CASE o \in Place(at, n)
  <2>1. CASE o = at BY SMT, <1>1, <2>1
  <2>2. CASE n = 2 /\ o = at + 2 BY SMT, <1>1, <2>2
  <2> QED BY <1>2, <2>1, <2>2 DEF Place
<1>3. CASE o \notin Place(at, n)
  <2>1. o \in DOMAIN c /\ W[o] = c[o] BY <1>1, <1>3
  <2>2. o \in 0..(sz - 2) /\ IsHalfword(c[o]) BY <2>1 DEF Filling
  <2> QED BY SMT, <2>1, <2>2
<1> QED BY <1>2, <1>3

\* Code behind the buffer's end, or more room, leaves a layout one.
LEMMA LayoutGrows ==
  ASSUME NEW fx, NEW c, NEW sz \in Nat, Layout(fx, c, sz), NEW c2, NEW s2 \in Nat,
         sz <= s2, Filling(c2, s2), DOMAIN c \subseteq DOMAIN c2
  PROVE  Layout(fx, c2, s2)
<1> SUFFICES ASSUME NEW i \in 1..Len(fx) PROVE Fits(fx[i], c2, s2) BY DEF Layout
<1>1. Fits(fx[i], c, sz) /\ fx[i] \in FixupRecs BY DEF Layout
<1>2. fx[i].at \in Nat /\ Span(fx[i].kind) \in Nat BY <1>1 DEF FixupRecs, Span
<1>3. fx[i].at + Span(fx[i].kind) <= s2 BY SMT, <1>1, <1>2 DEF Fits
<1> QED BY <1>1, <1>3 DEF Fits

\* _fixup appends its placeholder to the layout.
LEMMA LayoutPlaced ==
  ASSUME NEW fx, NEW c, NEW sz \in Nat, Layout(fx, c, sz), NEW f \in FixupRecs, f.at = sz, OfKind(f)
  PROVE  /\ sz + Span(f.kind) \in Nat
         /\ Layout(Append(fx, f), Written(c, sz, Zeros(f.kind)), sz + Span(f.kind))
         /\ \A o \in DOMAIN c : Written(c, sz, Zeros(f.kind))[o] = c[o]
         /\ DOMAIN c \subseteq DOMAIN Written(c, sz, Zeros(f.kind))
<1> DEFINE n == Halves(f.kind)
           W == Written(c, sz, Zeros(f.kind))
           s2 == sz + Span(f.kind)
<1>1. f.kind \in Kinds BY DEF FixupRecs
<1>2. /\ n \in {1, 2} /\ Span(f.kind) = 2 * n
      /\ DOMAIN Zeros(f.kind) = 1..n /\ \A h \in 1..n : Zeros(f.kind)[h] = 0
  BY <1>1, KindFacts
<1>3. \A h \in 1..n : IsHalfword(Zeros(f.kind)[h]) BY SMT, <1>2 DEF IsHalfword
<1> HIDE DEF n
<1>4. s2 \in Nat /\ sz <= s2 /\ sz + 2 * n <= s2 BY SMT, <1>2
<1>5. Filling(c, sz) /\ fx \in Seq(FixupRecs) BY DEF Layout
<1>6. Filling(W, s2) BY <1>2, <1>3, <1>4, <1>5, FillingWritten
<1>6a. IsWritten(W, c, sz, n, Zeros(f.kind)) BY <1>2, WrittenFacts
<1>7. DOMAIN W = DOMAIN c \cup Place(sz, n) /\ \A o \in DOMAIN c : o \in Place(sz, n) \/ W[o] = c[o]
  BY <1>6a DEF IsWritten
<1>8. \A o \in DOMAIN c : W[o] = c[o]
  <2> SUFFICES ASSUME NEW o \in DOMAIN c PROVE o \notin Place(sz, n) BY <1>7
  <2>1. o \in 0..(sz - 2) BY <1>5 DEF Filling
  <2> QED BY SMT, <2>1 DEF Place
<1> HIDE DEF W, s2
<1>9. Layout(fx, W, s2) BY <1>4, <1>6, <1>7, LayoutGrows
<1>10. Fits(f, W, s2)
  <2>1. f.at + Span(f.kind) <= s2 BY SMT, <1>2 DEF s2
  <2> QED BY <1>7, <2>1 DEF Fits, n
<1>11. /\ Append(fx, f) \in Seq(FixupRecs) /\ Len(Append(fx, f)) = Len(fx) + 1
       /\ Append(fx, f)[Len(fx) + 1] = f /\ \A i \in 1..Len(fx) : Append(fx, f)[i] = fx[i]
       /\ Len(fx) \in Nat
  BY SMT, <1>5
<1>12. \A i \in 1..(Len(fx) + 1) : i \in 1..Len(fx) \/ i = Len(fx) + 1 BY SMT, <1>11
<1>13. \A i \in 1..Len(Append(fx, f)) : Fits(Append(fx, f)[i], W, s2)
  BY <1>9, <1>10, <1>11, <1>12 DEF Layout
<1>14. ASSUME NEW i \in 1..Len(Append(fx, f)), NEW j \in 1..Len(Append(fx, f)), i < j
       PROVE  Before(Append(fx, f)[i], Append(fx, f)[j])
  <2>1. i \in 1..Len(fx) BY SMT, <1>11, <1>14
  <2>2. CASE j \in 1..Len(fx) BY <1>11, <1>14, <2>1, <2>2 DEF Layout
  <2>3. CASE j = Len(fx) + 1
    <3>1. Fits(fx[i], c, sz) BY <2>1 DEF Layout
    <3> QED BY <1>11, <2>1, <2>3, <3>1 DEF Fits, Before
  <2> QED BY <1>11, <1>12, <2>2, <2>3
<1>15. Layout(Append(fx, f), W, s2) BY <1>6, <1>11, <1>13, <1>14 DEF Layout
<1> QED BY <1>4, <1>7, <1>8, <1>15 DEF W, s2

-----------------------------------------------------------------------------
(* Every chunk that resolve() writes fills its placeholder with halfwords. *)

LEMMA BitsRange ==
  ASSUME NEW v \in Int, NEW lo \in Nat \ {0}, NEW sz \in Nat \ {0}
  PROVE  Bits(v, lo, sz) \in Nat /\ Bits(v, lo, sz) < sz
<1>1. v \div lo \in Int BY DivMod
<1>2. (v \div lo) % sz \in Int /\ 0 <= (v \div lo) % sz /\ (v \div lo) % sz < sz BY <1>1, DivMod
<1> QED BY SMT, <1>2 DEF Bits

LEMMA T4Halfwords ==
  ASSUME NEW kind \in {"b", "bl", "blx"}, NEW off \in Int
  PROVE  /\ DOMAIN EncodeT4(kind, off) = {1, 2}
         /\ IsHalfword(EncodeT4(kind, off)[1]) /\ IsHalfword(EncodeT4(kind, off)[2])
<1> DEFINE u == IF off < 0 THEN off + Bit25 ELSE off
           s == Bits(u, Bit24, 2)
           i == Bits(u, Bit23, 2)
           j == Bits(u, Bit22, 2)
           hi == Bits(u, 4096, 1024)
           low == IF kind = "blx" THEN 2 * Bits(u, 4, 1024) ELSE Bits(u, 2, 2048)
           op == CASE kind = "b" -> 9 [] kind = "bl" -> 13 [] kind = "blx" -> 12
           h1 == Half1(s, hi)
           a == Xor(1 - i, s)
           b == Xor(1 - j, s)
           h2 == Half2(op, a, b, low)
<1>1. u \in Int BY SMT DEF Bit25
<1> HIDE DEF u
<1>2. EncodeT4(kind, off) = <<h1, h2>>
  <2>1. CASE kind = "b" BY SMT, <2>1 DEF EncodeT4, u, Half1, Half2
  <2>2. CASE kind = "bl" BY SMT, <2>2 DEF EncodeT4, u, Half1, Half2
  <2>3. CASE kind = "blx" BY SMT, <2>3 DEF EncodeT4, u, Half1, Half2
  <2> QED BY SMT, <2>1, <2>2, <2>3
<1>3. s \in 0..1 /\ i \in 0..1 /\ j \in 0..1 /\ hi \in 0..1023 /\ low \in 0..2047
  <2>1. Bit24 \in Nat \ {0} /\ Bit23 \in Nat \ {0} /\ Bit22 \in Nat \ {0} BY SMT DEF Bit22, Bit23, Bit24
  <2>2. s \in Nat /\ s < 2 BY SMT, <1>1, <2>1, BitsRange
  <2>3. i \in Nat /\ i < 2 BY SMT, <1>1, <2>1, BitsRange
  <2>4. j \in Nat /\ j < 2 BY SMT, <1>1, <2>1, BitsRange
  <2>5. hi \in Nat /\ hi < 1024 BY SMT, <1>1, BitsRange
  <2>6. Bits(u, 4, 1024) \in Nat /\ Bits(u, 4, 1024) < 1024 BY SMT, <1>1, BitsRange
  <2>7. Bits(u, 2, 2048) \in Nat /\ Bits(u, 2, 2048) < 2048 BY SMT, <1>1, BitsRange
  <2>8. low \in 0..2047
    <3>1. CASE kind = "blx"
      <4>1. low = 2 * Bits(u, 4, 1024) BY <3>1
      <4> HIDE DEF low
      <4> QED BY SMT, <2>6, <4>1
    <3>2. CASE kind # "blx"
      <4>1. low = Bits(u, 2, 2048) BY <3>2
      <4> HIDE DEF low
      <4> QED BY SMT, <2>7, <4>1
    <3> QED BY <3>1, <3>2
  <2> HIDE DEF s, i, j, hi, low
  <2> QED BY SMT, <2>2, <2>3, <2>4, <2>5, <2>8
<1>4. op \in {9, 13, 12} BY SMT
<1> HIDE DEF s, i, j, hi, low, op
<1>5. IsHalfword(h1) BY SMT, <1>3 DEF IsHalfword, Half1
<1>6. a \in 0..1 /\ b \in 0..1 BY SMT, <1>3 DEF Xor
<1> HIDE DEF a, b
<1>7. IsHalfword(h2)
  <2> DEFINE p == 4096 * op
             q == 8192 * a
             r == 2048 * b
  <2>1. h2 = p + q + r + low BY DEF Half2
  <2>2. p \in Int /\ 0 <= p /\ p <= 53248 BY SMT, <1>4
  <2>3. q \in Int /\ 0 <= q /\ q <= 8192 /\ r \in Int /\ 0 <= r /\ r <= 2048 BY SMT, <1>6
  <2>4. low \in Int /\ 0 <= low /\ low <= 2047 BY SMT, <1>3
  <2> HIDE DEF h2, p, q, r
  <2> QED BY SMT, <2>1, <2>2, <2>3, <2>4 DEF IsHalfword
<1> QED BY SMT, <1>2, <1>5, <1>7

FillsWithHalfwords(f, chunk) ==
  DOMAIN chunk = 1..Halves(f.kind) /\ \A h \in 1..Halves(f.kind) : IsHalfword(chunk[h])

LEMMA ChunkFills ==
  ASSUME NEW f \in FixupRecs, NEW off \in Int, InReach(f, off)
  PROVE  FillsWithHalfwords(f, Chunk(f, off))
<1>0. f.kind \in Kinds /\ f.arg \in 0..14 BY DEF FixupRecs
<1>1. CASE f.kind = "bcond"
  <2>1. InShort(off) /\ Chunk(f, off) = EncodeShort(f.arg, off) /\ Halves(f.kind) = 1
    BY <1>1 DEF InReach, Chunk, Halves
  <2> DEFINE hw == \hD000 + 256 * f.arg + Bits(off, 2, 256)
  <2>2. EncodeShort(f.arg, off) = <<hw>> BY SMT DEF EncodeShort
  <2>3. IsHalfword(hw)
    <3>1. Bits(off, 2, 256) \in Nat /\ Bits(off, 2, 256) < 256 BY SMT, BitsRange
    <3> QED BY SMT, <1>0, <3>1 DEF IsHalfword
  <2> HIDE DEF hw
  <2> QED BY SMT, <2>1, <2>2, <2>3 DEF FillsWithHalfwords
<1>2. CASE f.kind \in {"b", "bl", "blx"}
  <2>1. Chunk(f, off) = EncodeT4(f.kind, off) /\ Halves(f.kind) = 2 BY SMT, <1>2 DEF Chunk, Halves
  <2>2. /\ DOMAIN EncodeT4(f.kind, off) = {1, 2}
        /\ IsHalfword(EncodeT4(f.kind, off)[1]) /\ IsHalfword(EncodeT4(f.kind, off)[2])
    BY <1>2, T4Halfwords
  <2> QED BY SMT, <2>1, <2>2 DEF FillsWithHalfwords
<1>3. CASE f.kind = "adr"
  <2>1. InLiteral(off) /\ Chunk(f, off) = EncodeAdr(f.arg, off) /\ Halves(f.kind) = 2
    BY SMT, <1>3 DEF InReach, Chunk, Halves
  <2>2. /\ DOMAIN EncodeAdr(f.arg, off) = {1, 2}
        /\ IsHalfword(EncodeAdr(f.arg, off)[1]) /\ IsHalfword(EncodeAdr(f.arg, off)[2])
    <3>1. 0 \in Int BY SMT
    <3> QED BY <1>0, <2>1, <3>1, AdrReads
  <2> QED BY SMT, <2>1, <2>2 DEF FillsWithHalfwords
<1>4. CASE f.kind = "ldr"
  <2>1. InLiteral(off) /\ Chunk(f, off) = EncodeLdrLit(f.arg, off) /\ Halves(f.kind) = 2
    BY SMT, <1>4 DEF InReach, Chunk, Halves
  <2>2. /\ DOMAIN EncodeLdrLit(f.arg, off) = {1, 2}
        /\ IsHalfword(EncodeLdrLit(f.arg, off)[1]) /\ IsHalfword(EncodeLdrLit(f.arg, off)[2])
    <3>1. 0 \in Int BY SMT
    <3> QED BY <1>0, <2>1, <3>1, LdrReads
  <2> QED BY SMT, <2>1, <2>2 DEF FillsWithHalfwords
<1> QED BY <1>0, <1>1, <1>2, <1>3, <1>4 DEF Kinds

-----------------------------------------------------------------------------
(* The inductive invariant.                                                *)

Off(f) == Target(f) - Origin(f)
Ready(f) ==
  LET chunk == Chunk(f, Off(f))
  IN  /\ Known(f) /\ InReach(f, Off(f))
      /\ code[f.at] = chunk[1] /\ (Halves(f.kind) = 2 => code[f.at + 2] = chunk[2])

Bookkeeping ==
  /\ program \in Seq(Calls) /\ ip \in 0..Len(program)
  /\ size \in Nat /\ next \in 1..(Len(fixups) + 1)
  /\ \A n \in DOMAIN labels : labels[n] \in Nat
  /\ phase \in {"emit", "resolve", "done", "raised"}
  /\ phase = "emit" => next = 1
  /\ phase = "done" => next = Len(fixups) + 1
Filled == \A i \in 1..(next - 1) : Ready(fixups[i])
IInv == Bookkeeping /\ Layout(fixups, code, size) /\ Filled

LEMMA EmptyLayout == Layout(<< >>, << >>, 0)
<1>1. << >> \in Seq(FixupRecs) /\ Len(<< >>) = 0 /\ DOMAIN << >> = {} BY SMT
<1>2. 1..0 = {} BY SMT
<1> QED BY <1>1, <1>2 DEF Layout, Filling

LEMMA InitIInv == Init => IInv
<1> SUFFICES ASSUME Init PROVE IInv OBVIOUS
<1> USE DEF Init
<1>1. program \in Seq(Calls) BY ProgramsAssumption
<1>2. Len(fixups) = 0 /\ DOMAIN labels = {} BY SMT
<1>3. Bookkeeping BY SMT, <1>1, <1>2 DEF Bookkeeping
<1>4. Layout(fixups, code, size) BY EmptyLayout
<1>5. Filled
  <2>1. 1..(next - 1) = {} BY SMT
  <2> QED BY <2>1 DEF Filled
<1> QED BY <1>3, <1>4, <1>5 DEF IInv

\* While the calls are made no fixup is filled in.
LEMMA NoneFilled == ASSUME next = 1, next' = next PROVE Filled'
<1>1. 1..(next' - 1) = {} BY SMT
<1> QED BY <1>1 DEF Filled

LEMMA CallAt ==
  ASSUME Bookkeeping, NEW dos, Calling(dos)
  PROVE  /\ call \in Calls /\ call.do \in dos /\ next = 1 /\ phase = "emit"
         /\ ip + 1 \in 0..Len(program) /\ cur \in Nat
<1>1. ip \in Nat /\ ip < Len(program) /\ program \in Seq(Calls) BY SMT DEF Bookkeeping, Calling
<1>2. ip + 1 \in 1..Len(program) BY SMT, <1>1
<1>3. call \in Calls BY SMT, <1>1, <1>2 DEF call
<1>4. cur \in Nat BY SMT, BaseAssumption DEF cur, Bookkeeping
<1> QED BY SMT, <1>2, <1>3, <1>4 DEF Calling, Bookkeeping

\* An exception changes nothing that the invariant is about.
LEMMA RaiseKeeps == ASSUME IInv, Raise PROVE IInv'
<1> USE DEF Raise
<1>1. Bookkeeping' BY DEF IInv, Bookkeeping
<1>2. Layout(fixups, code, size)' BY DEF IInv
<1>3. Filled' BY DEF IInv, Filled, Ready, Off, Known, Target, Origin
<1> QED BY <1>1, <1>2, <1>3 DEF IInv

\* A call that was made keeps the rest of the bookkeeping.
LEMMA MadeKeeps ==
  ASSUME IInv, NEW dos, Calling(dos), Made, size' \in Nat, Len(fixups') \in Nat,
         \A n \in DOMAIN labels' : labels'[n] \in Nat
  PROVE  Bookkeeping' /\ Filled'
<1>0. Bookkeeping BY DEF IInv
<1>1. next = 1 /\ phase = "emit" /\ ip + 1 \in 0..Len(program) BY <1>0, CallAt
<1>2. ip' = ip + 1 /\ program' = program /\ phase' = phase /\ next' = next BY DEF Made
<1>3. next' \in 1..(Len(fixups') + 1) BY SMT, <1>1, <1>2
<1>4. Bookkeeping' BY <1>0, <1>1, <1>2, <1>3 DEF Bookkeeping
<1>5. Filled' BY <1>1, <1>2, NoneFilled
<1> QED BY <1>4, <1>5

\* _fixup with its placeholder, for any kind.
LEMMA PlacedKeeps ==
  ASSUME IInv, NEW dos, Calling(dos), NEW kind \in Kinds, NEW arg \in 0..14,
         NEW to \in Names \cup Nat \cup (Nat \X Nat), OfKind(Fixup(size, kind, arg, to)),
         Placed(kind, arg, to)
  PROVE  IInv' /\ DOMAIN code \subseteq DOMAIN code' /\ \A o \in DOMAIN code : code'[o] = code[o]
<1> DEFINE f == Fixup(size, kind, arg, to)
<1>0. Bookkeeping /\ Layout(fixups, code, size) /\ size \in Nat BY DEF IInv, Bookkeeping
<1>1. f \in FixupRecs /\ f.at = size /\ f.kind = kind BY <1>0 DEF FixupRecs, Fixup
<1> HIDE DEF f
<1>2. /\ size + Span(kind) \in Nat
      /\ Layout(Append(fixups, f), Written(code, size, Zeros(kind)), size + Span(kind))
      /\ \A o \in DOMAIN code : Written(code, size, Zeros(kind))[o] = code[o]
      /\ DOMAIN code \subseteq DOMAIN Written(code, size, Zeros(kind))
  <2>1. OfKind(f) BY DEF f
  <2> QED BY <1>0, <1>1, <2>1, LayoutPlaced
<1>3. /\ fixups' = Append(fixups, f) /\ code' = Written(code, size, Zeros(kind))
      /\ size' = size + Span(kind) /\ labels' = labels /\ Made
  BY DEF Placed, f
<1>4. Layout(fixups, code, size)' BY <1>2, <1>3
<1>5. fixups' \in Seq(FixupRecs) BY <1>4 DEF Layout
<1>6. Len(fixups') \in Nat BY SMT, <1>5
<1>7. \A n \in DOMAIN labels' : labels'[n] \in Nat BY <1>0, <1>3 DEF Bookkeeping
<1>8. Bookkeeping' /\ Filled' BY <1>2, <1>3, <1>6, <1>7, MadeKeeps
<1> QED BY <1>2, <1>3, <1>4, <1>8 DEF IInv

-----------------------------------------------------------------------------
(* One lemma per call: the invariant holds on, and no halfword changes.    *)

Untouched == DOMAIN code \subseteq DOMAIN code' /\ \A o \in DOMAIN code : code'[o] = code[o]

\* Calls that leave the code and the fixups alone.
LEMMA QuietKeeps ==
  ASSUME IInv, NEW dos, Calling(dos), Made, UNCHANGED <<fixups, code>>, size' \in Nat, size <= size',
         \A n \in DOMAIN labels' : labels'[n] \in Nat
  PROVE  IInv' /\ Untouched
<1>0. Bookkeeping /\ Layout(fixups, code, size) /\ size \in Nat BY DEF IInv, Bookkeeping
<1>1. Filling(code, size) /\ fixups \in Seq(FixupRecs) BY <1>0 DEF Layout
<1>2. Filling(code, size')
  <2> SUFFICES ASSUME NEW o \in DOMAIN code PROVE o \in 0..(size' - 2) /\ IsHalfword(code[o]) BY DEF Filling
  <2>1. o \in 0..(size - 2) /\ IsHalfword(code[o]) BY <1>1 DEF Filling
  <2> QED BY SMT, <1>0, <2>1
<1>3. Layout(fixups, code, size') BY <1>0, <1>2, LayoutGrows
<1>4. Layout(fixups, code, size)' BY <1>3
<1>5. Len(fixups') \in Nat BY SMT, <1>1
<1>6. Bookkeeping' /\ Filled' BY <1>5, MadeKeeps
<1> QED BY <1>4, <1>6 DEF IInv, Untouched

LEMMA LabelKeeps == IInv /\ Label => IInv' /\ Untouched
<1> SUFFICES ASSUME IInv, Label PROVE IInv' /\ Untouched OBVIOUS
<1>0. Bookkeeping /\ Calling({"label"}) BY DEF IInv, Label
<1>1. CASE call.name \in DOMAIN labels
  <2>1. Raise BY <1>1 DEF Label
  <2> QED BY <2>1, RaiseKeeps DEF Raise, Untouched
<1>2. CASE call.name \notin DOMAIN labels
  <2>1. labels' = Defined(labels, call.name, cur) /\ Made /\ UNCHANGED <<size, fixups, code>> BY <1>2 DEF Label
  <2>2. cur \in Nat BY <1>0, CallAt
  <2>3. \A n \in DOMAIN labels : labels[n] \in Nat BY <1>0 DEF Bookkeeping
  <2>4. \A n \in DOMAIN labels' : labels'[n] \in Nat BY <2>1, <2>2, <2>3, DefinedFacts
  <2>5. size' \in Nat /\ size <= size' BY SMT, <1>0, <2>1 DEF Bookkeeping
  <2> QED BY <1>0, <2>1, <2>4, <2>5, QuietKeeps
<1> QED BY <1>1, <1>2

LEMMA AssignKeeps == IInv /\ Assign => IInv' /\ Untouched
<1> SUFFICES ASSUME IInv, Assign PROVE IInv' /\ Untouched OBVIOUS
<1>0. Bookkeeping /\ Calling({"assign"}) BY DEF IInv, Assign
<1>1. labels' = Defined(labels, call.name, call.addr) /\ Made /\ UNCHANGED <<size, fixups, code>> BY DEF Assign
<1>2. call \in Calls /\ call.do = "assign" BY <1>0, CallAt
<1>3. call.addr \in Nat BY <1>2, CallTypes
<1>4. \A n \in DOMAIN labels : labels[n] \in Nat BY <1>0 DEF Bookkeeping
<1>5. \A n \in DOMAIN labels' : labels'[n] \in Nat BY <1>1, <1>3, <1>4, DefinedFacts
<1>6. size' \in Nat /\ size <= size' BY SMT, <1>0, <1>1 DEF Bookkeeping
<1> QED BY <1>0, <1>1, <1>5, <1>6, QuietKeeps

LEMMA RawKeeps == IInv /\ Raw => IInv' /\ Untouched
<1> SUFFICES ASSUME IInv, Raw PROVE IInv' /\ Untouched OBVIOUS
<1>0. Bookkeeping /\ Calling({"raw", "align"}) /\ size \in Nat BY DEF IInv, Raw, Bookkeeping
<1>1. call \in Calls /\ call.do \in {"raw", "align"} BY <1>0, CallAt
<1>2. call.n \in Nat \ {0} BY <1>1, CallTypes
<1>3. size' \in Nat /\ size <= size'
  <2>1. CASE call.do = "raw" BY SMT, <1>0, <1>2, <2>1 DEF Raw
  <2>2. CASE call.do # "raw"
    <3>1. size' = size + ((call.n - (size % call.n)) % call.n) BY <2>2 DEF Raw
    <3>2. size % call.n \in Int /\ call.n - (size % call.n) \in Int BY SMT, <1>0, <1>2, DivMod
    <3> DEFINE pad == (call.n - (size % call.n)) % call.n
    <3>3. pad \in Int /\ 0 <= pad BY <1>2, <3>2, DivMod
    <3> HIDE DEF pad
    <3>4. size' = size + pad BY <3>1 DEF pad
    <3> QED BY SMT, <1>0, <3>3, <3>4
  <2> QED BY <2>1, <2>2
<1>4. Made /\ UNCHANGED <<labels, fixups, code>> BY DEF Raw
<1>5. \A n \in DOMAIN labels' : labels'[n] \in Nat BY <1>0, <1>4 DEF Bookkeeping
<1> QED BY <1>0, <1>3, <1>4, <1>5, QuietKeeps

LEMMA PlainKeeps == IInv /\ Plain => IInv' /\ Untouched
<1> SUFFICES ASSUME IInv, Plain PROVE IInv' /\ Untouched OBVIOUS
<1> DEFINE hws == Encode(call.op, call.args)
           n == Halfwords(call.op)
<1>0. Bookkeeping /\ Calling({"plain"}) /\ Layout(fixups, code, size) /\ size \in Nat BY DEF IInv, Plain, Bookkeeping
<1>1. n \in {1, 2} /\ DOMAIN hws = 1..n BY EncodeDomain
<1>2. CASE ~Admits(call.op, call.args) \/ \E h \in DOMAIN hws : ~IsHalfword(hws[h])
  <2>1. Raise BY <1>2 DEF Plain
  <2> QED BY <2>1, RaiseKeeps DEF Raise, Untouched
<1>3. CASE ~(~Admits(call.op, call.args) \/ \E h \in DOMAIN hws : ~IsHalfword(hws[h]))
  <2>1. /\ code' = Written(code, size, hws) /\ size' = size + 2 * n
        /\ Made /\ UNCHANGED <<labels, fixups>>
    BY <1>3 DEF Plain
  <2>2. \A h \in 1..n : IsHalfword(hws[h]) BY <1>1, <1>3
  <2> HIDE DEF hws, n
  <2>3. size' \in Nat /\ size <= size' /\ size + 2 * n <= size' BY SMT, <1>0, <1>1, <2>1
  <2>4. Filling(code, size) /\ fixups \in Seq(FixupRecs) BY <1>0 DEF Layout
  <2>5. Filling(code', size') BY <1>0, <1>1, <2>1, <2>2, <2>3, <2>4, FillingWritten
  <2>6. IsWritten(code', code, size, n, hws) BY <1>0, <1>1, <2>1, WrittenFacts
  <2>7. Untouched
    <3>1. DOMAIN code \subseteq DOMAIN code' BY <2>6 DEF IsWritten
    <3> SUFFICES ASSUME NEW o \in DOMAIN code PROVE o \notin Place(size, n) BY <2>6, <3>1 DEF Untouched, IsWritten
    <3>2. o \in 0..(size - 2) BY <2>4 DEF Filling
    <3> QED BY SMT, <1>0, <3>2 DEF Place
  <2>8. Layout(fixups, code', size') BY <1>0, <2>3, <2>5, <2>7, LayoutGrows DEF Untouched
  <2>9. Layout(fixups, code, size)' BY <2>1, <2>8
  <2>10. Len(fixups') \in Nat BY SMT, <2>1, <2>4
  <2>11. \A m \in DOMAIN labels' : labels'[m] \in Nat BY <1>0, <2>1 DEF Bookkeeping
  <2>12. Bookkeeping' /\ Filled' BY <1>0, <2>1, <2>3, <2>10, <2>11, MadeKeeps
  <2> QED BY <2>7, <2>9, <2>12 DEF IInv
<1> QED BY <1>2, <1>3

LEMMA ShortKeeps == IInv /\ Short => IInv' /\ Untouched
<1> SUFFICES ASSUME IInv, Short PROVE IInv' /\ Untouched OBVIOUS
<1>0. Bookkeeping /\ Calling({"short"}) BY DEF IInv, Short
<1>1. call \in Calls /\ call.do = "short" BY <1>0, CallAt
<1>2. call.method \in DOMAIN ShortCond /\ call.to \in Names BY <1>1, CallTypes
<1>3. ShortCond[call.method] \in 0..14 BY <1>2, ConditionTypes
<1>4. Placed("bcond", ShortCond[call.method], call.to) BY DEF Short
<1>5. "bcond" \in Kinds /\ OfKind(Fixup(size, "bcond", ShortCond[call.method], call.to))
  BY DEF Kinds, OfKind, Fixup
<1> QED BY <1>0, <1>2, <1>3, <1>4, <1>5, PlacedKeeps DEF Untouched

LEMMA BranchKeeps == IInv /\ Branch => IInv' /\ Untouched
<1> SUFFICES ASSUME IInv, Branch PROVE IInv' /\ Untouched OBVIOUS
<1>0. Bookkeeping /\ Calling({"b", "bl"}) BY DEF IInv, Branch
<1>1. call \in Calls /\ call.do \in {"b", "bl"} BY <1>0, CallAt
<1>2. call.to \in Names /\ call.do \in Kinds BY <1>1, CallTypes DEF Kinds
<1>3. Placed(call.do, 0, call.to) BY DEF Branch
<1>4. OfKind(Fixup(size, call.do, 0, call.to)) BY <1>1 DEF OfKind, Fixup
<1>5. 0 \in 0..14 BY SMT
<1> QED BY <1>0, <1>2, <1>3, <1>4, <1>5, PlacedKeeps DEF Untouched

LEMMA LiteralKeeps == IInv /\ Literal => IInv' /\ Untouched
<1> SUFFICES ASSUME IInv, Literal PROVE IInv' /\ Untouched OBVIOUS
<1>0. Bookkeeping /\ Calling({"adr", "ldr"}) BY DEF IInv, Literal
<1>1. call \in Calls /\ call.do \in {"adr", "ldr"} BY <1>0, CallAt
<1>2. call.to \in Names /\ call.do \in Kinds BY <1>1, CallTypes DEF Kinds
<1>3. CASE call.reg \notin 0..14
  <2>1. Raise BY <1>3 DEF Literal
  <2> QED BY <2>1, RaiseKeeps DEF Raise, Untouched
<1>4. CASE call.reg \in 0..14
  <2>1. Placed(call.do, call.reg, call.to) BY <1>4 DEF Literal
  <2>2. OfKind(Fixup(size, call.do, call.reg, call.to)) BY <1>1 DEF OfKind, Fixup
  <2> QED BY <1>0, <1>2, <1>4, <2>1, <2>2, PlacedKeeps DEF Untouched
<1> QED BY <1>3, <1>4

LEMMA BlxKeeps == IInv /\ BlxImm => IInv' /\ Untouched
<1> SUFFICES ASSUME IInv, BlxImm PROVE IInv' /\ Untouched OBVIOUS
<1>0. Bookkeeping /\ Calling({"blx"}) BY DEF IInv, BlxImm
<1>1. call \in Calls /\ call.do = "blx" BY <1>0, CallAt
<1>2. call.addr \in Nat /\ "blx" \in Kinds BY <1>1, CallTypes DEF Kinds
<1>3. CASE call.addr % 4 # 0
  <2>1. Raise BY <1>3 DEF BlxImm
  <2> QED BY <2>1, RaiseKeeps DEF Raise, Untouched
<1>4. CASE call.addr % 4 = 0
  <2>1. Placed("blx", 0, call.addr) BY <1>4 DEF BlxImm
  <2>2. OfKind(Fixup(size, "blx", 0, call.addr)) BY <1>2, <1>4 DEF OfKind, Fixup
  <2>3. 0 \in 0..14 BY SMT
  <2> QED BY <1>0, <1>2, <2>1, <2>2, <2>3, PlacedKeeps DEF Untouched
<1> QED BY <1>3, <1>4

LEMMA WideKeeps == IInv /\ Wide => IInv' /\ Untouched
<1> SUFFICES ASSUME IInv, Wide PROVE IInv' /\ Untouched OBVIOUS
<1> DEFINE skip == <<Len(fixups), size>>
           f == Fixup(size, "bcond", WideSkip[call.method], skip)
           g == Fixup(size + 2, "b", 0, call.to)
           c1 == Written(code, size, Zeros("bcond"))
           c2 == Written(c1, size + 2, Zeros("b"))
<1>0. /\ Bookkeeping /\ Calling({"wide"}) /\ Layout(fixups, code, size) /\ size \in Nat
      /\ size + 2 \in Nat /\ size + 2 + 4 = size + 6 /\ size + 6 \in Nat
  BY SMT DEF IInv, Wide, Bookkeeping
<1>1. call \in Calls /\ call.do = "wide" BY <1>0, CallAt
<1>2. call.method \in DOMAIN WideSkip /\ call.to \in Names BY <1>1, CallTypes
<1>3. WideSkip[call.method] \in 0..14 /\ 0 \in 0..14 BY SMT, <1>2, ConditionTypes
<1>4. Len(fixups) \in Nat BY SMT, <1>0 DEF Layout
<1>5. f \in FixupRecs /\ f.at = size /\ f.kind = "bcond" /\ OfKind(f)
  BY <1>0, <1>3, <1>4 DEF FixupRecs, Fixup, OfKind, Kinds
<1>6. g \in FixupRecs /\ g.at = size + 2 /\ g.kind = "b" /\ OfKind(g)
  BY <1>0, <1>2, <1>3 DEF FixupRecs, Fixup, OfKind, Kinds
<1>7. CASE skip \in DOMAIN labels
  <2>1. Raise BY <1>7 DEF Wide
  <2> QED BY <2>1, RaiseKeeps DEF Raise, Untouched
<1>8. CASE skip \notin DOMAIN labels
  <2>1. /\ fixups' = Append(Append(fixups, f), g) /\ code' = c2 /\ size' = size + 6
        /\ labels' = Defined(labels, skip, Base + size + 6) /\ Made
    BY <1>8 DEF Wide
  <2> HIDE DEF f, g
  <2>2. Span("bcond") = 2 /\ Span("b") = 4 BY DEF Span
  <2>3. /\ Layout(Append(fixups, f), c1, size + 2)
        /\ \A o \in DOMAIN code : c1[o] = code[o]
        /\ DOMAIN code \subseteq DOMAIN c1
    BY <1>0, <1>5, <2>2, LayoutPlaced
  <2> HIDE DEF c1
  <2>4. /\ Layout(Append(Append(fixups, f), g), c2, size + 2 + 4)
        /\ \A o \in DOMAIN c1 : c2[o] = c1[o]
        /\ DOMAIN c1 \subseteq DOMAIN c2
    BY <1>0, <1>6, <2>2, <2>3, LayoutPlaced
  <2> HIDE DEF c2
  <2>5. Layout(fixups, code, size)' BY <1>0, <2>1, <2>4
  <2>6. Untouched BY <2>1, <2>3, <2>4 DEF Untouched
  <2>7. Len(fixups') \in Nat BY SMT, <2>5 DEF Layout
  <2>8. Base + size + 6 \in Nat BY SMT, <1>0, BaseAssumption
  <2>9. \A n \in DOMAIN labels : labels[n] \in Nat BY <1>0 DEF Bookkeeping
  <2>10. \A n \in DOMAIN labels' : labels'[n] \in Nat BY <2>1, <2>8, <2>9, DefinedFacts
  <2>11. Bookkeeping' /\ Filled' BY <1>0, <2>1, <2>7, <2>10, MadeKeeps
  <2> QED BY <2>5, <2>6, <2>11 DEF IInv
<1> QED BY <1>7, <1>8

LEMMA PhaseKeeps == IInv /\ (Emitted \/ Return) => IInv' /\ Untouched
<1> SUFFICES ASSUME IInv, Emitted \/ Return PROVE IInv' /\ Untouched OBVIOUS
<1>1. UNCHANGED <<program, ip, size, labels, fixups, code, next>> BY DEF Emitted, Return
<1>2. Bookkeeping /\ fixups \in Seq(FixupRecs) BY DEF IInv, Layout
<1>3. phase' \in {"resolve", "done"} /\ (phase' = "done" => next = Len(fixups) + 1)
  <2>1. CASE Emitted BY <2>1 DEF Emitted
  <2>2. CASE Return BY SMT, <1>2, <2>2 DEF Return, Bookkeeping
  <2> QED BY <2>1, <2>2
<1>4. Bookkeeping' BY <1>1, <1>2, <1>3 DEF Bookkeeping
<1>5. Layout(fixups, code, size)' BY <1>1 DEF IInv
<1>6. Filled' BY <1>1 DEF IInv, Filled, Ready, Off, Known, Target, Origin
<1> QED BY <1>1, <1>4, <1>5, <1>6 DEF IInv, Untouched

LEMMA TargetType ==
  ASSUME IInv, NEW f \in FixupRecs, OfKind(f), Known(f)
  PROVE  Target(f) \in Nat /\ Origin(f) \in Int /\ Off(f) \in Int /\ Target(f) = Origin(f) + Off(f)
<1>1. Target(f) \in Nat
  <2>1. CASE f.kind = "blx" BY <2>1 DEF Target, OfKind
  <2>2. CASE f.kind # "blx" BY <2>2 DEF Target, Known, IInv, Bookkeeping
  <2> QED BY <2>1, <2>2
<1>2. Base + f.at + 4 \in Int /\ f.at \in Nat BY SMT, BaseAssumption DEF FixupRecs
<1>3. Align4(Base + f.at + 4) \in Int BY <1>2, AlignType
<1>4. Origin(f) \in Int BY <1>2, <1>3 DEF Origin
<1> QED BY SMT, <1>1, <1>4 DEF Off

\* resolve(): the fixup becomes ready, those before it stay so, and nothing
\* but its placeholder changes.
LEMMA ResolveKeeps ==
  ASSUME IInv, Resolve
  PROVE  /\ IInv'
         /\ \/ Untouched /\ DOMAIN code' = DOMAIN code
            \/ /\ DOMAIN code' = DOMAIN code
               /\ \A o \in DOMAIN code :
                    code'[o] = code[o] \/ o \in Place(fixups[next].at, Halves(fixups[next].kind))
         /\ size' = size
<1> DEFINE f == fixups[next]
           n == Halves(f.kind)
           chunk == Chunk(f, Off(f))
<1>0. /\ Bookkeeping /\ Layout(fixups, code, size) /\ size \in Nat
      /\ phase = "resolve" /\ next \in Nat \ {0} /\ next <= Len(fixups) /\ Len(fixups) \in Nat
  BY SMT DEF IInv, Bookkeeping, Resolve, Layout
<1>1. next \in 1..Len(fixups) BY SMT, <1>0
<1>2. f \in FixupRecs /\ Fits(f, code, size) BY SMT, <1>0, <1>1 DEF Layout
<1>3. CASE ~Known(f) \/ ~InReach(f, Off(f))
  <2>1. Raise BY <1>3 DEF Resolve, Off
  <2> QED BY <2>1, RaiseKeeps DEF Raise, Untouched
<1>4. CASE Known(f) /\ InReach(f, Off(f))
  <2>1. /\ code' = Written(code, f.at, chunk) /\ next' = next + 1
        /\ UNCHANGED <<program, ip, size, labels, fixups, phase>>
    BY <1>4 DEF Resolve, Off
  <2>2. OfKind(f) BY <1>2 DEF Fits
  <2>3. Off(f) \in Int BY <1>2, <1>4, <2>2, TargetType
  <2>4. FillsWithHalfwords(f, chunk) BY <1>2, <1>4, <2>3, ChunkFills
  <2> HIDE DEF f
  <2>5. f.kind \in Kinds /\ f.at \in Nat BY <1>2 DEF FixupRecs
  <2>6. n \in {1, 2} /\ Span(f.kind) = 2 * n BY <2>5, KindFacts
  <2>7. DOMAIN chunk = 1..n /\ \A h \in 1..n : IsHalfword(chunk[h]) BY <2>4 DEF FillsWithHalfwords
  <2> HIDE DEF chunk, n
  <2>8. IsWritten(code', code, f.at, n, chunk) BY <2>1, <2>5, <2>6, <2>7, WrittenFacts
  <2>9. DOMAIN code' = DOMAIN code BY <1>2, <2>8 DEF Fits, IsWritten, n
  <2>10. \A o \in DOMAIN code : code'[o] = code[o] \/ o \in Place(f.at, n) BY <2>8 DEF IsWritten
  <2>11. Layout(fixups, code, size)'
    <3>1. f.at + 2 * n <= size /\ size <= size BY SMT, <1>0, <1>2, <2>6 DEF Fits
    <3>2. Filling(code, size) BY <1>0 DEF Layout
    <3>3. Filling(code', size) BY <1>0, <2>1, <2>5, <2>6, <2>7, <3>1, <3>2, FillingWritten
    <3>4. Layout(fixups, code', size) BY <1>0, <2>9, <3>1, <3>3, LayoutGrows
    <3> QED BY <2>1, <3>4
  <2>12. Bookkeeping'
    <3>1. next + 1 \in 1..(Len(fixups) + 1) BY SMT, <1>0
    <3> QED BY <1>0, <2>1, <3>1 DEF Bookkeeping
  <2>13. Filled'
    <3> SUFFICES ASSUME NEW i \in 1..next PROVE Ready(fixups[i])'
      <4>1. next' - 1 = next BY SMT, <1>0, <2>1
      <4> QED BY <2>1, <4>1 DEF Filled
    <3>1. /\ Off(fixups[i])' = Off(fixups[i]) /\ Known(fixups[i])' = Known(fixups[i])
          /\ fixups[i]' = fixups[i]
      BY <2>1 DEF Off, Target, Origin, Known
    <3>2. CASE i = next
      <4>1. code'[f.at] = chunk[1] /\ (n = 2 => code'[f.at + 2] = chunk[2]) BY <2>8 DEF IsWritten
      <4> QED BY <1>4, <2>1, <3>1, <3>2, <4>1 DEF Ready, f, n, chunk
    <3>3. CASE i # next
      <4> DEFINE g == fixups[i]
      <4>1. i \in 1..(next - 1) /\ i \in 1..Len(fixups) /\ i < next BY SMT, <1>0, <3>3
      <4>2. Ready(g) BY <4>1 DEF IInv, Filled
      <4>3. g \in FixupRecs /\ Fits(g, code, size) /\ Before(g, f) BY SMT, <1>0, <1>1, <4>1 DEF Layout, f
      <4> HIDE DEF g
      <4>4. g.kind \in Kinds /\ g.at \in Nat BY <4>3 DEF FixupRecs
      <4>5. Halves(g.kind) \in {1, 2} /\ Span(g.kind) = 2 * Halves(g.kind) BY <4>4, KindFacts
      <4>6. /\ g.at \notin Place(f.at, n) /\ (Halves(g.kind) = 2 => g.at + 2 \notin Place(f.at, n))
        BY SMT, <2>5, <2>6, <4>3, <4>4, <4>5 DEF Place, Before
      <4>7. g.at \in DOMAIN code /\ (Halves(g.kind) = 2 => g.at + 2 \in DOMAIN code)
        BY SMT, <4>3, <4>5 DEF Fits, Place
      <4>8. code'[g.at] = code[g.at] /\ (Halves(g.kind) = 2 => code'[g.at + 2] = code[g.at + 2])
        BY <2>10, <4>6, <4>7
      <4>9. /\ Off(g)' = Off(g) /\ Known(g)' = Known(g) /\ g' = g BY <3>1 DEF g
      <4> QED BY <4>2, <4>8, <4>9 DEF Ready, g
    <3> QED BY <3>2, <3>3
  <2> QED BY <2>1, <2>9, <2>10, <2>11, <2>12, <2>13 DEF IInv, f, n
<1> QED BY <1>3, <1>4

LEMMA NextKeeps == IInv /\ [Next]_vars => IInv'
<1> SUFFICES ASSUME IInv, [Next]_vars PROVE IInv' OBVIOUS
<1>1. CASE Next
  BY <1>1, LabelKeeps, AssignKeeps, PlainKeeps, RawKeeps, ShortKeeps, BranchKeeps, LiteralKeeps,
     BlxKeeps, WideKeeps, PhaseKeeps, ResolveKeeps DEF Next
<1>2. CASE UNCHANGED vars
  <2>1. UNCHANGED <<program, ip, size, labels, fixups, code, next, phase>> BY <1>2 DEF vars
  <2>2. Bookkeeping' BY <2>1 DEF IInv, Bookkeeping
  <2>3. Layout(fixups, code, size)' BY <2>1 DEF IInv
  <2>4. Filled' BY <2>1 DEF IInv, Filled, Ready, Off, Known, Target, Origin
  <2> QED BY <2>2, <2>3, <2>4 DEF IInv
<1> QED BY <1>1, <1>2

LEMMA Inductive == Spec => []IInv
  BY InitIInv, NextKeeps, PTL DEF Spec

-----------------------------------------------------------------------------
(* The theorems.                                                           *)

\* class Asm: for every base and every program the buffer, its labels and its
\* placeholders are well-formed, also after an exception.
THEOREM TypesHold == Spec => []TypeOK
<1>1. ASSUME IInv PROVE TypeOK
  <2>1. Bookkeeping /\ Filling(code, size) /\ fixups \in Seq(FixupRecs) BY <1>1 DEF IInv, Layout
  <2>2. \A i \in DOMAIN fixups : fixups[i] \in FixupRecs BY SMT, <2>1
  <2>3. \A i \in DOMAIN fixups : fixups[i].at \in Nat /\ fixups[i].kind \in Kinds BY <2>2 DEF FixupRecs
  <2> QED BY <2>1, <2>3 DEF TypeOK, Bookkeeping, Filling
<1> QED BY <1>1, Inductive, PTL

\* emit and resolve(): for every program, what was emitted stays, but for
\* the placeholder of the fixup that resolve() is at.
THEOREM PlaceholdersOnly == Spec => OnlyPlaceholders
<1>1. ASSUME IInv, [Next]_vars PROVE [Kept]_vars
  <2>1. CASE Label \/ Assign \/ Plain \/ Raw \/ Short \/ Branch \/ Literal \/ BlxImm \/ Wide \/ Emitted
    <3>1. Untouched
      BY <1>1, <2>1, LabelKeeps, AssignKeeps, PlainKeeps, RawKeeps, ShortKeeps, BranchKeeps, LiteralKeeps,
         BlxKeeps, WideKeeps, PhaseKeeps
    <3>2. phase = "emit"
      BY <2>1 DEF Label, Assign, Plain, Raw, Short, Branch, Literal, BlxImm, Wide, Emitted, Calling
    <3> QED BY <3>1, <3>2 DEF Untouched, Kept
  <2>2. CASE Resolve
    <3> DEFINE f == fixups[next]
    <3>1. /\ next \in Nat \ {0} /\ next <= Len(fixups) /\ fixups \in Seq(FixupRecs)
          /\ phase = "resolve" /\ \A i \in 1..Len(fixups) : Fits(fixups[i], code, size)
      BY SMT, <1>1, <2>2 DEF IInv, Bookkeeping, Resolve, Layout
    <3>2. next \in DOMAIN fixups /\ f \in FixupRecs BY SMT, <3>1
    <3>3. /\ DOMAIN code' = DOMAIN code /\ size' = size
          /\ \A o \in DOMAIN code : code'[o] = code[o] \/ o \in Place(f.at, Halves(f.kind))
      BY <1>1, <2>2, ResolveKeeps DEF Untouched
    <3> HIDE DEF f
    <3>4. f.at \in Nat /\ f.kind \in Kinds BY <3>2 DEF FixupRecs
    <3>5. Halves(f.kind) \in {1, 2} /\ Span(f.kind) = 2 * Halves(f.kind) BY <3>4, KindFacts
    <3>6. Place(f.at, Halves(f.kind)) \subseteq f.at..(f.at + Span(f.kind) - 1)
      BY SMT, <3>4, <3>5 DEF Place
    <3>7. \A o \in Place(f.at, Halves(f.kind)) : AtNext(o) BY <3>2, <3>6 DEF f, AtNext
    <3> QED BY <3>1, <3>3, <3>7 DEF Kept
  <2>3. CASE Return
    <3>1. Untouched /\ DOMAIN code' = DOMAIN code /\ size' = size BY <1>1, <2>3, PhaseKeeps DEF Return
    <3> QED BY <3>1 DEF Untouched, Kept
  <2>4. CASE UNCHANGED vars BY <2>4
  <2> QED BY <1>1, <2>1, <2>2, <2>3, <2>4 DEF Next
<1> QED BY <1>1, Inductive, PTL DEF Spec, OnlyPlaceholders

\* A fixup that is filled in is read as asked for.
LEMMA ReadyIsRead ==
  ASSUME IInv, NEW f \in FixupRecs, OfKind(f), Ready(f), Even(f)
  PROVE  Read(f) = [kind |-> f.kind, arg |-> f.arg, to |-> Target(f)]
<1> DEFINE off == Off(f)
           pc == Base + f.at
<1>0. f.kind \in Kinds /\ f.arg \in 0..14 /\ f.at \in Nat BY DEF FixupRecs
<1>1. Known(f) /\ InReach(f, off) BY DEF Ready
<1>2. Target(f) \in Nat /\ off \in Int /\ Target(f) = Origin(f) + off BY <1>1, TargetType
<1>3. pc \in Int /\ pc % 2 = 0 BY SMT, <1>0, BaseAssumption DEF Even
<1>4. Align4(pc + 4) \in Int /\ Align4(pc + 4) % 4 = 0
  <2>1. pc + 4 \in Int BY SMT, <1>3
  <2> QED BY <2>1, AlignType
<1>5. Origin(f) = IF f.kind \in {"blx", "adr", "ldr"} THEN Align4(pc + 4) ELSE pc + 4 BY DEF Origin
<1> HIDE DEF off
<1>6. CASE f.kind = "bcond"
  <2>1. /\ InShort(off) /\ Chunk(f, off) = EncodeShort(f.arg, off)
        /\ Target(f) = pc + 4 + off
    BY <1>1, <1>2, <1>5, <1>6 DEF InReach, Chunk
  <2>2. EncodeShort(f.arg, off) = <<\hD000 + 256 * f.arg + Bits(off, 2, 256)>> BY DEF EncodeShort
  <2>3. code[f.at] = \hD000 + 256 * f.arg + Bits(off, 2, 256)
    <3>1. code[f.at] = Chunk(f, off)[1] BY DEF Ready, off
    <3> QED BY SMT, <2>1, <2>2, <3>1
  <2>4. code[f.at] \div 4096 = 13 /\ Bits(code[f.at], 256, 16) = f.arg /\ ShortOffset(code[f.at]) = off
    BY <1>0, <1>2, <2>1, <2>3, ShortRoundTrip
  <2> HIDE DEF pc
  <2>5. Base + f.at + 4 + ShortOffset(code[f.at]) = Target(f) BY <2>1, <2>4 DEF pc
  <2> QED BY <1>6, <2>4, <2>5 DEF Read
<1>7. CASE f.kind \in {"b", "bl", "blx"}
  <2>1. InT4(f.kind, off) /\ Chunk(f, off) = EncodeT4(f.kind, off) /\ Halves(f.kind) = 2 /\ f.arg = 0
    <3>1. InT4(f.kind, off)
      <4>1. f.kind # "bcond" /\ f.kind # "adr" /\ f.kind # "ldr" BY <1>7
      <4>2. InReach(f, off) = InT4(f.kind, off) BY <1>7, <4>1 DEF InReach
      <4> QED BY <1>1, <4>2
    <3>2. Chunk(f, off) = EncodeT4(f.kind, off) BY SMT, <1>7 DEF Chunk
    <3>3. Halves(f.kind) = 2 /\ f.arg = 0 BY <1>7 DEF Halves, OfKind
    <3> QED BY <3>1, <3>2, <3>3
  <2>2. off % 2 = 0 /\ (f.kind = "blx" => off % 4 = 0)
    <3>1. CASE f.kind = "blx"
      <4>1. Target(f) % 4 = 0 BY <3>1 DEF OfKind, Target
      <4>2. Target(f) = Align4(pc + 4) + off BY <1>2, <1>5, <3>1
      <4> HIDE DEF pc
      <4> QED BY SMT, <1>2, <1>4, <4>1, <4>2
    <3>2. CASE f.kind \in {"b", "bl"}
      <4>1. Target(f) % 2 = 0 BY <3>2 DEF Even
      <4>2. Target(f) = pc + 4 + off BY SMT, <1>2, <1>5, <3>2
      <4> HIDE DEF pc
      <4> QED BY SMT, <1>2, <1>3, <3>2, <4>1, <4>2
    <3> QED BY <1>7, <3>1, <3>2
  <2>3. T4Read(f.kind, off, EncodeT4(f.kind, off)[1], EncodeT4(f.kind, off)[2])
    BY <1>2, <1>7, <2>1, <2>2, T4RoundTrip
  <2>4. code[f.at] = EncodeT4(f.kind, off)[1] /\ code[f.at + 2] = EncodeT4(f.kind, off)[2]
    BY <2>1 DEF Ready, off
  <2>5. Reads(pc, code[f.at], code[f.at + 2])
          = [kind |-> f.kind, arg |-> 0, to |-> (IF f.kind = "blx" THEN Align4(pc + 4) ELSE pc + 4) + off]
    BY <1>2, <1>3, <1>7, <2>3, <2>4, T4Reads
  <2>6. (IF f.kind = "blx" THEN Align4(pc + 4) ELSE pc + 4) = Origin(f) BY <1>5, <1>7
  <2>7. f.kind # "bcond" BY <1>7
  <2> QED BY <1>2, <2>1, <2>5, <2>6, <2>7 DEF Read
<1>8. CASE f.kind \in {"adr", "ldr"}
  <2>1. InLiteral(off) /\ Halves(f.kind) = 2 /\ f.kind # "bcond" BY <1>1, <1>8 DEF InReach, Halves
  <2>2. Target(f) = Align4(pc + 4) + off BY <1>2, <1>5, <1>8
  <2>3. code[f.at] = Chunk(f, off)[1] /\ code[f.at + 2] = Chunk(f, off)[2] BY <2>1 DEF Ready, off
  <2>4. Reads(pc, Chunk(f, off)[1], Chunk(f, off)[2])
          = [kind |-> f.kind, arg |-> f.arg, to |-> Align4(pc + 4) + off]
    <3>1. CASE f.kind = "adr"
      <4>1. Chunk(f, off) = EncodeAdr(f.arg, off) BY SMT, <3>1 DEF Chunk
      <4> QED BY <1>0, <1>2, <1>3, <2>1, <3>1, <4>1, AdrReads
    <3>2. CASE f.kind = "ldr"
      <4>1. Chunk(f, off) = EncodeLdrLit(f.arg, off) BY SMT, <3>2 DEF Chunk
      <4> QED BY <1>0, <1>2, <1>3, <2>1, <3>2, <4>1, LdrReads
    <3> QED BY <1>8, <3>1, <3>2
  <2> QED BY <2>1, <2>2, <2>3, <2>4 DEF Read
<1> QED BY <1>0, <1>6, <1>7, <1>8 DEF Kinds

\* resolve(): for every base and every program that is assembled without an
\* exception, each branch, call, ADR and literal load lands on its label.
THEOREM ReferencesLand == Spec => []LandsOnLabel
<1>1. ASSUME IInv PROVE LandsOnLabel
  <2> SUFFICES ASSUME phase = "done", NEW i \in DOMAIN fixups, Even(fixups[i])
               PROVE  Read(fixups[i]) = [kind |-> fixups[i].kind, arg |-> fixups[i].arg, to |-> Target(fixups[i])]
    BY DEF LandsOnLabel
  <2>1. /\ fixups \in Seq(FixupRecs) /\ Filled /\ next = Len(fixups) + 1
        /\ \A j \in 1..Len(fixups) : Fits(fixups[j], code, size)
    BY <1>1 DEF IInv, Bookkeeping, Layout
  <2>2. i \in 1..Len(fixups) /\ i \in 1..(next - 1) /\ fixups[i] \in FixupRecs BY SMT, <2>1
  <2>3. Ready(fixups[i]) /\ OfKind(fixups[i]) BY <2>1, <2>2 DEF Filled, Fits
  <2> QED BY <1>1, <2>2, <2>3, ReadyIsRead
<1> QED BY <1>1, Inductive, PTL

-----------------------------------------------------------------------------
(* The conditions, and the flags they are about.                           *)

\* What a condition means, flag by flag.
LEMMA Conditions ==
  ASSUME NEW n \in BOOLEAN, NEW z \in BOOLEAN, NEW c \in BOOLEAN, NEW v \in BOOLEAN,
         NEW f, f = [n |-> n, z |-> z, c |-> c, v |-> v]
  PROVE  /\ Passes(0, f) <=> z
         /\ Passes(1, f) <=> ~z
         /\ Passes(2, f) <=> c
         /\ Passes(3, f) <=> ~c
         /\ Passes(8, f) <=> (c /\ ~z)
         /\ Passes(9, f) <=> ~(c /\ ~z)
         /\ Passes(10, f) <=> (n <=> v)
         /\ Passes(11, f) <=> ~(n <=> v)
         /\ Passes(12, f) <=> ((n <=> v) /\ ~z)
         /\ Passes(13, f) <=> ~((n <=> v) /\ ~z)
<1>1. f.n = n /\ f.z = z /\ f.c = c /\ f.v = v OBVIOUS
<1>2. Passes(0, f) <=> z BY <1>1 DEF Passes
<1>3. Passes(1, f) <=> ~z BY <1>1 DEF Passes
<1>4. Passes(2, f) <=> c BY <1>1 DEF Passes
<1>5. Passes(3, f) <=> ~c BY <1>1 DEF Passes
<1>6. Passes(8, f) <=> (c /\ ~z) BY <1>1 DEF Passes
<1>7. Passes(9, f) <=> ~(c /\ ~z) BY <1>1 DEF Passes
<1>8. Passes(10, f) <=> (n <=> v) BY <1>1 DEF Passes
<1>9. Passes(11, f) <=> ~(n <=> v) BY <1>1 DEF Passes
<1>10. Passes(12, f) <=> ((n <=> v) /\ ~z) BY <1>1 DEF Passes
<1>11. Passes(13, f) <=> ~((n <=> v) /\ ~z) BY <1>1 DEF Passes
<1> QED BY <1>2, <1>3, <1>4, <1>5, <1>6, <1>7, <1>8, <1>9, <1>10, <1>11

\* The flags after CMP say how the two words compare, unsigned and signed.
LEMMA Flags ==
  ASSUME NEW x \in Words, NEW y \in Words
  PROVE  \E n, z, c, v \in BOOLEAN :
           /\ Cmp(x, y, 8) = [n |-> n, z |-> z, c |-> c, v |-> v]
           /\ z <=> x = y
           /\ c <=> x >= y
           /\ (n <=> v) <=> Signed(x, 8) >= Signed(y, 8)
           /\ x = y <=> Signed(x, 8) = Signed(y, 8)
           /\ Signed(x, 8) \in Int /\ Signed(y, 8) \in Int
<1> DEFINE d == (x - y + 8) % 8
           n == 2 * d >= 8
           z == d = 0
           c == x >= y
           v == (2 * x >= 8) # (2 * y >= 8) /\ n # (2 * x >= 8)
<1>1. x \in 0..7 /\ y \in 0..7 BY DEF Words
<1>2. d = IF x >= y THEN x - y ELSE x - y + 8 BY SMT, <1>1
<1>3. Cmp(x, y, 8) = [n |-> n, z |-> z, c |-> c, v |-> v] BY Zenon DEF Cmp
<1>4. n \in BOOLEAN /\ z \in BOOLEAN /\ c \in BOOLEAN /\ v \in BOOLEAN OBVIOUS
<1>5. z <=> x = y BY SMT, <1>1, <1>2
<1> HIDE DEF d
<1>6. v <=> ((2 * x >= 8) /\ ~(2 * y >= 8) /\ ~n) \/ (~(2 * x >= 8) /\ (2 * y >= 8) /\ n) OBVIOUS
<1>7. /\ Signed(x, 8) = IF 2 * x >= 8 THEN x - 8 ELSE x
      /\ Signed(y, 8) = IF 2 * y >= 8 THEN y - 8 ELSE y
  BY DEF Signed
<1>8. (n <=> v) <=> Signed(x, 8) >= Signed(y, 8)
  <2> HIDE DEF v
  <2> QED BY SMT, <1>1, <1>2, <1>6, <1>7
<1>9. x = y <=> Signed(x, 8) = Signed(y, 8) BY SMT, <1>1, <1>7
<1>10. Signed(x, 8) \in Int /\ Signed(y, 8) \in Int BY SMT, <1>1, <1>7
<1> HIDE DEF n, z, c, v
<1> QED BY <1>3, <1>4, <1>5, <1>8, <1>9, <1>10, Zenon DEF c

\* beq ... bhs_w: the condition each short method puts in, and the opposite one that a
\* wide method skips its b.w with.
LEMMA ConditionIsSaid ==
  ASSUME NEW x \in Words, NEW y \in Words
  PROVE  /\ \A m \in DOMAIN ShortCond : Passes(ShortCond[m], Cmp(x, y, 8)) <=> Says(m, x, y, 8)
         /\ \A m \in DOMAIN WideSkip : Passes(WideSkip[m], Cmp(x, y, 8)) <=> ~Says(m, x, y, 8)
<1> DEFINE sx == Signed(x, 8)
           sy == Signed(y, 8)
           f == Cmp(x, y, 8)
<1>1. PICK n, z, c, v \in BOOLEAN :
           /\ f = [n |-> n, z |-> z, c |-> c, v |-> v]
           /\ z <=> x = y
           /\ c <=> x >= y
           /\ (n <=> v) <=> sx >= sy
           /\ x = y <=> sx = sy
           /\ sx \in Int /\ sy \in Int
  BY Flags
<1> HIDE DEF f
<1>2. /\ Passes(0, f) <=> z
      /\ Passes(1, f) <=> ~z
  BY <1>1, Conditions
<1>3. /\ Passes(2, f) <=> c
      /\ Passes(3, f) <=> ~c
      /\ Passes(8, f) <=> (c /\ ~z)
      /\ Passes(9, f) <=> ~(c /\ ~z)
      /\ Passes(10, f) <=> (n <=> v)
      /\ Passes(11, f) <=> ~(n <=> v)
      /\ Passes(12, f) <=> ((n <=> v) /\ ~z)
      /\ Passes(13, f) <=> ~((n <=> v) /\ ~z)
  BY <1>1, Conditions
<1> HIDE DEF sx, sy
<1>4. x \in Int /\ y \in Int BY SMT DEF Words
<1>5. /\ Passes(0, f) <=> x = y
      /\ Passes(1, f) <=> x # y
      /\ Passes(2, f) <=> x >= y
      /\ Passes(3, f) <=> x < y
      /\ Passes(8, f) <=> x > y
      /\ Passes(9, f) <=> x <= y
      /\ Passes(10, f) <=> sx >= sy
      /\ Passes(11, f) <=> sx < sy
      /\ Passes(12, f) <=> sx > sy
      /\ Passes(13, f) <=> sx <= sy
  <2>1. x = y <=> sx = sy BY <1>1
  <2>2. sx \in Int /\ sy \in Int BY <1>1
  <2>3. /\ Passes(2, f) <=> x >= y
        /\ Passes(3, f) <=> x < y
        /\ Passes(8, f) <=> x > y
        /\ Passes(9, f) <=> x <= y
    BY SMT, <1>1, <1>3, <1>4
  <2>4. /\ Passes(0, f) <=> x = y
        /\ Passes(1, f) <=> x # y
    BY <1>1, <1>2
  <2>5. Passes(10, f) <=> sx >= sy BY <1>1, <1>3
  <2>6. Passes(11, f) <=> ~(sx >= sy) BY <1>1, <1>3
  <2>7. Passes(12, f) <=> (sx >= sy /\ ~(sx = sy)) BY <1>1, <1>3
  <2>8. Passes(13, f) <=> ~(sx >= sy /\ ~(sx = sy)) BY <1>1, <1>3
  <2> QED BY SMT, <2>2, <2>3, <2>4, <2>5, <2>6, <2>7, <2>8
<1>6. ASSUME NEW m \in DOMAIN ShortCond PROVE Passes(ShortCond[m], f) <=> Says(m, x, y, 8)
  <2>1. CASE m = "beq" BY SMT, <1>5, <2>1 DEF Says, ShortCond, sx, sy
  <2>2. CASE m = "bne" BY SMT, <1>5, <2>2 DEF Says, ShortCond, sx, sy
  <2>3. CASE m = "bcs" BY SMT, <1>5, <2>3 DEF Says, ShortCond, sx, sy
  <2>4. CASE m = "bhs" BY SMT, <1>5, <2>4 DEF Says, ShortCond, sx, sy
  <2>5. CASE m = "bcc" BY SMT, <1>5, <2>5 DEF Says, ShortCond, sx, sy
  <2>6. CASE m = "blo" BY SMT, <1>5, <2>6 DEF Says, ShortCond, sx, sy
  <2>7. CASE m = "bhi" BY SMT, <1>5, <2>7 DEF Says, ShortCond, sx, sy
  <2>8. CASE m = "bls" BY SMT, <1>5, <2>8 DEF Says, ShortCond, sx, sy
  <2>9. CASE m = "bge" BY SMT, <1>5, <2>9 DEF Says, ShortCond, sx, sy
  <2>10. CASE m = "blt" BY SMT, <1>5, <2>10 DEF Says, ShortCond, sx, sy
  <2>11. CASE m = "bgt" BY SMT, <1>5, <2>11 DEF Says, ShortCond, sx, sy
  <2>12. CASE m = "ble" BY SMT, <1>5, <2>12 DEF Says, ShortCond, sx, sy
  <2> QED BY <2>1, <2>2, <2>3, <2>4, <2>5, <2>6, <2>7, <2>8, <2>9, <2>10, <2>11, <2>12 DEF ShortCond
<1>7. ASSUME NEW m \in DOMAIN WideSkip PROVE Passes(WideSkip[m], f) <=> ~Says(m, x, y, 8)
  <2>1. CASE m = "beq_w" BY SMT, <1>5, <2>1 DEF Says, WideSkip, sx, sy
  <2>2. CASE m = "bne_w" BY SMT, <1>5, <2>2 DEF Says, WideSkip, sx, sy
  <2>3. CASE m = "blt_w" BY SMT, <1>1, <1>5, <2>3 DEF Says, WideSkip, sx, sy
  <2>4. CASE m = "bge_w" BY SMT, <1>1, <1>5, <2>4 DEF Says, WideSkip, sx, sy
  <2>5. CASE m = "bgt_w" BY SMT, <1>1, <1>5, <2>5 DEF Says, WideSkip, sx, sy
  <2>6. CASE m = "ble_w" BY SMT, <1>1, <1>5, <2>6 DEF Says, WideSkip, sx, sy
  <2>7. CASE m = "bhi_w" BY SMT, <1>4, <1>5, <2>7 DEF Says, WideSkip, sx, sy
  <2>8. CASE m = "bhs_w" BY SMT, <1>4, <1>5, <2>8 DEF Says, WideSkip, sx, sy
  <2> QED BY <2>1, <2>2, <2>3, <2>4, <2>5, <2>6, <2>7, <2>8 DEF WideSkip
<1> QED BY <1>6, <1>7 DEF f

-----------------------------------------------------------------------------
(* Where the core goes from a fixup that was filled in.                    *)

LEMMA ShortGoes ==
  ASSUME IInv, NEW f \in FixupRecs, OfKind(f), Ready(f), Even(f), f.kind = "bcond", NEW flags
  PROVE  After(Base + f.at, flags) = IF Passes(f.arg, flags) THEN Target(f) ELSE Base + f.at + 2
<1> DEFINE hw == code[f.at]
           sixteen == Bits(hw, 256, 16)
           off == ShortOffset(hw)
           base == Base + f.at
<1>1. Read(f) = [kind |-> "bcond", arg |-> f.arg, to |-> Target(f)] BY ReadyIsRead
<1>2. Read(f) = [kind |-> IF hw \div 4096 = 13 THEN "bcond" ELSE "other",
                 arg |-> sixteen, to |-> Base + f.at + 4 + off]
  BY DEF Read
<1> HIDE DEF sixteen, off
<1>3. /\ (IF hw \div 4096 = 13 THEN "bcond" ELSE "other") = "bcond"
      /\ sixteen = f.arg /\ Base + f.at + 4 + off = Target(f)
  BY <1>1, <1>2
<1>4. hw \div 4096 = 13 BY <1>3
<1>5. (Base + f.at) - Base = f.at BY SMT, BaseAssumption DEF FixupRecs
<1> QED BY <1>3, <1>4, <1>5 DEF After, sixteen, off

LEMMA BranchGoes ==
  ASSUME IInv, NEW f \in FixupRecs, OfKind(f), Ready(f), Even(f), f.kind = "b", NEW flags,
         f.at \in DOMAIN code
  PROVE  After(Base + f.at, flags) = Target(f)
<1> DEFINE h1 == code[f.at]
           h2 == code[f.at + 2]
           pc == Base + f.at
           t == T4Offset(h1, h2)
<1>1. Read(f) = [kind |-> "b", arg |-> f.arg, to |-> Target(f)] BY ReadyIsRead
<1>2. Read(f) = Reads(pc, h1, h2) BY DEF Read
<1>3. IsT4(h1, h2) /\ Target(f) = pc + 4 + t
  <2> HIDE DEF h1, h2, pc
  <2>1. Reads(pc, h1, h2).kind = "b" /\ Reads(pc, h1, h2).to = Target(f) BY <1>1, <1>2
  <2>2. IsT4(h1, h2) BY <2>1 DEF Reads
  <2>3. Reads(pc, h1, h2) = [kind |-> T4Kind(Bits(h2, 4096, 8)), arg |-> 0,
          to |-> (IF T4Kind(Bits(h2, 4096, 8)) = "blx" THEN Align4(pc + 4) ELSE pc + 4) + t]
    BY <2>2 DEF Reads
  <2>4. T4Kind(Bits(h2, 4096, 8)) = "b" BY <2>1, <2>3
  <2> QED BY <2>1, <2>2, <2>3, <2>4
<1>4. h1 \in Nat /\ h1 <= 65535 BY DEF IInv, Layout, Filling, IsHalfword
<1>5. (Base + f.at) - Base = f.at /\ (Base + f.at) - Base + 2 = f.at + 2 BY SMT, BaseAssumption DEF FixupRecs
<1> HIDE DEF t
<1>6. h1 \div 4096 # 13
  <2>1. (h1 \div 2048) % 32 = 30 BY <1>3 DEF IsT4, Bits
  <2> HIDE DEF h1
  <2> QED BY SMT, <1>4, <2>1
<1> QED BY <1>3, <1>5, <1>6 DEF After, t

-----------------------------------------------------------------------------
(* Each conditional branch that was asked for has its placeholders.        *)

ShortAsked(a, fx) ==
  /\ a.span = 2 /\ a.method \in DOMAIN ShortCond
  /\ \E i \in 1..Len(fx) : fx[i] = Fixup(a.at, "bcond", ShortCond[a.method], a.to)
WideAsked(a, fx, lb) ==
  /\ a.span = 6 /\ a.method \in DOMAIN WideSkip
  /\ \E skip \in Nat \X Nat :
       /\ \E i \in 1..Len(fx) : fx[i] = Fixup(a.at, "bcond", WideSkip[a.method], skip)
       /\ skip \in DOMAIN lb /\ lb[skip] = Base + a.at + 6
  /\ \E j \in 1..Len(fx) : fx[j] = Fixup(a.at + 2, "b", 0, a.to)
Placeholders(a, fx, lb) ==
  /\ a.at \in Nat /\ a.to \in Names
  /\ ShortAsked(a, fx) \/ WideAsked(a, fx, lb)
AskedInv == \A a \in asked : Placeholders(a, fixups, labels)

Extends(fy, fx) == Len(fx) <= Len(fy) /\ \A i \in 1..Len(fx) : fy[i] = fx[i]
KeepsSkips(lc, lb) == \A skip \in Nat \X Nat : skip \in DOMAIN lb => skip \in DOMAIN lc /\ lc[skip] = lb[skip]

LEMMA PlaceholdersStay ==
  ASSUME NEW a, NEW fx, NEW lb, Placeholders(a, fx, lb), NEW fy, Extends(fy, fx), NEW lc, KeepsSkips(lc, lb),
         Len(fx) \in Nat, Len(fy) \in Nat
  PROVE  Placeholders(a, fy, lc)
<1>1. \A i \in 1..Len(fx) : i \in 1..Len(fy) /\ fy[i] = fx[i] BY SMT DEF Extends
<1>2. CASE ShortAsked(a, fx) BY <1>1, <1>2 DEF ShortAsked, Placeholders
<1>3. CASE WideAsked(a, fx, lb)
  <2>1. WideAsked(a, fy, lc) BY <1>1, <1>3 DEF WideAsked, KeepsSkips
  <2> QED BY <2>1 DEF Placeholders
<1> QED BY <1>2, <1>3 DEF Placeholders

\* No label of the caller is a skip label.
LEMMA DefinedSkips ==
  ASSUME NEW lb, NEW name, name \in Names \/ name \notin DOMAIN lb, NEW value
  PROVE  KeepsSkips(Defined(lb, name, value), lb)
         /\ name \in DOMAIN Defined(lb, name, value) /\ Defined(lb, name, value)[name] = value
  BY NamesAssumption DEF KeepsSkips, Defined

\* What was asked before stays asked for.
LEMMA AskedStays ==
  ASSUME IInv, IInv', AskedInv, Extends(fixups', fixups), KeepsSkips(labels', labels),
         \A a \in asked' \ asked : Placeholders(a, fixups', labels')
  PROVE  AskedInv'
<1>1. Len(fixups) \in Nat /\ Len(fixups') \in Nat
  <2>1. fixups \in Seq(FixupRecs) /\ fixups' \in Seq(FixupRecs) BY DEF IInv, Layout
  <2> QED BY SMT, <2>1
<1>2. \A a \in asked : Placeholders(a, fixups', labels')
  BY <1>1, PlaceholdersStay DEF AskedInv
<1> QED BY <1>2 DEF AskedInv

\* A short branch's placeholder, or any other, is appended.
LEMMA PlacedAppends ==
  ASSUME IInv, IInv', NEW kind, NEW arg, NEW to, Placed(kind, arg, to)
  PROVE  /\ Extends(fixups', fixups) /\ labels' = labels
         /\ \E i \in 1..Len(fixups') : fixups'[i] = Fixup(size, kind, arg, to)
<1> DEFINE f == Fixup(size, kind, arg, to)
<1>1. fixups' = Append(fixups, f) /\ labels' = labels BY DEF Placed
<1>2. fixups \in Seq(FixupRecs) /\ fixups' \in Seq(FixupRecs) BY DEF IInv, Layout
<1> HIDE DEF f
<1>3. /\ Extends(Append(fixups, f), fixups) /\ Append(fixups, f)[Len(fixups) + 1] = f
      /\ Len(fixups) + 1 \in 1..Len(Append(fixups, f))
  BY SMT, <1>2 DEF Extends
<1> QED BY <1>1, <1>3 DEF f

LEMMA QuietAsked ==
  ASSUME IInv, IInv', AskedInv, UNCHANGED <<fixups, asked>>, KeepsSkips(labels', labels)
  PROVE  AskedInv'
<1>1. Extends(fixups', fixups)
  <2>1. fixups \in Seq(FixupRecs) BY DEF IInv, Layout
  <2> QED BY SMT, <2>1 DEF Extends
<1> QED BY <1>1, AskedStays

LEMMA SameAsked ==
  ASSUME IInv, IInv', AskedInv, UNCHANGED <<fixups, labels, asked>>
  PROVE  AskedInv'
<1>1. KeepsSkips(labels', labels) BY DEF KeepsSkips
<1> QED BY <1>1, QuietAsked

LEMMA NamedCall == ASSUME NEW c \in Calls, c.do \in {"label", "assign"} PROVE c.name \in Names
<1>1. c \in [do : {"label"}, name : Names] \/ c \in [do : {"assign"}, name : Names, addr : Nat]
  <2>1. \/ c \in [do : {"label"}, name : Names]
        \/ c \in [do : {"assign"}, name : Names, addr : Nat]
        \/ c \in [do : {"plain"}, op : DOMAIN Methods, args : Seq(Nat)]
        \/ c \in [do : {"raw", "align"}, n : Nat \ {0}]
        \/ c \in [do : {"short"}, method : DOMAIN ShortCond, to : Names]
        \/ c \in [do : {"wide"}, method : DOMAIN WideSkip, to : Names]
        \/ c \in [do : {"b", "bl"}, to : Names]
        \/ c \in [do : {"adr", "ldr"}, reg : Nat, to : Names]
        \/ c \in [do : {"blx"}, addr : Nat]
    BY DEF Calls
  <2>2. c \notin [do : {"plain"}, op : DOMAIN Methods, args : Seq(Nat)] BY SMT
  <2>3. c \notin [do : {"raw", "align"}, n : Nat \ {0}] BY SMT
  <2>4. c \notin [do : {"short"}, method : DOMAIN ShortCond, to : Names] BY SMT
  <2>5. c \notin [do : {"wide"}, method : DOMAIN WideSkip, to : Names] BY SMT
  <2>6. c \notin [do : {"b", "bl"}, to : Names] BY SMT
  <2>7. c \notin [do : {"adr", "ldr"}, reg : Nat, to : Names] BY SMT
  <2>8. c \notin [do : {"blx"}, addr : Nat] BY SMT
  <2> QED BY <2>1, <2>2, <2>3, <2>4, <2>5, <2>6, <2>7, <2>8
<1> QED BY SMT, <1>1

LEMMA NamesAsked == ASSUME IInv, IInv', AskedInv, Label \/ Assign PROVE AskedInv'
<1>0. Bookkeeping BY DEF IInv
<1>1. call \in Calls /\ call.do \in {"label", "assign"}
  <2>1. CASE Label BY <1>0, <2>1, CallAt DEF Label
  <2>2. CASE Assign BY <1>0, <2>2, CallAt DEF Assign
  <2> QED BY <2>1, <2>2
<1>2. call.name \in Names BY <1>1, NamedCall
<1>3. UNCHANGED <<fixups, asked>> BY DEF Label, Assign, Raise
<1>4. KeepsSkips(labels', labels)
  <2>1. CASE labels' = labels BY <2>1 DEF KeepsSkips
  <2>2. ASSUME NEW v, labels' = Defined(labels, call.name, v) PROVE KeepsSkips(labels', labels)
    <3>1. KeepsSkips(Defined(labels, call.name, v), labels) BY <1>2, DefinedSkips
    <3> QED BY <2>2, <3>1
  <2> QED BY <2>1, <2>2 DEF Label, Assign, Raise
<1> QED BY <1>3, <1>4, QuietAsked

LEMMA ShortIsAsked == ASSUME IInv, IInv', AskedInv, Short PROVE AskedInv'
<1> DEFINE a == [at |-> size, method |-> call.method, to |-> call.to, span |-> 2]
<1>0. Bookkeeping /\ Calling({"short"}) /\ size \in Nat BY DEF IInv, Short, Bookkeeping
<1>1. call \in Calls /\ call.do = "short" BY <1>0, CallAt
<1>2. call.method \in DOMAIN ShortCond /\ call.to \in Names BY <1>1, CallTypes
<1>3. Placed("bcond", ShortCond[call.method], call.to) /\ asked' = asked \cup {a} BY DEF Short
<1>4. /\ Extends(fixups', fixups) /\ labels' = labels
      /\ \E i \in 1..Len(fixups') : fixups'[i] = Fixup(size, "bcond", ShortCond[call.method], call.to)
  BY <1>3, PlacedAppends
<1>5. /\ a.at = size /\ a.method = call.method /\ a.to = call.to /\ a.span = 2 OBVIOUS
<1> HIDE DEF a
<1>6. Placeholders(a, fixups', labels') BY <1>0, <1>2, <1>4, <1>5 DEF Placeholders, ShortAsked
<1>7. KeepsSkips(labels', labels) BY <1>4 DEF KeepsSkips
<1>8. \A b \in asked' \ asked : Placeholders(b, fixups', labels') BY <1>3, <1>6
<1> QED BY <1>4, <1>7, <1>8, AskedStays

LEMMA OthersAsked == ASSUME IInv, IInv', AskedInv, Branch \/ Literal \/ BlxImm PROVE AskedInv'
<1>1. CASE Raise BY <1>1, SameAsked DEF Raise
<1>2. CASE ~Raise
  <2>1. PICK kind, arg, to : Placed(kind, arg, to) /\ UNCHANGED asked BY <1>2 DEF Branch, Literal, BlxImm
  <2>2. Extends(fixups', fixups) /\ labels' = labels BY <2>1, PlacedAppends
  <2>3. KeepsSkips(labels', labels) BY <2>2 DEF KeepsSkips
  <2> QED BY <2>1, <2>2, <2>3, AskedStays
<1> QED BY <1>1, <1>2

LEMMA WideIsAsked == ASSUME IInv, IInv', AskedInv, Wide PROVE AskedInv'
<1> DEFINE skip == <<Len(fixups), size>>
           f == Fixup(size, "bcond", WideSkip[call.method], skip)
           g == Fixup(size + 2, "b", 0, call.to)
           one == Append(fixups, f)
           a == [at |-> size, method |-> call.method, to |-> call.to, span |-> 6]
<1>0. Bookkeeping /\ Calling({"wide"}) /\ size \in Nat /\ fixups \in Seq(FixupRecs) BY DEF IInv, Wide, Bookkeeping, Layout
<1>1. call \in Calls /\ call.do = "wide" BY <1>0, CallAt
<1>2. call.method \in DOMAIN WideSkip /\ call.to \in Names BY <1>1, CallTypes
<1>3. CASE skip \in DOMAIN labels
  <2>1. Raise BY <1>3 DEF Wide
  <2> QED BY <2>1, SameAsked DEF Raise
<1>4. CASE skip \notin DOMAIN labels
  <2>1. /\ fixups' = Append(one, g) /\ labels' = Defined(labels, skip, Base + size + 6)
        /\ asked' = asked \cup {a}
    BY <1>4 DEF Wide
  <2>2. a.at = size /\ a.method = call.method /\ a.to = call.to /\ a.span = 6 OBVIOUS
  <2>3. Len(fixups) \in Nat BY SMT, <1>0
  <2>4. skip \in Nat \X Nat BY <1>0, <2>3
  <2>5. f \in FixupRecs /\ g \in FixupRecs
    <3>1. WideSkip[call.method] \in 0..14 /\ 0 \in 0..14 /\ size + 2 \in Nat BY SMT, <1>0, <1>2, ConditionTypes
    <3>2. "bcond" \in Kinds /\ "b" \in Kinds BY DEF Kinds
    <3>3. f \in FixupRecs BY <1>0, <2>4, <3>1, <3>2 DEF FixupRecs, Fixup
    <3>4. g \in FixupRecs BY <1>2, <3>1, <3>2 DEF FixupRecs, Fixup
    <3> QED BY <3>3, <3>4
  <2> HIDE DEF a
  <2>6. /\ KeepsSkips(labels', labels) /\ skip \in DOMAIN labels' /\ labels'[skip] = Base + size + 6
    BY <1>4, <2>1, DefinedSkips
  <2> HIDE DEF f, g, skip
  <2>7. /\ one \in Seq(FixupRecs) /\ Extends(one, fixups) /\ one[Len(fixups) + 1] = f
        /\ Len(one) \in Nat /\ Len(fixups) + 1 \in 1..Len(one)
    BY SMT, <1>0, <2>5 DEF Extends
  <2> HIDE DEF one
  <2>8. /\ Extends(fixups', one) /\ fixups'[Len(one) + 1] = g
        /\ Len(one) + 1 \in 1..Len(fixups') /\ Len(fixups') \in Nat
    BY SMT, <2>1, <2>5, <2>7 DEF Extends
  <2>9. Extends(fixups', fixups)
    <3>1. \A i \in 1..Len(fixups) : i \in 1..Len(one) BY SMT, <2>3, <2>7
    <3>2. Len(fixups) <= Len(fixups') BY SMT, <2>3, <2>7, <2>8 DEF Extends
    <3> QED BY <2>7, <2>8, <3>1, <3>2 DEF Extends
  <2>10. /\ Len(fixups) + 1 \in 1..Len(fixups') /\ fixups'[Len(fixups) + 1] = f
    <3>1. Len(fixups) + 1 \in 1..Len(fixups') BY SMT, <2>3, <2>7, <2>8 DEF Extends
    <3>2. fixups'[Len(fixups) + 1] = one[Len(fixups) + 1] BY <2>7, <2>8 DEF Extends
    <3> QED BY <2>7, <3>1, <3>2
  <2>11. \E i \in 1..Len(fixups') : fixups'[i] = Fixup(size, "bcond", WideSkip[call.method], skip)
    BY <2>10 DEF f
  <2>12. \E i \in 1..Len(fixups') : fixups'[i] = Fixup(size + 2, "b", 0, call.to) BY <2>8 DEF g
  <2>13. WideAsked(a, fixups', labels')
    BY <1>2, <2>2, <2>4, <2>6, <2>11, <2>12 DEF WideAsked
  <2>14. Placeholders(a, fixups', labels') BY <1>0, <1>2, <2>2, <2>13 DEF Placeholders
  <2>15. \A b \in asked' \ asked : Placeholders(b, fixups', labels') BY <2>1, <2>14
  <2> QED BY <2>6, <2>9, <2>15, AskedStays
<1> QED BY <1>3, <1>4

LEMMA AskedKeeps == IInv /\ AskedInv /\ [Next]_vars => IInv' /\ AskedInv'
<1> SUFFICES ASSUME IInv, AskedInv, [Next]_vars PROVE IInv' /\ AskedInv' OBVIOUS
<1>0. IInv' BY NextKeeps
<1>1. CASE Label \/ Assign BY <1>0, <1>1, NamesAsked
<1>2. CASE Short BY <1>0, <1>2, ShortIsAsked
<1>3. CASE Wide BY <1>0, <1>3, WideIsAsked
<1>4. CASE Branch \/ Literal \/ BlxImm BY <1>0, <1>4, OthersAsked
<1>5. CASE Plain \/ Raw \/ Emitted \/ Resolve \/ Return \/ UNCHANGED vars
  <2>1. UNCHANGED <<fixups, labels, asked>> BY <1>5 DEF Plain, Raw, Emitted, Resolve, Return, Raise, vars
  <2> QED BY <1>0, <2>1, SameAsked
<1> QED BY <1>0, <1>1, <1>2, <1>3, <1>4, <1>5 DEF Next

-----------------------------------------------------------------------------
(* Where the core goes from a conditional branch of the finished buffer.   *)

\* In the finished buffer every fixup is filled in.
LEMMA AllReady ==
  ASSUME IInv, phase = "done", NEW i \in 1..Len(fixups)
  PROVE  fixups[i] \in FixupRecs /\ OfKind(fixups[i]) /\ Ready(fixups[i]) /\ fixups[i].at \in DOMAIN code
<1>1. /\ fixups \in Seq(FixupRecs) /\ Filled /\ next = Len(fixups) + 1
      /\ \A j \in 1..Len(fixups) : Fits(fixups[j], code, size)
  BY DEF IInv, Bookkeeping, Layout
<1>2. i \in 1..(next - 1) /\ fixups[i] \in FixupRecs BY SMT, <1>1
<1>3. Ready(fixups[i]) /\ OfKind(fixups[i]) BY <1>1, <1>2 DEF Filled, Fits
<1>4. fixups[i].at \in DOMAIN code
  <2>1. fixups[i].at \in Nat /\ fixups[i].kind \in Kinds BY <1>2 DEF FixupRecs
  <2>2. Halves(fixups[i].kind) \in {1, 2} BY <2>1, KindFacts
  <2>3. fixups[i].at \in Place(fixups[i].at, Halves(fixups[i].kind)) BY SMT, <2>1, <2>2 DEF Place
  <2> QED BY <1>1, <2>3 DEF Fits
<1> QED BY <1>2, <1>3, <1>4

\* Where the two instructions of a finished _bcond_w take the core.
LEMMA WideGoes ==
  ASSUME IInv, phase = "done", NEW a, a.at \in Nat, a.to \in Names, EvenPlaces(a),
         WideAsked(a, fixups, labels), NEW flags
  PROVE  /\ After(Base + a.at, flags)
              = IF Passes(WideSkip[a.method], flags) THEN Base + a.at + 6 ELSE Base + a.at + 2
         /\ After(Base + a.at + 2, flags) = labels[a.to]
<1>1. PICK skip \in Nat \X Nat :
         /\ \E i \in 1..Len(fixups) : fixups[i] = Fixup(a.at, "bcond", WideSkip[a.method], skip)
         /\ skip \in DOMAIN labels /\ labels[skip] = Base + a.at + 6
  BY DEF WideAsked
<1> DEFINE f == Fixup(a.at, "bcond", WideSkip[a.method], skip)
           g == Fixup(a.at + 2, "b", 0, a.to)
<1>2. f \in FixupRecs /\ OfKind(f) /\ Ready(f) BY <1>1, AllReady
<1>3. g \in FixupRecs /\ OfKind(g) /\ Ready(g) /\ g.at \in DOMAIN code BY AllReady DEF WideAsked
<1>4. /\ f.at = a.at /\ f.kind = "bcond" /\ f.arg = WideSkip[a.method] /\ f.to = skip
      /\ g.at = a.at + 2 /\ g.kind = "b" /\ g.to = a.to
  BY DEF Fixup
<1> HIDE DEF f, g
<1>5. Target(f) = Base + a.at + 6 /\ Target(g) = labels[a.to] BY <1>1, <1>4 DEF Target
<1>6. (Base + a.at) % 2 = 0 /\ labels[a.to] % 2 = 0 BY DEF EvenPlaces
<1>7. (Base + a.at + 6) % 2 = 0 /\ (Base + (a.at + 2)) % 2 = 0 /\ Base + (a.at + 2) = Base + a.at + 2
  BY SMT, <1>6, BaseAssumption
<1>8. Even(f) /\ Even(g) BY <1>4, <1>5, <1>6, <1>7 DEF Even
<1>9. After(Base + f.at, flags) = IF Passes(f.arg, flags) THEN Target(f) ELSE Base + f.at + 2
  BY <1>2, <1>4, <1>8, ShortGoes
<1>10. After(Base + g.at, flags) = Target(g) BY <1>3, <1>4, <1>8, BranchGoes
<1> QED BY <1>4, <1>5, <1>7, <1>9, <1>10

\* Where a finished short branch takes it.
LEMMA ShortTakes ==
  ASSUME IInv, phase = "done", NEW a, a.at \in Nat, a.to \in Names, EvenPlaces(a),
         ShortAsked(a, fixups), NEW flags
  PROVE  After(Base + a.at, flags)
              = IF Passes(ShortCond[a.method], flags) THEN labels[a.to] ELSE Base + a.at + 2
<1> DEFINE f == Fixup(a.at, "bcond", ShortCond[a.method], a.to)
<1>1. f \in FixupRecs /\ OfKind(f) /\ Ready(f) BY AllReady DEF ShortAsked
<1>2. f.at = a.at /\ f.kind = "bcond" /\ f.arg = ShortCond[a.method] /\ f.to = a.to BY DEF Fixup
<1> HIDE DEF f
<1>3. Target(f) = labels[a.to] BY <1>2 DEF Target
<1>4. Even(f) BY <1>2, <1>3 DEF Even, EvenPlaces
<1>5. After(Base + f.at, flags) = IF Passes(f.arg, flags) THEN Target(f) ELSE Base + f.at + 2
  BY <1>1, <1>2, <1>4, ShortGoes
<1> QED BY <1>2, <1>3, <1>5

\* A label that a finished branch goes to is defined, at a natural address.
LEMMA LabelThere ==
  ASSUME IInv, phase = "done", NEW a, a.to \in Names, Placeholders(a, fixups, labels)
  PROVE  labels[a.to] \in Nat
<1>1. PICK i \in 1..Len(fixups) : fixups[i].to = a.to /\ fixups[i].kind # "blx"
  BY DEF Placeholders, ShortAsked, WideAsked, Fixup
<1>2. Known(fixups[i]) BY <1>1, AllReady DEF Ready
<1>3. a.to \in DOMAIN labels BY <1>1, <1>2 DEF Known
<1> QED BY <1>3 DEF IInv, Bookkeeping

LEMMA AskedGoes ==
  ASSUME IInv, AskedInv
  PROVE  GoesWhereAsked
<1> SUFFICES ASSUME phase = "done", NEW a \in asked, EvenPlaces(a), NEW x \in Words, NEW y \in Words
             PROVE  LET f == Cmp(x, y, 8)
                        pc == Base + a.at
                        one == After(pc, f)
                        exit == IF one > pc /\ one < pc + a.span THEN After(one, f) ELSE one
                    IN  exit = IF Says(a.method, x, y, 8) THEN labels[a.to] ELSE pc + a.span
  BY DEF GoesWhereAsked
<1> DEFINE f == Cmp(x, y, 8)
           pc == Base + a.at
           one == After(pc, f)
           to == labels[a.to]
           said == Says(a.method, x, y, 8)
<1>1. Placeholders(a, fixups, labels) BY DEF AskedInv
<1>2. a.at \in Nat /\ a.to \in Names BY <1>1 DEF Placeholders
<1>3. to \in Nat /\ pc \in Nat
  <2>1. to \in Nat BY <1>1, <1>2, LabelThere
  <2> QED BY SMT, <1>2, <2>1, BaseAssumption
<1>4. to % 2 = 0 /\ pc % 2 = 0 BY DEF EvenPlaces
<1>5. CASE ShortAsked(a, fixups)
  <2>1. a.span = 2 /\ a.method \in DOMAIN ShortCond BY <1>5 DEF ShortAsked
  <2>2. Passes(ShortCond[a.method], f) <=> said BY <2>1, ConditionIsSaid
  <2>3. one = IF Passes(ShortCond[a.method], f) THEN to ELSE pc + 2 BY <1>2, <1>5, ShortTakes
  <2> HIDE DEF f, one, to, pc, said
  <2>4. one = IF said THEN to ELSE pc + 2 BY <2>2, <2>3
  <2>5. ~(one > pc /\ one < pc + 2)
    <3>1. one \in Nat /\ one % 2 = 0 BY SMT, <1>3, <1>4, <2>4
    <3> QED BY SMT, <1>3, <1>4, <3>1
  <2>6. (IF one > pc /\ one < pc + a.span THEN After(one, f) ELSE one) = IF said THEN to ELSE pc + a.span
    BY <2>1, <2>4, <2>5
  <2> QED BY <2>6 DEF f, one, to, pc, said
<1>6. CASE WideAsked(a, fixups, labels)
  <2>1. a.span = 6 /\ a.method \in DOMAIN WideSkip BY <1>6 DEF WideAsked
  <2>2. Passes(WideSkip[a.method], f) <=> ~said BY <2>1, ConditionIsSaid
  <2>3. /\ one = IF Passes(WideSkip[a.method], f) THEN pc + 6 ELSE pc + 2
        /\ After(pc + 2, f) = to
    BY <1>2, <1>6, WideGoes
  <2> HIDE DEF f, one, to, pc, said
  <2>4. ~(pc + 6 < pc + 6) /\ pc + 2 > pc /\ pc + 2 < pc + 6 BY SMT, <1>3
  <2>5. (IF one > pc /\ one < pc + a.span THEN After(one, f) ELSE one) = IF said THEN to ELSE pc + a.span
    <3>1. CASE said
      <4>1. one = pc + 2 BY <2>2, <2>3, <3>1
      <4> QED BY <2>1, <2>3, <2>4, <3>1, <4>1
    <3>2. CASE ~said
      <4>1. one = pc + 6 BY <2>2, <2>3, <3>2
      <4> QED BY <2>1, <2>4, <3>2, <4>1
    <3> QED BY <3>1, <3>2
  <2> QED BY <2>5 DEF f, one, to, pc, said
<1> QED BY <1>1, <1>5, <1>6 DEF Placeholders

\* beq ... bhs_w: for every base and every program that is assembled without an
\* exception, each conditional branch, also one made of an inverted short branch
\* and a b.w, takes the core to its label when the words compared are as its
\* name says, and to the instruction behind it when they are not.
THEOREM BranchesGo == Spec => []GoesWhereAsked
<1>1. Init => IInv /\ AskedInv
  <2>1. Init => AskedInv BY DEF Init, AskedInv
  <2> QED BY <2>1, InitIInv
<1>2. IInv /\ AskedInv /\ [Next]_vars => (IInv /\ AskedInv)' BY AskedKeeps
<1>3. IInv /\ AskedInv => GoesWhereAsked BY AskedGoes
<1> QED BY <1>1, <1>2, <1>3, PTL DEF Spec

-----------------------------------------------------------------------------
(* A halfword is a number that is written with the digits of its fields.   *)

LEMMA DivUnique ==
  ASSUME NEW n \in Nat \ {0}, NEW q \in Int, NEW r \in 0..(n - 1)
  PROVE  (n * q + r) \div n = q /\ (n * q + r) % n = r
<1> DEFINE u == n * q + r
           e == u \div n
           m == u % n
<1>1. u \in Int BY SMT
<1>2. e \in Int /\ m \in Int /\ 0 <= m /\ m < n /\ u = n * e + m BY <1>1, DivMod
<1>3. n * (e - q) = r - m BY SMT, <1>2
<1> HIDE DEF e, m
<1>4. e - q = 0
  <2> DEFINE d == e - q
  <2>1. d \in Int /\ n * d = r - m /\ r - m < n /\ -n < r - m BY SMT, <1>2, <1>3
  <2> HIDE DEF d
  <2>2. CASE d >= 1
    <3>1. n * d >= n BY SMT, <2>1, <2>2
    <3> QED BY SMT, <1>2, <2>1, <3>1
  <2>3. CASE d <= -1
    <3>1. n * d <= -n BY SMT, <2>1, <2>3
    <3> QED BY SMT, <1>2, <2>1, <3>1
  <2> QED BY SMT, <2>1, <2>2, <2>3 DEF d
<1> QED BY SMT, <1>2, <1>3, <1>4 DEF e, m

LEMMA Compose ==
  ASSUME NEW n \in Nat \ {0}, NEW s \in Nat \ {0}, NEW d \in 0..(s - 1), NEW r \in 0..(n - 1)
  PROVE  n * d + r \in 0..(s * n - 1) /\ s * n \in Nat \ {0}
<1>1. (s - 1 - d) * n >= 0 BY SMT
<1>2. (s - 1 - d) * n = s * n - n - n * d BY SMT
<1>3. n * d >= 0 /\ n * d \in Int /\ s * n \in Int BY SMT
<1> QED BY SMT, <1>1, <1>2, <1>3

\* A number written in four digits, of which each has its own number of values.
InDigits(v, s1, s2, s3, s4, d1, d2, d3, d4) ==
  /\ Bits(v, s2 * s3 * s4, s1) = d1
  /\ Bits(v, s3 * s4, s2) = d2
  /\ Bits(v, s4, s3) = d3
  /\ Bits(v, 1, s4) = d4
LEMMA Radix ==
  ASSUME NEW s1 \in Nat \ {0}, NEW s2 \in Nat \ {0}, NEW s3 \in Nat \ {0}, NEW s4 \in Nat \ {0},
         NEW d1 \in 0..(s1 - 1), NEW d2 \in 0..(s2 - 1), NEW d3 \in 0..(s3 - 1), NEW d4 \in 0..(s4 - 1),
         NEW v, v = d1 * (s2 * s3 * s4) + d2 * (s3 * s4) + d3 * s4 + d4
  PROVE  InDigits(v, s1, s2, s3, s4, d1, d2, d3, d4)
<1> DEFINE p == s3 * s4
           q == s2 * p
           r3 == s4 * d3 + d4
           r2 == p * d2 + r3
<1>1. r3 \in 0..(p - 1) /\ p \in Nat \ {0} BY Compose
<1> HIDE DEF p
<1>2. r2 \in 0..(q - 1) /\ q \in Nat \ {0}
  <2> HIDE DEF r3
  <2> QED BY <1>1, Compose
<1>3. v = q * d1 + r2 /\ s2 * s3 * s4 = q
  <2>1. s2 * s3 * s4 = s2 * (s3 * s4) BY SMT
  <2>2. d1 * q = q * d1 /\ d2 * p = p * d2 /\ d3 * s4 = s4 * d3 BY SMT, <1>1, <1>2
  <2> QED BY SMT, <1>1, <1>2, <2>1, <2>2 DEF p
<1>4. Bits(v, q, s1) = d1
  <2> HIDE DEF q, r2
  <2>1. v \div q = d1 BY <1>2, <1>3, DivUnique
  <2>2. d1 % s1 = d1 BY SMT
  <2> QED BY <2>1, <2>2 DEF Bits
<1>5. Bits(v, p, s2) = d2
  <2>0. d1 \in Int /\ d2 \in Int /\ s2 * d1 + d2 \in Int BY SMT
  <2>1. v = p * (s2 * d1 + d2) + r3
    <3>1. q * d1 = p * (s2 * d1) BY SMT, <1>1
    <3> HIDE DEF q, r3
    <3>2. p * (s2 * d1 + d2) = p * (s2 * d1) + p * d2 BY SMT, <1>1
    <3> QED BY SMT, <1>1, <1>3, <3>1, <3>2
  <2> HIDE DEF r3
  <2>2. v \div p = s2 * d1 + d2 BY <1>1, <2>0, <2>1, DivUnique
  <2>3. (s2 * d1 + d2) % s2 = d2 BY DivUnique
  <2> QED BY <2>2, <2>3 DEF Bits
<1>6. Bits(v, s4, s3) = d3 /\ Bits(v, 1, s4) = d4
  <2> DEFINE w == s2 * d1 + d2
             x == s3 * w + d3
  <2>1. w \in Int /\ x \in Int /\ d3 \in Int BY SMT
  <2>2. v = s4 * x + d4
    <3>1. v = q * d1 + (p * d2 + (s4 * d3 + d4)) BY <1>3
    <3>2. p = s4 * s3 BY SMT DEF p
    <3>3. q * d1 = s4 * (s3 * (s2 * d1)) BY SMT, <3>2
    <3>4. p * d2 = s4 * (s3 * d2) BY SMT, <3>2
    <3>5. s4 * x = s4 * (s3 * (s2 * d1)) + s4 * (s3 * d2) + s4 * d3 BY SMT
    <3> HIDE DEF p, q, x
    <3> QED BY SMT, <1>1, <1>2, <2>1, <3>1, <3>3, <3>4, <3>5
  <2> HIDE DEF w
  <2>3. x % s3 = d3 BY <2>1, DivUnique
  <2> HIDE DEF x
  <2>4. v \div s4 = x /\ v % s4 = d4 BY <2>1, <2>2, DivUnique
  <2>5. v \in Int BY SMT, <2>1, <2>2
  <2>6. v \div 1 = v BY SMT, <2>5, DivMod
  <2> QED BY <2>3, <2>4, <2>6 DEF Bits
<1> QED BY <1>3, <1>4, <1>5, <1>6 DEF p, InDigits

\* What a field whose digit is x contributes to operand k, and whether x is
\* the digit that the layout fixes.
Given(f, x, k) == IF f.k = k THEN x * f.weight ELSE 0
Digit(f, x) == f.size \in Nat \ {0} /\ x \in Nat /\ x < f.size /\ (f.k = 0 => x = f.is) /\ f.weight \in Nat
Fixed(hw, l) == \A j \in DOMAIN l : l[j].k = 0 => Field(hw, l, j) = l[j].is

\* hw is a halfword that is written, by a layout of so many fields, with these digits.
Number1(hw, a, w) == Digit(a, w) /\ hw = w
Number2(hw, a, b, w, x) == Digit(a, w) /\ Digit(b, x) /\ hw = w * b.size + x
Number3(hw, a, b, c, w, x, y) ==
  Digit(a, w) /\ Digit(b, x) /\ Digit(c, y) /\ hw = w * (b.size * c.size) + x * c.size + y
Number4(hw, a, b, c, d, w, x, y, z) ==
  /\ Digit(a, w) /\ Digit(b, x) /\ Digit(c, y) /\ Digit(d, z)
  /\ hw = w * (b.size * c.size * d.size) + x * (c.size * d.size) + y * d.size + z

LEMMA Read1 ==
  ASSUME NEW a, NEW w, NEW hw, Number1(hw, a, w)
  PROVE  Fixed(hw, <<a>>) /\ \A k : Shares(hw, <<a>>, k) = Given(a, w, k)
<1> DEFINE l == <<a>>
<1>0. hw = w BY DEF Number1
<1>1. DOMAIN l = {1} /\ l[1] = a BY SMT
<1>2. Low(l, 1) = 1 BY SMT, <1>1 DEF Low, Size
<1>3. a.size \in Nat \ {0} /\ w \in 0..(a.size - 1) /\ (a.k = 0 => w = a.is) /\ a.weight \in Nat
  BY SMT DEF Digit, Number1
<1>4. Field(w, l, 1) = w
  <2>1. w \in Int /\ w % a.size = w BY SMT, <1>3
  <2>2. w \div 1 = w BY SMT, <2>1, DivMod
  <2> QED BY <1>1, <1>2, <2>1, <2>2 DEF Field, Bits
<1> HIDE DEF l
<1>5. Fixed(w, l) BY <1>1, <1>3, <1>4 DEF Fixed
<1>6. ASSUME NEW k PROVE Shares(w, l, k) = Given(a, w, k)
  <2>1. Share(w, l, 1, k) = Given(a, w, k) BY <1>1, <1>4 DEF Share, Given
  <2>2. Share(w, l, 2, k) = 0 /\ Share(w, l, 3, k) = 0 /\ Share(w, l, 4, k) = 0 BY SMT, <1>1 DEF Share
  <2>3. Given(a, w, k) \in Int BY SMT, <1>3 DEF Given
  <2> QED BY SMT, <2>1, <2>2, <2>3 DEF Shares
<1> QED BY <1>0, <1>5, <1>6 DEF l

LEMMA Read2 ==
  ASSUME NEW a, NEW b, NEW w, NEW x, NEW hw, Number2(hw, a, b, w, x)
  PROVE  Fixed(hw, <<a, b>>) /\ \A k : Shares(hw, <<a, b>>, k) = Given(a, w, k) + Given(b, x, k)
<1> DEFINE l == <<a, b>>
<1>1. DOMAIN l = {1, 2} /\ l[1] = a /\ l[2] = b BY SMT
<1>2. /\ a.size \in Nat \ {0} /\ w \in 0..(a.size - 1) /\ (a.k = 0 => w = a.is) /\ a.weight \in Nat
      /\ b.size \in Nat \ {0} /\ x \in 0..(b.size - 1) /\ (b.k = 0 => x = b.is) /\ b.weight \in Nat
  BY SMT DEF Digit, Number2
<1>3. Low(l, 1) = b.size /\ Low(l, 2) = 1
  <2>1. /\ Size(l, 2) = b.size /\ Size(l, 3) = 1 /\ Size(l, 4) = 1 /\ Size(l, 5) = 1
        /\ Size(l, 6) = 1 /\ Size(l, 7) = 1
    BY SMT, <1>1 DEF Size
  <2> HIDE DEF l
  <2>2. /\ Low(l, 1) = Size(l, 2) * Size(l, 3) * Size(l, 4)
        /\ Low(l, 2) = Size(l, 3) * Size(l, 4) * Size(l, 5)
    BY SMT DEF Low
  <2> QED BY SMT, <1>2, <2>1, <2>2
<1>4. Field(hw, l, 1) = w /\ Field(hw, l, 2) = x
  <2> DEFINE s1 == a.size
             s2 == b.size
  <2>1. /\ s1 \in Nat \ {0} /\ s2 \in Nat \ {0} /\ w \in 0..(s1 - 1) /\ x \in 0..(s2 - 1) /\ hw = w * s2 + x
    BY <1>2 DEF Number2
  <2> HIDE DEF s1, s2
  <2>2. /\ 1 \in Nat \ {0} /\ 0 \in 0..(1 - 1)
        /\ hw = 0 * (1 * s1 * s2) + 0 * (s1 * s2) + w * s2 + x
    BY SMT, <2>1
  <2>3. InDigits(hw, 1, 1, s1, s2, 0, 0, w, x) BY <2>1, <2>2, Radix
  <2>4. Bits(hw, s2, s1) = w /\ Bits(hw, 1, s2) = x BY <2>3 DEF InDigits
  <2> QED BY <1>1, <1>3, <2>4 DEF Field, s1, s2
<1> HIDE DEF l
<1>5. Fixed(hw, l) BY <1>1, <1>2, <1>4 DEF Fixed
<1>6. ASSUME NEW k PROVE Shares(hw, l, k) = Given(a, w, k) + Given(b, x, k)
  <2>1. Share(hw, l, 1, k) = Given(a, w, k) /\ Share(hw, l, 2, k) = Given(b, x, k)
    BY <1>1, <1>4 DEF Share, Given
  <2>2. Share(hw, l, 3, k) = 0 /\ Share(hw, l, 4, k) = 0 BY SMT, <1>1 DEF Share
  <2>3. Given(a, w, k) \in Int /\ Given(b, x, k) \in Int BY SMT, <1>2 DEF Given
  <2> QED BY SMT, <2>1, <2>2, <2>3 DEF Shares
<1> QED BY <1>5, <1>6 DEF l

LEMMA Read3 ==
  ASSUME NEW a, NEW b, NEW c, NEW w, NEW x, NEW y, NEW hw, Number3(hw, a, b, c, w, x, y)
  PROVE  /\ Fixed(hw, <<a, b, c>>)
         /\ \A k : Shares(hw, <<a, b, c>>, k) = Given(a, w, k) + Given(b, x, k) + Given(c, y, k)
<1> DEFINE l == <<a, b, c>>
<1>1. DOMAIN l = {1, 2, 3} /\ l[1] = a /\ l[2] = b /\ l[3] = c BY SMT
<1>2. /\ a.size \in Nat \ {0} /\ w \in 0..(a.size - 1) /\ (a.k = 0 => w = a.is) /\ a.weight \in Nat
      /\ b.size \in Nat \ {0} /\ x \in 0..(b.size - 1) /\ (b.k = 0 => x = b.is) /\ b.weight \in Nat
      /\ c.size \in Nat \ {0} /\ y \in 0..(c.size - 1) /\ (c.k = 0 => y = c.is) /\ c.weight \in Nat
  BY SMT DEF Digit, Number3
<1>3. Low(l, 1) = b.size * c.size /\ Low(l, 2) = c.size /\ Low(l, 3) = 1
  <2>1. /\ Size(l, 2) = b.size /\ Size(l, 3) = c.size /\ Size(l, 4) = 1 /\ Size(l, 5) = 1
        /\ Size(l, 6) = 1 /\ Size(l, 7) = 1
    BY SMT, <1>1 DEF Size
  <2> HIDE DEF l
  <2>2. /\ Low(l, 1) = Size(l, 2) * Size(l, 3) * Size(l, 4)
        /\ Low(l, 2) = Size(l, 3) * Size(l, 4) * Size(l, 5)
        /\ Low(l, 3) = Size(l, 4) * Size(l, 5) * Size(l, 6)
    BY SMT DEF Low
  <2> QED BY SMT, <1>2, <2>1, <2>2
<1>4. Field(hw, l, 1) = w /\ Field(hw, l, 2) = x /\ Field(hw, l, 3) = y
  <2> DEFINE s1 == a.size
             s2 == b.size
             s3 == c.size
  <2>1. /\ s1 \in Nat \ {0} /\ s2 \in Nat \ {0} /\ s3 \in Nat \ {0}
        /\ w \in 0..(s1 - 1) /\ x \in 0..(s2 - 1) /\ y \in 0..(s3 - 1)
        /\ hw = w * (s2 * s3) + x * s3 + y
    BY <1>2 DEF Number3
  <2> HIDE DEF s1, s2, s3
  <2>2. /\ 1 \in Nat \ {0} /\ 0 \in 0..(1 - 1)
        /\ hw = 0 * (s1 * s2 * s3) + w * (s2 * s3) + x * s3 + y
    BY SMT, <2>1
  <2>3. InDigits(hw, 1, s1, s2, s3, 0, w, x, y) BY <2>1, <2>2, Radix
  <2>4. Bits(hw, s2 * s3, s1) = w /\ Bits(hw, s3, s2) = x /\ Bits(hw, 1, s3) = y BY <2>3 DEF InDigits
  <2> QED BY <1>1, <1>3, <2>4 DEF Field, s1, s2, s3
<1> HIDE DEF l
<1>5. Fixed(hw, l) BY <1>1, <1>2, <1>4 DEF Fixed
<1>6. ASSUME NEW k PROVE Shares(hw, l, k) = Given(a, w, k) + Given(b, x, k) + Given(c, y, k)
  <2>1. /\ Share(hw, l, 1, k) = Given(a, w, k) /\ Share(hw, l, 2, k) = Given(b, x, k)
        /\ Share(hw, l, 3, k) = Given(c, y, k)
    BY <1>1, <1>4 DEF Share, Given
  <2>2. Share(hw, l, 4, k) = 0 BY SMT, <1>1 DEF Share
  <2>3. Given(a, w, k) \in Int /\ Given(b, x, k) \in Int /\ Given(c, y, k) \in Int BY SMT, <1>2 DEF Given
  <2> QED BY SMT, <2>1, <2>2, <2>3 DEF Shares
<1> QED BY <1>5, <1>6 DEF l

LEMMA Read4 ==
  ASSUME NEW a, NEW b, NEW c, NEW d, NEW w, NEW x, NEW y, NEW z, NEW hw, Number4(hw, a, b, c, d, w, x, y, z)
  PROVE  /\ Fixed(hw, <<a, b, c, d>>)
         /\ \A k : Shares(hw, <<a, b, c, d>>, k) = Given(a, w, k) + Given(b, x, k) + Given(c, y, k)
              + Given(d, z, k)
<1> DEFINE l == <<a, b, c, d>>
<1>1. DOMAIN l = {1, 2, 3, 4} /\ l[1] = a /\ l[2] = b /\ l[3] = c /\ l[4] = d BY SMT
<1>2. /\ a.size \in Nat \ {0} /\ w \in 0..(a.size - 1) /\ (a.k = 0 => w = a.is) /\ a.weight \in Nat
      /\ b.size \in Nat \ {0} /\ x \in 0..(b.size - 1) /\ (b.k = 0 => x = b.is) /\ b.weight \in Nat
      /\ c.size \in Nat \ {0} /\ y \in 0..(c.size - 1) /\ (c.k = 0 => y = c.is) /\ c.weight \in Nat
      /\ d.size \in Nat \ {0} /\ z \in 0..(d.size - 1) /\ (d.k = 0 => z = d.is) /\ d.weight \in Nat
  BY SMT DEF Digit, Number4
<1>3. /\ Low(l, 1) = b.size * c.size * d.size /\ Low(l, 2) = c.size * d.size
      /\ Low(l, 3) = d.size /\ Low(l, 4) = 1
  <2>1. /\ Size(l, 2) = b.size /\ Size(l, 3) = c.size /\ Size(l, 4) = d.size /\ Size(l, 5) = 1
        /\ Size(l, 6) = 1 /\ Size(l, 7) = 1
    BY SMT, <1>1 DEF Size
  <2> HIDE DEF l
  <2>2. /\ Low(l, 1) = Size(l, 2) * Size(l, 3) * Size(l, 4)
        /\ Low(l, 2) = Size(l, 3) * Size(l, 4) * Size(l, 5)
        /\ Low(l, 3) = Size(l, 4) * Size(l, 5) * Size(l, 6)
        /\ Low(l, 4) = Size(l, 5) * Size(l, 6) * Size(l, 7)
    BY SMT DEF Low
  <2> QED BY SMT, <1>2, <2>1, <2>2
<1>4. Field(hw, l, 1) = w /\ Field(hw, l, 2) = x /\ Field(hw, l, 3) = y /\ Field(hw, l, 4) = z
  <2> DEFINE s1 == a.size
             s2 == b.size
             s3 == c.size
             s4 == d.size
  <2>1. /\ s1 \in Nat \ {0} /\ s2 \in Nat \ {0} /\ s3 \in Nat \ {0} /\ s4 \in Nat \ {0}
        /\ w \in 0..(s1 - 1) /\ x \in 0..(s2 - 1) /\ y \in 0..(s3 - 1) /\ z \in 0..(s4 - 1)
        /\ hw = w * (s2 * s3 * s4) + x * (s3 * s4) + y * s4 + z
    BY <1>2 DEF Number4
  <2> HIDE DEF s1, s2, s3, s4
  <2>0. InDigits(hw, s1, s2, s3, s4, w, x, y, z) BY <2>1, Radix
  <2>2. /\ Bits(hw, s2 * s3 * s4, s1) = w /\ Bits(hw, s3 * s4, s2) = x
        /\ Bits(hw, s4, s3) = y /\ Bits(hw, 1, s4) = z
    BY <2>0 DEF InDigits
  <2> QED BY <1>1, <1>3, <2>2 DEF Field, s1, s2, s3, s4
<1> HIDE DEF l
<1>5. Fixed(hw, l) BY <1>1, <1>2, <1>4 DEF Fixed
<1>6. ASSUME NEW k
      PROVE  Shares(hw, l, k) = Given(a, w, k) + Given(b, x, k) + Given(c, y, k) + Given(d, z, k)
  <2>1. /\ Share(hw, l, 1, k) = Given(a, w, k) /\ Share(hw, l, 2, k) = Given(b, x, k)
        /\ Share(hw, l, 3, k) = Given(c, y, k) /\ Share(hw, l, 4, k) = Given(d, z, k)
    BY <1>1, <1>4 DEF Share, Given
  <2> QED BY <2>1 DEF Shares
<1> QED BY <1>5, <1>6 DEF l

-----------------------------------------------------------------------------
(* What the methods emit holds their operands.                             *)

\* The halfwords of a method are read as the method, with its operands.
Survives(op, args) ==
  /\ Matches(Encode(op, args), op)
  /\ \A k \in DOMAIN Methods[op].max : Operand(Encode(op, args), op, k) = args[k]

\* A method that emits hw, or hw and hx, which by the layouts l and m are its own
\* and hold its operands.
ReadNarrow(op, args, hw, l) ==
  /\ Encode(op, args) = [h \in 1..1 |-> hw]
  /\ Layouts[op] = <<l>>
  /\ Fixed(hw, l)
  /\ \A k \in DOMAIN Methods[op].max : Shares(hw, l, k) = args[k] /\ args[k] \in Nat
ReadWide(op, args, hw, hx, l, m) ==
  /\ Encode(op, args) = [h \in 1..2 |-> IF h = 1 THEN hw ELSE hx]
  /\ Layouts[op] = <<l, m>>
  /\ Fixed(hw, l) /\ Fixed(hx, m)
  /\ \A k \in DOMAIN Methods[op].max : Shares(hw, l, k) + Shares(hx, m, k) = args[k] /\ args[k] \in Nat

LEMMA NarrowSurvives ==
  ASSUME NEW op, NEW args, NEW hw, NEW l, ReadNarrow(op, args, hw, l)
  PROVE  Survives(op, args)
<1> PICK hws : hws = Encode(op, args) OBVIOUS
<1>1. DOMAIN hws = {1} /\ hws[1] = hw BY SMT DEF ReadNarrow
<1>2. DOMAIN Layouts[op] = {1} /\ Layouts[op][1] = l BY SMT DEF ReadNarrow
<1>4. Matches(hws, op) BY <1>1, <1>2 DEF Matches, Fixed, ReadNarrow
<1>5. ASSUME NEW k \in DOMAIN Methods[op].max PROVE Operand(hws, op, k) = args[k]
  <2>1. Shares(hw, l, k) = args[k] /\ args[k] \in Nat BY DEF ReadNarrow
  <2>2. 2 \notin DOMAIN hws BY SMT, <1>1
  <2>3. Operand(hws, op, k) = Shares(hw, l, k) + 0 BY <1>1, <1>2, <2>2 DEF Operand
  <2> QED BY SMT, <2>1, <2>3
<1> QED BY <1>4, <1>5 DEF Survives

LEMMA WideSurvives ==
  ASSUME NEW op, NEW args, NEW hw, NEW hx, NEW l, NEW m, ReadWide(op, args, hw, hx, l, m)
  PROVE  Survives(op, args)
<1> PICK hws : hws = Encode(op, args) OBVIOUS
<1>1. DOMAIN hws = {1, 2} /\ hws[1] = hw /\ hws[2] = hx BY SMT DEF ReadWide
<1>2. DOMAIN Layouts[op] = {1, 2} /\ Layouts[op][1] = l /\ Layouts[op][2] = m BY SMT DEF ReadWide
<1>4. Matches(hws, op) BY <1>1, <1>2 DEF Matches, Fixed, ReadWide
<1>5. ASSUME NEW k \in DOMAIN Methods[op].max PROVE Operand(hws, op, k) = args[k]
  <2>1. Shares(hw, l, k) + Shares(hx, m, k) = args[k] BY DEF ReadWide
  <2> QED BY <1>1, <1>2, <2>1 DEF Operand
<1> QED BY <1>4, <1>5 DEF Survives

LEMMA NarrowRow == \A op \in DOMAIN NarrowMethods : Methods[op] = NarrowMethods[op]
BY DEF Methods
LEMMA WideRow == \A op \in DOMAIN WideMethods : op \notin DOMAIN NarrowMethods => Methods[op] = WideMethods[op]
BY DEF Methods

LEMMA GivenFields ==
  /\ \A s, v, x, k : k \in Nat \ {0} => Given(Is(s, v), x, k) = 0
  /\ \A s, j, w, x : Given(Of(s, j, w), x, j) = x * w
  /\ \A s, j, w, x, k : j # k => Given(Of(s, j, w), x, k) = 0
BY SMT DEF Given, Is, Of

\* The parts into which a method cuts an immediate give it back.
LEMMA WordBits ==
  ASSUME NEW v \in Nat, v <= 1020, v % 4 = 0
  PROVE  v \div 4 \in Nat /\ v \div 4 <= 255 /\ v = 4 * (v \div 4)
<1>1. v = 4 * (v \div 4) + 0 /\ v \div 4 \in Int BY DivMod
<1> QED BY SMT, <1>1

LEMMA Imm16Bits ==
  ASSUME NEW v \in Nat, v <= 65535
  PROVE  /\ Bits(v, 4096, 16) \in 0..15 /\ Bits(v, 2048, 2) \in 0..1 /\ Bits(v, 256, 8) \in 0..7
         /\ Bits(v, 1, 256) \in Nat /\ Bits(v, 1, 256) <= 255
         /\ v = 4096 * Bits(v, 4096, 16) + 2048 * Bits(v, 2048, 2) + 256 * Bits(v, 256, 8) + Bits(v, 1, 256)
<1> DEFINE q == v \div 256
           e == q \div 8
           g == e \div 2
           x == e % 2
           y == q % 8
           z == v % 256
<1>1. q \in Int /\ z \in Int /\ 0 <= z /\ z < 256 /\ v = 256 * q + z BY SMT, DivMod
<1>2. e \in Int /\ y \in Int /\ 0 <= y /\ y < 8 /\ q = 8 * e + y BY SMT, <1>1, DivMod
<1>3. g \in Int /\ x \in Int /\ 0 <= x /\ x < 2 /\ e = 2 * g + x BY SMT, <1>2, DivMod
<1>4. Bits(v, 256, 8) = y /\ Bits(v, 1, 256) = z
  <2>1. v \div 1 = v BY SMT, DivMod
  <2> QED BY <2>1 DEF Bits
<1> HIDE DEF q, e, g, x, y, z
<1>5. 0 <= g /\ g <= 15 BY SMT, <1>1, <1>2, <1>3
<1>6. v \div 2048 = e /\ v \div 4096 = g
  <2>1. v = 2048 * e + (256 * y + z) /\ 0 <= 256 * y + z /\ 256 * y + z < 2048 BY SMT, <1>1, <1>2
  <2>2. v = 4096 * g + (2048 * x + 256 * y + z) /\ 0 <= 2048 * x + 256 * y + z /\ 2048 * x + 256 * y + z < 4096
    BY SMT, <1>3, <2>1, <1>1, <1>2
  <2> DEFINE r == 256 * y + z
             t == 2048 * x + 256 * y + z
  <2>3. r \in Int /\ t \in Int BY SMT, <1>1, <1>2, <1>3
  <2> HIDE DEF r, t
  <2>4. v \div 2048 = e
    <3>1. v = 2048 * e + r /\ 0 <= r /\ r < 2048 BY <2>1 DEF r
    <3> QED BY SMT, <1>2, <2>3, <3>1
  <2>5. v \div 4096 = g
    <3>1. v = 4096 * g + t /\ 0 <= t /\ t < 4096 BY <2>2 DEF t
    <3> QED BY SMT, <1>3, <2>3, <3>1
  <2> QED BY <2>4, <2>5
<1>7. e % 2 = x BY DEF x
<1>8. g % 16 = g BY SMT, <1>3, <1>5
<1>9. Bits(v, 4096, 16) = g /\ Bits(v, 2048, 2) = x BY <1>6, <1>7, <1>8 DEF Bits
<1> QED BY SMT, <1>1, <1>2, <1>3, <1>4, <1>5, <1>9

LEMMA Imm12Parts ==
  ASSUME NEW v \in Nat, v <= 4095
  PROVE  /\ Bits(v, 2048, 2) \in 0..1 /\ Bits(v, 256, 8) \in 0..7
         /\ Bits(v, 1, 256) \in Nat /\ Bits(v, 1, 256) <= 255
         /\ v = 2048 * Bits(v, 2048, 2) + 256 * Bits(v, 256, 8) + Bits(v, 1, 256)
<1> DEFINE z == Bits(v, 1, 256)
           y == Bits(v, 256, 8)
           x == Bits(v, 2048, 2)
<1>1. x \in 0..1 /\ y \in 0..7 /\ z \in 0..255 /\ v = 2048 * x + 256 * y + z BY Imm12Bits
<1> HIDE DEF x, y, z
<1>2. z \in Nat /\ z <= 255 BY SMT, <1>1
<1> QED BY <1>1, <1>2 DEF x, y, z

LEMMA SpBits ==
  ASSUME NEW op \in SpMethods, NEW args
  PROVE  OperandBits(op, args) = <<256 * args[1] + (args[2] \div 4)>>
BY SMT DEF OperandBits, SpMethods

\* The methods that share a layout, of which top is the field that tells them apart.

\* movs_imm8, cmp_imm8
LEMMA Imm8Survives ==
  ASSUME NEW op, NEW top, (op = "movs_imm8" /\ top = 4) \/ (op = "cmp_imm8" /\ top = 5),
         NEW args, args[1] \in 0..7, args[2] \in Nat, args[2] <= 255
  PROVE  Survives(op, args)
<1> DEFINE l == <<Is(32, top), R3(1), Of(256, 2, 1)>>
<1> HIDE DEF l
<1>1. Layouts[op] = <<l>> BY DEF Layouts, l
<1>2. Methods[op] = Row(<<2048 * top>>, <<7, 255>>) /\ Halfwords(op) = 1
  <2>1. op \in DOMAIN NarrowMethods /\ NarrowMethods[op] = Row(<<2048 * top>>, <<7, 255>>) BY DEF NarrowMethods
  <2> QED BY <2>1, NarrowRow DEF Halfwords
<1>3. OperandBits(op, args) = <<256 * args[1] + args[2]>> BY SMT DEF OperandBits, SpMethods
<1>4. DOMAIN Methods[op].max = 1..2 BY SMT, <1>2 DEF Row
<1>5. PICK hw :
      /\ Encode(op, args) = [h \in 1..1 |-> hw]
      /\ hw = top * (8 * 256) + args[1] * 256 + args[2]
  <2>1. 2048 * top + (256 * args[1] + args[2]) = top * (8 * 256) + args[1] * 256 + args[2] BY SMT
  <2> QED BY SMT, <1>2, <1>3, <2>1 DEF Encode, Row
<1>6. Encode(op, args) = [h \in 1..1 |-> hw] BY <1>5
<1>7. Number3(hw, Is(32, top), R3(1), Of(256, 2, 1), top, args[1], args[2])
  BY SMT, <1>5 DEF Number3, Digit, Is, R3, R4, Of
<1>8. Given(Is(32, top), top, 1) + Given(R3(1), args[1], 1) + Given(Of(256, 2, 1), args[2], 1) = args[1]
  BY SMT, GivenFields DEF R3, R4
<1>9. Given(Is(32, top), top, 2) + Given(R3(1), args[1], 2) + Given(Of(256, 2, 1), args[2], 2) = args[2]
  BY SMT, GivenFields DEF R3, R4
<1>10. Fixed(hw, l) /\ \A k : Shares(hw, l, k) = Given(Is(32, top), top, k) + Given(R3(1), args[1], k)
      + Given(Of(256, 2, 1), args[2], k)
  BY <1>7, Read3 DEF l
<1>11. \A k \in 1..2 : Shares(hw, l, k) = args[k] /\ args[k] \in Nat
  <2>1. Shares(hw, l, 1) = args[1] /\ args[1] \in Nat BY <1>8, <1>10
  <2>2. Shares(hw, l, 2) = args[2] /\ args[2] \in Nat BY <1>9, <1>10
  <2> QED BY SMT, <2>1, <2>2
<1>12. Fixed(hw, l) BY <1>10
<1> QED
  <2>1. \A k \in DOMAIN Methods[op].max : Shares(hw, l, k) = args[k] /\ args[k] \in Nat BY <1>4, <1>11
  <2>2. ReadNarrow(op, args, hw, l) BY <1>1, <1>6, <1>12, <2>1 DEF ReadNarrow
  <2> QED BY <2>2, NarrowSurvives

\* add_sp_imm, str_sp_imm, ldr_sp_imm: the immediate in words
LEMMA SpSurvives ==
  ASSUME NEW op, NEW top, (op = "add_sp_imm" /\ top = 21) \/ (op = "str_sp_imm" /\ top = 18)
        \/ (op = "ldr_sp_imm" /\ top = 19),
         NEW args, args[1] \in 0..7, args[2] \in Nat, args[2] <= 1020, args[2] % 4 = 0
  PROVE  Survives(op, args)
<1> DEFINE l == <<Is(32, top), R3(1), Of(256, 2, 4)>>
<1> HIDE DEF l
<1>1. Layouts[op] = <<l>> BY DEF Layouts, l
<1>2. Methods[op] = Row(<<2048 * top>>, <<7, 1020>>) /\ Halfwords(op) = 1
  <2>1. op \in DOMAIN NarrowMethods /\ NarrowMethods[op] = Row(<<2048 * top>>, <<7, 1020>>) BY DEF NarrowMethods
  <2> QED BY <2>1, NarrowRow DEF Halfwords
<1>a. PICK x :
      /\ x = args[2] \div 4
      /\ x \in Nat /\ x <= 255 /\ args[2] = 4 * x
  <2>1. (args[2] \div 4) \in Nat /\ (args[2] \div 4) <= 255 /\ args[2] = 4 * (args[2] \div 4)
    BY WordBits
  <2> QED BY <2>1
<1>b. x \in Nat /\ x <= 255 /\ args[2] = 4 * x BY <1>a
<1>3. OperandBits(op, args) = <<256 * args[1] + x>>
  <2>0. op \in SpMethods BY DEF SpMethods
  <2>1. OperandBits(op, args) = <<256 * args[1] + (args[2] \div 4)>> BY ONLY <2>0, SpBits
  <2> QED BY <1>a, <2>1
<1>4. DOMAIN Methods[op].max = 1..2 BY SMT, <1>2 DEF Row
<1>5. PICK hw :
      /\ Encode(op, args) = [h \in 1..1 |-> hw]
      /\ hw = top * (8 * 256) + args[1] * 256 + x
  <2>1. 2048 * top + (256 * args[1] + x) = top * (8 * 256) + args[1] * 256 + x BY SMT, <1>b
  <2> QED BY SMT, <1>2, <1>3, <2>1 DEF Encode, Row
<1>6. Encode(op, args) = [h \in 1..1 |-> hw] BY <1>5
<1>7. Number3(hw, Is(32, top), R3(1), Of(256, 2, 4), top, args[1], x)
  BY SMT, <1>5, <1>b DEF Number3, Digit, Is, R3, R4, Of
<1>8. Given(Is(32, top), top, 1) + Given(R3(1), args[1], 1) + Given(Of(256, 2, 4), x, 1) = args[1]
  BY SMT, <1>b, GivenFields DEF R3, R4
<1>9. Given(Is(32, top), top, 2) + Given(R3(1), args[1], 2) + Given(Of(256, 2, 4), x, 2) = args[2]
  BY SMT, <1>b, GivenFields DEF R3, R4
<1>10. Fixed(hw, l) /\ \A k : Shares(hw, l, k) = Given(Is(32, top), top, k) + Given(R3(1), args[1], k)
      + Given(Of(256, 2, 4), x, k)
  BY <1>7, Read3 DEF l
<1>11. \A k \in 1..2 : Shares(hw, l, k) = args[k] /\ args[k] \in Nat
  <2>1. Shares(hw, l, 1) = args[1] /\ args[1] \in Nat BY <1>8, <1>10
  <2>2. Shares(hw, l, 2) = args[2] /\ args[2] \in Nat BY <1>9, <1>10
  <2> QED BY SMT, <2>1, <2>2
<1>12. Fixed(hw, l) BY <1>10
<1> QED
  <2>1. \A k \in DOMAIN Methods[op].max : Shares(hw, l, k) = args[k] /\ args[k] \in Nat BY <1>4, <1>11
  <2>2. ReadNarrow(op, args, hw, l) BY <1>1, <1>6, <1>12, <2>1 DEF ReadNarrow
  <2> QED BY <2>2, NarrowSurvives

\* mov_lo_lo, add_reg: four bits for the first register too, the highest apart
LEMMA HighSurvives ==
  ASSUME NEW op, NEW top, (op = "mov_lo_lo" /\ top = 70) \/ (op = "add_reg" /\ top = 68),
         NEW args, args[1] \in 0..15, args[2] \in 0..15
  PROVE  Survives(op, args)
<1> DEFINE l == <<Is(256, top), Of(2, 1, 8), R4(2), R3(1)>>
<1> HIDE DEF l
<1>1. Layouts[op] = <<l>> BY DEF Layouts, l
<1>2. Methods[op] = Row(<<256 * top>>, <<15, 15>>) /\ Halfwords(op) = 1
  <2>1. op \in DOMAIN NarrowMethods /\ NarrowMethods[op] = Row(<<256 * top>>, <<15, 15>>) BY DEF NarrowMethods
  <2> QED BY <2>1, NarrowRow DEF Halfwords
<1>a. PICK x, y :
      /\ x = Bits(args[1], 8, 2) /\ y = Bits(args[1], 1, 8)
      /\ x \in 0..1 /\ y \in 0..7 /\ args[1] = 8 * x + y
  <2>1. Bits(args[1], 8, 2) \in 0..1 /\ Bits(args[1], 1, 8) \in 0..7
        /\ args[1] = 8 * Bits(args[1], 8, 2) + Bits(args[1], 1, 8)
    BY SMT DEF Bits
  <2> QED BY <2>1
<1>b. x \in 0..1 /\ y \in 0..7 /\ args[1] = 8 * x + y BY <1>a
<1>3. OperandBits(op, args) = <<128 * x + 8 * args[2] + y>> BY SMT, <1>a DEF OperandBits, SpMethods
<1>4. DOMAIN Methods[op].max = 1..2 BY SMT, <1>2 DEF Row
<1>5. PICK hw :
      /\ Encode(op, args) = [h \in 1..1 |-> hw]
      /\ hw = top * (2 * 16 * 8) + x * (16 * 8) + args[2] * 8 + y
  <2>1. 256 * top + (128 * x + 8 * args[2] + y) = top * (2 * 16 * 8) + x * (16 * 8) + args[2] * 8 + y
    BY SMT, <1>b
  <2> QED BY SMT, <1>2, <1>3, <2>1 DEF Encode, Row
<1>6. Encode(op, args) = [h \in 1..1 |-> hw] BY <1>5
<1>7. Number4(hw, Is(256, top), Of(2, 1, 8), R4(2), R3(1), top, x, args[2], y)
  BY SMT, <1>5, <1>b DEF Number4, Digit, Is, R3, R4, Of
<1>8. Given(Is(256, top), top, 1) + Given(Of(2, 1, 8), x, 1) + Given(R4(2), args[2], 1)
      + Given(R3(1), y, 1) = args[1]
  BY SMT, <1>b, GivenFields DEF R3, R4
<1>9. Given(Is(256, top), top, 2) + Given(Of(2, 1, 8), x, 2) + Given(R4(2), args[2], 2)
      + Given(R3(1), y, 2) = args[2]
  BY SMT, <1>b, GivenFields DEF R3, R4
<1>10. Fixed(hw, l) /\ \A k : Shares(hw, l, k) = Given(Is(256, top), top, k)
      + Given(Of(2, 1, 8), x, k) + Given(R4(2), args[2], k) + Given(R3(1), y, k)
  BY <1>7, Read4 DEF l
<1>11. \A k \in 1..2 : Shares(hw, l, k) = args[k] /\ args[k] \in Nat
  <2>1. Shares(hw, l, 1) = args[1] /\ args[1] \in Nat BY <1>8, <1>10
  <2>2. Shares(hw, l, 2) = args[2] /\ args[2] \in Nat BY <1>9, <1>10
  <2> QED BY SMT, <2>1, <2>2
<1>12. Fixed(hw, l) BY <1>10
<1> QED
  <2>1. \A k \in DOMAIN Methods[op].max : Shares(hw, l, k) = args[k] /\ args[k] \in Nat BY <1>4, <1>11
  <2>2. ReadNarrow(op, args, hw, l) BY <1>1, <1>6, <1>12, <2>1 DEF ReadNarrow
  <2> QED BY <2>2, NarrowSurvives

\* bx
LEMMA BxSurvives ==
  ASSUME NEW op, op = "bx",
         NEW args, args[1] \in 0..15
  PROVE  Survives(op, args)
<1> DEFINE l == <<Is(512, 142), R4(1), Is(8, 0)>>
<1> HIDE DEF l
<1>1. Layouts[op] = <<l>> BY DEF Layouts, l
<1>2. Methods[op] = Row(<<18176>>, <<15>>) /\ Halfwords(op) = 1
  <2>1. op \in DOMAIN NarrowMethods /\ NarrowMethods[op] = Row(<<18176>>, <<15>>) BY DEF NarrowMethods
  <2> QED BY <2>1, NarrowRow DEF Halfwords
<1>3. OperandBits(op, args) = <<8 * args[1]>> BY SMT DEF OperandBits, SpMethods
<1>4. DOMAIN Methods[op].max = 1..1 BY SMT, <1>2 DEF Row
<1>5. PICK hw :
      /\ Encode(op, args) = [h \in 1..1 |-> hw]
      /\ hw = 142 * (16 * 8) + args[1] * 8 + 0
  <2>1. 18176 + (8 * args[1]) = 142 * (16 * 8) + args[1] * 8 + 0 BY SMT
  <2> QED BY SMT, <1>2, <1>3, <2>1 DEF Encode, Row
<1>6. Encode(op, args) = [h \in 1..1 |-> hw] BY <1>5
<1>7. Number3(hw, Is(512, 142), R4(1), Is(8, 0), 142, args[1], 0)
  BY SMT, <1>5 DEF Number3, Digit, Is, R3, R4, Of
<1>8. Given(Is(512, 142), 142, 1) + Given(R4(1), args[1], 1) + Given(Is(8, 0), 0, 1) = args[1]
  BY SMT, GivenFields DEF R3, R4
<1>9. Fixed(hw, l) /\ \A k : Shares(hw, l, k) = Given(Is(512, 142), 142, k) + Given(R4(1), args[1], k)
      + Given(Is(8, 0), 0, k)
  BY <1>7, Read3 DEF l
<1>10. \A k \in 1..1 : Shares(hw, l, k) = args[k] /\ args[k] \in Nat
  <2>1. Shares(hw, l, 1) = args[1] /\ args[1] \in Nat BY <1>8, <1>9
  <2> QED BY SMT, <2>1
<1>11. Fixed(hw, l) BY <1>9
<1> QED
  <2>1. \A k \in DOMAIN Methods[op].max : Shares(hw, l, k) = args[k] /\ args[k] \in Nat BY <1>4, <1>10
  <2>2. ReadNarrow(op, args, hw, l) BY <1>1, <1>6, <1>11, <2>1 DEF ReadNarrow
  <2> QED BY <2>2, NarrowSurvives

\* svc
LEMMA SvcSurvives ==
  ASSUME NEW op, op = "svc",
         NEW args, args[1] \in Nat, args[1] <= 255
  PROVE  Survives(op, args)
<1> DEFINE l == <<Is(256, 223), Of(256, 1, 1)>>
<1> HIDE DEF l
<1>1. Layouts[op] = <<l>> BY DEF Layouts, l
<1>2. Methods[op] = Row(<<57088>>, <<255>>) /\ Halfwords(op) = 1
  <2>1. op \in DOMAIN NarrowMethods /\ NarrowMethods[op] = Row(<<57088>>, <<255>>) BY DEF NarrowMethods
  <2> QED BY <2>1, NarrowRow DEF Halfwords
<1>3. OperandBits(op, args) = <<args[1]>> BY SMT DEF OperandBits, SpMethods
<1>4. DOMAIN Methods[op].max = 1..1 BY SMT, <1>2 DEF Row
<1>5. PICK hw :
      /\ Encode(op, args) = [h \in 1..1 |-> hw]
      /\ hw = 223 * 256 + args[1]
  <2>1. 57088 + (args[1]) = 223 * 256 + args[1] BY SMT
  <2> QED BY SMT, <1>2, <1>3, <2>1 DEF Encode, Row
<1>6. Encode(op, args) = [h \in 1..1 |-> hw] BY <1>5
<1>7. Number2(hw, Is(256, 223), Of(256, 1, 1), 223, args[1]) BY SMT, <1>5 DEF Number2, Digit, Is, R3, R4, Of
<1>8. Given(Is(256, 223), 223, 1) + Given(Of(256, 1, 1), args[1], 1) = args[1] BY SMT, GivenFields DEF R3, R4
<1>9. Fixed(hw, l) /\ \A k : Shares(hw, l, k) = Given(Is(256, 223), 223, k) + Given(Of(256, 1, 1), args[1], k)
  BY <1>7, Read2 DEF l
<1>10. \A k \in 1..1 : Shares(hw, l, k) = args[k] /\ args[k] \in Nat
  <2>1. Shares(hw, l, 1) = args[1] /\ args[1] \in Nat BY <1>8, <1>9
  <2> QED BY SMT, <2>1
<1>11. Fixed(hw, l) BY <1>9
<1> QED
  <2>1. \A k \in DOMAIN Methods[op].max : Shares(hw, l, k) = args[k] /\ args[k] \in Nat BY <1>4, <1>10
  <2>2. ReadNarrow(op, args, hw, l) BY <1>1, <1>6, <1>11, <2>1 DEF ReadNarrow
  <2> QED BY <2>2, NarrowSurvives

\* rev_lo_lo, muls_lo_lo
LEMMA TwoLowSurvives ==
  ASSUME NEW op, NEW top, (op = "rev_lo_lo" /\ top = 744) \/ (op = "muls_lo_lo" /\ top = 269),
         NEW args, args[1] \in 0..7, args[2] \in 0..7
  PROVE  Survives(op, args)
<1> DEFINE l == <<Is(1024, top), R3(2), R3(1)>>
<1> HIDE DEF l
<1>1. Layouts[op] = <<l>> BY DEF Layouts, l
<1>2. Methods[op] = Row(<<64 * top>>, <<7, 7>>) /\ Halfwords(op) = 1
  <2>1. op \in DOMAIN NarrowMethods /\ NarrowMethods[op] = Row(<<64 * top>>, <<7, 7>>) BY DEF NarrowMethods
  <2> QED BY <2>1, NarrowRow DEF Halfwords
<1>3. OperandBits(op, args) = <<8 * args[2] + args[1]>> BY SMT DEF OperandBits, SpMethods
<1>4. DOMAIN Methods[op].max = 1..2 BY SMT, <1>2 DEF Row
<1>5. PICK hw :
      /\ Encode(op, args) = [h \in 1..1 |-> hw]
      /\ hw = top * (8 * 8) + args[2] * 8 + args[1]
  <2>1. 64 * top + (8 * args[2] + args[1]) = top * (8 * 8) + args[2] * 8 + args[1] BY SMT
  <2> QED BY SMT, <1>2, <1>3, <2>1 DEF Encode, Row
<1>6. Encode(op, args) = [h \in 1..1 |-> hw] BY <1>5
<1>7. Number3(hw, Is(1024, top), R3(2), R3(1), top, args[2], args[1])
  BY SMT, <1>5 DEF Number3, Digit, Is, R3, R4, Of
<1>8. Given(Is(1024, top), top, 1) + Given(R3(2), args[2], 1) + Given(R3(1), args[1], 1) = args[1]
  BY SMT, GivenFields DEF R3, R4
<1>9. Given(Is(1024, top), top, 2) + Given(R3(2), args[2], 2) + Given(R3(1), args[1], 2) = args[2]
  BY SMT, GivenFields DEF R3, R4
<1>10. Fixed(hw, l) /\ \A k : Shares(hw, l, k) = Given(Is(1024, top), top, k)
      + Given(R3(2), args[2], k) + Given(R3(1), args[1], k)
  BY <1>7, Read3 DEF l
<1>11. \A k \in 1..2 : Shares(hw, l, k) = args[k] /\ args[k] \in Nat
  <2>1. Shares(hw, l, 1) = args[1] /\ args[1] \in Nat BY <1>8, <1>10
  <2>2. Shares(hw, l, 2) = args[2] /\ args[2] \in Nat BY <1>9, <1>10
  <2> QED BY SMT, <2>1, <2>2
<1>12. Fixed(hw, l) BY <1>10
<1> QED
  <2>1. \A k \in DOMAIN Methods[op].max : Shares(hw, l, k) = args[k] /\ args[k] \in Nat BY <1>4, <1>11
  <2>2. ReadNarrow(op, args, hw, l) BY <1>1, <1>6, <1>12, <2>1 DEF ReadNarrow
  <2> QED BY <2>2, NarrowSurvives

\* ldrb_reg, adds_lo_lo, subs_lo_lo
LEMMA ThreeLowSurvives ==
  ASSUME NEW op, NEW top, (op = "ldrb_reg" /\ top = 46) \/ (op = "adds_lo_lo" /\ top = 12)
        \/ (op = "subs_lo_lo" /\ top = 13),
         NEW args, args[1] \in 0..7, args[2] \in 0..7, args[3] \in 0..7
  PROVE  Survives(op, args)
<1> DEFINE l == <<Is(128, top), R3(3), R3(2), R3(1)>>
<1> HIDE DEF l
<1>1. Layouts[op] = <<l>> BY DEF Layouts, l
<1>2. Methods[op] = Row(<<512 * top>>, <<7, 7, 7>>) /\ Halfwords(op) = 1
  <2>1. op \in DOMAIN NarrowMethods /\ NarrowMethods[op] = Row(<<512 * top>>, <<7, 7, 7>>) BY DEF NarrowMethods
  <2> QED BY <2>1, NarrowRow DEF Halfwords
<1>3. OperandBits(op, args) = <<64 * args[3] + 8 * args[2] + args[1]>> BY SMT DEF OperandBits, SpMethods
<1>4. DOMAIN Methods[op].max = 1..3 BY SMT, <1>2 DEF Row
<1>5. PICK hw :
      /\ Encode(op, args) = [h \in 1..1 |-> hw]
      /\ hw = top * (8 * 8 * 8) + args[3] * (8 * 8) + args[2] * 8 + args[1]
  <2>1. 512 * top + (64 * args[3] + 8 * args[2] + args[1]) = top * (8 * 8 * 8) + args[3] * (8 * 8) + args[2] * 8 + args[1]
    BY SMT
  <2> QED BY SMT, <1>2, <1>3, <2>1 DEF Encode, Row
<1>6. Encode(op, args) = [h \in 1..1 |-> hw] BY <1>5
<1>7. Number4(hw, Is(128, top), R3(3), R3(2), R3(1), top, args[3], args[2], args[1])
  BY SMT, <1>5 DEF Number4, Digit, Is, R3, R4, Of
<1>8. Given(Is(128, top), top, 1) + Given(R3(3), args[3], 1) + Given(R3(2), args[2], 1)
      + Given(R3(1), args[1], 1) = args[1]
  BY SMT, GivenFields DEF R3, R4
<1>9. Given(Is(128, top), top, 2) + Given(R3(3), args[3], 2) + Given(R3(2), args[2], 2)
      + Given(R3(1), args[1], 2) = args[2]
  BY SMT, GivenFields DEF R3, R4
<1>10. Given(Is(128, top), top, 3) + Given(R3(3), args[3], 3) + Given(R3(2), args[2], 3)
      + Given(R3(1), args[1], 3) = args[3]
  BY SMT, GivenFields DEF R3, R4
<1>11. Fixed(hw, l) /\ \A k : Shares(hw, l, k) = Given(Is(128, top), top, k)
      + Given(R3(3), args[3], k) + Given(R3(2), args[2], k) + Given(R3(1), args[1], k)
  BY <1>7, Read4 DEF l
<1>12. \A k \in 1..3 : Shares(hw, l, k) = args[k] /\ args[k] \in Nat
  <2>1. Shares(hw, l, 1) = args[1] /\ args[1] \in Nat BY <1>8, <1>11
  <2>2. Shares(hw, l, 2) = args[2] /\ args[2] \in Nat BY <1>9, <1>11
  <2>3. Shares(hw, l, 3) = args[3] /\ args[3] \in Nat BY <1>10, <1>11
  <2> QED BY SMT, <2>1, <2>2, <2>3
<1>13. Fixed(hw, l) BY <1>11
<1> QED
  <2>1. \A k \in DOMAIN Methods[op].max : Shares(hw, l, k) = args[k] /\ args[k] \in Nat BY <1>4, <1>12
  <2>2. ReadNarrow(op, args, hw, l) BY <1>1, <1>6, <1>13, <2>1 DEF ReadNarrow
  <2> QED BY <2>2, NarrowSurvives

\* lsrs_imm5, lsls_imm5
LEMMA ShiftSurvives ==
  ASSUME NEW op, NEW top, (op = "lsrs_imm5" /\ top = 1) \/ (op = "lsls_imm5" /\ top = 0),
         NEW args, args[1] \in 0..7, args[2] \in 0..7, args[3] \in 0..31
  PROVE  Survives(op, args)
<1> DEFINE l == <<Is(32, top), Of(32, 3, 1), R3(2), R3(1)>>
<1> HIDE DEF l
<1>1. Layouts[op] = <<l>> BY DEF Layouts, l
<1>2. Methods[op] = Row(<<2048 * top>>, <<7, 7, 31>>) /\ Halfwords(op) = 1
  <2>1. op \in DOMAIN NarrowMethods /\ NarrowMethods[op] = Row(<<2048 * top>>, <<7, 7, 31>>)
    BY DEF NarrowMethods
  <2> QED BY <2>1, NarrowRow DEF Halfwords
<1>3. OperandBits(op, args) = <<64 * args[3] + 8 * args[2] + args[1]>> BY SMT DEF OperandBits, SpMethods
<1>4. DOMAIN Methods[op].max = 1..3 BY SMT, <1>2 DEF Row
<1>5. PICK hw :
      /\ Encode(op, args) = [h \in 1..1 |-> hw]
      /\ hw = top * (32 * 8 * 8) + args[3] * (8 * 8) + args[2] * 8 + args[1]
  <2>1. 2048 * top + (64 * args[3] + 8 * args[2] + args[1]) = top * (32 * 8 * 8) + args[3] * (8 * 8) + args[2] * 8 + args[1]
    BY SMT
  <2> QED BY SMT, <1>2, <1>3, <2>1 DEF Encode, Row
<1>6. Encode(op, args) = [h \in 1..1 |-> hw] BY <1>5
<1>7. Number4(hw, Is(32, top), Of(32, 3, 1), R3(2), R3(1), top, args[3], args[2], args[1])
  BY SMT, <1>5 DEF Number4, Digit, Is, R3, R4, Of
<1>8. Given(Is(32, top), top, 1) + Given(Of(32, 3, 1), args[3], 1) + Given(R3(2), args[2], 1)
      + Given(R3(1), args[1], 1) = args[1]
  BY SMT, GivenFields DEF R3, R4
<1>9. Given(Is(32, top), top, 2) + Given(Of(32, 3, 1), args[3], 2) + Given(R3(2), args[2], 2)
      + Given(R3(1), args[1], 2) = args[2]
  BY SMT, GivenFields DEF R3, R4
<1>10. Given(Is(32, top), top, 3) + Given(Of(32, 3, 1), args[3], 3) + Given(R3(2), args[2], 3)
      + Given(R3(1), args[1], 3) = args[3]
  BY SMT, GivenFields DEF R3, R4
<1>11. Fixed(hw, l) /\ \A k : Shares(hw, l, k) = Given(Is(32, top), top, k)
      + Given(Of(32, 3, 1), args[3], k) + Given(R3(2), args[2], k) + Given(R3(1), args[1], k)
  BY <1>7, Read4 DEF l
<1>12. \A k \in 1..3 : Shares(hw, l, k) = args[k] /\ args[k] \in Nat
  <2>1. Shares(hw, l, 1) = args[1] /\ args[1] \in Nat BY <1>8, <1>11
  <2>2. Shares(hw, l, 2) = args[2] /\ args[2] \in Nat BY <1>9, <1>11
  <2>3. Shares(hw, l, 3) = args[3] /\ args[3] \in Nat BY <1>10, <1>11
  <2> QED BY SMT, <2>1, <2>2, <2>3
<1>13. Fixed(hw, l) BY <1>11
<1> QED
  <2>1. \A k \in DOMAIN Methods[op].max : Shares(hw, l, k) = args[k] /\ args[k] \in Nat BY <1>4, <1>12
  <2>2. ReadNarrow(op, args, hw, l) BY <1>1, <1>6, <1>13, <2>1 DEF ReadNarrow
  <2> QED BY <2>2, NarrowSurvives

\* ldrb_w, ldrh_w, ldr_w, strb_w
LEMMA MemSurvives ==
  ASSUME NEW op, NEW top, (op = "ldrb_w" /\ top = 1) \/ (op = "ldrh_w" /\ top = 3)
        \/ (op = "ldr_w" /\ top = 5) \/ (op = "strb_w" /\ top = 0),
         NEW args, args[1] \in 0..14, args[2] \in 0..14, args[3] \in Nat, args[3] <= 4095
  PROVE  Survives(op, args)
<1> DEFINE l == <<Is(512, 497), Is(8, top), R4(2)>>
           m == <<R4(1), Of(4096, 3, 1)>>
<1> HIDE DEF l, m
<1>1. Layouts[op] = <<l, m>>
  <2>1. Layouts[op] = Mem(top) BY DEF Layouts
  <2> QED BY <2>1 DEF Mem, l, m
<1>2. Methods[op] = Row(<<63616 + 16 * top, 0>>, <<14, 14, 4095>>) /\ Halfwords(op) = 2
  <2>1. op \in DOMAIN WideMethods /\ WideMethods[op] = Row(<<63616 + 16 * top, 0>>, <<14, 14, 4095>>)
    BY DEF WideMethods
  <2>2. op \notin DOMAIN NarrowMethods BY DEF NarrowMethods
  <2> QED BY <2>1, <2>2, WideRow DEF Halfwords
<1>3. OperandBits(op, args) = <<args[2], 4096 * args[1] + args[3]>> BY SMT DEF OperandBits, SpMethods
<1>4. DOMAIN Methods[op].max = 1..3 BY SMT, <1>2 DEF Row
<1>5. PICK hw, hx :
      /\ Encode(op, args) = [h \in 1..2 |-> IF h = 1 THEN hw ELSE hx]
      /\ hw = 497 * (8 * 16) + top * 16 + args[2]
      /\ hx = args[1] * 4096 + args[3]
  <2>1. 63616 + 16 * top + (args[2]) = 497 * (8 * 16) + top * 16 + args[2] BY SMT
  <2>2. 0 + (4096 * args[1] + args[3]) = args[1] * 4096 + args[3] BY SMT
  <2> QED BY SMT, <1>2, <1>3, <2>1, <2>2 DEF Encode, Row
<1>6. Encode(op, args) = [h \in 1..2 |-> IF h = 1 THEN hw ELSE hx] BY <1>5
<1>7. Number3(hw, Is(512, 497), Is(8, top), R4(2), 497, top, args[2])
  BY SMT, <1>5 DEF Number3, Digit, Is, R3, R4, Of
<1>8. Number2(hx, R4(1), Of(4096, 3, 1), args[1], args[3]) BY SMT, <1>5 DEF Number2, Digit, Is, R3, R4, Of
<1>9. (Given(Is(512, 497), 497, 1) + Given(Is(8, top), top, 1) + Given(R4(2), args[2], 1))
      + (Given(R4(1), args[1], 1) + Given(Of(4096, 3, 1), args[3], 1)) = args[1]
  BY SMT, GivenFields DEF R3, R4
<1>10. (Given(Is(512, 497), 497, 2) + Given(Is(8, top), top, 2) + Given(R4(2), args[2], 2))
      + (Given(R4(1), args[1], 2) + Given(Of(4096, 3, 1), args[3], 2)) = args[2]
  BY SMT, GivenFields DEF R3, R4
<1>11. (Given(Is(512, 497), 497, 3) + Given(Is(8, top), top, 3) + Given(R4(2), args[2], 3))
      + (Given(R4(1), args[1], 3) + Given(Of(4096, 3, 1), args[3], 3)) = args[3]
  BY SMT, GivenFields DEF R3, R4
<1>12. Fixed(hw, l) /\ \A k : Shares(hw, l, k) = Given(Is(512, 497), 497, k)
      + Given(Is(8, top), top, k) + Given(R4(2), args[2], k)
  BY <1>7, Read3 DEF l
<1>13. Fixed(hx, m) /\ \A k : Shares(hx, m, k) = Given(R4(1), args[1], k) + Given(Of(4096, 3, 1), args[3], k)
  BY <1>8, Read2 DEF m
<1>14. \A k \in 1..3 : Shares(hw, l, k) + Shares(hx, m, k) = args[k] /\ args[k] \in Nat
  <2>1. Shares(hw, l, 1) + Shares(hx, m, 1) = args[1] /\ args[1] \in Nat BY <1>9, <1>12, <1>13
  <2>2. Shares(hw, l, 2) + Shares(hx, m, 2) = args[2] /\ args[2] \in Nat BY <1>10, <1>12, <1>13
  <2>3. Shares(hw, l, 3) + Shares(hx, m, 3) = args[3] /\ args[3] \in Nat BY <1>11, <1>12, <1>13
  <2> QED BY SMT, <2>1, <2>2, <2>3
<1>15. Fixed(hw, l) /\ Fixed(hx, m) BY <1>12, <1>13
<1> QED
  <2>1. \A k \in DOMAIN Methods[op].max : Shares(hw, l, k) + Shares(hx, m, k) = args[k] /\ args[k] \in Nat
    BY <1>4, <1>14
  <2>2. ReadWide(op, args, hw, hx, l, m) BY <1>1, <1>6, <1>15, <2>1 DEF ReadWide
  <2> QED BY <2>2, WideSurvives

\* addw, subw: the immediate in three parts
LEMMA Imm12Survives ==
  ASSUME NEW op, NEW top, (op = "addw" /\ top = 32) \/ (op = "subw" /\ top = 42),
         NEW args, args[1] \in 0..14, args[2] \in 0..15, args[3] \in Nat, args[3] <= 4095
  PROVE  Survives(op, args)
<1> DEFINE l == <<Is(32, 30), Of(2, 3, 2048), Is(64, top), R4(2)>>
           m == <<Is(2, 0), Of(8, 3, 256), R4(1), Of(256, 3, 1)>>
<1> HIDE DEF l, m
<1>1. Layouts[op] = <<l, m>>
  <2>1. Layouts[op] = Wide12(top) BY DEF Layouts
  <2> QED BY <2>1 DEF Wide12, l, m
<1>2. Methods[op] = Row(<<61440 + 16 * top, 0>>, <<14, 15, 4095>>) /\ Halfwords(op) = 2
  <2>1. op \in DOMAIN WideMethods /\ WideMethods[op] = Row(<<61440 + 16 * top, 0>>, <<14, 15, 4095>>)
    BY DEF WideMethods
  <2>2. op \notin DOMAIN NarrowMethods BY DEF NarrowMethods
  <2> QED BY <2>1, <2>2, WideRow DEF Halfwords
<1>a. PICK x, y, z :
      /\ x = Bits(args[3], 2048, 2) /\ y = Bits(args[3], 256, 8) /\ z = Bits(args[3], 1, 256)
      /\ x \in 0..1 /\ y \in 0..7 /\ z \in Nat /\ z <= 255 /\ args[3] = 2048 * x + 256 * y + z
  <2>1. Bits(args[3], 2048, 2) \in 0..1 /\ Bits(args[3], 256, 8) \in 0..7 /\ Bits(args[3], 1, 256) \in Nat
        /\ Bits(args[3], 1, 256) <= 255 /\ args[3] = 2048 * Bits(args[3], 2048, 2) + 256 * Bits(args[3], 256,
        8) + Bits(args[3], 1, 256)
    BY Imm12Parts
  <2> QED BY <2>1
<1>b. x \in 0..1 /\ y \in 0..7 /\ z \in Nat /\ z <= 255 /\ args[3] = 2048 * x + 256 * y + z BY <1>a
<1>3. OperandBits(op, args) = <<1024 * x + args[2], 256 * args[1] + (4096 * y + z)>>
  BY SMT, <1>a DEF OperandBits, SpMethods, ImmHigh, ImmLow
<1>4. DOMAIN Methods[op].max = 1..3 BY SMT, <1>2 DEF Row
<1>5. PICK hw, hx :
      /\ Encode(op, args) = [h \in 1..2 |-> IF h = 1 THEN hw ELSE hx]
      /\ hw = 30 * (2 * 64 * 16) + x * (64 * 16) + top * 16 + args[2]
      /\ hx = 0 * (8 * 16 * 256) + y * (16 * 256) + args[1] * 256 + z
  <2>1. 61440 + 16 * top + (1024 * x + args[2]) = 30 * (2 * 64 * 16) + x * (64 * 16) + top * 16 + args[2]
    BY SMT, <1>b
  <2>2. 0 + (256 * args[1] + (4096 * y + z)) = 0 * (8 * 16 * 256) + y * (16 * 256) + args[1] * 256 + z
    BY SMT, <1>b
  <2> QED BY SMT, <1>2, <1>3, <2>1, <2>2 DEF Encode, Row
<1>6. Encode(op, args) = [h \in 1..2 |-> IF h = 1 THEN hw ELSE hx] BY <1>5
<1>7. Number4(hw, Is(32, 30), Of(2, 3, 2048), Is(64, top), R4(2), 30, x, top, args[2])
  BY SMT, <1>5, <1>b DEF Number4, Digit, Is, R3, R4, Of
<1>8. Number4(hx, Is(2, 0), Of(8, 3, 256), R4(1), Of(256, 3, 1), 0, y, args[1], z)
  BY SMT, <1>5, <1>b DEF Number4, Digit, Is, R3, R4, Of
<1>9. (Given(Is(32, 30), 30, 1) + Given(Of(2, 3, 2048), x, 1) + Given(Is(64, top), top, 1)
      + Given(R4(2), args[2], 1)) + (Given(Is(2, 0), 0, 1) + Given(Of(8, 3, 256), y, 1)
      + Given(R4(1), args[1], 1) + Given(Of(256, 3, 1), z, 1)) = args[1]
  BY SMT, <1>b, GivenFields DEF R3, R4
<1>10. (Given(Is(32, 30), 30, 2) + Given(Of(2, 3, 2048), x, 2) + Given(Is(64, top), top, 2)
      + Given(R4(2), args[2], 2)) + (Given(Is(2, 0), 0, 2) + Given(Of(8, 3, 256), y, 2)
      + Given(R4(1), args[1], 2) + Given(Of(256, 3, 1), z, 2)) = args[2]
  BY SMT, <1>b, GivenFields DEF R3, R4
<1>11. (Given(Is(32, 30), 30, 3) + Given(Of(2, 3, 2048), x, 3) + Given(Is(64, top), top, 3)
      + Given(R4(2), args[2], 3)) + (Given(Is(2, 0), 0, 3) + Given(Of(8, 3, 256), y, 3)
      + Given(R4(1), args[1], 3) + Given(Of(256, 3, 1), z, 3)) = args[3]
  BY SMT, <1>b, GivenFields DEF R3, R4
<1>12. Fixed(hw, l) /\ \A k : Shares(hw, l, k) = Given(Is(32, 30), 30, k)
      + Given(Of(2, 3, 2048), x, k) + Given(Is(64, top), top, k) + Given(R4(2), args[2], k)
  BY <1>7, Read4 DEF l
<1>13. Fixed(hx, m) /\ \A k : Shares(hx, m, k) = Given(Is(2, 0), 0, k) + Given(Of(8, 3, 256), y, k)
      + Given(R4(1), args[1], k) + Given(Of(256, 3, 1), z, k)
  BY <1>8, Read4 DEF m
<1>14. \A k \in 1..3 : Shares(hw, l, k) + Shares(hx, m, k) = args[k] /\ args[k] \in Nat
  <2>1. Shares(hw, l, 1) + Shares(hx, m, 1) = args[1] /\ args[1] \in Nat BY <1>9, <1>12, <1>13
  <2>2. Shares(hw, l, 2) + Shares(hx, m, 2) = args[2] /\ args[2] \in Nat BY <1>10, <1>12, <1>13
  <2>3. Shares(hw, l, 3) + Shares(hx, m, 3) = args[3] /\ args[3] \in Nat BY <1>11, <1>12, <1>13
  <2> QED BY SMT, <2>1, <2>2, <2>3
<1>15. Fixed(hw, l) /\ Fixed(hx, m) BY <1>12, <1>13
<1> QED
  <2>1. \A k \in DOMAIN Methods[op].max : Shares(hw, l, k) + Shares(hx, m, k) = args[k] /\ args[k] \in Nat
    BY <1>4, <1>14
  <2>2. ReadWide(op, args, hw, hx, l, m) BY <1>1, <1>6, <1>15, <2>1 DEF ReadWide
  <2> QED BY <2>2, WideSurvives

\* add_imm_t3
LEMMA AddImmSurvives ==
  ASSUME NEW op, op = "add_imm_t3",
         NEW args, args[1] \in 0..14, args[2] \in 0..14, args[3] \in Nat, args[3] <= 255, args[4] \in 0..1
  PROVE  Survives(op, args)
<1> DEFINE l == <<Is(2048, 1928), Of(2, 4, 1), R4(2)>>
           m == <<Is(16, 0), R4(1), Of(256, 3, 1)>>
<1> HIDE DEF l, m
<1>1. Layouts[op] = <<l, m>> BY DEF Layouts, l, m
<1>2. Methods[op] = Row(<<61696, 0>>, <<14, 14, 255, 1>>) /\ Halfwords(op) = 2
  <2>1. op \in DOMAIN WideMethods /\ WideMethods[op] = Row(<<61696, 0>>, <<14, 14, 255, 1>>) BY DEF WideMethods
  <2>2. op \notin DOMAIN NarrowMethods BY DEF NarrowMethods
  <2> QED BY <2>1, <2>2, WideRow DEF Halfwords
<1>3. OperandBits(op, args) = <<16 * args[4] + args[2], 256 * args[1] + args[3]>>
  BY SMT DEF OperandBits, SpMethods
<1>4. DOMAIN Methods[op].max = 1..4 BY SMT, <1>2 DEF Row
<1>5. PICK hw, hx :
      /\ Encode(op, args) = [h \in 1..2 |-> IF h = 1 THEN hw ELSE hx]
      /\ hw = 1928 * (2 * 16) + args[4] * 16 + args[2]
      /\ hx = 0 * (16 * 256) + args[1] * 256 + args[3]
  <2>1. 61696 + (16 * args[4] + args[2]) = 1928 * (2 * 16) + args[4] * 16 + args[2] BY SMT
  <2>2. 0 + (256 * args[1] + args[3]) = 0 * (16 * 256) + args[1] * 256 + args[3] BY SMT
  <2> QED BY SMT, <1>2, <1>3, <2>1, <2>2 DEF Encode, Row
<1>6. Encode(op, args) = [h \in 1..2 |-> IF h = 1 THEN hw ELSE hx] BY <1>5
<1>7. Number3(hw, Is(2048, 1928), Of(2, 4, 1), R4(2), 1928, args[4], args[2])
  BY SMT, <1>5 DEF Number3, Digit, Is, R3, R4, Of
<1>8. Number3(hx, Is(16, 0), R4(1), Of(256, 3, 1), 0, args[1], args[3])
  BY SMT, <1>5 DEF Number3, Digit, Is, R3, R4, Of
<1>9. (Given(Is(2048, 1928), 1928, 1) + Given(Of(2, 4, 1), args[4], 1) + Given(R4(2), args[2], 1))
      + (Given(Is(16, 0), 0, 1) + Given(R4(1), args[1], 1) + Given(Of(256, 3, 1), args[3], 1)) = args[1]
  BY SMT, GivenFields DEF R3, R4
<1>10. (Given(Is(2048, 1928), 1928, 2) + Given(Of(2, 4, 1), args[4], 2) + Given(R4(2), args[2], 2))
      + (Given(Is(16, 0), 0, 2) + Given(R4(1), args[1], 2) + Given(Of(256, 3, 1), args[3], 2)) = args[2]
  BY SMT, GivenFields DEF R3, R4
<1>11. (Given(Is(2048, 1928), 1928, 3) + Given(Of(2, 4, 1), args[4], 3) + Given(R4(2), args[2], 3))
      + (Given(Is(16, 0), 0, 3) + Given(R4(1), args[1], 3) + Given(Of(256, 3, 1), args[3], 3)) = args[3]
  BY SMT, GivenFields DEF R3, R4
<1>12. (Given(Is(2048, 1928), 1928, 4) + Given(Of(2, 4, 1), args[4], 4) + Given(R4(2), args[2], 4))
      + (Given(Is(16, 0), 0, 4) + Given(R4(1), args[1], 4) + Given(Of(256, 3, 1), args[3], 4)) = args[4]
  BY SMT, GivenFields DEF R3, R4
<1>13. Fixed(hw, l) /\ \A k : Shares(hw, l, k) = Given(Is(2048, 1928), 1928, k)
      + Given(Of(2, 4, 1), args[4], k) + Given(R4(2), args[2], k)
  BY <1>7, Read3 DEF l
<1>14. Fixed(hx, m) /\ \A k : Shares(hx, m, k) = Given(Is(16, 0), 0, k) + Given(R4(1), args[1], k)
      + Given(Of(256, 3, 1), args[3], k)
  BY <1>8, Read3 DEF m
<1>15. \A k \in 1..4 : Shares(hw, l, k) + Shares(hx, m, k) = args[k] /\ args[k] \in Nat
  <2>1. Shares(hw, l, 1) + Shares(hx, m, 1) = args[1] /\ args[1] \in Nat BY <1>9, <1>13, <1>14
  <2>2. Shares(hw, l, 2) + Shares(hx, m, 2) = args[2] /\ args[2] \in Nat BY <1>10, <1>13, <1>14
  <2>3. Shares(hw, l, 3) + Shares(hx, m, 3) = args[3] /\ args[3] \in Nat BY <1>11, <1>13, <1>14
  <2>4. Shares(hw, l, 4) + Shares(hx, m, 4) = args[4] /\ args[4] \in Nat BY <1>12, <1>13, <1>14
  <2> QED BY SMT, <2>1, <2>2, <2>3, <2>4
<1>16. Fixed(hw, l) /\ Fixed(hx, m) BY <1>13, <1>14
<1> QED
  <2>1. \A k \in DOMAIN Methods[op].max : Shares(hw, l, k) + Shares(hx, m, k) = args[k] /\ args[k] \in Nat
    BY <1>4, <1>15
  <2>2. ReadWide(op, args, hw, hx, l, m) BY <1>1, <1>6, <1>16, <2>1 DEF ReadWide
  <2> QED BY <2>2, WideSurvives

\* cmp_w
LEMMA CmpSurvives ==
  ASSUME NEW op, op = "cmp_w",
         NEW args, args[1] \in 0..14, args[2] \in 0..14
  PROVE  Survives(op, args)
<1> DEFINE l == <<Is(4096, 3771), R4(1)>>
           m == <<Is(4096, 240), R4(2)>>
<1> HIDE DEF l, m
<1>1. Layouts[op] = <<l, m>> BY DEF Layouts, l, m
<1>2. Methods[op] = Row(<<60336, 3840>>, <<14, 14>>) /\ Halfwords(op) = 2
  <2>1. op \in DOMAIN WideMethods /\ WideMethods[op] = Row(<<60336, 3840>>, <<14, 14>>) BY DEF WideMethods
  <2>2. op \notin DOMAIN NarrowMethods BY DEF NarrowMethods
  <2> QED BY <2>1, <2>2, WideRow DEF Halfwords
<1>3. OperandBits(op, args) = <<args[1], args[2]>> BY SMT DEF OperandBits, SpMethods
<1>4. DOMAIN Methods[op].max = 1..2 BY SMT, <1>2 DEF Row
<1>5. PICK hw, hx :
      /\ Encode(op, args) = [h \in 1..2 |-> IF h = 1 THEN hw ELSE hx]
      /\ hw = 3771 * 16 + args[1]
      /\ hx = 240 * 16 + args[2]
  <2>1. 60336 + (args[1]) = 3771 * 16 + args[1] BY SMT
  <2>2. 3840 + (args[2]) = 240 * 16 + args[2] BY SMT
  <2> QED BY SMT, <1>2, <1>3, <2>1, <2>2 DEF Encode, Row
<1>6. Encode(op, args) = [h \in 1..2 |-> IF h = 1 THEN hw ELSE hx] BY <1>5
<1>7. Number2(hw, Is(4096, 3771), R4(1), 3771, args[1]) BY SMT, <1>5 DEF Number2, Digit, Is, R3, R4, Of
<1>8. Number2(hx, Is(4096, 240), R4(2), 240, args[2]) BY SMT, <1>5 DEF Number2, Digit, Is, R3, R4, Of
<1>9. (Given(Is(4096, 3771), 3771, 1) + Given(R4(1), args[1], 1))
      + (Given(Is(4096, 240), 240, 1) + Given(R4(2), args[2], 1)) = args[1]
  BY SMT, GivenFields DEF R3, R4
<1>10. (Given(Is(4096, 3771), 3771, 2) + Given(R4(1), args[1], 2))
      + (Given(Is(4096, 240), 240, 2) + Given(R4(2), args[2], 2)) = args[2]
  BY SMT, GivenFields DEF R3, R4
<1>11. Fixed(hw, l) /\ \A k : Shares(hw, l, k) = Given(Is(4096, 3771), 3771, k) + Given(R4(1), args[1], k)
  BY <1>7, Read2 DEF l
<1>12. Fixed(hx, m) /\ \A k : Shares(hx, m, k) = Given(Is(4096, 240), 240, k) + Given(R4(2), args[2], k)
  BY <1>8, Read2 DEF m
<1>13. \A k \in 1..2 : Shares(hw, l, k) + Shares(hx, m, k) = args[k] /\ args[k] \in Nat
  <2>1. Shares(hw, l, 1) + Shares(hx, m, 1) = args[1] /\ args[1] \in Nat BY <1>9, <1>11, <1>12
  <2>2. Shares(hw, l, 2) + Shares(hx, m, 2) = args[2] /\ args[2] \in Nat BY <1>10, <1>11, <1>12
  <2> QED BY SMT, <2>1, <2>2
<1>14. Fixed(hw, l) /\ Fixed(hx, m) BY <1>11, <1>12
<1> QED
  <2>1. \A k \in DOMAIN Methods[op].max : Shares(hw, l, k) + Shares(hx, m, k) = args[k] /\ args[k] \in Nat
    BY <1>4, <1>13
  <2>2. ReadWide(op, args, hw, hx, l, m) BY <1>1, <1>6, <1>14, <2>1 DEF ReadWide
  <2> QED BY <2>2, WideSurvives

\* movw, movt: the immediate in four parts
LEMMA Imm16Survives ==
  ASSUME NEW op, NEW top, (op = "movw" /\ top = 36) \/ (op = "movt" /\ top = 44),
         NEW args, args[1] \in 0..14, args[2] \in Nat, args[2] <= 65535
  PROVE  Survives(op, args)
<1> DEFINE l == <<Is(32, 30), Of(2, 2, 2048), Is(64, top), Of(16, 2, 4096)>>
           m == <<Is(2, 0), Of(8, 2, 256), R4(1), Of(256, 2, 1)>>
<1> HIDE DEF l, m
<1>1. Layouts[op] = <<l, m>>
  <2>1. Layouts[op] = Wide16(top) BY DEF Layouts
  <2> QED BY <2>1 DEF Wide16, l, m
<1>2. Methods[op] = Row(<<61440 + 16 * top, 0>>, <<14, 65535>>) /\ Halfwords(op) = 2
  <2>1. op \in DOMAIN WideMethods /\ WideMethods[op] = Row(<<61440 + 16 * top, 0>>, <<14, 65535>>)
    BY DEF WideMethods
  <2>2. op \notin DOMAIN NarrowMethods BY DEF NarrowMethods
  <2> QED BY <2>1, <2>2, WideRow DEF Halfwords
<1>a. PICK w, x, y, z :
      /\ w = Bits(args[2], 4096, 16) /\ x = Bits(args[2], 2048, 2) /\ y = Bits(args[2], 256, 8)
           /\ z = Bits(args[2], 1, 256)
      /\ w \in 0..15 /\ x \in 0..1 /\ y \in 0..7 /\ z \in Nat /\ z <= 255
           /\ args[2] = 4096 * w + 2048 * x + 256 * y + z
  <2>1. Bits(args[2], 4096, 16) \in 0..15 /\ Bits(args[2], 2048, 2) \in 0..1
        /\ Bits(args[2], 256, 8) \in 0..7 /\ Bits(args[2], 1, 256) \in Nat /\ Bits(args[2], 1, 256) <= 255
        /\ args[2] = 4096 * Bits(args[2], 4096, 16) + 2048 * Bits(args[2], 2048, 2) + 256 * Bits(args[2],
        256, 8) + Bits(args[2], 1, 256)
    BY Imm16Bits
  <2> QED BY <2>1
<1>b. w \in 0..15 /\ x \in 0..1 /\ y \in 0..7 /\ z \in Nat /\ z <= 255
      /\ args[2] = 4096 * w + 2048 * x + 256 * y + z
  BY <1>a
<1>3. OperandBits(op, args) = <<1024 * x + w, 256 * args[1] + (4096 * y + z)>>
  BY SMT, <1>a DEF OperandBits, SpMethods, ImmHigh, ImmLow
<1>4. DOMAIN Methods[op].max = 1..2 BY SMT, <1>2 DEF Row
<1>5. PICK hw, hx :
      /\ Encode(op, args) = [h \in 1..2 |-> IF h = 1 THEN hw ELSE hx]
      /\ hw = 30 * (2 * 64 * 16) + x * (64 * 16) + top * 16 + w
      /\ hx = 0 * (8 * 16 * 256) + y * (16 * 256) + args[1] * 256 + z
  <2>1. 61440 + 16 * top + (1024 * x + w) = 30 * (2 * 64 * 16) + x * (64 * 16) + top * 16 + w BY SMT, <1>b
  <2>2. 0 + (256 * args[1] + (4096 * y + z)) = 0 * (8 * 16 * 256) + y * (16 * 256) + args[1] * 256 + z
    BY SMT, <1>b
  <2> QED BY SMT, <1>2, <1>3, <2>1, <2>2 DEF Encode, Row
<1>6. Encode(op, args) = [h \in 1..2 |-> IF h = 1 THEN hw ELSE hx] BY <1>5
<1>7. Number4(hw, Is(32, 30), Of(2, 2, 2048), Is(64, top), Of(16, 2, 4096), 30, x, top, w)
  BY SMT, <1>5, <1>b DEF Number4, Digit, Is, R3, R4, Of
<1>8. Number4(hx, Is(2, 0), Of(8, 2, 256), R4(1), Of(256, 2, 1), 0, y, args[1], z)
  BY SMT, <1>5, <1>b DEF Number4, Digit, Is, R3, R4, Of
<1>9. (Given(Is(32, 30), 30, 1) + Given(Of(2, 2, 2048), x, 1) + Given(Is(64, top), top, 1)
      + Given(Of(16, 2, 4096), w, 1)) + (Given(Is(2, 0), 0, 1) + Given(Of(8, 2, 256), y, 1)
      + Given(R4(1), args[1], 1) + Given(Of(256, 2, 1), z, 1)) = args[1]
  BY SMT, <1>b, GivenFields DEF R3, R4
<1>10. (Given(Is(32, 30), 30, 2) + Given(Of(2, 2, 2048), x, 2) + Given(Is(64, top), top, 2)
      + Given(Of(16, 2, 4096), w, 2)) + (Given(Is(2, 0), 0, 2) + Given(Of(8, 2, 256), y, 2)
      + Given(R4(1), args[1], 2) + Given(Of(256, 2, 1), z, 2)) = args[2]
  BY SMT, <1>b, GivenFields DEF R3, R4
<1>11. Fixed(hw, l) /\ \A k : Shares(hw, l, k) = Given(Is(32, 30), 30, k)
      + Given(Of(2, 2, 2048), x, k) + Given(Is(64, top), top, k) + Given(Of(16, 2, 4096), w, k)
  BY <1>7, Read4 DEF l
<1>12. Fixed(hx, m) /\ \A k : Shares(hx, m, k) = Given(Is(2, 0), 0, k) + Given(Of(8, 2, 256), y, k)
      + Given(R4(1), args[1], k) + Given(Of(256, 2, 1), z, k)
  BY <1>8, Read4 DEF m
<1>13. \A k \in 1..2 : Shares(hw, l, k) + Shares(hx, m, k) = args[k] /\ args[k] \in Nat
  <2>1. Shares(hw, l, 1) + Shares(hx, m, 1) = args[1] /\ args[1] \in Nat BY <1>9, <1>11, <1>12
  <2>2. Shares(hw, l, 2) + Shares(hx, m, 2) = args[2] /\ args[2] \in Nat BY <1>10, <1>11, <1>12
  <2> QED BY SMT, <2>1, <2>2
<1>14. Fixed(hw, l) /\ Fixed(hx, m) BY <1>11, <1>12
<1> QED
  <2>1. \A k \in DOMAIN Methods[op].max : Shares(hw, l, k) + Shares(hx, m, k) = args[k] /\ args[k] \in Nat
    BY <1>4, <1>13
  <2>2. ReadWide(op, args, hw, hx, l, m) BY <1>1, <1>6, <1>14, <2>1 DEF ReadWide
  <2> QED BY <2>2, WideSurvives

\* umull
LEMMA UmullSurvives ==
  ASSUME NEW op, op = "umull",
         NEW args, args[1] \in 0..12, args[2] \in 0..12, args[3] \in 0..12, args[4] \in 0..12
  PROVE  Survives(op, args)
<1> DEFINE l == <<Is(4096, 4026), R4(3)>>
           m == <<R4(1), R4(2), Is(16, 0), R4(4)>>
<1> HIDE DEF l, m
<1>1. Layouts[op] = <<l, m>> BY DEF Layouts, l, m
<1>2. Methods[op] = Row(<<64416, 0>>, <<12, 12, 12, 12>>) /\ Halfwords(op) = 2
  <2>1. op \in DOMAIN WideMethods /\ WideMethods[op] = Row(<<64416, 0>>, <<12, 12, 12, 12>>) BY DEF WideMethods
  <2>2. op \notin DOMAIN NarrowMethods BY DEF NarrowMethods
  <2> QED BY <2>1, <2>2, WideRow DEF Halfwords
<1>3. OperandBits(op, args) = <<args[3], 4096 * args[1] + 256 * args[2] + args[4]>>
  BY SMT DEF OperandBits, SpMethods
<1>4. DOMAIN Methods[op].max = 1..4 BY SMT, <1>2 DEF Row
<1>5. PICK hw, hx :
      /\ Encode(op, args) = [h \in 1..2 |-> IF h = 1 THEN hw ELSE hx]
      /\ hw = 4026 * 16 + args[3]
      /\ hx = args[1] * (16 * 16 * 16) + args[2] * (16 * 16) + 0 * 16 + args[4]
  <2>1. 64416 + (args[3]) = 4026 * 16 + args[3] BY SMT
  <2>2. 0 + (4096 * args[1] + 256 * args[2] + args[4]) = args[1] * (16 * 16 * 16) + args[2] * (16 * 16) + 0 * 16 + args[4]
    BY SMT
  <2> QED BY SMT, <1>2, <1>3, <2>1, <2>2 DEF Encode, Row
<1>6. Encode(op, args) = [h \in 1..2 |-> IF h = 1 THEN hw ELSE hx] BY <1>5
<1>7. Number2(hw, Is(4096, 4026), R4(3), 4026, args[3]) BY SMT, <1>5 DEF Number2, Digit, Is, R3, R4, Of
<1>8. Number4(hx, R4(1), R4(2), Is(16, 0), R4(4), args[1], args[2], 0, args[4])
  BY SMT, <1>5 DEF Number4, Digit, Is, R3, R4, Of
<1>9. (Given(Is(4096, 4026), 4026, 1) + Given(R4(3), args[3], 1))
      + (Given(R4(1), args[1], 1) + Given(R4(2), args[2], 1) + Given(Is(16, 0), 0, 1)
      + Given(R4(4), args[4], 1)) = args[1]
  BY SMT, GivenFields DEF R3, R4
<1>10. (Given(Is(4096, 4026), 4026, 2) + Given(R4(3), args[3], 2))
      + (Given(R4(1), args[1], 2) + Given(R4(2), args[2], 2) + Given(Is(16, 0), 0, 2)
      + Given(R4(4), args[4], 2)) = args[2]
  BY SMT, GivenFields DEF R3, R4
<1>11. (Given(Is(4096, 4026), 4026, 3) + Given(R4(3), args[3], 3))
      + (Given(R4(1), args[1], 3) + Given(R4(2), args[2], 3) + Given(Is(16, 0), 0, 3)
      + Given(R4(4), args[4], 3)) = args[3]
  BY SMT, GivenFields DEF R3, R4
<1>12. (Given(Is(4096, 4026), 4026, 4) + Given(R4(3), args[3], 4))
      + (Given(R4(1), args[1], 4) + Given(R4(2), args[2], 4) + Given(Is(16, 0), 0, 4)
      + Given(R4(4), args[4], 4)) = args[4]
  BY SMT, GivenFields DEF R3, R4
<1>13. Fixed(hw, l) /\ \A k : Shares(hw, l, k) = Given(Is(4096, 4026), 4026, k) + Given(R4(3), args[3], k)
  BY <1>7, Read2 DEF l
<1>14. Fixed(hx, m) /\ \A k : Shares(hx, m, k) = Given(R4(1), args[1], k) + Given(R4(2), args[2], k)
      + Given(Is(16, 0), 0, k) + Given(R4(4), args[4], k)
  BY <1>8, Read4 DEF m
<1>15. \A k \in 1..4 : Shares(hw, l, k) + Shares(hx, m, k) = args[k] /\ args[k] \in Nat
  <2>1. Shares(hw, l, 1) + Shares(hx, m, 1) = args[1] /\ args[1] \in Nat BY <1>9, <1>13, <1>14
  <2>2. Shares(hw, l, 2) + Shares(hx, m, 2) = args[2] /\ args[2] \in Nat BY <1>10, <1>13, <1>14
  <2>3. Shares(hw, l, 3) + Shares(hx, m, 3) = args[3] /\ args[3] \in Nat BY <1>11, <1>13, <1>14
  <2>4. Shares(hw, l, 4) + Shares(hx, m, 4) = args[4] /\ args[4] \in Nat BY <1>12, <1>13, <1>14
  <2> QED BY SMT, <2>1, <2>2, <2>3, <2>4
<1>16. Fixed(hw, l) /\ Fixed(hx, m) BY <1>13, <1>14
<1> QED
  <2>1. \A k \in DOMAIN Methods[op].max : Shares(hw, l, k) + Shares(hx, m, k) = args[k] /\ args[k] \in Nat
    BY <1>4, <1>15
  <2>2. ReadWide(op, args, hw, hx, l, m) BY <1>1, <1>6, <1>16, <2>1 DEF ReadWide
  <2> QED BY <2>2, WideSurvives

\* mvn_imm
LEMMA MvnSurvives ==
  ASSUME NEW op, op = "mvn_imm",
         NEW args, args[1] \in 0..14, args[2] \in 0..0
  PROVE  Survives(op, args)
<1> DEFINE l == <<Is(65536, 61551)>>
           m == <<Is(16, 0), R4(1), Is(256, 0)>>
<1> HIDE DEF l, m
<1>1. Layouts[op] = <<l, m>> BY DEF Layouts, l, m
<1>2. Methods[op] = Row(<<61551, 0>>, <<14, 0>>) /\ Halfwords(op) = 2
  <2>1. op \in DOMAIN WideMethods /\ WideMethods[op] = Row(<<61551, 0>>, <<14, 0>>) BY DEF WideMethods
  <2>2. op \notin DOMAIN NarrowMethods BY DEF NarrowMethods
  <2> QED BY <2>1, <2>2, WideRow DEF Halfwords
<1>3. OperandBits(op, args) = <<0, 256 * args[1]>> BY SMT DEF OperandBits, SpMethods
<1>4. DOMAIN Methods[op].max = 1..2 BY SMT, <1>2 DEF Row
<1>5. PICK hw, hx :
      /\ Encode(op, args) = [h \in 1..2 |-> IF h = 1 THEN hw ELSE hx]
      /\ hw = 61551
      /\ hx = 0 * (16 * 256) + args[1] * 256 + 0
  <2>1. 61551 + (0) = 61551 BY SMT
  <2>2. 0 + (256 * args[1]) = 0 * (16 * 256) + args[1] * 256 + 0 BY SMT
  <2> QED BY SMT, <1>2, <1>3, <2>1, <2>2 DEF Encode, Row
<1>6. Encode(op, args) = [h \in 1..2 |-> IF h = 1 THEN hw ELSE hx] BY <1>5
<1>7. Number1(hw, Is(65536, 61551), 61551) BY SMT, <1>5 DEF Number1, Digit, Is, R3, R4, Of
<1>8. Number3(hx, Is(16, 0), R4(1), Is(256, 0), 0, args[1], 0) BY SMT, <1>5 DEF Number3, Digit, Is, R3, R4, Of
<1>9. (Given(Is(65536, 61551), 61551, 1)) + (Given(Is(16, 0), 0, 1) + Given(R4(1), args[1], 1)
      + Given(Is(256, 0), 0, 1)) = args[1]
  BY SMT, GivenFields DEF R3, R4
<1>10. (Given(Is(65536, 61551), 61551, 2)) + (Given(Is(16, 0), 0, 2) + Given(R4(1), args[1], 2)
      + Given(Is(256, 0), 0, 2)) = args[2]
  BY SMT, GivenFields DEF R3, R4
<1>11. Fixed(hw, l) /\ \A k : Shares(hw, l, k) = Given(Is(65536, 61551), 61551, k)
  BY <1>7, Read1 DEF l
<1>12. Fixed(hx, m) /\ \A k : Shares(hx, m, k) = Given(Is(16, 0), 0, k) + Given(R4(1), args[1], k)
      + Given(Is(256, 0), 0, k)
  BY <1>8, Read3 DEF m
<1>13. \A k \in 1..2 : Shares(hw, l, k) + Shares(hx, m, k) = args[k] /\ args[k] \in Nat
  <2>1. Shares(hw, l, 1) + Shares(hx, m, 1) = args[1] /\ args[1] \in Nat BY <1>9, <1>11, <1>12
  <2>2. Shares(hw, l, 2) + Shares(hx, m, 2) = args[2] /\ args[2] \in Nat BY <1>10, <1>11, <1>12
  <2> QED BY SMT, <2>1, <2>2
<1>14. Fixed(hw, l) /\ Fixed(hx, m) BY <1>11, <1>12
<1> QED
  <2>1. \A k \in DOMAIN Methods[op].max : Shares(hw, l, k) + Shares(hx, m, k) = args[k] /\ args[k] \in Nat
    BY <1>4, <1>13
  <2>2. ReadWide(op, args, hw, hx, l, m) BY <1>1, <1>6, <1>14, <2>1 DEF ReadWide
  <2> QED BY <2>2, WideSurvives

\* The operands that a method's _check lets through.
InRange(op, args) == \A k \in DOMAIN Methods[op].max : args[k] \in Nat /\ args[k] <= Methods[op].max[k]

LEMMA Imm8InRange ==
  ASSUME NEW op \in {"movs_imm8", "cmp_imm8"}, NEW args, InRange(op, args)
  PROVE  Survives(op, args)
<1>1. Methods[op].max = <<7, 255>> BY NarrowRow DEF NarrowMethods, Row
<1>2. /\ args[1] \in Nat /\ args[1] <= 7
      /\ args[2] \in Nat /\ args[2] <= 255
  BY SMT, <1>1 DEF InRange
<1>3. args[1] \in 0..7 BY SMT, <1>2
<1> QED BY <1>2, <1>3, Imm8Survives

LEMMA SpInRange ==
  ASSUME NEW op \in {"add_sp_imm", "str_sp_imm", "ldr_sp_imm"}, NEW args, InRange(op, args), args[2] % 4 = 0
  PROVE  Survives(op, args)
<1>1. Methods[op].max = <<7, 1020>> BY NarrowRow DEF NarrowMethods, Row
<1>2. /\ args[1] \in Nat /\ args[1] <= 7
      /\ args[2] \in Nat /\ args[2] <= 1020
  BY SMT, <1>1 DEF InRange
<1>3. args[1] \in 0..7 BY SMT, <1>2
<1> QED BY <1>2, <1>3, SpSurvives

LEMMA HighInRange ==
  ASSUME NEW op \in {"mov_lo_lo", "add_reg"}, NEW args, InRange(op, args)
  PROVE  Survives(op, args)
<1>1. Methods[op].max = <<15, 15>> BY NarrowRow DEF NarrowMethods, Row
<1>2. /\ args[1] \in Nat /\ args[1] <= 15
      /\ args[2] \in Nat /\ args[2] <= 15
  BY SMT, <1>1 DEF InRange
<1>3. args[1] \in 0..15 /\ args[2] \in 0..15 BY SMT, <1>2
<1> QED BY <1>2, <1>3, HighSurvives

LEMMA BxInRange ==
  ASSUME NEW op \in {"bx"}, NEW args, InRange(op, args)
  PROVE  Survives(op, args)
<1>1. Methods[op].max = <<15>> BY NarrowRow DEF NarrowMethods, Row
<1>2. /\ args[1] \in Nat /\ args[1] <= 15
  BY SMT, <1>1 DEF InRange
<1>3. args[1] \in 0..15 BY SMT, <1>2
<1> QED BY <1>2, <1>3, BxSurvives

LEMMA SvcInRange ==
  ASSUME NEW op \in {"svc"}, NEW args, InRange(op, args)
  PROVE  Survives(op, args)
<1>1. Methods[op].max = <<255>> BY NarrowRow DEF NarrowMethods, Row
<1>2. /\ args[1] \in Nat /\ args[1] <= 255
  BY SMT, <1>1 DEF InRange
<1> QED BY <1>2, SvcSurvives

LEMMA TwoLowInRange ==
  ASSUME NEW op \in {"rev_lo_lo", "muls_lo_lo"}, NEW args, InRange(op, args)
  PROVE  Survives(op, args)
<1>1. Methods[op].max = <<7, 7>> BY NarrowRow DEF NarrowMethods, Row
<1>2. /\ args[1] \in Nat /\ args[1] <= 7
      /\ args[2] \in Nat /\ args[2] <= 7
  BY SMT, <1>1 DEF InRange
<1>3. args[1] \in 0..7 /\ args[2] \in 0..7 BY SMT, <1>2
<1> QED BY <1>2, <1>3, TwoLowSurvives

LEMMA ThreeLowInRange ==
  ASSUME NEW op \in {"ldrb_reg", "adds_lo_lo", "subs_lo_lo"}, NEW args, InRange(op, args)
  PROVE  Survives(op, args)
<1>1. Methods[op].max = <<7, 7, 7>> BY NarrowRow DEF NarrowMethods, Row
<1>2. /\ args[1] \in Nat /\ args[1] <= 7
      /\ args[2] \in Nat /\ args[2] <= 7
      /\ args[3] \in Nat /\ args[3] <= 7
  BY SMT, <1>1 DEF InRange
<1>3. args[1] \in 0..7 /\ args[2] \in 0..7 /\ args[3] \in 0..7 BY SMT, <1>2
<1> QED BY <1>2, <1>3, ThreeLowSurvives

LEMMA ShiftInRange ==
  ASSUME NEW op \in {"lsrs_imm5", "lsls_imm5"}, NEW args, InRange(op, args)
  PROVE  Survives(op, args)
<1>1. Methods[op].max = <<7, 7, 31>> BY NarrowRow DEF NarrowMethods, Row
<1>2. /\ args[1] \in Nat /\ args[1] <= 7
      /\ args[2] \in Nat /\ args[2] <= 7
      /\ args[3] \in Nat /\ args[3] <= 31
  BY SMT, <1>1 DEF InRange
<1>3. args[1] \in 0..7 /\ args[2] \in 0..7 /\ args[3] \in 0..31 BY SMT, <1>2
<1> QED BY <1>2, <1>3, ShiftSurvives

LEMMA MemInRange ==
  ASSUME NEW op \in {"ldrb_w", "ldrh_w", "ldr_w", "strb_w"}, NEW args, InRange(op, args)
  PROVE  Survives(op, args)
<1>1. Methods[op].max = <<14, 14, 4095>>
  <2>1. op \notin DOMAIN NarrowMethods BY DEF NarrowMethods
  <2>2. op \in DOMAIN WideMethods /\ WideMethods[op].max = <<14, 14, 4095>> BY DEF WideMethods, Row
  <2> QED BY <2>1, <2>2, WideRow
<1>2. /\ args[1] \in Nat /\ args[1] <= 14
      /\ args[2] \in Nat /\ args[2] <= 14
      /\ args[3] \in Nat /\ args[3] <= 4095
  BY SMT, <1>1 DEF InRange
<1>3. args[1] \in 0..14 /\ args[2] \in 0..14 BY SMT, <1>2
<1> QED BY <1>2, <1>3, MemSurvives

LEMMA Imm12InRange ==
  ASSUME NEW op \in {"addw", "subw"}, NEW args, InRange(op, args)
  PROVE  Survives(op, args)
<1>1. Methods[op].max = <<14, 15, 4095>>
  <2>1. op \notin DOMAIN NarrowMethods BY DEF NarrowMethods
  <2>2. op \in DOMAIN WideMethods /\ WideMethods[op].max = <<14, 15, 4095>> BY DEF WideMethods, Row
  <2> QED BY <2>1, <2>2, WideRow
<1>2. /\ args[1] \in Nat /\ args[1] <= 14
      /\ args[2] \in Nat /\ args[2] <= 15
      /\ args[3] \in Nat /\ args[3] <= 4095
  BY SMT, <1>1 DEF InRange
<1>3. args[1] \in 0..14 /\ args[2] \in 0..15 BY SMT, <1>2
<1> QED BY <1>2, <1>3, Imm12Survives

LEMMA CmpInRange ==
  ASSUME NEW op \in {"cmp_w"}, NEW args, InRange(op, args)
  PROVE  Survives(op, args)
<1>1. Methods[op].max = <<14, 14>>
  <2>1. op \notin DOMAIN NarrowMethods BY DEF NarrowMethods
  <2>2. op \in DOMAIN WideMethods /\ WideMethods[op].max = <<14, 14>> BY DEF WideMethods, Row
  <2> QED BY <2>1, <2>2, WideRow
<1>2. /\ args[1] \in Nat /\ args[1] <= 14
      /\ args[2] \in Nat /\ args[2] <= 14
  BY SMT, <1>1 DEF InRange
<1>3. args[1] \in 0..14 /\ args[2] \in 0..14 BY SMT, <1>2
<1> QED BY <1>2, <1>3, CmpSurvives

LEMMA Imm16InRange ==
  ASSUME NEW op \in {"movw", "movt"}, NEW args, InRange(op, args)
  PROVE  Survives(op, args)
<1>1. Methods[op].max = <<14, 65535>>
  <2>1. op \notin DOMAIN NarrowMethods BY DEF NarrowMethods
  <2>2. op \in DOMAIN WideMethods /\ WideMethods[op].max = <<14, 65535>> BY DEF WideMethods, Row
  <2> QED BY <2>1, <2>2, WideRow
<1>2. /\ args[1] \in Nat /\ args[1] <= 14
      /\ args[2] \in Nat /\ args[2] <= 65535
  BY SMT, <1>1 DEF InRange
<1>3. args[1] \in 0..14 BY SMT, <1>2
<1> QED BY <1>2, <1>3, Imm16Survives

LEMMA UmullInRange ==
  ASSUME NEW op \in {"umull"}, NEW args, InRange(op, args)
  PROVE  Survives(op, args)
<1>1. Methods[op].max = <<12, 12, 12, 12>>
  <2>1. op \notin DOMAIN NarrowMethods BY DEF NarrowMethods
  <2>2. op \in DOMAIN WideMethods /\ WideMethods[op].max = <<12, 12, 12, 12>> BY DEF WideMethods, Row
  <2> QED BY <2>1, <2>2, WideRow
<1>2. /\ args[1] \in Nat /\ args[1] <= 12
      /\ args[2] \in Nat /\ args[2] <= 12
      /\ args[3] \in Nat /\ args[3] <= 12
      /\ args[4] \in Nat /\ args[4] <= 12
  BY SMT, <1>1 DEF InRange
<1>3. args[1] \in 0..12 /\ args[2] \in 0..12 /\ args[3] \in 0..12 /\ args[4] \in 0..12 BY SMT, <1>2
<1> QED BY <1>2, <1>3, UmullSurvives

LEMMA MvnInRange ==
  ASSUME NEW op \in {"mvn_imm"}, NEW args, InRange(op, args)
  PROVE  Survives(op, args)
<1>1. Methods[op].max = <<14, 0>>
  <2>1. op \notin DOMAIN NarrowMethods BY DEF NarrowMethods
  <2>2. op \in DOMAIN WideMethods /\ WideMethods[op].max = <<14, 0>> BY DEF WideMethods, Row
  <2> QED BY <2>1, <2>2, WideRow
<1>2. /\ args[1] \in Nat /\ args[1] <= 14
      /\ args[2] \in Nat /\ args[2] <= 0
  BY SMT, <1>1 DEF InRange
<1>3. args[1] \in 0..14 /\ args[2] \in 0..0 BY SMT, <1>2
<1> QED BY <1>2, <1>3, MvnSurvives

\* The operands of a call, as many as the method has, that its _check lets through
\* (add_imm_t3 does not check its registers and its carry).
Called(op, args) ==
  /\ op \in DOMAIN Methods
  /\ args \in Seq(Nat) /\ DOMAIN args = DOMAIN Methods[op].max
  /\ op = "add_imm_t3" => args[1] \in 0..14 /\ args[2] \in 0..14 /\ args[4] \in 0..1

LEMMA AnySurvives ==
  ASSUME NEW op, NEW args, Called(op, args), Admits(op, args)
  PROVE  Survives(op, args)
<1>1. CASE op = "add_imm_t3"
  <2>1. args[1] \in 0..14 /\ args[2] \in 0..14 /\ args[4] \in 0..1 BY <1>1 DEF Called
  <2>2. args[3] \in 0..255 BY <1>1 DEF Admits
  <2>3. args[3] \in Nat /\ args[3] <= 255 BY SMT, <2>2
  <2> QED BY <1>1, <2>1, <2>3, AddImmSurvives
<1>2. CASE op # "add_imm_t3"
  <2>1. ASSUME NEW k \in DOMAIN Methods[op].max PROVE args[k] \in Nat /\ args[k] <= Methods[op].max[k]
    <3>1. args[k] \in 0..Methods[op].max[k] BY <1>2 DEF Called, Admits
    <3> QED BY SMT, <3>1
  <2>2. InRange(op, args) BY <2>1 DEF InRange
  <2>3. op \in SpMethods => args[2] % 4 = 0 BY DEF Admits
  <2>4. \/ op \in {"movs_imm8", "cmp_imm8", "add_sp_imm", "str_sp_imm", "ldr_sp_imm", "mov_lo_lo", "add_reg",
             "bx"}
        \/ op \in {"svc", "rev_lo_lo", "muls_lo_lo", "ldrb_reg", "adds_lo_lo", "subs_lo_lo", "lsrs_imm5",
             "lsls_imm5"}
        \/ op \in {"strb_w", "ldrb_w", "ldrh_w", "ldr_w", "addw", "subw", "movw", "movt"}
        \/ op \in {"cmp_w", "umull", "mvn_imm"}
    <3>1. op \in DOMAIN NarrowMethods \cup DOMAIN WideMethods BY DEF Called, Methods
    <3> QED BY <1>2, <3>1 DEF NarrowMethods, WideMethods
  <2>5. CASE op \in {"movs_imm8", "cmp_imm8", "add_sp_imm", "str_sp_imm", "ldr_sp_imm", "mov_lo_lo",
        "add_reg", "bx"}
    BY <2>2, <2>3, <2>5, Imm8InRange, SpInRange, HighInRange, BxInRange DEF SpMethods
  <2>6. CASE op \in {"svc", "rev_lo_lo", "muls_lo_lo", "ldrb_reg", "adds_lo_lo", "subs_lo_lo", "lsrs_imm5",
        "lsls_imm5"}
    BY <2>2, <2>6, SvcInRange, TwoLowInRange, ThreeLowInRange, ShiftInRange
  <2>7. CASE op \in {"strb_w", "ldrb_w", "ldrh_w", "ldr_w", "addw", "subw", "movw", "movt"}
    BY <2>2, <2>7, MemInRange, Imm12InRange, Imm16InRange
  <2>8. CASE op \in {"cmp_w", "umull", "mvn_imm"} BY <2>2, <2>8, CmpInRange, UmullInRange, MvnInRange
  <2> QED BY <2>4, <2>5, <2>6, <2>7, <2>8
<1> QED BY <1>1, <1>2

-----------------------------------------------------------------------------
(* The first halfword tells the methods apart.                             *)

\* The method that a first halfword, and the number of halfwords, are of.
NarrowName(hw) ==
  IF hw < 2048 THEN "lsls_imm5" ELSE IF hw < 4096 THEN "lsrs_imm5"
  ELSE IF hw < 6656 THEN "adds_lo_lo" ELSE IF hw < 8192 THEN "subs_lo_lo"
  ELSE IF hw < 10240 THEN "movs_imm8" ELSE IF hw < 16384 THEN "cmp_imm8"
  ELSE IF hw < 17408 THEN "muls_lo_lo" ELSE IF hw < 17920 THEN "add_reg"
  ELSE IF hw < 18176 THEN "mov_lo_lo" ELSE IF hw < 20480 THEN "bx"
  ELSE IF hw < 32768 THEN "ldrb_reg" ELSE IF hw < 38912 THEN "str_sp_imm"
  ELSE IF hw < 43008 THEN "ldr_sp_imm" ELSE IF hw < 47104 THEN "add_sp_imm"
  ELSE IF hw < 49152 THEN "rev_lo_lo" ELSE "svc"
WideName(hw, mem, imm) ==
  IF hw < 61440 THEN "cmp_w" ELSE IF hw >= 64000 THEN "umull"
  ELSE IF hw = 61551 THEN "mvn_imm" ELSE IF 61696 <= hw /\ hw < 61728 THEN "add_imm_t3"
  ELSE IF hw >= 63488
  THEN IF mem = 0 THEN "strb_w" ELSE IF mem = 1 THEN "ldrb_w" ELSE IF mem = 3 THEN "ldrh_w" ELSE "ldr_w"
  ELSE IF imm = 32 THEN "addw" ELSE IF imm = 42 THEN "subw" ELSE IF imm = 36 THEN "movw" ELSE "movt"
Name(hws) ==
  IF 2 \in DOMAIN hws THEN WideName(hws[1], Bits(hws[1], 16, 8), Bits(hws[1], 16, 64)) ELSE NarrowName(hws[1])

\* A layout that begins with s values of which v is fixed, from bit value low on, and what
\* that says of a halfword.
Starts(l, s, v, low) ==
  /\ 1 \in DOMAIN l /\ l[1] = Is(s, v) /\ Low(l, 1) = low
  /\ s \in Nat \ {0} /\ low \in Nat \ {0} /\ v \in Nat /\ s * low = 65536
Opens(hw, v, low) == hw \in Nat /\ v * low <= hw /\ hw < v * low + low

LEMMA Opening ==
  ASSUME NEW hw, IsHalfword(hw), NEW l, Fixed(hw, l), NEW s, NEW v, NEW low, Starts(l, s, v, low)
  PROVE  Opens(hw, v, low)
<1>1. l[1] = Is(s, v) /\ 1 \in DOMAIN l /\ Low(l, 1) = low BY DEF Starts
<1>2. l[1].k = 0 /\ l[1].is = v /\ l[1].size = s BY SMT, <1>1 DEF Is
<1>3. (hw \div low) % s = v BY <1>1, <1>2 DEF Fixed, Field, Bits
<1>4. s \in Nat \ {0} /\ low \in Nat \ {0} /\ v \in Nat /\ s * low = 65536 BY DEF Starts
<1>5. hw \in Nat /\ hw < 65536 BY SMT DEF IsHalfword
<1> DEFINE q == hw \div low
           r == hw % low
<1>6. q \in Int /\ r \in Int /\ 0 <= r /\ r < low /\ hw = low * q + r BY <1>4, <1>5, DivMod
<1>7. q % s = v BY <1>3
<1> HIDE DEF q, r
<1>8. q < s
  <2>1. CASE q >= s
    <3>1. low * q = low * s + low * (q - s) /\ low * (q - s) >= 0 BY SMT, <1>4, <1>6, <2>1
    <3>2. low * s = 65536 BY SMT, <1>4
    <3>3. low * q \in Int /\ low * (q - s) \in Int BY SMT, <1>4, <1>6
    <3> HIDE DEF q, r
    <3> QED BY SMT, <1>5, <1>6, <3>1, <3>2, <3>3
  <2> QED BY SMT, <1>4, <1>6, <2>1
<1>9. q >= 0
  <2>1. CASE q <= -1
    <3>1. low * q <= -low BY SMT, <1>4, <1>6, <2>1
    <3>2. low * q \in Int BY SMT, <1>4, <1>6
    <3> QED BY SMT, <1>4, <1>5, <1>6, <3>1, <3>2
  <2> QED BY SMT, <1>6, <2>1
<1>10. q = v
  <2>1. q = s * 0 + q /\ 0 \in Int /\ q \in 0..(s - 1) BY SMT, <1>4, <1>6, <1>8, <1>9
  <2>2. q % s = q BY SMT, <1>4, <1>6, <1>8, <1>9
  <2> QED BY <1>7, <2>2
<1>11. low * q = v * low /\ v * low \in Int BY SMT, <1>4, <1>6, <1>10
<1> QED BY SMT, <1>4, <1>5, <1>6, <1>11 DEF Opens

\* The halfwords of a method announce their number and are its alone.
Named(hws, op) == Name(hws) = op /\ Announced(hws[1]) = Halfwords(op)

LEMMA NarrowOpening ==
  ASSUME NEW hws, NEW op, Matches(hws, op), IsHalfword(hws[1]), NEW l, Layouts[op] = <<l>>,
         NEW s, NEW v, NEW low, Starts(l, s, v, low)
  PROVE  2 \notin DOMAIN hws /\ Opens(hws[1], v, low)
<1>1. DOMAIN Layouts[op] = {1} /\ Layouts[op][1] = l BY SMT
<1>2. DOMAIN hws = {1} BY <1>1 DEF Matches
<1>3. Fixed(hws[1], l) BY <1>1, <1>2 DEF Matches, Fixed
<1>4. 2 \notin DOMAIN hws BY SMT, <1>2
<1> QED BY <1>3, <1>4, Opening

LEMMA WideOpening ==
  ASSUME NEW hws, NEW op, Matches(hws, op), IsHalfword(hws[1]), NEW l, NEW m, Layouts[op] = <<l, m>>,
         NEW s, NEW v, NEW low, Starts(l, s, v, low)
  PROVE  2 \in DOMAIN hws /\ Opens(hws[1], v, low) /\ Fixed(hws[1], l)
<1>1. DOMAIN Layouts[op] = {1, 2} /\ Layouts[op][1] = l BY SMT
<1>2. DOMAIN hws = {1, 2} BY <1>1 DEF Matches
<1>3. Fixed(hws[1], l) BY <1>1, <1>2 DEF Matches, Fixed
<1>4. 2 \in DOMAIN hws BY SMT, <1>2
<1> QED BY <1>3, <1>4, Opening

LEMMA Imm8Named ==
  ASSUME NEW hws, IsHalfword(hws[1]), NEW op, Matches(hws, op),
         NEW top, (op = "movs_imm8" /\ top = 4) \/ (op = "cmp_imm8" /\ top = 5)
  PROVE  Named(hws, op)
<1> DEFINE l == <<Is(32, top), R3(1), Of(256, 2, 1)>>
<1> HIDE DEF l
<1>1. Layouts[op] = <<l>> BY DEF Layouts, l
<1>2. Starts(l, 32, top, 2048) BY SMT DEF l, Starts, Low, Size, Is, R3, R4, Of
<1>3. 2 \notin DOMAIN hws /\ Opens(hws[1], top, 2048) BY <1>1, <1>2, NarrowOpening
<1>4. NarrowName(hws[1]) = op /\ hws[1] < 59392 BY SMT, <1>3 DEF Opens, NarrowName
<1>5. Halfwords(op) = 1 BY DEF Halfwords, NarrowMethods
<1>6. Announced(hws[1]) = 1 BY SMT, <1>3, <1>4 DEF Announced, Opens
<1> QED BY <1>3, <1>4, <1>5, <1>6 DEF Named, Name

LEMMA SpNamed ==
  ASSUME NEW hws, IsHalfword(hws[1]), NEW op, Matches(hws, op),
         NEW top, (op = "add_sp_imm" /\ top = 21) \/ (op = "str_sp_imm" /\ top = 18)
               \/ (op = "ldr_sp_imm" /\ top = 19)
  PROVE  Named(hws, op)
<1> DEFINE l == <<Is(32, top), R3(1), Of(256, 2, 4)>>
<1> HIDE DEF l
<1>1. Layouts[op] = <<l>> BY DEF Layouts, l
<1>2. Starts(l, 32, top, 2048) BY SMT DEF l, Starts, Low, Size, Is, R3, R4, Of
<1>3. 2 \notin DOMAIN hws /\ Opens(hws[1], top, 2048) BY <1>1, <1>2, NarrowOpening
<1>4. NarrowName(hws[1]) = op /\ hws[1] < 59392 BY SMT, <1>3 DEF Opens, NarrowName
<1>5. Halfwords(op) = 1 BY DEF Halfwords, NarrowMethods
<1>6. Announced(hws[1]) = 1 BY SMT, <1>3, <1>4 DEF Announced, Opens
<1> QED BY <1>3, <1>4, <1>5, <1>6 DEF Named, Name

LEMMA HighNamed ==
  ASSUME NEW hws, IsHalfword(hws[1]), NEW op, Matches(hws, op),
         NEW top, (op = "mov_lo_lo" /\ top = 70) \/ (op = "add_reg" /\ top = 68)
  PROVE  Named(hws, op)
<1> DEFINE l == <<Is(256, top), Of(2, 1, 8), R4(2), R3(1)>>
<1> HIDE DEF l
<1>1. Layouts[op] = <<l>> BY DEF Layouts, l
<1>2. Starts(l, 256, top, 256) BY SMT DEF l, Starts, Low, Size, Is, R3, R4, Of
<1>3. 2 \notin DOMAIN hws /\ Opens(hws[1], top, 256) BY <1>1, <1>2, NarrowOpening
<1>4. NarrowName(hws[1]) = op /\ hws[1] < 59392 BY SMT, <1>3 DEF Opens, NarrowName
<1>5. Halfwords(op) = 1 BY DEF Halfwords, NarrowMethods
<1>6. Announced(hws[1]) = 1 BY SMT, <1>3, <1>4 DEF Announced, Opens
<1> QED BY <1>3, <1>4, <1>5, <1>6 DEF Named, Name

LEMMA BxNamed ==
  ASSUME NEW hws, IsHalfword(hws[1]), NEW op, Matches(hws, op),
         op = "bx"
  PROVE  Named(hws, op)
<1> DEFINE l == <<Is(512, 142), R4(1), Is(8, 0)>>
<1> HIDE DEF l
<1>1. Layouts[op] = <<l>> BY DEF Layouts, l
<1>2. Starts(l, 512, 142, 128) BY SMT DEF l, Starts, Low, Size, Is, R3, R4, Of
<1>3. 2 \notin DOMAIN hws /\ Opens(hws[1], 142, 128) BY <1>1, <1>2, NarrowOpening
<1>4. NarrowName(hws[1]) = op /\ hws[1] < 59392 BY SMT, <1>3 DEF Opens, NarrowName
<1>5. Halfwords(op) = 1 BY DEF Halfwords, NarrowMethods
<1>6. Announced(hws[1]) = 1 BY SMT, <1>3, <1>4 DEF Announced, Opens
<1> QED BY <1>3, <1>4, <1>5, <1>6 DEF Named, Name

LEMMA SvcNamed ==
  ASSUME NEW hws, IsHalfword(hws[1]), NEW op, Matches(hws, op),
         op = "svc"
  PROVE  Named(hws, op)
<1> DEFINE l == <<Is(256, 223), Of(256, 1, 1)>>
<1> HIDE DEF l
<1>1. Layouts[op] = <<l>> BY DEF Layouts, l
<1>2. Starts(l, 256, 223, 256) BY SMT DEF l, Starts, Low, Size, Is, R3, R4, Of
<1>3. 2 \notin DOMAIN hws /\ Opens(hws[1], 223, 256) BY <1>1, <1>2, NarrowOpening
<1>4. NarrowName(hws[1]) = op /\ hws[1] < 59392 BY SMT, <1>3 DEF Opens, NarrowName
<1>5. Halfwords(op) = 1 BY DEF Halfwords, NarrowMethods
<1>6. Announced(hws[1]) = 1 BY SMT, <1>3, <1>4 DEF Announced, Opens
<1> QED BY <1>3, <1>4, <1>5, <1>6 DEF Named, Name

LEMMA TwoLowNamed ==
  ASSUME NEW hws, IsHalfword(hws[1]), NEW op, Matches(hws, op),
         NEW top, (op = "rev_lo_lo" /\ top = 744) \/ (op = "muls_lo_lo" /\ top = 269)
  PROVE  Named(hws, op)
<1> DEFINE l == <<Is(1024, top), R3(2), R3(1)>>
<1> HIDE DEF l
<1>1. Layouts[op] = <<l>> BY DEF Layouts, l
<1>2. Starts(l, 1024, top, 64) BY SMT DEF l, Starts, Low, Size, Is, R3, R4, Of
<1>3. 2 \notin DOMAIN hws /\ Opens(hws[1], top, 64) BY <1>1, <1>2, NarrowOpening
<1>4. NarrowName(hws[1]) = op /\ hws[1] < 59392 BY SMT, <1>3 DEF Opens, NarrowName
<1>5. Halfwords(op) = 1 BY DEF Halfwords, NarrowMethods
<1>6. Announced(hws[1]) = 1 BY SMT, <1>3, <1>4 DEF Announced, Opens
<1> QED BY <1>3, <1>4, <1>5, <1>6 DEF Named, Name

LEMMA ThreeLowNamed ==
  ASSUME NEW hws, IsHalfword(hws[1]), NEW op, Matches(hws, op),
         NEW top, (op = "ldrb_reg" /\ top = 46) \/ (op = "adds_lo_lo" /\ top = 12)
               \/ (op = "subs_lo_lo" /\ top = 13)
  PROVE  Named(hws, op)
<1> DEFINE l == <<Is(128, top), R3(3), R3(2), R3(1)>>
<1> HIDE DEF l
<1>1. Layouts[op] = <<l>> BY DEF Layouts, l
<1>2. Starts(l, 128, top, 512) BY SMT DEF l, Starts, Low, Size, Is, R3, R4, Of
<1>3. 2 \notin DOMAIN hws /\ Opens(hws[1], top, 512) BY <1>1, <1>2, NarrowOpening
<1>4. NarrowName(hws[1]) = op /\ hws[1] < 59392 BY SMT, <1>3 DEF Opens, NarrowName
<1>5. Halfwords(op) = 1 BY DEF Halfwords, NarrowMethods
<1>6. Announced(hws[1]) = 1 BY SMT, <1>3, <1>4 DEF Announced, Opens
<1> QED BY <1>3, <1>4, <1>5, <1>6 DEF Named, Name

LEMMA ShiftNamed ==
  ASSUME NEW hws, IsHalfword(hws[1]), NEW op, Matches(hws, op),
         NEW top, (op = "lsrs_imm5" /\ top = 1) \/ (op = "lsls_imm5" /\ top = 0)
  PROVE  Named(hws, op)
<1> DEFINE l == <<Is(32, top), Of(32, 3, 1), R3(2), R3(1)>>
<1> HIDE DEF l
<1>1. Layouts[op] = <<l>> BY DEF Layouts, l
<1>2. Starts(l, 32, top, 2048) BY SMT DEF l, Starts, Low, Size, Is, R3, R4, Of
<1>3. 2 \notin DOMAIN hws /\ Opens(hws[1], top, 2048) BY <1>1, <1>2, NarrowOpening
<1>4. NarrowName(hws[1]) = op /\ hws[1] < 59392 BY SMT, <1>3 DEF Opens, NarrowName
<1>5. Halfwords(op) = 1 BY DEF Halfwords, NarrowMethods
<1>6. Announced(hws[1]) = 1 BY SMT, <1>3, <1>4 DEF Announced, Opens
<1> QED BY <1>3, <1>4, <1>5, <1>6 DEF Named, Name

LEMMA MemNamed ==
  ASSUME NEW hws, IsHalfword(hws[1]), NEW op, Matches(hws, op),
         NEW top, (op = "ldrb_w" /\ top = 1) \/ (op = "ldrh_w" /\ top = 3) \/ (op = "ldr_w" /\ top = 5)
               \/ (op = "strb_w" /\ top = 0)
  PROVE  Named(hws, op)
<1> DEFINE l == <<Is(512, 497), Is(8, top), R4(2)>>
           m == <<R4(1), Of(4096, 3, 1)>>
<1> HIDE DEF l, m
<1>1. Layouts[op] = <<l, m>>
  <2>1. Layouts[op] = Mem(top) BY DEF Layouts
  <2> QED BY <2>1 DEF Mem, l, m
<1>2. Starts(l, 512, 497, 128) BY SMT DEF l, Starts, Low, Size, Is, R3, R4, Of
<1>3. 2 \in DOMAIN hws /\ Opens(hws[1], 497, 128) /\ Fixed(hws[1], l) BY <1>1, <1>2, WideOpening
<1> DEFINE mem == Bits(hws[1], 16, 8)
           imm == Bits(hws[1], 16, 64)
<1>3a. mem = top
  <2>1. 2 \in DOMAIN l /\ l[2].k = 0 /\ l[2].is = top /\ l[2].size = 8 /\ Low(l, 2) = 16
    BY SMT DEF l, Low, Size, Is, R3, R4, Of
  <2> QED BY <1>3, <2>1 DEF Fixed, Field
<1> HIDE DEF mem, imm
<1>4. WideName(hws[1], mem, imm) = op /\ hws[1] >= 59392
  BY SMT, <1>3, <1>3a DEF Opens, WideName
<1>5. Halfwords(op) = 2 BY DEF Halfwords, NarrowMethods
<1>6. Announced(hws[1]) = 2 BY SMT, <1>3, <1>4 DEF Announced, Opens
<1> QED BY <1>3, <1>4, <1>5, <1>6 DEF Named, Name, mem, imm

LEMMA Imm12Named ==
  ASSUME NEW hws, IsHalfword(hws[1]), NEW op, Matches(hws, op),
         NEW top, (op = "addw" /\ top = 32) \/ (op = "subw" /\ top = 42)
  PROVE  Named(hws, op)
<1> DEFINE l == <<Is(32, 30), Of(2, 3, 2048), Is(64, top), R4(2)>>
           m == <<Is(2, 0), Of(8, 3, 256), R4(1), Of(256, 3, 1)>>
<1> HIDE DEF l, m
<1>1. Layouts[op] = <<l, m>>
  <2>1. Layouts[op] = Wide12(top) BY DEF Layouts
  <2> QED BY <2>1 DEF Wide12, l, m
<1>2. Starts(l, 32, 30, 2048) BY SMT DEF l, Starts, Low, Size, Is, R3, R4, Of
<1>3. 2 \in DOMAIN hws /\ Opens(hws[1], 30, 2048) /\ Fixed(hws[1], l) BY <1>1, <1>2, WideOpening
<1> DEFINE mem == Bits(hws[1], 16, 8)
           imm == Bits(hws[1], 16, 64)
<1>3a. imm = top
  <2>1. 3 \in DOMAIN l /\ l[3].k = 0 /\ l[3].is = top /\ l[3].size = 64 /\ Low(l, 3) = 16
    BY SMT DEF l, Low, Size, Is, R3, R4, Of
  <2> QED BY <1>3, <2>1 DEF Fixed, Field
<1> HIDE DEF mem, imm
<1>4. WideName(hws[1], mem, imm) = op /\ hws[1] >= 59392
  <2>1. hws[1] # 61551 /\ ~(61696 <= hws[1] /\ hws[1] < 61728)
    BY SMT, <1>3, <1>3a DEF Opens, imm, Bits
  <2> QED BY SMT, <1>3, <1>3a, <2>1 DEF Opens, WideName
<1>5. Halfwords(op) = 2 BY DEF Halfwords, NarrowMethods
<1>6. Announced(hws[1]) = 2 BY SMT, <1>3, <1>4 DEF Announced, Opens
<1> QED BY <1>3, <1>4, <1>5, <1>6 DEF Named, Name, mem, imm

LEMMA AddImmNamed ==
  ASSUME NEW hws, IsHalfword(hws[1]), NEW op, Matches(hws, op),
         op = "add_imm_t3"
  PROVE  Named(hws, op)
<1> DEFINE l == <<Is(2048, 1928), Of(2, 4, 1), R4(2)>>
           m == <<Is(16, 0), R4(1), Of(256, 3, 1)>>
<1> HIDE DEF l, m
<1>1. Layouts[op] = <<l, m>> BY DEF Layouts, l, m
<1>2. Starts(l, 2048, 1928, 32) BY SMT DEF l, Starts, Low, Size, Is, R3, R4, Of
<1>3. 2 \in DOMAIN hws /\ Opens(hws[1], 1928, 32) /\ Fixed(hws[1], l) BY <1>1, <1>2, WideOpening
<1> DEFINE mem == Bits(hws[1], 16, 8)
           imm == Bits(hws[1], 16, 64)
<1> HIDE DEF mem, imm
<1>4. WideName(hws[1], mem, imm) = op /\ hws[1] >= 59392
  BY SMT, <1>3 DEF Opens, WideName
<1>5. Halfwords(op) = 2 BY DEF Halfwords, NarrowMethods
<1>6. Announced(hws[1]) = 2 BY SMT, <1>3, <1>4 DEF Announced, Opens
<1> QED BY <1>3, <1>4, <1>5, <1>6 DEF Named, Name, mem, imm

LEMMA CmpNamed ==
  ASSUME NEW hws, IsHalfword(hws[1]), NEW op, Matches(hws, op),
         op = "cmp_w"
  PROVE  Named(hws, op)
<1> DEFINE l == <<Is(4096, 3771), R4(1)>>
           m == <<Is(4096, 240), R4(2)>>
<1> HIDE DEF l, m
<1>1. Layouts[op] = <<l, m>> BY DEF Layouts, l, m
<1>2. Starts(l, 4096, 3771, 16) BY SMT DEF l, Starts, Low, Size, Is, R3, R4, Of
<1>3. 2 \in DOMAIN hws /\ Opens(hws[1], 3771, 16) /\ Fixed(hws[1], l) BY <1>1, <1>2, WideOpening
<1> DEFINE mem == Bits(hws[1], 16, 8)
           imm == Bits(hws[1], 16, 64)
<1> HIDE DEF mem, imm
<1>4. WideName(hws[1], mem, imm) = op /\ hws[1] >= 59392
  BY SMT, <1>3 DEF Opens, WideName
<1>5. Halfwords(op) = 2 BY DEF Halfwords, NarrowMethods
<1>6. Announced(hws[1]) = 2 BY SMT, <1>3, <1>4 DEF Announced, Opens
<1> QED BY <1>3, <1>4, <1>5, <1>6 DEF Named, Name, mem, imm

LEMMA Imm16Named ==
  ASSUME NEW hws, IsHalfword(hws[1]), NEW op, Matches(hws, op),
         NEW top, (op = "movw" /\ top = 36) \/ (op = "movt" /\ top = 44)
  PROVE  Named(hws, op)
<1> DEFINE l == <<Is(32, 30), Of(2, 2, 2048), Is(64, top), Of(16, 2, 4096)>>
           m == <<Is(2, 0), Of(8, 2, 256), R4(1), Of(256, 2, 1)>>
<1> HIDE DEF l, m
<1>1. Layouts[op] = <<l, m>>
  <2>1. Layouts[op] = Wide16(top) BY DEF Layouts
  <2> QED BY <2>1 DEF Wide16, l, m
<1>2. Starts(l, 32, 30, 2048) BY SMT DEF l, Starts, Low, Size, Is, R3, R4, Of
<1>3. 2 \in DOMAIN hws /\ Opens(hws[1], 30, 2048) /\ Fixed(hws[1], l) BY <1>1, <1>2, WideOpening
<1> DEFINE mem == Bits(hws[1], 16, 8)
           imm == Bits(hws[1], 16, 64)
<1>3a. imm = top
  <2>1. 3 \in DOMAIN l /\ l[3].k = 0 /\ l[3].is = top /\ l[3].size = 64 /\ Low(l, 3) = 16
    BY SMT DEF l, Low, Size, Is, R3, R4, Of
  <2> QED BY <1>3, <2>1 DEF Fixed, Field
<1> HIDE DEF mem, imm
<1>4. WideName(hws[1], mem, imm) = op /\ hws[1] >= 59392
  <2>1. hws[1] # 61551 /\ ~(61696 <= hws[1] /\ hws[1] < 61728)
    BY SMT, <1>3, <1>3a DEF Opens, imm, Bits
  <2> QED BY SMT, <1>3, <1>3a, <2>1 DEF Opens, WideName
<1>5. Halfwords(op) = 2 BY DEF Halfwords, NarrowMethods
<1>6. Announced(hws[1]) = 2 BY SMT, <1>3, <1>4 DEF Announced, Opens
<1> QED BY <1>3, <1>4, <1>5, <1>6 DEF Named, Name, mem, imm

LEMMA UmullNamed ==
  ASSUME NEW hws, IsHalfword(hws[1]), NEW op, Matches(hws, op),
         op = "umull"
  PROVE  Named(hws, op)
<1> DEFINE l == <<Is(4096, 4026), R4(3)>>
           m == <<R4(1), R4(2), Is(16, 0), R4(4)>>
<1> HIDE DEF l, m
<1>1. Layouts[op] = <<l, m>> BY DEF Layouts, l, m
<1>2. Starts(l, 4096, 4026, 16) BY SMT DEF l, Starts, Low, Size, Is, R3, R4, Of
<1>3. 2 \in DOMAIN hws /\ Opens(hws[1], 4026, 16) /\ Fixed(hws[1], l) BY <1>1, <1>2, WideOpening
<1> DEFINE mem == Bits(hws[1], 16, 8)
           imm == Bits(hws[1], 16, 64)
<1> HIDE DEF mem, imm
<1>4. WideName(hws[1], mem, imm) = op /\ hws[1] >= 59392
  BY SMT, <1>3 DEF Opens, WideName
<1>5. Halfwords(op) = 2 BY DEF Halfwords, NarrowMethods
<1>6. Announced(hws[1]) = 2 BY SMT, <1>3, <1>4 DEF Announced, Opens
<1> QED BY <1>3, <1>4, <1>5, <1>6 DEF Named, Name, mem, imm

LEMMA MvnNamed ==
  ASSUME NEW hws, IsHalfword(hws[1]), NEW op, Matches(hws, op),
         op = "mvn_imm"
  PROVE  Named(hws, op)
<1> DEFINE l == <<Is(65536, 61551)>>
           m == <<Is(16, 0), R4(1), Is(256, 0)>>
<1> HIDE DEF l, m
<1>1. Layouts[op] = <<l, m>> BY DEF Layouts, l, m
<1>2. Starts(l, 65536, 61551, 1) BY SMT DEF l, Starts, Low, Size, Is, R3, R4, Of
<1>3. 2 \in DOMAIN hws /\ Opens(hws[1], 61551, 1) /\ Fixed(hws[1], l) BY <1>1, <1>2, WideOpening
<1> DEFINE mem == Bits(hws[1], 16, 8)
           imm == Bits(hws[1], 16, 64)
<1> HIDE DEF mem, imm
<1>4. WideName(hws[1], mem, imm) = op /\ hws[1] >= 59392
  BY SMT, <1>3 DEF Opens, WideName
<1>5. Halfwords(op) = 2 BY DEF Halfwords, NarrowMethods
<1>6. Announced(hws[1]) = 2 BY SMT, <1>3, <1>4 DEF Announced, Opens
<1> QED BY <1>3, <1>4, <1>5, <1>6 DEF Named, Name, mem, imm

LEMMA AnyNamed ==
  ASSUME NEW hws, IsHalfword(hws[1]), NEW op \in DOMAIN Layouts, Matches(hws, op)
  PROVE  Named(hws, op)
<1>1. \/ op \in {"movs_imm8", "cmp_imm8", "add_sp_imm", "str_sp_imm", "ldr_sp_imm", "mov_lo_lo", "add_reg",
           "bx", "svc"}
      \/ op \in {"rev_lo_lo", "muls_lo_lo", "ldrb_reg", "adds_lo_lo", "subs_lo_lo", "lsrs_imm5", "lsls_imm5"}
      \/ op \in {"strb_w", "ldrb_w", "ldrh_w", "ldr_w", "addw", "subw", "movw", "movt"}
      \/ op \in {"add_imm_t3", "cmp_w", "umull", "mvn_imm"}
  BY DEF Layouts
<1>2. CASE op \in {"movs_imm8", "cmp_imm8", "add_sp_imm", "str_sp_imm", "ldr_sp_imm", "mov_lo_lo", "add_reg",
      "bx", "svc"}
  BY <1>2, Imm8Named, SpNamed, HighNamed, BxNamed, SvcNamed
<1>3. CASE op \in {"rev_lo_lo", "muls_lo_lo", "ldrb_reg", "adds_lo_lo", "subs_lo_lo", "lsrs_imm5", "lsls_imm5"}
  BY <1>3, TwoLowNamed, ThreeLowNamed, ShiftNamed
<1>4. CASE op \in {"strb_w", "ldrb_w", "ldrh_w", "ldr_w", "addw", "subw", "movw", "movt"}
  BY <1>4, MemNamed, Imm12Named, Imm16Named
<1>5. CASE op \in {"add_imm_t3", "cmp_w", "umull", "mvn_imm"}
  BY <1>5, AddImmNamed, CmpNamed, UmullNamed, MvnNamed
<1> QED BY <1>1, <1>2, <1>3, <1>4, <1>5

\* What a method emits is read as this method with these operands, and as nothing else.
LEMMA OneReading ==
  ASSUME NEW op, NEW args, Called(op, args), Admits(op, args), IsHalfword(Encode(op, args)[1])
  PROVE  /\ Decoded(Encode(op, args)) = {<<op, args>>}
         /\ Announced(Encode(op, args)[1]) = Halfwords(op)
<1> PICK hws : hws = Encode(op, args) OBVIOUS
<1>1. /\ Matches(hws, op)
      /\ \A k \in DOMAIN Methods[op].max : Operand(hws, op, k) = args[k]
  BY AnySurvives DEF Survives
<1>2. op \in DOMAIN Layouts
  <2>1. op \in DOMAIN NarrowMethods \cup DOMAIN WideMethods BY DEF Called, Methods
  <2>2. DOMAIN NarrowMethods \subseteq DOMAIN Layouts BY DEF NarrowMethods, Layouts
  <2>3. DOMAIN WideMethods \subseteq DOMAIN Layouts BY DEF WideMethods, Layouts
  <2> QED BY <2>1, <2>2, <2>3
<1>3. Named(hws, op) BY <1>1, <1>2, AnyNamed
<1>4. ASSUME NEW o \in DOMAIN Layouts, Matches(hws, o) PROVE o = op
  <2>1. Named(hws, o) BY <1>4, AnyNamed
  <2> QED BY <1>3, <2>1 DEF Named
<1>5. {o \in DOMAIN Layouts : Matches(hws, o)} = {op} BY <1>1, <1>2, <1>4
<1>6. [k \in DOMAIN Methods[op].max |-> Operand(hws, op, k)] = args
  <2>1. args = [k \in DOMAIN Methods[op].max |-> args[k]]
    <3>1. args = [k \in 1..Len(args) |-> args[k]] /\ DOMAIN args = 1..Len(args)
      <4>1. args \in Seq(Nat) BY DEF Called
      <4> QED BY ONLY SMT, <4>1
    <3> QED BY <3>1 DEF Called
  <2>2. [k \in DOMAIN Methods[op].max |-> Operand(hws, op, k)] = [k \in DOMAIN Methods[op].max |-> args[k]]
    BY <1>1
  <2> QED BY <2>1, <2>2
<1>7. Decoded(hws) = {<<op, [k \in DOMAIN Methods[op].max |-> Operand(hws, op, k)]>>} BY <1>5 DEF Decoded
<1> QED BY <1>3, <1>6, <1>7 DEF Named

-----------------------------------------------------------------------------
(* The calls that were made without an exception.                          *)

Sound(c) == c.do = "plain" => Admits(c.op, c.args)
      /\ \A h \in DOMAIN Encode(c.op, c.args) : IsHalfword(Encode(c.op, c.args)[h])
PlainInv ==
  /\ program \in Programs
  /\ \A i \in 1..ip : Sound(program[i])
  /\ phase \in {"resolve", "done"} => ip = Len(program)

LEMMA PlainInit == Init => PlainInv
<1> SUFFICES ASSUME Init PROVE PlainInv OBVIOUS
<1>1. program \in Programs /\ ip = 0 /\ phase = "emit" BY DEF Init
<1>2. 1..0 = {} BY SMT
<1> QED BY <1>1, <1>2 DEF PlainInv

\* A call that is made is sound.
LEMMA MadeSound ==
  ASSUME IInv, PlainInv, Made, phase = "emit", Sound(program[ip + 1])
  PROVE  PlainInv'
<1>1. ip' = ip + 1 /\ program' = program /\ phase' = phase BY DEF Made
<1>2. ip \in Nat
  <2>1. ip \in 0..Len(program) /\ program \in Seq(Calls) BY DEF IInv, Bookkeeping
  <2> QED BY SMT, <2>1
<1>3. \A i \in 1..(ip + 1) : i \in 1..ip \/ i = ip + 1 BY SMT, <1>2
<1> QED BY <1>1, <1>3 DEF PlainInv

LEMMA PlainKeepsSound ==
  ASSUME IInv, PlainInv, [Next]_vars
  PROVE  PlainInv'
<1>1. CASE Raise \/ Resolve \/ UNCHANGED vars BY <1>1 DEF PlainInv, Raise, Resolve, vars
<1>2. ASSUME NEW dos, Calling(dos), "plain" \notin dos, Made PROVE PlainInv'
  BY <1>2, MadeSound DEF Calling, Sound, call
<1>3. CASE Label BY <1>1, <1>2, <1>3 DEF Label
<1>4. CASE Assign BY <1>2, <1>4 DEF Assign
<1>5. CASE Raw BY <1>2, <1>5 DEF Raw
<1>6. CASE Short BY <1>2, <1>6 DEF Short, Placed
<1>7. CASE Branch BY <1>2, <1>7 DEF Branch, Placed
<1>8. CASE Literal BY <1>1, <1>2, <1>8 DEF Literal, Placed
<1>9. CASE BlxImm BY <1>1, <1>2, <1>9 DEF BlxImm, Placed
<1>10. CASE Wide BY <1>1, <1>2, <1>10 DEF Wide
<1>11. CASE Plain
  <2>1. CASE Raise BY <1>1, <2>1
  <2>2. CASE ~Raise
    <3>1. Made /\ phase = "emit" /\ Sound(program[ip + 1]) BY <1>11, <2>2 DEF Plain, Calling, call, Sound
    <3> QED BY <3>1, MadeSound
  <2> QED BY <2>1, <2>2
<1>12. CASE Emitted BY <1>12 DEF Emitted, PlainInv
<1>13. CASE Return BY <1>13 DEF Return, PlainInv
<1> QED BY <1>1, <1>3, <1>4, <1>5, <1>6, <1>7, <1>8, <1>9, <1>10, <1>11, <1>12, <1>13 DEF Next

\* A plain call of a program is one that its method takes.
LEMMA PlainCalled ==
  ASSUME PlainInv, IInv, NEW i \in DOMAIN program, program[i].do = "plain"
  PROVE  Called(program[i].op, program[i].args)
<1>1. program \in Programs /\ program \in Seq(Calls) BY DEF PlainInv, IInv, Bookkeeping
<1>2. program[i] \in Calls BY SMT, <1>1
<1>3. program[i].op \in DOMAIN Methods /\ program[i].args \in Seq(Nat) BY <1>2, CallTypes
<1> QED BY <1>1, <1>3, OperandsAssumption DEF Called

LEMMA PlainRead == ASSUME IInv, PlainInv PROVE OperandsSurvive
<1> SUFFICES ASSUME phase = "done", NEW i \in DOMAIN program, program[i].do = "plain"
             PROVE  /\ Decoded(Encode(program[i].op, program[i].args)) = {<<program[i].op, program[i].args>>}
                    /\ Announced(Encode(program[i].op, program[i].args)[1]) = Halfwords(program[i].op)
  BY DEF OperandsSurvive
<1> PICK op, args : op = program[i].op /\ args = program[i].args OBVIOUS
<1>1. Called(op, args) BY PlainCalled
<1>2. i \in 1..ip
  <2>1. ip = Len(program) /\ program \in Seq(Calls) BY DEF PlainInv, IInv, Bookkeeping
  <2> QED BY SMT, <2>1
<1>3. Sound(program[i]) BY <1>2 DEF PlainInv
<1>4. Admits(op, args) /\ \A h \in DOMAIN Encode(op, args) : IsHalfword(Encode(op, args)[h]) BY <1>3 DEF Sound
<1>5. 1 \in DOMAIN Encode(op, args) BY SMT DEF Encode, Halfwords
<1> QED BY <1>1, <1>4, <1>5, OneReading

\* movs_imm8 ... mvn_imm: for every base and every program that is assembled without
\* an exception, each instruction without a label has exactly one reading, the
\* method that was called with the operands it was called with, and its first
\* halfword announces as many halfwords as the method emitted.
THEOREM OperandsIntact == Spec => []OperandsSurvive
<1>1. Init => IInv /\ PlainInv BY InitIInv, PlainInit
<1>2. IInv /\ PlainInv /\ [Next]_vars => (IInv /\ PlainInv)' BY NextKeeps, PlainKeepsSound
<1>3. IInv /\ PlainInv => OperandsSurvive BY PlainRead
<1> QED BY <1>1, <1>2, <1>3, PTL DEF Spec
=============================================================================
