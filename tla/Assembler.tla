------------------------------ MODULE Assembler ------------------------------
(***************************************************************************)
(* Class Asm of src/patches/_thumb2asm.py, as _trampolines.build() uses    *)
(* it: a program is the sequence of calls on one Asm, and the machine      *)
(* makes one call per step.  Instructions that name a label leave zeros    *)
(* and a fixup; resolve() then goes through the fixups in order.  A failed *)
(* _check (or an unknown label) is the exception that ends the build.      *)
(*                                                                         *)
(* Of the buffer only instructions are kept: code is a partial function    *)
(* from offset to halfword.  Raw bytes, strings and padding only count.    *)
(***************************************************************************)
EXTENDS Thumb2

CONSTANTS Base,      \* base_addr
          Names,     \* of labels
          Programs   \* the sequences of calls that are assembled

Calls == [do : {"label"}, name : Names]
         \cup [do : {"assign"}, name : Names, addr : Nat]
         \cup [do : {"plain"}, op : DOMAIN Methods, args : Seq(Nat)]
         \cup [do : {"raw", "align"}, n : Nat \ {0}]
         \cup [do : {"short"}, method : DOMAIN ShortCond, to : Names]
         \cup [do : {"wide"}, method : DOMAIN WideSkip, to : Names]
         \cup [do : {"b", "bl"}, to : Names]
         \cup [do : {"adr", "ldr"}, reg : Nat, to : Names]
         \cup [do : {"blx"}, addr : Nat]

ASSUME BaseAssumption == Base \in Nat
ASSUME ProgramsAssumption == Programs \subseteq Seq(Calls)
\* A wrong number of operands is a TypeError, and add_imm_t3, which checks the
\* immediate only, is called with registers.
ASSUME OperandsAssumption ==
  \A p \in Programs : \A i \in DOMAIN p :
    p[i].do = "plain" =>
      /\ DOMAIN p[i].args = DOMAIN Methods[p[i].op].max
      /\ p[i].op = "add_imm_t3" => p[i].args[1] \in 0..14 /\ p[i].args[2] \in 0..14 /\ p[i].args[4] \in 0..1
\* No caller's label has the name that _bcond_w makes of two numbers.
ASSUME NamesAssumption == \A n \in Names : n \notin Nat \X Nat

VARIABLES program,   \* the calls, fixed at the start
          ip,        \* how many were made
          size,      \* len(buf)
          labels,    \* name -> address
          fixups,    \* what resolve() has to fill in, in order
          code,      \* offset -> halfword
          phase,     \* "emit", "resolve", "done", "raised"
          next,      \* the fixup resolve() is at
          asked      \* history: the conditional branches asked for

vars == <<program, ip, size, labels, fixups, code, phase, next, asked>>

cur == Base + size
\* Mutant: the literal load reserves one halfword.
SpanNarrow(kind) == IF kind \in {"bcond", "ldr"} THEN 2 ELSE 4
Span(kind) == IF kind = "bcond" THEN 2 ELSE 4
Zeros(kind) == IF kind = "bcond" THEN <<0>> ELSE <<0, 0>>

\* c with the halfwords hws at offset at.
Written(c, at, hws) ==
  LET place == {at + 2 * (h - 1) : h \in DOMAIN hws}
  IN  [o \in DOMAIN c \cup place |-> IF o \in place THEN hws[((o - at) \div 2) + 1] ELSE c[o]]
Defined(f, name, value) == [n \in DOMAIN f \cup {name} |-> IF n = name THEN value ELSE f[n]]

Init ==
  /\ program \in Programs
  /\ ip = 0 /\ size = 0 /\ next = 1
  /\ labels = << >> /\ fixups = << >> /\ code = << >>
  /\ phase = "emit"
  /\ asked = {}

-----------------------------------------------------------------------------
(* The calls of build().                                                   *)

call == program[ip + 1]
Calling(dos) == phase = "emit" /\ ip < Len(program) /\ call.do \in dos

\* A _check fails, or a dict lookup.
Raise == phase' = "raised" /\ UNCHANGED <<program, ip, size, labels, fixups, code, next, asked>>
Made == ip' = ip + 1 /\ UNCHANGED <<program, phase, next>>

Label ==
  /\ Calling({"label"})
  /\ IF call.name \in DOMAIN labels THEN Raise
     ELSE /\ labels' = Defined(labels, call.name, cur)
          /\ Made /\ UNCHANGED <<size, fixups, code, asked>>

\* build() puts the addresses of the library's own code among the labels.
Assign ==
  /\ Calling({"assign"})
  /\ labels' = Defined(labels, call.name, call.addr)
  /\ Made /\ UNCHANGED <<size, fixups, code, asked>>

Plain ==
  /\ Calling({"plain"})
  /\ LET hws == Encode(call.op, call.args)
     IN  IF ~Admits(call.op, call.args) \/ \E h \in DOMAIN hws : ~IsHalfword(hws[h]) THEN Raise
         ELSE /\ code' = Written(code, size, hws)
              /\ size' = size + 2 * Halfwords(call.op)
              /\ Made /\ UNCHANGED <<labels, fixups, asked>>

\* raw, asciiz; align pads the buffer, not the address.
Raw ==
  /\ Calling({"raw", "align"})
  /\ size' = IF call.do = "raw" THEN size + call.n ELSE size + ((call.n - (size % call.n)) % call.n)
  /\ Made /\ UNCHANGED <<labels, fixups, code, asked>>

\* _fixup: the placeholder and its entry.
Fixup(at, kind, arg, to) == [at |-> at, kind |-> kind, arg |-> arg, to |-> to]
Placed(kind, arg, to) ==
  /\ fixups' = Append(fixups, Fixup(size, kind, arg, to))
  /\ code' = Written(code, size, Zeros(kind))
  /\ size' = size + Span(kind)
  /\ Made /\ UNCHANGED labels

Short ==
  /\ Calling({"short"})
  /\ Placed("bcond", ShortCond[call.method], call.to)
  /\ asked' = asked \cup {[at |-> size, method |-> call.method, to |-> call.to, span |-> 2]}

Branch ==
  /\ Calling({"b", "bl"})
  /\ Placed(call.do, 0, call.to)
  /\ UNCHANGED asked

Literal ==
  /\ Calling({"adr", "ldr"})
  /\ IF call.reg \notin 0..14 THEN Raise
     ELSE Placed(call.do, call.reg, call.to) /\ UNCHANGED asked

BlxImm ==
  /\ Calling({"blx"})
  /\ IF call.addr % 4 # 0 THEN Raise
     ELSE Placed("blx", 0, call.addr) /\ UNCHANGED asked

\* _bcond_w: a short branch over a b.w, and the label behind both.
Wide ==
  /\ Calling({"wide"})
  /\ LET skip == <<Len(fixups), size>>
     IN  IF skip \in DOMAIN labels THEN Raise
         ELSE /\ fixups' = Append(Append(fixups, Fixup(size, "bcond", WideSkip[call.method], skip)),
                                  Fixup(size + 2, "b", 0, call.to))
              /\ code' = Written(Written(code, size, Zeros("bcond")), size + 2, Zeros("b"))
              /\ size' = size + 6
              /\ labels' = Defined(labels, skip, Base + size + 6)
              /\ asked' = asked \cup {[at |-> size, method |-> call.method, to |-> call.to, span |-> 6]}
              /\ Made

Emitted ==
  /\ phase = "emit" /\ ip = Len(program)
  /\ phase' = "resolve"
  /\ UNCHANGED <<program, ip, size, labels, fixups, code, next, asked>>

-----------------------------------------------------------------------------
(* resolve(): one fixup per step.                                          *)

Target(f) == IF f.kind = "blx" THEN f.to ELSE labels[f.to]
Known(f) == f.kind = "blx" \/ f.to \in DOMAIN labels

\* Mutant: literals are measured from the unaligned pc.
OriginUnaligned(f) == Base + f.at + 4
\* What emit(pc) measures the target from.
Origin(f) == LET pc == Base + f.at IN IF f.kind \in {"blx", "adr", "ldr"} THEN Align4(pc + 4) ELSE pc + 4
InReach(f, off) ==
  CASE f.kind = "bcond" -> InShort(off)
    [] f.kind \in {"b", "bl", "blx"} -> InT4(f.kind, off)
    [] f.kind \in {"adr", "ldr"} -> InLiteral(off)
Chunk(f, off) ==
  CASE f.kind = "bcond" -> EncodeShort(f.arg, off)
    [] f.kind \in {"b", "bl", "blx"} -> EncodeT4(f.kind, off)
    [] f.kind = "adr" -> EncodeAdr(f.arg, off)
    [] f.kind = "ldr" -> EncodeLdrLit(f.arg, off)

Resolve ==
  /\ phase = "resolve" /\ next <= Len(fixups)
  /\ LET f == fixups[next]
         off == Target(f) - Origin(f)
     IN  IF ~Known(f) \/ ~InReach(f, off) THEN Raise
         ELSE /\ code' = Written(code, f.at, Chunk(f, off))
              /\ next' = next + 1
              /\ UNCHANGED <<program, ip, size, labels, fixups, phase, asked>>

Return ==
  /\ phase = "resolve" /\ next > Len(fixups)
  /\ phase' = "done"
  /\ UNCHANGED <<program, ip, size, labels, fixups, code, next, asked>>

Next ==
  \/ Label \/ Assign \/ Plain \/ Raw \/ Short \/ Branch \/ Literal \/ BlxImm \/ Wide
  \/ Emitted \/ Resolve \/ Return

Spec == Init /\ [][Next]_vars

-----------------------------------------------------------------------------
Kinds == {"bcond", "b", "bl", "blx", "adr", "ldr"}

\* Types: the buffer's instructions are halfwords inside it, and every
\* placeholder is inside it too (_hw, _fixup, resolve).
TypeOK ==
  /\ program \in Seq(Calls) /\ ip \in 0..Len(program)
  /\ size \in Nat /\ next \in 1..(Len(fixups) + 1)
  /\ \A n \in DOMAIN labels : labels[n] \in Nat
  /\ \A i \in DOMAIN fixups : fixups[i].at \in Nat /\ fixups[i].kind \in Kinds
  /\ \A o \in DOMAIN code : o \in 0..(size - 2) /\ IsHalfword(code[o])
  /\ phase \in {"emit", "resolve", "done", "raised"}

\* What a core finds at a fixup: kind, register or condition, and address.
Read(f) ==
  IF f.kind = "bcond"
  THEN [kind |-> IF code[f.at] \div 4096 = 13 THEN "bcond" ELSE "other",
        arg |-> Bits(code[f.at], 256, 16), to |-> Base + f.at + 4 + ShortOffset(code[f.at])]
  ELSE Reads(Base + f.at, code[f.at], code[f.at + 2])

\* Halfwords are at even addresses; only adr and ldr name odd ones.
Even(f) == (Base + f.at) % 2 = 0 /\ (f.kind \in {"bcond", "b", "bl"} => Target(f) % 2 = 0)

\* resolve(): in the finished blob every branch and every literal, of either
\* sign and at either alignment, is read by the core as the instruction asked for, with its
\* register or condition, and about the address of its label.
LandsOnLabel ==
  phase = "done" =>
    \A i \in DOMAIN fixups :
      Even(fixups[i]) => Read(fixups[i]) = [kind |-> fixups[i].kind, arg |-> fixups[i].arg, to |-> Target(fixups[i])]

\* The address of the instruction after the one at pc, under the flags.
After(pc, f) ==
  LET hw == code[pc - Base]
  IN  IF hw \div 4096 = 13
      THEN IF Passes(Bits(hw, 256, 16), f) THEN pc + 4 + ShortOffset(hw) ELSE pc + 2
      ELSE pc + 4 + T4Offset(hw, code[pc - Base + 2])

\* As above: the core is at an even address, and is sent to one.
EvenPlaces(a) == (Base + a.at) % 2 = 0 /\ labels[a.to] % 2 = 0

\* beq ... bhs_w: executed after CMP of any two words, a conditional branch,
\* also one made of an inverted short branch and a b.w, goes to its label if
\* the words are as its name says, else to the instruction behind it.
Words == 0..7
GoesWhereAsked ==
  phase = "done" =>
    \A a \in {b \in asked : EvenPlaces(b)}, x, y \in Words :
      LET f == Cmp(x, y, 8)
          pc == Base + a.at
          one == After(pc, f)
          exit == IF one > pc /\ one < pc + a.span THEN After(one, f) ELSE one
      IN  exit = IF Says(a.method, x, y, 8) THEN labels[a.to] ELSE pc + a.span

\* Asm's other methods: an instruction without a label is read by the core
\* as the method named it, with the operands given, and as nothing else;
\* its length is the one its first halfword announces.
OperandsSurvive ==
  phase = "done" =>
    \A i \in DOMAIN program :
      program[i].do = "plain" =>
        LET hws == Encode(program[i].op, program[i].args)
        IN  /\ Decoded(hws) = {<<program[i].op, program[i].args>>}
            /\ Announced(hws[1]) = Halfwords(program[i].op)

AtNext(o) ==
  \E i \in DOMAIN fixups : i = next /\ o \in fixups[i].at..(fixups[i].at + Span(fixups[i].kind) - 1)
Kept ==
  /\ DOMAIN code \subseteq DOMAIN code'
  /\ phase = "resolve" => size' = size /\ DOMAIN code' = DOMAIN code
  /\ \A o \in DOMAIN code : code'[o] = code[o] \/ (phase = "resolve" /\ AtNext(o))

\* emit and resolve(): what is in the buffer stays as it is, except that resolve() fills
\* the placeholder of the fixup it is at, to its last byte and not beyond.
OnlyPlaceholders == [][Kept]_vars
=============================================================================
