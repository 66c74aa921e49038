----------------------------- MODULE MCAssembler -----------------------------
EXTENDS Assembler

CONSTANTS here, there, text, far   \* two places in code, a string, the library

L(n) == [do |-> "label", name |-> n]
P(op, args) == [do |-> "plain", op |-> op, args |-> args]
Skip(n) == [do |-> "raw", n |-> n]
Narrow == P("movs_imm8", <<7, 9>>)
To(n) == {[do |-> "short", method |-> m, to |-> n] : m \in DOMAIN ShortCond}
         \cup {[do |-> "wide", method |-> m, to |-> n] : m \in DOMAIN WideSkip}
         \cup {[do |-> d, to |-> n] : d \in {"b", "bl"}}
About(n) == {[do |-> d, reg |-> r, to |-> n] : d \in {"adr", "ldr"}, r \in {0, 14}}

\* Gaps at which a short branch, or a literal, just reaches and just fails.
CodeGaps == {2, 248, 250, 252, 254, 256, 258, 4096}
DataGaps == {1, 2, 4088, 4090, 4091, 4092, 4093, 4094, 4095, 4096, 4097}

Branches ==
  UNION {{<<L(here), Skip(g), b>>, <<Narrow, b, Skip(g), L(here)>>} : b \in To(here), g \in CodeGaps}
Literals ==
  UNION {{<<L(text), Skip(g), [do |-> "align", n |-> 4], a>>,
          <<Narrow, L(text), Skip(g), [do |-> "align", n |-> 2], a, Narrow>>,
          <<a, Narrow, Skip(g), L(text), Skip(3)>>,
          <<Narrow, a, [do |-> "align", n |-> 4], Skip(g), L(text)>>} :
           a \in About(text), g \in DataGaps}
\* Calls into the library, of which EPILOGUE is one, and over 16 MB.
Outside ==
  {<<[do |-> "assign", name |-> far, addr |-> t], Narrow, [do |-> d, to |-> far]>> :
     d \in {"b", "bl"}, t \in {28970, 44118, Base + 6 + 16777214, Base + 6 + 16777216}}
  \cup {q \o <<[do |-> "blx", addr |-> t]>> :
          q \in {<<>>, <<Narrow>>}, t \in {13316, 13318, 29840, Base + 8388608, Base + 16777220, Base + 16777224}}

\* Two calls after and between labels: several fixups in one buffer.
Some == {[do |-> "wide", method |-> "bne_w", to |-> here], [do |-> "short", method |-> "bhi", to |-> there],
         [do |-> "bl", to |-> there], [do |-> "adr", reg |-> 1, to |-> text], [do |-> "ldr", reg |-> 3, to |-> text],
         P("movw", <<2, 776>>), P("cmp_imm8", <<0, 255>>)}
Mixed ==
  UNION {{<<L(here), a, b, L(there), c, [do |-> "align", n |-> 4], L(text)>>,
          <<a, L(there), b, c, L(here), Skip(2), L(text)>>} : a \in Some, b \in Some, c \in Some}
Wrong == {<<L(here), Narrow, L(here)>>, <<Narrow, [do |-> "b", to |-> there]>>,
          <<L(here), [do |-> "wide", method |-> "beq_w", to |-> there], Narrow>>,
          <<[do |-> "adr", reg |-> 15, to |-> here], L(here)>>}

\* Every method with registers and immediates at the ends of their fields.
Corners(max, step) ==
  LET v == IF max <= 15 THEN {0, 1, 6, 7, 8, 13} \cup {max}
           ELSE {0, 1, 4, 31, 128, 255, 256, 784, 1020, 2047, 2048, 4095, 4096, 65535}
  IN  {x \in v : x <= max /\ x % step = 0}
Operands(op) ==
  LET max == Methods[op].max
      C(k) == Corners(max[k], IF op \in SpMethods /\ k = 2 THEN 4 ELSE 1)
  IN  CASE Len(max) = 1 -> {<<a>> : a \in C(1)}
        [] Len(max) = 2 -> {<<a, b>> : a \in C(1), b \in C(2)}
        [] Len(max) = 3 -> {<<a, b, c>> : a \in C(1), b \in C(2), c \in C(3)}
        [] Len(max) = 4 -> {<<a, b, c, d>> : a \in C(1) \cap {0, 7, 12}, b \in C(2) \cap {1, 6, 12}, c \in C(3), d \in C(4)}
Single == UNION {{<<P(op, args)>> : args \in Operands(op)} : op \in DOMAIN Methods}

AllPrograms == Branches \cup Literals \cup Outside \cup Mixed \cup Wrong \cup Single
=============================================================================
