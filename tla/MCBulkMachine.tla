---------------------------- MODULE MCBulkMachine ---------------------------
(***************************************************************************)
(* Calls of every bulk loop: on one block, so that every value, index and  *)
(* character comes up; and on as many blocks as it takes to run every      *)
(* section of the unrolled code, alone and after the others.               *)
(***************************************************************************)
EXTENDS BulkPlan

\* n bytes made of the six-bit values v[1], v[2], ...
Pack6(v, n) == [i \in 1..n |-> DecByte(v, i)]

\* For x in 0..63 every place of a block sees every value.
OneBlock(n, x) ==
  Pack6([j \in 1 .. 2 * n |-> (x + 7 * ((j - 1) \div 4) + 13 * ((j - 1) % 4)) % 64], n)

\* For x in 0..1023, all 12-bit indices.
FourIndices(x) ==
  Pack6([j \in 1..12 |->
           LET index == (4 * x + (j - 1) \div 2) % 4096
           IN IF j % 2 = 1 THEN index \div 64 ELSE index % 64], 8)

Message(n) == [i \in 1..n |-> (73 * i + 29 * (i \div 7)) % 256]

Text(n) == [i \in 1..n |-> base64_table_enc_6bit[(29 * i + 11) % 64]]

\* The input that gives a loop r rounds, and e bytes that it leaves behind.
LengthFor(lp, r, e) == lp.params.reserve + r * lp.params.block + e

Call(n, in) == [name |-> n, input |-> in]

VectorEncoders == {"enc_ssse3", "enc_avx2", "enc_avx512", "enc_neon32", "enc_neon64",
                   "enc_32_le", "enc_32_be"}
Pipelines == {"enc_ssse3_asm", "enc_avx_asm", "enc_avx2_asm"}
Encoders == {n \in DOMAIN Loops : Loops[n].op = "enc"}
Decoders == {n \in DOMAIN Loops : Loops[n].op = "dec"}

ValueCalls == {Call(n, OneBlock(Loops[n].params.guard, x)) : n \in VectorEncoders, x \in 0..63}
IndexCalls == {Call(n, FourIndices(x)) : n \in {"enc_64_le", "enc_64_be"}, x \in 0..1023}

CharacterCalls ==
  {Call(n, [Text(Loops[n].params.guard) EXCEPT ![p] = c]) :
     n \in Decoders, p \in {1, 2, 3, 4}, c \in Byte}
  \cup {Call(n, [Text(Loops[n].params.guard) EXCEPT ![Loops[n].params.block] = c]) :
          n \in Decoders, c \in Byte}

ShortRounds == {0, 1, 2, 3, 4, 5, 7, 8, 9, 15, 17}
PipelineRounds == ShortRounds \cup {6, 10, 11, 14, 18, 20, 24, 26, 27, 32, 35,
                                    36, 37, 47, 73, 91}

LongCalls ==
  {Call(n, Message(LengthFor(Loops[n], r, e))) :
     n \in Encoders \ Pipelines, r \in ShortRounds, e \in {0, 2}}
  \cup {Call(n, Message(LengthFor(Loops[n], r, 0))) : n \in Pipelines, r \in PipelineRounds}
  \cup {Call(n, Text(LengthFor(Loops[n], r, e))) :
          n \in Decoders, r \in ShortRounds, e \in {0, 3}}

\* A fault, or padding, in a later block.
FaultCalls ==
  {Call(n, LET lp == Loops[n]
           IN [Text(LengthFor(lp, r, 0)) EXCEPT ![q * lp.params.block + 3] = c]) :
     n \in Decoders, r \in {8, 15}, q \in {1, 5, 7}, c \in {61, 200}}

MCCalls == ValueCalls \cup IndexCalls \cup CharacterCalls \cup LongCalls \cup FaultCalls
=============================================================================
