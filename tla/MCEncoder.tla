------------------------------ MODULE MCEncoder -----------------------------
(***************************************************************************)
(* The encoder with the bulk loops of the real codecs, on messages long    *)
(* enough for two rounds of each of them.                                  *)
(***************************************************************************)
EXTENDS Encoder, BulkLoops

MCCodecs == {EncLoops(c) : c \in CodecNames}

\* Bytes whose bits differ from those of their neighbours.
Pattern(n, a, b) == [i \in 1..n |-> (a * i + b) % 256]

\* Lengths of each class: no round of a loop, one round, several.
MCMessages == {Pattern(n, 73, 146) : n \in {2, 10, 40, 120}}
              \cup {[i \in 1..17 |-> 255]}

\* Around the guards of the loops (54: two rounds of AVX2 that leave its reserve
\* and no more), and small ones to enter at every case.
MCChunkSizes == {0, 2, 7, 16, 32, 54, 72, 120}
=============================================================================
