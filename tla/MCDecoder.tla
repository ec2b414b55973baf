------------------------------ MODULE MCDecoder -----------------------------
(***************************************************************************)
(* The decoder with the bulk loops of the real codecs: on every short text *)
(* over a value, '=' and an invalid character, cut in every way; and on    *)
(* texts of several rounds with one fault, or one padding, somewhere.      *)
(***************************************************************************)
EXTENDS Decoder, BulkLoops

\* None runs on the short texts; "plain32" is the one for eight characters.
MCCodecs == {DecLoops(c) : c \in CodecNames}
MCPlainCodecs == {<<>>, DecLoops("plain32")}

SeqsUpTo(S, n) == UNION {[1..m -> S] : m \in 0..n}

MCShortTexts == SeqsUpTo({45, Pad, Bad}, 5) \cup SeqsUpTo({18, 45}, 3)

\* Values whose bits differ from those of their neighbours.
Pattern(n) == [i \in 1..n |-> (29 * i + 11) % 64]

Faults(n, S) == {[Pattern(n) EXCEPT ![p] = x] : p \in S, x \in {Pad, Bad}}

Padded(n) == {[Pattern(n) EXCEPT ![n] = Pad],
              [Pattern(n) EXCEPT ![n - 1] = Pad, ![n] = Pad]}

MCTexts ==
  MCShortTexts
  \cup {Pattern(42), Pattern(132)} \cup Padded(44) \cup Padded(132)
  \cup Faults(44, {9, 14, 27}) \cup Faults(132, {38, 103})

MCChunkSizes == [t \in MCTexts |-> IF Len(t) <= 5 THEN 0..5
                                  ELSE {9, 23, 44, 64, 77}]
MCShortChunkSizes == [t \in MCShortTexts |-> 0..5]
=============================================================================
