------------------------------ MODULE MCParallel ----------------------------
(***************************************************************************)
(* Up to three threads, parts of up to two rounds of a bulk loop, every    *)
(* place for a fault or for padding.                                       *)
(***************************************************************************)
EXTENDS Parallel

K(o, guard, block, gap) == [op |-> o, guard |-> guard, block |-> block, gap |-> gap]

MCKernels == {K("dec", 8, 4, 1), K("dec", 24, 16, 4), K("enc", 4, 3, 0),
              K("enc", 16, 12, 0)}

Data(n) == [i \in 1..n |-> "data"]
With(n, S) == {[Data(n) EXCEPT ![g] = x] : g \in 1..n, x \in S}

MCSources == {<<>>, Data(1), Data(2), Data(5), Data(6), Data(7), Data(13)}
             \cup With(5, {"bad", "pad1", "pad2"}) \cup With(6, {"bad", "pad2"})
             \cup With(12, {"pad1"})

\* A word of six bits in which source and output fit together: 18 + 24 < 64.
MCWrapSources == {Data(6)}
=============================================================================
