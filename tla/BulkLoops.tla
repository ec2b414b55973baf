------------------------------ MODULE BulkLoops -----------------------------
(***************************************************************************)
(* The bulk loops of lib/arch and the codecs that run them, as the         *)
(* parameters that matter for the calls around them: what Encoder and      *)
(* Decoder call a Kernel.  The eight-, four- and two-fold unrolling of the *)
(* loops runs the same rounds.                                             *)
(***************************************************************************)
EXTENDS Naturals, Sequences

EncLoop(guard, reserve, block, width, lag, whileLoop) ==
  [guard |-> guard, reserve |-> reserve, block |-> block,
   width |-> width, lag |-> lag, whileLoop |-> whileLoop]

enc_loop_generic_32 == EncLoop(4, 1, 3, 4, 0, FALSE)
enc_loop_generic_64 == EncLoop(8, 2, 6, 8, 0, FALSE)
enc_loop_ssse3      == EncLoop(16, 4, 12, 16, 0, FALSE)
enc_loop_avx2       == EncLoop(32, 4, 24, 32, 4, FALSE)
enc_loop_avx512     == EncLoop(64, 24, 48, 64, 0, TRUE)
\* The NEON loops have no guard: on less than a block they run no round.
enc_loop_neon32     == EncLoop(48, 0, 48, 48, 0, TRUE)
enc_loop_neon64     == EncLoop(48, 0, 48, 48, 0, TRUE)

DecLoop(guard, reserve, block, store) ==
  [guard |-> guard, reserve |-> reserve, block |-> block, store |-> store]

dec_loop_generic_32 == DecLoop(8, 4, 4, 4)
dec_loop_ssse3      == DecLoop(24, 8, 16, 16)
dec_loop_avx2       == DecLoop(45, 13, 32, 32)
dec_loop_neon32     == DecLoop(64, 0, 64, 48)
dec_loop_neon64     == DecLoop(64, 0, 64, 48)

-----------------------------------------------------------------------------
(* What base64_stream_encode_X and base64_stream_decode_X run at case 0.   *)
(* The plain codec depends on the word size of the build.                  *)

EncLoops(codec) ==
  CASE codec = "plain32" -> <<enc_loop_generic_32>>
    [] codec = "plain64" -> <<enc_loop_generic_64>>
    [] codec \in {"ssse3", "sse41", "sse42", "avx"} -> <<enc_loop_ssse3>>
    [] codec = "avx2"    -> <<enc_loop_avx2>>
    [] codec = "avx512"  -> <<enc_loop_avx512>>
    [] codec = "neon32"  -> <<enc_loop_neon32, enc_loop_generic_32>>
    [] codec = "neon64"  -> <<enc_loop_neon64, enc_loop_generic_64>>

DecLoops(codec) ==
  CASE codec \in {"plain32", "plain64"} -> <<dec_loop_generic_32>>
    [] codec \in {"ssse3", "sse41", "sse42", "avx"} -> <<dec_loop_ssse3>>
    [] codec \in {"avx2", "avx512"} -> <<dec_loop_avx2>>
    [] codec = "neon32"  -> <<dec_loop_neon32, dec_loop_generic_32>>
    [] codec = "neon64"  -> <<dec_loop_neon64, dec_loop_generic_32>>

CodecNames == {"plain32", "plain64", "ssse3", "sse41", "sse42", "avx", "avx2",
               "avx512", "neon32", "neon64"}
=============================================================================
