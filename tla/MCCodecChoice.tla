---------------------------- MODULE MCCodecChoice ---------------------------
(***************************************************************************)
(* Two threads, builds with and without the best codecs, and machines of   *)
(* every generation: CPUs whose OS does not save the wide registers, and   *)
(* an AVX-512 CPU without VBMI among them.                                 *)
(***************************************************************************)
EXTENDS CodecChoice

Old == {"ssse3"}
Sse == Old \cup {"sse41", "sse42"}
Avx == Sse \cup {"osxsave", "avx"}

M(l, b, x) == [level |-> l, bits |-> b, xcr |-> x]
YMM == {"xmm", "ymm"}
ZMM == YMM \cup {"zmm"}

MCMachines ==
  {M(0, {}, {}), M(1, Old, {}), M(1, Sse, {}),
   M(1, Avx, YMM), M(7, Avx \cup {"avx2"}, YMM), M(7, Avx \cup {"avx2"}, {"xmm"}),
   M(7, Avx \cup {"avx2", "avx512vl"}, ZMM),
   M(7, Avx \cup {"avx2", "avx512vl", "avx512vbmi"}, ZMM),
   M(7, Avx \cup {"avx2", "avx512vl", "avx512vbmi"}, YMM)}

MCBuilds == {{}, {"ssse3"}, {"sse41", "avx"}, {"ssse3", "sse42", "avx2"}, X86,
             {"neon64"}}

\* No flag, a codec that may be missing, two codecs at once, an unknown bit.
MCFlags == {{}, {"neon64"}, {"plain", "avx512"}, {"unknown"}}
=============================================================================
