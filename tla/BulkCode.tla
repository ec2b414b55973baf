------------------------------ MODULE BulkCode ------------------------------
(***************************************************************************)
(* The bulk loops as code: what a round executes, and how the loops unroll *)
(* and, in inline assembly, interleave their rounds.  The code of a        *)
(* section is a sequence of parts, the calls and macros it is written in,  *)
(* each a sequence of vector operations on named registers; BulkMachine    *)
(* runs them one after the other.                                          *)
(***************************************************************************)
EXTENDS BulkLoops, Integers

(* Load: from the round-th block after the source pointer, at an offset,   *)
(* with an advance of the pointer; Stor likewise.  Shuf, Tran: from a      *)
(* register to a register, using others as temporaries.  Advance: the      *)
(* pointers move on by bytes and blocks of output, n rounds are done.      *)
Load(to, round, offset) ==
  [op |-> "load", to |-> to, round |-> round, offset |-> offset, inc |-> 0]
Stor(from, round) == [op |-> "stor", from |-> from, round |-> round, inc |-> 0]
Shuf(from, to, temps) == [op |-> "shuf", from |-> from, to |-> to, temps |-> temps]
Tran(from, to, temps) == [op |-> "tran", from |-> from, to |-> to, temps |-> temps]
Permute(r) == [op |-> "permute", from |-> r, to |-> r, temps |-> {}]
Test(from, with) == [op |-> "test", from |-> from, with |-> with]
Advance(bytes, blocks, n) ==
  [op |-> "advance", bytes |-> bytes, blocks |-> blocks, n |-> n]

-----------------------------------------------------------------------------
(* The loops in C: one round after the other on the same registers.        *)
EncRound(lp) ==
  << Load("str", 0, 0), Shuf("str", "str", {}), Tran("str", "str", {}),
     Stor("str", 0), Advance(lp.block, 1, 1) >>

\* enc_loop_avx2_inner_first: the pointer stays four bytes behind from here on.
FirstRoundAvx2 ==
  << Load("src", 0, 0), Permute("src"), Shuf("src", "src", {}),
     Tran("src", "src", {}), Stor("src", 0), Advance(20, 1, 1) >>

\* The x86 loops test before they translate.
DecRoundX86(lp) ==
  << Load("raw", 0, 0), Test("raw", "raw"), Tran("raw", "str", {}),
     Shuf("str", "str", {}), Stor("str", 0), Advance(lp.block, 1, 1) >>

DecRound(lp) ==
  << Load("raw", 0, 0), Tran("raw", "str", {}), Test("raw", "str"),
     Shuf("str", "str", {}), Stor("str", 0), Advance(lp.block, 1, 1) >>

Fold(round, n) == [m \in 1..n |-> round]

-----------------------------------------------------------------------------
(* The inline assembly of ssse3, avx and avx2: rounds in threes, over the  *)
(* registers a to f, the next three loaded while these are on their way.   *)

\* Two operands: the result replaces the operand.
SHUF_ssse3(r0, r1) == Shuf(r0, r0, {r1})
TRAN_ssse3(r0, r1, r2) == Tran(r0, r0, {r1, r2})

\* Three operands: R0 is kept by SHUF, which leaves its result in R1 for TRAN.
SHUF_avx(r0, r1, r2) == Shuf(r0, r1, {r2})
TRAN_avx(r0, r1, r2) == Tran(r1, r0, {r2})

ROUND_ssse3 ==
  << Load("a", 0, 0), SHUF_ssse3("a", "b"), TRAN_ssse3("a", "b", "c"),
     Stor("a", 0), Advance(12, 1, 1) >>

ROUND_avx(bytes, offset) ==
  << Load("a", 0, offset), SHUF_avx("a", "b", "c"), TRAN_avx("a", "b", "c"),
     Stor("a", 0), Advance(bytes, 1, 1) >>

ROUND_3_INIT_ssse3 ==
  << Load("a", 0, 0), SHUF_ssse3("a", "d"), Load("b", 1, 0),
     TRAN_ssse3("a", "d", "e"), Load("c", 2, 0) >>

ROUND_3_ssse3(n, A, B, C, D, E, F) ==
  << Load(D, n + 3, 0), SHUF_ssse3(B, E), Stor(A, n),     TRAN_ssse3(B, E, F),
     Load(E, n + 4, 0), SHUF_ssse3(C, A), Stor(B, n + 1), TRAN_ssse3(C, A, F),
     Load(F, n + 5, 0), SHUF_ssse3(D, A), Stor(C, n + 2), TRAN_ssse3(D, A, B) >>

ROUND_3_END_ssse3(n, A, B, C, D, E, F) ==
  << SHUF_ssse3(E, A), Stor(D, n + 3), TRAN_ssse3(E, A, B),
     SHUF_ssse3(F, C), Stor(E, n + 4), TRAN_ssse3(F, C, D), Stor(F, n + 5) >>

ROUND_3_INIT_avx(offset) ==
  << Load("a", 0, offset), SHUF_avx("a", "d", "e"), Load("b", 1, offset),
     TRAN_avx("a", "d", "e"), Load("c", 2, offset) >>

\* Mutant: the second SHUF takes the register that was just loaded for a temporary.
ROUND_3_avxClobbers(offset, n, A, B, C, D, E, F) ==
  << Load(D, n + 3, offset), SHUF_avx(B, E, F), Stor(A, n),     TRAN_avx(B, E, F),
     Load(E, n + 4, offset), SHUF_avx(C, A, E), Stor(B, n + 1), TRAN_avx(C, A, F),
     Load(F, n + 5, offset), SHUF_avx(D, A, B), Stor(C, n + 2), TRAN_avx(D, A, B) >>

ROUND_3_avx(offset, n, A, B, C, D, E, F) ==
  << Load(D, n + 3, offset), SHUF_avx(B, E, F), Stor(A, n),     TRAN_avx(B, E, F),
     Load(E, n + 4, offset), SHUF_avx(C, A, F), Stor(B, n + 1), TRAN_avx(C, A, F),
     Load(F, n + 5, offset), SHUF_avx(D, A, B), Stor(C, n + 2), TRAN_avx(D, A, B) >>

ROUND_3_END_avx(n, A, B, C, D, E, F) ==
  << SHUF_avx(E, A, B), Stor(D, n + 3), TRAN_avx(E, A, B),
     SHUF_avx(F, C, D), Stor(E, n + 4), TRAN_avx(F, C, D), Stor(F, n + 5) >>

\* An unrolled section: the macros of types A and B alternate, and the last is
\* followed by its terminating macro.
Section(init, macros, last, end, advance) ==
  [m \in 1 .. last + 4 |-> CASE m = 1 -> init
                             [] m \in 2 .. last + 2 -> macros[m - 2]
                             [] m = last + 3 -> end
                             [] OTHER -> <<advance>>]

Section_ssse3(n) ==
  LET last == n \div 3 - 2
      macros == [j \in 0..last |->
                   IF j % 2 = 0 THEN ROUND_3_ssse3(3*j, "a", "b", "c", "d", "e", "f")
                                ELSE ROUND_3_ssse3(3*j, "d", "e", "f", "a", "b", "c")]
      end == IF last % 2 = 0 THEN ROUND_3_END_ssse3(3*last, "a", "b", "c", "d", "e", "f")
                             ELSE ROUND_3_END_ssse3(3*last, "d", "e", "f", "a", "b", "c")
  IN Section(ROUND_3_INIT_ssse3, macros, last, end, Advance(12 * n, n, n))

Section_avx(bytes, offset, n) ==
  LET last == n \div 3 - 2
      macros == [j \in 0..last |->
                   IF j % 2 = 0 THEN ROUND_3_avx(offset, 3*j, "a", "b", "c", "d", "e", "f")
                                ELSE ROUND_3_avx(offset, 3*j, "d", "e", "f", "a", "b", "c")]
      end == IF last % 2 = 0 THEN ROUND_3_END_avx(3*last, "a", "b", "c", "d", "e", "f")
                             ELSE ROUND_3_END_avx(3*last, "d", "e", "f", "a", "b", "c")
  IN Section(ROUND_3_INIT_avx(offset), macros, last, end, Advance(bytes * n, n, n))

FirstAvx2Unpermuted ==       \* mutant: the first round reads at an offset too
  << Load("a", 0, -4), SHUF_avx("a", "b", "c"), TRAN_avx("a", "b", "c"),
     Stor("a", 0), Advance(24, 1, 1) >>

\* The first round of avx2 reads at offset 0; f is the permutation mask.
FirstAvx2 ==
  << Load("a", 0, 0), Permute("a"), SHUF_avx("a", "b", "c"),
     TRAN_avx("a", "b", "c"), Stor("a", 0), Advance(24, 1, 1) >>

-----------------------------------------------------------------------------
(* The inline assembly of neon64: loads and stores move the pointers, two  *)
(* banks of registers take turns, and t0..t3 hold what SHUF gives to TRAN. *)
LOAD_neon64(bank) == [Load(bank, 0, 0) EXCEPT !.inc = 48]
STOR_neon64(bank) == [Stor(bank, 0) EXCEPT !.inc = 64]
SHUF_neon64(bank) == Shuf(bank, "t0_3", {})
TRAN_neon64(bank) == Tran("t0_3", bank, {})

ROUND_neon64(bank, other) ==
  << SHUF_neon64(bank), LOAD_neon64(other), TRAN_neon64(bank), STOR_neon64(bank) >>
ROUND_A == ROUND_neon64("v2_5", "v12_15")
ROUND_B == ROUND_neon64("v12_15", "v2_5")
ROUND_B_LAST ==
  << SHUF_neon64("v12_15"), TRAN_neon64("v12_15"), STOR_neon64("v12_15") >>

\* The pointers have moved: only the rounds are left to count.
Section_neon64(n) ==
  [m \in 1 .. n + 2 |-> CASE m = 1 -> <<LOAD_neon64("v2_5")>>
                          [] m \in 2..n -> IF m % 2 = 0 THEN ROUND_A ELSE ROUND_B
                          [] m = n + 1 -> ROUND_B_LAST
                          [] OTHER -> <<Advance(0, 0, n)>>]

SingleNeon64 ==
  << LOAD_neon64("v12_15"), SHUF_neon64("v12_15"), TRAN_neon64("v12_15"),
     STOR_neon64("v12_15"), Advance(0, 0, 1) >>

-----------------------------------------------------------------------------
(* The loops.  isa: what computes a round; labels: the sizes of the        *)
(* unrolled sections, in the order they are tried; big: the first label is *)
(* a loop with its own counter; restart: a section is followed by a jump   *)
(* to the first test (`continue`), else by the next label; code: per size; *)
(* first: code that runs before them, on one round; back: what is added to *)
(* the pointer at the end.                                                 *)
CLoop(op, isa, params, labels, round) ==
  [op |-> op, isa |-> isa, params |-> params, labels |-> labels, big |-> FALSE,
   restart |-> TRUE, code |-> [n \in {1, 2, 4, 8} |-> Fold(round, n)],
   first |-> <<>>, back |-> 0]

AsmLoop(isa, params, labels, code, first) ==
  [op |-> "enc", isa |-> isa, params |-> params, labels |-> labels, big |-> TRUE,
   restart |-> FALSE, code |-> code, first |-> first, back |-> 0]

EncLoopC(isa, params) == CLoop("enc", isa, params, <<8, 4, 2, 1>>, EncRound(params))

enc_loop_avx2_c ==
  [EncLoopC("avx2", enc_loop_avx2) EXCEPT !.first = <<FirstRoundAvx2>>, !.back = 4]

\* What is left after the sections is dispatched by a jump into five single
\* rounds that fall through: label 5 runs one and leaves four to label 4.
AsmLabels == <<36, 18, 9, 6, 5, 4, 3, 2, 1>>

AsmCode(single, sections) ==
  [n \in {36, 18, 9, 6, 5, 4, 3, 2, 1} |->
     IF n <= 5 THEN <<single>> ELSE sections[n]]

enc_loop_ssse3_asm ==
  AsmLoop("ssse3", enc_loop_ssse3, AsmLabels,
    AsmCode(ROUND_ssse3, [n \in {36, 18, 9, 6} |-> Section_ssse3(n)]), <<>>)

enc_loop_avx_asm ==
  AsmLoop("ssse3", enc_loop_ssse3, AsmLabels,
    AsmCode(ROUND_avx(12, 0), [n \in {36, 18, 9, 6} |-> Section_avx(12, 0, n)]),
    <<>>)

enc_loop_avx2_asm ==
  AsmLoop("avx2", enc_loop_avx2, AsmLabels,
    AsmCode(ROUND_avx(24, -4), [n \in {36, 18, 9, 6} |-> Section_avx(24, -4, n)]),
    <<FirstAvx2>>)

enc_loop_neon64_asm ==
  AsmLoop("neon64", enc_loop_neon64, <<8, 4, 3, 2, 1>>,
    [n \in {8, 4, 3, 2, 1} |-> IF n <= 3 THEN <<SingleNeon64>> ELSE Section_neon64(n)],
    <<>>)

DecLoopC(isa, params) ==
  IF isa \in {"neon32", "neon64"}
  THEN CLoop("dec", isa, params, <<1>>, DecRound(params))
  ELSE CLoop("dec", isa, params, <<8, 4, 2, 1>>,
             IF isa \in {"ssse3", "avx2"} THEN DecRoundX86(params) ELSE DecRound(params))

\* Every loop of lib/arch, by name.
Loops ==
  [ enc_32_le |-> EncLoopC("32le", enc_loop_generic_32),
    enc_32_be |-> EncLoopC("32be", enc_loop_generic_32),
    enc_64_le |-> EncLoopC("64le", enc_loop_generic_64),
    enc_64_be |-> EncLoopC("64be", enc_loop_generic_64),
    enc_ssse3 |-> EncLoopC("ssse3", enc_loop_ssse3),
    enc_avx2  |-> enc_loop_avx2_c,
    enc_avx512 |-> EncLoopC("avx512", enc_loop_avx512),
    enc_neon32 |-> EncLoopC("neon32", enc_loop_neon32),
    enc_neon64 |-> EncLoopC("neon64", enc_loop_neon64),
    enc_ssse3_asm |-> enc_loop_ssse3_asm,
    enc_avx_asm |-> enc_loop_avx_asm,
    enc_avx2_asm |-> enc_loop_avx2_asm,
    enc_neon64_asm |-> enc_loop_neon64_asm,
    dec_32_le |-> DecLoopC("32le", dec_loop_generic_32),
    dec_32_be |-> DecLoopC("32be", dec_loop_generic_32),
    dec_ssse3 |-> DecLoopC("ssse3", dec_loop_ssse3),
    dec_avx2  |-> DecLoopC("avx2", dec_loop_avx2),
    dec_neon32 |-> DecLoopC("neon32", dec_loop_neon32),
    dec_neon64 |-> DecLoopC("neon64", dec_loop_neon64) ]
=============================================================================
