---------------------------- MODULE VectorDecode ----------------------------
(***************************************************************************)
(* What one decoding round of each instruction set computes: Values takes  *)
(* characters to six-bit values, AcceptsAll decides whether all of them    *)
(* are in the alphabet, and Pack puts the values together to bytes,        *)
(* followed by the zeros that the store writes after them.                 *)
(***************************************************************************)
EXTENDS Vectors, Tables

-----------------------------------------------------------------------------
(* The nibble tables of SSSE3, AVX2 and neon32: a character is outside the *)
(* alphabet if the entries of its two nibbles share a bit.                 *)
lut_lo == [n \in 0..15 |-> CASE n = 0 -> 21 [] n \in 1..9 -> 17 [] n = 10 -> 19
                             [] n \in {11, 15} -> 26 [] OTHER -> 27]

lut_hi == [n \in 0..15 |-> CASE n = 2 -> 1 [] n = 3 -> 2 [] n \in {4, 6} -> 4
                             [] n \in {5, 7} -> 8 [] OTHER -> 16]

\* The offset of a value from its character, by high nibble; '/' has its own.
lut_roll == [n \in 0..15 |-> CASE n = 1 -> 16 [] n = 2 -> 19 [] n = 3 -> 4
                               [] n \in {4, 5} -> 191 [] n \in {6, 7} -> 185
                               [] OTHER -> 0]

\* The shift by four is one of 32-bit lanes, so it brings in bits of the next
\* byte, and the mask 0x2F lets one of them pass.
HighNibble(in, i) ==
  LET next == IF i % 4 = 0 THEN 0 ELSE (in[i + 1] % 16) * 16
  IN And8(in[i] \div 16 + next, 47)

LowNibble(in, i) == And8(in[i], 47)

AcceptsByNibbles(in) ==
  \A i \in 1..Len(in) :
    And8(pshufb(lut_lo, LowNibble(in, i)), pshufb(lut_hi, HighNibble(in, i))) = 0

Eq2F(x) == IF x = 47 THEN 255 ELSE 0

ValuesByRoll(in) ==
  [i \in 1..Len(in) |->
     add8(in[i], pshufb(lut_roll, add8(Eq2F(in[i]), HighNibble(in, i))))]

\* dec_reshuffle: two multiply-and-add steps make 24 bits in each 32-bit lane,
\* whose bytes then go out in the other order.
Merged(in, n) == in[2*n - 1] * 64 + in[2*n]                      \* 0x01400140
Lane24(in, n) == Merged(in, 2*n - 1) * 4096 + Merged(in, 2*n)    \* 0x00011000

ByteOfLane24(x, k) == CASE k = 2 -> x \div 65536
                        [] k = 1 -> (x \div 256) % 256
                        [] k = 0 -> x % 256

\* Twelve bytes of each half, then zeros.
PackLanes(in) ==
  [i \in 1..Len(in) |->
     LET half == (i - 1) \div 16
         j == (i - 1) % 16
     IN IF j >= 12 THEN 0
        ELSE ByteOfLane24(Lane24(in, 4*half + (j \div 3) + 1), 2 - (j % 3))]

dec_reshuffle_ssse3(in) == PackLanes(in)
\* Index -1 of the permutation is lane 7, one of zeros.
dec_reshuffle_avx2(in) == PermuteDwords(PackLanes(in), <<0, 1, 2, 4, 5, 6, 7, 7>>)

-----------------------------------------------------------------------------
(* NEON.  neon32 has the same tables, but shifts single bytes and looks up *)
(* the offset with an instruction that gives 0 from index 8 on.            *)
AcceptsByNibbles32(in) ==
  \A i \in 1..Len(in) :
    And8(tbl(lut_lo, in[i] % 16), tbl(lut_hi, in[i] \div 16)) = 0

delta_lookup(x) == IF x < 8 THEN lut_roll[x] ELSE 0

ValuesByDelta(in) ==
  [i \in 1..Len(in) |->
     add8(in[i], delta_lookup(add8(Eq2F(in[i]), in[i] \div 16)))]

\* neon64 has a table for the characters below 64 and one for those above 63,
\* and passes what is in neither through.
dec_lut1 == [c \in 0..63 |-> CASE c = 43 -> 62 [] c = 47 -> 63
                               [] c \in 48..57 -> c + 4 [] OTHER -> 255]
dec_lut2 == [c \in 0..63 |-> CASE c = 0 -> 0 [] c \in 2..27 -> c - 2
                               [] c \in 34..59 -> c - 8 [] OTHER -> 255]

ValuesByTables(in) ==
  [i \in 1..Len(in) |->
     LET above == subs8(in[i], 63)
     IN Or8(tbl(dec_lut1, in[i]),
            IF above \in DOMAIN dec_lut2 THEN dec_lut2[above] ELSE above)]

AcceptsSmall(values) == \A i \in 1..Len(values) : values[i] <= 63

PackNeon(v) ==
  LET out(g) == << Or8((v[4*g + 1] * 4) % 256,  v[4*g + 2] \div 16),
                   Or8((v[4*g + 2] * 16) % 256, v[4*g + 3] \div 4),
                   Or8((v[4*g + 3] * 64) % 256, v[4*g + 4]) >>
  IN [i \in 1 .. 3 * (Len(v) \div 4) |-> out((i - 1) \div 3)[((i - 1) % 3) + 1]]

-----------------------------------------------------------------------------
(* The plain loop: the entries of four tables are the values at their      *)
(* places in the word, and a bit that no value reaches marks an invalid    *)
(* character.                                                              *)
Or32(x, y) == [j \in 1..4 |-> Or8(x[j], y[j])]

WordByTables(endian, in) ==
  LET d(n) == base64_table_dec_32bit(endian, n, in[n + 1])
  IN Or32(Or32(d(0), d(1)), Or32(d(2), d(3)))

AcceptsWord(endian, str) ==
  IF endian = "le" THEN Bit(str[4], 7) = 0 ELSE Bit(str[1], 0) = 0

-----------------------------------------------------------------------------
Values(isa, in) ==
  CASE isa \in {"ssse3", "avx2"} -> ValuesByRoll(in)
    [] isa = "neon32" -> ValuesByDelta(in)
    [] isa = "neon64" -> ValuesByTables(in)
    [] isa = "32le"   -> WordByTables("le", in)
    [] isa = "32be"   -> WordByTables("be", in)

\* The test comes before the values are calculated in some loops, after in others.
AcceptsAll(isa, in, values) ==
  CASE isa \in {"ssse3", "avx2"} -> AcceptsByNibbles(in)
    [] isa = "neon32" -> AcceptsByNibbles32(in)
    [] isa = "neon64" -> AcceptsSmall(values)
    [] isa = "32le"   -> AcceptsWord("le", values)
    [] isa = "32be"   -> AcceptsWord("be", values)

Pack(isa, values) ==
  CASE isa = "ssse3" -> dec_reshuffle_ssse3(values)
    [] isa = "avx2"  -> dec_reshuffle_avx2(values)
    [] isa \in {"neon32", "neon64"} -> PackNeon(values)
    [] isa = "32le"  -> Memory("le", values)
    [] isa = "32be"  -> Memory("be", values)
=============================================================================
