---------------------------- MODULE VectorEncode ----------------------------
(***************************************************************************)
(* What one encoding round of each instruction set computes, in the two    *)
(* steps of the code: Split spreads the bits of the input over six-bit     *)
(* values (enc_reshuffle, SHUF), and Translate takes these to characters   *)
(* (enc_translate, TRAN, the table lookups).                               *)
(***************************************************************************)
EXTENDS Vectors, Tables

-----------------------------------------------------------------------------
(* SSSE3 to AVX2.  Each lane of 32 bits gets three bytes of input, the     *)
(* middle one twice; two multiplications per lane of 16 bits shift the     *)
(* four fields to where they belong.                                       *)
lut0_128 == <<1, 0, 2, 1,  4, 3, 5, 4,  7, 6, 8, 7,  10, 9, 11, 10>>

\* The lower half of an AVX2 register has its twelve bytes at the top end.
lut0_256 == [i \in 1..32 |-> IF i <= 16 THEN lut0_128[i] + 4 ELSE lut0_128[i - 16]]

SplitMultiply(in) ==
  LET odd(n) == n % 2 = 1
      t0(n) == IF odd(n) THEN Mask(Lane16(in, n), 65536, 1024)     \* & 0x0FC0FC00
                         ELSE Mask(Lane16(in, n), 4096, 64)
      t1(n) == mulhi16(t0(n), IF odd(n) THEN 64 ELSE 1024)       \* 0x04000040
      t2(n) == IF odd(n) THEN Mask(Lane16(in, n), 1024, 16)        \* & 0x003F03F0
                         ELSE Mask(Lane16(in, n), 64, 1)
      t3(n) == mullo16(t2(n), IF odd(n) THEN 16 ELSE 256)        \* 0x01000010
      out(i, n) == Or8(ByteOfWord(t1(n), i), ByteOfWord(t3(n), i))
  IN [i \in 1..Len(in) |-> out(i, (i + 1) \div 2)]

enc_reshuffle_ssse3(in) == SplitMultiply(ShuffleLanes(in, lut0_128))
enc_reshuffle_avx2(in) == SplitMultiply(ShuffleLanes(in, lut0_256))

\* The offset of a character from its value, by range: 0, 1, 2..11, 12, 13.
lut1 == [k \in 0..15 |-> CASE k = 0 -> 65 [] k = 1 -> 71 [] k \in 2..11 -> 252
                           [] k = 12 -> 237 [] k = 13 -> 240 [] OTHER -> 0]

\* x > 25, as the bytes of a mask; SSE compares signed bytes.
Above25(x) == IF x \in 26..127 THEN 255 ELSE 0

enc_translate(in) ==
  [i \in 1..Len(in) |->
     LET index == (subs8(in[i], 51) - Above25(in[i])) % 256
     IN add8(in[i], pshufb(lut1, index))]

-----------------------------------------------------------------------------
(* AVX512: a permutation of bytes, a shift per byte of output, a lookup.   *)
shuffle_input == [i \in 1..64 |-> 3 * ((i - 1) \div 4) + <<1, 0, 2, 1>>[((i - 1) % 4) + 1]]
shifts == <<10, 4, 22, 16, 42, 36, 54, 48>>

\* The two high bits of each byte are left as they come; the lookup drops them.
Reshuffle512(input) ==
  LET in == [i \in 1..64 |-> input[shuffle_input[i] + 1]]
  IN [i \in 1..64 |-> MultiShift(in, i, shifts[((i - 1) % 8) + 1])]

Lookup512(in) == [i \in 1..64 |-> base64_table_enc_6bit[in[i] % 64]]

-----------------------------------------------------------------------------
(* NEON: LD3 and ST4 deinterleave, so each group of three bytes a, b, c is *)
(* a lane of its own.                                                      *)
enc_reshuffle_neon(in) ==
  LET a(g) == in[3*g + 1]
      b(g) == in[3*g + 2]
      c(g) == in[3*g + 3]
      out(g) == << a(g) \div 4,
                   sli8(b(g) \div 16, a(g), 4) % 64,
                   sli8(c(g) \div 64, b(g), 2) % 64,
                   c(g) % 64 >>
  IN [i \in 1 .. 4 * (Len(in) \div 3) |-> out((i - 1) \div 4)[((i - 1) % 4) + 1]]

\* neon32 calculates the characters, neon64 looks them up.
enc_translate_neon32(in) ==
  [i \in 1..Len(in) |->
     LET mask  == IF in[i] > 25 THEN 255 ELSE 0
         index == (subs8(in[i], 51) - mask) % 256
     IN add8(in[i], tbl(lut1, index))]

Lookup64(in) == [i \in 1..Len(in) |-> tbl(base64_table_enc_6bit, in[i])]

-----------------------------------------------------------------------------
(* The plain loops: two or four 12-bit fields from the top of the word,    *)
(* and the two characters at each of them.                                 *)
Field12(in, n) ==
  LET j == (3 * n) \div 2 + 1
  IN IF n % 2 = 0 THEN in[j] * 16 + in[j + 1] \div 16
                  ELSE (in[j] % 16) * 256 + in[j + 1]

Indices32(in) == [n \in 1..2 |-> Field12(in, n - 1)]
Indices64(in) == [n \in 1..4 |-> Field12(in, n - 1)]

LookupPairs(endian, index) ==
  [i \in 1 .. 2 * Len(index) |->
     Memory(endian, base64_table_enc_12bit(endian, index[(i + 1) \div 2]))
       [IF i % 2 = 1 THEN 1 ELSE 2]]

-----------------------------------------------------------------------------
Split(isa, in) ==
  CASE isa = "ssse3"  -> enc_reshuffle_ssse3(in)
    [] isa = "avx2"   -> enc_reshuffle_avx2(in)
    [] isa = "avx512" -> Reshuffle512(in)
    [] isa \in {"neon32", "neon64"} -> enc_reshuffle_neon(in)
    [] isa \in {"32le", "32be"} -> Indices32(in)
    [] isa \in {"64le", "64be"} -> Indices64(in)

Translate(isa, in) ==
  CASE isa \in {"ssse3", "avx2"} -> enc_translate(in)
    [] isa = "avx512" -> Lookup512(in)
    [] isa = "neon32" -> enc_translate_neon32(in)
    [] isa = "neon64" -> Lookup64(in)
    [] isa \in {"32le", "64le"} -> LookupPairs("le", in)
    [] isa \in {"32be", "64be"} -> LookupPairs("be", in)
=============================================================================
