------------------------------- MODULE Vectors ------------------------------
(***************************************************************************)
(* The vector instructions that the codecs of lib/arch are made of, lane   *)
(* by lane.  A register is the sequence of its bytes in memory order; a    *)
(* lane of 16 or 32 bits has its least significant byte first.             *)
(***************************************************************************)
EXTENDS Integers, Sequences

\* x & m for a mask m of the bits from `low` up to, not including, `limit`,
\* both given as powers of two.
Mask(x, limit, low) == (x % limit) - (x % low)

Bit(x, n) == (x \div 2^n) % 2

And8(x, y) ==
  LET b(n) == Bit(x, n) * Bit(y, n) * 2^n
  IN b(0) + b(1) + b(2) + b(3) + b(4) + b(5) + b(6) + b(7)

Or8(x, y) == x + y - And8(x, y)

\* Lanes of 8 and 16 bits.
add8(x, y) == (x + y) % 256
subs8(x, y) == IF x >= y THEN x - y ELSE 0
mulhi16(x, y) == (x * y) \div 65536
mullo16(x, y) == (x * y) % 65536
\* Shift left by n and insert: the low n bits of x stay.
sli8(x, y, n) == (x % 2^n) + ((y * 2^n) % 256)

Lane16(v, n) == v[2*n - 1] + 256 * v[2*n]
ByteOfWord(w, i) == IF i % 2 = 1 THEN w % 256 ELSE w \div 256

\* A table of 16 bytes, function on 0..15.  PSHUFB looks at the low four bits of
\* the index and gives 0 if its top bit is set; TBL gives 0 out of range.
pshufb(t, x) == IF x >= 128 THEN 0 ELSE t[x % 16]
tbl(t, x) == IF x \in DOMAIN t THEN t[x] ELSE 0

\* Move bytes inside each half of 16 bytes.
ShuffleLanes(v, order) ==
  [i \in 1..Len(v) |-> v[16 * ((i - 1) \div 16) + order[i] + 1]]

\* Move whole lanes of 32 bits.
PermuteDwords(v, order) ==
  [i \in 1..Len(v) |-> v[4 * order[((i - 1) \div 4) + 1] + ((i - 1) % 4) + 1]]

\* Eight bits of a lane of 64 bits, from bit n on, around its end.
MultiShift(v, i, n) ==
  LET lane == 8 * ((i - 1) \div 8)
      b    == n \div 8
      r    == n % 8
  IN (v[lane + b + 1] \div 2^r + v[lane + ((b + 1) % 8) + 1] * 2^(8 - r)) % 256
=============================================================================
