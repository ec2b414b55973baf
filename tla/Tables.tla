-------------------------------- MODULE Tables ------------------------------
(***************************************************************************)
(* The lookup tables of lib/tables, entry by entry as functions.  Base64   *)
(* speaks of a character by its class; here characters are ASCII codes,    *)
(* and base64_table_dec_8bit takes a code to its class.                    *)
(*                                                                         *)
(* A number of 32 bits is the sequence of its bytes, the least significant *)
(* first; Memory gives the order in which a machine stores them.           *)
(***************************************************************************)
EXTENDS Base64

base64_table_enc_6bit ==
  [v \in Sextet |-> CASE v < 26 -> 65 + v           \* A..Z
                      [] v \in 26..51 -> 71 + v     \* a..z
                      [] v \in 52..61 -> v - 4      \* 0..9
                      [] v = 62 -> 43               \* +
                      [] OTHER  -> 47]              \* /

base64_table_dec_8bit ==
  [c \in Byte |-> CASE c \in 65..90  -> c - 65
                    [] c \in 97..122 -> c - 71
                    [] c \in 48..57  -> c + 4
                    [] c = 43 -> 62
                    [] c = 47 -> 63
                    [] c = 61 -> Pad
                    [] OTHER  -> Bad]

-----------------------------------------------------------------------------
Endians == {"le", "be"}

Memory(endian, n) ==
  IF endian = "le" THEN n ELSE [j \in 1..Len(n) |-> n[Len(n) + 1 - j]]

\* i << k as 32 bits, for a six-bit i.
Shift32(i, k) ==
  LET x == i * 2^(k % 8)
  IN [j \in 1..4 |-> CASE j - 1 = k \div 8 -> x % 256
                       [] j - 2 = k \div 8 -> x \div 256
                       [] OTHER -> 0]

\* The sum of two numbers without a bit in common.
Plus32(x, y) == [j \in 1..4 |-> x[j] + y[j]]

\* table_enc_12bit.py: the two characters of a 12-bit index, as a number of 16
\* bits: tr(n >> 6) comes first in memory on either kind of machine.
base64_table_enc_12bit(endian, n) ==
  LET first  == base64_table_enc_6bit[n \div 64]
      second == base64_table_enc_6bit[n % 64]
  IN IF endian = "le" THEN <<first, second>> ELSE <<second, first>>

\* table_generator.c: entry of table d for the character of value i.
Entry32(endian, d, i) ==
  IF endian = "be" THEN Shift32(i, <<26, 20, 14, 8>>[d + 1])
  ELSE CASE d = 0 -> Shift32(i, 2)
         [] d = 1 -> Plus32(Shift32(i \div 16, 0), Shift32(i % 16, 12))
         [] d = 2 -> Plus32(Shift32(i % 4, 22), Shift32(i - (i % 4), 6))
         [] d = 3 -> Shift32(i, 16)

\* base64_table_dec_32bit_d0 to d3; clearDecodeTable marks the characters that
\* are not in the alphabet.
base64_table_dec_32bit(endian, d, c) ==
  IF base64_table_dec_8bit[c] \in Sextet
  THEN Entry32(endian, d, base64_table_dec_8bit[c])
  ELSE <<255, 255, 255, 255>>
=============================================================================
