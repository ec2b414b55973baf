------------------------------- MODULE Base64 -------------------------------
(***************************************************************************)
(* The data of the library and the meaning of Base64, index by index.      *)
(*                                                                         *)
(* A character is represented by its class in base64_table_dec_8bit        *)
(* (lib/tables/tables.c): the six-bit value 0..63 it stands for, 254 for   *)
(* '=' and 255 for any other byte.  The reference definitions give the     *)
(* i-th output of an encoding or a decoding in closed form, so they owe    *)
(* nothing to the loops of the code and can be used in proofs.             *)
(***************************************************************************)
EXTENDS Integers, Sequences

Byte   == 0..255
Sextet == 0..63
Pad    == 254          \* the class of '='
Bad    == 255          \* the class of a byte outside the alphabet
Char   == Sextet \cup {Pad, Bad}

-----------------------------------------------------------------------------
(* Encoding: RFC 4648, three bytes to four characters.                     *)

\* Byte j of the message d, 0 past its end.
ByteAt(d, j) == IF j <= Len(d) THEN d[j] ELSE 0

\* Character i (from 1) of the encoding of d.
EncChar(d, i) ==
  LET g == (i - 1) \div 4
      b1 == ByteAt(d, 3*g + 1)
      b2 == ByteAt(d, 3*g + 2)
      b3 == ByteAt(d, 3*g + 3)
  IN CASE (i - 1) % 4 = 0 -> b1 \div 4
       [] (i - 1) % 4 = 1 -> (b1 % 4) * 16 + (b2 \div 16)
       [] (i - 1) % 4 = 2 -> IF 3*g + 2 > Len(d) THEN Pad
                             ELSE (b2 % 16) * 4 + (b3 \div 64)
       [] OTHER           -> IF 3*g + 3 > Len(d) THEN Pad ELSE b3 % 64

\* How many characters n bytes determine before the stream is finalized.
EncPrefixLen(n) == (4 * n) \div 3

\* The length of a complete encoding of n bytes, padding included.
EncodedLen(n) == 4 * ((n + 2) \div 3)

Encode(d) == [i \in 1..EncodedLen(Len(d)) |-> EncChar(d, i)]

-----------------------------------------------------------------------------
(* Decoding: four characters to three bytes.                               *)

\* Byte i (from 1) of the decoding of the characters c.
DecByte(c, i) ==
  LET g == (i - 1) \div 3
  IN CASE (i - 1) % 3 = 0 -> c[4*g + 1] * 4 + (c[4*g + 2] \div 16)
       [] (i - 1) % 3 = 1 -> (c[4*g + 2] % 16) * 16 + (c[4*g + 3] \div 4)
       [] OTHER           -> (c[4*g + 3] % 4) * 64 + c[4*g + 4]

\* How many bytes the first n characters of a valid stream determine.
DecPrefixLen(n) == (3 * n) \div 4

\* The first d of the first n characters are data, and no more of them.
DataPrefix(c, n, d) ==
  /\ d <= n
  /\ d < n => c[d + 1] \notin Sextet
  /\ \A i \in 1..d : c[i] \in Sextet

\* Some complete Base64 text begins with the first n characters: they are data,
\* or the padding starts where it may and nothing else follows.
Viable(c, n) ==
  \E d \in 0..n :
    /\ DataPrefix(c, n, d)
    /\ d < n => c[d + 1] = Pad /\ d % 4 \in {2, 3}
    /\ d + 1 < n => d % 4 = 2 /\ n = d + 2 /\ c[n] = Pad

\* The bytes that the first n characters determine.
Decoded(c, n) ==
  LET d == CHOOSE d \in 0..n : DataPrefix(c, n, d)
  IN [i \in 1 .. DecPrefixLen(d) |-> DecByte(c, i)]

\* A complete Base64 text: groups of four, at most two '=' and only at the end.
\* The unused low bits of the last value before '=' are free.
PadCount(c) == IF c = <<>> \/ c[Len(c)] # Pad THEN 0
               ELSE IF Len(c) > 1 /\ c[Len(c) - 1] = Pad THEN 2 ELSE 1

WellFormed(c) ==
  /\ Len(c) % 4 = 0
  /\ \A i \in 1 .. Len(c) - PadCount(c) : c[i] \in Sextet

Decode(c) == [i \in 1 .. DecPrefixLen(Len(c)) - PadCount(c) |-> DecByte(c, i)]
=============================================================================
