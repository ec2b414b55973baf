----------------------------- MODULE BulkRounds -----------------------------
(***************************************************************************)
(* What a bulk loop promises the streaming code: it takes whole blocks     *)
(* from the start of the input, one after the other, and appends to the    *)
(* output what the bytewise code would have made of each.  A decoding loop *)
(* may take a block only if all of it is in the alphabet.                  *)
(***************************************************************************)
EXTENDS Tables

VARIABLES
  op,       \* "enc" or "dec"
  input,    \* bytes, or the codes of characters
  block,    \* the size of a block
  out       \* what was written

vars == <<op, input, block, out>>

\* How much of the input the output stands for.
Taken == IF op = "enc" THEN 3 * (Len(out) \div 4) ELSE 4 * (Len(out) \div 3)

Next1 == SubSeq(input, Taken + 1, Taken + block)

Classes(chars) == [i \in 1..Len(chars) |-> base64_table_dec_8bit[chars[i]]]

Result(b) ==
  IF op = "enc"
  THEN [i \in 1 .. 4 * (block \div 3) |-> base64_table_enc_6bit[EncChar(b, i)]]
  ELSE [i \in 1 .. 3 * (block \div 4) |-> DecByte(Classes(b), i)]

Admissible(b) ==
  op = "dec" => \A i \in 1..block : base64_table_dec_8bit[b[i]] \in Sextet

Init == out = <<>>

Round ==
  /\ Taken + block <= Len(input)
  /\ Admissible(Next1)
  /\ out' = out \o Result(Next1)
  /\ UNCHANGED <<op, input, block>>

Spec == Init /\ [][Round]_vars
=============================================================================
