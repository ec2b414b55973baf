----------------------------- MODULE BulkMachine ----------------------------
(***************************************************************************)
(* A call of one of the bulk loops of lib/arch, executed operation by      *)
(* operation on real bytes and characters: which section of the unrolled   *)
(* code runs, what it loads from where, what is in which register, and     *)
(* what it stores where.  Encoder and Decoder take a round of such a loop  *)
(* for one step with the right result; here that is what has to be shown.  *)
(***************************************************************************)
EXTENDS BulkCode, VectorEncode, VectorDecode

CONSTANTS
  Calls      \* the calls: a loop's name and its input, bytes or character codes

ASSUME CallsAssumption ==
  \A c \in Calls : c.name \in DOMAIN Loops /\ c.input \in Seq(Byte)

VARIABLES
  name, input,  \* the call
  pc,           \* "enter", "label", "code", "returned"
  slen, olen,   \* *slen and *olen, the latter from 0
  src, dst,     \* *s and *o, from 0
  loops,        \* the rounds booked for the big loop, in passes of it
  rounds,       \* the other rounds
  label,        \* which section is tried next
  part, ip,     \* the next operation of the section that runs; label 0: `first`
  reg,          \* the registers that hold anything known: name -> bytes
  mem           \* the output buffer, as far as it was written

call == <<name, input>>
vars == <<call, pc, slen, olen, src, dst, loops, rounds, label, part, ip, reg, mem>>

Lp == Loops[name]
Out(n) == IF Lp.op = "enc" THEN 4 * (n \div 3) ELSE 3 * (n \div 4)
Width == IF Lp.op = "enc" THEN Lp.params.width ELSE Lp.params.block

Hole == -1        \* a byte of the output buffer that was not written
-----------------------------------------------------------------------------
Init ==
  /\ \E c \in Calls : name = c.name /\ input = c.input
  /\ pc = "enter"
  /\ slen = Len(input) /\ olen = 0
  /\ src = 0 /\ dst = 0
  /\ loops = 0 /\ rounds = 0 /\ label = 1
  /\ part = 1 /\ ip = 1
  /\ reg = <<>> /\ mem = <<>>

TooShort ==
  /\ pc = "enter" /\ slen < Lp.params.guard
  /\ pc' = "returned"
  /\ UNCHANGED <<call, slen, olen, src, dst, loops, rounds, label, part, ip, reg, mem>>

\* Book all rounds, split them among the big loop and the rest, and start.
Enter ==
  /\ pc = "enter" /\ slen >= Lp.params.guard
  /\ LET r == (slen - Lp.params.reserve) \div Lp.params.block
         rest == IF Lp.first = <<>> THEN r ELSE r - 1
         big == Lp.labels[1]
     IN /\ slen' = slen - r * Lp.params.block
        /\ olen' = olen + r * Out(Lp.params.block)
        /\ loops' = IF Lp.big THEN rest \div big ELSE 0
        /\ rounds' = IF Lp.big THEN rest % big ELSE rest
  /\ IF Lp.first = <<>> THEN pc' = "label" /\ UNCHANGED label
                        ELSE pc' = "code" /\ label' = 0
  /\ UNCHANGED <<call, src, dst, part, ip, reg, mem>>

-----------------------------------------------------------------------------
(* The tests between the sections.                                         *)
AtBig == Lp.big /\ label = 1

EnoughButOne ==          \* mutant: a section is entered one round too early
  IF AtBig THEN loops > 0 ELSE rounds + 1 >= Lp.labels[label]

Enough == IF AtBig THEN loops > 0 ELSE rounds >= Lp.labels[label]

RunSection ==
  /\ pc = "label" /\ label <= Len(Lp.labels) /\ Enough
  /\ pc' = "code"
  /\ UNCHANGED <<call, slen, olen, src, dst, loops, rounds, label, part, ip, reg, mem>>

NextLabel ==
  /\ pc = "label" /\ label <= Len(Lp.labels) /\ ~ Enough
  /\ label' = label + 1
  /\ UNCHANGED <<call, pc, slen, olen, src, dst, loops, rounds, part, ip, reg, mem>>

\* Give back the rounds that were skipped, which only decoding loops have.
Leave(r) ==
  /\ slen' = slen + r * Lp.params.block
  /\ olen' = olen - r * Out(Lp.params.block)
  /\ src' = src + Lp.back
  /\ pc' = "returned"
  /\ UNCHANGED <<call, dst, loops, rounds, label, part, ip, reg, mem>>

NoRoundLeft == pc = "label" /\ label > Len(Lp.labels) /\ Leave(0)

-----------------------------------------------------------------------------
(* One operation of the code.                                              *)
Code == IF label = 0 THEN Lp.first ELSE Lp.code[Lp.labels[label]]
Operation == Code[part][ip]
At(op) == pc = "code" /\ Operation.op = op
AtEnd == part = Len(Code) /\ ip = Len(Code[part])

Onward ==
  IF ip < Len(Code[part]) THEN ip' = ip + 1 /\ UNCHANGED part
                          ELSE ip' = 1 /\ part' = part + 1

Address == src + Operation.round * Lp.params.block + Operation.offset

\* The registers after v was put in r and the temporaries were used up.
Put(r, v, temps) ==
  [x \in (DOMAIN reg \ temps) \cup {r} |-> IF x = r THEN v ELSE reg[x]]
Lose(rs) == [x \in DOMAIN reg \ rs |-> reg[x]]
Get(r) == IF r \in DOMAIN reg THEN reg[r] ELSE <<>>

Loading ==
  /\ At("load")
  /\ LET InputAt(a) == IF a \in 1..Len(input) THEN input[a] ELSE 0
     IN reg' = Put(Operation.to, [i \in 1..Width |-> InputAt(Address + i)], {})
  /\ src' = src + Operation.inc
  /\ Onward
  /\ UNCHANGED <<call, pc, slen, olen, dst, loops, rounds, label, mem>>

Calculated(v) ==
  CASE Operation.op = "permute" -> PermuteDwords(v, <<0, 0, 1, 2, 3, 4, 5, 6>>)
    [] Operation.op = "shuf" /\ Lp.op = "enc" -> Split(Lp.isa, v)
    [] Operation.op = "tran" /\ Lp.op = "enc" -> Translate(Lp.isa, v)
    [] Operation.op = "tran" /\ Lp.op = "dec" -> Values(Lp.isa, v)
    [] Operation.op = "shuf" /\ Lp.op = "dec" -> Pack(Lp.isa, v)

Calculating ==
  /\ pc = "code" /\ Operation.op \in {"shuf", "tran", "permute"}
  /\ reg' = IF Operation.from \in DOMAIN reg
            THEN Put(Operation.to, Calculated(reg[Operation.from]), Operation.temps)
            ELSE Lose({Operation.to} \cup Operation.temps)
  /\ Onward
  /\ UNCHANGED <<call, pc, slen, olen, src, dst, loops, rounds, label, mem>>

\* Any character outside the alphabet ends the loop.
Passes == AcceptsAll(Lp.isa, Get(Operation.from), Get(Operation.with))

Passing ==
  /\ At("test") /\ Passes
  /\ Onward
  /\ UNCHANGED <<call, pc, slen, olen, src, dst, loops, rounds, label, reg, mem>>

BailOutKeepingAll ==     \* mutant: the skipped rounds stay booked
  At("test") /\ ~ Passes /\ Leave(0)

BailOut == At("test") /\ ~ Passes /\ Leave(rounds)

\* The bytes b go to the output buffer from offset o on.
Overwrite(o, b) ==
  LET size == IF o + Len(b) > Len(mem) THEN o + Len(b) ELSE Len(mem)
  IN [i \in 1..size |-> IF i \in o + 1 .. o + Len(b) THEN b[i - o]
                        ELSE IF i <= Len(mem) THEN mem[i] ELSE Hole]

Storing ==
  /\ At("stor")
  /\ mem' = Overwrite(dst + Operation.round * Out(Lp.params.block), Get(Operation.from))
  /\ dst' = dst + Operation.inc
  /\ Onward
  /\ UNCHANGED <<call, pc, slen, olen, src, loops, rounds, label, reg>>

\* The pointers and the count move on.  In C each round of a section does this,
\* in the assembly its end.
Moving ==
  /\ At("advance")
  /\ src' = src + Operation.bytes
  /\ dst' = dst + Operation.blocks * Out(Lp.params.block)
  /\ IF AtBig THEN loops' = loops - 1 /\ UNCHANGED rounds
     ELSE /\ rounds' = IF label = 0 THEN rounds ELSE rounds - Operation.n
          /\ UNCHANGED loops
  /\ IF ~ AtEnd
     THEN Onward /\ UNCHANGED <<pc, label>>
     ELSE /\ pc' = "label" /\ part' = 1 /\ ip' = 1
          /\ label' = IF label = 0 \/ Lp.restart \/ (AtBig /\ loops' > 0) THEN 1
                      ELSE label + 1
  /\ UNCHANGED <<call, slen, olen, reg, mem>>

Next ==
  \/ TooShort \/ Enter \/ RunSection \/ NextLabel \/ NoRoundLeft
  \/ Loading \/ Calculating \/ Passing \/ BailOut \/ Storing \/ Moving

Spec == Init /\ [][Next]_vars
-----------------------------------------------------------------------------
\* No load touches a byte outside the caller's input, at either end: not the
\* rounds that the assembly loads ahead, and not AVX2's that start four bytes
\* before their block ("the final read will not pass beyond the bounds of the
\* input buffer", lib/arch/avx2/enc_loop_asm.c).
LoadsInInput == At("load") => Address >= 0 /\ Address + Width <= Len(input)

\* When the loop returns, its four results agree with what it did: *s and *slen
\* with each other, *o and *olen with the output; it has run every round it could
\* and, when decoding, stopped exactly at the first block that is not all data.
Gap == IF Lp.op = "enc" THEN 0 ELSE Lp.params.store - Out(Lp.params.block)
Stored == IF mem = <<>> THEN 0 ELSE Len(mem) - Gap
IsData(b) == \A i \in b * Lp.params.block + 1 .. (b + 1) * Lp.params.block :
               base64_table_dec_8bit[input[i]] \in Sextet

ResultsAgree ==
  pc = "returned" =>
    LET b == Stored \div Out(Lp.params.block)
        fit == IF Len(input) < Lp.params.guard THEN 0
               ELSE (Len(input) - Lp.params.reserve) \div Lp.params.block
    IN /\ src = Len(input) - slen /\ src = b * Lp.params.block
       /\ dst = olen /\ olen = Stored
       /\ IF Lp.op = "enc" THEN b = fit
          ELSE (\A j \in 0 .. b - 1 : IsData(j)) /\ (b < fit => ~ IsData(b))

\* Every loop, in C or in assembly and whatever its instructions, implements the
\* abstract one: blocks are stored one by one in order, each exactly as the
\* bytewise code would write it.  A register that is overwritten while it is in
\* use, a lane in the wrong place or a wrong table entry would show here.
Rounds == INSTANCE BulkRounds WITH
  op <- Lp.op, block <- Lp.params.block, out <- SubSeq(mem, 1, Stored)

RoundsSpec == Rounds!Spec
=============================================================================
