------------------------------ MODULE BulkPlan ------------------------------
(***************************************************************************)
(* What every operation of the bulk loops can count on: for each section   *)
(* the plan of its registers, of how far its pointers have moved and of    *)
(* what it has stored; and the inductive invariant of BulkMachine, which   *)
(* says that the machine is where the plan says.                           *)
(***************************************************************************)
EXTENDS BulkMachine

(* A point of a plan, before an operation.  Blocks are numbered from the   *)
(* first one that is not counted as done yet.  facts: <<r, stage, k>> for  *)
(* a register r that holds block k at some stage of its way; stored: the   *)
(* blocks stored; passed: the blocks tested, when decoding; moved,         *)
(* written: how far the pointers have moved; due: the rounds that the      *)
(* section has still to count.                                             *)
Point(facts, stored, passed, moved, written, due) ==
  [facts |-> facts, stored |-> stored, passed |-> passed, moved |-> moved,
   written |-> written, due |-> due]

Rest == Point({}, 0, 0, 0, 0, 0)

\* One round: loaded to r, split in m, translated in r.
EncPlan(r, m, due) ==
  << Point({}, 0, 0, 0, 0, due), Point({<<r, "raw", 0>>}, 0, 0, 0, 0, due),
     Point({<<m, "mid", 0>>}, 0, 0, 0, 0, due),
     Point({<<r, "done", 0>>}, 0, 0, 0, 0, due), Point({}, 1, 0, 0, 0, due) >>

FirstPlan(r, m) ==
  << Point({}, 0, 0, 0, 0, 1), Point({<<r, "first", 0>>}, 0, 0, 0, 0, 1),
     Point({<<r, "raw", 0>>}, 0, 0, 0, 0, 1), Point({<<m, "mid", 0>>}, 0, 0, 0, 0, 1),
     Point({<<r, "done", 0>>}, 0, 0, 0, 0, 1), Point({}, 1, 0, 0, 0, 1) >>

DecPlanX86(due) ==
  << Point({}, 0, 0, 0, 0, due), Point({<<"raw", "raw", 0>>}, 0, 0, 0, 0, due),
     Point({<<"raw", "raw", 0>>}, 0, 1, 0, 0, due),
     Point({<<"str", "mid", 0>>}, 0, 1, 0, 0, due),
     Point({<<"str", "done", 0>>}, 0, 1, 0, 0, due), Point({}, 1, 1, 0, 0, due) >>

DecPlan(due) ==
  << Point({}, 0, 0, 0, 0, due), Point({<<"raw", "raw", 0>>}, 0, 0, 0, 0, due),
     Point({<<"raw", "raw", 0>>, <<"str", "mid", 0>>}, 0, 0, 0, 0, due),
     Point({<<"str", "mid", 0>>}, 0, 1, 0, 0, due),
     Point({<<"str", "done", 0>>}, 0, 1, 0, 0, due), Point({}, 1, 1, 0, 0, due) >>

-----------------------------------------------------------------------------
(* The pipelines of ssse3, avx and avx2: the pointers move at the end only. *)
Ahead(facts, stored, n) == Point(facts, stored, 0, 0, 0, n)

\* m: where ROUND_3_INIT puts what SHUF gives.
InitPlan(m, n) ==
  << Ahead({}, 0, n), Ahead({<<"a", "raw", 0>>}, 0, n), Ahead({<<m, "mid", 0>>}, 0, n),
     Ahead({<<m, "mid", 0>>, <<"b", "raw", 1>>}, 0, n),
     Ahead({<<"a", "done", 0>>, <<"b", "raw", 1>>}, 0, n) >>

\* m1, m2, m3: where ROUND_3 puts what its three SHUFs give.
Round3Plan(k, A, B, C, D, E, F, m1, m2, m3, n) ==
  << Ahead({<<A, "done", k>>, <<B, "raw", k+1>>, <<C, "raw", k+2>>}, k, n),
     Ahead({<<A, "done", k>>, <<B, "raw", k+1>>, <<C, "raw", k+2>>, <<D, "raw", k+3>>}, k, n),
     Ahead({<<A, "done", k>>, <<m1, "mid", k+1>>, <<C, "raw", k+2>>, <<D, "raw", k+3>>}, k, n),
     Ahead({<<m1, "mid", k+1>>, <<C, "raw", k+2>>, <<D, "raw", k+3>>}, k+1, n),
     Ahead({<<B, "done", k+1>>, <<C, "raw", k+2>>, <<D, "raw", k+3>>}, k+1, n),
     Ahead({<<B, "done", k+1>>, <<C, "raw", k+2>>, <<D, "raw", k+3>>, <<E, "raw", k+4>>}, k+1, n),
     Ahead({<<B, "done", k+1>>, <<m2, "mid", k+2>>, <<D, "raw", k+3>>, <<E, "raw", k+4>>}, k+1, n),
     Ahead({<<m2, "mid", k+2>>, <<D, "raw", k+3>>, <<E, "raw", k+4>>}, k+2, n),
     Ahead({<<C, "done", k+2>>, <<D, "raw", k+3>>, <<E, "raw", k+4>>}, k+2, n),
     Ahead({<<C, "done", k+2>>, <<D, "raw", k+3>>, <<E, "raw", k+4>>, <<F, "raw", k+5>>}, k+2, n),
     Ahead({<<C, "done", k+2>>, <<m3, "mid", k+3>>, <<E, "raw", k+4>>, <<F, "raw", k+5>>}, k+2, n),
     Ahead({<<m3, "mid", k+3>>, <<E, "raw", k+4>>, <<F, "raw", k+5>>}, k+3, n) >>

\* m5, m6: where ROUND_3_END puts what its two SHUFs give.
EndPlan(k, D, E, F, m5, m6, n) ==
  << Ahead({<<D, "done", k>>, <<E, "raw", k+1>>, <<F, "raw", k+2>>}, k, n),
     Ahead({<<D, "done", k>>, <<m5, "mid", k+1>>, <<F, "raw", k+2>>}, k, n),
     Ahead({<<m5, "mid", k+1>>, <<F, "raw", k+2>>}, k+1, n),
     Ahead({<<E, "done", k+1>>, <<F, "raw", k+2>>}, k+1, n),
     Ahead({<<E, "done", k+1>>, <<m6, "mid", k+2>>}, k+1, n),
     Ahead({<<m6, "mid", k+2>>}, k+2, n), Ahead({<<F, "done", k+2>>}, k+2, n) >>

PipelinePlan_ssse3(n) ==
  LET last == n \div 3 - 2
      rounds3 == [j \in 0..last |->
        IF j % 2 = 0
        THEN Round3Plan(3*j, "a", "b", "c", "d", "e", "f", "b", "c", "d", n)
        ELSE Round3Plan(3*j, "d", "e", "f", "a", "b", "c", "e", "f", "a", n)]
      end == IF last % 2 = 0 THEN EndPlan(3*last + 3, "d", "e", "f", "e", "f", n)
                             ELSE EndPlan(3*last + 3, "a", "b", "c", "b", "c", n)
  IN Section(InitPlan("a", n), rounds3, last, end, Ahead({}, n, n))

PipelinePlan_avx(n) ==
  LET last == n \div 3 - 2
      rounds3 == [j \in 0..last |->
        IF j % 2 = 0
        THEN Round3Plan(3*j, "a", "b", "c", "d", "e", "f", "e", "a", "a", n)
        ELSE Round3Plan(3*j, "d", "e", "f", "a", "b", "c", "b", "d", "d", n)]
      end == IF last % 2 = 0 THEN EndPlan(3*last + 3, "d", "e", "f", "a", "c", n)
                             ELSE EndPlan(3*last + 3, "a", "b", "c", "d", "f", n)
  IN Section(InitPlan("d", n), rounds3, last, end, Ahead({}, n, n))

-----------------------------------------------------------------------------
(* neon64: the pointers move with every load and store.                    *)
Banked(bank, other, k, n) ==
  << Point({<<bank, "raw", k>>}, k, 0, k + 1, k, n),
     Point({<<"t0_3", "mid", k>>}, k, 0, k + 1, k, n),
     Point({<<"t0_3", "mid", k>>, <<other, "raw", k+1>>}, k, 0, k + 2, k, n),
     Point({<<bank, "done", k>>, <<other, "raw", k+1>>}, k, 0, k + 2, k, n) >>

NeonPlan(n) ==
  [m \in 1 .. n + 2 |->
     CASE m = 1 -> <<Point({}, 0, 0, 0, 0, n)>>
       [] m \in 2..n -> IF m % 2 = 0 THEN Banked("v2_5", "v12_15", m - 2, n)
                                     ELSE Banked("v12_15", "v2_5", m - 2, n)
       [] m = n + 1 -> << Point({<<"v12_15", "raw", n-1>>}, n - 1, 0, n, n - 1, n),
                          Point({<<"t0_3", "mid", n-1>>}, n - 1, 0, n, n - 1, n),
                          Point({<<"v12_15", "done", n-1>>}, n - 1, 0, n, n - 1, n) >>
       [] OTHER -> <<Point({}, n, 0, n, n, n)>>]

SinglePlanNeon64 ==
  << Point({}, 0, 0, 0, 0, 1), Point({<<"v12_15", "raw", 0>>}, 0, 0, 1, 0, 1),
     Point({<<"t0_3", "mid", 0>>}, 0, 0, 1, 0, 1),
     Point({<<"v12_15", "done", 0>>}, 0, 0, 1, 0, 1), Point({}, 1, 0, 1, 1, 1) >>

-----------------------------------------------------------------------------
\* Rounds one after the other.
FoldPlan(lp, size) ==
  [m \in 1..size |->
     LET due == size + 1 - m
     IN CASE lp.op = "enc" -> EncPlan("str", "str", due)
          [] lp.op = "dec" /\ lp.isa \in {"ssse3", "avx2"} -> DecPlanX86(due)
          [] OTHER -> DecPlan(due)]

AsmPlan(n, size) ==
  CASE n = "enc_ssse3_asm" ->
         IF size <= 5 THEN <<EncPlan("a", "a", 1)>> ELSE PipelinePlan_ssse3(size)
    [] n \in {"enc_avx_asm", "enc_avx2_asm"} ->
         IF size <= 5 THEN <<EncPlan("a", "b", 1)>> ELSE PipelinePlan_avx(size)
    [] n = "enc_neon64_asm" ->
         IF size <= 3 THEN <<SinglePlanNeon64>> ELSE NeonPlan(size)

\* The plan of the code at label l of a loop.
Plan(n, l) ==
  IF l = 0
  THEN <<IF Loops[n].restart THEN FirstPlan("src", "src") ELSE FirstPlan("a", "b")>>
  ELSE IF Loops[n].restart THEN FoldPlan(Loops[n], Loops[n].labels[l])
                           ELSE AsmPlan(n, Loops[n].labels[l])

-----------------------------------------------------------------------------
(* When an operation leads from one point of a plan to the next.           *)
OutBlock(lp) ==
  IF lp.op = "enc" THEN 4 * (lp.params.block \div 3) ELSE 3 * (lp.params.block \div 4)
Lag(lp) == IF lp.op = "enc" THEN lp.params.lag ELSE 0

\* The registers rs are overwritten, one of them with something new.
Facts(s, t, rs, new) ==
  \A f \in t.facts : f = new \/ (f \in s.facts /\ f[1] \notin rs)
SameCounts(s, t) ==
  /\ t.stored = s.stored /\ t.passed = s.passed
  /\ t.written = s.written /\ t.due = s.due

LoadOK(lp, l, op, s, t) ==
  LET k == s.moved + op.round
      stage == IF l = 0 THEN "first" ELSE "raw"
  IN /\ op.round \in Nat /\ t.moved \in Nat
     /\ k < s.due /\ op.offset = (IF l = 0 THEN 0 ELSE lp.back - Lag(lp))
     /\ op.inc = (t.moved - s.moved) * lp.params.block
     /\ Facts(s, t, {op.to}, <<op.to, stage, k>>)
     /\ SameCounts(s, t)

\* The stages that a calculation leads from and to.
From(lp, op) == CASE op.op = "permute" -> "first"
                  [] op.op = (IF lp.op = "enc" THEN "shuf" ELSE "tran") -> "raw"
                  [] OTHER -> "mid"
To(lp, op) == CASE op.op = "permute" -> "raw"
                [] op.op = (IF lp.op = "enc" THEN "shuf" ELSE "tran") -> "mid"
                [] OTHER -> "done"

CalculationOK(lp, op, s, t) ==
  /\ \E f \in s.facts :
       /\ f[1] = op.from /\ f[2] = From(lp, op)
       /\ Facts(s, t, {op.to} \cup op.temps, <<op.to, To(lp, op), f[3]>>)
  /\ SameCounts(s, t) /\ t.moved = s.moved

TestOK(lp, op, s, t) ==
  /\ s.stored = 0 /\ s.passed = 0 /\ s.moved = 0 /\ s.written = 0 /\ lp.op = "dec"
  /\ <<op.from, "raw", 0>> \in s.facts
  /\ \/ <<op.with, "mid", 0>> \in s.facts
     \/ lp.isa \in {"ssse3", "avx2"}
  /\ t.facts \subseteq s.facts
  /\ t.stored = 0 /\ t.passed = 1 /\ t.moved = 0 /\ t.written = 0 /\ t.due = s.due

StorOK(lp, op, s, t) ==
  /\ <<op.from, "done", s.stored>> \in s.facts
  /\ op.round \in Nat /\ s.written + op.round = s.stored
  /\ lp.op = "dec" => s.stored < s.passed
  /\ t.written \in Nat /\ op.inc = (t.written - s.written) * OutBlock(lp)
  /\ t.facts \subseteq s.facts
  /\ t.stored = s.stored + 1 /\ t.passed = s.passed /\ t.due = s.due /\ t.moved = s.moved

AdvanceOK(lp, l, op, s, t) ==
  /\ op.n = s.stored /\ op.n > 0 /\ op.n <= s.due
  /\ lp.op = "dec" => s.passed = op.n
  /\ op.bytes = (op.n - s.moved) * lp.params.block - (IF l = 0 THEN lp.back ELSE 0)
  /\ op.blocks = op.n - s.written
  /\ t = Point({}, 0, 0, 0, 0, s.due - op.n)
  /\ lp.big /\ l = 1 => op.n = lp.labels[1]
  /\ ~ lp.restart /\ l > 1 => lp.labels[l - 1] <= op.n + lp.labels[l]

StepOK(lp, l, op, s, t) ==
  \/ op.op = "load" /\ LoadOK(lp, l, op, s, t)
  \/ op.op \in {"shuf", "tran", "permute"} /\ CalculationOK(lp, op, s, t)
  \/ op.op = "test" /\ TestOK(lp, op, s, t)
  \/ op.op = "stor" /\ StorOK(lp, op, s, t)
  \/ op.op = "advance" /\ AdvanceOK(lp, l, op, s, t)

CodeAt(lp, l) == IF l = 0 THEN lp.first ELSE lp.code[lp.labels[l]]

\* The point after operation i of part m.
After(code, plan, m, i) ==
  CASE i < Len(code[m]) -> plan[m][i + 1]
    [] i = Len(code[m]) /\ m < Len(code) -> plan[m + 1][1]
    [] OTHER -> Rest

LabelsOf(lp) == (IF lp.first = <<>> THEN 1 ELSE 0) .. Len(lp.labels)

SectionOK(lp, l, code, plan) ==
  /\ Len(code) >= 1
  /\ \A m \in 1 .. Len(code) :
       /\ Len(code[m]) >= 1
       /\ \A i \in 1 .. Len(code[m]) :
            StepOK(lp, l, code[m][i], plan[m][i], After(code, plan, m, i))
  /\ code[Len(code)][Len(code[Len(code)])].op = "advance"
  /\ \E due \in 1 .. (IF l = 0 THEN 1 ELSE lp.labels[l]) :
       plan[1][1] = Point({}, 0, 0, 0, 0, due)

PlansOK(n) ==
  \A l \in LabelsOf(Loops[n]) :
    SectionOK(Loops[n], l, CodeAt(Loops[n], l), Plan(n, l))

-----------------------------------------------------------------------------
(* What a register holds of block b on its way, and what becomes of it.    *)
WidthOf(lp) == IF lp.op = "enc" THEN lp.params.width ELSE lp.params.block
GapOf(lp) == IF lp.op = "enc" THEN 0 ELSE lp.params.store - OutBlock(lp)

Loaded(lp, in, a) ==
  [i \in 1 .. WidthOf(lp) |-> IF a + i \in 1..Len(in) THEN in[a + i] ELSE 0]
Raw(lp, in, b) ==
  IF b = 0 /\ Lag(lp) > 0
  THEN PermuteDwords(Loaded(lp, in, 0), <<0, 0, 1, 2, 3, 4, 5, 6>>)
  ELSE Loaded(lp, in, b * lp.params.block - Lag(lp))
Mid(lp, in, b) ==
  IF lp.op = "enc" THEN Split(lp.isa, Raw(lp, in, b)) ELSE Values(lp.isa, Raw(lp, in, b))
Done(lp, in, b) ==
  IF lp.op = "enc" THEN Translate(lp.isa, Mid(lp, in, b)) ELSE Pack(lp.isa, Mid(lp, in, b))

Content(lp, in, stage, b) ==
  CASE stage = "first" -> Loaded(lp, in, 0)
    [] stage = "raw"   -> Raw(lp, in, b)
    [] stage = "mid"   -> Mid(lp, in, b)
    [] stage = "done"  -> Done(lp, in, b)

BlockAt(lp, in, b) == [i \in 1 .. lp.params.block |-> in[b * lp.params.block + i]]
DataAt(lp, in, b) ==
  \A i \in 1 .. lp.params.block :
    base64_table_dec_8bit[BlockAt(lp, in, b)[i]] \in Sextet

\* What the bytewise code makes of it.
Wanted(lp, in, b) ==
  LET d == BlockAt(lp, in, b)
      classes == [i \in 1 .. lp.params.block |-> base64_table_dec_8bit[d[i]]]
  IN IF lp.op = "enc"
     THEN [i \in 1 .. 4 * (lp.params.block \div 3) |-> base64_table_enc_6bit[EncChar(d, i)]]
     ELSE [i \in 1 .. 3 * (lp.params.block \div 4) |-> DecByte(classes, i)]

\* How many rounds the loop runs if nothing stops it.
Fits(lp, in) == IF Len(in) < lp.params.guard THEN 0
                ELSE (Len(in) - lp.params.reserve) \div lp.params.block

-----------------------------------------------------------------------------
(* The invariant.                                                          *)
IsVector(f, n) == f = [i \in 1..n |-> f[i]]

\* The output buffer holds n blocks, and the rest of the last store.
MemIs(lp, in, m, n) ==
  /\ n = 0 => m = <<>>
  /\ n > 0 => IsVector(m, n * OutBlock(lp) + GapOf(lp))
  /\ \A b \in 0 .. n - 1 :
       LET wanted == Wanted(lp, in, b)
       IN \A i \in 1 .. OutBlock(lp) : m[b * OutBlock(lp) + i] = wanted[i]

AllData(lp, in, n) == lp.op = "dec" => \A b \in 0 .. n - 1 : DataAt(lp, in, b)

\* The registers hold what the point says, of blocks that are still to be counted.
Holds(lp, in, l, r, base, point) ==
  \A f \in point.facts :
    /\ f[3] \in 0 .. point.due - 1 /\ (f[2] = "first" => l = 0)
    /\ f[1] \in DOMAIN r /\ r[f[1]] = Content(lp, in, f[2], base + f[3])

TypedPoint(point) ==
  /\ point.stored \in Nat /\ point.passed \in Nat /\ point.moved \in Nat
  /\ point.written \in Nat /\ point.due \in Nat

Block == Lp.params.block
Fit == Fits(Lp, input)

Left == (IF Lp.big THEN loops * Lp.labels[1] ELSE 0) + rounds
        + (IF pc = "code" /\ label = 0 THEN 1 ELSE 0)
Base == Fit - Left

Here == IF pc = "code" THEN Plan(name, label)[part][ip] ELSE Rest

CallInv == name \in DOMAIN Loops /\ input \in Seq(Byte)

EnterInv ==
  pc = "enter" =>
    /\ slen = Len(input) /\ olen = 0 /\ src = 0 /\ dst = 0
    /\ loops = 0 /\ rounds = 0 /\ label = 1 /\ part = 1 /\ ip = 1
    /\ mem = <<>>

Running == pc \in {"label", "code"}

BookedInv ==
  Running => /\ Len(input) >= Lp.params.guard
             /\ slen = Len(input) - Fit * Block /\ olen = Fit * OutBlock(Lp)

\* The rounds that are left can be run by the sections that are left.
CountInv ==
  Running =>
    /\ loops \in Nat /\ rounds \in Nat
    /\ IF Lp.big THEN rounds < Lp.labels[1] ELSE loops = 0
    /\ label > 1 => rounds < Lp.labels[label - 1] /\ loops = 0
    /\ Left <= Fit
    /\ IF label = 0 THEN Left = Fit ELSE Lp.first # <<>> => Left < Fit

\* What the section that runs may still count.
Due == IF label = 0 THEN 1 ELSE IF AtBig THEN Lp.labels[1] ELSE rounds

PlaceInv ==
  /\ pc = "label" => label \in 1 .. Len(Lp.labels) + 1 /\ part = 1 /\ ip = 1
  /\ pc = "code" => /\ label \in LabelsOf(Lp)
                    /\ part \in 1 .. Len(Code) /\ ip \in 1 .. Len(Code[part])
                    /\ TypedPoint(Here) /\ Here.due <= Due
                    /\ AtBig => loops > 0

PointerInv ==
  Running =>
    /\ src = (Base + Here.moved) * Block - (IF label = 0 THEN 0 ELSE Lp.back)
    /\ dst = (Base + Here.written) * OutBlock(Lp)

FactsInv == pc = "code" => Holds(Lp, input, label, reg, Base, Here)

OutputInv ==
  Running => /\ MemIs(Lp, input, mem, Base + Here.stored)
             /\ AllData(Lp, input, Base + Here.passed)

ReturnedInv ==
  pc = "returned" =>
    \E b \in 0..Fit :
      /\ src = b * Block /\ slen = Len(input) - b * Block
      /\ dst = b * OutBlock(Lp) /\ olen = b * OutBlock(Lp)
      /\ MemIs(Lp, input, mem, b) /\ AllData(Lp, input, b)
      /\ b < Fit => Lp.op = "dec" /\ ~ DataAt(Lp, input, b)

\* Wherever a loop is: as many rounds are booked as fit the input, those that are left
\* are all that the sections ahead will run, the pointers and the output have come as far
\* as the plan of the section says, and every register that the section will still use
\* holds what the plan says of its block.
IndInv ==
  /\ CallInv /\ pc \in {"enter", "label", "code", "returned"}
  /\ EnterInv /\ BookedInv /\ CountInv /\ PlaceInv
  /\ PointerInv /\ FactsInv /\ OutputInv /\ ReturnedInv
=============================================================================
