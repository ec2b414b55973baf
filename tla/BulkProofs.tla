----------------------------- MODULE BulkProofs -----------------------------
(***************************************************************************)
(* For every loop and every input: the code of each section keeps to its   *)
(* plan, the machine is where the plan says, and so a loop reads inside    *)
(* its input, returns what it did and implements the abstract loop.        *)
(***************************************************************************)
EXTENDS BulkPlan, Base64Proofs


-----------------------------------------------------------------------------
(* Every operation of every section leads from one point of its plan to    *)
(* the next.  First a round on its own.                                    *)

EncOps(r, m, offset, t1, t2, bytes) ==
  << Load(r, 0, offset), Shuf(r, m, t1), Tran(m, r, t2), Stor(r, 0),
     Advance(bytes, 1, 1) >>

\* A label with such a round, at which `due` rounds are left to do.
EncRoundAt(lp, l, offset, due) ==
  /\ l \in Nat \ {0} /\ due \in Nat \ {0} /\ lp.op = "enc"
  /\ offset = lp.back - Lag(lp)
  /\ lp.params.block \in Nat /\ OutBlock(lp) \in Nat
  /\ lp.big /\ l = 1 => lp.labels[1] = 1
  /\ ~ lp.restart /\ l > 1 => lp.labels[l - 1] <= 1 + lp.labels[l]

LEMMA EncSteps ==
  ASSUME NEW lp, NEW l, NEW r, NEW m, NEW t1, NEW t2, NEW offset, NEW due,
         EncRoundAt(lp, l, offset, due)
  PROVE  LET o == EncOps(r, m, offset, t1, t2, lp.params.block)
             p == EncPlan(r, m, due)
         IN /\ StepOK(lp, l, o[1], p[1], p[2]) /\ StepOK(lp, l, o[2], p[2], p[3])
            /\ StepOK(lp, l, o[3], p[3], p[4]) /\ StepOK(lp, l, o[4], p[4], p[5])
            /\ StepOK(lp, l, o[5], p[5], Point({}, 0, 0, 0, 0, due - 1))
<1>0. /\ l \in Nat \ {0} /\ due \in Nat \ {0} /\ lp.op = "enc"
      /\ offset = lp.back - Lag(lp)
      /\ lp.params.block \in Nat /\ OutBlock(lp) \in Nat
      /\ lp.big /\ l = 1 => lp.labels[1] = 1
      /\ ~ lp.restart /\ l > 1 => lp.labels[l - 1] <= 1 + lp.labels[l]
  BY DEF EncRoundAt
<1> USE <1>0
<1>1. StepOK(lp, l, Load(r, 0, offset), Point({}, 0, 0, 0, 0, due),
             Point({<<r, "raw", 0>>}, 0, 0, 0, 0, due))
  BY DEF StepOK, LoadOK, Load, Point, Facts, SameCounts
<1>2. StepOK(lp, l, Shuf(r, m, t1), Point({<<r, "raw", 0>>}, 0, 0, 0, 0, due),
             Point({<<m, "mid", 0>>}, 0, 0, 0, 0, due))
  BY DEF StepOK, CalculationOK, From, To, Shuf, Point, Facts, SameCounts
<1>3. StepOK(lp, l, Tran(m, r, t2), Point({<<m, "mid", 0>>}, 0, 0, 0, 0, due),
             Point({<<r, "done", 0>>}, 0, 0, 0, 0, due))
  BY DEF StepOK, CalculationOK, From, To, Tran, Point, Facts, SameCounts
<1>4. StepOK(lp, l, Stor(r, 0), Point({<<r, "done", 0>>}, 0, 0, 0, 0, due),
             Point({}, 1, 0, 0, 0, due))
  BY DEF StepOK, StorOK, Stor, Point
<1>5. StepOK(lp, l, Advance(lp.params.block, 1, 1), Point({}, 1, 0, 0, 0, due),
             Point({}, 0, 0, 0, 0, due - 1))
  BY DEF StepOK, AdvanceOK, Advance, Point
<1> QED
  BY <1>1, <1>2, <1>3, <1>4, <1>5 DEF EncOps, EncPlan

\* The first round of avx2, in C and in assembly.
FirstOps(r, m, t1, t2, bytes) ==
  << Load(r, 0, 0), Permute(r), Shuf(r, m, t1), Tran(m, r, t2), Stor(r, 0),
     Advance(bytes, 1, 1) >>

LEMMA FirstSteps ==
  ASSUME NEW lp, NEW r, NEW m, NEW t1, NEW t2, NEW bytes,
         lp.op = "enc", lp.params.block \in Nat, OutBlock(lp) \in Nat, lp.back \in Nat,
         bytes = lp.params.block - lp.back
  PROVE  LET o == FirstOps(r, m, t1, t2, bytes)
             p == FirstPlan(r, m)
         IN /\ StepOK(lp, 0, o[1], p[1], p[2]) /\ StepOK(lp, 0, o[2], p[2], p[3])
            /\ StepOK(lp, 0, o[3], p[3], p[4]) /\ StepOK(lp, 0, o[4], p[4], p[5])
            /\ StepOK(lp, 0, o[5], p[5], p[6]) /\ StepOK(lp, 0, o[6], p[6], Rest)
<1>1. StepOK(lp, 0, Load(r, 0, 0), Point({}, 0, 0, 0, 0, 1),
             Point({<<r, "first", 0>>}, 0, 0, 0, 0, 1))
  BY DEF StepOK, LoadOK, Load, Point, Facts, SameCounts
<1>2. StepOK(lp, 0, Permute(r), Point({<<r, "first", 0>>}, 0, 0, 0, 0, 1),
             Point({<<r, "raw", 0>>}, 0, 0, 0, 0, 1))
  BY DEF StepOK, CalculationOK, From, To, Permute, Point, Facts, SameCounts
<1>3. StepOK(lp, 0, Shuf(r, m, t1), Point({<<r, "raw", 0>>}, 0, 0, 0, 0, 1),
             Point({<<m, "mid", 0>>}, 0, 0, 0, 0, 1))
  BY DEF StepOK, CalculationOK, From, To, Shuf, Point, Facts, SameCounts
<1>4. StepOK(lp, 0, Tran(m, r, t2), Point({<<m, "mid", 0>>}, 0, 0, 0, 0, 1),
             Point({<<r, "done", 0>>}, 0, 0, 0, 0, 1))
  BY DEF StepOK, CalculationOK, From, To, Tran, Point, Facts, SameCounts
<1>5. StepOK(lp, 0, Stor(r, 0), Point({<<r, "done", 0>>}, 0, 0, 0, 0, 1),
             Point({}, 1, 0, 0, 0, 1))
  BY DEF StepOK, StorOK, Stor, Point
<1>6. StepOK(lp, 0, Advance(bytes, 1, 1), Point({}, 1, 0, 0, 0, 1), Rest)
  BY DEF StepOK, AdvanceOK, Advance, Point, Rest
<1> QED
  BY <1>1, <1>2, <1>3, <1>4, <1>5, <1>6 DEF FirstOps, FirstPlan

LEMMA DecSteps ==
  ASSUME NEW lp, NEW l \in Nat \ {0}, NEW due \in Nat \ {0},
         lp.op = "dec", lp.back = 0, lp.params.block \in Nat,
         OutBlock(lp) \in Nat, lp.big = FALSE, lp.restart = TRUE
  PROVE  LET o == DecRound(lp.params)
             p == DecPlan(due)
         IN /\ StepOK(lp, l, o[1], p[1], p[2]) /\ StepOK(lp, l, o[2], p[2], p[3])
            /\ StepOK(lp, l, o[3], p[3], p[4]) /\ StepOK(lp, l, o[4], p[4], p[5])
            /\ StepOK(lp, l, o[5], p[5], p[6])
            /\ StepOK(lp, l, o[6], p[6], Point({}, 0, 0, 0, 0, due - 1))
<1>1. StepOK(lp, l, Load("raw", 0, 0), Point({}, 0, 0, 0, 0, due),
             Point({<<"raw", "raw", 0>>}, 0, 0, 0, 0, due))
  BY DEF StepOK, LoadOK, Load, Point, Facts, SameCounts, Lag
<1>2. StepOK(lp, l, Tran("raw", "str", {}), Point({<<"raw", "raw", 0>>}, 0, 0, 0, 0, due),
             Point({<<"raw", "raw", 0>>, <<"str", "mid", 0>>}, 0, 0, 0, 0, due))
  <2> DEFINE q == Tran("raw", "str", {})
             a == Point({<<"raw", "raw", 0>>}, 0, 0, 0, 0, due)
             b == Point({<<"raw", "raw", 0>>, <<"str", "mid", 0>>}, 0, 0, 0, 0, due)
             f == <<"raw", "raw", 0>>
  <2>1. q.op = "tran" /\ q.from = "raw" /\ q.to = "str" /\ q.temps = {}
    BY DEF Tran
  <2>2. SameCounts(a, b) /\ b.moved = a.moved
    BY DEF SameCounts, Point
  <2>3. f \in a.facts /\ f[1] = "raw" /\ f[2] = "raw" /\ f[3] = 0
    BY DEF Point
  <2>4. Facts(a, b, {"str"} \cup {}, <<"str", "mid", 0>>)
    BY DEF Facts, Point
  <2> HIDE DEF q, a, b, f
  <2>5. From(lp, q) = "raw" /\ To(lp, q) = "mid"
    BY <2>1 DEF From, To
  <2>6. CalculationOK(lp, q, a, b)
    BY <2>1, <2>2, <2>3, <2>4, <2>5 DEF CalculationOK
  <2> QED
    BY <2>1, <2>6 DEF StepOK, q, a, b
<1>3. StepOK(lp, l, Test("raw", "str"),
             Point({<<"raw", "raw", 0>>, <<"str", "mid", 0>>}, 0, 0, 0, 0, due),
             Point({<<"str", "mid", 0>>}, 0, 1, 0, 0, due))
  <2> DEFINE q == Test("raw", "str")
             a == Point({<<"raw", "raw", 0>>, <<"str", "mid", 0>>}, 0, 0, 0, 0, due)
             b == Point({<<"str", "mid", 0>>}, 0, 1, 0, 0, due)
  <2>1. q.op = "test" /\ q.from = "raw" /\ q.with = "str"
    BY DEF Test
  <2>2. /\ a.facts = {<<"raw", "raw", 0>>, <<"str", "mid", 0>>} /\ a.due = due
        /\ a.stored = 0 /\ a.passed = 0 /\ a.moved = 0 /\ a.written = 0
        /\ b.facts = {<<"str", "mid", 0>>} /\ b.due = due
        /\ b.stored = 0 /\ b.passed = 1 /\ b.moved = 0 /\ b.written = 0
    BY DEF Point
  <2> HIDE DEF q, a, b
  <2>3. TestOK(lp, q, a, b)
    BY <2>1, <2>2 DEF TestOK
  <2> QED
    BY <2>1, <2>3 DEF StepOK, q, a, b
<1>4. StepOK(lp, l, Shuf("str", "str", {}), Point({<<"str", "mid", 0>>}, 0, 1, 0, 0, due),
             Point({<<"str", "done", 0>>}, 0, 1, 0, 0, due))
  BY DEF StepOK, CalculationOK, From, To, Shuf, Point, Facts, SameCounts
<1>5. StepOK(lp, l, Stor("str", 0), Point({<<"str", "done", 0>>}, 0, 1, 0, 0, due),
             Point({}, 1, 1, 0, 0, due))
  BY DEF StepOK, StorOK, Stor, Point
<1>6. StepOK(lp, l, Advance(lp.params.block, 1, 1), Point({}, 1, 1, 0, 0, due),
             Point({}, 0, 0, 0, 0, due - 1))
  BY DEF StepOK, AdvanceOK, Advance, Point
<1> QED
  BY <1>1, <1>2, <1>3, <1>4, <1>5, <1>6 DEF DecRound, DecPlan

LEMMA DecStepsX86 ==
  ASSUME NEW lp, NEW l \in Nat \ {0}, NEW due \in Nat \ {0},
         lp.op = "dec", lp.back = 0, lp.params.block \in Nat, lp.isa \in {"ssse3", "avx2"},
         OutBlock(lp) \in Nat, lp.big = FALSE, lp.restart = TRUE
  PROVE  LET o == DecRoundX86(lp.params)
             p == DecPlanX86(due)
         IN /\ StepOK(lp, l, o[1], p[1], p[2]) /\ StepOK(lp, l, o[2], p[2], p[3])
            /\ StepOK(lp, l, o[3], p[3], p[4]) /\ StepOK(lp, l, o[4], p[4], p[5])
            /\ StepOK(lp, l, o[5], p[5], p[6])
            /\ StepOK(lp, l, o[6], p[6], Point({}, 0, 0, 0, 0, due - 1))
<1>1. StepOK(lp, l, Load("raw", 0, 0), Point({}, 0, 0, 0, 0, due),
             Point({<<"raw", "raw", 0>>}, 0, 0, 0, 0, due))
  BY DEF StepOK, LoadOK, Load, Point, Facts, SameCounts, Lag
<1>2. StepOK(lp, l, Test("raw", "raw"), Point({<<"raw", "raw", 0>>}, 0, 0, 0, 0, due),
             Point({<<"raw", "raw", 0>>}, 0, 1, 0, 0, due))
  BY DEF StepOK, TestOK, Test, Point, SameCounts
<1>3. StepOK(lp, l, Tran("raw", "str", {}), Point({<<"raw", "raw", 0>>}, 0, 1, 0, 0, due),
             Point({<<"str", "mid", 0>>}, 0, 1, 0, 0, due))
  BY DEF StepOK, CalculationOK, From, To, Tran, Point, Facts, SameCounts
<1>4. StepOK(lp, l, Shuf("str", "str", {}), Point({<<"str", "mid", 0>>}, 0, 1, 0, 0, due),
             Point({<<"str", "done", 0>>}, 0, 1, 0, 0, due))
  BY DEF StepOK, CalculationOK, From, To, Shuf, Point, Facts, SameCounts
<1>5. StepOK(lp, l, Stor("str", 0), Point({<<"str", "done", 0>>}, 0, 1, 0, 0, due),
             Point({}, 1, 1, 0, 0, due))
  BY DEF StepOK, StorOK, Stor, Point
<1>6. StepOK(lp, l, Advance(lp.params.block, 1, 1), Point({}, 1, 1, 0, 0, due),
             Point({}, 0, 0, 0, 0, due - 1))
  BY DEF StepOK, AdvanceOK, Advance, Point
<1> QED
  BY <1>1, <1>2, <1>3, <1>4, <1>5, <1>6 DEF DecRoundX86, DecPlanX86

-----------------------------------------------------------------------------
(* The pipelines.                                                          *)

LEMMA LoadStep ==
  ASSUME NEW lp, NEW l \in Nat \ {0}, NEW op, NEW s, NEW t,
         op.op = "load", op.round \in Nat, op.inc = 0, op.offset = lp.back - Lag(lp),
         s.moved = 0, t.moved = 0, op.round < s.due, lp.params.block \in Nat,
         Facts(s, t, {op.to}, <<op.to, "raw", op.round>>), SameCounts(s, t)
  PROVE  StepOK(lp, l, op, s, t)
BY DEF StepOK, LoadOK

LEMMA ShufStep ==
  ASSUME NEW lp, NEW l, NEW op, NEW s, NEW t, NEW k, lp.op = "enc", op.op = "shuf",
         <<op.from, "raw", k>> \in s.facts,
         Facts(s, t, {op.to} \cup op.temps, <<op.to, "mid", k>>),
         SameCounts(s, t), t.moved = s.moved
  PROVE  StepOK(lp, l, op, s, t)
<1> DEFINE f == <<op.from, "raw", k>>
<1>1. From(lp, op) = "raw" /\ To(lp, op) = "mid"
  BY DEF From, To
<1>2. f \in s.facts /\ f[1] = op.from /\ f[2] = "raw" /\ f[3] = k
  OBVIOUS
<1> HIDE DEF f
<1>3. CalculationOK(lp, op, s, t)
  BY <1>1, <1>2 DEF CalculationOK
<1> QED
  BY <1>3 DEF StepOK

LEMMA TranStep ==
  ASSUME NEW lp, NEW l, NEW op, NEW s, NEW t, NEW k, lp.op = "enc", op.op = "tran",
         <<op.from, "mid", k>> \in s.facts,
         Facts(s, t, {op.to} \cup op.temps, <<op.to, "done", k>>),
         SameCounts(s, t), t.moved = s.moved
  PROVE  StepOK(lp, l, op, s, t)
<1> DEFINE f == <<op.from, "mid", k>>
<1>1. From(lp, op) = "mid" /\ To(lp, op) = "done"
  BY DEF From, To
<1>2. f \in s.facts /\ f[1] = op.from /\ f[2] = "mid" /\ f[3] = k
  OBVIOUS
<1> HIDE DEF f
<1>3. CalculationOK(lp, op, s, t)
  BY <1>1, <1>2 DEF CalculationOK
<1> QED
  BY <1>3 DEF StepOK

LEMMA StorStep ==
  ASSUME NEW lp, NEW l, NEW op, NEW s, NEW t, lp.op = "enc",
         op.op = "stor", op.round = s.stored, op.inc = 0,
         s.written = 0, t.written = 0, s.stored \in Nat, t.stored = s.stored + 1,
         <<op.from, "done", s.stored>> \in s.facts, OutBlock(lp) \in Nat,
         t.facts \subseteq s.facts,
         t.passed = s.passed, t.due = s.due, t.moved = s.moved
  PROVE  StepOK(lp, l, op, s, t)
BY DEF StepOK, StorOK

\* What both variants of ROUND_3 have in common: SHUF leaves its result in m1, m2
\* and m3 and uses up x1, x2 and x3, TRAN uses up y1, y2 and y3.
Round3Ops(k, offset, A, B, C, D, E, F, m1, x1, y1, m2, x2, y2, m3, x3, y3) ==
  << Load(D, k + 3, offset), Shuf(B, m1, x1), Stor(A, k),     Tran(m1, B, y1),
     Load(E, k + 4, offset), Shuf(C, m2, x2), Stor(B, k + 1), Tran(m2, C, y2),
     Load(F, k + 5, offset), Shuf(D, m3, x3), Stor(C, k + 2), Tran(m3, D, y3) >>

\* No operation of it overwrites a register that is still needed.
Unharmed(A, B, C, D, E, F, m1, x1, y1, m2, x2, y2, m3, x3, y3) ==
  /\ D \notin {A, B, C} /\ {A, C, D} \cap ({m1} \cup x1) = {}
  /\ {C, D} \cap ({B} \cup y1) = {} /\ E \notin {B, C, D}
  /\ {B, D, E} \cap ({m2} \cup x2) = {} /\ {D, E} \cap ({C} \cup y2) = {}
  /\ F \notin {C, D, E} /\ {C, E, F} \cap ({m3} \cup x3) = {}
  /\ {E, F} \cap ({D} \cup y3) = {}

LEMMA Round3Steps ==
  ASSUME NEW lp, NEW l \in Nat \ {0}, lp.op = "enc", lp.params.block \in Nat,
         OutBlock(lp) \in Nat, NEW offset, offset = lp.back - Lag(lp),
         NEW k \in Nat, NEW n \in Nat, k + 6 <= n,
         NEW A, NEW B, NEW C, NEW D, NEW E, NEW F, NEW m1, NEW x1, NEW y1,
         NEW m2, NEW x2, NEW y2, NEW m3, NEW x3, NEW y3,
         Unharmed(A, B, C, D, E, F, m1, x1, y1, m2, x2, y2, m3, x3, y3)
  PROVE  LET o == Round3Ops(k, offset, A, B, C, D, E, F, m1, x1, y1, m2, x2, y2, m3, x3, y3)
             p == Round3Plan(k, A, B, C, D, E, F, m1, m2, m3, n)
         IN /\ \A i \in 1..11 : StepOK(lp, l, o[i], p[i], p[i + 1])
            /\ StepOK(lp, l, o[12], p[12],
                 Ahead({<<D, "done", k+3>>, <<E, "raw", k+4>>, <<F, "raw", k+5>>}, k + 3, n))
<1> DEFINE o == Round3Ops(k, offset, A, B, C, D, E, F, m1, x1, y1, m2, x2, y2, m3, x3, y3)
           p == Round3Plan(k, A, B, C, D, E, F, m1, m2, m3, n)
           e == Ahead({<<D, "done", k+3>>, <<E, "raw", k+4>>, <<F, "raw", k+5>>}, k + 3, n)
<1>1. /\ o[1] = Load(D, k + 3, offset) /\ o[2] = Shuf(B, m1, x1) /\ o[3] = Stor(A, k)
      /\ o[4] = Tran(m1, B, y1) /\ o[5] = Load(E, k + 4, offset) /\ o[6] = Shuf(C, m2, x2)
      /\ o[7] = Stor(B, k + 1) /\ o[8] = Tran(m2, C, y2) /\ o[9] = Load(F, k + 5, offset)
      /\ o[10] = Shuf(D, m3, x3) /\ o[11] = Stor(C, k + 2) /\ o[12] = Tran(m3, D, y3)
  BY DEF Round3Ops
<1>2. /\ p[1] = Ahead({<<A, "done", k>>, <<B, "raw", k+1>>, <<C, "raw", k+2>>}, k, n)
      /\ p[2] = Ahead({<<A, "done", k>>, <<B, "raw", k+1>>, <<C, "raw", k+2>>, <<D, "raw", k+3>>}, k, n)
      /\ p[3] = Ahead({<<A, "done", k>>, <<m1, "mid", k+1>>, <<C, "raw", k+2>>, <<D, "raw", k+3>>}, k, n)
      /\ p[4] = Ahead({<<m1, "mid", k+1>>, <<C, "raw", k+2>>, <<D, "raw", k+3>>}, k+1, n)
      /\ p[5] = Ahead({<<B, "done", k+1>>, <<C, "raw", k+2>>, <<D, "raw", k+3>>}, k+1, n)
      /\ p[6] = Ahead({<<B, "done", k+1>>, <<C, "raw", k+2>>, <<D, "raw", k+3>>, <<E, "raw", k+4>>}, k+1, n)
      /\ p[7] = Ahead({<<B, "done", k+1>>, <<m2, "mid", k+2>>, <<D, "raw", k+3>>, <<E, "raw", k+4>>}, k+1, n)
      /\ p[8] = Ahead({<<m2, "mid", k+2>>, <<D, "raw", k+3>>, <<E, "raw", k+4>>}, k+2, n)
      /\ p[9] = Ahead({<<C, "done", k+2>>, <<D, "raw", k+3>>, <<E, "raw", k+4>>}, k+2, n)
      /\ p[10] = Ahead({<<C, "done", k+2>>, <<D, "raw", k+3>>, <<E, "raw", k+4>>, <<F, "raw", k+5>>}, k+2, n)
      /\ p[11] = Ahead({<<C, "done", k+2>>, <<m3, "mid", k+3>>, <<E, "raw", k+4>>, <<F, "raw", k+5>>}, k+2, n)
      /\ p[12] = Ahead({<<m3, "mid", k+3>>, <<E, "raw", k+4>>, <<F, "raw", k+5>>}, k+3, n)
  BY DEF Round3Plan
<1> HIDE DEF o, p, e
<1> USE <1>1, <1>2
<1>3. StepOK(lp, l, o[1], p[1], p[2])
  <2>1. /\ o[1].op = "load" /\ o[1].to = D /\ o[1].round = k + 3
        /\ o[1].inc = 0 /\ o[1].offset = offset
    BY DEF Load
  <2>2. SameCounts(p[1], p[2]) /\ p[1].moved = 0 /\ p[2].moved = 0 /\ p[1].due = n
    BY DEF SameCounts, Ahead, Point
  <2>3. Facts(p[1], p[2], {D}, <<D, "raw", k + 3>>)
    BY DEF Facts, Ahead, Point, Unharmed
  <2>4. k + 3 \in Nat /\ k + 3 < n
    OBVIOUS
  <2> QED
    BY <2>1, <2>2, <2>3, <2>4, LoadStep
<1>4. StepOK(lp, l, o[2], p[2], p[3])
  <2>1. o[2].op = "shuf" /\ o[2].from = B /\ o[2].to = m1 /\ o[2].temps = x1
    BY DEF Shuf
  <2>2. SameCounts(p[2], p[3]) /\ p[2].moved = p[3].moved /\ <<B, "raw", k + 1>> \in p[2].facts
    BY DEF SameCounts, Ahead, Point
  <2>3. Facts(p[2], p[3], {m1} \cup x1, <<m1, "mid", k + 1>>)
    BY DEF Facts, Ahead, Point, Unharmed
  <2> QED
    BY <2>1, <2>2, <2>3, ShufStep
<1>5. StepOK(lp, l, o[3], p[3], p[4])
  <2>1. o[3].op = "stor" /\ o[3].from = A /\ o[3].round = k /\ o[3].inc = 0
    BY DEF Stor
  <2>2. /\ p[3].written = 0 /\ p[4].written = 0 /\ p[3].stored = k /\ p[4].stored = k + 1
        /\ p[4].passed = p[3].passed /\ p[4].due = p[3].due /\ p[4].moved = p[3].moved
        /\ <<A, "done", k>> \in p[3].facts /\ p[4].facts \subseteq p[3].facts
    BY DEF Ahead, Point
  <2>3. k \in Nat /\ k + 1 = (k) + 1
    OBVIOUS
  <2> QED
    BY <2>1, <2>2, <2>3, StorStep
<1>6. StepOK(lp, l, o[4], p[4], p[5])
  <2>1. o[4].op = "tran" /\ o[4].from = m1 /\ o[4].to = B /\ o[4].temps = y1
    BY DEF Tran
  <2>2. SameCounts(p[4], p[5]) /\ p[4].moved = p[5].moved /\ <<m1, "mid", k + 1>> \in p[4].facts
    BY DEF SameCounts, Ahead, Point
  <2>3. Facts(p[4], p[5], {B} \cup y1, <<B, "done", k + 1>>)
    BY DEF Facts, Ahead, Point, Unharmed
  <2> QED
    BY <2>1, <2>2, <2>3, TranStep
<1>7. StepOK(lp, l, o[5], p[5], p[6])
  <2>1. /\ o[5].op = "load" /\ o[5].to = E /\ o[5].round = k + 4
        /\ o[5].inc = 0 /\ o[5].offset = offset
    BY DEF Load
  <2>2. SameCounts(p[5], p[6]) /\ p[5].moved = 0 /\ p[6].moved = 0 /\ p[5].due = n
    BY DEF SameCounts, Ahead, Point
  <2>3. Facts(p[5], p[6], {E}, <<E, "raw", k + 4>>)
    BY DEF Facts, Ahead, Point, Unharmed
  <2>4. k + 4 \in Nat /\ k + 4 < n
    OBVIOUS
  <2> QED
    BY <2>1, <2>2, <2>3, <2>4, LoadStep
<1>8. StepOK(lp, l, o[6], p[6], p[7])
  <2>1. o[6].op = "shuf" /\ o[6].from = C /\ o[6].to = m2 /\ o[6].temps = x2
    BY DEF Shuf
  <2>2. SameCounts(p[6], p[7]) /\ p[6].moved = p[7].moved /\ <<C, "raw", k + 2>> \in p[6].facts
    BY DEF SameCounts, Ahead, Point
  <2>3. Facts(p[6], p[7], {m2} \cup x2, <<m2, "mid", k + 2>>)
    BY DEF Facts, Ahead, Point, Unharmed
  <2> QED
    BY <2>1, <2>2, <2>3, ShufStep
<1>9. StepOK(lp, l, o[7], p[7], p[8])
  <2>1. o[7].op = "stor" /\ o[7].from = B /\ o[7].round = k + 1 /\ o[7].inc = 0
    BY DEF Stor
  <2>2. /\ p[7].written = 0 /\ p[8].written = 0 /\ p[7].stored = k + 1 /\ p[8].stored = k + 2
        /\ p[8].passed = p[7].passed /\ p[8].due = p[7].due /\ p[8].moved = p[7].moved
        /\ <<B, "done", k + 1>> \in p[7].facts /\ p[8].facts \subseteq p[7].facts
    BY DEF Ahead, Point
  <2>3. k + 1 \in Nat /\ k + 2 = (k + 1) + 1
    OBVIOUS
  <2> QED
    BY <2>1, <2>2, <2>3, StorStep
<1>10. StepOK(lp, l, o[8], p[8], p[9])
  <2>1. o[8].op = "tran" /\ o[8].from = m2 /\ o[8].to = C /\ o[8].temps = y2
    BY DEF Tran
  <2>2. SameCounts(p[8], p[9]) /\ p[8].moved = p[9].moved /\ <<m2, "mid", k + 2>> \in p[8].facts
    BY DEF SameCounts, Ahead, Point
  <2>3. Facts(p[8], p[9], {C} \cup y2, <<C, "done", k + 2>>)
    BY DEF Facts, Ahead, Point, Unharmed
  <2> QED
    BY <2>1, <2>2, <2>3, TranStep
<1>11. StepOK(lp, l, o[9], p[9], p[10])
  <2>1. /\ o[9].op = "load" /\ o[9].to = F /\ o[9].round = k + 5
        /\ o[9].inc = 0 /\ o[9].offset = offset
    BY DEF Load
  <2>2. SameCounts(p[9], p[10]) /\ p[9].moved = 0 /\ p[10].moved = 0 /\ p[9].due = n
    BY DEF SameCounts, Ahead, Point
  <2>3. Facts(p[9], p[10], {F}, <<F, "raw", k + 5>>)
    BY DEF Facts, Ahead, Point, Unharmed
  <2>4. k + 5 \in Nat /\ k + 5 < n
    OBVIOUS
  <2> QED
    BY <2>1, <2>2, <2>3, <2>4, LoadStep
<1>12. StepOK(lp, l, o[10], p[10], p[11])
  <2>1. o[10].op = "shuf" /\ o[10].from = D /\ o[10].to = m3 /\ o[10].temps = x3
    BY DEF Shuf
  <2>2. SameCounts(p[10], p[11]) /\ p[10].moved = p[11].moved /\ <<D, "raw", k + 3>> \in p[10].facts
    BY DEF SameCounts, Ahead, Point
  <2>3. Facts(p[10], p[11], {m3} \cup x3, <<m3, "mid", k + 3>>)
    BY DEF Facts, Ahead, Point, Unharmed
  <2> QED
    BY <2>1, <2>2, <2>3, ShufStep
<1>13. StepOK(lp, l, o[11], p[11], p[12])
  <2>1. o[11].op = "stor" /\ o[11].from = C /\ o[11].round = k + 2 /\ o[11].inc = 0
    BY DEF Stor
  <2>2. /\ p[11].written = 0 /\ p[12].written = 0 /\ p[11].stored = k + 2 /\ p[12].stored = k + 3
        /\ p[12].passed = p[11].passed /\ p[12].due = p[11].due /\ p[12].moved = p[11].moved
        /\ <<C, "done", k + 2>> \in p[11].facts /\ p[12].facts \subseteq p[11].facts
    BY DEF Ahead, Point
  <2>3. k + 2 \in Nat /\ k + 3 = (k + 2) + 1
    OBVIOUS
  <2> QED
    BY <2>1, <2>2, <2>3, StorStep
<1>14. StepOK(lp, l, o[12], p[12], e)
  <2>1. o[12].op = "tran" /\ o[12].from = m3 /\ o[12].to = D /\ o[12].temps = y3
    BY DEF Tran
  <2>2. SameCounts(p[12], e) /\ p[12].moved = e.moved /\ <<m3, "mid", k + 3>> \in p[12].facts
    BY DEF SameCounts, Ahead, Point, e
  <2>3. Facts(p[12], e, {D} \cup y3, <<D, "done", k + 3>>)
    BY DEF Facts, Ahead, Point, Unharmed, e
  <2> QED
    BY <2>1, <2>2, <2>3, TranStep
<1>15. \A i \in 1..11 : StepOK(lp, l, o[i], p[i], p[i + 1])
  BY <1>3, <1>4, <1>5, <1>6, <1>7, <1>8, <1>9, <1>10, <1>11, <1>12, <1>13
<1> QED
  BY <1>14, <1>15 DEF o, p, e

\* ROUND_3_END of both variants.
EndOps(k, D, E, F, m5, x5, y5, m6, x6, y6) ==
  << Shuf(E, m5, x5), Stor(D, k), Tran(m5, E, y5),
     Shuf(F, m6, x6), Stor(E, k + 1), Tran(m6, F, y6), Stor(F, k + 2) >>

Kept(D, E, F, m5, x5, y5, m6, x6) ==
  {D, F} \cap ({m5} \cup x5) = {} /\ F \notin {E} \cup y5 /\ E \notin {m6} \cup x6

LEMMA EndSteps ==
  ASSUME NEW lp, NEW l \in Nat \ {0}, lp.op = "enc", OutBlock(lp) \in Nat,
         NEW k \in Nat, NEW n \in Nat,
         NEW D, NEW E, NEW F, NEW m5, NEW x5, NEW y5, NEW m6, NEW x6, NEW y6,
         Kept(D, E, F, m5, x5, y5, m6, x6)
  PROVE  LET o == EndOps(k, D, E, F, m5, x5, y5, m6, x6, y6)
             p == EndPlan(k, D, E, F, m5, m6, n)
         IN /\ \A i \in 1..6 : StepOK(lp, l, o[i], p[i], p[i + 1])
            /\ StepOK(lp, l, o[7], p[7], Ahead({}, k + 3, n))
<1> DEFINE o == EndOps(k, D, E, F, m5, x5, y5, m6, x6, y6)
           p == EndPlan(k, D, E, F, m5, m6, n)
           e == Ahead({}, k + 3, n)
<1>1. /\ o[1] = Shuf(E, m5, x5) /\ o[2] = Stor(D, k) /\ o[3] = Tran(m5, E, y5)
      /\ o[4] = Shuf(F, m6, x6) /\ o[5] = Stor(E, k + 1) /\ o[6] = Tran(m6, F, y6)
      /\ o[7] = Stor(F, k + 2)
  BY DEF EndOps
<1>2. /\ p[1] = Ahead({<<D, "done", k>>, <<E, "raw", k+1>>, <<F, "raw", k+2>>}, k, n)
      /\ p[2] = Ahead({<<D, "done", k>>, <<m5, "mid", k+1>>, <<F, "raw", k+2>>}, k, n)
      /\ p[3] = Ahead({<<m5, "mid", k+1>>, <<F, "raw", k+2>>}, k+1, n)
      /\ p[4] = Ahead({<<E, "done", k+1>>, <<F, "raw", k+2>>}, k+1, n)
      /\ p[5] = Ahead({<<E, "done", k+1>>, <<m6, "mid", k+2>>}, k+1, n)
      /\ p[6] = Ahead({<<m6, "mid", k+2>>}, k+2, n)
      /\ p[7] = Ahead({<<F, "done", k+2>>}, k+2, n)
  BY DEF EndPlan
<1> HIDE DEF o, p, e
<1> USE <1>1, <1>2
<1>3. StepOK(lp, l, o[1], p[1], p[2])
  <2>1. o[1].op = "shuf" /\ o[1].from = E /\ o[1].to = m5 /\ o[1].temps = x5
    BY DEF Shuf
  <2>2. SameCounts(p[1], p[2]) /\ p[1].moved = p[2].moved /\ <<E, "raw", k + 1>> \in p[1].facts
    BY DEF SameCounts, Ahead, Point
  <2>3. Facts(p[1], p[2], {m5} \cup x5, <<m5, "mid", k + 1>>)
    BY DEF Facts, Ahead, Point, Kept
  <2> QED
    BY <2>1, <2>2, <2>3, ShufStep
<1>4. StepOK(lp, l, o[2], p[2], p[3])
  <2>1. o[2].op = "stor" /\ o[2].from = D /\ o[2].round = k /\ o[2].inc = 0
    BY DEF Stor
  <2>2. /\ p[2].written = 0 /\ p[3].written = 0 /\ p[2].stored = k /\ p[3].stored = k + 1
        /\ p[3].passed = p[2].passed /\ p[3].due = p[2].due /\ p[3].moved = p[2].moved
        /\ <<D, "done", k>> \in p[2].facts /\ p[3].facts \subseteq p[2].facts
    BY DEF Ahead, Point
  <2>3. k \in Nat /\ k + 1 = (k) + 1
    OBVIOUS
  <2> QED
    BY <2>1, <2>2, <2>3, StorStep
<1>5. StepOK(lp, l, o[3], p[3], p[4])
  <2>1. o[3].op = "tran" /\ o[3].from = m5 /\ o[3].to = E /\ o[3].temps = y5
    BY DEF Tran
  <2>2. SameCounts(p[3], p[4]) /\ p[3].moved = p[4].moved /\ <<m5, "mid", k + 1>> \in p[3].facts
    BY DEF SameCounts, Ahead, Point
  <2>3. Facts(p[3], p[4], {E} \cup y5, <<E, "done", k + 1>>)
    BY DEF Facts, Ahead, Point, Kept
  <2> QED
    BY <2>1, <2>2, <2>3, TranStep
<1>6. StepOK(lp, l, o[4], p[4], p[5])
  <2>1. o[4].op = "shuf" /\ o[4].from = F /\ o[4].to = m6 /\ o[4].temps = x6
    BY DEF Shuf
  <2>2. SameCounts(p[4], p[5]) /\ p[4].moved = p[5].moved /\ <<F, "raw", k + 2>> \in p[4].facts
    BY DEF SameCounts, Ahead, Point
  <2>3. Facts(p[4], p[5], {m6} \cup x6, <<m6, "mid", k + 2>>)
    BY DEF Facts, Ahead, Point, Kept
  <2> QED
    BY <2>1, <2>2, <2>3, ShufStep
<1>7. StepOK(lp, l, o[5], p[5], p[6])
  <2>1. o[5].op = "stor" /\ o[5].from = E /\ o[5].round = k + 1 /\ o[5].inc = 0
    BY DEF Stor
  <2>2. /\ p[5].written = 0 /\ p[6].written = 0 /\ p[5].stored = k + 1 /\ p[6].stored = k + 2
        /\ p[6].passed = p[5].passed /\ p[6].due = p[5].due /\ p[6].moved = p[5].moved
        /\ <<E, "done", k + 1>> \in p[5].facts /\ p[6].facts \subseteq p[5].facts
    BY DEF Ahead, Point
  <2>3. k + 1 \in Nat /\ k + 2 = (k + 1) + 1
    OBVIOUS
  <2> QED
    BY <2>1, <2>2, <2>3, StorStep
<1>8. StepOK(lp, l, o[6], p[6], p[7])
  <2>1. o[6].op = "tran" /\ o[6].from = m6 /\ o[6].to = F /\ o[6].temps = y6
    BY DEF Tran
  <2>2. SameCounts(p[6], p[7]) /\ p[6].moved = p[7].moved /\ <<m6, "mid", k + 2>> \in p[6].facts
    BY DEF SameCounts, Ahead, Point
  <2>3. Facts(p[6], p[7], {F} \cup y6, <<F, "done", k + 2>>)
    BY DEF Facts, Ahead, Point, Kept
  <2> QED
    BY <2>1, <2>2, <2>3, TranStep
<1>9. StepOK(lp, l, o[7], p[7], e)
  <2>1. o[7].op = "stor" /\ o[7].from = F /\ o[7].round = k + 2 /\ o[7].inc = 0
    BY DEF Stor
  <2>2. /\ p[7].written = 0 /\ e.written = 0 /\ p[7].stored = k + 2 /\ e.stored = k + 3
        /\ e.passed = p[7].passed /\ e.due = p[7].due /\ e.moved = p[7].moved
        /\ <<F, "done", k + 2>> \in p[7].facts /\ e.facts \subseteq p[7].facts
    BY DEF Ahead, Point, e
  <2> HIDE <1>1, <1>2
  <2>3. p[7].stored \in Nat /\ e.stored = p[7].stored + 1 /\ o[7].round = p[7].stored
    BY <2>1, <2>2
  <2>4. <<o[7].from, "done", p[7].stored>> \in p[7].facts
    BY <2>1, <2>2
  <2> QED
    BY <2>1, <2>2, <2>3, <2>4, StorStep
<1>10. \A i \in 1..6 : StepOK(lp, l, o[i], p[i], p[i + 1])
  BY <1>3, <1>4, <1>5, <1>6, <1>7, <1>8
<1> QED
  BY <1>9, <1>10 DEF o, p, e

-----------------------------------------------------------------------------
(* From the parts of a section to the section.                             *)

\* A part whose last operation leads to the point e.
PartOK(lp, l, ops, points, e) ==
  /\ Len(ops) \in Nat /\ Len(ops) >= 1
  /\ \A i \in 1 .. Len(ops) :
       StepOK(lp, l, ops[i], points[i], IF i < Len(ops) THEN points[i + 1] ELSE e)

LEMMA SectionFromParts ==
  ASSUME NEW lp, NEW l, NEW code, NEW plan, Len(code) \in Nat, Len(code) >= 1,
         \A m \in 1 .. Len(code) :
           PartOK(lp, l, code[m], plan[m],
                  IF m < Len(code) THEN plan[m + 1][1] ELSE Rest),
         code[Len(code)][Len(code[Len(code)])].op = "advance",
         NEW due, due \in 1 .. (IF l = 0 THEN 1 ELSE lp.labels[l]),
         plan[1][1] = Point({}, 0, 0, 0, 0, due)
  PROVE  SectionOK(lp, l, code, plan)
<1>1. ASSUME NEW m \in 1 .. Len(code)
      PROVE  /\ Len(code[m]) >= 1
             /\ \A i \in 1 .. Len(code[m]) :
                  StepOK(lp, l, code[m][i], plan[m][i], After(code, plan, m, i))
  <2>1. PartOK(lp, l, code[m], plan[m], IF m < Len(code) THEN plan[m + 1][1] ELSE Rest)
    BY <1>1
  <2>2. ASSUME NEW i \in 1 .. Len(code[m])
        PROVE  After(code, plan, m, i) =
                 IF i < Len(code[m]) THEN plan[m][i + 1]
                 ELSE IF m < Len(code) THEN plan[m + 1][1] ELSE Rest
    <3>1. Len(code[m]) \in Nat
      BY <2>1 DEF PartOK
    <3> QED
      BY <1>1, <2>2, <3>1 DEF After
  <2> QED
    BY <2>1, <2>2 DEF PartOK
<1> QED
  BY <1>1 DEF SectionOK

LEMMA FivePart ==
  ASSUME NEW lp, NEW l, NEW o, NEW p, NEW e, Len(o) = 5,
         StepOK(lp, l, o[1], p[1], p[2]), StepOK(lp, l, o[2], p[2], p[3]),
         StepOK(lp, l, o[3], p[3], p[4]), StepOK(lp, l, o[4], p[4], p[5]),
         StepOK(lp, l, o[5], p[5], e)
  PROVE  PartOK(lp, l, o, p, e)
<1>1. ASSUME NEW i \in 1..5
      PROVE  StepOK(lp, l, o[i], p[i], IF i < 5 THEN p[i + 1] ELSE e)
  <2>1. i = 1 \/ i = 2 \/ i = 3 \/ i = 4 \/ i = 5
    OBVIOUS
  <2> QED
    BY <2>1
<1> QED
  BY <1>1 DEF PartOK

LEMMA SixPart ==
  ASSUME NEW lp, NEW l, NEW o, NEW p, NEW e, Len(o) = 6,
         StepOK(lp, l, o[1], p[1], p[2]), StepOK(lp, l, o[2], p[2], p[3]),
         StepOK(lp, l, o[3], p[3], p[4]), StepOK(lp, l, o[4], p[4], p[5]),
         StepOK(lp, l, o[5], p[5], p[6]), StepOK(lp, l, o[6], p[6], e)
  PROVE  PartOK(lp, l, o, p, e)
<1>1. ASSUME NEW i \in 1..6
      PROVE  StepOK(lp, l, o[i], p[i], IF i < 6 THEN p[i + 1] ELSE e)
  <2>1. i = 1 \/ i = 2 \/ i = 3 \/ i = 4 \/ i = 5 \/ i = 6
    OBVIOUS
  <2> QED
    BY <2>1
<1> QED
  BY <1>1 DEF PartOK

\* A section that is a single part.
LEMMA OnePart ==
  ASSUME NEW lp, NEW l, NEW o, NEW p, PartOK(lp, l, o, p, Rest),
         o[Len(o)].op = "advance",
         NEW due, due \in 1 .. (IF l = 0 THEN 1 ELSE lp.labels[l]),
         p[1] = Point({}, 0, 0, 0, 0, due)
  PROVE  SectionOK(lp, l, <<o>>, <<p>>)
<1> DEFINE code == <<o>>
           plan == <<p>>
<1>1. Len(code) = 1 /\ code[1] = o /\ plan[1] = p
  OBVIOUS
<1> HIDE DEF code, plan
<1>2. \A m \in 1 .. Len(code) :
        PartOK(lp, l, code[m], plan[m], IF m < Len(code) THEN plan[m + 1][1] ELSE Rest)
  <2>1. \A m \in 1..1 : m = 1 /\ ~ (m < 1)
    OBVIOUS
  <2> QED
    BY <1>1, <2>1
<1>3. /\ Len(code) \in Nat /\ Len(code) >= 1
      /\ code[Len(code)][Len(code[Len(code)])].op = "advance"
      /\ plan[1][1] = Point({}, 0, 0, 0, 0, due)
  BY <1>1
<1>4. SectionOK(lp, l, code, plan)
  BY <1>2, <1>3, SectionFromParts
<1> QED
  BY <1>4 DEF code, plan

LEMMA OneLess ==
  ASSUME NEW size \in Nat, NEW m \in 1..size, m < size
  PROVE  /\ m + 1 \in 1..size /\ size + 1 - (m + 1) = (size + 1 - m) - 1
         /\ (size + 1 - m) - 1 \in Nat \ {0}
OBVIOUS

\* A section of rounds, one after the other: all parts are the same round, and
\* each leaves one round less to do.
LEMMA FoldSection ==
  ASSUME NEW lp, NEW l \in Nat \ {0}, NEW round, NEW size \in Nat \ {0},
         NEW PlanOf, lp.labels[l] = size,
         round[Len(round)].op = "advance",
         \A due \in Nat \ {0} :
           PartOK(lp, l, round, PlanOf[due], Point({}, 0, 0, 0, 0, due - 1)),
         \A due \in Nat \ {0} : PlanOf[due][1] = Point({}, 0, 0, 0, 0, due),
         NEW plan, \A m \in 1..size : plan[m] = PlanOf[size + 1 - m]
  PROVE  SectionOK(lp, l, Fold(round, size), plan)
<1> DEFINE code == Fold(round, size)
<1>1. Len(code) = size /\ \A m \in 1..size : code[m] = round
  BY DEF Fold
<1> HIDE DEF code
<1>2. ASSUME NEW m \in 1..size
      PROVE  PartOK(lp, l, code[m], plan[m],
                    IF m < size THEN plan[m + 1][1] ELSE Rest)
  <2>1. size + 1 - m \in Nat \ {0}
    OBVIOUS
  <2>2. PartOK(lp, l, round, PlanOf[size + 1 - m], Point({}, 0, 0, 0, 0, (size + 1 - m) - 1))
    BY <2>1
  <2>3. CASE m < size
    <3>1. m + 1 \in 1..size /\ size + 1 - (m + 1) = (size + 1 - m) - 1
          /\ (size + 1 - m) - 1 \in Nat \ {0}
      BY <2>3, OneLess
    <3>2. plan[m + 1][1] = Point({}, 0, 0, 0, 0, (size + 1 - m) - 1)
      BY <3>1
    <3> QED
      BY <1>1, <2>2, <2>3, <3>2
  <2>4. CASE ~ (m < size)
    <3>1. (size + 1 - m) - 1 = 0
      BY <2>4
    <3>2. Point({}, 0, 0, 0, 0, (size + 1 - m) - 1) = Rest
      BY <3>1 DEF Rest
    <3> QED
      BY <1>1, <2>2, <2>4, <3>2
  <2> QED
    BY <2>3, <2>4
<1>3. plan[1][1] = Point({}, 0, 0, 0, 0, size)
  <2>1. 1 \in 1..size /\ size + 1 - 1 = size
    OBVIOUS
  <2>2. plan[1] = PlanOf[size]
    BY <2>1
  <2> QED
    BY <2>2
<1>4. size \in 1 .. (IF l = 0 THEN 1 ELSE lp.labels[l])
  OBVIOUS
<1>5. code[Len(code)][Len(code[Len(code)])].op = "advance"
  <2>1. size \in 1..size
    OBVIOUS
  <2>2. code[size] = round
    BY <1>1, <2>1
  <2> QED
    BY <1>1, <2>2
<1>6. \A m \in 1 .. Len(code) :
        PartOK(lp, l, code[m], plan[m], IF m < Len(code) THEN plan[m + 1][1] ELSE Rest)
  BY <1>1, <1>2
<1>7. Len(code) \in Nat /\ Len(code) >= 1
  BY <1>1
<1> QED
  BY <1>3, <1>4, <1>5, <1>6, <1>7, SectionFromParts DEF code

-----------------------------------------------------------------------------
(* The sections of the loops in C.                                         *)

LEMMA EncRoundPart ==
  ASSUME NEW lp, NEW l \in Nat \ {0}, NEW due \in Nat \ {0},
         lp.op = "enc", lp.back = Lag(lp), Lag(lp) \in Nat, lp.params.block \in Nat,
         OutBlock(lp) \in Nat, lp.big = FALSE, lp.restart = TRUE
  PROVE  /\ PartOK(lp, l, EncRound(lp.params), EncPlan("str", "str", due),
                   Point({}, 0, 0, 0, 0, due - 1))
         /\ EncPlan("str", "str", due)[1] = Point({}, 0, 0, 0, 0, due)
<1> DEFINE o == EncOps("str", "str", 0, {}, {}, lp.params.block)
           p == EncPlan("str", "str", due)
<1>1. EncRound(lp.params) = o
  BY DEF EncRound, EncOps
<1>2. Len(o) = 5
  BY DEF EncOps
<1>3. p[1] = Point({}, 0, 0, 0, 0, due)
  BY DEF EncPlan
<1>4. EncRoundAt(lp, l, 0, due)
  BY DEF EncRoundAt
<1>5. /\ StepOK(lp, l, o[1], p[1], p[2]) /\ StepOK(lp, l, o[2], p[2], p[3])
      /\ StepOK(lp, l, o[3], p[3], p[4]) /\ StepOK(lp, l, o[4], p[4], p[5])
      /\ StepOK(lp, l, o[5], p[5], Point({}, 0, 0, 0, 0, due - 1))
  BY <1>4, EncSteps
<1> HIDE DEF o, p
<1>6. PartOK(lp, l, o, p, Point({}, 0, 0, 0, 0, due - 1))
  BY <1>2, <1>5, FivePart
<1> QED
  BY <1>1, <1>3, <1>6 DEF o, p

LEMMA DecRoundPart ==
  ASSUME NEW lp, NEW l \in Nat \ {0}, NEW due \in Nat \ {0},
         lp.op = "dec", lp.back = 0, lp.params.block \in Nat,
         OutBlock(lp) \in Nat, lp.big = FALSE, lp.restart = TRUE
  PROVE  /\ PartOK(lp, l, DecRound(lp.params), DecPlan(due),
                   Point({}, 0, 0, 0, 0, due - 1))
         /\ DecPlan(due)[1] = Point({}, 0, 0, 0, 0, due)
<1> DEFINE o == DecRound(lp.params)
           p == DecPlan(due)
<1>1. Len(o) = 6
  BY DEF DecRound
<1>2. p[1] = Point({}, 0, 0, 0, 0, due)
  BY DEF DecPlan
<1>3. /\ StepOK(lp, l, o[1], p[1], p[2]) /\ StepOK(lp, l, o[2], p[2], p[3])
      /\ StepOK(lp, l, o[3], p[3], p[4]) /\ StepOK(lp, l, o[4], p[4], p[5])
      /\ StepOK(lp, l, o[5], p[5], p[6])
      /\ StepOK(lp, l, o[6], p[6], Point({}, 0, 0, 0, 0, due - 1))
  BY DecSteps
<1> HIDE DEF o, p
<1>4. PartOK(lp, l, o, p, Point({}, 0, 0, 0, 0, due - 1))
  BY <1>1, <1>3, SixPart
<1> QED
  BY <1>2, <1>4 DEF o, p

LEMMA DecRoundX86Part ==
  ASSUME NEW lp, NEW l \in Nat \ {0}, NEW due \in Nat \ {0},
         lp.op = "dec", lp.back = 0, lp.params.block \in Nat, lp.isa \in {"ssse3", "avx2"},
         OutBlock(lp) \in Nat, lp.big = FALSE, lp.restart = TRUE
  PROVE  /\ PartOK(lp, l, DecRoundX86(lp.params), DecPlanX86(due),
                   Point({}, 0, 0, 0, 0, due - 1))
         /\ DecPlanX86(due)[1] = Point({}, 0, 0, 0, 0, due)
<1> DEFINE o == DecRoundX86(lp.params)
           p == DecPlanX86(due)
<1>1. Len(o) = 6
  BY DEF DecRoundX86
<1>2. p[1] = Point({}, 0, 0, 0, 0, due)
  BY DEF DecPlanX86
<1>3. /\ StepOK(lp, l, o[1], p[1], p[2]) /\ StepOK(lp, l, o[2], p[2], p[3])
      /\ StepOK(lp, l, o[3], p[3], p[4]) /\ StepOK(lp, l, o[4], p[4], p[5])
      /\ StepOK(lp, l, o[5], p[5], p[6])
      /\ StepOK(lp, l, o[6], p[6], Point({}, 0, 0, 0, 0, due - 1))
  BY DecStepsX86
<1> HIDE DEF o, p
<1>4. PartOK(lp, l, o, p, Point({}, 0, 0, 0, 0, due - 1))
  BY <1>1, <1>3, SixPart
<1> QED
  BY <1>2, <1>4 DEF o, p

\* The code and the plan of a label of a loop in C.
LEMMA CSection ==
  ASSUME NEW lp, NEW l \in Nat \ {0}, NEW size \in Nat \ {0}, lp.labels[l] = size,
         NEW round, lp.back = Lag(lp), Lag(lp) \in Nat, lp.params.block \in Nat,
         OutBlock(lp) \in Nat, lp.big = FALSE, lp.restart = TRUE,
         NEW plan, NEW kind \in {"enc", "decx86", "dec"},
         kind = "enc" => /\ lp.op = "enc" /\ round = EncRound(lp.params)
                         /\ \A m \in 1..size : plan[m] = EncPlan("str", "str", size + 1 - m),
         kind = "decx86" => /\ lp.op = "dec" /\ lp.isa \in {"ssse3", "avx2"}
                            /\ round = DecRoundX86(lp.params)
                            /\ \A m \in 1..size : plan[m] = DecPlanX86(size + 1 - m),
         kind = "dec" => /\ lp.op = "dec" /\ round = DecRound(lp.params)
                         /\ \A m \in 1..size : plan[m] = DecPlan(size + 1 - m)
  PROVE  SectionOK(lp, l, Fold(round, size), plan)
<1> DEFINE PlanOf == [due \in Nat \ {0} |->
                        IF kind = "enc" THEN EncPlan("str", "str", due)
                        ELSE IF kind = "decx86" THEN DecPlanX86(due) ELSE DecPlan(due)]
<1>1. lp.op = "dec" => lp.back = 0
  BY DEF Lag
<1>2. ASSUME NEW due \in Nat \ {0}
      PROVE  /\ PartOK(lp, l, round, PlanOf[due], Point({}, 0, 0, 0, 0, due - 1))
             /\ PlanOf[due][1] = Point({}, 0, 0, 0, 0, due)
  <2>1. CASE kind = "enc"
    <3>1. PlanOf[due] = EncPlan("str", "str", due)
      BY <2>1
    <3> HIDE DEF PlanOf
    <3> QED
      BY <2>1, <3>1, EncRoundPart
  <2>2. CASE kind = "decx86"
    <3>1. PlanOf[due] = DecPlanX86(due)
      BY <2>2
    <3>2. lp.op = "dec" /\ lp.back = 0 /\ lp.isa \in {"ssse3", "avx2"}
          /\ round = DecRoundX86(lp.params)
      BY <1>1, <2>2
    <3>3. /\ PartOK(lp, l, DecRoundX86(lp.params), DecPlanX86(due),
                    Point({}, 0, 0, 0, 0, due - 1))
          /\ DecPlanX86(due)[1] = Point({}, 0, 0, 0, 0, due)
      BY <3>2, DecRoundX86Part
    <3> QED
      BY <3>1, <3>2, <3>3, Zenon
  <2>3. CASE kind = "dec"
    <3>1. PlanOf[due] = DecPlan(due)
      BY <2>3
    <3> HIDE DEF PlanOf
    <3> QED
      BY <1>1, <2>3, <3>1, DecRoundPart
  <2> QED
    BY <2>1, <2>2, <2>3
<1>3. \A m \in 1..size : plan[m] = PlanOf[size + 1 - m]
  <2>1. \A m \in 1..size : size + 1 - m \in Nat \ {0}
    OBVIOUS
  <2> QED
    BY <2>1
<1>4. round[Len(round)].op = "advance"
  <2>1. EncRound(lp.params)[Len(EncRound(lp.params))].op = "advance"
    BY DEF EncRound, Advance
  <2>2. DecRound(lp.params)[Len(DecRound(lp.params))].op = "advance"
    BY DEF DecRound, Advance
  <2>3. DecRoundX86(lp.params)[Len(DecRoundX86(lp.params))].op = "advance"
    BY DEF DecRoundX86, Advance
  <2> QED
    BY <2>1, <2>2, <2>3
<1> HIDE DEF PlanOf
<1>5. /\ \A due \in Nat \ {0} :
           PartOK(lp, l, round, PlanOf[due], Point({}, 0, 0, 0, 0, due - 1))
      /\ \A due \in Nat \ {0} : PlanOf[due][1] = Point({}, 0, 0, 0, 0, due)
  BY <1>2
<1> QED
  BY <1>3, <1>4, <1>5, FoldSection, ZenonT(60)

-----------------------------------------------------------------------------
(* The sections of the pipelines.                                          *)

\* Where ROUND_3 starts, and where ROUND_3_END does.
StartPoint(k, A, B, C, n) ==
  Ahead({<<A, "done", k>>, <<B, "raw", k + 1>>, <<C, "raw", k + 2>>}, k, n)

InitOps(offset, m, x, y) ==
  << Load("a", 0, offset), Shuf("a", m, x), Load("b", 1, offset), Tran(m, "a", y),
     Load("c", 2, offset) >>

InitKept(m, x, y) == "b" \notin {m} \cup x /\ "b" \notin y

LEMMA InitPart ==
  ASSUME NEW lp, NEW l \in Nat \ {0}, lp.op = "enc", lp.params.block \in Nat,
         NEW offset, offset = lp.back - Lag(lp), NEW n \in Nat, 3 <= n,
         NEW m, NEW x, NEW y, InitKept(m, x, y)
  PROVE  /\ PartOK(lp, l, InitOps(offset, m, x, y), InitPlan(m, n),
                   StartPoint(0, "a", "b", "c", n))
         /\ InitPlan(m, n)[1] = Ahead({}, 0, n)
<1> DEFINE o == InitOps(offset, m, x, y)
           p == InitPlan(m, n)
           e == StartPoint(0, "a", "b", "c", n)
<1>1. /\ o[1] = Load("a", 0, offset) /\ o[2] = Shuf("a", m, x)
      /\ o[3] = Load("b", 1, offset) /\ o[4] = Tran(m, "a", y)
      /\ o[5] = Load("c", 2, offset) /\ Len(o) = 5
  BY DEF InitOps
<1>2. /\ p[1] = Ahead({}, 0, n) /\ p[2] = Ahead({<<"a", "raw", 0>>}, 0, n)
      /\ p[3] = Ahead({<<m, "mid", 0>>}, 0, n)
      /\ p[4] = Ahead({<<m, "mid", 0>>, <<"b", "raw", 1>>}, 0, n)
      /\ p[5] = Ahead({<<"a", "done", 0>>, <<"b", "raw", 1>>}, 0, n)
  BY DEF InitPlan
<1>3. e = Ahead({<<"a", "done", 0>>, <<"b", "raw", 1>>, <<"c", "raw", 2>>}, 0, n)
  BY DEF StartPoint
<1> HIDE DEF o, p, e
<1>4. StepOK(lp, l, o[1], p[1], p[2])
  <2>1. /\ o[1].op = "load" /\ o[1].to = "a" /\ o[1].round = 0
        /\ o[1].inc = 0 /\ o[1].offset = offset
    BY <1>1 DEF Load
  <2>2. SameCounts(p[1], p[2]) /\ p[1].moved = 0 /\ p[2].moved = 0 /\ p[1].due = n
    BY <1>2 DEF SameCounts, Ahead, Point
  <2>3. Facts(p[1], p[2], {"a"}, <<"a", "raw", 0>>)
    BY <1>2 DEF Facts, Ahead, Point
  <2> QED
    BY <2>1, <2>2, <2>3, LoadStep
<1>5. StepOK(lp, l, o[2], p[2], p[3])
  <2>1. o[2].op = "shuf" /\ o[2].from = "a" /\ o[2].to = m /\ o[2].temps = x
    BY <1>1 DEF Shuf
  <2>2. SameCounts(p[2], p[3]) /\ p[2].moved = p[3].moved /\ <<"a", "raw", 0>> \in p[2].facts
    BY <1>2 DEF SameCounts, Ahead, Point
  <2>3. Facts(p[2], p[3], {m} \cup x, <<m, "mid", 0>>)
    BY <1>2 DEF Facts, Ahead, Point
  <2> QED
    BY <2>1, <2>2, <2>3, ShufStep
<1>6. StepOK(lp, l, o[3], p[3], p[4])
  <2>1. /\ o[3].op = "load" /\ o[3].to = "b" /\ o[3].round = 1
        /\ o[3].inc = 0 /\ o[3].offset = offset
    BY <1>1 DEF Load
  <2>2. SameCounts(p[3], p[4]) /\ p[3].moved = 0 /\ p[4].moved = 0 /\ p[3].due = n
    BY <1>2 DEF SameCounts, Ahead, Point
  <2>3. Facts(p[3], p[4], {"b"}, <<"b", "raw", 1>>)
    BY <1>2 DEF Facts, Ahead, Point, InitKept
  <2> QED
    BY <2>1, <2>2, <2>3, LoadStep
<1>7. StepOK(lp, l, o[4], p[4], p[5])
  <2>1. o[4].op = "tran" /\ o[4].from = m /\ o[4].to = "a" /\ o[4].temps = y
    BY <1>1 DEF Tran
  <2>2. SameCounts(p[4], p[5]) /\ p[4].moved = p[5].moved /\ <<m, "mid", 0>> \in p[4].facts
    BY <1>2 DEF SameCounts, Ahead, Point
  <2>3. Facts(p[4], p[5], {"a"} \cup y, <<"a", "done", 0>>)
    BY <1>2 DEF Facts, Ahead, Point, InitKept
  <2> QED
    BY <2>1, <2>2, <2>3, TranStep
<1>8. StepOK(lp, l, o[5], p[5], e)
  <2>1. /\ o[5].op = "load" /\ o[5].to = "c" /\ o[5].round = 2
        /\ o[5].inc = 0 /\ o[5].offset = offset
    BY <1>1 DEF Load
  <2>2. SameCounts(p[5], e) /\ p[5].moved = 0 /\ e.moved = 0 /\ p[5].due = n
    BY <1>2, <1>3 DEF SameCounts, Ahead, Point
  <2>3. Facts(p[5], e, {"c"}, <<"c", "raw", 2>>)
    BY <1>2, <1>3 DEF Facts, Ahead, Point
  <2>4. 2 \in Nat /\ 2 < n
    OBVIOUS
  <2> QED
    BY <2>1, <2>2, <2>3, <2>4, LoadStep
<1>9. PartOK(lp, l, o, p, e)
  BY <1>1, <1>4, <1>5, <1>6, <1>7, <1>8, FivePart
<1> QED
  BY <1>2, <1>9 DEF o, p, e

\* Three rounds from round k on, with the loads of the next three ahead of them.
Round3At(lp, l, offset, k, n) ==
  /\ l \in Nat \ {0} /\ lp.op = "enc" /\ lp.params.block \in Nat
  /\ OutBlock(lp) \in Nat /\ offset = lp.back - Lag(lp)
  /\ k \in Nat /\ n \in Nat /\ k + 6 <= n

\* The last six rounds, of which the three from round h on are loaded already.
EndAt(lp, l, k, h, n) ==
  /\ l \in Nat \ {0} /\ lp.op = "enc" /\ OutBlock(lp) \in Nat
  /\ k \in Nat /\ h \in Nat /\ n \in Nat /\ h = k + 3 /\ n = k + 6

LEMMA Round3Part ==
  ASSUME NEW lp, NEW l, NEW offset, NEW k, NEW n, Round3At(lp, l, offset, k, n),
         NEW A, NEW B, NEW C, NEW D, NEW E, NEW F, NEW m1, NEW x1, NEW y1,
         NEW m2, NEW x2, NEW y2, NEW m3, NEW x3, NEW y3,
         Unharmed(A, B, C, D, E, F, m1, x1, y1, m2, x2, y2, m3, x3, y3)
  PROVE  /\ PartOK(lp, l,
              Round3Ops(k, offset, A, B, C, D, E, F, m1, x1, y1, m2, x2, y2, m3, x3, y3),
              Round3Plan(k, A, B, C, D, E, F, m1, m2, m3, n),
              StartPoint(k + 3, D, E, F, n))
         /\ Round3Plan(k, A, B, C, D, E, F, m1, m2, m3, n)[1] = StartPoint(k, A, B, C, n)
<1>0. /\ l \in Nat \ {0} /\ lp.op = "enc" /\ lp.params.block \in Nat
      /\ OutBlock(lp) \in Nat /\ offset = lp.back - Lag(lp)
      /\ k \in Nat /\ n \in Nat /\ k + 6 <= n
  BY DEF Round3At
<1> USE <1>0
<1> DEFINE o == Round3Ops(k, offset, A, B, C, D, E, F, m1, x1, y1, m2, x2, y2, m3, x3, y3)
           p == Round3Plan(k, A, B, C, D, E, F, m1, m2, m3, n)
           e == StartPoint(k + 3, D, E, F, n)
<1>1. Len(o) = 12
  BY DEF Round3Ops
<1>2. p[1] = StartPoint(k, A, B, C, n)
  BY DEF Round3Plan, StartPoint
<1>3. e = Ahead({<<D, "done", k+3>>, <<E, "raw", k+4>>, <<F, "raw", k+5>>}, k + 3, n)
  <2>1. (k + 3) + 1 = k + 4 /\ (k + 3) + 2 = k + 5
    OBVIOUS
  <2> QED
    BY <2>1 DEF StartPoint
<1>4. /\ \A i \in 1..11 : StepOK(lp, l, o[i], p[i], p[i + 1])
      /\ StepOK(lp, l, o[12], p[12], e)
  BY <1>3, Round3Steps
<1> HIDE DEF o, p, e
<1>5. ASSUME NEW i \in 1..12
      PROVE  StepOK(lp, l, o[i], p[i], IF i < 12 THEN p[i + 1] ELSE e)
  <2>1. i \in 1..11 \/ i = 12
    OBVIOUS
  <2> QED
    BY <1>4, <2>1
<1>6. PartOK(lp, l, o, p, e)
  BY <1>1, <1>5 DEF PartOK
<1> QED
  BY <1>2, <1>6 DEF o, p, e

LEMMA EndPart ==
  ASSUME NEW lp, NEW l \in Nat \ {0}, lp.op = "enc", OutBlock(lp) \in Nat,
         NEW k \in Nat, NEW n \in Nat,
         NEW D, NEW E, NEW F, NEW m5, NEW x5, NEW y5, NEW m6, NEW x6, NEW y6,
         Kept(D, E, F, m5, x5, y5, m6, x6)
  PROVE  /\ PartOK(lp, l, EndOps(k, D, E, F, m5, x5, y5, m6, x6, y6),
                   EndPlan(k, D, E, F, m5, m6, n), Ahead({}, k + 3, n))
         /\ EndPlan(k, D, E, F, m5, m6, n)[1] = StartPoint(k, D, E, F, n)
<1> DEFINE o == EndOps(k, D, E, F, m5, x5, y5, m6, x6, y6)
           p == EndPlan(k, D, E, F, m5, m6, n)
           e == Ahead({}, k + 3, n)
<1>1. Len(o) = 7
  BY DEF EndOps
<1>2. p[1] = StartPoint(k, D, E, F, n)
  BY DEF EndPlan, StartPoint
<1>3. /\ \A i \in 1..6 : StepOK(lp, l, o[i], p[i], p[i + 1])
      /\ StepOK(lp, l, o[7], p[7], e)
  BY EndSteps
<1> HIDE DEF o, p, e
<1>4. ASSUME NEW i \in 1..7
      PROVE  StepOK(lp, l, o[i], p[i], IF i < 7 THEN p[i + 1] ELSE e)
  <2>1. i \in 1..6 \/ i = 7
    OBVIOUS
  <2> QED
    BY <1>3, <2>1
<1>5. PartOK(lp, l, o, p, e)
  BY <1>1, <1>4 DEF PartOK
<1> QED
  BY <1>2, <1>5 DEF o, p, e

\* No two of six registers are the same.
Distinct(A, B, C, D, E, F) ==
  /\ A \notin {B, C, D, E, F} /\ B \notin {C, D, E, F} /\ C \notin {D, E, F}
  /\ D \notin {E, F} /\ E # F

LEMMA Round3SSSE3 ==
  ASSUME NEW lp, NEW l, NEW k, NEW n, Round3At(lp, l, 0, k, n),
         NEW A, NEW B, NEW C, NEW D, NEW E, NEW F, Distinct(A, B, C, D, E, F)
  PROVE  /\ PartOK(lp, l, ROUND_3_ssse3(k, A, B, C, D, E, F),
                   Round3Plan(k, A, B, C, D, E, F, B, C, D, n),
                   StartPoint(k + 3, D, E, F, n))
         /\ Round3Plan(k, A, B, C, D, E, F, B, C, D, n)[1] = StartPoint(k, A, B, C, n)
<1>1. ROUND_3_ssse3(k, A, B, C, D, E, F) =
        Round3Ops(k, 0, A, B, C, D, E, F, B, {E}, {E, F}, C, {A}, {A, F}, D, {A}, {A, B})
  BY DEF ROUND_3_ssse3, Round3Ops, SHUF_ssse3, TRAN_ssse3
<1>2. Unharmed(A, B, C, D, E, F, B, {E}, {E, F}, C, {A}, {A, F}, D, {A}, {A, B})
  BY DEF Unharmed, Distinct
<1>4. /\ PartOK(lp, l,
           Round3Ops(k, 0, A, B, C, D, E, F, B, {E}, {E, F}, C, {A}, {A, F}, D, {A}, {A, B}),
           Round3Plan(k, A, B, C, D, E, F, B, C, D, n),
           StartPoint(k + 3, D, E, F, n))
      /\ Round3Plan(k, A, B, C, D, E, F, B, C, D, n)[1] = StartPoint(k, A, B, C, n)
  BY <1>2, Round3Part
<1> QED
  BY <1>1, <1>4, Zenon

LEMMA Round3AVX ==
  ASSUME NEW lp, NEW l, NEW offset, NEW k, NEW n, Round3At(lp, l, offset, k, n),
         NEW A, NEW B, NEW C, NEW D, NEW E, NEW F, Distinct(A, B, C, D, E, F)
  PROVE  /\ PartOK(lp, l, ROUND_3_avx(offset, k, A, B, C, D, E, F),
                   Round3Plan(k, A, B, C, D, E, F, E, A, A, n),
                   StartPoint(k + 3, D, E, F, n))
         /\ Round3Plan(k, A, B, C, D, E, F, E, A, A, n)[1] = StartPoint(k, A, B, C, n)
<1>1. ROUND_3_avx(offset, k, A, B, C, D, E, F) =
        Round3Ops(k, offset, A, B, C, D, E, F, E, {F}, {F}, A, {F}, {F}, A, {B}, {B})
  BY DEF ROUND_3_avx, Round3Ops, SHUF_avx, TRAN_avx
<1>2. Unharmed(A, B, C, D, E, F, E, {F}, {F}, A, {F}, {F}, A, {B}, {B})
  BY DEF Unharmed, Distinct
<1>3. /\ PartOK(lp, l,
           Round3Ops(k, offset, A, B, C, D, E, F, E, {F}, {F}, A, {F}, {F}, A, {B}, {B}),
           Round3Plan(k, A, B, C, D, E, F, E, A, A, n),
           StartPoint(k + 3, D, E, F, n))
      /\ Round3Plan(k, A, B, C, D, E, F, E, A, A, n)[1] = StartPoint(k, A, B, C, n)
  BY <1>2, Round3Part
<1> QED
  BY <1>1, <1>3, Zenon

LEMMA EndSSSE3 ==
  ASSUME NEW lp, NEW l, NEW k, NEW h, NEW n, EndAt(lp, l, k, h, n),
         NEW A, NEW B, NEW C, NEW D, NEW E, NEW F, Distinct(A, B, C, D, E, F)
  PROVE  /\ PartOK(lp, l, ROUND_3_END_ssse3(k, A, B, C, D, E, F),
                   EndPlan(h, D, E, F, E, F, n), Ahead({}, n, n))
         /\ EndPlan(h, D, E, F, E, F, n)[1] = StartPoint(h, D, E, F, n)
<1>0. /\ l \in Nat \ {0} /\ lp.op = "enc" /\ OutBlock(lp) \in Nat
      /\ k \in Nat /\ h \in Nat /\ n \in Nat /\ h = k + 3 /\ n = k + 6
  BY DEF EndAt
<1> USE <1>0
<1>1. h + 1 = k + 4 /\ h + 2 = k + 5 /\ h + 3 = n
  OBVIOUS
<1>2. ROUND_3_END_ssse3(k, A, B, C, D, E, F) =
        EndOps(h, D, E, F, E, {A}, {A, B}, F, {C}, {C, D})
  BY <1>1 DEF ROUND_3_END_ssse3, EndOps, SHUF_ssse3, TRAN_ssse3
<1>3. Kept(D, E, F, E, {A}, {A, B}, F, {C})
  BY DEF Kept, Distinct
<1>4. /\ PartOK(lp, l, EndOps(h, D, E, F, E, {A}, {A, B}, F, {C}, {C, D}),
                EndPlan(h, D, E, F, E, F, n), Ahead({}, h + 3, n))
      /\ EndPlan(h, D, E, F, E, F, n)[1] = StartPoint(h, D, E, F, n)
  BY <1>3, EndPart
<1> QED
  BY <1>1, <1>2, <1>4, Zenon

LEMMA EndAVX ==
  ASSUME NEW lp, NEW l, NEW k, NEW h, NEW n, EndAt(lp, l, k, h, n),
         NEW A, NEW B, NEW C, NEW D, NEW E, NEW F, Distinct(A, B, C, D, E, F)
  PROVE  /\ PartOK(lp, l, ROUND_3_END_avx(k, A, B, C, D, E, F),
                   EndPlan(h, D, E, F, A, C, n), Ahead({}, n, n))
         /\ EndPlan(h, D, E, F, A, C, n)[1] = StartPoint(h, D, E, F, n)
<1>0. /\ l \in Nat \ {0} /\ lp.op = "enc" /\ OutBlock(lp) \in Nat
      /\ k \in Nat /\ h \in Nat /\ n \in Nat /\ h = k + 3 /\ n = k + 6
  BY DEF EndAt
<1> USE <1>0
<1>1. h + 1 = k + 4 /\ h + 2 = k + 5 /\ h + 3 = n
  OBVIOUS
<1>2. ROUND_3_END_avx(k, A, B, C, D, E, F) =
        EndOps(h, D, E, F, A, {B}, {B}, C, {D}, {D})
  BY <1>1 DEF ROUND_3_END_avx, EndOps, SHUF_avx, TRAN_avx
<1>3. Kept(D, E, F, A, {B}, {B}, C, {D})
  BY DEF Kept, Distinct
<1>4. /\ PartOK(lp, l, EndOps(h, D, E, F, A, {B}, {B}, C, {D}, {D}),
                EndPlan(h, D, E, F, A, C, n), Ahead({}, h + 3, n))
      /\ EndPlan(h, D, E, F, A, C, n)[1] = StartPoint(h, D, E, F, n)
  BY <1>3, EndPart
<1> QED
  BY <1>1, <1>2, <1>4, Zenon

LEMMA Parity ==
  ASSUME NEW j \in Nat
  PROVE  (j % 2 = 0 => (j + 1) % 2 # 0) /\ (j % 2 # 0 => (j + 1) % 2 = 0)
OBVIOUS

\* The parts of an unrolled section.
Unrolled(code, init, macros, last, end, advance) ==
  code = Section(init, macros, last, end, advance)

HasParts(code, init, macros, last, end, advance) ==
  /\ code[1] = init /\ \A j \in 0..last : code[j + 2] = macros[j]
  /\ code[last + 3] = end /\ code[last + 4] = <<advance>>
  /\ Len(code) = last + 4

LEMMA SectionParts ==
  ASSUME NEW init, NEW macros, NEW last \in Nat, NEW end, NEW advance,
         NEW code, Unrolled(code, init, macros, last, end, advance)
  PROVE  HasParts(code, init, macros, last, end, advance)
<1>1. code[1] = init
  BY DEF Section, Unrolled
<1>2. code[last + 3] = end
  BY DEF Section, Unrolled
<1>3. code[last + 4] = <<advance>>
  BY DEF Section, Unrolled
<1>4. ASSUME NEW j \in 0..last
      PROVE  code[j + 2] = macros[j]
  <2>1. j + 2 \in 2 .. last + 2 /\ (j + 2) - 2 = j
    OBVIOUS
  <2> QED
    BY <2>1 DEF Section, Unrolled
<1>5. Len(code) = last + 4
  BY DEF Section, Unrolled
<1> QED
  BY <1>1, <1>2, <1>3, <1>4, <1>5 DEF HasParts

\* From the macros of a pipeline to the section.
PipelineOK(lp, l, code, plan, last, n, bytes) ==
  /\ Len(code) = last + 4
  /\ \A m \in 1 .. last + 2 : PartOK(lp, l, code[m], plan[m], plan[m + 1][1])
  /\ PartOK(lp, l, code[last + 3], plan[last + 3], Ahead({}, n, n))
  /\ code[last + 4] = <<Advance(bytes, n, n)>>
  /\ plan[last + 4] = <<Ahead({}, n, n)>>
  /\ plan[1][1] = Ahead({}, 0, n)

LEMMA PipelineSection ==
  ASSUME NEW lp, NEW l \in Nat \ {0}, NEW last \in Nat, NEW n \in Nat, n = 3 * last + 6,
         lp.op = "enc", lp.labels[l] = n, l > 1 => lp.labels[l - 1] <= n + n,
         lp.params.block \in Nat,
         NEW bytes, bytes = n * lp.params.block, NEW code, NEW plan,
         PipelineOK(lp, l, code, plan, last, n, bytes)
  PROVE  SectionOK(lp, l, code, plan)
<1> USE DEF PipelineOK
<1> DEFINE op == Advance(bytes, n, n)
           s == Ahead({}, n, n)
<1>1. StepOK(lp, l, op, s, Rest)
  <2>1. op.op = "advance" /\ op.n = n /\ op.bytes = bytes /\ op.blocks = n
    BY DEF Advance
  <2>2. s.stored = n /\ s.due = n /\ s.written = 0 /\ s.moved = 0
    BY DEF Ahead, Point
  <2>3. Rest = Point({}, 0, 0, 0, 0, n - n)
    BY DEF Rest
  <2>4. l = 1 => lp.labels[1] = n
    OBVIOUS
  <2>5. bytes = (n - 0) * lp.params.block - (IF l = 0 THEN lp.back ELSE 0) /\ n = n - 0
    OBVIOUS
  <2> HIDE DEF op, s
  <2>6. AdvanceOK(lp, l, op, s, Rest)
    BY <2>1, <2>2, <2>3, <2>4, <2>5 DEF AdvanceOK
  <2> QED
    BY <2>1, <2>6 DEF StepOK
<1> HIDE DEF op, s
<1>2. PartOK(lp, l, <<op>>, <<s>>, Rest)
  BY <1>1 DEF PartOK
<1>3. ASSUME NEW m \in 1 .. last + 4
      PROVE  PartOK(lp, l, code[m], plan[m], IF m < last + 4 THEN plan[m + 1][1] ELSE Rest)
  <2>1. CASE m \in 1 .. last + 2
    BY <2>1
  <2>2. CASE m = last + 3
    <3>1. m < last + 4 /\ m + 1 = last + 4
      BY <2>2
    <3>2. plan[last + 4][1] = Ahead({}, n, n)
      OBVIOUS
    <3> QED
      BY <2>2, <3>1, <3>2
  <2>3. CASE m = last + 4
    <3>1. code[m] = <<op>> /\ plan[m] = <<s>> /\ ~ (m < last + 4)
      BY <2>3 DEF op, s
    <3> QED
      BY <1>2, <3>1
  <2> QED
    BY <2>1, <2>2, <2>3
<1>4. code[last + 4][Len(code[last + 4])].op = "advance"
  BY DEF Advance
<1>5. plan[1][1] = Point({}, 0, 0, 0, 0, n)
  BY DEF Ahead
<1>6. n \in 1 .. (IF l = 0 THEN 1 ELSE lp.labels[l])
  OBVIOUS
<1>7. /\ Len(code) \in Nat /\ Len(code) >= 1
      /\ code[Len(code)][Len(code[Len(code)])].op = "advance"
      /\ \A m \in 1 .. Len(code) :
           PartOK(lp, l, code[m], plan[m], IF m < Len(code) THEN plan[m + 1][1] ELSE Rest)
  BY <1>3, <1>4
<1> QED
  BY <1>5, <1>6, <1>7, SectionFromParts

LEMMA SectionSSSE3 ==
  ASSUME NEW lp, NEW l \in Nat \ {0}, NEW last \in Nat, NEW n \in Nat, n = 3 * last + 6,
         lp.op = "enc", lp.labels[l] = n, l > 1 => lp.labels[l - 1] <= n + n,
         lp.params.block \in Nat, OutBlock(lp) \in Nat,
         12 * n = n * lp.params.block, lp.back - Lag(lp) = 0
  PROVE  SectionOK(lp, l, Section_ssse3(n), PipelinePlan_ssse3(n))
<1> DEFINE macros == [j \in 0..last |->
                       IF j % 2 = 0 THEN ROUND_3_ssse3(3*j, "a", "b", "c", "d", "e", "f")
                                    ELSE ROUND_3_ssse3(3*j, "d", "e", "f", "a", "b", "c")]
           end == IF last % 2 = 0 THEN ROUND_3_END_ssse3(3*last, "a", "b", "c", "d", "e", "f")
                                  ELSE ROUND_3_END_ssse3(3*last, "d", "e", "f", "a", "b", "c")
           points == [j \in 0..last |->
                        IF j % 2 = 0
                        THEN Round3Plan(3*j, "a", "b", "c", "d", "e", "f", "b", "c", "d", n)
                        ELSE Round3Plan(3*j, "d", "e", "f", "a", "b", "c", "e", "f", "a", n)]
           ends == IF last % 2 = 0 THEN EndPlan(3*last + 3, "d", "e", "f", "e", "f", n)
                                   ELSE EndPlan(3*last + 3, "a", "b", "c", "b", "c", n)
           Start(j) == IF j % 2 = 0 THEN StartPoint(3*j, "a", "b", "c", n)
                                   ELSE StartPoint(3*j, "d", "e", "f", n)
           code == Section_ssse3(n)
           plan == PipelinePlan_ssse3(n)
<1>1. last = n \div 3 - 2
  OBVIOUS
<1>2. /\ Unrolled(code, ROUND_3_INIT_ssse3, macros, last, end, Advance(12 * n, n, n))
      /\ Unrolled(plan, InitPlan("a", n), points, last, ends, Ahead({}, n, n))
  BY <1>1 DEF Section_ssse3, PipelinePlan_ssse3, Unrolled
<1> HIDE DEF code, plan
<1>3. ASSUME NEW j \in 0..last
      PROVE  /\ PartOK(lp, l, macros[j], points[j], Start(j + 1))
             /\ points[j][1] = Start(j)
  <2>1. 3*j \in Nat /\ 3*j + 6 <= n /\ 3*(j + 1) = 3*j + 3
    OBVIOUS
  <2>5. Round3At(lp, l, 0, 3*j, n)
    BY <2>1 DEF Round3At
  <2>2. CASE j % 2 = 0
    <3>1. (j + 1) % 2 # 0
      BY <2>2, Parity
    <3>2. Distinct("a", "b", "c", "d", "e", "f")
      BY DEF Distinct
    <3>3. /\ PartOK(lp, l, ROUND_3_ssse3(3*j, "a", "b", "c", "d", "e", "f"),
                    Round3Plan(3*j, "a", "b", "c", "d", "e", "f", "b", "c", "d", n),
                    StartPoint(3*j + 3, "d", "e", "f", n))
          /\ Round3Plan(3*j, "a", "b", "c", "d", "e", "f", "b", "c", "d", n)[1]
               = StartPoint(3*j, "a", "b", "c", n)
      BY <2>5, <3>2, Round3SSSE3
    <3> QED
      BY <2>1, <2>2, <3>1, <3>3
  <2>3. CASE j % 2 # 0
    <3>1. (j + 1) % 2 = 0
      BY <2>3, Parity
    <3>2. Distinct("d", "e", "f", "a", "b", "c")
      BY DEF Distinct
    <3>3. /\ PartOK(lp, l, ROUND_3_ssse3(3*j, "d", "e", "f", "a", "b", "c"),
                    Round3Plan(3*j, "d", "e", "f", "a", "b", "c", "e", "f", "a", n),
                    StartPoint(3*j + 3, "a", "b", "c", n))
          /\ Round3Plan(3*j, "d", "e", "f", "a", "b", "c", "e", "f", "a", n)[1]
               = StartPoint(3*j, "d", "e", "f", n)
      BY <2>5, <3>2, Round3SSSE3
    <3> QED
      BY <2>1, <2>3, <3>1, <3>3
  <2> QED
    BY <2>2, <2>3
<1>4. PartOK(lp, l, end, ends, Ahead({}, n, n)) /\ ends[1] = Start(last + 1)
  <2> DEFINE k == 3*last
             h == 3*last + 3
  <2>1. k \in Nat /\ h \in Nat /\ h = k + 3 /\ n = k + 6 /\ 3*(last + 1) = h
    OBVIOUS
  <2> HIDE DEF k, h
  <2>5. EndAt(lp, l, k, h, n)
    BY <2>1 DEF EndAt
  <2>2. CASE last % 2 = 0
    <3>1. (last + 1) % 2 # 0
      BY <2>2, Parity
    <3>2. Distinct("a", "b", "c", "d", "e", "f")
      BY DEF Distinct
    <3>3. /\ PartOK(lp, l, ROUND_3_END_ssse3(k, "a", "b", "c", "d", "e", "f"), EndPlan(h, "d", "e", "f", "e", "f", n),
                    Ahead({}, n, n))
          /\ EndPlan(h, "d", "e", "f", "e", "f", n)[1] = StartPoint(h, "d", "e", "f", n)
      BY <2>5, <3>2, EndSSSE3
    <3> QED
      BY <2>1, <2>2, <3>1, <3>3 DEF k, h
  <2>3. CASE last % 2 # 0
    <3>1. (last + 1) % 2 = 0
      BY <2>3, Parity
    <3>2. Distinct("d", "e", "f", "a", "b", "c")
      BY DEF Distinct
    <3>3. /\ PartOK(lp, l, ROUND_3_END_ssse3(k, "d", "e", "f", "a", "b", "c"), EndPlan(h, "a", "b", "c", "b", "c", n),
                    Ahead({}, n, n))
          /\ EndPlan(h, "a", "b", "c", "b", "c", n)[1] = StartPoint(h, "a", "b", "c", n)
      BY <2>5, <3>2, EndSSSE3
    <3> QED
      BY <2>1, <2>3, <3>1, <3>3 DEF k, h
  <2> QED
    BY <2>2, <2>3
<1>5. /\ PartOK(lp, l, ROUND_3_INIT_ssse3, InitPlan("a", n), Start(0))
      /\ InitPlan("a", n)[1] = Ahead({}, 0, n)
  <2>1. ROUND_3_INIT_ssse3 = InitOps(0, "a", {"d"}, {"d", "e"})
    BY DEF ROUND_3_INIT_ssse3, InitOps, SHUF_ssse3, TRAN_ssse3
  <2>2. 0 = lp.back - Lag(lp) /\ 3 <= n
    OBVIOUS
  <2>5. InitKept("a", {"d"}, {"d", "e"})
    BY DEF InitKept
  <2>3. /\ PartOK(lp, l, InitOps(0, "a", {"d"}, {"d", "e"}), InitPlan("a", n),
                  StartPoint(0, "a", "b", "c", n))
        /\ InitPlan("a", n)[1] = Ahead({}, 0, n)
    BY <2>2, <2>5, InitPart
  <2>4. Start(0) = StartPoint(0, "a", "b", "c", n)
    OBVIOUS
  <2> QED
    BY <2>1, <2>3, <2>4, Zenon
<1> HIDE DEF macros, points, end, ends, Start
<1>6. /\ HasParts(code, ROUND_3_INIT_ssse3, macros, last, end, Advance(12 * n, n, n))
       /\ HasParts(plan, InitPlan("a", n), points, last, ends, Ahead({}, n, n))
  BY <1>2, SectionParts
<1>7. /\ code[1] = ROUND_3_INIT_ssse3 /\ \A j \in 0..last : code[j + 2] = macros[j]
      /\ code[last + 3] = end /\ code[last + 4] = <<Advance(12 * n, n, n)>>
      /\ Len(code) = last + 4
  BY <1>6 DEF HasParts
<1>8. /\ plan[1] = InitPlan("a", n) /\ \A j \in 0..last : plan[j + 2] = points[j]
      /\ plan[last + 3] = ends /\ plan[last + 4] = <<Ahead({}, n, n)>>
  BY <1>6 DEF HasParts
<1>9. ASSUME NEW m \in 1 .. last + 2
      PROVE  PartOK(lp, l, code[m], plan[m], plan[m + 1][1])
  <2>1. CASE m = 1
    <3>1. 0 \in 0..last /\ m + 1 = 0 + 2
      BY <2>1
    <3>2. plan[m + 1][1] = Start(0)
      BY <1>3, <1>8, <3>1
    <3> QED
      BY <1>5, <1>7, <1>8, <2>1, <3>2
  <2>2. CASE m \in 2 .. last + 1
    <3> DEFINE j == m - 2
    <3>1. j \in 0..last /\ j + 1 \in 0..last /\ m = j + 2 /\ m + 1 = (j + 1) + 2
      BY <2>2
    <3> HIDE DEF j
    <3>2. plan[m + 1][1] = Start(j + 1)
      BY <1>3, <1>8, <3>1
    <3> QED
      BY <1>3, <1>7, <1>8, <3>1, <3>2
  <2>3. CASE m = last + 2
    <3>1. last \in 0..last /\ m + 1 = last + 3
      BY <2>3
    <3>2. plan[m + 1][1] = Start(last + 1)
      BY <1>4, <1>8, <3>1
    <3> QED
      BY <1>3, <1>7, <1>8, <2>3, <3>1, <3>2
  <2> QED
    BY <2>1, <2>2, <2>3
<1>10. PartOK(lp, l, code[last + 3], plan[last + 3], Ahead({}, n, n)) /\ plan[1][1] = Ahead({}, 0, n)
  BY <1>4, <1>5, <1>7, <1>8
<1>11. PipelineOK(lp, l, code, plan, last, n, 12 * n)
  BY <1>7, <1>8, <1>9, <1>10 DEF PipelineOK
<1>12. SectionOK(lp, l, code, plan)
  BY <1>11, PipelineSection
<1> QED
  BY <1>12 DEF code, plan

LEMMA SectionAVX ==
  ASSUME NEW lp, NEW l \in Nat \ {0}, NEW last \in Nat, NEW n \in Nat, n = 3 * last + 6,
         lp.op = "enc", lp.labels[l] = n, l > 1 => lp.labels[l - 1] <= n + n,
         lp.params.block \in Nat, OutBlock(lp) \in Nat,
         NEW bytes, bytes * n = n * lp.params.block,
         NEW offset, offset = lp.back - Lag(lp)
  PROVE  SectionOK(lp, l, Section_avx(bytes, offset, n), PipelinePlan_avx(n))
<1> DEFINE macros == [j \in 0..last |->
                       IF j % 2 = 0 THEN ROUND_3_avx(offset, 3*j, "a", "b", "c", "d", "e", "f")
                                    ELSE ROUND_3_avx(offset, 3*j, "d", "e", "f", "a", "b", "c")]
           end == IF last % 2 = 0 THEN ROUND_3_END_avx(3*last, "a", "b", "c", "d", "e", "f")
                                  ELSE ROUND_3_END_avx(3*last, "d", "e", "f", "a", "b", "c")
           points == [j \in 0..last |->
                        IF j % 2 = 0
                        THEN Round3Plan(3*j, "a", "b", "c", "d", "e", "f", "e", "a", "a", n)
                        ELSE Round3Plan(3*j, "d", "e", "f", "a", "b", "c", "b", "d", "d", n)]
           ends == IF last % 2 = 0 THEN EndPlan(3*last + 3, "d", "e", "f", "a", "c", n)
                                   ELSE EndPlan(3*last + 3, "a", "b", "c", "d", "f", n)
           Start(j) == IF j % 2 = 0 THEN StartPoint(3*j, "a", "b", "c", n)
                                   ELSE StartPoint(3*j, "d", "e", "f", n)
           code == Section_avx(bytes, offset, n)
           plan == PipelinePlan_avx(n)
<1>1. last = n \div 3 - 2
  OBVIOUS
<1>2. /\ Unrolled(code, ROUND_3_INIT_avx(offset), macros, last, end, Advance(bytes * n, n, n))
      /\ Unrolled(plan, InitPlan("d", n), points, last, ends, Ahead({}, n, n))
  BY <1>1 DEF Section_avx, PipelinePlan_avx, Unrolled
<1> HIDE DEF code, plan
<1>3. ASSUME NEW j \in 0..last
      PROVE  /\ PartOK(lp, l, macros[j], points[j], Start(j + 1))
             /\ points[j][1] = Start(j)
  <2>1. 3*j \in Nat /\ 3*j + 6 <= n /\ 3*(j + 1) = 3*j + 3
    OBVIOUS
  <2>5. Round3At(lp, l, offset, 3*j, n)
    BY <2>1 DEF Round3At
  <2>2. CASE j % 2 = 0
    <3>1. (j + 1) % 2 # 0
      BY <2>2, Parity
    <3>2. Distinct("a", "b", "c", "d", "e", "f")
      BY DEF Distinct
    <3>3. /\ PartOK(lp, l, ROUND_3_avx(offset, 3*j, "a", "b", "c", "d", "e", "f"),
                    Round3Plan(3*j, "a", "b", "c", "d", "e", "f", "e", "a", "a", n),
                    StartPoint(3*j + 3, "d", "e", "f", n))
          /\ Round3Plan(3*j, "a", "b", "c", "d", "e", "f", "e", "a", "a", n)[1]
               = StartPoint(3*j, "a", "b", "c", n)
      BY <2>5, <3>2, Round3AVX
    <3> QED
      BY <2>1, <2>2, <3>1, <3>3
  <2>3. CASE j % 2 # 0
    <3>1. (j + 1) % 2 = 0
      BY <2>3, Parity
    <3>2. Distinct("d", "e", "f", "a", "b", "c")
      BY DEF Distinct
    <3>3. /\ PartOK(lp, l, ROUND_3_avx(offset, 3*j, "d", "e", "f", "a", "b", "c"),
                    Round3Plan(3*j, "d", "e", "f", "a", "b", "c", "b", "d", "d", n),
                    StartPoint(3*j + 3, "a", "b", "c", n))
          /\ Round3Plan(3*j, "d", "e", "f", "a", "b", "c", "b", "d", "d", n)[1]
               = StartPoint(3*j, "d", "e", "f", n)
      BY <2>5, <3>2, Round3AVX
    <3> QED
      BY <2>1, <2>3, <3>1, <3>3
  <2> QED
    BY <2>2, <2>3
<1>4. PartOK(lp, l, end, ends, Ahead({}, n, n)) /\ ends[1] = Start(last + 1)
  <2> DEFINE k == 3*last
             h == 3*last + 3
  <2>1. k \in Nat /\ h \in Nat /\ h = k + 3 /\ n = k + 6 /\ 3*(last + 1) = h
    OBVIOUS
  <2> HIDE DEF k, h
  <2>5. EndAt(lp, l, k, h, n)
    BY <2>1 DEF EndAt
  <2>2. CASE last % 2 = 0
    <3>1. (last + 1) % 2 # 0
      BY <2>2, Parity
    <3>2. Distinct("a", "b", "c", "d", "e", "f")
      BY DEF Distinct
    <3>3. /\ PartOK(lp, l, ROUND_3_END_avx(k, "a", "b", "c", "d", "e", "f"), EndPlan(h, "d", "e", "f", "a", "c", n),
                    Ahead({}, n, n))
          /\ EndPlan(h, "d", "e", "f", "a", "c", n)[1] = StartPoint(h, "d", "e", "f", n)
      BY <2>5, <3>2, EndAVX
    <3> QED
      BY <2>1, <2>2, <3>1, <3>3 DEF k, h
  <2>3. CASE last % 2 # 0
    <3>1. (last + 1) % 2 = 0
      BY <2>3, Parity
    <3>2. Distinct("d", "e", "f", "a", "b", "c")
      BY DEF Distinct
    <3>3. /\ PartOK(lp, l, ROUND_3_END_avx(k, "d", "e", "f", "a", "b", "c"), EndPlan(h, "a", "b", "c", "d", "f", n),
                    Ahead({}, n, n))
          /\ EndPlan(h, "a", "b", "c", "d", "f", n)[1] = StartPoint(h, "a", "b", "c", n)
      BY <2>5, <3>2, EndAVX
    <3> QED
      BY <2>1, <2>3, <3>1, <3>3 DEF k, h
  <2> QED
    BY <2>2, <2>3
<1>5. /\ PartOK(lp, l, ROUND_3_INIT_avx(offset), InitPlan("d", n), Start(0))
      /\ InitPlan("d", n)[1] = Ahead({}, 0, n)
  <2>1. ROUND_3_INIT_avx(offset) = InitOps(offset, "d", {"e"}, {"e"})
    BY DEF ROUND_3_INIT_avx, InitOps, SHUF_avx, TRAN_avx
  <2>2. offset = lp.back - Lag(lp) /\ 3 <= n
    OBVIOUS
  <2>5. InitKept("d", {"e"}, {"e"})
    BY DEF InitKept
  <2>3. /\ PartOK(lp, l, InitOps(offset, "d", {"e"}, {"e"}), InitPlan("d", n),
                  StartPoint(0, "a", "b", "c", n))
        /\ InitPlan("d", n)[1] = Ahead({}, 0, n)
    BY <2>2, <2>5, InitPart
  <2>4. Start(0) = StartPoint(0, "a", "b", "c", n)
    OBVIOUS
  <2> QED
    BY <2>1, <2>3, <2>4, Zenon
<1> HIDE DEF macros, points, end, ends, Start
<1>6. /\ HasParts(code, ROUND_3_INIT_avx(offset), macros, last, end, Advance(bytes * n, n, n))
       /\ HasParts(plan, InitPlan("d", n), points, last, ends, Ahead({}, n, n))
  BY <1>2, SectionParts
<1>7. /\ code[1] = ROUND_3_INIT_avx(offset) /\ \A j \in 0..last : code[j + 2] = macros[j]
      /\ code[last + 3] = end /\ code[last + 4] = <<Advance(bytes * n, n, n)>>
      /\ Len(code) = last + 4
  BY <1>6 DEF HasParts
<1>8. /\ plan[1] = InitPlan("d", n) /\ \A j \in 0..last : plan[j + 2] = points[j]
      /\ plan[last + 3] = ends /\ plan[last + 4] = <<Ahead({}, n, n)>>
  BY <1>6 DEF HasParts
<1>9. ASSUME NEW m \in 1 .. last + 2
      PROVE  PartOK(lp, l, code[m], plan[m], plan[m + 1][1])
  <2>1. CASE m = 1
    <3>1. 0 \in 0..last /\ m + 1 = 0 + 2
      BY <2>1
    <3>2. plan[m + 1][1] = Start(0)
      BY <1>3, <1>8, <3>1
    <3> QED
      BY <1>5, <1>7, <1>8, <2>1, <3>2
  <2>2. CASE m \in 2 .. last + 1
    <3> DEFINE j == m - 2
    <3>1. j \in 0..last /\ j + 1 \in 0..last /\ m = j + 2 /\ m + 1 = (j + 1) + 2
      BY <2>2
    <3> HIDE DEF j
    <3>2. plan[m + 1][1] = Start(j + 1)
      BY <1>3, <1>8, <3>1
    <3> QED
      BY <1>3, <1>7, <1>8, <3>1, <3>2
  <2>3. CASE m = last + 2
    <3>1. last \in 0..last /\ m + 1 = last + 3
      BY <2>3
    <3>2. plan[m + 1][1] = Start(last + 1)
      BY <1>4, <1>8, <3>1
    <3> QED
      BY <1>3, <1>7, <1>8, <2>3, <3>1, <3>2
  <2> QED
    BY <2>1, <2>2, <2>3
<1>10. PartOK(lp, l, code[last + 3], plan[last + 3], Ahead({}, n, n)) /\ plan[1][1] = Ahead({}, 0, n)
  BY <1>4, <1>5, <1>7, <1>8
<1>11. PipelineOK(lp, l, code, plan, last, n, bytes * n)
  BY <1>7, <1>8, <1>9, <1>10 DEF PipelineOK
<1>12. SectionOK(lp, l, code, plan)
  BY <1>11, PipelineSection
<1> QED
  BY <1>12 DEF code, plan

-----------------------------------------------------------------------------
(* The sections of neon64.                                                 *)

LEMMA LoadStepNeon ==
  ASSUME NEW lp, NEW l \in Nat \ {0}, NEW bank, NEW s, NEW t,
         lp.back - Lag(lp) = 0, lp.params.block = 48,
         s.moved \in Nat, t.moved = s.moved + 1, s.due \in Nat, s.moved < s.due,
         Facts(s, t, {bank}, <<bank, "raw", s.moved>>), SameCounts(s, t)
  PROVE  StepOK(lp, l, LOAD_neon64(bank), s, t)
<1> DEFINE op == LOAD_neon64(bank)
<1>1. /\ op.op = "load" /\ op.to = bank /\ op.round = 0 /\ op.offset = 0 /\ op.inc = 48
  BY DEF LOAD_neon64, Load
<1> HIDE DEF op
<1>2. s.moved + op.round = s.moved /\ op.inc = (t.moved - s.moved) * lp.params.block
  BY <1>1
<1>3. LoadOK(lp, l, op, s, t)
  BY <1>1, <1>2 DEF LoadOK
<1> QED
  BY <1>1, <1>3 DEF StepOK, op

LEMMA StorStepNeon ==
  ASSUME NEW lp, NEW l, NEW bank, NEW s, NEW t, lp.op = "enc", OutBlock(lp) = 64,
         s.stored \in Nat, s.written = s.stored,
         t.written = s.stored + 1, t.stored = s.stored + 1,
         <<bank, "done", s.stored>> \in s.facts, t.facts \subseteq s.facts,
         t.passed = s.passed, t.due = s.due, t.moved = s.moved
  PROVE  StepOK(lp, l, STOR_neon64(bank), s, t)
<1> DEFINE op == STOR_neon64(bank)
<1>1. op.op = "stor" /\ op.from = bank /\ op.round = 0 /\ op.inc = 64
  BY DEF STOR_neon64, Stor
<1> HIDE DEF op
<1>2. s.written + op.round = s.stored /\ op.inc = (t.written - s.written) * OutBlock(lp)
  BY <1>1
<1>3. StorOK(lp, op, s, t)
  BY <1>1, <1>2 DEF StorOK
<1> QED
  BY <1>1, <1>3 DEF StepOK, op

LEMMA AdvanceStepNeon ==
  ASSUME NEW lp, NEW l \in Nat \ {0}, NEW n \in Nat, n > 0, NEW s, lp.op = "enc",
         lp.params.block = 48, lp.labels[l] = n, l > 1 => lp.labels[l - 1] <= n + n,
         s.stored = n, s.moved = n, s.written = n, s.due = n
  PROVE  StepOK(lp, l, Advance(0, 0, n), s, Rest)
<1> DEFINE op == Advance(0, 0, n)
<1>1. op.op = "advance" /\ op.n = n /\ op.bytes = 0 /\ op.blocks = 0
  BY DEF Advance
<1>2. Rest = Point({}, 0, 0, 0, 0, n - n)
  BY DEF Rest
<1>3. l = 1 => lp.labels[1] = n
  OBVIOUS
<1>4. 0 = (n - n) * 48 - (IF l = 0 THEN lp.back ELSE 0) /\ 0 = n - n
  OBVIOUS
<1> HIDE DEF op
<1>5. AdvanceOK(lp, l, op, s, Rest)
  BY <1>1, <1>2, <1>3, <1>4 DEF AdvanceOK
<1> QED
  BY <1>1, <1>5 DEF StepOK, op

\* Where a round of neon64 starts.
StartNeon(bank, k, n) == Point({<<bank, "raw", k>>}, k, 0, k + 1, k, n)

LEMMA BankedPart ==
  ASSUME NEW lp, NEW l \in Nat \ {0}, lp.op = "enc", lp.back - Lag(lp) = 0,
         lp.params.block = 48, OutBlock(lp) = 64, NEW k \in Nat, NEW n \in Nat,
         NEW h \in Nat, h = k + 1, h < n,
         NEW bank, NEW other, bank # other, bank # "t0_3", other # "t0_3"
  PROVE  /\ PartOK(lp, l, ROUND_neon64(bank, other), Banked(bank, other, k, n),
                   StartNeon(other, h, n))
         /\ Banked(bank, other, k, n)[1] = StartNeon(bank, k, n)
<1> DEFINE o == ROUND_neon64(bank, other)
           p == Banked(bank, other, k, n)
           e == StartNeon(other, h, n)
<1>0. e = Point({<<other, "raw", k + 1>>}, k + 1, 0, k + 2, k + 1, n)
  <2>1. h + 1 = k + 2
    OBVIOUS
  <2> QED
    BY <2>1 DEF StartNeon
<1>1. /\ o[1] = Shuf(bank, "t0_3", {}) /\ o[2] = LOAD_neon64(other)
      /\ o[3] = Tran("t0_3", bank, {}) /\ o[4] = STOR_neon64(bank) /\ Len(o) = 4
  BY DEF ROUND_neon64, SHUF_neon64, TRAN_neon64
<1>2. /\ p[1] = Point({<<bank, "raw", k>>}, k, 0, k + 1, k, n)
      /\ p[2] = Point({<<"t0_3", "mid", k>>}, k, 0, k + 1, k, n)
      /\ p[3] = Point({<<"t0_3", "mid", k>>, <<other, "raw", k+1>>}, k, 0, k + 2, k, n)
      /\ p[4] = Point({<<bank, "done", k>>, <<other, "raw", k+1>>}, k, 0, k + 2, k, n)
  BY DEF Banked
<1> HIDE DEF o, p, e
<1>3. StepOK(lp, l, o[1], p[1], p[2])
  <2>1. o[1].op = "shuf" /\ o[1].from = bank /\ o[1].to = "t0_3" /\ o[1].temps = {}
    BY <1>1 DEF Shuf
  <2>2. SameCounts(p[1], p[2]) /\ p[1].moved = p[2].moved /\ <<bank, "raw", k>> \in p[1].facts
    BY <1>2 DEF SameCounts, Point
  <2>3. Facts(p[1], p[2], {"t0_3"} \cup {}, <<"t0_3", "mid", k>>)
    BY <1>2 DEF Facts, Point
  <2> QED
    BY <2>1, <2>2, <2>3, ShufStep
<1>4. StepOK(lp, l, o[2], p[2], p[3])
  <2>1. SameCounts(p[2], p[3]) /\ p[2].moved = k + 1 /\ p[3].moved = k + 2 /\ p[2].due = n
    BY <1>2 DEF SameCounts, Point
  <2>2. Facts(p[2], p[3], {other}, <<other, "raw", k + 1>>)
    BY <1>2 DEF Facts, Point
  <2>3. k + 1 \in Nat /\ k + 2 = (k + 1) + 1
    OBVIOUS
  <2>4. StepOK(lp, l, LOAD_neon64(other), p[2], p[3])
    BY <2>1, <2>2, <2>3, LoadStepNeon
  <2> QED
    BY <1>1, <2>4
<1>5. StepOK(lp, l, o[3], p[3], p[4])
  <2>1. o[3].op = "tran" /\ o[3].from = "t0_3" /\ o[3].to = bank /\ o[3].temps = {}
    BY <1>1 DEF Tran
  <2>2. SameCounts(p[3], p[4]) /\ p[3].moved = p[4].moved /\ <<"t0_3", "mid", k>> \in p[3].facts
    BY <1>2 DEF SameCounts, Point
  <2>3. Facts(p[3], p[4], {bank} \cup {}, <<bank, "done", k>>)
    BY <1>2 DEF Facts, Point
  <2> QED
    BY <2>1, <2>2, <2>3, TranStep
<1>6. StepOK(lp, l, o[4], p[4], e)
  <2>1. /\ p[4].stored = k /\ p[4].written = k /\ e.written = k + 1 /\ e.stored = k + 1
        /\ <<bank, "done", k>> \in p[4].facts /\ e.facts \subseteq p[4].facts
        /\ e.passed = p[4].passed /\ e.due = p[4].due /\ e.moved = p[4].moved
    BY <1>0, <1>2 DEF Point
  <2>2. StepOK(lp, l, STOR_neon64(bank), p[4], e)
    BY <2>1, StorStepNeon
  <2> QED
    BY <1>1, <2>2
<1>7. PartOK(lp, l, o, p, e)
  <2>1. ASSUME NEW i \in 1..4
        PROVE  StepOK(lp, l, o[i], p[i], IF i < 4 THEN p[i + 1] ELSE e)
    <3>1. i = 1 \/ i = 2 \/ i = 3 \/ i = 4
      OBVIOUS
    <3> QED
      BY <1>3, <1>4, <1>5, <1>6, <3>1
  <2> QED
    BY <1>1, <2>1 DEF PartOK
<1> QED
  BY <1>2, <1>7 DEF o, p, e, StartNeon

LEMMA LastPartNeon ==
  ASSUME NEW lp, NEW l \in Nat \ {0}, lp.op = "enc", lp.back - Lag(lp) = 0,
         lp.params.block = 48, OutBlock(lp) = 64, NEW k \in Nat, NEW n \in Nat, n = k + 1,
         NEW p, Len(p) = 3,
         p[1] = Point({<<"v12_15", "raw", k>>}, k, 0, n, k, n),
         p[2] = Point({<<"t0_3", "mid", k>>}, k, 0, n, k, n),
         p[3] = Point({<<"v12_15", "done", k>>}, k, 0, n, k, n)
  PROVE  PartOK(lp, l, ROUND_B_LAST, p, Point({}, n, 0, n, n, n))
<1> DEFINE o == ROUND_B_LAST
           e == Point({}, n, 0, n, n, n)
<1>1. /\ o[1] = Shuf("v12_15", "t0_3", {}) /\ o[2] = Tran("t0_3", "v12_15", {})
      /\ o[3] = STOR_neon64("v12_15") /\ Len(o) = 3
  BY DEF ROUND_B_LAST, SHUF_neon64, TRAN_neon64
<1> HIDE DEF o
<1>2. StepOK(lp, l, o[1], p[1], p[2])
  <2>1. o[1].op = "shuf" /\ o[1].from = "v12_15" /\ o[1].to = "t0_3" /\ o[1].temps = {}
    BY <1>1 DEF Shuf
  <2>2. SameCounts(p[1], p[2]) /\ p[1].moved = p[2].moved /\ <<"v12_15", "raw", k>> \in p[1].facts
    BY DEF SameCounts, Point
  <2>3. Facts(p[1], p[2], {"t0_3"} \cup {}, <<"t0_3", "mid", k>>)
    BY DEF Facts, Point
  <2> QED
    BY <2>1, <2>2, <2>3, ShufStep
<1>3. StepOK(lp, l, o[2], p[2], p[3])
  <2>1. o[2].op = "tran" /\ o[2].from = "t0_3" /\ o[2].to = "v12_15" /\ o[2].temps = {}
    BY <1>1 DEF Tran
  <2>2. SameCounts(p[2], p[3]) /\ p[2].moved = p[3].moved /\ <<"t0_3", "mid", k>> \in p[2].facts
    BY DEF SameCounts, Point
  <2>3. Facts(p[2], p[3], {"v12_15"} \cup {}, <<"v12_15", "done", k>>)
    BY DEF Facts, Point
  <2> QED
    BY <2>1, <2>2, <2>3, TranStep
<1>4. StepOK(lp, l, o[3], p[3], e)
  <2> DEFINE s == p[3]
  <2>1. /\ s.stored \in Nat /\ s.written = s.stored /\ e.written = s.stored + 1
        /\ e.stored = s.stored + 1 /\ <<"v12_15", "done", s.stored>> \in s.facts
        /\ e.facts \subseteq s.facts
        /\ e.passed = s.passed /\ e.due = s.due /\ e.moved = s.moved
    BY DEF Point
  <2> HIDE DEF e, s
  <2>3. StepOK(lp, l, STOR_neon64("v12_15"), s, e)
    BY <2>1, StorStepNeon
  <2>2. StepOK(lp, l, STOR_neon64("v12_15"), p[3], e)
    BY <2>3 DEF s
  <2> QED
    BY <1>1, <2>2
<1> HIDE DEF e
<1>5. PartOK(lp, l, o, p, e)
  <2>1. ASSUME NEW i \in 1..3
        PROVE  StepOK(lp, l, o[i], p[i], IF i < 3 THEN p[i + 1] ELSE e)
    <3>1. i = 1 \/ i = 2 \/ i = 3
      OBVIOUS
    <3> QED
      BY <1>2, <1>3, <1>4, <3>1
  <2> QED
    BY <1>1, <2>1 DEF PartOK
<1> QED
  BY <1>5 DEF o, e

LEMMA SectionNeon ==
  ASSUME NEW lp, NEW l \in Nat \ {0}, NEW n \in Nat, n >= 2, n % 2 = 0,
         lp.op = "enc", lp.back - Lag(lp) = 0, lp.params.block = 48, OutBlock(lp) = 64,
         lp.labels[l] = n, l > 1 => lp.labels[l - 1] <= n + n
  PROVE  SectionOK(lp, l, Section_neon64(n), NeonPlan(n))
<1> DEFINE code == Section_neon64(n)
           plan == NeonPlan(n)
           even == "v2_5"
           odd == "v12_15"
           Start(k) == IF k % 2 = 0 THEN StartNeon(even, k, n) ELSE StartNeon(odd, k, n)
<1>1. code[1] = <<LOAD_neon64(even)>> /\ plan[1] = <<Point({}, 0, 0, 0, 0, n)>>
  BY DEF Section_neon64, NeonPlan
<1>2. ASSUME NEW m \in 2..n
      PROVE  /\ m % 2 = 0 => /\ code[m] = ROUND_neon64(even, odd)
                             /\ plan[m] = Banked(even, odd, m - 2, n)
             /\ m % 2 # 0 => /\ code[m] = ROUND_neon64(odd, even)
                             /\ plan[m] = Banked(odd, even, m - 2, n)
  <2>1. code[m] = IF m % 2 = 0 THEN ROUND_A ELSE ROUND_B
    BY DEF Section_neon64
  <2>2. plan[m] = IF m % 2 = 0 THEN Banked("v2_5", "v12_15", m - 2, n)
                  ELSE Banked("v12_15", "v2_5", m - 2, n)
    BY DEF NeonPlan
  <2> HIDE DEF code, plan
  <2> QED
    BY <2>1, <2>2 DEF ROUND_A, ROUND_B
<1>3. code[n + 1] = ROUND_B_LAST
  BY DEF Section_neon64
<1>4. plan[n + 1] = << Point({<<odd, "raw", n-1>>}, n - 1, 0, n, n - 1, n),
                       Point({<<"t0_3", "mid", n-1>>}, n - 1, 0, n, n - 1, n),
                       Point({<<odd, "done", n-1>>}, n - 1, 0, n, n - 1, n) >>
  <2>1. n + 1 \in 1 .. n + 2 /\ n + 1 # 1 /\ n + 1 \notin 2..n
    OBVIOUS
  <2> QED
    BY <2>1 DEF NeonPlan
<1>5. code[n + 2] = <<Advance(0, 0, n)>> /\ plan[n + 2] = <<Point({}, n, 0, n, n, n)>>
  BY DEF Section_neon64, NeonPlan
<1>6. Len(code) = n + 2
  BY DEF Section_neon64
<1> HIDE DEF code, plan
<1>7. ASSUME NEW m \in 2..n
      PROVE  PartOK(lp, l, code[m], plan[m], Start(m - 1)) /\ plan[m][1] = Start(m - 2)
  <2> DEFINE k == m - 2
             h == m - 1
  <2>1. k \in Nat /\ h \in Nat /\ h = k + 1 /\ h < n
        /\ (k % 2 = 0 <=> m % 2 = 0) /\ (h % 2 = 0 <=> m % 2 # 0)
    OBVIOUS
  <2> HIDE DEF k, h
  <2>2. CASE m % 2 = 0
    <3>1. /\ PartOK(lp, l, ROUND_neon64("v2_5", "v12_15"), Banked("v2_5", "v12_15", k, n),
                    StartNeon("v12_15", h, n))
          /\ Banked("v2_5", "v12_15", k, n)[1] = StartNeon("v2_5", k, n)
      BY <2>1, BankedPart
    <3>2. Start(h) = StartNeon("v12_15", h, n) /\ Start(k) = StartNeon("v2_5", k, n)
      BY <2>1, <2>2
    <3>3. code[m] = ROUND_neon64("v2_5", "v12_15") /\ plan[m] = Banked("v2_5", "v12_15", k, n)
      BY <1>2, <2>2 DEF k
    <3> HIDE DEF Start
    <3> QED
      BY <3>1, <3>2, <3>3 DEF k, h
  <2>3. CASE m % 2 # 0
    <3>1. /\ PartOK(lp, l, ROUND_neon64("v12_15", "v2_5"), Banked("v12_15", "v2_5", k, n),
                    StartNeon("v2_5", h, n))
          /\ Banked("v12_15", "v2_5", k, n)[1] = StartNeon("v12_15", k, n)
      BY <2>1, BankedPart
    <3>2. Start(h) = StartNeon("v2_5", h, n) /\ Start(k) = StartNeon("v12_15", k, n)
      BY <2>1, <2>3
    <3>3. code[m] = ROUND_neon64("v12_15", "v2_5") /\ plan[m] = Banked("v12_15", "v2_5", k, n)
      BY <1>2, <2>3 DEF k
    <3> HIDE DEF Start
    <3> QED
      BY <3>1, <3>2, <3>3 DEF k, h
  <2> QED
    BY <2>2, <2>3
<1>8. PartOK(lp, l, code[1], plan[1], Start(0))
  <2> DEFINE s == Point({}, 0, 0, 0, 0, n)
             t == Start(0)
  <2>1. /\ s.moved = 0 /\ t.moved = 1 /\ s.due = n /\ SameCounts(s, t)
        /\ Facts(s, t, {even}, <<even, "raw", 0>>)
    BY DEF Point, SameCounts, Facts, StartNeon
  <2>2. code[1] = <<LOAD_neon64("v2_5")>> /\ plan[1] = <<s>>
    BY <1>1
  <2> HIDE DEF s, t
  <2>3. StepOK(lp, l, LOAD_neon64("v2_5"), s, t)
    BY <2>1, LoadStepNeon
  <2>4. PartOK(lp, l, <<LOAD_neon64("v2_5")>>, <<s>>, t)
    BY <2>3 DEF PartOK
  <2> QED
    BY <2>2, <2>4 DEF t
<1>9. PartOK(lp, l, code[n + 1], plan[n + 1], Point({}, n, 0, n, n, n))
      /\ plan[n + 1][1] = Start(n - 1)
  <2> DEFINE k == n - 1
  <2>1. k \in Nat /\ n = k + 1 /\ k % 2 # 0
    OBVIOUS
  <2>2. plan[n + 1][1] = Start(n - 1)
    BY <1>4, <2>1 DEF StartNeon
  <2>3. /\ plan[n + 1][1] = Point({<<odd, "raw", k>>}, k, 0, n, k, n)
        /\ plan[n + 1][2] = Point({<<"t0_3", "mid", k>>}, k, 0, n, k, n)
        /\ plan[n + 1][3] = Point({<<odd, "done", k>>}, k, 0, n, k, n)
        /\ Len(plan[n + 1]) = 3
    BY <1>4
  <2> HIDE DEF k
  <2>4. PartOK(lp, l, ROUND_B_LAST, plan[n + 1], Point({}, n, 0, n, n, n))
    BY <2>1, <2>3, LastPartNeon
  <2> QED
    BY <1>3, <2>2, <2>4
<1>10. PartOK(lp, l, code[n + 2], plan[n + 2], Rest)
  <2> DEFINE s == Point({}, n, 0, n, n, n)
  <2>1. s.stored = n /\ s.moved = n /\ s.written = n /\ s.due = n
    BY DEF Point
  <2>2. code[n + 2] = <<Advance(0, 0, n)>> /\ plan[n + 2] = <<s>>
    BY <1>5
  <2> HIDE DEF s
  <2>3. StepOK(lp, l, Advance(0, 0, n), s, Rest)
    <3>1. n > 0
      OBVIOUS
    <3> QED
      BY <2>1, <3>1, AdvanceStepNeon
  <2>4. PartOK(lp, l, <<Advance(0, 0, n)>>, <<s>>, Rest)
    BY <2>3 DEF PartOK
  <2> QED
    BY <2>2, <2>4
<1> HIDE DEF Start
<1>11. ASSUME NEW m \in 1 .. n + 2
       PROVE  PartOK(lp, l, code[m], plan[m], IF m < n + 2 THEN plan[m + 1][1] ELSE Rest)
  <2>1. CASE m = 1
    <3>1. 2 \in 2..n /\ 2 - 2 = 0 /\ m + 1 = 2 /\ m < n + 2
      BY <2>1
    <3>2. plan[m + 1][1] = Start(0)
      BY <1>7, <3>1
    <3> QED
      BY <1>8, <2>1, <3>1, <3>2
  <2>2. CASE m \in 2 .. n - 1
    <3>1. m \in 2..n /\ m + 1 \in 2..n /\ (m + 1) - 2 = m - 1 /\ m < n + 2
      BY <2>2
    <3>2. plan[m + 1][1] = Start(m - 1)
      BY <1>7, <3>1
    <3> QED
      BY <1>7, <3>1, <3>2
  <2>3. CASE m = n
    <3>1. m \in 2..n /\ m < n + 2
      BY <2>3
    <3> QED
      BY <1>7, <1>9, <2>3, <3>1
  <2>4. CASE m = n + 1
    <3>1. m < n + 2 /\ m + 1 = n + 2
      BY <2>4
    <3>2. plan[n + 2][1] = Point({}, n, 0, n, n, n)
      BY <1>5
    <3> QED
      BY <1>9, <2>4, <3>1, <3>2
  <2>5. CASE m = n + 2
    <3>1. ~ (m < n + 2)
      BY <2>5
    <3> QED
      BY <1>10, <2>5, <3>1
  <2> QED
    BY <2>1, <2>2, <2>3, <2>4, <2>5
<1>12. /\ Len(code) \in Nat /\ Len(code) >= 1
       /\ code[Len(code)][Len(code[Len(code)])].op = "advance"
       /\ \A m \in 1 .. Len(code) :
            PartOK(lp, l, code[m], plan[m], IF m < Len(code) THEN plan[m + 1][1] ELSE Rest)
  <2>1. Advance(0, 0, n).op = "advance"
    BY DEF Advance
  <2>2. code[n + 2][Len(code[n + 2])] = Advance(0, 0, n)
    BY <1>5
  <2> QED
    BY <1>6, <1>11, <2>1, <2>2
<1>13. plan[1][1] = Point({}, 0, 0, 0, 0, n) /\ n \in 1 .. (IF l = 0 THEN 1 ELSE lp.labels[l])
  BY <1>1
<1>14. SectionOK(lp, l, code, plan)
  BY <1>12, <1>13, SectionFromParts
<1> QED
  BY <1>14 DEF code, plan

\* The rounds that are left are run one by one.
LEMMA SingleNeon ==
  ASSUME NEW lp, NEW l \in Nat \ {0}, lp.op = "enc", lp.back - Lag(lp) = 0,
         lp.params.block = 48, OutBlock(lp) = 64, l # 1, lp.labels[l] \in Nat \ {0},
         lp.labels[l - 1] <= 1 + lp.labels[l]
  PROVE  SectionOK(lp, l, <<SingleNeon64>>, <<SinglePlanNeon64>>)
<1> DEFINE o == SingleNeon64
           p == SinglePlanNeon64
<1>1. /\ o[1] = LOAD_neon64("v12_15") /\ o[2] = Shuf("v12_15", "t0_3", {})
      /\ o[3] = Tran("t0_3", "v12_15", {}) /\ o[4] = STOR_neon64("v12_15")
      /\ o[5] = Advance(0, 0, 1) /\ Len(o) = 5
  BY DEF SingleNeon64, SHUF_neon64, TRAN_neon64
<1>2. /\ p[1] = Point({}, 0, 0, 0, 0, 1) /\ p[2] = Point({<<"v12_15", "raw", 0>>}, 0, 0, 1, 0, 1)
      /\ p[3] = Point({<<"t0_3", "mid", 0>>}, 0, 0, 1, 0, 1)
      /\ p[4] = Point({<<"v12_15", "done", 0>>}, 0, 0, 1, 0, 1)
      /\ p[5] = Point({}, 1, 0, 1, 1, 1)
  BY DEF SinglePlanNeon64
<1> HIDE DEF o, p
<1>3. StepOK(lp, l, o[1], p[1], p[2])
  <2> DEFINE s == p[1]
             t == p[2]
  <2>1. /\ SameCounts(s, t) /\ s.moved = 0 /\ t.moved = 1 /\ s.due = 1
        /\ Facts(s, t, {"v12_15"}, <<"v12_15", "raw", 0>>)
    BY <1>2 DEF SameCounts, Point, Facts
  <2> HIDE DEF s, t
  <2>2. StepOK(lp, l, LOAD_neon64("v12_15"), s, t)
    BY <2>1, LoadStepNeon
  <2> QED
    BY <1>1, <2>2 DEF s, t
<1>4. StepOK(lp, l, o[2], p[2], p[3])
  <2>1. o[2].op = "shuf" /\ o[2].from = "v12_15" /\ o[2].to = "t0_3" /\ o[2].temps = {}
    BY <1>1 DEF Shuf
  <2>2. SameCounts(p[2], p[3]) /\ p[2].moved = p[3].moved /\ <<"v12_15", "raw", 0>> \in p[2].facts
    BY <1>2 DEF SameCounts, Point
  <2>3. Facts(p[2], p[3], {"t0_3"} \cup {}, <<"t0_3", "mid", 0>>)
    BY <1>2 DEF Facts, Point
  <2> QED
    BY <2>1, <2>2, <2>3, ShufStep
<1>5. StepOK(lp, l, o[3], p[3], p[4])
  <2>1. o[3].op = "tran" /\ o[3].from = "t0_3" /\ o[3].to = "v12_15" /\ o[3].temps = {}
    BY <1>1 DEF Tran
  <2>2. SameCounts(p[3], p[4]) /\ p[3].moved = p[4].moved /\ <<"t0_3", "mid", 0>> \in p[3].facts
    BY <1>2 DEF SameCounts, Point
  <2>3. Facts(p[3], p[4], {"v12_15"} \cup {}, <<"v12_15", "done", 0>>)
    BY <1>2 DEF Facts, Point
  <2> QED
    BY <2>1, <2>2, <2>3, TranStep
<1>6. StepOK(lp, l, o[4], p[4], p[5])
  <2>1. /\ p[4].stored = 0 /\ p[4].written = 0 /\ p[5].written = 1 /\ p[5].stored = 1
        /\ <<"v12_15", "done", 0>> \in p[4].facts /\ p[5].facts \subseteq p[4].facts
        /\ p[5].passed = p[4].passed /\ p[5].due = p[4].due /\ p[5].moved = p[4].moved
    BY <1>2 DEF Point
  <2>2. StepOK(lp, l, STOR_neon64("v12_15"), p[4], p[5])
    BY <2>1, StorStepNeon
  <2> QED
    BY <1>1, <2>2
<1>7. StepOK(lp, l, o[5], p[5], Rest)
  <2> DEFINE q == Advance(0, 0, 1)
  <2>1. q.op = "advance" /\ q.n = 1 /\ q.bytes = 0 /\ q.blocks = 0
    BY DEF Advance
  <2>2. p[5].stored = 1 /\ p[5].moved = 1 /\ p[5].written = 1 /\ p[5].due = 1
    BY <1>2 DEF Point
  <2>3. Rest = Point({}, 0, 0, 0, 0, 1 - 1)
    BY DEF Rest
  <2>4. 0 = (1 - 1) * 48 - (IF l = 0 THEN lp.back ELSE 0) /\ 0 = 1 - 1
    OBVIOUS
  <2> HIDE DEF q
  <2>5. AdvanceOK(lp, l, q, p[5], Rest)
    BY <2>1, <2>2, <2>3, <2>4 DEF AdvanceOK
  <2> QED
    BY <1>1, <2>1, <2>5 DEF StepOK, q
<1>8. PartOK(lp, l, o, p, Rest)
  BY <1>1, <1>3, <1>4, <1>5, <1>6, <1>7, FivePart
<1>9. o[Len(o)].op = "advance"
  BY <1>1 DEF Advance
<1>10. 1 \in 1 .. (IF l = 0 THEN 1 ELSE lp.labels[l]) /\ p[1] = Point({}, 0, 0, 0, 0, 1)
  BY <1>2
<1>11. SectionOK(lp, l, <<o>>, <<p>>)
  BY <1>8, <1>9, <1>10, OnePart
<1> QED
  BY <1>11 DEF o, p

-----------------------------------------------------------------------------
(* Single rounds.                                                          *)

LEMMA SingleEnc ==
  ASSUME NEW lp, NEW l \in Nat \ {0}, lp.op = "enc", lp.params.block \in Nat,
         OutBlock(lp) \in Nat, NEW offset, offset = lp.back - Lag(lp),
         NEW r, NEW m, NEW t1, NEW t2, l # 1, lp.labels[l] \in Nat \ {0},
         lp.labels[l - 1] <= 1 + lp.labels[l]
  PROVE  SectionOK(lp, l, <<EncOps(r, m, offset, t1, t2, lp.params.block)>>,
                   <<EncPlan(r, m, 1)>>)
<1> DEFINE o == EncOps(r, m, offset, t1, t2, lp.params.block)
           p == EncPlan(r, m, 1)
<1>1. Len(o) = 5 /\ o[5].op = "advance"
  BY DEF EncOps, Advance
<1>2. p[1] = Point({}, 0, 0, 0, 0, 1)
  BY DEF EncPlan
<1>3. EncRoundAt(lp, l, offset, 1)
  BY DEF EncRoundAt
<1>4. /\ StepOK(lp, l, o[1], p[1], p[2]) /\ StepOK(lp, l, o[2], p[2], p[3])
      /\ StepOK(lp, l, o[3], p[3], p[4]) /\ StepOK(lp, l, o[4], p[4], p[5])
      /\ StepOK(lp, l, o[5], p[5], Point({}, 0, 0, 0, 0, 1 - 1))
  BY <1>3, EncSteps
<1>5. Point({}, 0, 0, 0, 0, 1 - 1) = Rest
  BY DEF Rest
<1> HIDE DEF o, p
<1>6. PartOK(lp, l, o, p, Rest)
  BY <1>1, <1>4, <1>5, FivePart
<1>7. 1 \in 1 .. (IF l = 0 THEN 1 ELSE lp.labels[l]) /\ o[Len(o)].op = "advance"
  BY <1>1
<1>8. SectionOK(lp, l, <<o>>, <<p>>)
  BY <1>2, <1>6, <1>7, OnePart
<1> QED
  BY <1>8 DEF o, p

LEMMA FirstSection ==
  ASSUME NEW lp, NEW r, NEW m, NEW t1, NEW t2, NEW bytes,
         lp.op = "enc", lp.params.block \in Nat, OutBlock(lp) \in Nat, lp.back \in Nat,
         bytes = lp.params.block - lp.back
  PROVE  SectionOK(lp, 0, <<FirstOps(r, m, t1, t2, bytes)>>, <<FirstPlan(r, m)>>)
<1> DEFINE o == FirstOps(r, m, t1, t2, bytes)
           p == FirstPlan(r, m)
<1>1. Len(o) = 6 /\ o[6].op = "advance"
  BY DEF FirstOps, Advance
<1>2. p[1] = Point({}, 0, 0, 0, 0, 1)
  BY DEF FirstPlan
<1>3. /\ StepOK(lp, 0, o[1], p[1], p[2]) /\ StepOK(lp, 0, o[2], p[2], p[3])
      /\ StepOK(lp, 0, o[3], p[3], p[4]) /\ StepOK(lp, 0, o[4], p[4], p[5])
      /\ StepOK(lp, 0, o[5], p[5], p[6]) /\ StepOK(lp, 0, o[6], p[6], Rest)
  BY FirstSteps
<1> HIDE DEF o, p
<1>4. PartOK(lp, 0, o, p, Rest)
  BY <1>1, <1>3, SixPart
<1>5. 1 \in 1 .. (IF 0 = 0 THEN 1 ELSE lp.labels[0]) /\ o[Len(o)].op = "advance"
  BY <1>1
<1>6. SectionOK(lp, 0, <<o>>, <<p>>)
  BY <1>2, <1>4, <1>5, OnePart
<1> QED
  BY <1>6 DEF o, p

-----------------------------------------------------------------------------
(* Every loop.                                                             *)

CEncoders == {"enc_32_le", "enc_32_be", "enc_64_le", "enc_64_be", "enc_ssse3",
              "enc_avx512", "enc_neon32", "enc_neon64"}
CDecoders == {"dec_32_le", "dec_32_be", "dec_ssse3", "dec_avx2", "dec_neon32", "dec_neon64"}
EncIsas == {"ssse3", "avx2", "avx512", "neon32", "neon64", "32le", "32be", "64le", "64be"}
DecIsas == {"ssse3", "avx2", "neon32", "neon64", "32le", "32be"}

LEMMA LoopNames ==
  DOMAIN Loops = CEncoders \cup CDecoders \cup
    {"enc_avx2", "enc_ssse3_asm", "enc_avx_asm", "enc_avx2_asm", "enc_neon64_asm"}
BY DEF Loops, CEncoders, CDecoders

LEMMA LoopsAre ==
  /\ Loops["enc_32_le"] = EncLoopC("32le", enc_loop_generic_32)
  /\ Loops["enc_32_be"] = EncLoopC("32be", enc_loop_generic_32)
  /\ Loops["enc_64_le"] = EncLoopC("64le", enc_loop_generic_64)
  /\ Loops["enc_64_be"] = EncLoopC("64be", enc_loop_generic_64)
  /\ Loops["enc_ssse3"] = EncLoopC("ssse3", enc_loop_ssse3)
  /\ Loops["enc_avx2"] = enc_loop_avx2_c
  /\ Loops["enc_avx512"] = EncLoopC("avx512", enc_loop_avx512)
  /\ Loops["enc_neon32"] = EncLoopC("neon32", enc_loop_neon32)
  /\ Loops["enc_neon64"] = EncLoopC("neon64", enc_loop_neon64)
  /\ Loops["enc_ssse3_asm"] = enc_loop_ssse3_asm
  /\ Loops["enc_avx_asm"] = enc_loop_avx_asm
  /\ Loops["enc_avx2_asm"] = enc_loop_avx2_asm
  /\ Loops["enc_neon64_asm"] = enc_loop_neon64_asm
  /\ Loops["dec_32_le"] = DecLoopC("32le", dec_loop_generic_32)
  /\ Loops["dec_32_be"] = DecLoopC("32be", dec_loop_generic_32)
  /\ Loops["dec_ssse3"] = DecLoopC("ssse3", dec_loop_ssse3)
  /\ Loops["dec_avx2"] = DecLoopC("avx2", dec_loop_avx2)
  /\ Loops["dec_neon32"] = DecLoopC("neon32", dec_loop_neon32)
  /\ Loops["dec_neon64"] = DecLoopC("neon64", dec_loop_neon64)
BY DEF Loops

LEMMA CEncoderIs ==
  ASSUME NEW n \in CEncoders
  PROVE  \E isa \in EncIsas \ {"avx2"} : Loops[n] = EncLoopC(isa, EncLoopOf(isa))
<1>1. n \in {"enc_32_le", "enc_32_be", "enc_64_le", "enc_64_be", "enc_ssse3",
             "enc_avx512", "enc_neon32", "enc_neon64"}
  BY DEF CEncoders
<1>2. /\ EncLoopOf("32le") = enc_loop_generic_32 /\ EncLoopOf("32be") = enc_loop_generic_32
      /\ EncLoopOf("64le") = enc_loop_generic_64 /\ EncLoopOf("64be") = enc_loop_generic_64
      /\ EncLoopOf("ssse3") = enc_loop_ssse3 /\ EncLoopOf("avx512") = enc_loop_avx512
      /\ EncLoopOf("neon32") = enc_loop_neon32 /\ EncLoopOf("neon64") = enc_loop_neon64
  BY DEF EncLoopOf
<1>3. \A isa \in {"32le", "32be", "64le", "64be", "ssse3", "avx512", "neon32", "neon64"} :
        isa \in EncIsas \ {"avx2"}
  BY DEF EncIsas
<1> QED
  BY <1>1, <1>2, <1>3, LoopsAre, Zenon

LEMMA CDecoderIs ==
  ASSUME NEW n \in CDecoders
  PROVE  \E isa \in DecIsas : Loops[n] = DecLoopC(isa, DecLoopOf(isa))
<1>1. n \in {"dec_32_le", "dec_32_be", "dec_ssse3", "dec_avx2", "dec_neon32", "dec_neon64"}
  BY DEF CDecoders
<1>2. /\ DecLoopOf("32le") = dec_loop_generic_32 /\ DecLoopOf("32be") = dec_loop_generic_32
      /\ DecLoopOf("ssse3") = dec_loop_ssse3 /\ DecLoopOf("avx2") = dec_loop_avx2
      /\ DecLoopOf("neon32") = dec_loop_neon32 /\ DecLoopOf("neon64") = dec_loop_neon64
  BY DEF DecLoopOf
<1> QED
  BY <1>1, <1>2, LoopsAre, Zenon DEF DecIsas

LEMMA EncParams ==
  ASSUME NEW isa \in EncIsas
  PROVE  LET p == EncLoopOf(isa)
         IN /\ p.block \in Nat \ {0} /\ p.guard \in Nat /\ p.reserve \in Nat
            /\ p.width \in Nat \ {0} /\ p.block \div 3 \in Nat \ {0}
            /\ p.block = 3 * (p.block \div 3) /\ p.width <= p.block + p.reserve + p.lag
            /\ p.reserve <= p.guard /\ p.lag = (IF isa = "avx2" THEN 4 ELSE 0)
            /\ p.lag <= p.block /\ p.lag + p.block <= p.width
            /\ isa = "avx2" => /\ p.block = 24 /\ p.block + p.reserve <= p.guard
                               /\ p.width <= p.guard
BY DEF EncLoopOf, EncIsas, enc_loop_generic_32, enc_loop_generic_64, enc_loop_ssse3,
       enc_loop_avx2, enc_loop_avx512, enc_loop_neon32, enc_loop_neon64, EncLoop

LEMMA DecParams ==
  ASSUME NEW isa \in DecIsas
  PROVE  LET p == DecLoopOf(isa)
         IN /\ p.block \in Nat \ {0} /\ p.guard \in Nat /\ p.reserve \in Nat
            /\ p.block \div 4 \in Nat \ {0} /\ p.block = 4 * (p.block \div 4)
            /\ p.reserve <= p.guard /\ p.store \in Nat /\ p.store >= 3 * (p.block \div 4)
BY DEF DecLoopOf, DecIsas, dec_loop_generic_32, dec_loop_ssse3, dec_loop_avx2,
       dec_loop_neon32, dec_loop_neon64, DecLoop

\* What the machine needs to know of a loop.
LabelsOK(lp) ==
  /\ Len(lp.labels) \in Nat /\ Len(lp.labels) >= 1
  /\ \A i \in 1 .. Len(lp.labels) : lp.labels[i] \in Nat \ {0}
  /\ lp.labels[Len(lp.labels)] = 1
  /\ lp.big \in BOOLEAN /\ lp.restart = ~ lp.big

SizesOK(lp) ==
  /\ lp.params.block \in Nat \ {0} /\ lp.params.guard \in Nat /\ lp.params.reserve \in Nat
  /\ lp.params.reserve <= lp.params.guard /\ OutBlock(lp) \in Nat \ {0}
  /\ Lag(lp) \in Nat /\ Lag(lp) <= lp.params.block
  /\ lp.back \in Nat /\ lp.back <= Lag(lp)
  /\ WidthOf(lp) \in Nat \ {0}
  /\ WidthOf(lp) <= lp.params.block + lp.params.reserve + Lag(lp)
  /\ GapOf(lp) \in Nat
  /\ lp.first # <<>> <=> Lag(lp) > 0
  /\ Lag(lp) > 0 => /\ lp.params.block + lp.params.reserve <= lp.params.guard
                    /\ WidthOf(lp) <= lp.params.guard

IsaOK(lp) ==
  /\ lp.op \in {"enc", "dec"}
  /\ lp.op = "enc" => /\ lp.isa \in EncIsas /\ lp.params = EncLoopOf(lp.isa)
  /\ lp.op = "dec" => /\ lp.isa \in DecIsas /\ lp.params = DecLoopOf(lp.isa)
                      /\ lp.big = FALSE

LoopOK(lp) == LabelsOK(lp) /\ SizesOK(lp) /\ IsaOK(lp)

LEMMA EncSizes ==
  ASSUME NEW lp, NEW isa \in EncIsas, lp.op = "enc", lp.isa = isa,
         lp.params = EncLoopOf(isa), NEW lag, lag = (IF isa = "avx2" THEN 4 ELSE 0),
         lp.back \in Nat, lp.back <= lag,
         lp.first # <<>> <=> isa = "avx2"
  PROVE  SizesOK(lp) /\ IsaOK(lp)
<1> DEFINE q == EncLoopOf(isa)
<1>1. /\ q.block \in Nat \ {0} /\ q.guard \in Nat /\ q.reserve \in Nat
      /\ q.width \in Nat \ {0} /\ q.block \div 3 \in Nat \ {0}
      /\ q.width <= q.block + q.reserve + q.lag
      /\ q.reserve <= q.guard /\ q.lag = (IF isa = "avx2" THEN 4 ELSE 0)
      /\ q.lag <= q.block
      /\ isa = "avx2" => q.block + q.reserve <= q.guard /\ q.width <= q.guard
  BY EncParams
<1> HIDE DEF q
<1>2. lp.params = q
  BY DEF q
<1>3. Lag(lp) = q.lag /\ OutBlock(lp) = 4 * (q.block \div 3) /\ WidthOf(lp) = q.width
      /\ GapOf(lp) = 0
  BY <1>2 DEF Lag, OutBlock, WidthOf, GapOf
<1>4. OutBlock(lp) \in Nat \ {0} /\ lp.back <= Lag(lp) /\ Lag(lp) \in Nat
      /\ (Lag(lp) > 0 <=> isa = "avx2")
  BY <1>1, <1>3
<1>5. SizesOK(lp)
  BY <1>1, <1>2, <1>3, <1>4 DEF SizesOK
<1> QED
  BY <1>5 DEF IsaOK

LEMMA DecSizes ==
  ASSUME NEW lp, NEW isa \in DecIsas, lp.op = "dec", lp.isa = isa,
         lp.params = DecLoopOf(isa), lp.back = 0, lp.first = <<>>, lp.big = FALSE
  PROVE  SizesOK(lp) /\ IsaOK(lp)
<1> DEFINE q == DecLoopOf(isa)
<1>1. /\ q.block \in Nat \ {0} /\ q.guard \in Nat /\ q.reserve \in Nat
      /\ q.block \div 4 \in Nat \ {0} /\ q.reserve <= q.guard
      /\ q.store \in Nat /\ q.store >= 3 * (q.block \div 4)
  BY DecParams
<1> HIDE DEF q
<1>2. lp.params = q
  BY DEF q
<1>3. Lag(lp) = 0 /\ OutBlock(lp) = 3 * (q.block \div 4) /\ WidthOf(lp) = q.block
      /\ GapOf(lp) = q.store - OutBlock(lp)
  BY <1>2 DEF Lag, OutBlock, WidthOf, GapOf
<1>4. OutBlock(lp) \in Nat \ {0} /\ GapOf(lp) \in Nat /\ ~ (lp.first # <<>>) /\ ~ (Lag(lp) > 0)
  BY <1>1, <1>3
<1>5. SizesOK(lp)
  BY <1>1, <1>2, <1>3, <1>4 DEF SizesOK
<1> QED
  BY <1>5 DEF IsaOK

LEMMA FourLabels ==
  ASSUME NEW lp, lp.labels = <<8, 4, 2, 1>>, lp.big = FALSE, lp.restart = TRUE
  PROVE  LabelsOK(lp)
<1>1. /\ Len(lp.labels) = 4 /\ lp.labels[1] = 8 /\ lp.labels[2] = 4
      /\ lp.labels[3] = 2 /\ lp.labels[4] = 1
  OBVIOUS
<1>2. \A i \in 1..4 : lp.labels[i] \in Nat \ {0}
  <2>1. \A i \in 1..4 : i = 1 \/ i = 2 \/ i = 3 \/ i = 4
    OBVIOUS
  <2> QED
    BY <1>1, <2>1
<1>3. lp.big \in BOOLEAN /\ lp.restart = ~ lp.big
  BY Zenon
<1>4. Len(lp.labels) \in Nat /\ Len(lp.labels) >= 1 /\ lp.labels[Len(lp.labels)] = 1
  BY <1>1
<1>5. \A i \in 1 .. Len(lp.labels) : lp.labels[i] \in Nat \ {0}
  BY <1>1, <1>2
<1> QED
  BY <1>3, <1>4, <1>5, Zenon DEF LabelsOK

\* What a loop in C runs.
RoundOf(lp, round) ==
  \/ lp.op = "enc" /\ round = EncRound(lp.params)
  \/ lp.op = "dec" /\ lp.isa \in {"ssse3", "avx2"} /\ round = DecRoundX86(lp.params)
  \/ lp.op = "dec" /\ lp.isa \notin {"ssse3", "avx2"} /\ round = DecRound(lp.params)

\* A label of a loop in C.
LEMMA FoldLabel ==
  ASSUME NEW n, NEW lp, lp = Loops[n], NEW l \in Nat \ {0}, NEW size \in Nat \ {0},
         lp.labels[l] = size, lp.big = FALSE, lp.restart = TRUE, SizesOK(lp),
         lp.back = Lag(lp),
         NEW round, lp.code[size] = Fold(round, size), RoundOf(lp, round)
  PROVE  SectionOK(lp, l, CodeAt(lp, l), Plan(n, l))
<1> DEFINE plan == Plan(n, l)
<1>1. CodeAt(lp, l) = Fold(round, size)
  BY DEF CodeAt
<1>2. plan = [m \in 1..size |->
        LET due == size + 1 - m
        IN CASE lp.op = "enc" -> EncPlan("str", "str", due)
             [] lp.op = "dec" /\ lp.isa \in {"ssse3", "avx2"} -> DecPlanX86(due)
             [] OTHER -> DecPlan(due)]
  <2>1. ~ (l = 0)
    OBVIOUS
  <2> QED
    BY <2>1, Zenon DEF Plan, FoldPlan
<1> HIDE DEF plan
<1>3. lp.back = Lag(lp) /\ Lag(lp) \in Nat /\ lp.params.block \in Nat /\ OutBlock(lp) \in Nat
  BY DEF SizesOK
<1>4. PICK kind \in {"enc", "decx86", "dec"} :
        /\ kind = "enc" => lp.op = "enc" /\ round = EncRound(lp.params)
        /\ kind = "decx86" => /\ lp.op = "dec" /\ lp.isa \in {"ssse3", "avx2"}
                              /\ round = DecRoundX86(lp.params)
        /\ kind = "dec" => /\ lp.op = "dec" /\ lp.isa \notin {"ssse3", "avx2"}
                           /\ round = DecRound(lp.params)
  <2>1. /\ "enc" # "dec" /\ "enc" # "decx86" /\ "dec" # "decx86"
        /\ "enc" \in {"enc", "decx86", "dec"} /\ "dec" \in {"enc", "decx86", "dec"}
        /\ "decx86" \in {"enc", "decx86", "dec"}
    OBVIOUS
  <2> QED
    BY <2>1, Zenon DEF RoundOf
<1>5. /\ kind = "enc" => \A m \in 1..size : plan[m] = EncPlan("str", "str", size + 1 - m)
      /\ kind = "decx86" => \A m \in 1..size : plan[m] = DecPlanX86(size + 1 - m)
      /\ kind = "dec" => \A m \in 1..size : plan[m] = DecPlan(size + 1 - m)
  BY <1>2, <1>4
<1>6. SectionOK(lp, l, Fold(round, size), plan)
  BY <1>3, <1>4, <1>5, CSection
<1> QED
  BY <1>1, <1>6 DEF plan

\* The loops in C of any codec but avx2.
LEMMA CEncoderPlans ==
  ASSUME NEW n \in CEncoders
  PROVE  LoopOK(Loops[n]) /\ PlansOK(n)
<1> DEFINE lp == Loops[n]
<1>1. PICK isa \in EncIsas \ {"avx2"} : lp = EncLoopC(isa, EncLoopOf(isa))
  BY CEncoderIs
<1> DEFINE params == EncLoopOf(isa)
<1>2. /\ lp.op = "enc" /\ lp.isa = isa /\ lp.params = params /\ lp.labels = <<8, 4, 2, 1>>
      /\ lp.big = FALSE /\ lp.restart = TRUE /\ lp.first = <<>> /\ lp.back = 0
      /\ \A s \in {1, 2, 4, 8} : lp.code[s] = Fold(EncRound(lp.params), s)
  BY <1>1 DEF EncLoopC, CLoop
<1> HIDE DEF params
<1>3. SizesOK(lp) /\ LoopOK(lp)
  <2> DEFINE lag == IF isa = "avx2" THEN 4 ELSE 0
  <2>1. /\ isa \in EncIsas /\ ~ (isa = "avx2") /\ ~ (lp.first # <<>>)
        /\ lp.back \in Nat /\ lp.back <= lag
    BY <1>2
  <2> HIDE DEF lag
  <2>2. SizesOK(lp) /\ IsaOK(lp)
    BY <1>2, <2>1, EncSizes DEF params, lag
  <2>3. LabelsOK(lp)
    BY <1>2, FourLabels
  <2> QED
    BY <2>2, <2>3 DEF LoopOK
<1> HIDE DEF lp
<1>4. ASSUME NEW l \in 1..4
      PROVE  SectionOK(lp, l, CodeAt(lp, l), Plan(n, l))
  <2>1. PICK size \in {1, 2, 4, 8} : lp.labels[l] = size
    <3>1. l = 1 \/ l = 2 \/ l = 3 \/ l = 4
      OBVIOUS
    <3> QED
      BY <1>2, <3>1
  <2>2. l \in Nat \ {0} /\ size \in Nat \ {0} /\ lp = Loops[n]
    BY DEF lp
  <2> DEFINE round == EncRound(lp.params)
  <2>3. lp.code[size] = Fold(round, size) /\ RoundOf(lp, round)
    BY <1>2 DEF RoundOf
  <2> HIDE DEF round
  <2>4. lp.big = FALSE /\ lp.restart = TRUE /\ SizesOK(lp) /\ lp.back = Lag(lp)
    BY <1>2, <1>3 DEF SizesOK
  <2> QED
    BY <2>1, <2>2, <2>3, <2>4, FoldLabel
<1>5. LabelsOf(lp) = 1..4
  <2>1. Len(lp.labels) = 4
    BY <1>2
  <2> QED
    BY <1>2, <2>1 DEF LabelsOf
<1>6. PlansOK(n)
  BY <1>4, <1>5 DEF PlansOK, lp
<1> QED
  BY <1>3, <1>6 DEF lp

LEMMA CDecoderPlans ==
  ASSUME NEW n \in CDecoders
  PROVE  LoopOK(Loops[n]) /\ PlansOK(n)
<1> DEFINE lp == Loops[n]
<1>1. PICK isa \in DecIsas : lp = DecLoopC(isa, DecLoopOf(isa))
  BY CDecoderIs
<1> DEFINE params == DecLoopOf(isa)
           neon == isa \in {"neon32", "neon64"}
           round == IF isa \in {"ssse3", "avx2"} THEN DecRoundX86(lp.params)
                    ELSE DecRound(lp.params)
<1>2. /\ lp.op = "dec" /\ lp.isa = isa /\ lp.params = params
      /\ lp.big = FALSE /\ lp.restart = TRUE /\ lp.first = <<>> /\ lp.back = 0
      /\ lp.labels = (IF neon THEN <<1>> ELSE <<8, 4, 2, 1>>)
      /\ \A s \in {1, 2, 4, 8} : lp.code[s] = Fold(round, s)
  <2>1. CASE neon
    BY <1>1, <2>1 DEF DecLoopC, CLoop
  <2>2. CASE ~ neon
    BY <1>1, <2>2 DEF DecLoopC, CLoop
  <2> QED
    BY <2>1, <2>2
<1> HIDE DEF params
<1>3. SizesOK(lp) /\ LoopOK(lp)
  <2>1. SizesOK(lp) /\ IsaOK(lp)
    BY <1>2, DecSizes DEF params
  <2>2. LabelsOK(lp)
    <3>1. CASE neon
      <4>1. lp.labels = <<1>>
        BY <1>2, <3>1
      <4>2. /\ Len(lp.labels) \in Nat /\ Len(lp.labels) >= 1 /\ lp.labels[Len(lp.labels)] = 1
            /\ \A i \in 1 .. Len(lp.labels) : lp.labels[i] \in Nat \ {0}
        BY <4>1
      <4>3. lp.big \in BOOLEAN /\ lp.restart = ~ lp.big
        BY <1>2, Zenon
      <4> QED
        BY <4>2, <4>3, Zenon DEF LabelsOK
    <3>2. CASE ~ neon
      BY <1>2, <3>2, FourLabels
    <3> QED
      BY <3>1, <3>2
  <2> QED
    BY <2>1, <2>2 DEF LoopOK
<1>4. RoundOf(lp, round)
  BY <1>2 DEF RoundOf
<1> HIDE DEF lp, round
<1>5. ASSUME NEW l \in 1 .. Len(lp.labels)
      PROVE  SectionOK(lp, l, CodeAt(lp, l), Plan(n, l))
  <2>1. PICK size \in {1, 2, 4, 8} : lp.labels[l] = size
    <3>1. CASE neon
      <4>1. lp.labels = <<1>>
        BY <1>2, <3>1
      <4>2. l = 1
        BY <4>1
      <4> QED
        BY <4>1, <4>2
    <3>2. CASE ~ neon
      <4>1. lp.labels = <<8, 4, 2, 1>>
        BY <1>2, <3>2
      <4>2. l = 1 \/ l = 2 \/ l = 3 \/ l = 4
        BY <4>1
      <4> QED
        BY <4>1, <4>2
    <3> QED
      BY <3>1, <3>2
  <2>2. l \in Nat \ {0} /\ size \in Nat \ {0} /\ lp = Loops[n]
    <3>1. Len(lp.labels) \in Nat
      BY <1>3 DEF LoopOK, LabelsOK
    <3> QED
      BY <3>1 DEF lp
  <2>3. lp.code[size] = Fold(round, size)
    BY <1>2
  <2>4. lp.big = FALSE /\ lp.restart = TRUE /\ SizesOK(lp) /\ lp.back = Lag(lp)
    BY <1>2, <1>3 DEF SizesOK
  <2> QED
    BY <1>4, <2>1, <2>2, <2>3, <2>4, FoldLabel
<1>6. LabelsOf(lp) = 1 .. Len(lp.labels)
  BY <1>2 DEF LabelsOf
<1>7. PlansOK(n)
  BY <1>5, <1>6 DEF PlansOK, lp
<1> QED
  BY <1>3, <1>7 DEF lp

\* AVX2 in C, which starts with a round of its own.
LEMMA AVX2Plans == LoopOK(Loops["enc_avx2"]) /\ PlansOK("enc_avx2")
<1> DEFINE lp == Loops["enc_avx2"]
           params == enc_loop_avx2
<1>1. /\ lp.op = "enc" /\ lp.isa = "avx2" /\ lp.params = params /\ lp.labels = <<8, 4, 2, 1>>
      /\ lp.big = FALSE /\ lp.restart = TRUE /\ lp.first = <<FirstRoundAvx2>> /\ lp.back = 4
      /\ \A s \in {1, 2, 4, 8} : lp.code[s] = Fold(EncRound(lp.params), s)
  BY LoopsAre DEF enc_loop_avx2_c, EncLoopC, CLoop
<1>2. params = EncLoopOf("avx2") /\ params.block = 24 /\ params.lag = 4
  BY DEF EncLoopOf, enc_loop_avx2, EncLoop
<1> HIDE DEF params
<1>3. SizesOK(lp) /\ LoopOK(lp)
  <2> DEFINE isa == "avx2"
             lag == IF isa = "avx2" THEN 4 ELSE 0
  <2>1. isa \in EncIsas /\ (lp.first # <<>> <=> isa = "avx2") /\ lp.back \in Nat /\ lp.back <= lag
    BY <1>1 DEF EncIsas
  <2> HIDE DEF lag
  <2>2. SizesOK(lp) /\ IsaOK(lp)
    BY <1>1, <1>2, <2>1, EncSizes DEF lag
  <2>3. LabelsOK(lp)
    BY <1>1, FourLabels
  <2> QED
    BY <2>2, <2>3 DEF LoopOK
<1> HIDE DEF lp
<1>4. ASSUME NEW l \in 1..4
      PROVE  SectionOK(lp, l, CodeAt(lp, l), Plan("enc_avx2", l))
  <2>1. PICK size \in {1, 2, 4, 8} : lp.labels[l] = size
    <3>1. l = 1 \/ l = 2 \/ l = 3 \/ l = 4
      OBVIOUS
    <3> QED
      BY <1>1, <3>1
  <2> DEFINE round == EncRound(lp.params)
             n == "enc_avx2"
  <2>2. l \in Nat \ {0} /\ size \in Nat \ {0} /\ lp = Loops[n]
    BY DEF lp
  <2>3. lp.code[size] = Fold(round, size) /\ RoundOf(lp, round)
    BY <1>1 DEF RoundOf
  <2>4. lp.big = FALSE /\ lp.restart = TRUE /\ SizesOK(lp) /\ lp.back = Lag(lp)
    BY <1>1, <1>2, <1>3 DEF Lag
  <2> HIDE DEF round, n
  <2>5. SectionOK(lp, l, CodeAt(lp, l), Plan(n, l))
    BY <2>1, <2>2, <2>3, <2>4, FoldLabel
  <2> QED
    BY <2>5 DEF n
<1>5. SectionOK(lp, 0, CodeAt(lp, 0), Plan("enc_avx2", 0))
  <2>1. CodeAt(lp, 0) = <<FirstRoundAvx2>> /\ Plan("enc_avx2", 0) = <<FirstPlan("src", "src")>>
    BY <1>1 DEF CodeAt, Plan, lp
  <2>2. FirstRoundAvx2 = FirstOps("src", "src", {}, {}, 20)
    BY DEF FirstRoundAvx2, FirstOps
  <2>3. lp.params.block \in Nat /\ OutBlock(lp) \in Nat
    BY <1>3 DEF SizesOK
  <2>4. 20 = lp.params.block - lp.back /\ lp.back \in Nat
    BY <1>1, <1>2
  <2>5. SectionOK(lp, 0, <<FirstOps("src", "src", {}, {}, 20)>>, <<FirstPlan("src", "src")>>)
    BY <1>1, <2>3, <2>4, FirstSection
  <2> QED
    BY <2>1, <2>2, <2>5
<1>6. LabelsOf(lp) = 0..4
  <2>1. Len(lp.labels) = 4 /\ lp.first # <<>>
    BY <1>1
  <2> QED
    BY <2>1 DEF LabelsOf
<1>7. \A l \in 0..4 : l = 0 \/ l \in 1..4
  OBVIOUS
<1>8. PlansOK("enc_avx2")
  BY <1>4, <1>5, <1>6, <1>7 DEF PlansOK, lp
<1> QED
  BY <1>3, <1>8 DEF lp

\* The labels of the assembly of ssse3, avx and avx2.
LEMMA AsmSizes ==
  ASSUME NEW l \in 1..9
  PROVE  /\ AsmLabels[l] \in {36, 18, 9, 6, 5, 4, 3, 2, 1}
         /\ l <= 4 => /\ AsmLabels[l] \in {36, 18, 9, 6} /\ AsmLabels[l] > 5
                      /\ \E last \in Nat : AsmLabels[l] = 3 * last + 6
                      /\ l > 1 => AsmLabels[l - 1] <= AsmLabels[l] + AsmLabels[l]
         /\ l > 4 => /\ AsmLabels[l] \in {5, 4, 3, 2, 1} /\ AsmLabels[l] <= 5
                     /\ AsmLabels[l - 1] <= 1 + AsmLabels[l]
<1> DEFINE L == AsmLabels
<1>1. /\ L[1] = 36 /\ L[2] = 18 /\ L[3] = 9 /\ L[4] = 6 /\ L[5] = 5
      /\ L[6] = 4 /\ L[7] = 3 /\ L[8] = 2 /\ L[9] = 1
  BY DEF AsmLabels
<1> HIDE DEF L
<1>2. CASE l = 1
  <2>1. 36 = 3 * 10 + 6 /\ 10 \in Nat
    OBVIOUS
  <2> QED
    BY <1>1, <1>2, <2>1 DEF L
<1>3. CASE l = 2
  <2>1. 18 = 3 * 4 + 6 /\ 4 \in Nat
    OBVIOUS
  <2> QED
    BY <1>1, <1>3, <2>1 DEF L
<1>4. CASE l = 3
  <2>1. 9 = 3 * 1 + 6 /\ 1 \in Nat
    OBVIOUS
  <2> QED
    BY <1>1, <1>4, <2>1 DEF L
<1>5. CASE l = 4
  <2>1. 6 = 3 * 0 + 6 /\ 0 \in Nat
    OBVIOUS
  <2> QED
    BY <1>1, <1>5, <2>1 DEF L
<1>6. CASE l \in 5..9
  <2>1. l = 5 \/ l = 6 \/ l = 7 \/ l = 8 \/ l = 9
    BY <1>6
  <2> QED
    BY <1>1, <2>1 DEF L
<1>7. l = 1 \/ l = 2 \/ l = 3 \/ l = 4 \/ l \in 5..9
  OBVIOUS
<1> QED
  BY <1>2, <1>3, <1>4, <1>5, <1>6, <1>7

LEMMA NineLabels ==
  ASSUME NEW lp, lp.labels = AsmLabels, lp.big = TRUE, lp.restart = FALSE
  PROVE  LabelsOK(lp) /\ Len(lp.labels) = 9
<1>1. Len(AsmLabels) = 9 /\ AsmLabels[9] = 1
  BY DEF AsmLabels
<1>2. lp.big \in BOOLEAN /\ lp.restart = ~ lp.big
  BY Zenon
<1>3. Len(lp.labels) \in Nat /\ Len(lp.labels) >= 1 /\ lp.labels[Len(lp.labels)] = 1
  BY <1>1
<1>4. \A i \in 1 .. Len(lp.labels) : lp.labels[i] \in Nat \ {0}
  BY <1>1, AsmSizes
<1> QED
  BY <1>1, <1>2, <1>3, <1>4, Zenon DEF LabelsOK

\* Whatever is at a label of such a loop, a pipeline or single rounds.
PipelineLabels(lp, n) ==
  \A l \in 1..9 : l <= 4 => SectionOK(lp, l, CodeAt(lp, l), Plan(n, l))
SingleLabels(lp, n) ==
  \A l \in 1..9 : l > 4 => SectionOK(lp, l, CodeAt(lp, l), Plan(n, l))

LEMMA LabelsTogether ==
  ASSUME NEW n, NEW lp, lp = Loops[n], lp.labels = AsmLabels,
         PipelineLabels(lp, n), SingleLabels(lp, n),
         \/ lp.first = <<>>
         \/ lp.first # <<>> /\ SectionOK(lp, 0, CodeAt(lp, 0), Plan(n, 0))
  PROVE  PlansOK(n)
<1>1. Len(lp.labels) = 9
  BY DEF AsmLabels
<1>2. \A l \in LabelsOf(lp) : (l = 0 /\ lp.first # <<>>) \/ (l \in 1..9 /\ (l <= 4 \/ l > 4))
  BY <1>1 DEF LabelsOf
<1>3. \A l \in LabelsOf(lp) : SectionOK(lp, l, CodeAt(lp, l), Plan(n, l))
  BY <1>2 DEF PipelineLabels, SingleLabels
<1> QED
  BY <1>3, Zenon DEF PlansOK

\* The code of its labels.
SingleCode(lp, round) == \A s \in {5, 4, 3, 2, 1} : lp.code[s] = <<round>>
PipelineCode(lp, bytes, offset) ==
  \A s \in {36, 18, 9, 6} : lp.code[s] = Section_avx(bytes, offset, s)
RoundBy(lp, m, round) ==
  \E offset, t1, t2 : /\ offset = lp.back - Lag(lp)
                      /\ round = EncOps("a", m, offset, t1, t2, lp.params.block)
SplitIn(n) == IF n = "enc_ssse3_asm" THEN "a" ELSE "b"

LEMMA SingleLabelsOK ==
  ASSUME NEW n \in {"enc_ssse3_asm", "enc_avx_asm", "enc_avx2_asm"}, NEW lp, lp = Loops[n],
         lp.op = "enc", lp.restart = FALSE, lp.labels = AsmLabels, SizesOK(lp),
         NEW m, m = SplitIn(n), NEW round, RoundBy(lp, m, round), SingleCode(lp, round)
  PROVE  SingleLabels(lp, n)
<1>0. PICK offset, t1, t2 : /\ offset = lp.back - Lag(lp)
                            /\ round = EncOps("a", m, offset, t1, t2, lp.params.block)
  BY DEF RoundBy
<1>1. ASSUME NEW l \in 1..9, l > 4
      PROVE  SectionOK(lp, l, CodeAt(lp, l), Plan(n, l))
  <2> DEFINE size == AsmLabels[l]
  <2>1. size \in {5, 4, 3, 2, 1} /\ size <= 5 /\ AsmLabels[l - 1] <= 1 + size
    BY <1>1, AsmSizes
  <2> HIDE DEF size
  <2>2. lp.labels[l] = size /\ lp.labels[l - 1] <= 1 + lp.labels[l]
    BY <2>1 DEF size
  <2>3. l \in Nat \ {0} /\ l # 1 /\ l # 0 /\ lp.labels[l] \in Nat \ {0}
    BY <1>1, <2>1, <2>2
  <2>4. CodeAt(lp, l) = <<round>>
    BY <2>1, <2>2, <2>3 DEF CodeAt, SingleCode
  <2>5. Plan(n, l) = AsmPlan(n, size)
    BY <2>2, <2>3 DEF Plan
  <2>6. AsmPlan(n, size) = <<EncPlan("a", m, 1)>>
    BY <2>1 DEF AsmPlan, SplitIn
  <2>7. lp.params.block \in Nat /\ OutBlock(lp) \in Nat
    BY DEF SizesOK
  <2>8. SectionOK(lp, l, <<EncOps("a", m, offset, t1, t2, lp.params.block)>>, <<EncPlan("a", m, 1)>>)
    BY <1>0, <2>2, <2>3, <2>7, SingleEnc
  <2> QED
    BY <1>0, <2>4, <2>5, <2>6, <2>8
<1> QED
  BY <1>1 DEF SingleLabels

LEMMA SSSE3AsmPlans == LoopOK(Loops["enc_ssse3_asm"]) /\ PlansOK("enc_ssse3_asm")
<1> DEFINE n == "enc_ssse3_asm"
           lp == Loops[n]
           params == enc_loop_ssse3
<1>1. /\ lp.op = "enc" /\ lp.isa = "ssse3" /\ lp.params = params /\ lp.labels = AsmLabels
      /\ lp.big = TRUE /\ lp.restart = FALSE /\ lp.first = <<>> /\ lp.back = 0
      /\ \A s \in {5, 4, 3, 2, 1} : lp.code[s] = <<ROUND_ssse3>>
      /\ \A s \in {36, 18, 9, 6} : lp.code[s] = Section_ssse3(s)
  BY LoopsAre DEF enc_loop_ssse3_asm, AsmLoop, AsmCode
<1>2. params = EncLoopOf("ssse3") /\ params.block = 12 /\ params.lag = 0
  BY DEF EncLoopOf, enc_loop_ssse3, EncLoop
<1> HIDE DEF params
<1>3. SizesOK(lp) /\ LoopOK(lp)
  <2> DEFINE isa == "ssse3"
             lag == IF isa = "avx2" THEN 4 ELSE 0
  <2>1. isa \in EncIsas /\ (lp.first # <<>> <=> isa = "avx2") /\ lp.back \in Nat /\ lp.back <= lag
    BY <1>1 DEF EncIsas
  <2> HIDE DEF lag
  <2>2. SizesOK(lp) /\ IsaOK(lp)
    BY <1>1, <1>2, <2>1, EncSizes DEF lag
  <2>3. LabelsOK(lp)
    BY <1>1, NineLabels
  <2> QED
    BY <2>2, <2>3 DEF LoopOK
<1> HIDE DEF lp
<1>4. /\ lp = Loops[n] /\ Lag(lp) = 0 /\ lp.back - Lag(lp) = 0
      /\ lp.params.block \in Nat /\ lp.params.block = 12 /\ OutBlock(lp) \in Nat
  BY <1>1, <1>2, <1>3 DEF lp, Lag, SizesOK
<1>5. SingleLabels(lp, n)
  <2>1. ROUND_ssse3 = EncOps("a", "a", 0, {"b"}, {"b", "c"}, lp.params.block)
    BY <1>4 DEF ROUND_ssse3, EncOps, SHUF_ssse3, TRAN_ssse3
  <2>2. n \in {"enc_ssse3_asm", "enc_avx_asm", "enc_avx2_asm"} /\ "a" = SplitIn(n)
    BY DEF SplitIn
  <2>3. RoundBy(lp, "a", ROUND_ssse3) /\ SingleCode(lp, ROUND_ssse3)
    BY <1>1, <1>4, <2>1 DEF RoundBy, SingleCode
  <2> HIDE DEF n
  <2> QED
    BY <1>1, <1>3, <1>4, <2>2, <2>3, SingleLabelsOK
<1>6. ASSUME NEW l \in 1..9, l <= 4
      PROVE  SectionOK(lp, l, CodeAt(lp, l), Plan(n, l))
  <2> DEFINE size == AsmLabels[l]
  <2>1. /\ size \in {36, 18, 9, 6} /\ size > 5
        /\ \E last \in Nat : size = 3 * last + 6
        /\ l > 1 => AsmLabels[l - 1] <= size + size
    BY <1>6, AsmSizes
  <2> HIDE DEF size
  <2>2. lp.labels[l] = size /\ (l > 1 => lp.labels[l - 1] <= size + size)
    BY <1>1, <2>1 DEF size
  <2>3. l \in Nat \ {0} /\ l # 0 /\ size \in Nat
    BY <1>6, <2>1
  <2>4. CodeAt(lp, l) = Section_ssse3(size)
    BY <1>1, <2>1, <2>2, <2>3 DEF CodeAt
  <2>5. Plan(n, l) = AsmPlan(n, size)
    BY <1>1, <2>2, <2>3 DEF Plan, lp
  <2>6. AsmPlan(n, size) = PipelinePlan_ssse3(size)
    BY <2>1 DEF AsmPlan
  <2>7. 12 * size = size * lp.params.block
    BY <1>4, <2>3
  <2>8. PICK last \in Nat : size = 3 * last + 6
    BY <2>1
  <2>9. SectionOK(lp, l, Section_ssse3(size), PipelinePlan_ssse3(size))
    BY <1>1, <1>4, <2>2, <2>3, <2>7, <2>8, SectionSSSE3
  <2> QED
    BY <2>4, <2>5, <2>6, <2>9
<1>7. PipelineLabels(lp, n)
  BY <1>6 DEF PipelineLabels
<1>8. PlansOK(n)
  <2> HIDE DEF n
  <2> QED
    BY <1>1, <1>4, <1>5, <1>7, LabelsTogether
<1> QED
  BY <1>3, <1>8 DEF lp

LEMMA AVXLabels ==
  ASSUME NEW n \in {"enc_avx_asm", "enc_avx2_asm"}, NEW lp, lp = Loops[n], lp.op = "enc",
         lp.labels = AsmLabels, lp.restart = FALSE, SizesOK(lp), NEW bytes \in Nat,
         lp.params.block = bytes, NEW offset, offset = lp.back - Lag(lp),
         NEW round, round = ROUND_avx(bytes, offset), SingleCode(lp, round),
         PipelineCode(lp, bytes, offset)
  PROVE  SingleLabels(lp, n) /\ PipelineLabels(lp, n)
<1>1. lp.params.block \in Nat /\ OutBlock(lp) \in Nat
  BY DEF SizesOK
<1>2. SingleLabels(lp, n)
  <2>1. round = EncOps("a", "b", offset, {"c"}, {"c"}, lp.params.block)
    BY DEF ROUND_avx, EncOps, SHUF_avx, TRAN_avx
  <2>2. n \in {"enc_ssse3_asm", "enc_avx_asm", "enc_avx2_asm"} /\ "b" = SplitIn(n)
    BY DEF SplitIn
  <2>3. RoundBy(lp, "b", round)
    BY <2>1 DEF RoundBy
  <2> QED
    BY <2>2, <2>3, SingleLabelsOK
<1>3. ASSUME NEW l \in 1..9, l <= 4
      PROVE  SectionOK(lp, l, CodeAt(lp, l), Plan(n, l))
  <2> DEFINE size == AsmLabels[l]
  <2>1. /\ size \in {36, 18, 9, 6} /\ size > 5
        /\ \E last \in Nat : size = 3 * last + 6
        /\ l > 1 => AsmLabels[l - 1] <= size + size
    BY <1>3, AsmSizes
  <2> HIDE DEF size
  <2>2. lp.labels[l] = size /\ (l > 1 => lp.labels[l - 1] <= size + size)
    BY <2>1 DEF size
  <2>3. l \in Nat \ {0} /\ l # 0 /\ size \in Nat
    BY <1>3, <2>1
  <2>4. CodeAt(lp, l) = Section_avx(bytes, offset, size)
    BY <2>1, <2>2, <2>3 DEF CodeAt, PipelineCode
  <2>5. Plan(n, l) = AsmPlan(n, size)
    BY <2>2, <2>3 DEF Plan
  <2>6. AsmPlan(n, size) = PipelinePlan_avx(size)
    <3>1. n # "enc_ssse3_asm" /\ ~ (size <= 5)
      BY <2>1
    <3> QED
      BY <3>1 DEF AsmPlan
  <2>7. bytes * size = size * lp.params.block
    BY <2>3
  <2>8. PICK last \in Nat : size = 3 * last + 6
    BY <2>1
  <2>9. SectionOK(lp, l, Section_avx(bytes, offset, size), PipelinePlan_avx(size))
    BY <1>1, <2>2, <2>3, <2>7, <2>8, SectionAVX
  <2> QED
    BY <2>4, <2>5, <2>6, <2>9
<1> QED
  BY <1>2, <1>3 DEF PipelineLabels

LEMMA AVXAsmPlans == LoopOK(Loops["enc_avx_asm"]) /\ PlansOK("enc_avx_asm")
<1> DEFINE n == "enc_avx_asm"
           lp == Loops[n]
           params == enc_loop_ssse3
<1>1. /\ lp.op = "enc" /\ lp.isa = "ssse3" /\ lp.params = params /\ lp.labels = AsmLabels
      /\ lp.big = TRUE /\ lp.restart = FALSE /\ lp.first = <<>> /\ lp.back = 0
      /\ \A s \in {5, 4, 3, 2, 1} : lp.code[s] = <<ROUND_avx(12, 0)>>
      /\ \A s \in {36, 18, 9, 6} : lp.code[s] = Section_avx(12, 0, s)
  BY LoopsAre DEF enc_loop_avx_asm, AsmLoop, AsmCode
<1>2. params = EncLoopOf("ssse3") /\ params.block = 12 /\ params.lag = 0
  BY DEF EncLoopOf, enc_loop_ssse3, EncLoop
<1> HIDE DEF params
<1>3. SizesOK(lp) /\ LoopOK(lp)
  <2> DEFINE isa == "ssse3"
             lag == IF isa = "avx2" THEN 4 ELSE 0
  <2>1. isa \in EncIsas /\ (lp.first # <<>> <=> isa = "avx2") /\ lp.back \in Nat /\ lp.back <= lag
    BY <1>1 DEF EncIsas
  <2> HIDE DEF lag
  <2>2. SizesOK(lp) /\ IsaOK(lp)
    BY <1>1, <1>2, <2>1, EncSizes DEF lag
  <2>3. LabelsOK(lp)
    BY <1>1, NineLabels
  <2> QED
    BY <2>2, <2>3 DEF LoopOK
<1> HIDE DEF lp
<1>4. /\ lp = Loops[n] /\ 0 = lp.back - Lag(lp) /\ lp.params.block = 12 /\ 12 \in Nat
      /\ SingleCode(lp, ROUND_avx(12, 0)) /\ PipelineCode(lp, 12, 0)
  BY <1>1, <1>2 DEF lp, Lag, SingleCode, PipelineCode
<1>5. n \in {"enc_avx_asm", "enc_avx2_asm"}
  OBVIOUS
<1> HIDE DEF n
<1>6. SingleLabels(lp, n) /\ PipelineLabels(lp, n)
  BY <1>1, <1>3, <1>4, <1>5, AVXLabels
<1>7. PlansOK(n)
  BY <1>1, <1>4, <1>6, LabelsTogether
<1> QED
  BY <1>3, <1>7 DEF lp, n

LEMMA AVX2AsmPlans == LoopOK(Loops["enc_avx2_asm"]) /\ PlansOK("enc_avx2_asm")
<1> DEFINE n == "enc_avx2_asm"
           lp == Loops[n]
           params == enc_loop_avx2
           offset == -4
<1>1. /\ lp.op = "enc" /\ lp.isa = "avx2" /\ lp.params = params /\ lp.labels = AsmLabels
      /\ lp.big = TRUE /\ lp.restart = FALSE /\ lp.first = <<FirstAvx2>> /\ lp.back = 0
      /\ \A s \in {5, 4, 3, 2, 1} : lp.code[s] = <<ROUND_avx(24, offset)>>
      /\ \A s \in {36, 18, 9, 6} : lp.code[s] = Section_avx(24, offset, s)
  BY LoopsAre DEF enc_loop_avx2_asm, AsmLoop, AsmCode
<1>2. params = EncLoopOf("avx2") /\ params.block = 24 /\ params.lag = 4
  BY DEF EncLoopOf, enc_loop_avx2, EncLoop
<1> HIDE DEF params
<1>3. SizesOK(lp) /\ LoopOK(lp)
  <2> DEFINE isa == "avx2"
             lag == IF isa = "avx2" THEN 4 ELSE 0
  <2>1. isa \in EncIsas /\ (lp.first # <<>> <=> isa = "avx2") /\ lp.back \in Nat /\ lp.back <= lag
    BY <1>1 DEF EncIsas
  <2> HIDE DEF lag
  <2>2. SizesOK(lp) /\ IsaOK(lp)
    BY <1>1, <1>2, <2>1, EncSizes DEF lag
  <2>3. LabelsOK(lp)
    BY <1>1, NineLabels
  <2> QED
    BY <2>2, <2>3 DEF LoopOK
<1>4. SectionOK(lp, 0, CodeAt(lp, 0), Plan(n, 0)) /\ lp.first # <<>>
  <2>1. CodeAt(lp, 0) = <<FirstAvx2>> /\ Plan(n, 0) = <<FirstPlan("a", "b")>>
    BY <1>1 DEF CodeAt, Plan
  <2> HIDE DEF lp
  <2>2. FirstAvx2 = FirstOps("a", "b", {"c"}, {"c"}, 24)
    BY DEF FirstAvx2, FirstOps, SHUF_avx, TRAN_avx
  <2>3. lp.params.block \in Nat /\ OutBlock(lp) \in Nat
    BY <1>3 DEF SizesOK
  <2>4. 24 = lp.params.block - lp.back /\ lp.back \in Nat
    BY <1>1, <1>2
  <2>5. SectionOK(lp, 0, <<FirstOps("a", "b", {"c"}, {"c"}, 24)>>, <<FirstPlan("a", "b")>>)
    BY <1>1, <2>3, <2>4, FirstSection
  <2> QED
    BY <1>1, <2>1, <2>2, <2>5
<1> HIDE DEF lp
<1>5. /\ lp = Loops[n] /\ offset = lp.back - Lag(lp) /\ lp.params.block = 24 /\ 24 \in Nat
      /\ SingleCode(lp, ROUND_avx(24, offset)) /\ PipelineCode(lp, 24, offset)
  BY <1>1, <1>2 DEF lp, Lag, SingleCode, PipelineCode
<1>6. n \in {"enc_avx_asm", "enc_avx2_asm"}
  OBVIOUS
<1> HIDE DEF n, offset
<1>7. SingleLabels(lp, n) /\ PipelineLabels(lp, n)
  BY <1>1, <1>3, <1>5, <1>6, AVXLabels
<1>8. PlansOK(n)
  BY <1>1, <1>4, <1>5, <1>7, LabelsTogether
<1> QED
  BY <1>3, <1>8 DEF lp, n

LEMMA NeonAsmPlans == LoopOK(Loops["enc_neon64_asm"]) /\ PlansOK("enc_neon64_asm")
<1> DEFINE n == "enc_neon64_asm"
           lp == Loops[n]
           params == enc_loop_neon64
<1>1. /\ lp.op = "enc" /\ lp.isa = "neon64" /\ lp.params = params
      /\ lp.labels = <<8, 4, 3, 2, 1>>
      /\ lp.big = TRUE /\ lp.restart = FALSE /\ lp.first = <<>> /\ lp.back = 0
      /\ \A s \in {3, 2, 1} : lp.code[s] = <<SingleNeon64>>
      /\ \A s \in {8, 4} : lp.code[s] = Section_neon64(s)
  BY LoopsAre DEF enc_loop_neon64_asm, AsmLoop
<1>2. params = EncLoopOf("neon64") /\ params.block = 48 /\ params.lag = 0
  BY DEF EncLoopOf, enc_loop_neon64, EncLoop
<1> HIDE DEF params
<1>3. \A l \in 1..5 : l = 1 \/ l = 2 \/ l = 3 \/ l = 4 \/ l = 5
  OBVIOUS
<1>4. /\ Len(lp.labels) = 5 /\ lp.labels[1] = 8 /\ lp.labels[2] = 4 /\ lp.labels[3] = 3
      /\ lp.labels[4] = 2 /\ lp.labels[5] = 1
  BY <1>1
<1>5. SizesOK(lp) /\ LoopOK(lp)
  <2> DEFINE isa == "neon64"
             lag == IF isa = "avx2" THEN 4 ELSE 0
  <2>1. isa \in EncIsas /\ (lp.first # <<>> <=> isa = "avx2") /\ lp.back \in Nat /\ lp.back <= lag
    BY <1>1 DEF EncIsas
  <2> HIDE DEF lag
  <2>2. SizesOK(lp) /\ IsaOK(lp)
    BY <1>1, <1>2, <2>1, EncSizes DEF lag
  <2>3. LabelsOK(lp)
    <3> HIDE DEF lp
    <3>1. lp.big \in BOOLEAN /\ lp.restart = ~ lp.big
      BY <1>1, Zenon
    <3>2. Len(lp.labels) \in Nat /\ Len(lp.labels) >= 1 /\ lp.labels[Len(lp.labels)] = 1
      BY <1>4
    <3>3. \A i \in 1 .. Len(lp.labels) : lp.labels[i] \in Nat \ {0}
      BY <1>3, <1>4
    <3> QED
      BY <3>1, <3>2, <3>3, Zenon DEF LabelsOK
  <2> QED
    BY <2>2, <2>3 DEF LoopOK
<1> HIDE DEF lp
<1>6. lp = Loops[n] /\ lp.back - Lag(lp) = 0 /\ lp.params.block = 48 /\ OutBlock(lp) = 64
  BY <1>1, <1>2 DEF lp, Lag, OutBlock
<1>7. ASSUME NEW l \in 1..5, NEW size \in {8, 4}, lp.labels[l] = size,
             l > 1 => lp.labels[l - 1] <= size + size
      PROVE  SectionOK(lp, l, CodeAt(lp, l), Plan(n, l))
  <2>1. l \in Nat \ {0} /\ ~ (l = 0) /\ size \in Nat /\ size >= 2 /\ size % 2 = 0 /\ ~ (size <= 3)
    BY <1>7
  <2>2. CodeAt(lp, l) = Section_neon64(size)
    BY <1>1, <1>7, <2>1 DEF CodeAt
  <2>3. Plan(n, l) = AsmPlan(n, size)
    BY <1>1, <1>6, <1>7, <2>1 DEF Plan
  <2>4. AsmPlan(n, size) = NeonPlan(size)
    BY <2>1 DEF AsmPlan
  <2>5. SectionOK(lp, l, Section_neon64(size), NeonPlan(size))
    BY <1>1, <1>6, <1>7, <2>1, SectionNeon
  <2> QED
    BY <2>2, <2>3, <2>4, <2>5
<1>8. ASSUME NEW l \in 3..5, NEW size \in {3, 2, 1}, lp.labels[l] = size,
             lp.labels[l - 1] <= 1 + lp.labels[l]
      PROVE  SectionOK(lp, l, CodeAt(lp, l), Plan(n, l))
  <2>1. /\ l \in Nat \ {0} /\ ~ (l = 0) /\ l # 1 /\ size \in Nat /\ size <= 3
        /\ lp.labels[l] \in Nat \ {0}
    BY <1>8
  <2>2. CodeAt(lp, l) = <<SingleNeon64>>
    BY <1>1, <1>8, <2>1 DEF CodeAt
  <2>3. Plan(n, l) = AsmPlan(n, size)
    BY <1>1, <1>6, <1>8, <2>1 DEF Plan
  <2>4. AsmPlan(n, size) = <<SinglePlanNeon64>>
    BY <2>1 DEF AsmPlan
  <2>5. SectionOK(lp, l, <<SingleNeon64>>, <<SinglePlanNeon64>>)
    BY <1>1, <1>6, <1>8, <2>1, SingleNeon
  <2> QED
    BY <2>2, <2>3, <2>4, <2>5
<1>9. ASSUME NEW l \in 1..5
      PROVE  SectionOK(lp, l, CodeAt(lp, l), Plan(n, l))
  <2>1. CASE l = 1
    BY <1>4, <1>7, <2>1
  <2>2. CASE l = 2
    <3>1. lp.labels[l] = 4 /\ lp.labels[l - 1] <= 4 + 4
      BY <1>4, <2>2
    <3> QED
      BY <1>7, <2>2, <3>1
  <2>3. CASE l = 3
    <3>1. lp.labels[l] = 3 /\ lp.labels[l - 1] <= 1 + lp.labels[l] /\ l \in 3..5
      BY <1>4, <2>3
    <3> QED
      BY <1>8, <3>1
  <2>4. CASE l = 4
    <3>1. lp.labels[l] = 2 /\ lp.labels[l - 1] <= 1 + lp.labels[l] /\ l \in 3..5
      BY <1>4, <2>4
    <3> QED
      BY <1>8, <3>1
  <2>5. CASE l = 5
    <3>1. lp.labels[l] = 1 /\ lp.labels[l - 1] <= 1 + lp.labels[l] /\ l \in 3..5
      BY <1>4, <2>5
    <3> QED
      BY <1>8, <3>1
  <2> QED
    BY <1>3, <2>1, <2>2, <2>3, <2>4, <2>5
<1>10. LabelsOf(lp) = 1..5
  BY <1>1, <1>4 DEF LabelsOf
<1>11. PlansOK(n)
  BY <1>9, <1>10 DEF PlansOK, lp
<1> QED
  BY <1>5, <1>11 DEF lp, n

\* Every section of every loop keeps to its plan.
THEOREM PlansAreKept ==
  \A n \in DOMAIN Loops : LoopOK(Loops[n]) /\ PlansOK(n)
BY LoopNames, CEncoderPlans, CDecoderPlans, AVX2Plans, SSSE3AsmPlans, AVXAsmPlans,
   AVX2AsmPlans, NeonAsmPlans

-----------------------------------------------------------------------------
(* Products, which the provers know little about.                          *)

LEMMA Product ==
  ASSUME NEW a \in Int, NEW q \in Int
  PROVE  a * q \in Int /\ (a \in Nat /\ q \in Nat => a * q \in Nat) /\ 0 * q = 0
OBVIOUS

LEMMA ProductOfSum ==
  ASSUME NEW a \in Int, NEW b \in Int, NEW q \in Int, NEW c, c = a + b
  PROVE  c * q = a * q + b * q
OBVIOUS

LEMMA ProductOfNext ==
  ASSUME NEW a \in Int, NEW q \in Int
  PROVE  (a + 1) * q = a * q + q
OBVIOUS

LEMMA ProductMono ==
  ASSUME NEW a \in Int, NEW b \in Int, NEW q \in Nat, a <= b
  PROVE  a * q <= b * q
<1>1. PICK d \in Nat : b = a + d
  <2>1. b - a \in Nat /\ b = a + (b - a)
    OBVIOUS
  <2> QED
    BY <2>1
<1>2. b * q = a * q + d * q
  BY <1>1, ProductOfSum
<1>3. d * q \in Nat /\ a * q \in Int
  BY Product
<1> QED
  BY <1>2, <1>3

\* A sum of blocks is divided up in one way only.
LEMMA OneBlock ==
  ASSUME NEW a \in Int, NEW b \in Int, NEW q \in Nat, NEW i \in 1..q, NEW j \in 1..q,
         a * q + i = b * q + j
  PROVE  a = b /\ i = j
<1>1. ~ (a + 1 <= b)
  <2> SUFFICES ASSUME a + 1 <= b PROVE FALSE
    OBVIOUS
  <2>1. (a + 1) * q <= b * q /\ (a + 1) * q = a * q + q
    BY ProductMono, ProductOfNext
  <2> QED
    BY <2>1, Product
<1>2. ~ (b + 1 <= a)
  <2> SUFFICES ASSUME b + 1 <= a PROVE FALSE
    OBVIOUS
  <2>1. (b + 1) * q <= a * q /\ (b + 1) * q = b * q + q
    BY ProductMono, ProductOfNext
  <2> QED
    BY <2>1, Product
<1>3. a = b
  BY <1>1, <1>2
<1> QED
  BY <1>3, Product

LEMMA QuotientBound ==
  ASSUME NEW x \in Nat, NEW q \in Nat \ {0}
  PROVE  /\ x \div q \in Nat /\ (x \div q) * q <= x /\ x < (x \div q) * q + q
         /\ (q <= x => x \div q >= 1)
<1>1. x \div q \in Nat /\ (x \div q) * q <= x /\ x < (x \div q) * q + q
  OBVIOUS
<1> QED
  BY <1>1

LEMMA QuotientOfProduct ==
  ASSUME NEW a \in Nat, NEW q \in Nat \ {0}
  PROVE  (a * q) \div q = a
<1> DEFINE d == (a * q) \div q
<1>1. a * q \in Nat
  BY Product
<1>2. d \in Nat /\ d * q <= a * q /\ a * q < d * q + q
  BY <1>1, QuotientBound
<1> HIDE DEF d
<1>3. d <= a
  <2> SUFFICES ASSUME a + 1 <= d PROVE FALSE
    BY <1>2
  <2>1. (a + 1) * q <= d * q /\ (a + 1) * q = a * q + q
    BY <1>2, ProductMono, ProductOfNext
  <2> QED
    BY <1>1, <1>2, <2>1
<1>4. a <= d
  <2> SUFFICES ASSUME d + 1 <= a PROVE FALSE
    BY <1>2
  <2>1. (d + 1) * q <= a * q /\ (d + 1) * q = d * q + q
    BY <1>2, ProductMono, ProductOfNext
  <2> QED
    BY <1>1, <1>2, <2>1, Product
<1> QED
  BY <1>2, <1>3, <1>4 DEF d

-----------------------------------------------------------------------------
(* What the rounds of a loop read, and what they make of it.               *)

LEMMA FitsInInput ==
  ASSUME NEW lp, SizesOK(lp), NEW in \in Seq(Byte)
  PROVE  /\ Fits(lp, in) \in Nat /\ Len(in) \in Nat
         /\ Len(in) < lp.params.guard => Fits(lp, in) = 0
         /\ Len(in) >= lp.params.guard =>
              Fits(lp, in) * lp.params.block + lp.params.reserve <= Len(in)
         /\ Len(in) >= lp.params.guard /\ Lag(lp) > 0 => Fits(lp, in) >= 1
<1> DEFINE g == lp.params.guard
           r == lp.params.reserve
           q == lp.params.block
           n == Len(in)
<1>1. q \in Nat \ {0} /\ g \in Nat /\ r \in Nat /\ r <= g /\ (Lag(lp) > 0 => q + r <= g)
  BY DEF SizesOK
<1>2. n \in Nat
  OBVIOUS
<1>3. Fits(lp, in) = IF n < g THEN 0 ELSE (n - r) \div q
  BY DEF Fits
<1> HIDE DEF g, r, q, n
<1>4. CASE n < g
  BY <1>2, <1>3, <1>4, <1>1 DEF n, g
<1>5. CASE ~ (n < g)
  <2> DEFINE x == n - r
  <2>1. x \in Nat /\ (Lag(lp) > 0 => q <= x)
    BY <1>1, <1>2, <1>5
  <2> HIDE DEF x
  <2>2. x \div q \in Nat /\ (x \div q) * q <= x /\ (q <= x => x \div q >= 1)
    BY <1>1, <2>1, QuotientBound
  <2>3. Fits(lp, in) = x \div q
    BY <1>3, <1>5 DEF x
  <2>4. Fits(lp, in) \in Nat /\ Fits(lp, in) * q <= x /\ (Lag(lp) > 0 => Fits(lp, in) >= 1)
    BY <2>1, <2>2, <2>3
  <2>5. Fits(lp, in) * q \in Nat
    BY <1>1, <2>4, Product
  <2>6. Fits(lp, in) * q + r <= n
    BY <1>1, <1>2, <2>4, <2>5 DEF x
  <2> QED
    BY <1>2, <1>5, <2>4, <2>6 DEF n, g, q, r
<1> QED
  BY <1>1, <1>2, <1>4, <1>5

LEMMA BlockInInput ==
  ASSUME NEW lp, SizesOK(lp), NEW in \in Seq(Byte), NEW b \in Nat, b < Fits(lp, in)
  PROVE  /\ Len(in) >= lp.params.guard /\ b * lp.params.block \in Nat
         /\ b * lp.params.block + lp.params.block + lp.params.reserve <= Len(in)
<1> DEFINE q == lp.params.block
           f == Fits(lp, in)
<1>1. f \in Nat /\ Len(in) \in Nat /\ q \in Nat /\ lp.params.reserve \in Nat
      /\ lp.params.guard \in Nat
  BY FitsInInput DEF SizesOK
<1>2. Len(in) >= lp.params.guard
  BY <1>1, FitsInInput
<1>3. f * q + lp.params.reserve <= Len(in)
  BY <1>2, FitsInInput
<1>4. b < f
  OBVIOUS
<1> HIDE DEF f, q
<1>5. (b + 1) * q <= f * q /\ (b + 1) * q = b * q + q
  <2> DEFINE c == b + 1
  <2>1. c \in Int /\ f \in Int /\ q \in Nat /\ c <= f
    BY <1>1, <1>4
  <2> HIDE DEF c
  <2>2. c * q <= f * q
    BY <2>1, ProductMono
  <2> QED
    BY <1>1, <2>2, ProductOfNext DEF c
<1>6. b * q \in Nat /\ f * q \in Nat
  BY <1>1, Product
<1>7. b * q + q + lp.params.reserve <= Len(in)
  BY <1>1, <1>3, <1>5, <1>6
<1> QED
  BY <1>2, <1>6, <1>7 DEF q

LEMMA BlockIsBytes ==
  ASSUME NEW lp, SizesOK(lp), NEW in \in Seq(Byte), NEW b \in Nat, b < Fits(lp, in)
  PROVE  /\ BlockAt(lp, in, b) \in [1 .. lp.params.block -> Byte]
         /\ \A i \in 1 .. lp.params.block :
              b * lp.params.block + i \in 1..Len(in)
<1>1. /\ b * lp.params.block \in Nat /\ lp.params.reserve \in Nat /\ lp.params.block \in Nat
      /\ b * lp.params.block + lp.params.block + lp.params.reserve <= Len(in)
  BY BlockInInput DEF SizesOK
<1>2. \A i \in 1 .. lp.params.block : b * lp.params.block + i \in 1..Len(in)
  <2> DEFINE o == b * lp.params.block
             q == lp.params.block
             r == lp.params.reserve
             n == Len(in)
  <2>1. o \in Nat /\ q \in Nat /\ r \in Nat /\ n \in Nat /\ o + q + r <= n
    BY <1>1
  <2> SUFFICES ASSUME NEW i \in 1..q PROVE o + i \in 1..n
    OBVIOUS
  <2> HIDE DEF o, q, r, n
  <2> QED
    BY <2>1
<1>3. \A i \in 1 .. lp.params.block : in[b * lp.params.block + i] \in Byte
  BY <1>2
<1> QED
  BY <1>2, <1>3 DEF BlockAt

LEMMA LoadedIsRegister ==
  ASSUME NEW lp, SizesOK(lp), NEW in \in Seq(Byte), NEW a \in Int
  PROVE  Loaded(lp, in, a) \in [1 .. WidthOf(lp) -> Byte]
<1>1. ASSUME NEW i \in 1 .. WidthOf(lp)
      PROVE  (IF a + i \in 1..Len(in) THEN in[a + i] ELSE 0) \in Byte
  <2>1. CASE a + i \in 1..Len(in)
    <3> DEFINE j == a + i
    <3>1. j \in 1..Len(in)
      BY <2>1
    <3> HIDE DEF j
    <3>2. in[j] \in Byte
      BY <3>1
    <3> QED
      BY <2>1, <3>2 DEF j
  <2>2. CASE ~ (a + i \in 1..Len(in))
    BY <2>2 DEF Byte
  <2> QED
    BY <2>1, <2>2
<1> QED
  BY <1>1 DEF Loaded

\* The block is where the round looks for it in its register.
LEMMA BlockInRegister ==
  ASSUME NEW lp, SizesOK(lp), NEW in \in Seq(Byte), NEW b \in Nat, b < Fits(lp, in),
         NEW lag \in Nat, lag + lp.params.block <= WidthOf(lp), NEW a \in Int,
         a + lag = b * lp.params.block
  PROVE  \A i \in 1 .. lp.params.block : Loaded(lp, in, a)[lag + i] = BlockAt(lp, in, b)[i]
<1> SUFFICES ASSUME NEW i \in 1 .. lp.params.block
             PROVE  Loaded(lp, in, a)[lag + i] = BlockAt(lp, in, b)[i]
  OBVIOUS
<1>1. lp.params.block \in Nat /\ WidthOf(lp) \in Nat
  BY DEF SizesOK
<1> DEFINE j == lag + i
           o == b * lp.params.block
<1>2. o + i \in 1..Len(in) /\ o \in Nat
  BY BlockIsBytes, BlockInInput
<1>3. j \in 1 .. WidthOf(lp)
  BY <1>1
<1>4. a + j = o + i
  BY <1>2
<1> HIDE DEF j, o
<1>5. Loaded(lp, in, a)[j] = in[o + i]
  BY <1>2, <1>3, <1>4 DEF Loaded
<1> QED
  BY <1>5 DEF j, o, BlockAt

\* Whatever an encoding round has loaded, it makes the characters of its block.
LEMMA DoneEncoding ==
  ASSUME NEW lp, LoopOK(lp), lp.op = "enc", NEW in \in Seq(Byte),
         NEW b \in Nat, b < Fits(lp, in)
  PROVE  Done(lp, in, b) = Wanted(lp, in, b)
<1> DEFINE isa == lp.isa
           q == lp.params.block
           lag == lp.params.lag
           n == q \div 3
           d == BlockAt(lp, in, b)
           a == b * q - lag
<1>0. SizesOK(lp) /\ isa \in EncIsas /\ lp.params = EncLoopOf(isa)
  BY DEF LoopOK, IsaOK
<1>1. /\ WidthOf(lp) = EncLoopOf(isa).width /\ Lag(lp) = lag /\ q = EncLoopOf(isa).block
      /\ lag = EncLoopOf(isa).lag
  BY <1>0 DEF WidthOf, Lag
<1>2. /\ q \in Nat \ {0} /\ n \in Nat \ {0} /\ q = 3 * n /\ lag = (IF isa = "avx2" THEN 4 ELSE 0)
      /\ lag + q <= WidthOf(lp) /\ (isa = "avx2" => q = 24 /\ WidthOf(lp) = 32)
  <2> DEFINE p == EncLoopOf(isa)
  <2>1. /\ p.block \in Nat \ {0} /\ p.block \div 3 \in Nat \ {0} /\ p.block = 3 * (p.block \div 3)
        /\ p.lag = (IF isa = "avx2" THEN 4 ELSE 0) /\ p.lag + p.block <= p.width
        /\ isa = "avx2" => p.block = 24
    BY <1>0, EncParams
  <2>2. isa = "avx2" => p.width = 32
    BY DEF EncLoopOf, enc_loop_avx2, EncLoop
  <2> HIDE DEF p
  <2>3. q = p.block /\ lag = p.lag /\ WidthOf(lp) = p.width
    BY <1>1 DEF p
  <2> QED
    BY <2>1, <2>2, <2>3
<1>3. Wanted(lp, in, b) = CharactersOf(d, n)
  BY DEF Wanted, CharactersOf
<1>4. b * q \in Nat /\ a \in Int /\ lag \in Nat /\ a + lag = b * q
  <2>1. lag \in Nat /\ q \in Nat
    BY <1>2
  <2> HIDE DEF lag, q
  <2>2. b * q \in Nat
    BY <2>1, Product
  <2> QED
    BY <2>1, <2>2
<1>5. d = [j \in 1 .. 3 * n |-> d[j]]
  BY <1>2 DEF BlockAt
<1>6. CASE b = 0 /\ Lag(lp) > 0
  <2> DEFINE r == Loaded(lp, in, 0)
  <2>1. isa = "avx2" /\ n = 8 /\ q = 24 /\ WidthOf(lp) = 32 /\ lag = 4
    <3>1. isa = "avx2"
      BY <1>1, <1>2, <1>6
    <3>2. q = 24 /\ q = 3 * n /\ n \in Nat
      BY <1>2, <3>1
    <3> HIDE DEF n
    <3> QED
      BY <1>2, <3>1, <3>2
  <2>2. r \in [1..32 -> Byte]
    <3>1. Loaded(lp, in, 0) \in [1 .. WidthOf(lp) -> Byte]
      BY <1>0, LoadedIsRegister
    <3> QED
      BY <2>1, <3>1
  <2>3. Raw(lp, in, b) = PermuteDwords(r, <<0, 0, 1, 2, 3, 4, 5, 6>>)
    BY <1>6 DEF Raw
  <2>4. \A i \in 1..24 : r[0 + i] = d[i]
    <3>1. 0 + q <= WidthOf(lp) /\ 0 + 0 = b * q
      BY <1>6, <2>1
    <3>2. \A i \in 1..q : r[0 + i] = d[i]
      BY <1>0, <3>1, BlockInRegister
    <3> QED
      BY <2>1, <3>2
  <2> HIDE DEF r
  <2>5. Translate("avx2", Split("avx2", Raw(lp, in, b))) = CharactersOf(BlockIn(r, 0, 8), 8)
    BY <2>2, <2>3, FirstRoundOfAVX2
  <2>6. BlockIn(r, 0, 8) = d
    <3>1. BlockIn(r, 0, 8) = [j \in 1..24 |-> r[0 + j]]
      BY DEF BlockIn
    <3>2. d = [j \in 1..24 |-> d[j]]
      BY <1>5, <2>1
    <3> HIDE DEF d
    <3> QED
      BY <2>4, <3>1, <3>2
  <2>7. Done(lp, in, b) = Translate("avx2", Split("avx2", Raw(lp, in, b)))
    BY <2>1 DEF Done, Mid
  <2> QED
    BY <1>3, <2>1, <2>5, <2>6, <2>7
<1>7. CASE ~ (b = 0 /\ Lag(lp) > 0)
  <2> DEFINE r == Loaded(lp, in, a)
  <2>1. Raw(lp, in, b) = r
    BY <1>1, <1>7 DEF Raw
  <2>2. r \in [1 .. EncLoopOf(isa).width -> Byte]
    <3>1. a \in Int
      BY <1>4
    <3> HIDE DEF a
    <3>2. Loaded(lp, in, a) \in [1 .. WidthOf(lp) -> Byte]
      BY <1>0, <3>1, LoadedIsRegister
    <3> QED
      BY <1>1, <3>2
  <2>3. \A i \in 1..q : r[lag + i] = d[i]
    <3>1. /\ a \in Int /\ lag \in Nat /\ a + lag = b * lp.params.block
          /\ lag + lp.params.block <= WidthOf(lp)
      BY <1>2, <1>4
    <3> HIDE DEF a, lag
    <3> QED
      BY <1>0, <3>1, BlockInRegister
  <2> HIDE DEF r
  <2>4. EncodesBlock(isa, r, lag, n)
    <3>1. isa \in {"ssse3", "avx2", "avx512", "neon32", "neon64", "32le", "32be", "64le", "64be"}
      BY <1>0 DEF EncIsas
    <3>2. EncodesBlock(isa, r, EncLoopOf(isa).lag, EncLoopOf(isa).block \div 3)
      BY <2>2, <3>1, EncodeRound
    <3> QED
      BY <1>1, <3>2
  <2>5. BlockIn(r, lag, n) = d
    <3>1. BlockIn(r, lag, n) = [j \in 1 .. 3 * n |-> r[lag + j]]
      BY DEF BlockIn
    <3> HIDE DEF d, n
    <3> QED
      BY <1>2, <1>5, <2>3, <3>1
  <2>6. Done(lp, in, b) = Translate(isa, Split(isa, r))
    BY <2>1 DEF Done, Mid
  <2> QED
    BY <1>3, <2>4, <2>5, <2>6 DEF EncodesBlock
<1> QED
  BY <1>6, <1>7

\* A decoding round goes on exactly if its block is data, and then makes its bytes.
LEMMA DoneDecoding ==
  ASSUME NEW lp, LoopOK(lp), lp.op = "dec", NEW in \in Seq(Byte),
         NEW b \in Nat, b < Fits(lp, in)
  PROVE  /\ AcceptsAll(lp.isa, Raw(lp, in, b), Mid(lp, in, b)) <=> DataAt(lp, in, b)
         /\ DataAt(lp, in, b) =>
              /\ IsVector(Done(lp, in, b), OutBlock(lp) + GapOf(lp))
              /\ \A i \in 1 .. OutBlock(lp) : Done(lp, in, b)[i] = Wanted(lp, in, b)[i]
<1> DEFINE isa == lp.isa
           q == lp.params.block
           n == q \div 4
           d == BlockAt(lp, in, b)
           r == Raw(lp, in, b)
           store == lp.params.store
<1>0. SizesOK(lp) /\ isa \in DecIsas /\ lp.params = DecLoopOf(isa)
  BY DEF LoopOK, IsaOK
<1>1. WidthOf(lp) = q /\ Lag(lp) = 0 /\ q = DecLoopOf(isa).block /\ store = DecLoopOf(isa).store
  BY <1>0 DEF WidthOf, Lag
<1>2. /\ q \in Nat \ {0} /\ n \in Nat \ {0} /\ q = 4 * n /\ store \in Nat
      /\ OutBlock(lp) = 3 * n /\ GapOf(lp) = store - 3 * n /\ 3 * n <= store
  BY <1>0, <1>1, DecParams DEF OutBlock, GapOf
<1>3. b * q \in Nat
  BY <1>2, Product
<1>4. r = Loaded(lp, in, b * q)
  <2>1. b * q - 0 = b * q
    BY <1>3
  <2> QED
    BY <1>1, <2>1 DEF Raw
<1>5. r \in [1..q -> Byte]
  BY <1>0, <1>1, <1>3, <1>4, LoadedIsRegister
<1>6. \A i \in 1..q : r[i] = d[i]
  <2>1. b * q + 0 = b * q /\ 0 + q <= WidthOf(lp)
    BY <1>1, <1>2, <1>3
  <2>2. \A i \in 1..q : Loaded(lp, in, b * q)[0 + i] = d[i]
    BY <1>0, <1>3, <2>1, BlockInRegister
  <2> QED
    BY <1>2, <1>4, <2>2
<1> HIDE DEF r
<1>7. DecodesBlock(isa, r, q, store)
  <2>1. isa \in {"ssse3", "avx2", "neon32", "neon64", "32le", "32be"}
    BY <1>0 DEF DecIsas
  <2>2. DecodesBlock(isa, r, DecLoopOf(isa).block, DecLoopOf(isa).store)
    BY <1>1, <1>5, <2>1, DecodeRound
  <2> QED
    BY <1>1, <2>2
<1>8. AllInAlphabet(r, q) <=> DataAt(lp, in, b)
  BY <1>6 DEF AllInAlphabet, DataAt
<1>9. Mid(lp, in, b) = Values(isa, r)
  BY DEF Mid, r
<1>10. AcceptsAll(isa, r, Mid(lp, in, b)) <=> DataAt(lp, in, b)
  BY <1>7, <1>8, <1>9 DEF DecodesBlock
<1>11. ASSUME DataAt(lp, in, b)
       PROVE  /\ IsVector(Done(lp, in, b), OutBlock(lp) + GapOf(lp))
              /\ \A i \in 1 .. OutBlock(lp) : Done(lp, in, b)[i] = Wanted(lp, in, b)[i]
  <2> DEFINE classes == [i \in 1..q |-> base64_table_dec_8bit[d[i]]]
  <2>1. Done(lp, in, b) = BytesOf(ClassesOf(r, q), n, store)
    BY <1>7, <1>8, <1>9, <1>11 DEF Done, DecodesBlock
  <2>2. ClassesOf(r, q) = classes
    BY <1>6 DEF ClassesOf
  <2>3. Wanted(lp, in, b) = [i \in 1 .. 3 * n |-> DecByte(classes, i)]
    BY DEF Wanted
  <2>4. OutBlock(lp) + GapOf(lp) = store
    BY <1>2
  <2> HIDE DEF classes
  <2>5. Done(lp, in, b) = [i \in 1..store |-> IF i <= 3 * n THEN DecByte(classes, i) ELSE 0]
    BY <2>1, <2>2 DEF BytesOf
  <2>6. IsVector(Done(lp, in, b), store)
    BY <2>5 DEF IsVector
  <2>7. \A i \in 1 .. 3 * n : i \in 1..store /\ i <= 3 * n
    BY <1>2
  <2>8. \A i \in 1 .. 3 * n : Done(lp, in, b)[i] = Wanted(lp, in, b)[i]
    BY <2>3, <2>5, <2>7
  <2> QED
    BY <1>2, <2>4, <2>6, <2>8
<1> QED
  BY <1>10, <1>11 DEF r

\* What a round stores.
LEMMA DoneIsWanted ==
  ASSUME NEW lp, LoopOK(lp), NEW in \in Seq(Byte), NEW b \in Nat, b < Fits(lp, in),
         lp.op = "dec" => DataAt(lp, in, b)
  PROVE  /\ IsVector(Done(lp, in, b), OutBlock(lp) + GapOf(lp))
         /\ \A i \in 1 .. OutBlock(lp) : Done(lp, in, b)[i] = Wanted(lp, in, b)[i]
<1>1. CASE lp.op = "dec"
  BY <1>1, DoneDecoding
<1>2. CASE lp.op = "enc"
  <2>1. Done(lp, in, b) = Wanted(lp, in, b)
    BY <1>2, DoneEncoding
  <2>2. OutBlock(lp) = 4 * (lp.params.block \div 3) /\ GapOf(lp) = 0
    BY <1>2 DEF OutBlock, GapOf
  <2>3. OutBlock(lp) \in Nat
    BY DEF LoopOK, SizesOK
  <2>4. OutBlock(lp) + GapOf(lp) = OutBlock(lp)
    BY <2>2, <2>3
  <2>5. IsVector(Wanted(lp, in, b), OutBlock(lp))
    BY <1>2, <2>2 DEF Wanted, IsVector
  <2> QED
    BY <2>1, <2>4, <2>5
<1> QED
  BY <1>1, <1>2 DEF LoopOK, IsaOK

LEMMA VectorLen ==
  ASSUME NEW f, NEW n \in Nat, IsVector(f, n)
  PROVE  Len(f) = n /\ DOMAIN f = 1..n /\ f = [i \in 1..n |-> f[i]]
BY DEF IsVector

\* A store leaves the blocks before it alone.
LEMMA StoredBlock ==
  ASSUME NEW lp, LoopOK(lp), NEW in \in Seq(Byte), NEW b \in Nat, b < Fits(lp, in),
         lp.op = "dec" => DataAt(lp, in, b), MemIs(lp, in, mem, b),
         NEW o, o = b * OutBlock(lp), NEW m, m = Overwrite(o, Done(lp, in, b))
  PROVE  /\ MemIs(lp, in, m, b + 1)
         /\ b = 0 => mem = <<>>
         /\ b > 0 => Len(mem) = o + GapOf(lp)
         /\ Len(m) = o + OutBlock(lp) + GapOf(lp)
         /\ \A i \in 1..o : m[i] = mem[i]
         /\ \A i \in 1 .. OutBlock(lp) : m[o + i] = Wanted(lp, in, b)[i]
<1> DEFINE out == OutBlock(lp)
           gap == GapOf(lp)
           w == out + gap
           v == Done(lp, in, b)
<1>1. out \in Nat \ {0} /\ gap \in Nat /\ w \in Nat \ {0}
  BY DEF LoopOK, SizesOK
<1>2. o \in Nat
  BY <1>1, Product
<1>3. /\ IsVector(v, w) /\ Len(v) = w
      /\ \A i \in 1..out : v[i] = Wanted(lp, in, b)[i]
  BY <1>1, DoneIsWanted, VectorLen
<1> HIDE DEF v
<1>4. /\ b = 0 => mem = <<>> /\ Len(mem) = 0 /\ o = 0
      /\ b > 0 => IsVector(mem, o + gap) /\ Len(mem) = o + gap
  <2>1. b = 0 => mem = <<>> /\ Len(mem) = 0 /\ o = 0
    BY <1>1, Product DEF MemIs
  <2>2. ASSUME b > 0 PROVE IsVector(mem, o + gap) /\ Len(mem) = o + gap
    <3>1. IsVector(mem, o + gap)
      BY <2>2 DEF MemIs
    <3> QED
      BY <1>1, <1>2, <3>1, VectorLen
  <2> QED
    BY <2>1, <2>2
<1>5. Len(mem) \in Nat /\ Len(mem) <= o + w /\ (b > 0 => o <= Len(mem))
  BY <1>1, <1>2, <1>4
<1> HIDE DEF out, gap, w
<1>6. m = [i \in 1 .. o + w |-> IF i \in o + 1 .. o + w THEN v[i - o]
                                ELSE IF i <= Len(mem) THEN mem[i] ELSE Hole]
  <2>1. (IF o + Len(v) > Len(mem) THEN o + Len(v) ELSE Len(mem)) = o + w
    BY <1>1, <1>2, <1>3, <1>5
  <2>2. m = [i \in 1 .. (IF o + Len(v) > Len(mem) THEN o + Len(v) ELSE Len(mem)) |->
               IF i \in o + 1 .. o + Len(v) THEN v[i - o]
               ELSE IF i <= Len(mem) THEN mem[i] ELSE Hole]
    BY Zenon DEF Overwrite, v
  <2> QED
    BY <1>3, <2>1, <2>2
<1>7. o + w \in Nat /\ Len(m) = o + w /\ IsVector(m, o + w)
  BY <1>1, <1>2, <1>6 DEF IsVector
<1>8. ASSUME NEW i \in 1..o PROVE m[i] = mem[i]
  <2>1. b > 0
    BY <1>4, <1>8
  <2>2. i \in 1 .. o + w /\ i \notin o + 1 .. o + w /\ i <= Len(mem)
    BY <1>1, <1>2, <1>5, <2>1
  <2> QED
    BY <1>6, <2>2
<1>9. ASSUME NEW i \in 1..out PROVE m[o + i] = Wanted(lp, in, b)[i]
  <2> DEFINE k == o + i
  <2>1. k \in 1 .. o + w /\ k \in o + 1 .. o + w /\ k - o = i
    BY <1>1, <1>2 DEF w, gap
  <2> HIDE DEF k
  <2>2. m[k] = v[i]
    BY <1>6, <2>1
  <2> QED
    BY <1>3, <2>2 DEF k
<1>10. (b + 1) * out + gap = o + w /\ b * out = o
  <2>1. (b + 1) * out = b * out + out
    BY <1>1, ProductOfNext
  <2>2. b * out = o
    BY DEF out
  <2> QED
    BY <1>1, <1>2, <2>1, <2>2 DEF w
<1>11. ASSUME NEW c \in 0 .. b, NEW i \in 1..out
       PROVE  m[c * out + i] = Wanted(lp, in, c)[i]
  <2>1. CASE c = b
    BY <1>9, <1>10, <2>1
  <2>2. CASE c < b
    <3>1. mem[c * out + i] = Wanted(lp, in, c)[i]
      BY <2>2 DEF MemIs, out
    <3>2. c * out + out <= o /\ c * out \in Nat
      <4> DEFINE h == c + 1
      <4>1. h \in Int /\ h <= b
        BY <2>2
      <4> HIDE DEF h
      <4>2. h * out <= b * out
        BY <1>1, <4>1, ProductMono
      <4>3. (c + 1) * out = c * out + out /\ c * out \in Nat
        BY <1>1, ProductOfNext, Product
      <4> QED
        BY <1>10, <4>2, <4>3 DEF h
    <3>3. c * out + i \in 1..o
      BY <1>1, <1>2, <3>2
    <3> QED
      BY <1>8, <3>1, <3>3
  <2> QED
    BY <2>1, <2>2
<1>12. MemIs(lp, in, m, b + 1)
  <2>1. b + 1 # 0 /\ (b + 1) - 1 = b
    OBVIOUS
  <2>2. IsVector(m, (b + 1) * out + gap)
    BY <1>7, <1>10
  <2>3. \A c \in 0 .. (b + 1) - 1 : \A i \in 1..out : m[c * out + i] = Wanted(lp, in, c)[i]
    BY <1>11, <2>1
  <2> QED
    BY <2>1, <2>2, <2>3 DEF MemIs, out, gap
<1>13. Len(m) = o + out + gap
  BY <1>1, <1>2, <1>7 DEF w
<1> QED
  BY <1>4, <1>8, <1>9, <1>12, <1>13 DEF out, gap

-----------------------------------------------------------------------------
(* Where the machine is.                                                   *)

LEMMA CallFacts ==
  ASSUME CallInv
  PROVE  /\ LoopOK(Lp) /\ LabelsOK(Lp) /\ SizesOK(Lp) /\ IsaOK(Lp) /\ PlansOK(name)
         /\ Width = WidthOf(Lp) /\ Out(Block) = OutBlock(Lp)
         /\ input \in Seq(Byte) /\ Fit \in Nat /\ Block \in Nat \ {0}
         /\ OutBlock(Lp) \in Nat \ {0}
<1>1. LoopOK(Lp) /\ PlansOK(name)
  BY PlansAreKept DEF CallInv, Lp
<1>2. LabelsOK(Lp) /\ SizesOK(Lp) /\ IsaOK(Lp)
  BY <1>1 DEF LoopOK
<1>3. Fit \in Nat
  BY <1>2, FitsInInput DEF CallInv, Fit
<1>4. Width = WidthOf(Lp) /\ Out(Block) = OutBlock(Lp)
  BY DEF Width, WidthOf, Out, OutBlock, Block
<1> QED
  BY <1>1, <1>2, <1>3, <1>4 DEF CallInv, SizesOK, Block

\* The point after the next operation.
There == After(Code, Plan(name, label), part, ip)

\* The next operation leads from one point of the plan to the next.
LEMMA AtStep ==
  ASSUME CallInv, PlaceInv, pc = "code"
  PROVE  /\ StepOK(Lp, label, Operation, Here, There)
         /\ AtEnd => Operation.op = "advance" /\ There = Rest
         /\ ~ AtEnd => IF ip < Len(Code[part])
                       THEN There = Plan(name, label)[part][ip + 1]
                       ELSE part + 1 \in 1 .. Len(Code) /\ 1 \in 1 .. Len(Code[part + 1])
                            /\ There = Plan(name, label)[part + 1][1]
<1> DEFINE code == Code
           plan == Plan(name, label)
<1>1. label \in LabelsOf(Lp) /\ part \in 1 .. Len(code) /\ ip \in 1 .. Len(code[part])
  BY DEF PlaceInv
<1>2. SectionOK(Lp, label, code, plan)
  BY <1>1, CallFacts DEF PlansOK, Lp, Code, CodeAt
<1>3. Operation = code[part][ip] /\ Here = plan[part][ip] /\ There = After(code, plan, part, ip)
      /\ (AtEnd <=> part = Len(code) /\ ip = Len(code[part]))
  BY DEF Operation, Here, There, AtEnd
<1> HIDE DEF code, plan
<1>4. StepOK(Lp, label, Operation, Here, There)
  BY <1>1, <1>2, <1>3 DEF SectionOK
<1>5. AtEnd => Operation.op = "advance" /\ There = Rest
  BY <1>1, <1>2, <1>3 DEF SectionOK, After
<1>6. ASSUME ~ AtEnd
      PROVE  IF ip < Len(code[part])
             THEN There = plan[part][ip + 1]
             ELSE /\ part + 1 \in 1 .. Len(code) /\ 1 \in 1 .. Len(code[part + 1])
                  /\ There = plan[part + 1][1]
  <2>1. CASE ip < Len(code[part])
    BY <1>3, <2>1 DEF After
  <2>2. CASE ~ (ip < Len(code[part]))
    <3>1. ip = Len(code[part])
      BY <1>1, <2>2
    <3>2. part < Len(code)
      BY <1>1, <1>3, <1>6, <3>1
    <3>3. part + 1 \in 1 .. Len(code)
      BY <1>1, <3>2
    <3>4. Len(code[part + 1]) >= 1
      BY <1>2, <3>3 DEF SectionOK
    <3> QED
      BY <1>3, <2>2, <3>1, <3>2, <3>3, <3>4 DEF After
  <2> QED
    BY <2>1, <2>2
<1> QED
  BY <1>4, <1>5, <1>6 DEF code, plan

LEMMA OnwardStep ==
  ASSUME CallInv, PlaceInv, pc = "code", ~ AtEnd, Onward,
         name' = name, label' = label, pc' = "code"
  PROVE  /\ Lp' = Lp /\ Code' = Code /\ Here' = There
         /\ part' \in 1 .. Len(Code) /\ ip' \in 1 .. Len(Code[part'])
<1>1. Lp' = Lp
  BY DEF Lp
<1>2. Code' = Code
  BY <1>1 DEF Code
<1>3. Plan(name, label)' = Plan(name, label)
  OBVIOUS
<1>4. Here' = Plan(name, label)[part'][ip']
  BY <1>3 DEF Here
<1>5. part \in 1 .. Len(Code) /\ ip \in 1 .. Len(Code[part])
  BY DEF PlaceInv
<1>6. CASE ip < Len(Code[part])
  <2>1. ip' = ip + 1 /\ part' = part /\ There = Plan(name, label)[part][ip + 1]
    BY <1>6, AtStep DEF Onward
  <2>2. ip' \in 1 .. Len(Code[part'])
    BY <1>5, <1>6, <2>1
  <2> QED
    BY <1>1, <1>2, <1>4, <1>5, <2>1, <2>2
<1>7. CASE ~ (ip < Len(Code[part]))
  <2>1. ip' = 1 /\ part' = part + 1
    BY <1>7 DEF Onward
  <2>2. /\ part + 1 \in 1 .. Len(Code) /\ 1 \in 1 .. Len(Code[part + 1])
        /\ There = Plan(name, label)[part + 1][1]
    BY <1>7, AtStep
  <2> QED
    BY <1>1, <1>2, <1>4, <2>1, <2>2
<1> QED
  BY <1>6, <1>7

LEMMA LeftFacts ==
  ASSUME CallInv, CountInv, PlaceInv, Running
  PROVE  /\ Left \in Nat /\ Base \in Nat /\ Base + Left = Fit
         /\ loops \in Nat /\ rounds \in Nat
         /\ pc = "code" => Due \in Nat /\ Due <= Left
<1>1. loops \in Nat /\ rounds \in Nat /\ Left <= Fit
  BY DEF CountInv
<1>2. Fit \in Nat /\ LabelsOK(Lp)
  BY CallFacts
<1>3. Lp.labels[1] \in Nat \ {0} /\ Lp.big \in BOOLEAN
  BY <1>2 DEF LabelsOK
<1> DEFINE p == loops * Lp.labels[1]
           first == IF pc = "code" /\ label = 0 THEN 1 ELSE 0
<1>4. p \in Nat /\ (loops > 0 => Lp.labels[1] <= p)
  <2>1. p \in Nat
    BY <1>1, <1>3, Product
  <2>2. loops > 0 => 1 * Lp.labels[1] <= loops * Lp.labels[1]
    BY <1>1, <1>3, ProductMono
  <2> QED
    BY <1>3, <2>1, <2>2
<1>5. Left = (IF Lp.big THEN p ELSE 0) + rounds + first
  BY DEF Left
<1> HIDE DEF p
<1>6. Left \in Nat
  BY <1>1, <1>4, <1>5
<1>7. Base \in Nat /\ Base + Left = Fit
  BY <1>1, <1>2, <1>6 DEF Base
<1>8. ASSUME pc = "code" PROVE Due \in Nat /\ Due <= Left
  <2>1. CASE label = 0
    <3>1. Due = 1 /\ first = 1
      BY <1>8, <2>1 DEF Due
    <3> QED
      BY <1>1, <1>4, <1>5, <3>1
  <2>2. CASE label # 0 /\ AtBig
    <3>1. Due = Lp.labels[1] /\ loops > 0 /\ Lp.big /\ first = 0
      BY <1>8, <2>2 DEF Due, PlaceInv, AtBig
    <3> QED
      BY <1>1, <1>3, <1>4, <1>5, <3>1
  <2>3. CASE label # 0 /\ ~ AtBig
    <3>1. Due = rounds
      BY <2>3 DEF Due
    <3> QED
      BY <1>1, <1>4, <1>5, <3>1
  <2> QED
    BY <2>1, <2>2, <2>3
<1> QED
  BY <1>1, <1>6, <1>7, <1>8

\* A block that the section may still count is one of those booked.
LEMMA BlockFits ==
  ASSUME IndInv, pc = "code", NEW k \in 0 .. Here.due - 1
  PROVE  /\ Base \in Nat /\ Base + k \in Nat /\ Base + k < Fit
         /\ label = 0 => Base = 0 /\ k = 0 /\ Lag(Lp) > 0
         /\ label # 0 /\ Lag(Lp) > 0 => Base > 0
<1>1. CallInv /\ CountInv /\ PlaceInv /\ Running /\ pc = "code"
  BY DEF IndInv, Running
<1>2. /\ Left \in Nat /\ Base \in Nat /\ Base + Left = Fit /\ Due \in Nat /\ Due <= Left
      /\ Fit \in Nat
  BY <1>1, LeftFacts, CallFacts
<1>3. Here.due \in Nat /\ Here.due <= Due
  BY <1>1 DEF PlaceInv, TypedPoint
<1>4. Base + k \in Nat /\ Base + k < Fit
  BY <1>2, <1>3
<1>5. Lp.first # <<>> <=> Lag(Lp) > 0
  BY <1>1, CallFacts DEF SizesOK
<1>6. ASSUME label = 0 PROVE Base = 0 /\ k = 0 /\ Lag(Lp) > 0
  <2>1. Left = Fit /\ Due = 1
    BY <1>1, <1>6 DEF CountInv, Due
  <2>2. Lp.first # <<>>
    BY <1>1, <1>6 DEF PlaceInv, LabelsOf
  <2> QED
    BY <1>2, <1>3, <1>5, <2>1, <2>2
<1>7. ASSUME label # 0, Lag(Lp) > 0 PROVE Base > 0
  <2>1. Left < Fit
    BY <1>1, <1>5, <1>7 DEF CountInv
  <2> QED
    BY <1>2, <2>1
<1> QED
  BY <1>2, <1>4, <1>6, <1>7

-----------------------------------------------------------------------------
(* Steps inside a section.                                                 *)

Within ==
  /\ pc = "code" /\ pc' = "code" /\ ~ AtEnd /\ Onward
  /\ UNCHANGED <<name, input, slen, olen, loops, rounds, label>>

LEMMA WithinStep ==
  ASSUME IndInv, Within, TypedPoint(There), There.due = Here.due
  PROVE  /\ Lp' = Lp /\ Here' = There /\ Base' = Base /\ Fit' = Fit /\ Block' = Block
         /\ pc' = "code" /\ label' = label
         /\ CallInv' /\ EnterInv' /\ BookedInv' /\ CountInv' /\ PlaceInv' /\ ReturnedInv'
<1>1. CallInv /\ CountInv /\ PlaceInv /\ BookedInv
  BY DEF IndInv
<1>2. /\ pc = "code" /\ pc' = "code" /\ ~ AtEnd /\ Onward /\ name' = name /\ input' = input
      /\ slen' = slen /\ olen' = olen /\ loops' = loops /\ rounds' = rounds /\ label' = label
  BY DEF Within
<1>3. /\ Lp' = Lp /\ Code' = Code /\ Here' = There
      /\ part' \in 1 .. Len(Code) /\ ip' \in 1 .. Len(Code[part'])
  BY <1>1, <1>2, OnwardStep
<1>4. Fit' = Fit /\ Block' = Block /\ Left' = Left
  BY <1>2, <1>3 DEF Fit, Block, Left
<1>5. Base' = Base
  BY <1>4 DEF Base
<1>6. CallInv'
  BY <1>1, <1>2 DEF CallInv
<1>7. EnterInv' /\ ReturnedInv'
  BY <1>2 DEF EnterInv, ReturnedInv
<1>8. BookedInv'
  BY <1>1, <1>2, <1>3, <1>4 DEF BookedInv, Running
<1>9. CountInv'
  <2>1. Running
    BY <1>2 DEF Running
  <2>2. /\ loops \in Nat /\ rounds \in Nat
        /\ IF Lp.big THEN rounds < Lp.labels[1] ELSE loops = 0
        /\ label > 1 => rounds < Lp.labels[label - 1] /\ loops = 0
        /\ Left <= Fit
        /\ IF label = 0 THEN Left = Fit ELSE Lp.first # <<>> => Left < Fit
    BY <1>1, <2>1 DEF CountInv
  <2> QED
    BY <1>2, <1>3, <1>4, <2>2 DEF CountInv
<1>10. PlaceInv'
  <2>1. AtBig' = AtBig
    BY <1>2, <1>3 DEF AtBig
  <2>2. Due' = Due
    BY <1>2, <1>3, <2>1 DEF Due
  <2>3. label \in LabelsOf(Lp) /\ Here.due <= Due /\ (AtBig => loops > 0)
    BY <1>1, <1>2 DEF PlaceInv
  <2>4. TypedPoint(Here)'
    BY <1>3 DEF TypedPoint
  <2> QED
    BY <1>2, <1>3, <2>1, <2>2, <2>3, <2>4 DEF PlaceInv
<1> QED
  BY <1>2, <1>3, <1>4, <1>5, <1>6, <1>7, <1>8, <1>9, <1>10

\* The invariant after such a step.
LEMMA WithinInv ==
  ASSUME IndInv, Within, TypedPoint(There), There.due = Here.due,
         src' = (Base + There.moved) * Block - (IF label = 0 THEN 0 ELSE Lp.back),
         dst' = (Base + There.written) * OutBlock(Lp),
         Holds(Lp, input, label, reg', Base, There),
         MemIs(Lp, input, mem', Base + There.stored),
         AllData(Lp, input, Base + There.passed)
  PROVE  IndInv'
<1>1. /\ Lp' = Lp /\ Here' = There /\ Base' = Base /\ Fit' = Fit /\ Block' = Block
      /\ pc' = "code" /\ label' = label
      /\ CallInv' /\ EnterInv' /\ BookedInv' /\ CountInv' /\ PlaceInv' /\ ReturnedInv'
  BY WithinStep
<1>2. input' = input
  BY DEF Within
<1>3. PointerInv'
  BY <1>1 DEF PointerInv
<1>4. FactsInv'
  BY <1>1, <1>2 DEF FactsInv
<1>5. OutputInv'
  BY <1>1, <1>2 DEF OutputInv
<1> QED
  BY <1>1, <1>3, <1>4, <1>5 DEF IndInv

LEMMA WhichStep ==
  ASSUME CallInv, PlaceInv, pc = "code"
  PROVE  /\ Operation.op = "load" => LoadOK(Lp, label, Operation, Here, There) /\ ~ AtEnd
         /\ Operation.op \in {"shuf", "tran", "permute"} =>
              CalculationOK(Lp, Operation, Here, There) /\ ~ AtEnd
         /\ Operation.op = "test" => TestOK(Lp, Operation, Here, There) /\ ~ AtEnd
         /\ Operation.op = "stor" => StorOK(Lp, Operation, Here, There) /\ ~ AtEnd
         /\ Operation.op = "advance" => AdvanceOK(Lp, label, Operation, Here, There)
<1>1. StepOK(Lp, label, Operation, Here, There) /\ (AtEnd => Operation.op = "advance")
  BY AtStep
<1> QED
  BY <1>1 DEF StepOK

\* What is known at an operation.
LEMMA KnownHere ==
  ASSUME IndInv, pc = "code"
  PROVE  /\ TypedPoint(Here) /\ Base \in Nat /\ Block \in Nat \ {0} /\ OutBlock(Lp) \in Nat \ {0}
         /\ src = (Base + Here.moved) * Block - (IF label = 0 THEN 0 ELSE Lp.back)
         /\ dst = (Base + Here.written) * OutBlock(Lp) /\ Lp.back \in Nat /\ Lag(Lp) \in Nat
         /\ Holds(Lp, input, label, reg, Base, Here)
         /\ MemIs(Lp, input, mem, Base + Here.stored)
         /\ AllData(Lp, input, Base + Here.passed)
<1>1. CallInv /\ CountInv /\ PlaceInv /\ PointerInv /\ FactsInv /\ OutputInv /\ Running
  BY DEF IndInv, Running
<1>2. TypedPoint(Here)
  BY <1>1 DEF PlaceInv
<1>3. /\ Base \in Nat /\ Block \in Nat \ {0} /\ OutBlock(Lp) \in Nat \ {0}
      /\ Lp.back \in Nat /\ Lag(Lp) \in Nat
  BY <1>1, LeftFacts, CallFacts DEF SizesOK
<1>4. /\ src = (Base + Here.moved) * Block - (IF label = 0 THEN 0 ELSE Lp.back)
      /\ dst = (Base + Here.written) * OutBlock(Lp)
  BY <1>1 DEF PointerInv
<1>5. Holds(Lp, input, label, reg, Base, Here)
  BY <1>1 DEF FactsInv
<1>6. MemIs(Lp, input, mem, Base + Here.stored) /\ AllData(Lp, input, Base + Here.passed)
  BY <1>1 DEF OutputInv
<1> QED
  BY <1>2, <1>3, <1>4, <1>5, <1>6

LEMMA HoldsPut ==
  ASSUME NEW v, NEW r, NEW temps, NEW s, NEW t, NEW k, NEW stage,
         Holds(Lp, input, label, reg, Base, s), Facts(s, t, {r} \cup temps, <<r, stage, k>>),
         t.due = s.due, k \in 0 .. s.due - 1, stage = "first" => label = 0,
         v = Content(Lp, input, stage, Base + k)
  PROVE  Holds(Lp, input, label, Put(r, v, temps), Base, t)
<1> DEFINE p == Put(r, v, temps)
           new == <<r, stage, k>>
<1>1. p = [x \in (DOMAIN reg \ temps) \cup {r} |-> IF x = r THEN v ELSE reg[x]]
  BY DEF Put
<1>2. r \in DOMAIN p /\ p[r] = v
  BY <1>1
<1>3. \A x \in DOMAIN reg : x \notin {r} \cup temps => x \in DOMAIN p /\ p[x] = reg[x]
  BY <1>1
<1> HIDE DEF p
<1>4. ASSUME NEW f \in t.facts
      PROVE  /\ f[3] \in 0 .. t.due - 1 /\ (f[2] = "first" => label = 0)
             /\ f[1] \in DOMAIN p /\ p[f[1]] = Content(Lp, input, f[2], Base + f[3])
  <2>1. f = new \/ (f \in s.facts /\ f[1] \notin {r} \cup temps)
    BY <1>4 DEF Facts
  <2>2. CASE f = new
    <3>1. f[1] = r /\ f[2] = stage /\ f[3] = k
      BY <2>2
    <3> QED
      BY <1>2, <3>1
  <2>3. CASE f \in s.facts /\ f[1] \notin {r} \cup temps
    <3>1. /\ f[3] \in 0 .. s.due - 1 /\ (f[2] = "first" => label = 0)
          /\ f[1] \in DOMAIN reg /\ reg[f[1]] = Content(Lp, input, f[2], Base + f[3])
      BY <2>3 DEF Holds
    <3> QED
      BY <1>3, <2>3, <3>1
  <2> QED
    BY <2>1, <2>2, <2>3
<1> QED
  BY <1>4 DEF Holds, p

-----------------------------------------------------------------------------
(* Loads.                                                                  *)

LEMMA AddressIs ==
  ASSUME IndInv, At("load"), NEW k, k = Here.moved + Operation.round,
         NEW b, b = Base + k
  PROVE  /\ k \in 0 .. Here.due - 1
         /\ Address = b * Block - (IF label = 0 THEN 0 ELSE Lag(Lp))
<1>1. CallInv /\ PlaceInv /\ pc = "code" /\ Operation.op = "load"
  BY DEF IndInv, At
<1>2. LoadOK(Lp, label, Operation, Here, There)
  BY <1>1, WhichStep
<1> DEFINE s == Here
           r == Operation.round
           back == Lp.back
           lag == Lag(Lp)
           q == Block
<1>3. /\ r \in Nat /\ s.moved + r < s.due
      /\ Operation.offset = (IF label = 0 THEN 0 ELSE back - lag)
  BY <1>2 DEF LoadOK
<1>4. /\ s.moved \in Nat /\ s.due \in Nat /\ Base \in Nat /\ q \in Nat
      /\ back \in Nat /\ lag \in Nat
      /\ src = (Base + s.moved) * q - (IF label = 0 THEN 0 ELSE back)
  BY <1>1, KnownHere DEF TypedPoint
<1>5. Address = src + r * q + Operation.offset
  BY DEF Address, Block
<1> HIDE DEF s, r, back, lag, q
<1>6. k = s.moved + r
  BY DEF s, r
<1>7. k \in 0 .. s.due - 1 /\ b = (Base + s.moved) + r
  BY <1>3, <1>4, <1>6
<1> DEFINE a == Base + s.moved
<1>8. a \in Int /\ r \in Int /\ q \in Int /\ b = a + r
  BY <1>3, <1>4, <1>7
<1>9. src = a * q - (IF label = 0 THEN 0 ELSE back)
  BY <1>4
<1> HIDE DEF a
<1>10. a * q \in Int /\ r * q \in Int
  BY <1>8, Product
<1>11. \A c : c = a + r => c * q = a * q + r * q
  BY <1>8, ProductOfSum
<1>12. Address = b * q - (IF label = 0 THEN 0 ELSE lag)
  <2>1. b * q = a * q + r * q
    BY <1>8, <1>11
  <2> QED
    BY <1>3, <1>4, <1>5, <1>9, <1>10, <2>1
<1> QED
  BY <1>7, <1>12 DEF s, q, lag

LEMMA LoadInInput ==
  ASSUME IndInv, At("load")
  PROVE  Address >= 0 /\ Address + Width <= Len(input)
<1>1. CallInv /\ PlaceInv /\ pc = "code"
  BY DEF IndInv, At
<1> DEFINE k == Here.moved + Operation.round
           b == Base + k
           q == Block
           lag == Lag(Lp)
           w == WidthOf(Lp)
           reserve == Lp.params.reserve
           n == Len(input)
<1>2. k \in 0 .. Here.due - 1 /\ Address = b * q - (IF label = 0 THEN 0 ELSE lag)
  BY AddressIs
<1> HIDE DEF k
<1>3. /\ Base \in Nat /\ b \in Nat /\ b < Fit /\ (label = 0 => Base = 0 /\ k = 0 /\ lag > 0)
      /\ (label # 0 /\ lag > 0 => Base > 0)
  BY <1>1, <1>2, BlockFits
<1>4. /\ SizesOK(Lp) /\ input \in Seq(Byte) /\ q \in Nat \ {0} /\ lag \in Nat /\ lag <= q
      /\ w \in Nat /\ w <= q + reserve + lag /\ reserve \in Nat
      /\ (lag > 0 => w <= Lp.params.guard) /\ Lp.params.guard \in Nat
  BY <1>1, CallFacts DEF SizesOK, Block
<1>5. n \in Nat /\ n >= Lp.params.guard /\ b * q \in Nat /\ b * q + q + reserve <= n
  BY <1>3, <1>4, BlockInInput DEF Fit, Block
<1>6. Width = w
  BY <1>1, CallFacts
<1>7. CASE label = 0
  <2>1. b = 0
    BY <1>3, <1>7
  <2>2. b * q = 0
    BY <1>4, <2>1, Product
  <2> HIDE DEF b, q, lag, w, reserve, n
  <2>3. Address = 0 /\ w <= n /\ w \in Nat
    BY <1>2, <1>3, <1>4, <1>5, <1>7, <2>2
  <2> QED
    BY <1>6, <2>3 DEF n
<1>8. CASE label # 0
  <2>1. lag > 0 => q <= b * q
    <3>1. ASSUME lag > 0 PROVE 1 <= b
      BY <1>3, <1>8, <1>2, <3>1
    <3> HIDE DEF b, q
    <3>2. lag > 0 => 1 * q <= b * q
      BY <1>3, <1>4, <3>1, ProductMono
    <3> QED
      BY <1>4, <3>2
  <2> DEFINE x == b * q
  <2>2. Address = x - lag /\ x \in Nat /\ x + q + reserve <= n /\ (lag > 0 => q <= x)
    BY <1>2, <1>5, <1>8, <2>1
  <2> HIDE DEF x, b, q, lag, w, reserve, n
  <2>3. Address >= 0 /\ Address + w <= n
    BY <1>4, <1>5, <2>2
  <2> QED
    BY <1>6, <2>3 DEF n
<1> QED
  BY <1>7, <1>8

\* The pointer has moved by whole blocks.
LEMMA PointerMoves ==
  ASSUME NEW base \in Nat, NEW m \in Nat, NEW n \in Nat, NEW q \in Nat, NEW o \in Int,
         NEW x, x = (base + m) * q - o, NEW inc, inc = (n - m) * q
  PROVE  x + inc = (base + n) * q - o
<1> DEFINE a == base + m
           d == n - m
           c == base + n
<1>1. a \in Int /\ d \in Int /\ c = a + d
  OBVIOUS
<1>2. x = a * q - o /\ inc = d * q
  OBVIOUS
<1> HIDE DEF a, d, c
<1>3. c * q = a * q + d * q
  BY <1>1, ProductOfSum
<1>4. a * q \in Int /\ d * q \in Int
  BY <1>1, Product
<1>5. x + inc = c * q - o
  BY <1>2, <1>3, <1>4
<1> QED
  BY <1>5 DEF c

\* What is loaded is the block on its way.
LEMMA LoadedContent ==
  ASSUME IndInv, At("load"), NEW k, k = Here.moved + Operation.round,
         NEW stage, stage = (IF label = 0 THEN "first" ELSE "raw")
  PROVE  Loaded(Lp, input, Address) = Content(Lp, input, stage, Base + k)
<1> DEFINE b == Base + k
           q == Block
           lag == Lag(Lp)
<1>1. k \in 0 .. Here.due - 1 /\ Address = b * q - (IF label = 0 THEN 0 ELSE lag)
  BY AddressIs
<1>2. pc = "code"
  BY DEF At
<1>3. /\ Base \in Nat /\ b \in Nat /\ (label = 0 => Base = 0 /\ k = 0)
      /\ (label # 0 /\ lag > 0 => Base > 0)
  BY <1>1, <1>2, BlockFits
<1>4. q \in Nat /\ lag \in Nat
  BY <1>2, KnownHere
<1>5. CASE label = 0
  <2>1. b = 0
    BY <1>3, <1>5
  <2>2. b * q = 0
    BY <1>4, <2>1, Product
  <2> HIDE DEF b, q
  <2>3. Address = 0
    BY <1>1, <1>5, <2>2
  <2>4. stage = "first"
    BY <1>5
  <2> QED
    BY <2>3, <2>4 DEF Content
<1>6. CASE label # 0
  <2>1. stage = "raw"
    BY <1>6
  <2>2. ~ (b = 0 /\ lag > 0)
    BY <1>1, <1>3, <1>6
  <2>3. Raw(Lp, input, b) = Loaded(Lp, input, b * q - lag)
    BY <2>2 DEF Raw, Block
  <2> HIDE DEF b, q, lag
  <2>4. Address = b * q - lag
    BY <1>1, <1>6
  <2>5. Content(Lp, input, "raw", b) = Raw(Lp, input, b)
    BY DEF Content
  <2> QED
    BY <2>1, <2>3, <2>4, <2>5 DEF b
<1> QED
  BY <1>5, <1>6

LEMMA LoadingStep ==
  ASSUME IndInv, Loading
  PROVE  IndInv'
<1> DEFINE s == Here
           t == There
           k == Here.moved + Operation.round
           stage == IF label = 0 THEN "first" ELSE "raw"
           r == Operation.to
           v == Loaded(Lp, input, Address)
<1>1. CallInv /\ PlaceInv /\ pc = "code" /\ At("load") /\ Operation.op = "load"
  BY DEF IndInv, Loading, At
<1>2. LoadOK(Lp, label, Operation, s, t) /\ ~ AtEnd
  BY <1>1, WhichStep
<1>3. Within
  BY <1>1, <1>2 DEF Loading, Within, call
<1>4. /\ t.moved \in Nat /\ Operation.inc = (t.moved - s.moved) * Block
      /\ Facts(s, t, {r}, <<r, stage, k>>) /\ SameCounts(s, t)
  BY <1>2 DEF LoadOK, Block
<1>5. /\ t.stored = s.stored /\ t.passed = s.passed /\ t.written = s.written /\ t.due = s.due
  BY <1>4 DEF SameCounts
<1>6. /\ TypedPoint(s) /\ Base \in Nat /\ Block \in Nat /\ Lp.back \in Nat
      /\ src = (Base + s.moved) * Block - (IF label = 0 THEN 0 ELSE Lp.back)
      /\ dst = (Base + s.written) * OutBlock(Lp)
      /\ Holds(Lp, input, label, reg, Base, s)
      /\ MemIs(Lp, input, mem, Base + s.stored)
      /\ AllData(Lp, input, Base + s.passed)
  BY <1>1, KnownHere
<1>7. TypedPoint(t)
  BY <1>4, <1>5, <1>6 DEF TypedPoint
<1>8. src' = (Base + t.moved) * Block - (IF label = 0 THEN 0 ELSE Lp.back)
  <2> DEFINE o == IF label = 0 THEN 0 ELSE Lp.back
  <2>1. s.moved \in Nat /\ o \in Int
    BY <1>6 DEF TypedPoint
  <2>2. src' = src + Operation.inc
    BY DEF Loading
  <2> HIDE DEF o, s, t
  <2>3. src = (Base + s.moved) * Block - o
    BY <1>6 DEF o
  <2>4. src + Operation.inc = (Base + t.moved) * Block - o
    BY <1>4, <1>6, <2>1, <2>3, PointerMoves
  <2> QED
    BY <2>2, <2>4 DEF o
<1>9. dst' = (Base + t.written) * OutBlock(Lp)
  BY <1>5, <1>6 DEF Loading
<1>10. mem' = mem
  BY DEF Loading
<1>11. reg' = Put(r, v, {})
  <2>1. Width = WidthOf(Lp)
    BY <1>1, CallFacts
  <2>2. reg' = Put(r, [i \in 1..Width |->
                         IF Address + i \in 1..Len(input) THEN input[Address + i] ELSE 0], {})
    BY Zenon DEF Loading
  <2> QED
    BY <2>1, <2>2 DEF Loaded
<1>12. v = Content(Lp, input, stage, Base + k) /\ k \in 0 .. s.due - 1
  BY <1>1, LoadedContent, AddressIs
<1> HIDE DEF s, t, k, v, r
<1>13. Holds(Lp, input, label, reg', Base, t)
  <2>1. {r} = {r} \cup {}
    OBVIOUS
  <2>2. Facts(s, t, {r} \cup {}, <<r, stage, k>>)
    BY <1>4, <2>1
  <2>3. stage = "first" => label = 0
    OBVIOUS
  <2> HIDE DEF stage
  <2>4. Holds(Lp, input, label, Put(r, v, {}), Base, t)
    BY <1>5, <1>6, <1>12, <2>2, <2>3, HoldsPut
  <2> QED
    BY <1>11, <2>4
<1>14. MemIs(Lp, input, mem', Base + t.stored) /\ AllData(Lp, input, Base + t.passed)
  BY <1>5, <1>6, <1>10
<1> QED
  BY <1>3, <1>5, <1>7, <1>8, <1>9, <1>13, <1>14, WithinInv DEF s, t

-----------------------------------------------------------------------------
(* Calculations.                                                           *)

LEMMA CalculatedIs ==
  ASSUME CallInv, Operation.op \in {"shuf", "tran", "permute"}, NEW b, NEW v,
         v = Content(Lp, input, From(Lp, Operation), b),
         Operation.op = "permute" => b = 0 /\ Lag(Lp) > 0
  PROVE  Calculated(v) = Content(Lp, input, To(Lp, Operation), b)
<1>1. Lp.op \in {"enc", "dec"}
  BY CallFacts DEF IsaOK
<1>2. CASE Operation.op = "permute"
  <2>1. From(Lp, Operation) = "first" /\ To(Lp, Operation) = "raw"
    BY <1>2 DEF From, To
  <2>2. Calculated(v) = PermuteDwords(v, <<0, 0, 1, 2, 3, 4, 5, 6>>)
    BY <1>2 DEF Calculated
  <2>3. Raw(Lp, input, b) = PermuteDwords(Loaded(Lp, input, 0), <<0, 0, 1, 2, 3, 4, 5, 6>>)
    BY <1>2 DEF Raw
  <2>4. v = Loaded(Lp, input, 0)
    BY <2>1 DEF Content
  <2> QED
    BY <2>1, <2>2, <2>3, <2>4 DEF Content
<1>3. CASE Operation.op = "shuf" /\ Lp.op = "enc"
  <2>1. From(Lp, Operation) = "raw" /\ To(Lp, Operation) = "mid"
    BY <1>3 DEF From, To
  <2>2. Calculated(v) = Split(Lp.isa, v)
    BY <1>3 DEF Calculated
  <2>3. v = Raw(Lp, input, b)
    BY <2>1 DEF Content
  <2> QED
    BY <1>3, <2>1, <2>2, <2>3 DEF Content, Mid
<1>4. CASE Operation.op = "tran" /\ Lp.op = "enc"
  <2>1. From(Lp, Operation) = "mid" /\ To(Lp, Operation) = "done"
    BY <1>4 DEF From, To
  <2>2. Calculated(v) = Translate(Lp.isa, v)
    BY <1>4 DEF Calculated
  <2>3. v = Mid(Lp, input, b)
    BY <2>1 DEF Content
  <2> QED
    BY <1>4, <2>1, <2>2, <2>3 DEF Content, Done
<1>5. CASE Operation.op = "tran" /\ Lp.op = "dec"
  <2>1. From(Lp, Operation) = "raw" /\ To(Lp, Operation) = "mid"
    BY <1>5 DEF From, To
  <2>2. Calculated(v) = Values(Lp.isa, v)
    BY <1>5 DEF Calculated
  <2>3. v = Raw(Lp, input, b)
    BY <2>1 DEF Content
  <2> QED
    BY <1>5, <2>1, <2>2, <2>3 DEF Content, Mid
<1>6. CASE Operation.op = "shuf" /\ Lp.op = "dec"
  <2>1. From(Lp, Operation) = "mid" /\ To(Lp, Operation) = "done"
    BY <1>6 DEF From, To
  <2>2. Calculated(v) = Pack(Lp.isa, v)
    BY <1>6 DEF Calculated
  <2>3. v = Mid(Lp, input, b)
    BY <2>1 DEF Content
  <2> QED
    BY <1>6, <2>1, <2>2, <2>3 DEF Content, Done
<1> QED
  BY <1>1, <1>2, <1>3, <1>4, <1>5, <1>6

LEMMA CalculatingStep ==
  ASSUME IndInv, Calculating
  PROVE  IndInv'
<1> DEFINE s == Here
           t == There
           r == Operation.to
           temps == Operation.temps
           stage == To(Lp, Operation)
<1>1. CallInv /\ PlaceInv /\ pc = "code" /\ Operation.op \in {"shuf", "tran", "permute"}
  BY DEF IndInv, Calculating
<1>2. CalculationOK(Lp, Operation, s, t) /\ ~ AtEnd
  BY <1>1, WhichStep
<1>3. Within
  BY <1>1, <1>2 DEF Calculating, Within, call
<1>4. PICK f \in s.facts :
        /\ f[1] = Operation.from /\ f[2] = From(Lp, Operation)
        /\ Facts(s, t, {r} \cup temps, <<r, stage, f[3]>>)
  BY <1>2 DEF CalculationOK
<1>5. /\ t.stored = s.stored /\ t.passed = s.passed /\ t.written = s.written /\ t.due = s.due
      /\ t.moved = s.moved
  BY <1>2 DEF CalculationOK, SameCounts
<1>6. /\ TypedPoint(s) /\ Base \in Nat
      /\ src = (Base + s.moved) * Block - (IF label = 0 THEN 0 ELSE Lp.back)
      /\ dst = (Base + s.written) * OutBlock(Lp)
      /\ Holds(Lp, input, label, reg, Base, s)
      /\ MemIs(Lp, input, mem, Base + s.stored)
      /\ AllData(Lp, input, Base + s.passed)
  BY <1>1, KnownHere
<1>7. TypedPoint(t)
  BY <1>5, <1>6 DEF TypedPoint
<1>8. /\ src' = (Base + t.moved) * Block - (IF label = 0 THEN 0 ELSE Lp.back)
      /\ dst' = (Base + t.written) * OutBlock(Lp)
      /\ MemIs(Lp, input, mem', Base + t.stored) /\ AllData(Lp, input, Base + t.passed)
  BY <1>5, <1>6 DEF Calculating
<1>9. /\ f[3] \in 0 .. s.due - 1 /\ (f[2] = "first" => label = 0)
      /\ f[1] \in DOMAIN reg /\ reg[f[1]] = Content(Lp, input, f[2], Base + f[3])
  BY <1>6 DEF Holds
<1> DEFINE k == f[3]
           v == Calculated(reg[Operation.from])
<1>10. reg' = Put(r, v, temps)
  <2>1. Operation.from \in DOMAIN reg
    BY <1>4, <1>9
  <2> QED
    BY <2>1 DEF Calculating
<1>11. v = Content(Lp, input, stage, Base + k)
  <2>1. reg[Operation.from] = Content(Lp, input, From(Lp, Operation), Base + k)
    BY <1>4, <1>9
  <2>2. ASSUME Operation.op = "permute" PROVE Base + k = 0 /\ Lag(Lp) > 0
    <3>1. From(Lp, Operation) = "first"
      BY <2>2 DEF From
    <3>2. label = 0
      BY <1>4, <1>9, <3>1
    <3>3. Base = 0 /\ k = 0 /\ Lag(Lp) > 0
      BY <1>1, <1>9, <3>2, BlockFits
    <3> QED
      BY <3>3
  <2> HIDE DEF k
  <2> QED
    BY <1>1, <2>1, <2>2, CalculatedIs
<1>12. stage = "first" => label = 0
  BY DEF To
<1> HIDE DEF s, t, r, temps, stage, v
<1>13. Holds(Lp, input, label, reg', Base, t)
  BY <1>4, <1>5, <1>6, <1>9, <1>10, <1>11, <1>12, HoldsPut
<1> QED
  BY <1>3, <1>5, <1>7, <1>8, <1>13, WithinInv DEF s, t

-----------------------------------------------------------------------------
(* Tests and stores.                                                       *)

LEMMA HoldsLess ==
  ASSUME NEW s, NEW t, Holds(Lp, input, label, reg, Base, s),
         t.facts \subseteq s.facts, t.due = s.due
  PROVE  Holds(Lp, input, label, reg, Base, t)
BY DEF Holds

LEMMA HeldIn ==
  ASSUME NEW s, Holds(Lp, input, label, reg, Base, s),
         NEW r, NEW stage, NEW k, <<r, stage, k>> \in s.facts
  PROVE  k \in 0 .. s.due - 1 /\ Get(r) = Content(Lp, input, stage, Base + k)
<1> DEFINE f == <<r, stage, k>>
<1>1. /\ f[3] \in 0 .. s.due - 1
      /\ f[1] \in DOMAIN reg /\ reg[f[1]] = Content(Lp, input, f[2], Base + f[3])
  BY DEF Holds
<1>2. f[1] = r /\ f[2] = stage /\ f[3] = k
  OBVIOUS
<1> HIDE DEF f
<1> QED
  BY <1>1, <1>2 DEF Get

LEMMA MoreData ==
  ASSUME NEW lp, NEW in, NEW b \in Nat, AllData(lp, in, b), DataAt(lp, in, b)
  PROVE  AllData(lp, in, b + 1)
<1>1. ASSUME lp.op = "dec", NEW c \in 0 .. (b + 1) - 1 PROVE DataAt(lp, in, c)
  <2>1. c = b \/ c \in 0 .. b - 1
    OBVIOUS
  <2> QED
    BY <1>1, <2>1 DEF AllData
<1> QED
  BY <1>1 DEF AllData

\* What the test of a decoding round tells.
LEMMA TestTells ==
  ASSUME IndInv, At("test")
  PROVE  /\ Base < Fit /\ Base \in Nat /\ Lp.op = "dec"
         /\ Passes <=> DataAt(Lp, input, Base)
<1> DEFINE s == Here
<1>1. CallInv /\ PlaceInv /\ pc = "code" /\ Operation.op = "test"
  BY DEF IndInv, At
<1>2. TestOK(Lp, Operation, s, There)
  BY <1>1, WhichStep
<1>3. /\ Lp.op = "dec" /\ <<Operation.from, "raw", 0>> \in s.facts
      /\ <<Operation.with, "mid", 0>> \in s.facts \/ Lp.isa \in {"ssse3", "avx2"}
  BY <1>2 DEF TestOK
<1>4. Holds(Lp, input, label, reg, Base, s) /\ Base \in Nat
  BY <1>1, KnownHere
<1>5. 0 \in 0 .. s.due - 1 /\ Get(Operation.from) = Content(Lp, input, "raw", Base + 0)
  BY <1>3, <1>4, HeldIn
<1>6. Base + 0 = Base /\ Base + 0 < Fit
  BY <1>1, <1>4, <1>5, BlockFits
<1>7. Get(Operation.from) = Raw(Lp, input, Base)
  BY <1>5, <1>6 DEF Content
<1>8. Passes <=> AcceptsAll(Lp.isa, Raw(Lp, input, Base), Mid(Lp, input, Base))
  <2>1. CASE <<Operation.with, "mid", 0>> \in s.facts
    <3>1. Get(Operation.with) = Content(Lp, input, "mid", Base + 0)
      BY <1>4, <2>1, HeldIn
    <3>2. Get(Operation.with) = Mid(Lp, input, Base)
      BY <1>6, <3>1 DEF Content
    <3> QED
      BY <1>7, <3>2 DEF Passes
  <2>2. CASE Lp.isa \in {"ssse3", "avx2"}
    <3>1. CASE Lp.isa = "ssse3"
      BY <1>7, <3>1 DEF Passes, AcceptsAll
    <3>2. CASE Lp.isa = "avx2"
      BY <1>7, <3>2 DEF Passes, AcceptsAll
    <3> QED
      BY <2>2, <3>1, <3>2
  <2> QED
    BY <1>3, <2>1, <2>2
<1>9. AcceptsAll(Lp.isa, Raw(Lp, input, Base), Mid(Lp, input, Base)) <=> DataAt(Lp, input, Base)
  <2>1. LoopOK(Lp) /\ input \in Seq(Byte) /\ Base < Fits(Lp, input)
    BY <1>1, <1>6, CallFacts DEF Fit
  <2> QED
    BY <1>3, <1>4, <2>1, DoneDecoding
<1> QED
  BY <1>3, <1>4, <1>6, <1>8, <1>9

LEMMA PassingStep ==
  ASSUME IndInv, Passing
  PROVE  IndInv'
<1> DEFINE s == Here
           t == There
<1>1. CallInv /\ PlaceInv /\ pc = "code" /\ At("test") /\ Operation.op = "test"
  BY DEF IndInv, Passing, At
<1>2. TestOK(Lp, Operation, s, t) /\ ~ AtEnd
  BY <1>1, WhichStep
<1>3. Within
  BY <1>1, <1>2 DEF Passing, Within, call
<1>4. /\ s.stored = 0 /\ s.passed = 0 /\ s.moved = 0 /\ s.written = 0
      /\ t.stored = 0 /\ t.passed = 1 /\ t.moved = 0 /\ t.written = 0 /\ t.due = s.due
      /\ t.facts \subseteq s.facts
  BY <1>2 DEF TestOK
<1>6. /\ TypedPoint(s) /\ Base \in Nat
      /\ src = (Base + s.moved) * Block - (IF label = 0 THEN 0 ELSE Lp.back)
      /\ dst = (Base + s.written) * OutBlock(Lp)
      /\ Holds(Lp, input, label, reg, Base, s)
      /\ MemIs(Lp, input, mem, Base + s.stored)
      /\ AllData(Lp, input, Base + s.passed)
  BY <1>1, KnownHere
<1>7. TypedPoint(t)
  BY <1>4, <1>6 DEF TypedPoint
<1>8. /\ src' = (Base + t.moved) * Block - (IF label = 0 THEN 0 ELSE Lp.back)
      /\ dst' = (Base + t.written) * OutBlock(Lp)
      /\ MemIs(Lp, input, mem', Base + t.stored)
  BY <1>4, <1>6 DEF Passing
<1>9. Holds(Lp, input, label, reg', Base, t)
  <2>1. Holds(Lp, input, label, reg, Base, t)
    BY <1>4, <1>6, HoldsLess
  <2> QED
    BY <2>1 DEF Passing
<1>10. AllData(Lp, input, Base + t.passed)
  <2>1. Passes
    BY DEF Passing
  <2>2. DataAt(Lp, input, Base)
    BY <1>1, <2>1, TestTells
  <2>3. AllData(Lp, input, Base)
    <3>1. Base + s.passed = Base
      BY <1>4, <1>6
    <3> QED
      BY <1>6, <3>1
  <2> QED
    BY <1>4, <1>6, <2>2, <2>3, MoreData
<1> HIDE DEF s, t
<1> QED
  BY <1>3, <1>4, <1>7, <1>8, <1>9, <1>10, WithinInv DEF s, t

\* A store writes the next block, behind the others.
LEMMA StoresNext ==
  ASSUME IndInv, Storing, NEW b, b = Base + Here.stored
  PROVE  /\ b \in Nat /\ b < Fit /\ (Lp.op = "dec" => DataAt(Lp, input, b))
         /\ MemIs(Lp, input, mem, b) /\ AllData(Lp, input, b)
         /\ mem' = Overwrite(b * OutBlock(Lp), Done(Lp, input, b))
<1> DEFINE s == Here
           r == Operation.round
           out == OutBlock(Lp)
<1>1. CallInv /\ PlaceInv /\ pc = "code" /\ Operation.op = "stor"
  BY DEF IndInv, Storing, At
<1>2. StorOK(Lp, Operation, s, There)
  BY <1>1, WhichStep
<1>3. /\ <<Operation.from, "done", s.stored>> \in s.facts
      /\ r \in Nat /\ s.written + r = s.stored
      /\ Lp.op = "dec" => s.stored < s.passed
  BY <1>2 DEF StorOK
<1>4. /\ TypedPoint(s) /\ Base \in Nat /\ out \in Nat
      /\ dst = (Base + s.written) * out
      /\ Holds(Lp, input, label, reg, Base, s)
      /\ MemIs(Lp, input, mem, Base + s.stored)
      /\ AllData(Lp, input, Base + s.passed)
  BY <1>1, KnownHere
<1>5. s.stored \in Nat /\ s.written \in Nat /\ s.passed \in Nat
  BY <1>4 DEF TypedPoint
<1>6. s.stored \in 0 .. s.due - 1 /\ Get(Operation.from) = Content(Lp, input, "done", b)
  BY <1>3, <1>4, HeldIn
<1>7. b \in Nat /\ b < Fit
  BY <1>1, <1>6, BlockFits
<1>8. Get(Operation.from) = Done(Lp, input, b)
  BY <1>6 DEF Content
<1>9. dst + r * out = b * out
  <2> DEFINE a == Base + s.written
  <2>1. a \in Int /\ b = a + r /\ r \in Int
    BY <1>3, <1>4, <1>5
  <2>2. dst = a * out
    BY <1>4
  <2> HIDE DEF a, s, r, out
  <2>3. \A c : c = a + r => c * out = a * out + r * out
    BY <1>4, <2>1, ProductOfSum
  <2> QED
    BY <2>1, <2>2, <2>3
<1>10. mem' = Overwrite(dst + r * Out(Block), Get(Operation.from))
  BY DEF Storing, Block
<1>11. mem' = Overwrite(b * out, Done(Lp, input, b))
  <2>1. Out(Block) = out
    BY <1>1, CallFacts
  <2> QED
    BY <1>8, <1>9, <1>10, <2>1
<1>12. ASSUME Lp.op = "dec" PROVE b \in 0 .. (Base + s.passed) - 1
  BY <1>3, <1>4, <1>5, <1>12
<1>13. ASSUME Lp.op = "dec" PROVE DataAt(Lp, input, b)
  BY <1>4, <1>12, <1>13 DEF AllData
<1>14. AllData(Lp, input, b)
  <2>1. ASSUME Lp.op = "dec", NEW c \in 0 .. b - 1 PROVE DataAt(Lp, input, c)
    <3>1. c \in 0 .. (Base + s.passed) - 1
      BY <1>3, <1>4, <1>5, <2>1
    <3> QED
      BY <1>4, <2>1, <3>1 DEF AllData
  <2> QED
    BY <2>1 DEF AllData
<1> QED
  BY <1>4, <1>7, <1>11, <1>13, <1>14

LEMMA StoringStep ==
  ASSUME IndInv, Storing
  PROVE  IndInv'
<1> DEFINE s == Here
           t == There
           b == Base + s.stored
           out == OutBlock(Lp)
<1>1. CallInv /\ PlaceInv /\ pc = "code" /\ Operation.op = "stor"
  BY DEF IndInv, Storing, At
<1>2. StorOK(Lp, Operation, s, t) /\ ~ AtEnd
  BY <1>1, WhichStep
<1>3. Within
  BY <1>1, <1>2 DEF Storing, Within, call
<1>4. /\ t.written \in Nat /\ Operation.inc = (t.written - s.written) * out
      /\ t.facts \subseteq s.facts
      /\ t.stored = s.stored + 1 /\ t.passed = s.passed /\ t.due = s.due /\ t.moved = s.moved
  BY <1>2 DEF StorOK
<1>5. /\ TypedPoint(s) /\ Base \in Nat /\ out \in Nat
      /\ src = (Base + s.moved) * Block - (IF label = 0 THEN 0 ELSE Lp.back)
      /\ dst = (Base + s.written) * out
      /\ Holds(Lp, input, label, reg, Base, s)
      /\ AllData(Lp, input, Base + s.passed)
  BY <1>1, KnownHere
<1>6. s.written \in Nat /\ s.stored \in Nat
  BY <1>5 DEF TypedPoint
<1>7. TypedPoint(t)
  BY <1>4, <1>5, <1>6 DEF TypedPoint
<1>8. src' = (Base + t.moved) * Block - (IF label = 0 THEN 0 ELSE Lp.back)
  BY <1>4, <1>5 DEF Storing
<1>9. Holds(Lp, input, label, reg', Base, t)
  <2>1. Holds(Lp, input, label, reg, Base, t)
    BY <1>4, <1>5, HoldsLess
  <2> QED
    BY <2>1 DEF Storing
<1>10. /\ b \in Nat /\ b < Fit /\ (Lp.op = "dec" => DataAt(Lp, input, b))
       /\ MemIs(Lp, input, mem, b) /\ mem' = Overwrite(b * out, Done(Lp, input, b))
  BY StoresNext
<1>11. MemIs(Lp, input, mem', b + 1)
  <2>1. LoopOK(Lp) /\ input \in Seq(Byte) /\ b < Fits(Lp, input)
    BY <1>1, <1>10, CallFacts DEF Fit
  <2> HIDE DEF b
  <2>2. \A o, m : o = b * out /\ m = Overwrite(o, Done(Lp, input, b)) =>
                    MemIs(Lp, input, m, b + 1)
    BY <1>10, <2>1, StoredBlock
  <2> QED
    BY <1>10, <2>2
<1>12. MemIs(Lp, input, mem', Base + t.stored)
  <2>1. Base + t.stored = b + 1
    BY <1>4, <1>5, <1>6
  <2> QED
    BY <1>11, <2>1
<1>13. dst' = dst + Operation.inc
  BY DEF Storing
<1> HIDE DEF s, t, b, out
<1>14. dst' = (Base + t.written) * out
  <2>1. dst = (Base + s.written) * out - 0
    <3>1. (Base + s.written) * out \in Int
      BY <1>5, <1>6, Product
    <3> QED
      BY <1>5, <3>1
  <2>2. dst + Operation.inc = (Base + t.written) * out - 0
    BY <1>4, <1>5, <1>6, <2>1, PointerMoves
  <2>3. (Base + t.written) * out \in Int
    <3> DEFINE c == Base + t.written
    <3>1. c \in Int /\ out \in Int
      BY <1>4, <1>5
    <3> HIDE DEF c
    <3>2. c * out \in Int
      BY <3>1, Product
    <3> QED
      BY <3>2 DEF c
  <2> QED
    BY <1>13, <2>2, <2>3
<1> QED
  BY <1>3, <1>4, <1>5, <1>7, <1>8, <1>9, <1>12, <1>14, WithinInv DEF s, t, out

-----------------------------------------------------------------------------
(* Steps between the sections.                                             *)

\* Where a section starts.
LEMMA SectionStart ==
  ASSUME CallInv, NEW l \in LabelsOf(Lp)
  PROVE  /\ 1 \in 1 .. Len(CodeAt(Lp, l)) /\ 1 \in 1 .. Len(CodeAt(Lp, l)[1])
         /\ \E due \in 1 .. (IF l = 0 THEN 1 ELSE Lp.labels[l]) :
              Plan(name, l)[1][1] = Point({}, 0, 0, 0, 0, due)
<1>1. SectionOK(Lp, l, CodeAt(Lp, l), Plan(name, l))
  BY CallFacts DEF PlansOK, Lp
<1> DEFINE code == CodeAt(Lp, l)
           plan == Plan(name, l)
<1> HIDE DEF code, plan
<1>2. Len(code) >= 1 /\ (\A m \in 1 .. Len(code) : Len(code[m]) >= 1)
      /\ \E due \in 1 .. (IF l = 0 THEN 1 ELSE Lp.labels[l]) :
           plan[1][1] = Point({}, 0, 0, 0, 0, due)
  BY <1>1 DEF SectionOK, code, plan
<1> QED
  BY <1>2 DEF code, plan

LEMMA InitStep ==
  ASSUME Init
  PROVE  IndInv
<1>1. /\ pc = "enter" /\ slen = Len(input) /\ olen = 0 /\ src = 0 /\ dst = 0
      /\ loops = 0 /\ rounds = 0 /\ label = 1 /\ part = 1 /\ ip = 1 /\ mem = <<>>
  BY DEF Init
<1>2. CallInv
  BY CallsAssumption DEF Init, CallInv
<1> QED
  BY <1>1, <1>2 DEF IndInv, EnterInv, BookedInv, CountInv, PlaceInv, PointerInv,
                    FactsInv, OutputInv, ReturnedInv, Running

\* The empty buffer holds no block.
LEMMA NothingYet ==
  ASSUME NEW lp, NEW in
  PROVE  MemIs(lp, in, <<>>, 0) /\ AllData(lp, in, 0)
<1>1. 0 .. 0 - 1 = {}
  OBVIOUS
<1> QED
  BY <1>1 DEF MemIs, AllData

LEMMA TooShortStep ==
  ASSUME IndInv, TooShort
  PROVE  IndInv'
<1>1. /\ pc = "enter" /\ slen = Len(input) /\ olen = 0 /\ src = 0 /\ dst = 0 /\ mem = <<>>
      /\ CallInv
  BY DEF IndInv, EnterInv, TooShort
<1>2. /\ pc' = "returned" /\ name' = name /\ input' = input /\ slen' = slen /\ olen' = olen
      /\ src' = src /\ dst' = dst /\ mem' = mem
  BY DEF TooShort, call
<1>3. Lp' = Lp /\ Fit' = Fit /\ Block' = Block
  BY <1>2 DEF Lp, Fit, Block
<1>4. Fit = 0 /\ Len(input) \in Nat
  BY <1>1, CallFacts, FitsInInput DEF Fit, TooShort
<1>5. 0 * Block = 0 /\ 0 * OutBlock(Lp) = 0
  BY <1>1, CallFacts, Product
<1>6. ReturnedInv'
  <2>1. MemIs(Lp, input, mem, 0) /\ AllData(Lp, input, 0)
    BY <1>1, NothingYet
  <2>2. 0 \in 0..Fit /\ ~ (0 < Fit) /\ Len(input) - 0 * Block = Len(input)
    BY <1>4, <1>5
  <2> QED
    BY <1>1, <1>2, <1>3, <1>5, <2>1, <2>2 DEF ReturnedInv
<1>7. CallInv'
  BY <1>1, <1>2 DEF CallInv
<1> QED
  BY <1>2, <1>6, <1>7 DEF IndInv, EnterInv, BookedInv, CountInv, PlaceInv, PointerInv,
                          FactsInv, OutputInv, Running

\* A loop that does not read behind its block has no code before its rounds.
LEMMA NoFirst ==
  ASSUME CallInv, Lp.first = <<>>
  PROVE  Lag(Lp) = 0 /\ Lp.back = 0
BY CallFacts DEF SizesOK

LEMMA EnterStep ==
  ASSUME IndInv, Enter
  PROVE  IndInv'
<1> DEFINE big == Lp.labels[1]
           rest == IF Lp.first = <<>> THEN Fit ELSE Fit - 1
<1>1. /\ pc = "enter" /\ slen = Len(input) /\ olen = 0 /\ src = 0 /\ dst = 0
      /\ label = 1 /\ part = 1 /\ ip = 1 /\ mem = <<>> /\ CallInv
  BY DEF IndInv, EnterInv, Enter
<1>2. /\ name' = name /\ input' = input /\ src' = 0 /\ dst' = 0 /\ part' = 1 /\ ip' = 1
      /\ mem' = <<>>
  BY <1>1 DEF Enter, call
<1>3. Lp' = Lp /\ Fit' = Fit /\ Block' = Block
  BY <1>2 DEF Lp, Fit, Block
<1>4. /\ LoopOK(Lp) /\ LabelsOK(Lp) /\ SizesOK(Lp) /\ Fit \in Nat /\ Block \in Nat
      /\ OutBlock(Lp) \in Nat
  BY <1>1, CallFacts
<1>5. Len(input) >= Lp.params.guard /\ Len(input) \in Nat
  BY <1>1, <1>4, FitsInInput DEF Enter, CallInv
<1>6. (slen - Lp.params.reserve) \div Lp.params.block = Fit
  <2>1. ~ (Len(input) < Lp.params.guard)
    BY <1>4, <1>5 DEF SizesOK
  <2> QED
    BY <1>1, <2>1 DEF Fit, Fits
<1>7. /\ slen' = slen - Fit * Block /\ olen' = olen + Fit * Out(Block)
      /\ loops' = (IF Lp.big THEN rest \div big ELSE 0)
      /\ rounds' = (IF Lp.big THEN rest % big ELSE rest)
  BY <1>6 DEF Enter, Block
<1>8. slen' = Len(input) - Fit * Block /\ olen' = Fit * OutBlock(Lp)
  <2>1. Fit * OutBlock(Lp) \in Nat
    BY <1>4, Product
  <2>2. Out(Block) = OutBlock(Lp)
    BY <1>1, CallFacts
  <2> QED
    BY <1>1, <1>7, <2>1, <2>2
<1>9. big \in Nat \ {0} /\ Lp.big \in BOOLEAN
  BY <1>4 DEF LabelsOK
<1>10. Lp.first # <<>> => Fit >= 1 /\ Lag(Lp) > 0
  <2> SUFFICES ASSUME Lp.first # <<>> PROVE Fit >= 1 /\ Lag(Lp) > 0
    OBVIOUS
  <2>1. Lag(Lp) > 0
    BY <1>4 DEF SizesOK
  <2>2. Fits(Lp, input) >= 1
    BY <1>1, <1>4, <1>5, <2>1, FitsInInput DEF CallInv
  <2> QED
    BY <2>1, <2>2 DEF Fit
<1>11. rest \in Nat /\ rest = (IF Lp.first = <<>> THEN Fit ELSE Fit - 1)
  BY <1>4, <1>10
<1> HIDE DEF big, rest
<1>12. /\ loops' \in Nat /\ rounds' \in Nat
       /\ IF Lp.big THEN rounds' < big /\ loops' * big + rounds' = rest
                    ELSE loops' = 0 /\ rounds' = rest
  <2>1. CASE Lp.big
    <3>1. rest \div big \in Nat /\ rest % big \in 0 .. big - 1
          /\ ((rest \div big) * big) + (rest % big) = rest
      <4>1. rest \in Nat /\ big \in Nat \ {0}
        BY <1>9, <1>11
      <4> QED
        BY ONLY <4>1, SMT
    <3> QED
      BY <1>7, <1>9, <2>1, <3>1
  <2>2. CASE ~ Lp.big
    BY <1>7, <1>11, <2>2
  <2> QED
    BY <2>1, <2>2
<1>13. CallInv' /\ EnterInv' /\ ReturnedInv' /\ pc' \in {"label", "code"}
  <2>1. pc' \in {"label", "code"}
    BY DEF Enter
  <2> QED
    BY <1>1, <1>2, <2>1 DEF CallInv, EnterInv, ReturnedInv
<1>14. BookedInv'
  BY <1>2, <1>3, <1>5, <1>8 DEF BookedInv
<1>15. IF Lp.first = <<>> THEN pc' = "label" /\ label' = 1 ELSE pc' = "code" /\ label' = 0
  BY <1>1 DEF Enter
<1>16. Left' = Fit /\ Base' = 0
  <2>1. Left' = (IF Lp.big THEN loops' * big ELSE 0) + rounds'
                + (IF pc' = "code" /\ label' = 0 THEN 1 ELSE 0)
    BY <1>3 DEF Left, big
  <2>2. (IF Lp.big THEN loops' * big ELSE 0) + rounds' = rest
    BY <1>12, <1>11
  <2>3. Left' = rest + (IF pc' = "code" /\ label' = 0 THEN 1 ELSE 0)
    BY <2>1, <2>2
  <2>4. Left' = Fit
    <3>1. CASE Lp.first = <<>>
      BY <1>4, <1>11, <1>15, <2>3, <3>1
    <3>2. CASE Lp.first # <<>>
      BY <1>4, <1>11, <1>15, <2>3, <3>2
    <3> QED
      BY <3>1, <3>2
  <2> QED
    BY <1>3, <1>4, <2>4 DEF Base
<1>17. CountInv'
  <2>1. Lp.big => rounds' < Lp.labels[1]
    BY <1>12 DEF big
  <2>2. ~ Lp.big => loops' = 0
    BY <1>12
  <2>3. Left' <= Fit
    BY <1>4, <1>16
  <2>4. ~ (label' > 1)
    BY <1>15
  <2>5. IF label' = 0 THEN Left' = Fit ELSE Lp.first # <<>> => Left' < Fit
    BY <1>15, <1>16
  <2> QED
    BY <1>3, <1>9, <1>12, <2>1, <2>2, <2>3, <2>4, <2>5 DEF CountInv
<1>18. CASE Lp.first = <<>>
  <2>1. pc' = "label" /\ label' = 1 /\ Here' = Rest
    BY <1>15, <1>18 DEF Here
  <2>2. PlaceInv'
    <3>1. 1 \in 1 .. Len(Lp.labels) + 1
      BY <1>4 DEF LabelsOK
    <3> QED
      BY <1>2, <1>3, <2>1, <3>1 DEF PlaceInv
  <2>3. FactsInv'
    BY <2>1 DEF FactsInv
  <2>4. Rest.moved = 0 /\ Rest.written = 0 /\ Rest.stored = 0 /\ Rest.passed = 0
    BY DEF Rest, Point
  <2>5. PointerInv'
    <3>1. Lp.back = 0 /\ (0 + 0) * Block - 0 = 0 /\ (0 + 0) * OutBlock(Lp) = 0
      BY <1>1, <1>4, <1>18, NoFirst, Product
    <3> QED
      BY <1>2, <1>3, <1>16, <2>1, <2>4, <3>1 DEF PointerInv
  <2>6. OutputInv'
    <3>1. MemIs(Lp, input, <<>>, 0 + 0) /\ AllData(Lp, input, 0 + 0)
      BY NothingYet
    <3> QED
      BY <1>2, <1>3, <1>16, <2>1, <2>4, <3>1 DEF OutputInv
  <2> QED
    BY <1>13, <1>14, <1>17, <2>2, <2>3, <2>5, <2>6 DEF IndInv
<1>19. CASE Lp.first # <<>>
  <2>1. pc' = "code" /\ label' = 0
    BY <1>15, <1>19
  <2>2. 0 \in LabelsOf(Lp)
    BY <1>4, <1>19 DEF LabelsOf, LabelsOK
  <2>3. Code' = CodeAt(Lp, 0)
    BY <1>3, <2>1 DEF Code, CodeAt
  <2>4. Here' = Plan(name, 0)[1][1]
    BY <1>2, <2>1 DEF Here
  <2>5. /\ 1 \in 1 .. Len(CodeAt(Lp, 0)) /\ 1 \in 1 .. Len(CodeAt(Lp, 0)[1])
        /\ \E due \in 1 .. 1 : Plan(name, 0)[1][1] = Point({}, 0, 0, 0, 0, due)
    BY <1>1, <2>2, SectionStart
  <2>6. Here' = Point({}, 0, 0, 0, 0, 1)
    BY <2>4, <2>5
  <2>7. /\ Here'.facts = {} /\ Here'.stored = 0 /\ Here'.passed = 0 /\ Here'.moved = 0
        /\ Here'.written = 0 /\ Here'.due = 1
    BY <2>6 DEF Point
  <2>8. PlaceInv'
    <3>1. Due' = 1 /\ ~ AtBig'
      BY <2>1 DEF Due, AtBig
    <3>2. TypedPoint(Here)'
      BY <2>7 DEF TypedPoint
    <3> QED
      BY <1>2, <1>3, <2>1, <2>2, <2>3, <2>5, <2>7, <3>1, <3>2 DEF PlaceInv
  <2>9. FactsInv'
    BY <2>7 DEF FactsInv, Holds
  <2>10. PointerInv'
    <3>1. (0 + 0) * Block - 0 = 0 /\ (0 + 0) * OutBlock(Lp) = 0
      BY <1>4, Product
    <3> QED
      BY <1>2, <1>3, <1>16, <2>1, <2>7, <3>1 DEF PointerInv
  <2>11. OutputInv'
    <3>1. MemIs(Lp, input, <<>>, 0 + 0) /\ AllData(Lp, input, 0 + 0)
      BY NothingYet
    <3> QED
      BY <1>2, <1>3, <1>16, <2>7, <3>1 DEF OutputInv
  <2> QED
    BY <1>13, <1>14, <1>17, <2>8, <2>9, <2>10, <2>11 DEF IndInv
<1> QED
  BY <1>18, <1>19

\* Before and after a section: which facts about the counts stay.
LEMMA LabelCount ==
  ASSUME CallInv, CountInv, PlaceInv, pc = "label"
  PROVE  /\ label \in Nat \ {0} /\ label <= Len(Lp.labels) + 1 /\ Len(Lp.labels) \in Nat
         /\ Left = (IF Lp.big THEN loops * Lp.labels[1] ELSE 0) + rounds
         /\ loops \in Nat /\ rounds \in Nat
         /\ ~ AtBig => loops = 0
<1>1. label \in 1 .. Len(Lp.labels) + 1 /\ Len(Lp.labels) \in Nat
  BY CallFacts DEF PlaceInv, LabelsOK
<1>2. loops \in Nat /\ rounds \in Nat
  BY DEF CountInv, Running
<1>3. Left = (IF Lp.big THEN loops * Lp.labels[1] ELSE 0) + rounds
  <2>1. loops * Lp.labels[1] \in Int
    BY <1>2, CallFacts, Product DEF LabelsOK
  <2>2. Left = (IF Lp.big THEN loops * Lp.labels[1] ELSE 0) + rounds + 0
    BY DEF Left
  <2> HIDE DEF Left
  <2>3. CASE Lp.big
    BY <1>2, <2>1, <2>2, <2>3
  <2>4. CASE ~ Lp.big
    BY <1>2, <2>2, <2>4
  <2> QED
    BY <2>3, <2>4
<1>4. ASSUME ~ AtBig PROVE loops = 0
  BY <1>1, <1>4 DEF CountInv, Running, AtBig
<1> QED
  BY <1>1, <1>2, <1>3, <1>4

LEMMA RunSectionStep ==
  ASSUME IndInv, RunSection
  PROVE  IndInv'
<1>1. CallInv /\ CountInv /\ PlaceInv /\ BookedInv /\ PointerInv /\ OutputInv /\ Running
  BY DEF IndInv, RunSection, Running
<1>2. /\ pc = "label" /\ label <= Len(Lp.labels) /\ Enough /\ pc' = "code"
      /\ UNCHANGED <<name, input, slen, olen, src, dst, loops, rounds, label, part, ip, reg, mem>>
  BY DEF RunSection, call
<1>3. /\ label \in Nat \ {0} /\ Len(Lp.labels) \in Nat /\ part = 1 /\ ip = 1
      /\ loops \in Nat /\ rounds \in Nat
      /\ Left = (IF Lp.big THEN loops * Lp.labels[1] ELSE 0) + rounds
  BY <1>1, <1>2, LabelCount DEF PlaceInv
<1>4. Lp' = Lp /\ Fit' = Fit /\ Block' = Block /\ AtBig' = AtBig
  BY <1>2 DEF Lp, Fit, Block, AtBig
<1>5. Left' = Left
  BY <1>2, <1>3, <1>4 DEF Left
<1>6. Base' = Base
  BY <1>4, <1>5 DEF Base
<1>7. label \in LabelsOf(Lp)
  BY <1>2, <1>3 DEF LabelsOf
<1>8. Code' = CodeAt(Lp, label)
  BY <1>2, <1>4 DEF Code, CodeAt
<1>9. PICK due \in 1 .. Lp.labels[label] : Plan(name, label)[1][1] = Point({}, 0, 0, 0, 0, due)
  BY <1>1, <1>3, <1>7, SectionStart
<1>10. Here' = Point({}, 0, 0, 0, 0, due)
  BY <1>2, <1>3, <1>9 DEF Here
<1>11. /\ Here'.facts = {} /\ Here'.stored = 0 /\ Here'.passed = 0 /\ Here'.moved = 0
       /\ Here'.written = 0 /\ Here'.due = due
  BY <1>10 DEF Point
<1>12. Here = Rest /\ Rest.moved = 0 /\ Rest.written = 0 /\ Rest.stored = 0 /\ Rest.passed = 0
  BY <1>2 DEF Here, Rest, Point
<1>13. CountInv'
  <2>1. /\ IF Lp.big THEN rounds < Lp.labels[1] ELSE loops = 0
        /\ label > 1 => rounds < Lp.labels[label - 1] /\ loops = 0
        /\ Left <= Fit
        /\ IF label = 0 THEN Left = Fit ELSE Lp.first # <<>> => Left < Fit
    BY <1>1 DEF CountInv
  <2> QED
    BY <1>2, <1>3, <1>4, <1>5, <2>1 DEF CountInv
<1>14. PlaceInv'
  <2>1. Lp.labels[label] \in Nat \ {0}
    BY <1>1, <1>2, <1>3, CallFacts DEF LabelsOK
  <2>2. TypedPoint(Here)'
    BY <1>11, <2>1 DEF TypedPoint
  <2>3. 1 \in 1 .. Len(CodeAt(Lp, label)) /\ 1 \in 1 .. Len(CodeAt(Lp, label)[1])
    BY <1>1, <1>7, SectionStart
  <2>4. Here'.due <= Due' /\ (AtBig => loops > 0)
    <3>1. CASE AtBig
      <4>1. Due' = Lp.labels[1] /\ label = 1 /\ loops > 0
        BY <1>2, <1>3, <1>4, <3>1 DEF Due, AtBig, Enough
      <4> QED
        BY <1>9, <1>11, <2>1, <4>1
    <3>2. CASE ~ AtBig
      <4>1. Due' = rounds /\ rounds >= Lp.labels[label]
        BY <1>2, <1>3, <1>4, <3>2 DEF Due, Enough
      <4> QED
        BY <1>3, <1>9, <1>11, <2>1, <3>2, <4>1
    <3> QED
      BY <3>1, <3>2
  <2> QED
    BY <1>2, <1>3, <1>4, <1>7, <1>8, <2>2, <2>3, <2>4 DEF PlaceInv
<1>15. PointerInv'
  <2>1. /\ src = (Base + 0) * Block - (IF label = 0 THEN 0 ELSE Lp.back)
        /\ dst = (Base + 0) * OutBlock(Lp)
    BY <1>1, <1>12 DEF PointerInv
  <2> QED
    BY <1>2, <1>4, <1>6, <1>11, <2>1 DEF PointerInv
<1>16. FactsInv'
  BY <1>11 DEF FactsInv, Holds
<1>17. OutputInv'
  <2>1. MemIs(Lp, input, mem, Base + 0) /\ AllData(Lp, input, Base + 0)
    BY <1>1, <1>12 DEF OutputInv
  <2> QED
    BY <1>2, <1>4, <1>6, <1>11, <2>1 DEF OutputInv
<1>18. CallInv' /\ EnterInv' /\ ReturnedInv' /\ BookedInv'
  BY <1>1, <1>2, <1>4 DEF CallInv, EnterInv, ReturnedInv, BookedInv
<1> QED
  BY <1>2, <1>13, <1>14, <1>15, <1>16, <1>17, <1>18 DEF IndInv

LEMMA NextLabelStep ==
  ASSUME IndInv, NextLabel
  PROVE  IndInv'
<1>1. CallInv /\ CountInv /\ PlaceInv /\ BookedInv /\ PointerInv /\ OutputInv /\ Running
  BY DEF IndInv, NextLabel, Running
<1>2. /\ pc = "label" /\ label <= Len(Lp.labels) /\ ~ Enough /\ pc' = "label"
      /\ label' = label + 1
      /\ UNCHANGED <<name, input, slen, olen, src, dst, loops, rounds, part, ip, reg, mem>>
  BY DEF NextLabel, call
<1>3. /\ label \in Nat \ {0} /\ Len(Lp.labels) \in Nat /\ part = 1 /\ ip = 1
      /\ loops \in Nat /\ rounds \in Nat /\ (~ AtBig => loops = 0)
      /\ Left = (IF Lp.big THEN loops * Lp.labels[1] ELSE 0) + rounds
  BY <1>1, <1>2, LabelCount DEF PlaceInv
<1>4. Lp' = Lp /\ Fit' = Fit /\ Block' = Block
  BY <1>2 DEF Lp, Fit, Block
<1>5. Left' = Left
  <2>1. label' # 0
    BY <1>2, <1>3
  <2> QED
    BY <1>2, <1>3, <1>4, <2>1 DEF Left
<1>6. Base' = Base /\ Here' = Rest /\ Here = Rest
  BY <1>2, <1>4, <1>5 DEF Base, Here
<1>7. rounds < Lp.labels[label] /\ loops = 0
  <2>1. CASE AtBig
    <3>1. loops = 0
      BY <1>2, <1>3, <2>1 DEF Enough
    <3>2. rounds < Lp.labels[1] /\ label = 1
      BY <1>1, <2>1 DEF CountInv, AtBig
    <3> QED
      BY <3>1, <3>2
  <2>2. CASE ~ AtBig
    <3>1. ~ (rounds >= Lp.labels[label])
      BY <1>2, <2>2 DEF Enough
    <3>2. Lp.labels[label] \in Nat
      BY <1>1, <1>2, <1>3, CallFacts DEF LabelsOK
    <3> QED
      BY <1>3, <2>2, <3>1, <3>2
  <2> QED
    BY <2>1, <2>2
<1>8. CountInv'
  <2>1. /\ IF Lp.big THEN rounds < Lp.labels[1] ELSE loops = 0
        /\ Left <= Fit /\ (Lp.first # <<>> => Left < Fit)
    BY <1>1, <1>3 DEF CountInv
  <2>2. label' - 1 = label /\ label' # 0
    BY <1>2, <1>3
  <2> QED
    BY <1>2, <1>3, <1>4, <1>5, <1>7, <2>1, <2>2 DEF CountInv
<1>9. PlaceInv'
  <2>1. label + 1 \in 1 .. Len(Lp.labels) + 1
    BY <1>2, <1>3
  <2> QED
    BY <1>2, <1>3, <1>4, <2>1 DEF PlaceInv
<1>10. PointerInv'
  <2>1. label # 0 /\ label' # 0
    BY <1>2, <1>3
  <2> QED
    BY <1>1, <1>2, <1>4, <1>6, <2>1 DEF PointerInv
<1>11. FactsInv'
  BY <1>2 DEF FactsInv
<1>12. OutputInv'
  BY <1>1, <1>2, <1>4, <1>6 DEF OutputInv
<1>13. CallInv' /\ EnterInv' /\ ReturnedInv' /\ BookedInv'
  BY <1>1, <1>2, <1>4 DEF CallInv, EnterInv, ReturnedInv, BookedInv
<1> QED
  BY <1>2, <1>8, <1>9, <1>10, <1>11, <1>12, <1>13 DEF IndInv

-----------------------------------------------------------------------------
(* The ends of a call.                                                     *)

\* All rounds are done: the pointer makes up for the bytes it stayed behind.
LEMMA NoRoundLeftStep ==
  ASSUME IndInv, NoRoundLeft
  PROVE  IndInv'
<1>1. CallInv /\ CountInv /\ PlaceInv /\ BookedInv /\ PointerInv /\ OutputInv /\ Running
  BY DEF IndInv, NoRoundLeft, Running
<1>2. /\ pc = "label" /\ label > Len(Lp.labels) /\ pc' = "returned"
      /\ slen' = slen + 0 * Block /\ olen' = olen - 0 * Out(Block) /\ src' = src + Lp.back
      /\ UNCHANGED <<name, input, dst, mem>>
  BY DEF NoRoundLeft, Leave, Block, call
<1>3. Lp' = Lp /\ Fit' = Fit /\ Block' = Block
  BY <1>2 DEF Lp, Fit, Block
<1>4. Left = 0
  <2>1. /\ label \in Nat \ {0} /\ label <= Len(Lp.labels) + 1 /\ Len(Lp.labels) \in Nat
        /\ Left = (IF Lp.big THEN loops * Lp.labels[1] ELSE 0) + rounds
        /\ rounds \in Nat
    BY <1>1, <1>2, LabelCount
  <2>2. /\ Len(Lp.labels) >= 1 /\ Lp.labels[Len(Lp.labels)] = 1 /\ Lp.labels[1] \in Nat
    BY <1>1, CallFacts DEF LabelsOK
  <2>3. label - 1 = Len(Lp.labels) /\ label > 1
    BY <1>2, <2>1, <2>2
  <2>4. rounds < 1 /\ loops = 0
    BY <1>1, <2>2, <2>3 DEF CountInv
  <2>5. rounds = 0 /\ 0 * Lp.labels[1] = 0
    BY <2>1, <2>2, <2>4, Product
  <2> QED
    BY <2>1, <2>4, <2>5
<1>5. /\ Fit \in Nat /\ Block \in Nat /\ OutBlock(Lp) \in Nat /\ Lp.back \in Nat
      /\ Len(input) \in Nat /\ Out(Block) = OutBlock(Lp)
  BY <1>1, CallFacts DEF SizesOK, CallInv
<1>6. Base = Fit
  BY <1>4, <1>5 DEF Base
<1>7. Here = Rest /\ Rest.moved = 0 /\ Rest.written = 0 /\ Rest.stored = 0 /\ Rest.passed = 0
  BY <1>2 DEF Here, Rest, Point
<1>8. label # 0
  BY <1>1, <1>2, LabelCount
<1>9. /\ Fit + 0 = Fit /\ Fit * Block \in Nat /\ Fit * OutBlock(Lp) \in Nat
      /\ 0 * Block = 0 /\ 0 * OutBlock(Lp) = 0
  BY <1>5, Product
<1>10. src = Fit * Block - Lp.back /\ dst = Fit * OutBlock(Lp)
  BY <1>1, <1>6, <1>7, <1>8, <1>9 DEF PointerInv
<1>11. src' = Fit * Block /\ dst' = Fit * OutBlock(Lp)
  BY <1>2, <1>5, <1>9, <1>10
<1>12. slen' = Len(input) - Fit * Block /\ olen' = Fit * OutBlock(Lp)
  <2>1. slen = Len(input) - Fit * Block /\ olen = Fit * OutBlock(Lp)
    BY <1>1 DEF BookedInv
  <2> QED
    BY <1>2, <1>5, <1>9, <2>1
<1>13. MemIs(Lp, input, mem, Fit) /\ AllData(Lp, input, Fit)
  BY <1>1, <1>6, <1>7, <1>9 DEF OutputInv
<1>14. ReturnedInv'
  <2>1. Fit \in 0..Fit /\ ~ (Fit < Fit)
    BY <1>5
  <2> QED
    BY <1>2, <1>3, <1>11, <1>12, <1>13, <2>1 DEF ReturnedInv
<1>15. CallInv'
  BY <1>1, <1>2 DEF CallInv
<1> QED
  BY <1>2, <1>14, <1>15 DEF IndInv, EnterInv, BookedInv, CountInv, PlaceInv, PointerInv,
                            FactsInv, OutputInv, Running

\* A block is not all data: the rounds that are left are given back.
LEMMA BailOutStep ==
  ASSUME IndInv, BailOut
  PROVE  IndInv'
<1> DEFINE out == OutBlock(Lp)
<1>1. CallInv /\ CountInv /\ PlaceInv /\ BookedInv /\ PointerInv /\ OutputInv /\ Running
      /\ pc = "code" /\ At("test") /\ Operation.op = "test"
  BY DEF IndInv, BailOut, Running, At
<1>2. /\ pc' = "returned" /\ src' = src + Lp.back
      /\ slen' = slen + rounds * Block /\ olen' = olen - rounds * Out(Block)
      /\ UNCHANGED <<name, input, dst, mem>>
  BY DEF BailOut, Leave, Block, call
<1>3. Lp' = Lp /\ Fit' = Fit /\ Block' = Block
  BY <1>2 DEF Lp, Fit, Block
<1>4. Base < Fit /\ Base \in Nat /\ Lp.op = "dec" /\ ~ DataAt(Lp, input, Base)
  BY <1>1, TestTells DEF BailOut
<1>5. /\ Here.stored = 0 /\ Here.passed = 0 /\ Here.moved = 0 /\ Here.written = 0
  BY <1>1, WhichStep DEF TestOK
<1>6. /\ Fit \in Nat /\ Block \in Nat /\ out \in Nat /\ Lp.back \in Nat /\ Lp.back <= Lag(Lp)
      /\ Len(input) \in Nat /\ Out(Block) = out /\ Lp.big = FALSE
      /\ (Lp.first # <<>> <=> Lag(Lp) > 0)
  <2>1. /\ Fit \in Nat /\ Block \in Nat /\ out \in Nat /\ Out(Block) = out
        /\ SizesOK(Lp) /\ IsaOK(Lp) /\ input \in Seq(Byte)
    BY <1>1, CallFacts
  <2>2. Lp.back \in Nat /\ Lp.back <= Lag(Lp) /\ (Lp.first # <<>> <=> Lag(Lp) > 0)
    BY <2>1 DEF SizesOK
  <2>3. Lp.big = FALSE
    BY <1>4, <2>1 DEF IsaOK
  <2>4. Len(input) \in Nat
    BY <2>1
  <2> QED
    BY <2>1, <2>2, <2>3, <2>4
<1>7. Lag(Lp) = 0
  BY <1>4 DEF Lag
<1>8. Lp.back = 0 /\ Lp.first = <<>>
  BY <1>6, <1>7
<1>9. label # 0
  BY <1>1, <1>8 DEF PlaceInv, LabelsOf
<1>10. rounds \in Nat /\ Base + rounds = Fit
  <2>1. rounds \in Nat /\ Left \in Nat /\ Base + Left = Fit
    BY <1>1, LeftFacts
  <2>2. Left = rounds
    <3>1. Left = 0 + rounds + 0
      BY <1>6, <1>9 DEF Left
    <3> QED
      BY <2>1, <3>1
  <2> QED
    BY <2>1, <2>2
<1>11. Base + 0 = Base
  BY <1>4
<1>12. /\ src = (Base + 0) * Block - Lp.back /\ dst = (Base + 0) * out
       /\ MemIs(Lp, input, mem, Base + 0) /\ AllData(Lp, input, Base + 0)
  BY <1>1, <1>5, <1>9 DEF PointerInv, OutputInv
<1>13. slen = Len(input) - Fit * Block /\ olen = Fit * out
  BY <1>1 DEF BookedInv
<1> HIDE DEF out
<1>14. /\ Base * Block \in Int /\ Base * out \in Int
       /\ rounds * Block \in Int /\ rounds * out \in Int
  BY <1>4, <1>6, <1>10, Product
<1>15. Fit * Block = Base * Block + rounds * Block /\ Fit * out = Base * out + rounds * out
  <2>1. Base \in Int /\ rounds \in Int /\ Fit = Base + rounds
    BY <1>4, <1>10
  <2>2. Fit * Block = Base * Block + rounds * Block
    BY <1>6, <2>1, ProductOfSum
  <2>3. Fit * out = Base * out + rounds * out
    BY <1>6, <2>1, ProductOfSum
  <2> QED
    BY <2>2, <2>3
<1>16. src' = Base * Block /\ dst' = Base * out
  BY <1>2, <1>8, <1>11, <1>12, <1>14
<1>17. slen' = Len(input) - Base * Block /\ olen' = Base * out
  <2>1. slen' = slen + rounds * Block /\ olen' = olen - rounds * out
    BY <1>2, <1>6
  <2> DEFINE bb == Base * Block
             bo == Base * out
             rb == rounds * Block
             ro == rounds * out
  <2>2. /\ bb \in Int /\ bo \in Int /\ rb \in Int /\ ro \in Int /\ Len(input) \in Nat
        /\ slen = Len(input) - (bb + rb) /\ olen = bo + ro
        /\ slen' = slen + rb /\ olen' = olen - ro
    BY <1>6, <1>13, <1>14, <1>15, <2>1
  <2> HIDE DEF bb, bo, rb, ro
  <2>3. slen' = Len(input) - bb /\ olen' = bo
    BY <2>2
  <2> QED
    BY <2>3 DEF bb, bo
<1>18. ReturnedInv'
  <2>1. Base \in 0..Fit
    BY <1>4, <1>6
  <2> DEFINE b == Base
  <2>2. /\ b \in 0..Fit
        /\ src' = b * Block /\ slen' = Len(input) - b * Block
        /\ dst' = b * out /\ olen' = b * out
        /\ MemIs(Lp, input, mem, b) /\ AllData(Lp, input, b)
        /\ Lp.op = "dec" /\ ~ DataAt(Lp, input, b)
    BY <1>4, <1>11, <1>12, <1>16, <1>17, <2>1
  <2> HIDE DEF b
  <2> QED
    BY <1>2, <1>3, <2>2 DEF ReturnedInv, out
<1>19. CallInv'
  BY <1>1, <1>2 DEF CallInv
<1> QED
  BY <1>2, <1>18, <1>19 DEF IndInv, EnterInv, BookedInv, CountInv, PlaceInv, PointerInv,
                            FactsInv, OutputInv, Running

-----------------------------------------------------------------------------
(* The end of a round, or of a section.                                    *)

\* Within a section, another operation means that rounds are due.
LEMMA MoreDue ==
  ASSUME CallInv, PlaceInv, pc = "code", ~ AtEnd, NEW d \in Nat,
         There = Point({}, 0, 0, 0, 0, d)
  PROVE  d > 0
<1> DEFINE code == Code
           plan == Plan(name, label)
<1>1. /\ label \in LabelsOf(Lp) /\ part \in 1 .. Len(code) /\ ip \in 1 .. Len(code[part])
  BY DEF PlaceInv
<1>2. SectionOK(Lp, label, code, plan)
  BY <1>1, CallFacts DEF PlansOK, Lp, Code, CodeAt
<1>3. IF ip < Len(code[part])
      THEN There = plan[part][ip + 1]
      ELSE part + 1 \in 1 .. Len(code) /\ 1 \in 1 .. Len(code[part + 1])
           /\ There = plan[part + 1][1]
  BY AtStep
<1> HIDE DEF code, plan
<1>4. PICK m \in 1 .. Len(code) : \E j \in 1 .. Len(code[m]) : There = plan[m][j]
  <2>1. CASE ip < Len(code[part])
    <3>1. ip + 1 \in 1 .. Len(code[part])
      BY <1>1, <2>1
    <3> QED
      BY <1>1, <1>3, <2>1, <3>1
  <2>2. CASE ~ (ip < Len(code[part]))
    BY <1>3, <2>2
  <2> QED
    BY <2>1, <2>2
<1>5. PICK j \in 1 .. Len(code[m]) : There = plan[m][j]
  BY <1>4
<1>6. StepOK(Lp, label, code[m][j], There, After(code, plan, m, j))
  BY <1>2, <1>5 DEF SectionOK
<1> DEFINE op == code[m][j]
           t == After(code, plan, m, j)
<1>7. /\ There.facts = {} /\ There.stored = 0 /\ There.moved = 0 /\ There.due = d
  BY DEF Point
<1> HIDE DEF op, t
<1>8. StepOK(Lp, label, op, There, t)
  BY <1>6 DEF op, t
<1>9. CASE LoadOK(Lp, label, op, There, t)
  <2>1. op.round \in Nat /\ There.moved + op.round < There.due
    BY <1>9 DEF LoadOK
  <2> QED
    BY <1>7, <2>1
<1>10. ~ CalculationOK(Lp, op, There, t)
  BY <1>7 DEF CalculationOK
<1>11. ~ TestOK(Lp, op, There, t)
  BY <1>7 DEF TestOK
<1>12. ~ StorOK(Lp, op, There, t)
  BY <1>7 DEF StorOK
<1>13. ~ AdvanceOK(Lp, label, op, There, t)
  <2> SUFFICES ASSUME AdvanceOK(Lp, label, op, There, t) PROVE FALSE
    OBVIOUS
  <2>1. op.n = There.stored /\ op.n > 0
    BY DEF AdvanceOK
  <2> QED
    BY <1>7, <2>1
<1> QED
  BY <1>8, <1>9, <1>10, <1>11, <1>12, <1>13 DEF StepOK

\* What the end of a round is told by its plan.
LEMMA MovingFacts ==
  ASSUME IndInv, Moving, NEW n, n = Operation.n
  PROVE  /\ n \in Nat \ {0} /\ n = Here.stored /\ n <= Here.due /\ Here.due <= Due
         /\ Here.due \in Nat /\ Due \in Nat
         /\ There = Point({}, 0, 0, 0, 0, Here.due - n)
         /\ src' = (Base + n) * Block - Lp.back /\ dst' = (Base + n) * OutBlock(Lp)
         /\ MemIs(Lp, input, mem', Base + n) /\ AllData(Lp, input, Base + n)
         /\ AtBig => n = Lp.labels[1]
         /\ ~ Lp.restart /\ label > 1 => Lp.labels[label - 1] <= n + Lp.labels[label]
<1> DEFINE s == Here
           q == Block
           out == OutBlock(Lp)
           back == Lp.back
<1>1. CallInv /\ PlaceInv /\ CountInv /\ Running /\ pc = "code" /\ Operation.op = "advance"
  BY DEF IndInv, Moving, At, Running
<1>2. AdvanceOK(Lp, label, Operation, s, There)
  BY <1>1, WhichStep
<1>3. /\ n = s.stored /\ n > 0 /\ n <= s.due
      /\ Lp.op = "dec" => s.passed = n
      /\ Operation.bytes = (n - s.moved) * q - (IF label = 0 THEN back ELSE 0)
      /\ Operation.blocks = n - s.written
      /\ There = Point({}, 0, 0, 0, 0, s.due - n)
      /\ (Lp.big /\ label = 1 => n = Lp.labels[1])
      /\ (~ Lp.restart /\ label > 1 => Lp.labels[label - 1] <= n + Lp.labels[label])
  BY <1>2 DEF AdvanceOK, Block
<1>4. /\ TypedPoint(s) /\ Base \in Nat /\ q \in Nat /\ out \in Nat /\ back \in Nat
      /\ src = (Base + s.moved) * q - (IF label = 0 THEN 0 ELSE back)
      /\ dst = (Base + s.written) * out
      /\ MemIs(Lp, input, mem, Base + s.stored)
      /\ AllData(Lp, input, Base + s.passed)
  BY <1>1, KnownHere
<1>5. /\ s.stored \in Nat /\ s.moved \in Nat /\ s.written \in Nat /\ s.due \in Nat
      /\ s.due <= Due /\ Due \in Nat
  BY <1>1, <1>4, LeftFacts DEF TypedPoint, PlaceInv
<1>6. src' = src + Operation.bytes /\ dst' = dst + Operation.blocks * out /\ mem' = mem
  <2>1. Out(Block) = out
    BY <1>1, CallFacts
  <2> QED
    BY <2>1 DEF Moving, Block
<1>7. MemIs(Lp, input, mem', Base + n)
  BY <1>3, <1>4, <1>6
<1>8. AllData(Lp, input, Base + n)
  <2>1. CASE Lp.op = "dec"
    BY <1>3, <1>4, <2>1
  <2>2. CASE Lp.op # "dec"
    BY <2>2 DEF AllData
  <2> QED
    BY <2>1, <2>2
<1>9. n \in Nat \ {0}
  BY <1>3, <1>5
<1>10. AtBig => n = Lp.labels[1]
  BY <1>3 DEF AtBig
<1> HIDE DEF s, q, out, back
<1>11. src' = (Base + n) * q - back
  <2> DEFINE o == IF label = 0 THEN 0 ELSE back
             inc == (n - s.moved) * q
  <2>1. o \in Int /\ src = (Base + s.moved) * q - o
    BY <1>4
  <2> HIDE DEF o
  <2>2. src + inc = (Base + n) * q - o
    BY <1>4, <1>5, <1>9, <2>1, PointerMoves
  <2>3. inc \in Int
    <3> DEFINE d == n - s.moved
    <3>1. d \in Int /\ q \in Int
      BY <1>4, <1>5, <1>9
    <3> HIDE DEF d
    <3>2. d * q \in Int
      BY <3>1, Product
    <3> QED
      BY <3>2 DEF d
  <2>4. Operation.bytes = inc - (IF label = 0 THEN back ELSE 0)
    BY <1>3
  <2>5. (Base + n) * q \in Int /\ src \in Int
    <3> DEFINE c == Base + n
               a == Base + s.moved
    <3>1. c \in Int /\ a \in Int /\ q \in Int
      BY <1>4, <1>5, <1>9
    <3>2. src = a * q - o
      BY <2>1
    <3> HIDE DEF a, c
    <3>3. c * q \in Int /\ a * q \in Int
      BY <3>1, Product
    <3> QED
      BY <2>1, <3>2, <3>3 DEF c
  <2> HIDE DEF inc
  <2> QED
    BY <1>4, <1>6, <2>1, <2>2, <2>3, <2>4, <2>5 DEF o
<1>12. dst' = (Base + n) * out
  <2> DEFINE inc == (n - s.written) * out
  <2>1. Operation.blocks * out = inc
    BY <1>3
  <2>2. dst = (Base + s.written) * out - 0
    <3> DEFINE a == Base + s.written
    <3>1. a \in Int /\ out \in Int /\ dst = a * out
      BY <1>4, <1>5
    <3> HIDE DEF a
    <3>2. a * out - 0 = a * out
      BY <3>1, Product
    <3> QED
      BY <3>1, <3>2 DEF a
  <2>3. dst + inc = (Base + n) * out - 0
    BY <1>4, <1>5, <1>9, <2>2, PointerMoves
  <2>4. (Base + n) * out - 0 = (Base + n) * out
    <3> DEFINE c == Base + n
    <3>1. c \in Int /\ out \in Int
      BY <1>4, <1>9
    <3> HIDE DEF c
    <3>2. c * out - 0 = c * out
      BY <3>1, Product
    <3> QED
      BY <3>2 DEF c
  <2> QED
    BY <1>6, <2>1, <2>3, <2>4
<1> QED
  BY <1>3, <1>5, <1>7, <1>8, <1>9, <1>10, <1>11, <1>12 DEF s, q, out, back

\* The end of a round after which the section goes on.
LEMMA MovingWithin ==
  ASSUME IndInv, Moving, ~ AtEnd
  PROVE  IndInv'
<1> DEFINE n == Operation.n
           d == Here.due - n
<1>1. CallInv /\ PlaceInv /\ CountInv /\ BookedInv /\ Running /\ pc = "code"
  BY DEF IndInv, Moving, At, Running
<1>2. /\ n \in Nat \ {0} /\ n <= Here.due /\ Here.due <= Due
      /\ Here.due \in Nat /\ Due \in Nat /\ There = Point({}, 0, 0, 0, 0, d)
      /\ src' = (Base + n) * Block - Lp.back /\ dst' = (Base + n) * OutBlock(Lp)
      /\ MemIs(Lp, input, mem', Base + n) /\ AllData(Lp, input, Base + n)
      /\ AtBig => n = Lp.labels[1]
  BY MovingFacts
<1>3. /\ Onward /\ pc' = "code" /\ label' = label /\ name' = name /\ input' = input
      /\ slen' = slen /\ olen' = olen /\ reg' = reg
      /\ IF AtBig THEN loops' = loops - 1 /\ rounds' = rounds
         ELSE rounds' = (IF label = 0 THEN rounds ELSE rounds - n) /\ loops' = loops
  BY <1>1 DEF Moving, call
<1> HIDE DEF n
<1>4. d \in Nat /\ d > 0
  <2>1. d \in Nat
    BY <1>2
  <2> HIDE DEF d
  <2> QED
    BY <1>1, <1>2, <2>1, MoreDue
<1>5. label # 0 /\ ~ AtBig
  <2>1. label = 0 => Due = 1
    BY DEF Due
  <2>2. AtBig => Due = Lp.labels[1]
    BY DEF Due, AtBig
  <2> QED
    BY <1>2, <1>4, <2>1, <2>2
<1>6. Due = rounds /\ rounds' = rounds - n /\ loops' = loops
  BY <1>3, <1>5 DEF Due
<1>7. /\ Lp' = Lp /\ Code' = Code /\ Here' = There
      /\ part' \in 1 .. Len(Code) /\ ip' \in 1 .. Len(Code[part'])
  BY <1>1, <1>3, OnwardStep
<1>8. Fit' = Fit /\ Block' = Block /\ AtBig' = AtBig
  BY <1>3, <1>7 DEF Fit, Block, AtBig
<1>9. Left \in Nat /\ Base \in Nat /\ Base + Left = Fit /\ rounds \in Nat /\ loops \in Nat
  BY <1>1, LeftFacts
<1>10. Left' = Left - n
  <2> DEFINE big == IF Lp.big THEN loops * Lp.labels[1] ELSE 0
  <2>1. big \in Int
    BY <1>1, <1>9, CallFacts, Product DEF LabelsOK
  <2>2. Left = big + rounds + 0 /\ Left' = big + (rounds - n) + 0
    BY <1>3, <1>5, <1>6, <1>7 DEF Left
  <2> HIDE DEF big
  <2> QED
    BY <1>2, <1>9, <2>1, <2>2
<1>11. Fit \in Nat
  BY <1>1, CallFacts
<1>12. Base' = Base + n
  BY <1>2, <1>8, <1>9, <1>10, <1>11 DEF Base
<1>13. /\ Here'.facts = {} /\ Here'.stored = 0 /\ Here'.passed = 0 /\ Here'.moved = 0
       /\ Here'.written = 0 /\ Here'.due = d
  BY <1>2, <1>7 DEF Point
<1> HIDE DEF d
<1>14. CountInv'
  <2>1. /\ IF Lp.big THEN rounds < Lp.labels[1] ELSE loops = 0
        /\ label > 1 => rounds < Lp.labels[label - 1] /\ loops = 0
        /\ Left <= Fit
    BY <1>1 DEF CountInv
  <2>2. rounds' \in Nat /\ loops' \in Nat
    BY <1>2, <1>6, <1>9
  <2>3. Lp.big => rounds' < Lp.labels[1]
    <3>1. Lp.labels[1] \in Nat
      BY <1>1, CallFacts DEF LabelsOK
    <3> QED
      BY <1>2, <1>6, <1>9, <2>1, <3>1
  <2>4. ~ Lp.big => loops' = 0
    BY <1>6, <2>1
  <2>5. label > 1 => rounds' < Lp.labels[label - 1] /\ loops' = 0
    <3> SUFFICES ASSUME label > 1 PROVE rounds' < Lp.labels[label - 1] /\ loops' = 0
      OBVIOUS
    <3>1. Lp.labels[label - 1] \in Nat
      <4>1. label \in 1 .. Len(Lp.labels) /\ Len(Lp.labels) \in Nat
        BY <1>1, <1>5, CallFacts DEF PlaceInv, LabelsOf, LabelsOK
      <4>2. label - 1 \in 1 .. Len(Lp.labels)
        BY <4>1
      <4> QED
        BY <1>1, <4>2, CallFacts DEF LabelsOK
    <3> QED
      BY <1>2, <1>6, <1>9, <2>1, <3>1
  <2>6. Left' <= Fit /\ Left' < Fit
    BY <1>2, <1>9, <1>10, <1>11, <2>1
  <2> QED
    BY <1>3, <1>5, <1>7, <1>8, <2>2, <2>3, <2>4, <2>5, <2>6 DEF CountInv
<1>15. PlaceInv'
  <2>1. label \in LabelsOf(Lp)
    BY <1>1 DEF PlaceInv
  <2>2. Due' = rounds'
    BY <1>3, <1>5, <1>7, <1>8 DEF Due
  <2>3. d <= rounds - n
    BY <1>2, <1>6, <1>9 DEF d
  <2>4. TypedPoint(Here)'
    BY <1>4, <1>13 DEF TypedPoint
  <2> QED
    BY <1>3, <1>5, <1>6, <1>7, <1>8, <1>13, <2>1, <2>2, <2>3, <2>4 DEF PlaceInv
<1>16. Base + n + 0 = Base + n
  BY <1>2, <1>9
<1>17. PointerInv'
  BY <1>2, <1>3, <1>5, <1>7, <1>8, <1>12, <1>13, <1>16 DEF PointerInv
<1>18. OutputInv'
  BY <1>2, <1>3, <1>7, <1>12, <1>13, <1>16 DEF OutputInv
<1>19. FactsInv'
  BY <1>13 DEF FactsInv, Holds
<1>20. CallInv' /\ EnterInv' /\ ReturnedInv' /\ BookedInv'
  BY <1>1, <1>3, <1>7, <1>8 DEF CallInv, EnterInv, ReturnedInv, BookedInv
<1> QED
  BY <1>3, <1>14, <1>15, <1>17, <1>18, <1>19, <1>20 DEF IndInv

\* The counts after a section.
LEMMA CountsAfter ==
  ASSUME IndInv, Moving, AtEnd, NEW n, n = Operation.n
  PROVE  /\ loops' \in Nat /\ rounds' \in Nat /\ label' \in 1 .. Len(Lp.labels) + 1
         /\ IF Lp.big THEN rounds' < Lp.labels[1] ELSE loops' = 0
         /\ label' > 1 => rounds' < Lp.labels[label' - 1] /\ loops' = 0
         /\ Left = (IF Lp.big THEN loops' * Lp.labels[1] ELSE 0) + rounds' + n
<1> DEFINE one == Lp.labels[1]
           big == IF Lp.big THEN loops * one ELSE 0
           bigNext == IF Lp.big THEN loops' * one ELSE 0
           last == Len(Lp.labels)
<1>1. CallInv /\ PlaceInv /\ CountInv /\ Running /\ pc = "code"
  BY DEF IndInv, Moving, At, Running
<1>2. /\ n \in Nat \ {0} /\ n <= Here.due /\ Here.due <= Due
      /\ Here.due \in Nat /\ Due \in Nat
      /\ AtBig => n = Lp.labels[1]
      /\ ~ Lp.restart /\ label > 1 => Lp.labels[label - 1] <= n + Lp.labels[label]
  BY MovingFacts
<1>3. /\ IF AtBig THEN loops' = loops - 1 /\ rounds' = rounds
         ELSE rounds' = (IF label = 0 THEN rounds ELSE rounds - n) /\ loops' = loops
      /\ label' = (IF label = 0 \/ Lp.restart \/ (AtBig /\ loops' > 0) THEN 1 ELSE label + 1)
  BY DEF Moving
<1>4. /\ last \in Nat /\ last >= 1 /\ (\A i \in 1..last : Lp.labels[i] \in Nat \ {0})
      /\ Lp.big \in BOOLEAN /\ Lp.restart = ~ Lp.big
  BY <1>1, CallFacts DEF LabelsOK
<1>5. /\ loops \in Nat /\ rounds \in Nat
      /\ IF Lp.big THEN rounds < one ELSE loops = 0
      /\ label > 1 => rounds < Lp.labels[label - 1] /\ loops = 0
  BY <1>1 DEF CountInv
<1>6. label \in 0..last /\ (label = 0 \/ label \in 1..last)
  BY <1>1, <1>4 DEF PlaceInv, LabelsOf
<1>7. one \in Nat \ {0}
  BY <1>4
<1>8. Left = big + rounds + (IF label = 0 THEN 1 ELSE 0)
  BY <1>1 DEF Left
<1>9. big \in Int
  BY <1>5, <1>7, Product
<1> HIDE DEF one, last
<1>10. CASE label = 0
  <2>1. ~ AtBig /\ Due = 1
    BY <1>10 DEF AtBig, Due
  <2>2. n = 1 /\ loops' = loops /\ rounds' = rounds /\ label' = 1 /\ bigNext = big
    BY <1>2, <1>3, <1>10, <2>1
  <2> HIDE DEF big, bigNext
  <2>3. Left = bigNext + rounds' + n /\ 1 \in 1 .. last + 1 /\ ~ (1 > 1)
    BY <1>4, <1>8, <1>10, <2>2
  <2> QED
    BY <1>5, <2>2, <2>3 DEF bigNext, one, last
<1>11. CASE AtBig
  <2>1. label = 1 /\ Lp.big /\ ~ Lp.restart /\ n = one /\ loops > 0
    BY <1>1, <1>2, <1>4, <1>11 DEF AtBig, PlaceInv, one
  <2>2. loops' = loops - 1 /\ loops' \in Nat /\ rounds' = rounds
    BY <1>3, <1>5, <1>11, <2>1
  <2>3. big = loops * one /\ bigNext = loops' * one /\ loops * one = loops' * one + n
    <3>1. loops = loops' + 1
      BY <1>5, <2>2
    <3>2. (loops' + 1) * one = loops' * one + one
      BY <1>7, <2>2, ProductOfNext
    <3> QED
      BY <2>1, <3>1, <3>2
  <2>4. bigNext \in Int
    BY <1>7, <2>2, <2>3, Product
  <2>5. big = bigNext + n
    BY <2>3
  <2> HIDE DEF big, bigNext
  <2>6. Left = bigNext + rounds' + n
    <3>1. Left = big + rounds + 0
      BY <1>8, <2>1
    <3> QED
      BY <1>2, <1>5, <2>2, <2>4, <2>5, <3>1
  <2>7. label' = (IF loops' > 0 THEN 1 ELSE 2)
    BY <1>3, <1>11, <2>1
  <2>8. label' \in 1 .. last + 1 /\ (label' > 1 => label' - 1 = 1 /\ loops' = 0)
    <3>1. last \in Nat /\ last >= 1
      BY <1>4
    <3>2. CASE loops' > 0
      <4>1. label' = 1
        BY <2>7, <3>2
      <4> QED
        BY <3>1, <4>1
    <3>3. CASE ~ (loops' > 0)
      <4>1. label' = 2
        BY <2>7, <3>3
      <4>2. loops' \in Nat
        BY <2>2
      <4>3. loops' = 0
        BY <3>3, <4>2
      <4> QED
        BY <3>1, <4>1, <4>3
    <3> QED
      BY <3>2, <3>3
  <2>9. rounds' < one
    BY <1>5, <2>1, <2>2
  <2> QED
    BY <1>5, <2>1, <2>2, <2>6, <2>8, <2>9 DEF bigNext, one, last
<1>12. CASE label # 0 /\ ~ AtBig
  <2>1. Due = rounds /\ rounds' = rounds - n /\ loops' = loops
    BY <1>3, <1>12 DEF Due
  <2>2. rounds' \in Nat /\ rounds' < rounds /\ bigNext = big
    BY <1>2, <1>5, <2>1
  <2>3. IF Lp.big THEN rounds' < one ELSE loops' = 0
    BY <1>5, <1>7, <2>1, <2>2
  <2> HIDE DEF big, bigNext
  <2>4. Left = bigNext + rounds' + n
    <3>1. Left = big + rounds + 0
      BY <1>8, <1>12
    <3> QED
      BY <1>2, <1>5, <1>9, <2>1, <2>2, <3>1
  <2>5. /\ label' \in 1 .. last + 1
        /\ label' > 1 => rounds' < Lp.labels[label' - 1] /\ loops' = 0
    <3>1. CASE Lp.restart
      <4>1. label' = 1
        BY <1>3, <3>1
      <4>2. last \in Nat /\ last >= 1
        BY <1>4
      <4> QED
        BY <4>1, <4>2
    <3>2. CASE ~ Lp.restart
      <4>1. label > 1
        <5>1. Lp.big
          BY <1>4, <3>2
        <5>2. label # 1
          BY <1>12, <5>1 DEF AtBig
        <5>3. label \in 1..last /\ last \in Nat
          BY <1>4, <1>6, <1>12
        <5> QED
          BY <5>2, <5>3
      <4>2. label' = label + 1
        BY <1>3, <1>12, <3>2
      <4>3. label' - 1 = label /\ label' \in 1 .. last + 1
        BY <1>4, <1>6, <4>1, <4>2
      <4>4. Lp.labels[label] \in Nat /\ Lp.labels[label - 1] \in Nat
        <5>1. label - 1 \in 1..last /\ label \in 1..last
          BY <1>4, <1>6, <4>1
        <5> QED
          BY <1>4, <5>1
      <4>5. rounds < Lp.labels[label - 1] /\ loops = 0
            /\ Lp.labels[label - 1] <= n + Lp.labels[label]
        BY <1>2, <1>5, <3>2, <4>1
      <4>6. rounds' < Lp.labels[label]
        BY <1>2, <1>5, <2>1, <4>4, <4>5
      <4> QED
        BY <2>1, <4>3, <4>5, <4>6
    <3> QED
      BY <3>1, <3>2
  <2> QED
    BY <1>5, <2>1, <2>2, <2>3, <2>4, <2>5 DEF bigNext, one, last
<1> QED
  BY <1>10, <1>11, <1>12

\* The end of a section.
LEMMA MovingOut ==
  ASSUME IndInv, Moving, AtEnd
  PROVE  IndInv'
<1> DEFINE n == Operation.n
<1>1. CallInv /\ PlaceInv /\ CountInv /\ BookedInv /\ Running /\ pc = "code"
  BY DEF IndInv, Moving, At, Running
<1>2. /\ n \in Nat \ {0}
      /\ src' = (Base + n) * Block - Lp.back /\ dst' = (Base + n) * OutBlock(Lp)
      /\ MemIs(Lp, input, mem', Base + n) /\ AllData(Lp, input, Base + n)
  BY MovingFacts
<1>3. /\ pc' = "label" /\ part' = 1 /\ ip' = 1 /\ name' = name /\ input' = input
      /\ slen' = slen /\ olen' = olen
  BY DEF Moving, call
<1>4. /\ loops' \in Nat /\ rounds' \in Nat /\ label' \in 1 .. Len(Lp.labels) + 1
      /\ IF Lp.big THEN rounds' < Lp.labels[1] ELSE loops' = 0
      /\ label' > 1 => rounds' < Lp.labels[label' - 1] /\ loops' = 0
      /\ Left = (IF Lp.big THEN loops' * Lp.labels[1] ELSE 0) + rounds' + n
  BY CountsAfter
<1> HIDE DEF n
<1>5. Lp' = Lp /\ Fit' = Fit /\ Block' = Block
  BY <1>3 DEF Lp, Fit, Block
<1>6. Left \in Nat /\ Base \in Nat /\ Base + Left = Fit /\ Fit \in Nat
  BY <1>1, LeftFacts, CallFacts
<1>7. Len(Lp.labels) \in Nat /\ Lp.labels[1] \in Nat
  BY <1>1, CallFacts DEF LabelsOK
<1>8. label' # 0
  BY <1>4, <1>7
<1>9. Left' = Left - n
  <2> DEFINE big == IF Lp.big THEN loops' * Lp.labels[1] ELSE 0
  <2>1. big \in Int
    BY <1>4, <1>7, Product
  <2>2. Left' = big + rounds' + 0 /\ Left = big + rounds' + n
    BY <1>3, <1>4, <1>5 DEF Left
  <2> HIDE DEF big
  <2> QED
    BY <1>2, <1>4, <2>1, <2>2
<1>10. Base' = Base + n
  BY <1>2, <1>5, <1>6, <1>9 DEF Base
<1>11. Here' = Rest /\ Rest.moved = 0 /\ Rest.written = 0 /\ Rest.stored = 0 /\ Rest.passed = 0
  BY <1>3 DEF Here, Rest, Point
<1>12. CountInv'
  <2>1. Left' <= Fit /\ Left' < Fit
    BY <1>2, <1>6, <1>9
  <2> QED
    BY <1>4, <1>5, <1>8, <2>1 DEF CountInv
<1>13. PlaceInv'
  BY <1>3, <1>4, <1>5 DEF PlaceInv
<1>14. Base + n + 0 = Base + n
  BY <1>2, <1>6
<1>15. PointerInv'
  BY <1>2, <1>5, <1>8, <1>10, <1>11, <1>14 DEF PointerInv
<1>16. OutputInv'
  BY <1>2, <1>3, <1>5, <1>10, <1>11, <1>14 DEF OutputInv
<1>17. FactsInv'
  BY <1>3 DEF FactsInv
<1>18. CallInv' /\ EnterInv' /\ ReturnedInv' /\ BookedInv'
  BY <1>1, <1>3, <1>5 DEF CallInv, EnterInv, ReturnedInv, BookedInv
<1> QED
  BY <1>3, <1>12, <1>13, <1>15, <1>16, <1>17, <1>18 DEF IndInv

-----------------------------------------------------------------------------
(* The invariant is inductive.                                             *)

LEMMA StutteringStep ==
  ASSUME IndInv, UNCHANGED vars
  PROVE  IndInv'
<1>1. UNCHANGED <<name, input, pc, slen, olen, src, dst, loops, rounds, label, part, ip, reg, mem>>
  BY DEF vars, call
<1>2. Lp' = Lp /\ Fit' = Fit /\ Block' = Block /\ AtBig' = AtBig
  BY <1>1 DEF Lp, Fit, Block, AtBig
<1>3. Left' = Left /\ Here' = Here /\ Code' = Code /\ Due' = Due
  BY <1>1, <1>2 DEF Left, Here, Code, Due
<1>4. Base' = Base
  BY <1>2, <1>3 DEF Base
<1>5. CallInv' /\ EnterInv' /\ BookedInv' /\ CountInv' /\ pc' \in {"enter", "label", "code", "returned"}
  BY <1>1, <1>2, <1>3 DEF IndInv, CallInv, EnterInv, BookedInv, CountInv, Running
<1>6. PlaceInv'
  BY <1>1, <1>2, <1>3 DEF IndInv, PlaceInv, TypedPoint
<1>7. PointerInv' /\ FactsInv' /\ OutputInv'
  BY <1>1, <1>2, <1>3, <1>4 DEF IndInv, PointerInv, FactsInv, OutputInv, Running
<1>8. ReturnedInv'
  BY <1>1, <1>2 DEF IndInv, ReturnedInv
<1> QED
  BY <1>5, <1>6, <1>7, <1>8 DEF IndInv

\* At every step of every loop, on every input, the machine is where the plan says:
\* the registers hold what the plan says of the blocks that are on their way, and the
\* blocks before them are in the output buffer.
THEOREM MachineKeepsThePlan == Spec => []IndInv
<1>1. Init => IndInv
  BY InitStep
<1>2. IndInv /\ [Next]_vars => IndInv'
  <2> SUFFICES ASSUME IndInv, [Next]_vars PROVE IndInv'
    OBVIOUS
  <2>1. CASE TooShort
    BY <2>1, TooShortStep
  <2>2. CASE Enter
    BY <2>2, EnterStep
  <2>3. CASE RunSection
    BY <2>3, RunSectionStep
  <2>4. CASE NextLabel
    BY <2>4, NextLabelStep
  <2>5. CASE NoRoundLeft
    BY <2>5, NoRoundLeftStep
  <2>6. CASE Loading
    BY <2>6, LoadingStep
  <2>7. CASE Calculating
    BY <2>7, CalculatingStep
  <2>8. CASE Passing
    BY <2>8, PassingStep
  <2>9. CASE BailOut
    BY <2>9, BailOutStep
  <2>10. CASE Storing
    BY <2>10, StoringStep
  <2>11. CASE Moving
    BY <2>11, MovingWithin, MovingOut
  <2>12. CASE UNCHANGED vars
    BY <2>12, StutteringStep
  <2> QED
    BY <2>1, <2>2, <2>3, <2>4, <2>5, <2>6, <2>7, <2>8, <2>9, <2>10, <2>11, <2>12 DEF Next
<1> QED
  BY <1>1, <1>2, PTL DEF Spec

\* No load of any loop, in C or in assembly, reads outside the input: not the rounds
\* that are loaded ahead, not those that start before their block.
THEOREM LoadsStayInInput == Spec => []LoadsInInput
<1>1. IndInv => LoadsInInput
  BY LoadInInput DEF LoadsInInput
<1> QED
  BY <1>1, MachineKeepsThePlan, PTL

-----------------------------------------------------------------------------
(* The results, and the abstract loop.                                     *)

LEMMA SubSeqIs ==
  ASSUME NEW s, NEW m \in Int, NEW n \in Int
  PROVE  SubSeq(s, m, n) = [i \in 1 .. (1 + n - m) |-> s[i + m - 1]]
OBVIOUS

LEMMA AppendedIs ==
  ASSUME NEW m \in Nat, NEW n \in Nat, NEW s, IsVector(s, m), NEW t, IsVector(t, n),
         NEW u, IsVector(u, m + n),
         \A i \in 1..m : u[i] = s[i], \A i \in 1..n : u[m + i] = t[i]
  PROVE  u = s \o t
<1>1. Len(s) = m /\ Len(t) = n /\ s = [i \in 1..m |-> s[i]] /\ t = [i \in 1..n |-> t[i]]
      /\ u = [i \in 1 .. m + n |-> u[i]]
  BY DEF IsVector
<1>2. s \o t = [i \in 1 .. m + n |-> IF i <= m THEN s[i] ELSE t[i - m]]
  BY <1>1
<1>3. ASSUME NEW i \in 1 .. m + n PROVE u[i] = (IF i <= m THEN s[i] ELSE t[i - m])
  <2>1. CASE i <= m
    BY <2>1
  <2>2. CASE ~ (i <= m)
    <3> DEFINE j == i - m
    <3>1. j \in 1..n /\ m + j = i
      BY <2>2
    <3> HIDE DEF j
    <3>2. u[i] = t[j]
      BY <3>1
    <3> QED
      BY <2>2, <3>2 DEF j
  <2> QED
    BY <2>1, <2>2
<1> QED
  BY <1>1, <1>2, <1>3

\* How much was stored, when b blocks are in the output buffer.
StoredOf(lp, m) == IF m = <<>> THEN 0 ELSE Len(m) - GapOf(lp)

LEMMA StoredIs ==
  ASSUME NEW lp, LoopOK(lp), NEW in, NEW m, NEW b \in Nat, MemIs(lp, in, m, b)
  PROVE  StoredOf(lp, m) = b * OutBlock(lp) /\ b * OutBlock(lp) \in Nat
<1>1. OutBlock(lp) \in Nat \ {0} /\ GapOf(lp) \in Nat
  BY DEF LoopOK, SizesOK
<1>2. b * OutBlock(lp) \in Nat
  BY <1>1, Product
<1>3. CASE b = 0
  <2>1. m = <<>>
    BY <1>3 DEF MemIs
  <2>2. 0 * OutBlock(lp) = 0
    BY <1>1, Product
  <2> QED
    BY <1>2, <1>3, <2>1, <2>2 DEF StoredOf
<1>4. CASE b > 0
  <2> DEFINE o == b * OutBlock(lp)
             gap == GapOf(lp)
  <2>1. o >= 1
    <3>1. 1 * OutBlock(lp) <= b * OutBlock(lp)
      BY <1>1, <1>4, ProductMono
    <3> QED
      BY <1>1, <3>1
  <2>2. IsVector(m, o + gap)
    BY <1>4 DEF MemIs
  <2>3. gap \in Nat /\ o \in Nat
    BY <1>1, <1>2
  <2> HIDE DEF o
  <2>5. Len(m) = o + gap
    BY <2>2, <2>3, VectorLen
  <2>6. m # <<>>
    BY <2>1, <2>3, <2>5
  <2>7. StoredOf(lp, m) = o
    BY <2>3, <2>5, <2>6 DEF StoredOf
  <2> QED
    BY <1>2, <2>7 DEF o
<1> QED
  BY <1>3, <1>4

LEMMA StoredIsOf == Stored = StoredOf(Lp, mem)
BY DEF Stored, StoredOf, Gap, GapOf, Out, OutBlock

LEMMA IsDataAt ==
  ASSUME CallInv, NEW b \in Nat
  PROVE  IsData(b) <=> DataAt(Lp, input, b)
<1> DEFINE q == Lp.params.block
           o == b * q
           D(i) == base64_table_dec_8bit[input[i]] \in Sextet
<1>1. q \in Nat
  BY CallFacts DEF Block
<1>2. o \in Nat /\ (b + 1) * q = o + q
  <2> HIDE DEF q
  <2>1. (b + 1) * q = b * q + q
    BY <1>1, ProductOfNext
  <2>2. b * q \in Nat
    BY <1>1, Product
  <2> QED
    BY <2>1, <2>2
<1>3. IsData(b) <=> \A i \in o + 1 .. o + q : D(i)
  BY <1>2 DEF IsData
<1>4. DataAt(Lp, input, b) <=> \A i \in 1..q : D(o + i)
  BY DEF DataAt, BlockAt
<1> HIDE DEF D, o, q
<1>5. (\A i \in o + 1 .. o + q : D(i)) => \A i \in 1..q : D(o + i)
  BY <1>1, <1>2
<1>6. (\A i \in 1..q : D(o + i)) => \A i \in o + 1 .. o + q : D(i)
  <2> SUFFICES ASSUME \A i \in 1..q : D(o + i), NEW i \in o + 1 .. o + q PROVE D(i)
    OBVIOUS
  <2> DEFINE j == i - o
  <2>1. j \in 1..q /\ o + j = i
    BY <1>1, <1>2
  <2> HIDE DEF j
  <2>2. D(o + j)
    BY <2>1
  <2> QED
    BY <2>1, <2>2
<1> QED
  BY <1>3, <1>4, <1>5, <1>6

LEMMA ReturnedAgree ==
  ASSUME IndInv
  PROVE  ResultsAgree
<1> SUFFICES ASSUME pc = "returned"
             PROVE  LET b == Stored \div Out(Lp.params.block)
                        fit == IF Len(input) < Lp.params.guard THEN 0
                               ELSE (Len(input) - Lp.params.reserve) \div Lp.params.block
                    IN /\ src = Len(input) - slen /\ src = b * Lp.params.block
                       /\ dst = olen /\ olen = Stored
                       /\ IF Lp.op = "enc" THEN b = fit
                          ELSE (\A j \in 0 .. b - 1 : IsData(j)) /\ (b < fit => ~ IsData(b))
  BY DEF ResultsAgree
<1>1. CallInv /\ ReturnedInv
  BY DEF IndInv
<1>2. PICK b \in 0..Fit :
        /\ src = b * Block /\ slen = Len(input) - b * Block
        /\ dst = b * OutBlock(Lp) /\ olen = b * OutBlock(Lp)
        /\ MemIs(Lp, input, mem, b) /\ AllData(Lp, input, b)
        /\ b < Fit => Lp.op = "dec" /\ ~ DataAt(Lp, input, b)
  BY <1>1 DEF ReturnedInv
<1>3. /\ Fit \in Nat /\ Block \in Nat /\ OutBlock(Lp) \in Nat \ {0} /\ Len(input) \in Nat
      /\ Out(Block) = OutBlock(Lp)
  BY <1>1, CallFacts DEF CallInv
<1>4. b \in Nat /\ b <= Fit
  BY <1>2, <1>3
<1>5. Stored = b * OutBlock(Lp)
  BY <1>1, <1>2, <1>4, StoredIs, StoredIsOf, CallFacts
<1>6. Stored \div Out(Lp.params.block) = b
  <2>1. (b * OutBlock(Lp)) \div OutBlock(Lp) = b
    BY <1>3, <1>4, QuotientOfProduct
  <2>2. Out(Lp.params.block) = OutBlock(Lp)
    BY <1>3 DEF Block
  <2> QED
    BY <1>5, <2>1, <2>2
<1>7. (IF Len(input) < Lp.params.guard THEN 0
       ELSE (Len(input) - Lp.params.reserve) \div Lp.params.block) = Fit
  BY DEF Fit, Fits
<1>8. src = Len(input) - slen
  <2>1. b * Block \in Int
    BY <1>3, <1>4, Product
  <2> QED
    BY <1>2, <1>3, <2>1
<1>9. IF Lp.op = "enc" THEN b = Fit
      ELSE (\A j \in 0 .. b - 1 : IsData(j)) /\ (b < Fit => ~ IsData(b))
  <2>1. CASE Lp.op = "enc"
    BY <1>2, <1>3, <1>4, <2>1
  <2>2. CASE Lp.op # "enc"
    <3>1. Lp.op = "dec"
      BY <1>1, <2>2, CallFacts DEF IsaOK
    <3>2. ASSUME NEW j \in 0 .. b - 1 PROVE IsData(j)
      <4>1. DataAt(Lp, input, j) /\ j \in Nat
        BY <1>2, <1>4, <3>1 DEF AllData
      <4> QED
        BY <1>1, <4>1, IsDataAt
    <3>3. b < Fit => ~ IsData(b)
      BY <1>1, <1>2, <1>4, IsDataAt
    <3> QED
      BY <2>2, <3>2, <3>3
  <2> QED
    BY <2>1, <2>2
<1>10. src = b * Lp.params.block /\ dst = olen /\ olen = Stored
  BY <1>2, <1>5 DEF Block
<1> QED
  BY <1>6, <1>7, <1>8, <1>9, <1>10

\* When a loop returns, its four results agree with each other and with what is in the
\* output buffer, and it has stopped where it had to: at the last whole block it may read,
\* or, when decoding, at the first one that is not all data.
THEOREM LoopsReturnWhatTheyDid == Spec => []ResultsAgree
<1>1. IndInv => ResultsAgree
  BY ReturnedAgree
<1> QED
  BY <1>1, MachineKeepsThePlan, PTL

-----------------------------------------------------------------------------
(* The loops implement the abstract one.                                   *)

LEMMA BlockIsSubSeq ==
  ASSUME NEW lp, SizesOK(lp), NEW in \in Seq(Byte), NEW b \in Nat
  PROVE  SubSeq(in, b * lp.params.block + 1, b * lp.params.block + lp.params.block)
           = BlockAt(lp, in, b)
<1> DEFINE q == lp.params.block
           o == b * q
<1>1. q \in Nat /\ o \in Nat
  BY Product DEF SizesOK
<1>2. BlockAt(lp, in, b) = [i \in 1..q |-> in[o + i]]
  BY DEF BlockAt
<1> HIDE DEF q, o
<1>3. SubSeq(in, o + 1, o + q) = [i \in 1 .. (1 + (o + q) - (o + 1)) |-> in[i + (o + 1) - 1]]
  <2> DEFINE m == o + 1
             n == o + q
  <2>1. m \in Int /\ n \in Int
    BY <1>1
  <2> HIDE DEF m, n
  <2>2. SubSeq(in, m, n) = [i \in 1 .. (1 + n - m) |-> in[i + m - 1]]
    BY <2>1, SubSeqIs
  <2> QED
    BY <2>2 DEF m, n
<1>4. 1 + (o + q) - (o + 1) = q
  BY <1>1
<1>5. \A i \in 1..q : i + (o + 1) - 1 = o + i
  BY <1>1
<1>6. SubSeq(in, o + 1, o + q) = [i \in 1..q |-> in[o + i]]
  BY <1>3, <1>4, <1>5
<1> QED
  BY <1>2, <1>6 DEF o, q

LEMMA WholeBlocks ==
  ASSUME NEW lp, LoopOK(lp), NEW b \in Nat
  PROVE  /\ lp.op = "enc" => 3 * ((b * OutBlock(lp)) \div 4) = b * lp.params.block
         /\ lp.op = "dec" => 4 * ((b * OutBlock(lp)) \div 3) = b * lp.params.block
<1> DEFINE q == lp.params.block
<1>1. ASSUME lp.op = "enc" PROVE 3 * ((b * OutBlock(lp)) \div 4) = b * q
  <2> DEFINE m == q \div 3
  <2>1. m \in Nat /\ q = 3 * m /\ OutBlock(lp) = 4 * m
    <3>1. lp.isa \in EncIsas /\ lp.params = EncLoopOf(lp.isa)
      BY <1>1 DEF LoopOK, IsaOK
    <3>2. q \div 3 \in Nat \ {0} /\ q = 3 * (q \div 3)
      BY <3>1, EncParams
    <3> QED
      BY <1>1, <3>2 DEF OutBlock
  <2> HIDE DEF m, q
  <2>2. b * m \in Nat /\ b * OutBlock(lp) = (b * m) * 4 /\ 3 * (b * m) = b * q
    BY <2>1
  <2> DEFINE x == b * m
  <2>3. x \in Nat /\ b * OutBlock(lp) = x * 4 /\ 3 * x = b * q
    BY <2>2
  <2> HIDE DEF x
  <2>4. (x * 4) \div 4 = x
    BY <2>3
  <2> QED
    BY <2>3, <2>4
<1>2. ASSUME lp.op = "dec" PROVE 4 * ((b * OutBlock(lp)) \div 3) = b * q
  <2> DEFINE m == q \div 4
  <2>1. m \in Nat /\ q = 4 * m /\ OutBlock(lp) = 3 * m
    <3>1. lp.isa \in DecIsas /\ lp.params = DecLoopOf(lp.isa)
      BY <1>2 DEF LoopOK, IsaOK
    <3>2. q \div 4 \in Nat \ {0} /\ q = 4 * (q \div 4)
      BY <3>1, DecParams
    <3> QED
      BY <1>2, <3>2 DEF OutBlock
  <2> HIDE DEF m, q
  <2>2. b * m \in Nat /\ b * OutBlock(lp) = (b * m) * 3 /\ 4 * (b * m) = b * q
    BY <2>1
  <2> DEFINE x == b * m
  <2>3. x \in Nat /\ b * OutBlock(lp) = x * 3 /\ 4 * x = b * q
    BY <2>2
  <2> HIDE DEF x
  <2>4. (x * 3) \div 3 = x
    BY <2>3
  <2> QED
    BY <2>3, <2>4
<1> QED
  BY <1>1, <1>2

\* What the abstract loop has written.
WrittenOf(lp, m) == SubSeq(m, 1, StoredOf(lp, m))

LEMMA WrittenIs ==
  ASSUME NEW lp, LoopOK(lp), NEW in, NEW m, NEW b \in Nat, MemIs(lp, in, m, b),
         NEW o, o = b * OutBlock(lp)
  PROVE  IsVector(WrittenOf(lp, m), o) /\ \A i \in 1..o : WrittenOf(lp, m)[i] = m[i]
<1>1. StoredOf(lp, m) = o /\ o \in Nat
  BY StoredIs
<1>2. WrittenOf(lp, m) = [i \in 1 .. (1 + o - 1) |-> m[i + 1 - 1]]
  BY <1>1, SubSeqIs DEF WrittenOf
<1>3. 1 + o - 1 = o /\ \A i \in 1..o : i + 1 - 1 = i
  BY <1>1
<1>4. WrittenOf(lp, m) = [i \in 1..o |-> m[i]]
  BY <1>2, <1>3
<1> QED
  BY <1>4 DEF IsVector

\* BulkRounds has the tables too.
LEMMA SameTables ==
  /\ Rounds!Sextet = Sextet
  /\ Rounds!base64_table_enc_6bit = base64_table_enc_6bit
  /\ Rounds!base64_table_dec_8bit = base64_table_dec_8bit
  /\ \A d, i : Rounds!EncChar(d, i) = EncChar(d, i)
  /\ \A c, i : Rounds!DecByte(c, i) = DecByte(c, i)
<1>1. Rounds!Sextet = Sextet /\ Rounds!Byte = Byte /\ Rounds!Pad = Pad /\ Rounds!Bad = Bad
  BY DEF Rounds!Sextet, Sextet, Rounds!Byte, Byte, Rounds!Pad, Pad, Rounds!Bad, Bad
<1>2. Rounds!base64_table_enc_6bit = base64_table_enc_6bit
  BY <1>1 DEF Rounds!base64_table_enc_6bit, base64_table_enc_6bit
<1>3. Rounds!base64_table_dec_8bit = base64_table_dec_8bit
  BY <1>1 DEF Rounds!base64_table_dec_8bit, base64_table_dec_8bit
<1>4. \A d, i : Rounds!EncChar(d, i) = EncChar(d, i)
  BY DEF Rounds!EncChar, EncChar, Rounds!ByteAt, ByteAt, Rounds!Pad, Pad
<1>5. \A c, i : Rounds!DecByte(c, i) = DecByte(c, i)
  BY Zenon DEF Rounds!DecByte, DecByte
<1> QED
  BY <1>1, <1>2, <1>3, <1>4, <1>5

LEMMA StoringIsRound ==
  ASSUME IndInv, IndInv', Storing
  PROVE  Rounds!Round
<1> DEFINE b == Base + Here.stored
           q == Lp.params.block
           out == OutBlock(Lp)
           o == b * out
           block == BlockAt(Lp, input, b)
<1>1. CallInv /\ CallInv'
  BY DEF IndInv
<1>2. /\ LoopOK(Lp) /\ SizesOK(Lp) /\ IsaOK(Lp) /\ input \in Seq(Byte) /\ out \in Nat \ {0}
      /\ q \in Nat /\ Len(input) \in Nat
  BY <1>1, CallFacts DEF Block
<1>3. /\ b \in Nat /\ b < Fits(Lp, input) /\ (Lp.op = "dec" => DataAt(Lp, input, b))
      /\ MemIs(Lp, input, mem, b) /\ mem' = Overwrite(o, Done(Lp, input, b))
  BY StoresNext DEF Fit
<1>4. UNCHANGED <<name, input>>
  BY DEF Storing, call
<1>5. Lp' = Lp
  BY <1>4 DEF Lp
<1> HIDE DEF b, out, o, block
<1>6. /\ MemIs(Lp, input, mem', b + 1)
      /\ \A i \in 1..o : mem'[i] = mem[i]
      /\ \A i \in 1..out : mem'[o + i] = Wanted(Lp, input, b)[i]
  <2>1. \A x, m : x = b * OutBlock(Lp) /\ m = Overwrite(x, Done(Lp, input, b)) =>
                    /\ MemIs(Lp, input, m, b + 1)
                    /\ \A i \in 1..x : m[i] = mem[i]
                    /\ \A i \in 1 .. OutBlock(Lp) : m[x + i] = Wanted(Lp, input, b)[i]
    BY <1>2, <1>3, StoredBlock
  <2>2. o = b * OutBlock(Lp)
    BY DEF o, out
  <2> QED
    BY <1>3, <2>1, <2>2 DEF out
<1>7. o \in Nat /\ o + out \in Nat /\ (b + 1) * OutBlock(Lp) = o + out /\ o = b * OutBlock(Lp)
  <2>1. b * out \in Nat /\ (b + 1) * out = b * out + out
    BY <1>2, <1>3, Product, ProductOfNext
  <2> QED
    BY <1>2, <2>1 DEF o, out
<1> DEFINE s == WrittenOf(Lp, mem)
           u == WrittenOf(Lp, mem')
           w == Wanted(Lp, input, b)
<1>8. IsVector(s, o) /\ \A i \in 1..o : s[i] = mem[i]
  BY <1>2, <1>3, <1>7, WrittenIs
<1>9. IsVector(u, o + out) /\ \A i \in 1 .. o + out : u[i] = mem'[i]
  <2> DEFINE c == b + 1
             m == mem'
  <2>1. c \in Nat
    BY <1>3
  <2>2. MemIs(Lp, input, m, c) /\ o + out = c * OutBlock(Lp)
    BY <1>6, <1>7
  <2> HIDE DEF c, m
  <2>3. IsVector(WrittenOf(Lp, m), o + out) /\ \A i \in 1 .. o + out : WrittenOf(Lp, m)[i] = m[i]
    BY <1>2, <2>1, <2>2, WrittenIs
  <2> QED
    BY <2>3 DEF m
<1>10. IsVector(w, out)
  BY <1>2 DEF Wanted, IsVector, IsaOK, out, OutBlock
<1> HIDE DEF s, u, w
<1>11. u = s \o w
  <2>1. \A i \in 1..o : u[i] = s[i]
    <3> SUFFICES ASSUME NEW i \in 1..o PROVE u[i] = s[i]
      OBVIOUS
    <3>1. i \in 1 .. o + out
      BY <1>2, <1>7
    <3> QED
      BY <1>6, <1>8, <1>9, <3>1
  <2>2. \A i \in 1..out : u[o + i] = w[i]
    <3> SUFFICES ASSUME NEW i \in 1..out PROVE u[o + i] = w[i]
      OBVIOUS
    <3>1. o + i \in 1 .. o + out
      BY <1>2, <1>7
    <3> QED
      BY <1>6, <1>9, <3>1 DEF w
  <2>3. out \in Nat /\ o \in Nat
    BY <1>2, <1>7
  <2>4. \A m, n \in Nat :
          /\ IsVector(s, m) /\ IsVector(w, n) /\ IsVector(u, m + n)
          /\ (\A i \in 1..m : u[i] = s[i]) /\ (\A i \in 1..n : u[m + i] = w[i])
          => u = s \o w
    <3> SUFFICES ASSUME NEW m \in Nat, NEW n \in Nat,
                        IsVector(s, m), IsVector(w, n), IsVector(u, m + n),
                        \A i \in 1..m : u[i] = s[i], \A i \in 1..n : u[m + i] = w[i]
                 PROVE  u = s \o w
      OBVIOUS
    <3> QED
      BY AppendedIs, Zenon
  <2> QED
    BY <1>8, <1>9, <1>10, <2>1, <2>2, <2>3, <2>4
<1>12. SubSeq(mem, 1, Stored) = s /\ SubSeq(mem, 1, Stored)' = u
  <2>1. SubSeq(mem, 1, Stored) = s
    BY StoredIsOf DEF s, WrittenOf
  <2>2. Stored' = StoredOf(Lp, mem')
    BY <1>5 DEF Stored, StoredOf, Gap, GapOf, Out, OutBlock
  <2> QED
    BY <2>1, <2>2 DEF u, WrittenOf
<1>13. Len(s) = o
  BY <1>7, <1>8, VectorLen
<1>14. Rounds!Taken = b * q
  BY <1>2, <1>3, <1>7, <1>12, <1>13, WholeBlocks DEF Rounds!Taken, IsaOK
<1>15. b * q \in Nat /\ b * q + q <= Len(input)
  <2>1. b * q \in Nat /\ b * q + q + Lp.params.reserve <= Len(input) /\ Lp.params.reserve \in Nat
    BY <1>2, <1>3, BlockInInput DEF SizesOK
  <2> DEFINE x == b * q
  <2>2. x \in Nat /\ x + q + Lp.params.reserve <= Len(input) /\ Lp.params.reserve \in Nat
    BY <2>1
  <2> HIDE DEF x, q
  <2>3. x + q <= Len(input)
    BY <1>2, <2>2
  <2> QED
    BY <2>1, <2>3 DEF x
<1>16. Rounds!Next1 = BlockAt(Lp, input, b)
  BY <1>2, <1>3, <1>14, BlockIsSubSeq DEF Rounds!Next1
<1>17. Rounds!Admissible(Rounds!Next1)
  BY <1>3, <1>16, SameTables DEF Rounds!Admissible, DataAt
<1>18. Rounds!Result(Rounds!Next1) = w
  <2> DEFINE d == BlockAt(Lp, input, b)
             classes == [i \in 1..q |-> base64_table_dec_8bit[d[i]]]
  <2>1. Len(d) = q
    BY <1>2 DEF BlockAt
  <2>2. w = IF Lp.op = "enc"
            THEN [i \in 1 .. 4 * (q \div 3) |-> base64_table_enc_6bit[EncChar(d, i)]]
            ELSE [i \in 1 .. 3 * (q \div 4) |-> DecByte(classes, i)]
    BY DEF w, Wanted
  <2> HIDE DEF d
  <2>3. Rounds!Classes(d) = classes
    BY <2>1, SameTables DEF Rounds!Classes
  <2> HIDE DEF classes
  <2>4. Rounds!Result(d) = IF Lp.op = "enc"
            THEN [i \in 1 .. 4 * (q \div 3) |-> base64_table_enc_6bit[EncChar(d, i)]]
            ELSE [i \in 1 .. 3 * (q \div 4) |-> DecByte(classes, i)]
    <3>1. CASE Lp.op = "enc"
      BY <3>1, SameTables DEF Rounds!Result
    <3>2. CASE Lp.op # "enc"
      BY <2>3, <3>2, SameTables DEF Rounds!Result
    <3> QED
      BY <3>1, <3>2
  <2>5. Rounds!Result(d) = w
    BY <2>2, <2>4
  <2> QED
    BY <1>16, <2>5 DEF d
<1>19. UNCHANGED <<Lp.op, input, Lp.params.block>>
  BY <1>4, <1>5
<1> QED
  BY <1>11, <1>12, <1>14, <1>15, <1>17, <1>18, <1>19 DEF Rounds!Round

LEMMA OthersStutter ==
  ASSUME [Next]_vars, ~ Storing
  PROVE  UNCHANGED Rounds!vars
<1>1. mem' = mem /\ name' = name /\ input' = input
  <2>1. CASE TooShort
    BY <2>1 DEF TooShort, call
  <2>2. CASE Enter
    BY <2>2 DEF Enter, call
  <2>3. CASE RunSection
    BY <2>3 DEF RunSection, call
  <2>4. CASE NextLabel
    BY <2>4 DEF NextLabel, call
  <2>5. CASE NoRoundLeft
    BY <2>5 DEF NoRoundLeft, Leave, call
  <2>6. CASE Loading
    BY <2>6 DEF Loading, call
  <2>7. CASE Calculating
    BY <2>7 DEF Calculating, call
  <2>8. CASE Passing
    BY <2>8 DEF Passing, call
  <2>9. CASE BailOut
    BY <2>9 DEF BailOut, Leave, call
  <2>10. CASE Moving
    BY <2>10 DEF Moving, call
  <2>11. CASE UNCHANGED vars
    BY <2>11 DEF vars, call
  <2> QED
    BY <2>1, <2>2, <2>3, <2>4, <2>5, <2>6, <2>7, <2>8, <2>9, <2>10, <2>11 DEF Next
<1>2. Lp' = Lp
  BY <1>1 DEF Lp
<1>3. Stored' = Stored
  BY <1>1, <1>2 DEF Stored, Gap, Out
<1> QED
  BY <1>1, <1>2, <1>3 DEF Rounds!vars

\* Every bulk loop, in C or in assembly and whatever its instructions, implements the
\* abstract one on every input: a store is a round that appends the next block, exactly as
\* the bytewise code would write it, and nothing else changes the output.
THEOREM LoopsImplementRounds == Spec => RoundsSpec
<1>1. Init => Rounds!Init
  <2> SUFFICES ASSUME Init PROVE Rounds!Init
    OBVIOUS
  <2>1. mem = <<>>
    BY DEF Init
  <2>2. Stored = 0
    BY <2>1 DEF Stored
  <2>3. SubSeq(<<>>, 1, 0) = <<>>
    OBVIOUS
  <2> QED
    BY <2>1, <2>2, <2>3 DEF Rounds!Init
<1>2. IndInv /\ IndInv' /\ [Next]_vars => [Rounds!Round]_(Rounds!vars)
  <2> SUFFICES ASSUME IndInv, IndInv', [Next]_vars PROVE [Rounds!Round]_(Rounds!vars)
    OBVIOUS
  <2>1. CASE Storing
    BY <2>1, StoringIsRound
  <2>2. CASE ~ Storing
    BY <2>2, OthersStutter
  <2> QED
    BY <2>1, <2>2
<1> QED
  BY <1>1, <1>2, MachineKeepsThePlan, PTL DEF Spec, RoundsSpec, Rounds!Spec
=============================================================================
