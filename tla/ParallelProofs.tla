---------------------------- MODULE ParallelProofs --------------------------
(***************************************************************************)
(* Proofs about Parallel, for every source, team and bulk loop.  IndInv    *)
(* says of each part what its call has read, written and returned, of the  *)
(* caller how far it is, and of the reduction what it has summed up;       *)
(* MemInv, which needs the offsets not to wrap, where the output is.       *)
(***************************************************************************)
EXTENDS Parallel, FiniteSetTheorems, SequenceTheorems, TLAPS

-----------------------------------------------------------------------------
\* Arithmetic.

LEMMA MulMono ==
  ASSUME NEW a \in Nat, NEW b \in Nat, NEW q \in Nat, a <= b
  PROVE  a * q \in Nat /\ b * q \in Nat /\ a * q <= b * q
<1>1. PICK d \in Nat : b = a + d
  BY b - a \in Nat
<1>2. b * q = a * q + d * q /\ d * q \in Nat /\ a * q \in Nat
  BY <1>1
<1> QED
  BY <1>2

LEMMA MulZero ==
  ASSUME NEW a \in Nat, NEW b \in Nat
  PROVE  0 = a * 0 /\ 0 <= a * b
OBVIOUS

LEMMA MulNext ==
  ASSUME NEW a \in Nat, NEW q \in Nat
  PROVE  (a + 1) * q = a * q + q
OBVIOUS

LEMMA DivMul ==
  ASSUME NEW a \in Nat, NEW b \in Nat \ {0}
  PROVE  (a * b) \div b = a /\ (b * a) \div b = a
<1>1. a * b \in Nat /\ a * b = b * a
  OBVIOUS
<1>2. (a * b) \div b \in Nat /\ b * ((a * b) \div b) <= a * b /\ a * b < b * ((a * b) \div b) + b
  BY <1>1
<1> DEFINE d == (a * b) \div b
<1>3. d \in Nat /\ b * d <= b * a /\ b * a < b * (d + 1)
  BY <1>1, <1>2
<1> HIDE DEF d
<1>4. d <= a
  <2> SUFFICES ASSUME a + 1 <= d PROVE FALSE
    BY <1>3
  <2>1. (a + 1) * b <= d * b
    BY MulMono, <1>3
  <2> QED
    BY <2>1, <1>3
<1>5. a <= d
  <2> SUFFICES ASSUME d + 1 <= a PROVE FALSE
    BY <1>3
  <2>1. (d + 1) * b <= a * b
    BY MulMono, <1>3
  <2> QED
    BY <2>1, <1>3
<1> QED
  BY <1>1, <1>3, <1>4, <1>5 DEF d

-----------------------------------------------------------------------------
\* The parts of the source.

LEMMA Sizes ==
  ASSUME CallInv
  PROVE  /\ \/ op = "enc" /\ In = 3 /\ Out = 4 /\ extra \in 0..2
            \/ op = "dec" /\ In = 4 /\ Out = 3 /\ extra \in 0..3
         /\ Len(src) \in Nat
<1>1. op \in {"enc", "dec"} /\ extra \in 0..3
  BY ParallelAssumption DEF CallInv
<1>2. Len(src) \in Nat
  BY ParallelAssumption DEF CallInv
<1> QED
  BY <1>1, <1>2 DEF CallInv, In, Out

LEMMA Cuts ==
  ASSUME CallInv, CutInv
  PROVE  /\ Quota \in Nat /\ num_threads \in Nat
         /\ num_threads * Quota \in Nat
         /\ \A i \in Parts : FirstGroup(i) = i * Quota /\ i * Quota \in Nat
         /\ \A i \in Parts : i < num_threads =>
              Size(i) = Quota /\ EndGroup(i) = i * Quota + Quota
         /\ EndGroup(num_threads) = Len(src)
         /\ Size(num_threads) = Len(src) - num_threads * Quota
<1>1. Quota \in Nat /\ num_threads \in Nat /\ In \in {3, 4}
  BY Sizes, ParallelAssumption DEF CutInv, Quota
<1>2. ASSUME NEW i \in Nat PROVE FirstGroup(i) = i * Quota /\ i * Quota \in Nat
  <2>1. i * Quota \in Nat
    BY <1>1
  <2>2. i * len = (i * Quota) * In
    BY <1>1 DEF CutInv
  <2> QED
    BY <2>1, <2>2, <1>1, DivMul DEF FirstGroup
<1>3. \A i \in Parts : i \in Nat /\ (i < num_threads => i + 1 \in Nat)
  BY <1>1 DEF Parts
<1>4. ASSUME NEW i \in Parts, i < num_threads
      PROVE  EndGroup(i) = i * Quota + Quota /\ Size(i) = Quota
  <2>1. FirstGroup(i + 1) = (i + 1) * Quota /\ FirstGroup(i) = i * Quota /\ i * Quota \in Nat
    BY <1>2, <1>3, <1>4
  <2>2. (i + 1) * Quota = i * Quota + Quota
    BY MulNext, <1>1, <1>3
  <2> QED
    BY <2>1, <2>2, <1>4, <1>1 DEF EndGroup, Size
<1>5. num_threads * Quota \in Nat /\ FirstGroup(num_threads) = num_threads * Quota
  BY <1>1, <1>2
<1>6. EndGroup(num_threads) = Len(src) /\ Size(num_threads) = Len(src) - num_threads * Quota
  BY <1>1, <1>5 DEF EndGroup, Size
<1> QED
  BY <1>1, <1>2, <1>3, <1>4, <1>5, <1>6

\* The parts follow one another, and the last ends where the source does.
LEMMA PartsInOrder ==
  ASSUME CallInv, CutInv
  PROVE  /\ \A i \in Parts :
              /\ FirstGroup(i) \in Nat /\ EndGroup(i) \in Nat /\ Size(i) \in Nat
              /\ EndGroup(i) = FirstGroup(i) + Size(i)
              /\ EndGroup(i) <= Len(src)
         /\ \A i, j \in Parts : i < j => EndGroup(i) <= FirstGroup(j)
<1>1. Quota \in Nat /\ num_threads \in Nat /\ num_threads * Quota \in Nat /\ Len(src) \in Nat
      /\ num_threads * Quota <= Len(src)
  BY Cuts, Sizes DEF CutInv
<1>2. \A i \in Parts : i \in Nat /\ i <= num_threads
  BY <1>1 DEF Parts
<1>3. ASSUME NEW i \in Parts, NEW j \in Parts, i < j
      PROVE  EndGroup(i) <= FirstGroup(j)
  <2>1. (i + 1) * Quota <= j * Quota
    BY <1>1, <1>2, <1>3, MulMono
  <2>2. (i + 1) * Quota = i * Quota + Quota
    BY <1>1, <1>2, MulNext
  <2>3. EndGroup(i) = i * Quota + Quota /\ FirstGroup(j) = j * Quota
    BY <1>2, <1>3, <1>1, Cuts
  <2> QED
    BY <2>1, <2>2, <2>3
<1>4. ASSUME NEW i \in Parts
      PROVE  /\ FirstGroup(i) \in Nat /\ EndGroup(i) \in Nat /\ Size(i) \in Nat
             /\ EndGroup(i) = FirstGroup(i) + Size(i)
             /\ EndGroup(i) <= Len(src)
  <2>1. CASE i = num_threads
    BY <2>1, <1>1, Cuts
  <2>2. CASE i < num_threads
    <3>1. EndGroup(i) <= FirstGroup(num_threads) /\ FirstGroup(num_threads) = num_threads * Quota
      BY <1>3, <2>2, <1>1, Cuts DEF Parts
    <3>2. FirstGroup(i) = i * Quota /\ i * Quota \in Nat /\ Size(i) = Quota
          /\ EndGroup(i) = i * Quota + Quota
      BY <2>2, Cuts
    <3> QED
      BY <3>1, <3>2, <1>1
  <2> QED
    BY <2>1, <2>2, <1>2, <1>1
<1> QED
  BY <1>3, <1>4

\* Where no offset wraps, a part's output starts where its groups say.
LEMMA Offsets ==
  ASSUME CallInv, CutInv, NoWrap, NEW i \in Parts
  PROVE  Offset(i) = Out * FirstGroup(i)
<1> DEFINE f == FirstGroup(i)
<1>1. f \in Nat /\ f <= Len(src) /\ Len(src) \in Nat
  BY PartsInOrder, Sizes
<1>2. i * len = f * In
  <2>1. f = i * Quota /\ len = In * Quota /\ i \in Nat /\ Quota \in Nat /\ In \in {3, 4}
    BY Cuts, Sizes, SMTT(30) DEF CutInv, Parts
  <2> QED
    BY <2>1
<1> HIDE DEF f
<1>3. 12 * Len(src) < WordSize /\ WordSize \in Nat \ {0}
  BY ParallelAssumption DEF NoWrap, CallInv
<1>4. i * len * Out = 12 * f
  BY <1>1, <1>2, Sizes
<1>5. 12 * f \in 0 .. WordSize - 1
  BY <1>1, <1>3
<1>6. (12 * f) % WordSize = 12 * f
  BY <1>3, <1>5
<1>7. (12 * f) \div In = Out * f
  BY <1>1, Sizes
<1> QED
  BY <1>4, <1>6, <1>7 DEF Offset, f

-----------------------------------------------------------------------------
\* What a step that leaves the call and its parts alone keeps.

Fixed == <<op, src, extra, kernel, stub, num_threads, len>>

LEMMA FixedKeeps ==
  ASSUME UNCHANGED Fixed
  PROVE  /\ CallInv /\ result' \in {-1, 0, 1} /\ pc' \in {"fork", "parallel", "last", "returned"}
              => CallInv'
         /\ CutInv => CutInv'
         /\ Parts' = Parts /\ In' = In /\ Out' = Out /\ Quota' = Quota
         /\ num_threads' = num_threads /\ op' = op /\ stub' = stub /\ StubResult' = StubResult
         /\ \A i : /\ FirstGroup(i)' = FirstGroup(i) /\ EndGroup(i)' = EndGroup(i)
                   /\ Offset(i)' = Offset(i) /\ Size(i)' = Size(i)
                   /\ GoodPart(i)' = GoodPart(i) /\ PartLen(i)' = PartLen(i)
<1>1. Parts' = Parts /\ In' = In /\ Out' = Out /\ Quota' = Quota
      /\ num_threads' = num_threads /\ op' = op /\ stub' = stub /\ StubResult' = StubResult
  BY DEF Fixed, Parts, In, Out, Quota, StubResult
<1>2. ASSUME NEW i
      PROVE  FirstGroup(i)' = FirstGroup(i) /\ EndGroup(i)' = EndGroup(i)
             /\ Offset(i)' = Offset(i) /\ Size(i)' = Size(i)
  BY DEF Fixed, In, Out, FirstGroup, EndGroup, Offset, Size
<1>3. ASSUME NEW i
      PROVE  GoodPart(i)' = GoodPart(i)
  BY <1>2 DEF Fixed, GoodPart, Left
<1>4. ASSUME NEW i
      PROVE  PartLen(i)' = PartLen(i)
  BY <1>1, <1>2 DEF Fixed, PartLen, Left, Padding
<1>5. CallInv /\ result' \in {-1, 0, 1} /\ pc' \in {"fork", "parallel", "last", "returned"}
        => CallInv'
  BY DEF Fixed, CallInv
<1>6. CutInv => CutInv'
  BY <1>1 DEF Fixed, CutInv
<1> QED
  BY <1>1, <1>2, <1>3, <1>4, <1>5, <1>6

\* A part whose own variables do not change keeps its invariant.
LEMMA PartKept ==
  ASSUME UNCHANGED Fixed, NEW i, PartInv(i),
         pos'[i] = pos[i], wrote'[i] = wrote[i], res'[i] = res[i]
  PROVE  PartInv(i)'
<1>1. Done(i)' = Done(i)
  BY DEF Done
<1>2. src' = src
  BY DEF Fixed
<1> QED
  BY <1>1, <1>2, FixedKeeps DEF PartInv

-----------------------------------------------------------------------------
\* Counting the calls that have returned.

LEMMA EarlyFinite ==
  ASSUME num_threads \in Nat
  PROVE  IsFiniteSet(Early) /\ Cardinality(Early) \in Nat
<1>1. IsFiniteSet(0 .. num_threads - 2)
  BY FS_Interval
<1> QED
  BY <1>1, FS_Subset, FS_CardinalityType DEF Early

\* The results of a whole team that agree are counted as the team, and only those.
LEMMA ReturnedAll ==
  ASSUME num_threads \in Nat, NEW r
  PROVE  /\ IsFiniteSet(Returned(r)) /\ Cardinality(Returned(r)) \in 0 .. num_threads
         /\ Cardinality(Returned(r)) = num_threads <=>
              \A i \in 0 .. num_threads - 1 : res[i] = r
         /\ Cardinality(Returned(r)) = 0 <=>
              \A i \in 0 .. num_threads - 1 : res[i] # r
<1> DEFINE T == 0 .. num_threads - 1
<1>1. IsFiniteSet(T) /\ Cardinality(T) = num_threads
  BY FS_Interval
<1>2. Returned(r) \in SUBSET T
  BY DEF Returned
<1>3. /\ IsFiniteSet(Returned(r)) /\ Cardinality(Returned(r)) <= num_threads
      /\ Cardinality(Returned(r)) = num_threads => Returned(r) = T
  BY <1>1, <1>2, FS_Subset
<1>4. Cardinality(Returned(r)) \in Nat
  BY <1>3, FS_CardinalityType
<1>5. Cardinality(Returned(r)) = 0 <=> Returned(r) = {}
  BY <1>3, FS_EmptySet
<1>6. Returned(r) = T <=> \A i \in T : res[i] = r
  BY DEF Returned
<1>7. Returned(r) = {} <=> \A i \in T : res[i] # r
  BY DEF Returned
<1>8. Returned(r) = T => Cardinality(Returned(r)) = num_threads
  BY <1>1
<1> QED
  BY <1>3, <1>4, <1>5, <1>6, <1>7, <1>8

-----------------------------------------------------------------------------
\* A step of the call on part i: k groups read, n bytes written, and a result r
\* when the call returns.

LEMMA SumStep ==
  ASSUME IndInv, pc # "fork", UNCHANGED Fixed,
         NEW i \in Parts, ~ Done(i), NEW n \in Nat, NEW r \in {None, -1, 0, 1},
         wrote' = [wrote EXCEPT ![i] = @ + n],
         res' = [res EXCEPT ![i] = r],
         sum' = IF r = None THEN sum ELSE sum + wrote'[i]
  PROVE  SumInv'
<1>0. PICK nt \in Nat : nt = num_threads
  BY Cuts DEF IndInv
<1> DEFINE full == Out * Quota
           C == Cardinality(Early)
           H == \A j \in Early : wrote[j] = full
<1>1. /\ Quota \in Nat /\ Out \in {3, 4}
      /\ wrote \in [Parts -> Nat] /\ res \in [Parts -> {None, -1, 0, 1}]
      /\ SumInv
  BY Cuts, Sizes DEF IndInv, PartTypes
<1>2. full \in Nat
  BY <1>1
<1>3. i \in 0 .. nt /\ Parts = 0 .. nt /\ num_threads' = nt /\ Parts' = Parts /\ full' = full
  BY <1>0, FixedKeeps DEF Parts
<1>4. /\ \A j \in Parts : j # i => wrote'[j] = wrote[j] /\ res'[j] = res[j]
      /\ wrote'[i] = wrote[i] + n /\ res'[i] = r /\ wrote'[i] \in Nat
  BY <1>1
<1>5. /\ \A j \in Parts : j # i => Done(j)' = Done(j) /\ Count(j)' = Count(j)
      /\ \A j : j \notin Parts => Count(j)' = Count(j)
      /\ Done(i)' <=> r # None
      /\ Count(i) = 0 /\ Count(i)' = IF r # None THEN wrote'[i] ELSE 0
  BY <1>3, <1>4 DEF Done, Count
<1>6. C \in Nat /\ IsFiniteSet(Early)
  BY EarlyFinite, <1>0
<1>7. H => sum = full * C + Count(nt - 1) + Count(nt)
  BY <1>0, <1>1 DEF SumInv
<1>8. /\ Early = {j \in 0 .. nt - 2 : Done(j)} /\ Early' = {j \in 0 .. nt - 2 : Done(j)'}
      /\ 0 .. nt - 2 \subseteq Parts /\ i \notin Early
  BY <1>0, <1>3 DEF Early
<1>9. SumInv' <=> (H' => sum' = full * C' + Count(nt - 1)' + Count(nt)')
  BY <1>0, <1>3 DEF SumInv
<1>10. CASE r = None
  <2>1. Early' = Early
    BY <1>5, <1>10, <1>8
  <2>2. C' = C /\ sum' = sum
    BY <2>1, <1>10
  <2>3. H' <=> H
    BY <2>1, <1>3, <1>4, <1>8 DEF Early
  <2>4. Count(nt - 1)' = Count(nt - 1) /\ Count(nt)' = Count(nt)
    BY <1>1, <1>3, <1>5, <1>10
  <2> QED
    BY <2>2, <2>3, <2>4, <1>7, <1>9
<1>11. CASE r # None /\ i \in 0 .. nt - 2
  <2>1. Early' = Early \cup {i}
    BY <1>5, <1>11, <1>8
  <2>2. C' = C + 1
    BY <2>1, <1>6, <1>8, FS_AddElement
  <2>3. sum' = sum + wrote'[i]
    BY <1>11
  <2>4. H' => H /\ wrote'[i] = full
    <3>1. H' => \A j \in Early : wrote'[j] = full
      BY <2>1, <1>3
    <3>2. H' => wrote'[i] = full
      BY <2>1, <1>3
    <3>3. \A j \in Early : wrote'[j] = wrote[j]
      BY <1>1, <1>3, <1>4, <1>8 DEF Early
    <3> QED
      BY <3>1, <3>2, <3>3
  <2>5. Count(nt - 1)' = Count(nt - 1) /\ Count(nt)' = Count(nt)
    BY <1>1, <1>3, <1>5, <1>11
  <2>6. full * (C + 1) = full * C + full /\ full * C \in Nat
    BY <1>2, <1>6
  <2>7. Count(nt - 1) \in Nat /\ Count(nt) \in Nat
    BY <1>1, <1>3 DEF Count
  <2> HIDE DEF full, C, H
  <2> QED
    BY <2>2, <2>3, <2>4, <2>5, <2>6, <2>7, <1>7, <1>9, <1>2, <1>6
<1>12. CASE r # None /\ i \in {nt - 1, nt}
  <2>1. Early' = Early
    BY <1>5, <1>12, <1>8
  <2>2. C' = C /\ sum' = sum + wrote'[i]
    BY <2>1, <1>12
  <2>3. H' <=> H
    <3>1. \A j \in Early : wrote'[j] = wrote[j]
      BY <1>1, <1>3, <1>4, <1>8 DEF Early
    <3> QED
      BY <3>1, <2>1, <1>3
  <2>4. Count(nt - 1)' + Count(nt)' = Count(nt - 1) + Count(nt) + wrote'[i]
    <3>1. Count(nt - 1) \in Nat /\ Count(nt) \in Nat
      BY <1>1, <1>3 DEF Count
    <3>2. CASE i = nt
      <4>1. Count(nt - 1)' = Count(nt - 1)
        BY <3>2, <1>1, <1>3, <1>5
      <4>2. Count(nt) = 0 /\ Count(nt)' = wrote'[i]
        BY <3>2, <1>5, <1>12
      <4> QED
        BY <4>1, <4>2, <3>1, <1>4
    <3>3. CASE i = nt - 1
      <4>1. Count(nt)' = Count(nt)
        BY <3>3, <1>1, <1>3, <1>5
      <4>2. Count(nt - 1) = 0 /\ Count(nt - 1)' = wrote'[i]
        BY <3>3, <1>5, <1>12
      <4> QED
        BY <4>1, <4>2, <3>1, <1>4
    <3> QED
      BY <3>2, <3>3, <1>12
  <2>5. full * C \in Nat /\ Count(nt - 1) \in Nat /\ Count(nt) \in Nat
        /\ Count(nt - 1)' \in Nat /\ Count(nt)' \in Nat
    <3>1. full * C \in Nat
      BY <1>2, <1>6
    <3>2. Count(nt - 1) \in Nat /\ Count(nt) \in Nat
      BY <1>1, <1>3 DEF Count
    <3>3. \A j \in Parts : wrote'[j] \in Nat
      BY <1>1, <1>4
    <3>4. Count(nt - 1)' \in Nat /\ Count(nt)' \in Nat
      BY <1>1, <1>3, <3>3 DEF Count
    <3> QED
      BY <3>1, <3>2, <3>4
  <2> HIDE DEF full, C, H
  <2> QED
    BY <2>2, <2>3, <2>4, <2>5, <1>7, <1>9, <1>4
<1> QED
  BY <1>1, <1>3, <1>10, <1>11, <1>12

LEMMA CallStep ==
  ASSUME IndInv, pc # "fork", UNCHANGED <<Fixed, pc, result, outlen>>,
         NEW i \in Parts, Running(i),
         NEW k \in Nat, NEW n \in Nat, NEW r \in {None, -1, 0, 1},
         pos' = [pos EXCEPT ![i] = @ + k],
         wrote' = [wrote EXCEPT ![i] = @ + n],
         res' = [res EXCEPT ![i] = r],
         sum' = IF r = None THEN sum ELSE sum + wrote'[i],
         PartInv(i)'
  PROVE  IndInv'
<1>1. CallInv /\ CutInv /\ PhaseInv /\ PartTypes /\ \A j \in Parts : PartInv(j)
  BY DEF IndInv
<1>2. num_threads \in Nat /\ Parts = 0 .. num_threads /\ ~ Done(i)
  BY <1>1, Cuts DEF Parts, Running, Done
<1>3. /\ \A j \in Parts : j # i => wrote'[j] = wrote[j] /\ res'[j] = res[j] /\ pos'[j] = pos[j]
      /\ res'[i] = r
  BY <1>1 DEF PartTypes
<1>4. CallInv' /\ CutInv'
  <2>1. result' \in {-1, 0, 1} /\ pc' \in {"fork", "parallel", "last", "returned"}
    BY <1>1 DEF CallInv
  <2> QED
    BY <1>1, <2>1, FixedKeeps
<1>5. PartTypes'
  BY <1>1, FixedKeeps DEF PartTypes
<1>6. \A j \in Parts' : PartInv(j)'
  <2> SUFFICES ASSUME NEW j \in Parts PROVE PartInv(j)'
    BY FixedKeeps
  <2>1. CASE j = i
    BY <2>1
  <2>2. CASE j # i
    BY <2>2, <1>1, <1>3, PartKept
  <2> QED
    BY <2>1, <2>2
<1>7. SumInv'
  BY <1>2, SumStep
<1>8. PhaseInv'
  <2>1. pc' = pc /\ result' = result /\ num_threads' = num_threads /\ op' = op
    BY FixedKeeps
  <2>2. CASE pc = "parallel"
    <3>1. i < num_threads
      BY <2>2 DEF Running
    <3>2. ~ Done(num_threads)'
      BY <3>1, <2>1, <2>2, <1>1, <1>2, <1>3 DEF PhaseInv, Done
    <3> QED
      BY <3>2, <2>1, <2>2, <1>1 DEF PhaseInv
  <2>3. CASE pc = "last"
    <3>1. i = num_threads
      BY <2>3 DEF Running
    <3>2. \A j \in 0 .. num_threads - 1 : res'[j] = res[j]
      BY <3>1, <1>2, <1>3
    <3>3. AllDone' = AllDone /\ AllGood' = AllGood
      BY <3>2, <2>1 DEF AllDone, AllGood, Done
    <3> QED
      BY <3>3, <2>1, <2>3, <1>1 DEF PhaseInv
  <2> QED
    BY <2>2, <2>3 DEF Running
<1> QED
  BY <1>4, <1>5, <1>6, <1>7, <1>8 DEF IndInv

-----------------------------------------------------------------------------
\* The actions of a part, each as such a step.

LEMMA Cursor ==
  ASSUME IndInv, pc # "fork", NEW i \in Parts, Running(i)
  PROVE  /\ pos[i] \in Nat /\ wrote[i] = Out * pos[i] /\ wrote[i] \in Nat /\ pos[i] <= Size(i)
         /\ FirstGroup(i) \in Nat /\ Size(i) \in Nat /\ EndGroup(i) \in Nat
         /\ EndGroup(i) = FirstGroup(i) + Size(i) /\ EndGroup(i) <= Len(src)
         /\ Group(i) = FirstGroup(i) + pos[i]
         /\ Left(i) \in 0..3 /\ Left(i) < In /\ (i < num_threads => Left(i) = 0)
         /\ Rest(i) = In * (Size(i) - pos[i]) + Left(i)
         /\ ~ stub => \A g \in FirstGroup(i) + 1 .. FirstGroup(i) + pos[i] : src[g] = "data"
         /\ res[i] = None /\ ~ Done(i) /\ num_threads \in Nat /\ i \in Nat /\ PartInv(i)
<1>1. res[i] = None /\ ~ Done(i) /\ PartInv(i)
  BY DEF Running, Done, IndInv
<1>2. pos[i] \in Nat /\ wrote[i] = Out * pos[i] /\ wrote[i] \in Nat /\ pos[i] <= Size(i)
      /\ (~ stub => \A g \in FirstGroup(i) + 1 .. FirstGroup(i) + pos[i] : src[g] = "data")
  BY <1>1 DEF IndInv, PartTypes, PartInv
<1>3. /\ FirstGroup(i) \in Nat /\ Size(i) \in Nat /\ EndGroup(i) \in Nat
      /\ EndGroup(i) = FirstGroup(i) + Size(i) /\ EndGroup(i) <= Len(src)
  BY PartsInOrder DEF IndInv
<1>4. num_threads \in Nat /\ i \in Nat
  BY Cuts DEF IndInv, Parts
<1>5. Left(i) \in 0..3 /\ Left(i) < In /\ (i < num_threads => Left(i) = 0)
  BY <1>4, Sizes DEF IndInv, Left
<1>6. Group(i) = FirstGroup(i) + pos[i]
  BY DEF Group
<1>7. Rest(i) = In * (Size(i) - pos[i]) + Left(i)
  BY DEF Rest, Size, Left
<1> QED
  BY <1>1, <1>2, <1>3, <1>4, <1>5, <1>6, <1>7

\* A round takes whole groups of the part, and its zeros stay in the part too.
LEMMA RoundFits ==
  ASSUME IndInv, pc # "fork", NEW i \in Parts, Running(i), BulkReady(i)
  PROVE  /\ BlockGroups \in Nat \ {0} /\ kernel.gap \in Nat
         /\ pos[i] + BlockGroups <= Size(i)
         /\ i < num_threads => Out * BlockGroups + kernel.gap <= Out * (Size(i) - pos[i])
<1> DEFINE b == kernel.block
           gu == kernel.guard
           ga == kernel.gap
           B == BlockGroups
           d == Size(i) - pos[i]
<1>1. CallInv
  BY DEF IndInv
<1>2. kernel \in Kernels /\ kernel.op = op
  BY <1>1 DEF CallInv
<1>3. b \in Nat \ {0} /\ gu \in Nat /\ ga \in Nat
  BY <1>2, ParallelAssumption
<1>4. b % In = 0 /\ gu >= b /\ In * ga <= Out * (gu - b)
  BY <1>2, ParallelAssumption DEF In, Out
<1>5. d \in Nat /\ Left(i) \in 0..3 /\ Left(i) < In /\ (i < num_threads => Left(i) = 0)
      /\ Rest(i) = In * d + Left(i) /\ pos[i] \in Nat /\ Size(i) = d + pos[i]
  BY Cursor
<1>6. Rest(i) >= gu
  BY DEF BulkReady
<1>7. \/ In = 3 /\ Out = 4
      \/ In = 4 /\ Out = 3
  BY <1>1, Sizes
<1>8. B = b \div In
  BY DEF BlockGroups
<1> HIDE DEF b, gu, ga, B, d
<1>9. B \in Nat \ {0} /\ b = In * B
  BY <1>3, <1>4, <1>7, <1>8
<1>10. B <= d
  BY <1>3, <1>4, <1>5, <1>6, <1>7, <1>9
<1>11. ASSUME i < num_threads PROVE Out * B + ga <= Out * d
  <2>1. In * d >= gu
    BY <1>5, <1>6, <1>7, <1>11
  <2> QED
    BY <2>1, <1>3, <1>4, <1>5, <1>7, <1>9
<1> QED
  BY <1>3, <1>5, <1>9, <1>10, <1>11 DEF B, ga, d

LEMMA StubInv ==
  ASSUME IndInv, pc # "fork", NEW i \in Parts, Stub(i)
  PROVE  IndInv'
<1>1. Running(i) /\ stub
  BY DEF Stub
<1>2. UNCHANGED <<Fixed, pc, result, outlen>> /\ pos' = pos /\ wrote' = wrote
  BY DEF Stub, Fixed
<1>3. PartTypes /\ PartInv(i) /\ StubResult \in {-1, 1}
  BY DEF IndInv, StubResult
<1>4. pos' = [pos EXCEPT ![i] = @ + 0] /\ wrote' = [wrote EXCEPT ![i] = @ + 0]
  BY <1>2, <1>3 DEF PartTypes
<1>5. res' = [res EXCEPT ![i] = StubResult] /\ sum' = sum + wrote'[i]
  BY DEF Stub, Leave, StubResult
<1>6. PartInv(i)'
  <2>1. res'[i] = StubResult /\ Done(i)'
    BY <1>3, <1>5 DEF PartTypes, Done, None
  <2> QED
    BY <2>1, <1>1, <1>2, <1>3, FixedKeeps DEF PartInv
<1>7. StubResult \in {None, -1, 0, 1} /\ StubResult # None
  BY <1>3 DEF None
<1>8. sum' = IF StubResult = None THEN sum ELSE sum + wrote'[i]
  BY <1>5, <1>7
<1> QED
  BY <1>1, <1>2, <1>4, <1>5, <1>6, <1>7, <1>8, CallStep

LEMMA RoundInv ==
  ASSUME IndInv, pc # "fork", NEW i \in Parts, Round(i)
  PROVE  IndInv'
<1> DEFINE B == BlockGroups
<1>1. Running(i) /\ ~ stub /\ BulkReady(i)
  BY DEF Round
<1>2. UNCHANGED <<Fixed, pc, result, outlen>> /\ res' = res /\ sum' = sum
  BY DEF Round, Fixed
<1>3. PartTypes /\ Out \in {3, 4}
  BY Sizes DEF IndInv
<1>4. B \in Nat \ {0} /\ pos[i] + B <= Size(i)
  BY <1>1, RoundFits
<1>5. pos' = [pos EXCEPT ![i] = @ + B] /\ wrote' = [wrote EXCEPT ![i] = @ + B * Out]
  BY DEF Round, Store
<1>6. \A g \in Group(i) + 1 .. Group(i) + B : src[g] = "data"
  BY <1>1 DEF BulkReady
<1> HIDE DEF B
<1>7. B * Out \in Nat
  BY <1>3, <1>4
<1>8. res' = [res EXCEPT ![i] = None]
  BY <1>1, <1>2, <1>3 DEF Running, PartTypes
<1>9. PartInv(i)'
  <2> DEFINE f == FirstGroup(i)
             s == Size(i)
             x == pos[i]
  <2>0. /\ x \in Nat /\ s \in Nat /\ f \in Nat /\ x <= s /\ wrote[i] = Out * x
        /\ Group(i) = f + x /\ \A g \in f + 1 .. f + x : src[g] = "data"
    BY <1>1, Cursor
  <2>1. pos'[i] = pos[i] + B /\ wrote'[i] = wrote[i] + B * Out /\ ~ Done(i)'
    BY <1>1, <1>2, <1>3, <1>5 DEF PartTypes, Done, Running
  <2>2. wrote'[i] = Out * pos'[i] /\ pos'[i] <= s /\ pos'[i] \in Nat
    BY <2>0, <2>1, <1>3, <1>4
  <2>3. wrote'[i] <= Out * s
    BY <2>0, <2>2, <1>3
  <2>4. \A g \in f + 1 .. f + pos'[i] : src[g] = "data"
    BY <2>0, <2>1, <1>4, <1>6
  <2>5. src' = src /\ stub' = stub
    BY <1>2 DEF Fixed
  <2> QED
    BY <2>1, <2>2, <2>3, <2>4, <2>5, <1>1, <1>2, FixedKeeps DEF PartInv
<1> QED
  BY <1>1, <1>2, <1>4, <1>5, <1>7, <1>8, <1>9, CallStep

LEMMA DataGroupInv ==
  ASSUME IndInv, pc # "fork", NEW i \in Parts, DataGroup(i)
  PROVE  IndInv'
<1>1. Running(i) /\ ~ stub /\ pos[i] < Size(i) /\ src[Group(i) + 1] = "data"
  BY DEF DataGroup, AtTail, Size
<1>2. UNCHANGED <<Fixed, pc, result, outlen>> /\ res' = res /\ sum' = sum
  BY DEF DataGroup, Fixed
<1>3. PartTypes /\ Out \in {3, 4}
  BY Sizes DEF IndInv
<1>4. pos' = [pos EXCEPT ![i] = @ + 1] /\ wrote' = [wrote EXCEPT ![i] = @ + Out]
  BY DEF DataGroup, Store
<1>5. res' = [res EXCEPT ![i] = None]
  BY <1>1, <1>2, <1>3 DEF Running, PartTypes
<1>6. PartInv(i)'
  <2> DEFINE f == FirstGroup(i)
             s == Size(i)
             x == pos[i]
  <2>0. /\ x \in Nat /\ s \in Nat /\ f \in Nat /\ x <= s /\ wrote[i] = Out * x
        /\ Group(i) = f + x /\ \A g \in f + 1 .. f + x : src[g] = "data"
    BY <1>1, Cursor
  <2>1. pos'[i] = pos[i] + 1 /\ wrote'[i] = wrote[i] + Out /\ ~ Done(i)'
    BY <1>1, <1>2, <1>3, <1>4 DEF PartTypes, Done, Running
  <2>2. wrote'[i] = Out * pos'[i] /\ pos'[i] <= s /\ pos'[i] \in Nat
    BY <2>0, <2>1, <1>1, <1>3
  <2>3. wrote'[i] <= Out * s
    BY <2>0, <2>2, <1>3
  <2>4. \A g \in f + 1 .. f + pos'[i] : src[g] = "data"
    BY <2>0, <2>1, <1>1
  <2>5. src' = src /\ stub' = stub
    BY <1>2 DEF Fixed
  <2> QED
    BY <2>1, <2>2, <2>3, <2>4, <2>5, <1>1, <1>2, FixedKeeps DEF PartInv
<1> QED
  BY <1>1, <1>2, <1>3, <1>4, <1>5, <1>6, CallStep

\* Padding that nothing follows makes a part good; anything else that is not data,
\* or data after padding, does not.
LEMMA OtherGroupInv ==
  ASSUME IndInv, pc # "fork", NEW i \in Parts, OtherGroup(i)
  PROVE  IndInv'
<1> DEFINE f == FirstGroup(i)
           s == Size(i)
           x == pos[i]
           a == src[Group(i) + 1]
           r == IF a # "bad" /\ Rest(i) = In THEN 1 ELSE 0
<1>1. Running(i) /\ ~ stub /\ x < s /\ a # "data"
  BY DEF OtherGroup, AtTail, Size
<1>2. PICK n \in IF a = "pad1" THEN {2} ELSE IF a = "pad2" THEN {1} ELSE {0, 1, 2} :
        Store(i, SubSeq(Bytes(Group(i), 1), 1, n), n)
  BY DEF OtherGroup
<1>3. UNCHANGED <<Fixed, pc, result, outlen>>
  BY DEF OtherGroup, Fixed
<1>4. PartTypes /\ CallInv
  BY DEF IndInv
<1>5. pos' = [pos EXCEPT ![i] = @ + 1] /\ wrote' = [wrote EXCEPT ![i] = @ + n]
  BY <1>2 DEF OtherGroup, Store
<1>6. res' = [res EXCEPT ![i] = r] /\ sum' = sum + wrote'[i]
  BY DEF OtherGroup, Leave
<1>7. n \in 0..2
  BY <1>2
<1>8. r \in {0, 1} /\ r # None
  BY DEF None
<1>9. /\ x \in Nat /\ s \in Nat /\ f \in Nat /\ wrote[i] = Out * x
      /\ Group(i) = f + x /\ EndGroup(i) = f + s /\ f + s <= Len(src) /\ Len(src) \in Nat
      /\ Left(i) \in 0..3 /\ Rest(i) = In * (s - x) + Left(i)
      /\ \A g \in f + 1 .. f + x : src[g] = "data"
  BY <1>1, <1>4, Cursor, Sizes
<1>10. op = "dec" /\ In = 4 /\ Out = 3
  <2>1. f + x + 1 \in 1 .. Len(src)
    BY <1>1, <1>9
  <2>2. op # "enc"
    BY <2>1, <1>1, <1>4, <1>9 DEF CallInv
  <2> QED
    BY <2>2, <1>4, Sizes
<1>11. a \in {"bad", "pad1", "pad2"}
  <2>1. src \in Seq({"data", "bad", "pad1", "pad2"}) /\ f + x + 1 \in 1 .. Len(src)
    BY <1>1, <1>4, <1>9, ParallelAssumption, SMTT(30) DEF CallInv
  <2> QED
    BY <2>1, <1>1, <1>9
<1>12. r = 1 <=> a # "bad" /\ x + 1 = s /\ Left(i) = 0
  <2>1. Rest(i) = 4 <=> x + 1 = s /\ Left(i) = 0
    <3> HIDE DEF x, s
    <3> QED
      BY <1>1, <1>9, <1>10, SMTT(30)
  <2> QED
    BY <2>1, <1>10
<1>13. GoodPart(i) <=> /\ Left(i) = 0
                       /\ \A g \in f + 1 .. f + s :
                            src[g] = "data" \/ (g = f + s /\ src[g] # "bad")
  BY <1>9, <1>10 DEF GoodPart
<1>14. a = src[f + x + 1] /\ f + x + 1 \in f + 1 .. f + s
  BY <1>1, <1>9
<1>15. PartInv(i)'
  <2>1. pos'[i] = x + 1 /\ wrote'[i] = 3 * x + n /\ res'[i] = r /\ Done(i)'
    BY <1>4, <1>5, <1>6, <1>8, <1>9, <1>10 DEF PartTypes, Done
  <2> HIDE DEF f, s, x, a, r
  <2>2. pos'[i] <= s /\ wrote'[i] <= 3 * s
    BY <2>1, <1>1, <1>7, <1>9
  <2>3. CASE r = 1
    <3>1. x + 1 = s /\ Left(i) = 0 /\ a # "bad" /\ f + x + 1 = f + s
      BY <2>3, <1>12, <1>9
    <3>2. GoodPart(i)
      <4> SUFFICES ASSUME NEW g \in f + 1 .. f + s, src[g] # "data"
                   PROVE  g = f + s /\ src[g] # "bad"
        BY <1>13, <3>1
      <4>1. g \notin f + 1 .. f + x
        BY <1>9
      <4>2. g = f + x + 1
        BY <4>1, <3>1, <1>9
      <4> QED
        BY <4>2, <3>1, <1>14
    <3>3. Padding(EndGroup(i)) = 3 - n
      <4>1. src[EndGroup(i)] = a
        BY <3>1, <1>9, <1>14
      <4>2. (a = "pad1" /\ n = 2) \/ (a = "pad2" /\ n = 1)
        BY <3>1, <1>2, <1>11
      <4> QED
        BY <4>1, <4>2 DEF Padding
    <3>4. PartLen(i) = 3 * s - Padding(EndGroup(i))
      BY <3>1, <1>9, <1>10, <1>7, <3>3 DEF PartLen, s
    <3>5. wrote'[i] = PartLen(i)
      BY <3>1, <3>3, <3>4, <2>1, <1>7, <1>9
    <3> QED
      BY <2>1, <2>2, <2>3, <3>2, <3>5, <1>1, <1>3, <1>10, FixedKeeps DEF PartInv, Fixed, s
  <2>4. CASE r = 0
    <3>1. ~ GoodPart(i)
      <4>1. CASE a = "bad"
        BY <4>1, <1>1, <1>13, <1>14
      <4>2. CASE x + 1 # s
        <5>1. f + x + 1 # f + s
          BY <4>2, <1>9
        <5> QED
          BY <5>1, <1>1, <1>13, <1>14
      <4>3. CASE Left(i) # 0
        BY <4>3, <1>13
      <4> QED
        BY <4>1, <4>2, <4>3, <2>4, <1>12
    <3> QED
      BY <2>1, <2>2, <2>4, <3>1, <1>1, <1>3, <1>10, FixedKeeps DEF PartInv, Fixed, s
  <2> QED
    BY <2>3, <2>4, <1>8
<1> HIDE DEF r
<1>16. 1 \in Nat /\ n \in Nat /\ r \in {None, -1, 0, 1}
       /\ sum' = IF r = None THEN sum ELSE sum + wrote'[i]
  BY <1>6, <1>7, <1>8
<1> QED
  BY <1>1, <1>3, <1>5, <1>6, <1>15, <1>16, CallStep

\* At the end of a part that held data alone.
LEMMA EndOfPartInv ==
  ASSUME IndInv, pc # "fork", NEW i \in Parts, EndOfPart(i)
  PROVE  IndInv'
<1> DEFINE f == FirstGroup(i)
           s == Size(i)
           open == Left(i)
           n == IF op = "dec" THEN (3 * open) \div 4 ELSE IF open = 0 THEN 0 ELSE 4
           r == IF op = "dec" /\ open > 0 THEN 0 ELSE 1
<1>1. Running(i) /\ ~ stub /\ pos[i] = s
  BY DEF EndOfPart, AtTail, Size
<1>2. PartTypes /\ CallInv
  BY DEF IndInv
<1>3. UNCHANGED <<Fixed, pc, result, outlen>> /\ pos' = pos
  BY DEF EndOfPart, Fixed
<1>4. /\ pos[i] \in Nat /\ s \in Nat /\ f \in Nat /\ wrote[i] = Out * s
      /\ EndGroup(i) = f + s /\ i \in Nat /\ num_threads \in Nat /\ i <= num_threads
      /\ open \in 0..3 /\ (i < num_threads => open = 0)
      /\ \A g \in f + 1 .. f + s : src[g] = "data"
  BY <1>1, Cursor DEF Parts
<1>5. wrote' = [wrote EXCEPT ![i] = @ + n]
      /\ res' = [res EXCEPT ![i] = r] /\ sum' = sum + wrote'[i]
  <2>1. open = IF i < num_threads THEN 0 ELSE extra
    BY <1>4 DEF Left
  <2> QED
    BY <2>1 DEF EndOfPart, Store, Leave
<1>6. \/ op = "enc" /\ Out = 4 /\ n = IF open > 0 THEN 4 ELSE 0
      \/ op = "dec" /\ Out = 3 /\ n = (3 * open) \div 4
  BY <1>2, <1>4, Sizes
<1>7. n \in 0..4 /\ (open = 0 => n = 0)
  BY <1>4, <1>6
<1>8. r \in {0, 1} /\ r # None
  BY DEF None
<1>9. (IF s > 0 THEN Padding(EndGroup(i)) ELSE 0) = 0
  <2>1. CASE s > 0
    <3>1. f + s \in f + 1 .. f + s
      BY <2>1, <1>4
    <3> QED
      BY <3>1, <1>4 DEF Padding
  <2> QED
    BY <2>1
<1>10. r = 1 => PartLen(i) = Out * s + n
  <2>1. PartLen(i) = Out * s - 0 + (IF op = "enc" /\ open > 0 THEN 4 ELSE 0)
    BY <1>9 DEF PartLen
  <2>2. r = 1 => n = IF op = "enc" /\ open > 0 THEN 4 ELSE 0
    BY <1>4, <1>6
  <2>3. Out * s \in Nat
    BY <1>4, <1>6
  <2> HIDE DEF r, n, s, open
  <2> QED
    BY <2>1, <2>2, <2>3, <1>7
<1>11. GoodPart(i) <=> r = 1
  BY <1>4, <1>6 DEF GoodPart
<1> HIDE DEF r, n
<1>12. PartInv(i)'
  <2>1. pos'[i] = s /\ wrote'[i] = Out * s + n /\ res'[i] = r /\ Done(i)'
    BY <1>1, <1>2, <1>3, <1>4, <1>5, <1>7, <1>8 DEF PartTypes, Done
  <2>2. i < num_threads => wrote'[i] <= Out * s
    BY <2>1, <1>4, <1>6, <1>7
  <2>3. r = 1 => GoodPart(i) /\ wrote'[i] = PartLen(i)
    BY <2>1, <1>10, <1>11
  <2>4. r = 0 => ~ GoodPart(i)
    BY <1>11
  <2>5. s <= s
    BY <1>4
  <2> HIDE DEF open, f
  <2> QED
    BY <2>1, <2>2, <2>3, <2>4, <2>5, <1>1, <1>3, <1>8, FixedKeeps DEF PartInv, Fixed
<1>13. pos' = [pos EXCEPT ![i] = @ + 0]
  BY <1>2, <1>3 DEF PartTypes
<1>14. 0 \in Nat /\ n \in Nat /\ r \in {None, -1, 0, 1}
       /\ sum' = IF r = None THEN sum ELSE sum + wrote'[i]
  BY <1>5, <1>7, <1>8
<1> QED
  BY <1>1, <1>3, <1>5, <1>12, <1>13, <1>14, CallStep

-----------------------------------------------------------------------------
\* The start of a call: a team, or none, and its parts.

LEMMA NextSizes == (CallInv /\ CutInv)' => (\A i \in Parts : Size(i) \in Nat)'
<1>1. CallInv /\ CutInv => \A i \in Parts : Size(i) \in Nat
  BY PartsInOrder
<1> QED
  BY <1>1, PTL

LEMMA StartInv ==
  ASSUME CallInv', CutInv', sum' = 0, NEW n \in Nat, num_threads' = n,
         pos' = [i \in 0..n |-> 0], wrote' = [i \in 0..n |-> 0],
         res' = [i \in 0..n |-> None]
  PROVE  /\ PartTypes' /\ SumInv' /\ \A i \in Parts' : PartInv(i)'
         /\ \A i \in Parts' : ~ Done(i)'
<1>1. Parts' = 0..n
  BY DEF Parts
<1>2. PartTypes'
  BY <1>1 DEF PartTypes
<1>3. \A i \in 0..n : pos'[i] = 0 /\ wrote'[i] = 0 /\ ~ Done(i)'
  BY DEF Done
<1>4. Out' \in {3, 4}
  BY DEF Out
<1>5. ASSUME NEW i \in 0..n PROVE PartInv(i)'
  <2>1. Size(i)' \in Nat
    BY <1>1, NextSizes
  <2>2. 0 <= Size(i)' /\ 0 = Out' * 0 /\ 0 <= Out' * Size(i)'
    <3>1. PICK s \in Nat : s = Size(i)'
      BY <2>1
    <3>2. Out' \in Nat
      BY <1>4
    <3>3. 0 = Out' * 0 /\ 0 <= Out' * s
      BY <3>2, MulZero
    <3>4. 0 <= s
      OBVIOUS
    <3> QED
      BY <3>1, <3>3, <3>4
  <2>3. \A g \in FirstGroup(i)' + 1 .. FirstGroup(i)' + 0 : FALSE
    <3>1. FirstGroup(i)' \in Int
      <4>1. i * len' \in Int /\ In' \in {3, 4}
        BY DEF CutInv, In
      <4> QED
        BY <4>1 DEF FirstGroup
    <3> QED
      BY <3>1
  <2>4. res'[i] = None
    OBVIOUS
  <2> QED
    BY <1>3, <2>2, <2>3, <2>4 DEF PartInv
<1>6. SumInv'
  <2>1. \A i \in 0..n : ~ Done(i)'
    BY <1>3
  <2>2. Early' = {}
    BY <2>1 DEF Early
  <2>3. Count(num_threads - 1)' = 0 /\ Count(num_threads)' = 0
    BY <2>1, <1>1 DEF Count
  <2>4. Cardinality(Early)' = 0
    BY <2>2, FS_EmptySet
  <2>5. Quota' \in Int
    BY <1>4 DEF CutInv, Quota, In
  <2>6. (Out * Quota)' \in Int
    BY <2>5, <1>4
  <2>7. sum' = (Out * Quota * Cardinality(Early) + Count(num_threads - 1) + Count(num_threads))'
    BY <2>3, <2>4, <2>6
  <2> QED
    BY <2>7 DEF SumInv
<1> QED
  BY <1>1, <1>2, <1>3, <1>5, <1>6

LEMMA InitInv == Init => IndInv
<1> SUFFICES ASSUME Init PROVE IndInv
  OBVIOUS
<1>1. CallInv
  BY DEF Init, CallInv
<1>2. PhaseInv
  BY DEF Init, PhaseInv
<1>3. CutInv
  <2>1. In \in {3, 4} /\ Len(src) \in Nat
    BY <1>1, Sizes
  <2>2. Quota = 0
    BY <2>1 DEF Init, Quota
  <2> QED
    BY <2>1, <2>2, ParallelAssumption DEF Init, CutInv
<1> QED
  BY <1>1, <1>2, <1>3 DEF Init, IndInv

LEMMA SequentialInv ==
  ASSUME IndInv, Sequential
  PROVE  IndInv'
<1>1. CallInv'
  BY DEF Sequential, IndInv, CallInv
<1>2. CutInv'
  <2>1. In' \in {3, 4} /\ Len(src') \in Nat
    BY Sizes DEF IndInv, Sequential, In
  <2>2. Quota' = 0
    BY <2>1 DEF Sequential, Quota
  <2>3. num_threads' = 0 /\ len' = 0 /\ 0 \in 0..MaxThreads
    BY ParallelAssumption DEF Sequential
  <2>4. In' \in Nat /\ 0 * 0 <= Len(src')
    BY <2>1
  <2>5. 0 = In' * 0
    BY <2>4, MulZero
  <2> QED
    BY <2>2, <2>3, <2>4, <2>5 DEF CutInv
<1>3. {0} = 0..0
  OBVIOUS
<1>4. /\ sum' = 0 /\ num_threads' = 0
      /\ pos' = [i \in 0..0 |-> 0] /\ wrote' = [i \in 0..0 |-> 0]
      /\ res' = [i \in 0..0 |-> None]
  BY <1>3 DEF Sequential, IndInv
<1>5. PartTypes' /\ SumInv' /\ \A i \in Parts' : PartInv(i)'
  BY <1>1, <1>2, <1>4, StartInv
<1>6. PhaseInv'
  <2>1. 0 .. num_threads' - 1 = {}
    BY <1>4
  <2> QED
    BY <2>1 DEF Sequential, PhaseInv, AllDone, AllGood
<1> QED
  BY <1>1, <1>2, <1>5, <1>6 DEF IndInv, Sequential

\* However many threads there are, their parts fit in the source.
LEMMA ForkCuts ==
  ASSUME CallInv, NEW n \in Nat \ {0}, NEW k, k = srclen \div (n * In)
  PROVE  k \in Nat /\ n * k <= Len(src)
<1> DEFINE L == Len(src)
           m == n * In
<1>1. In \in {3, 4} /\ L \in Nat /\ extra \in 0..3 /\ extra < In
  BY Sizes
<1>2. srclen = In * L + extra
  BY DEF srclen
<1> HIDE DEF L
<1>3. srclen \in Nat /\ srclen < In * (L + 1)
  BY <1>1, <1>2
<1>4. m \in Nat \ {0} /\ m = In * n
  BY <1>1
<1> HIDE DEF m
<1>5. k = srclen \div m
  BY DEF m
<1>6. k \in Nat /\ m * k <= srclen
  BY <1>3, <1>4, <1>5
<1>7. n * k \in Nat /\ m * k = In * (n * k)
  BY <1>1, <1>4, <1>6
<1>8. In * (n * k) < In * (L + 1)
  BY <1>1, <1>3, <1>6, <1>7
<1> DEFINE j == n * k
<1>9. j \in Nat /\ In * j < In * (L + 1)
  BY <1>7, <1>8
<1> HIDE DEF j
<1>10. j <= L
  BY <1>1, <1>9
<1> QED
  BY <1>6, <1>10 DEF j, L

LEMMA ForkInv ==
  ASSUME IndInv, Fork
  PROVE  IndInv'
<1>1. CallInv /\ CallInv'
  BY DEF Fork, IndInv, CallInv
<1>2. PICK n \in 1..MaxThreads :
        /\ num_threads' = n
        /\ len' = (srclen \div (n * In)) * In
        /\ pos' = [i \in 0..n |-> 0] /\ wrote' = [i \in 0..n |-> 0]
        /\ res' = [i \in 0..n |-> None]
  BY DEF Fork
<1>3. n \in Nat \ {0} /\ n \in 0..MaxThreads
  BY ParallelAssumption
<1>4. CutInv'
  <2>1. PICK k : k = srclen \div (n * In)
    OBVIOUS
  <2>2. k \in Nat /\ n * k <= Len(src)
    BY <1>1, <1>3, <2>1, ForkCuts
  <2>3. In' = In /\ src' = src /\ In \in {3, 4}
    BY <1>1, Sizes DEF Fork, In
  <2>4. len' = k * In /\ k * In \in Nat
    BY <1>2, <2>1, <2>2, <2>3
  <2>5. Quota' = k
    BY <2>2, <2>3, <2>4, DivMul DEF Quota
  <2>6. len' = In' * Quota'
    BY <2>2, <2>3, <2>4, <2>5
  <2> QED
    BY <1>2, <1>3, <2>2, <2>3, <2>4, <2>5, <2>6 DEF CutInv
<1>5. sum' = 0
  BY DEF Fork, IndInv
<1>6. /\ PartTypes' /\ SumInv' /\ \A i \in Parts' : PartInv(i)'
      /\ \A i \in Parts' : ~ Done(i)'
  BY <1>1, <1>2, <1>3, <1>4, <1>5, StartInv
<1>7. PhaseInv'
  <2>1. n \in Parts' /\ pc' = "parallel" /\ result' = 0 /\ n >= 1
    BY <1>2, <1>3 DEF Parts, Fork, IndInv, PhaseInv
  <2>2. ~ Done(n)'
    BY <1>6, <2>1
  <2>3. ~ Done(num_threads)'
    BY <2>2, <1>2 DEF Done
  <2> QED
    BY <2>1, <2>3, <1>2 DEF PhaseInv
<1> QED
  BY <1>1, <1>4, <1>6, <1>7 DEF IndInv, Fork

-----------------------------------------------------------------------------
\* The barrier, and the answer.

LEMMA PartsUntouched ==
  ASSUME IndInv, pc # "fork", UNCHANGED <<Fixed, pos, wrote, res, sum>>
  PROVE  /\ CutInv' /\ PartTypes' /\ SumInv' /\ \A i \in Parts' : PartInv(i)'
         /\ AllDone' = AllDone /\ AllGood' = AllGood
         /\ Done(num_threads)' = Done(num_threads)
<1>1. CutInv'
  BY FixedKeeps DEF IndInv
<1>2. PartTypes'
  BY FixedKeeps DEF IndInv, PartTypes
<1>3. \A i \in Parts' : PartInv(i)'
  BY FixedKeeps, PartKept DEF IndInv
<1>4. num_threads' = num_threads /\ res' = res /\ wrote' = wrote /\ sum' = sum
  BY DEF Fixed
<1>5. AllDone' = AllDone /\ AllGood' = AllGood /\ Done(num_threads)' = Done(num_threads)
      /\ Early' = Early
      /\ Count(num_threads)' = Count(num_threads) /\ Count(num_threads - 1)' = Count(num_threads - 1)
  BY <1>4, FixedKeeps DEF AllDone, AllGood, Done, Early, Count
<1>6. SumInv'
  BY <1>4, <1>5, FixedKeeps DEF IndInv, SumInv
<1> QED
  BY <1>1, <1>2, <1>3, <1>5, <1>6

\* What the sum of the results tells: all good, or no codec, or neither.
LEMMA Verdicts ==
  ASSUME IndInv, pc = "parallel", AllDone, op = "dec",
         NEW r, r = Cardinality(Returned(1)) - Cardinality(Returned(-1))
  PROVE  /\ r = num_threads <=> AllGood
         /\ r = - num_threads <=> stub
         /\ stub => ~ AllGood
<1>1. num_threads \in Nat /\ num_threads >= 1
  BY Cuts DEF IndInv, PhaseInv
<1>2. \A i \in 0 .. num_threads - 1 :
        /\ stub => res[i] = -1
        /\ ~ stub => res[i] \in {0, 1}
  <2> SUFFICES ASSUME NEW i \in 0 .. num_threads - 1
               PROVE  (stub => res[i] = -1) /\ (~ stub => res[i] \in {0, 1})
    OBVIOUS
  <2>1. i \in Parts /\ Done(i)
    BY <1>1 DEF Parts, AllDone
  <2>2. PartInv(i) /\ StubResult = -1
    BY <2>1 DEF IndInv, StubResult
  <2> QED
    BY <2>1, <2>2 DEF PartInv, Done
<1> DEFINE P == Cardinality(Returned(1))
           N == Cardinality(Returned(-1))
<1>3. /\ P \in 0 .. num_threads /\ N \in 0 .. num_threads
      /\ P = num_threads <=> AllGood
      /\ P = 0 <=> \A i \in 0 .. num_threads - 1 : res[i] # 1
      /\ N = num_threads <=> \A i \in 0 .. num_threads - 1 : res[i] = -1
      /\ N = 0 <=> \A i \in 0 .. num_threads - 1 : res[i] # -1
  BY <1>1, ReturnedAll DEF AllGood
<1> HIDE DEF P, N
<1>4. r = P - N
  BY DEF P, N
<1>5. CASE stub
  <2>1. N = num_threads /\ P = 0
    BY <1>2, <1>3, <1>5
  <2> QED
    BY <2>1, <1>1, <1>3, <1>4, <1>5
<1>6. CASE ~ stub
  <2>1. N = 0
    BY <1>2, <1>3, <1>6
  <2> QED
    BY <2>1, <1>1, <1>3, <1>4, <1>6
<1> QED
  BY <1>5, <1>6 DEF IndInv, CallInv

LEMMA JoinInv ==
  ASSUME IndInv, Join
  PROVE  IndInv'
<1>1. pc = "parallel" /\ UNCHANGED <<Fixed, pos, wrote, res, sum, outlen>>
  BY DEF Join, Fixed
<1>2. AllDone
  BY DEF Join, AllDone, Done
<1>3. PICK r : r = Cardinality(Returned(1)) - Cardinality(Returned(-1))
  OBVIOUS
<1>4. IF op = "enc" \/ r = num_threads
      THEN pc' = "last" /\ UNCHANGED result
      ELSE pc' = "returned" /\ result' = IF r = - num_threads THEN -1 ELSE 0
  BY <1>3 DEF Join
<1>5. op \in {"enc", "dec"}
  BY Sizes DEF IndInv
<1>6. op = "dec" => /\ r = num_threads <=> AllGood
                    /\ r = - num_threads <=> stub
                    /\ stub => ~ AllGood
  BY <1>1, <1>2, <1>3, Verdicts
<1>7. num_threads >= 1 /\ result = 0
  BY <1>1 DEF IndInv, PhaseInv
<1>8. /\ CutInv' /\ PartTypes' /\ SumInv' /\ \A i \in Parts' : PartInv(i)'
      /\ AllDone' = AllDone /\ AllGood' = AllGood
  BY <1>1, PartsUntouched
<1>9. op' = op /\ num_threads' = num_threads /\ stub' = stub
  BY <1>1, FixedKeeps
<1>10. CallInv'
  BY <1>1, <1>4, <1>7, FixedKeeps DEF IndInv
<1>11. PhaseInv'
  <2>1. CASE op = "enc" \/ r = num_threads
    <3>1. pc' = "last" /\ (op = "dec" => AllGood)
      BY <2>1, <1>4, <1>6
    <3> QED
      BY <3>1, <1>2, <1>8, <1>9 DEF PhaseInv
  <2>2. CASE op = "dec" /\ r # num_threads
    <3>1. pc' = "returned" /\ result' = (IF stub THEN -1 ELSE 0) /\ ~ AllGood
      BY <2>2, <1>4, <1>6
    <3> QED
      BY <3>1, <2>2, <1>2, <1>7, <1>8, <1>9 DEF PhaseInv
  <2> QED
    BY <2>1, <2>2, <1>5
<1> QED
  BY <1>4, <1>8, <1>10, <1>11 DEF IndInv

LEMMA ReturnInv ==
  ASSUME IndInv, Return
  PROVE  IndInv'
<1>1. pc = "last" /\ pc' = "returned" /\ UNCHANGED <<Fixed, pos, wrote, res, sum>>
      /\ outlen' = sum /\ result' = res[num_threads] /\ Done(num_threads)
  BY DEF Return, Fixed, Done
<1>2. /\ CutInv' /\ PartTypes' /\ SumInv' /\ \A i \in Parts' : PartInv(i)'
      /\ AllDone' = AllDone /\ AllGood' = AllGood /\ Done(num_threads)'
  BY <1>1, PartsUntouched
<1>3. op' = op /\ num_threads' = num_threads /\ sum' = sum /\ res' = res
  BY <1>1, FixedKeeps
<1>4. res[num_threads] \in {-1, 0, 1}
  <2>1. num_threads \in Parts
    BY Cuts DEF IndInv, Parts
  <2> QED
    BY <2>1, <1>1 DEF IndInv, PartTypes, Done
<1>5. CallInv'
  BY <1>1, <1>4, FixedKeeps DEF IndInv
<1>6. PhaseInv'
  BY <1>1, <1>2, <1>3 DEF IndInv, PhaseInv
<1> QED
  BY <1>1, <1>2, <1>5, <1>6 DEF IndInv

LEMMA StepInv == IndInv /\ [Next]_vars => IndInv'
<1> SUFFICES ASSUME IndInv, [Next]_vars PROVE IndInv'
  OBVIOUS
<1>1. CASE UNCHANGED vars
  <2>1. UNCHANGED <<Fixed, pc, result, outlen, pos, wrote, res, sum>>
    BY <1>1 DEF vars, Fixed
  <2>2. CallInv' /\ CutInv'
    BY <2>1, FixedKeeps DEF IndInv, CallInv
  <2>3. CASE pc = "fork"
    BY <2>1, <2>2, <2>3 DEF IndInv, PhaseInv
  <2>4. CASE pc # "fork"
    <3>1. /\ PartTypes' /\ SumInv' /\ \A i \in Parts' : PartInv(i)'
          /\ AllDone' = AllDone /\ AllGood' = AllGood /\ Done(num_threads)' = Done(num_threads)
      BY <2>1, <2>4, PartsUntouched
    <3>2. PhaseInv'
      BY <2>1, <3>1 DEF IndInv, PhaseInv, Fixed
    <3> QED
      BY <2>1, <2>2, <2>4, <3>1, <3>2 DEF IndInv
  <2> QED
    BY <2>3, <2>4
<1>2. CASE Sequential
  BY <1>2, SequentialInv
<1>3. CASE Fork
  BY <1>3, ForkInv
<1>4. ASSUME NEW i \in 0..MaxThreads, i <= num_threads, pc # "fork",
             Stub(i) \/ Round(i) \/ DataGroup(i) \/ OtherGroup(i) \/ EndOfPart(i)
      PROVE  IndInv'
  <2>1. i \in Parts
    BY <1>4, Cuts, ParallelAssumption DEF IndInv, Parts
  <2> QED
    BY <1>4, <2>1, StubInv, RoundInv, DataGroupInv, OtherGroupInv, EndOfPartInv
<1>5. CASE Join
  BY <1>5, JoinInv
<1>6. CASE Return
  BY <1>6, ReturnInv
<1> QED
  BY <1>1, <1>2, <1>3, <1>4, <1>5, <1>6 DEF Next

\* Every reachable state satisfies the inductive invariant: each thread keeps to its
\* part, and what its call has returned tells what was in the part.
THEOREM Inductive == Spec => []IndInv
<1> QED
  BY InitInv, StepInv, PTL DEF Spec

\* "all threads returned -1, indicating that the requested codec is not available"
\* (lib/lib_openmp.c): whatever the source and the team, base64_decode returns -1 for
\* a codec that is not compiled in, and for nothing else.
THEOREM StubReported == Spec => []StubIsReported
<1>1. IndInv => StubIsReported
  <2> SUFFICES ASSUME IndInv, pc = "returned", op = "dec"
               PROVE  result = -1 <=> stub
    BY DEF StubIsReported
  <2>1. CASE Done(num_threads) /\ result = res[num_threads]
    <3>1. PartInv(num_threads)
      BY Cuts DEF IndInv, Parts
    <3> QED
      BY <2>1, <3>1 DEF PartInv, StubResult, Done
  <2>2. CASE result = IF stub THEN -1 ELSE 0
    BY <2>2
  <2> QED
    BY <2>1, <2>2 DEF IndInv, PhaseInv
<1> QED
  BY <1>1, Inductive, PTL

-----------------------------------------------------------------------------
\* The memory.

LEMMA WriteIs ==
  ASSUME NEW m, DOMAIN m \subseteq Nat, NEW o \in Nat, NEW b, Len(b) \in Nat
  PROVE  /\ DOMAIN Write(m, o, b) = DOMAIN m \cup (o .. o + Len(b) - 1)
         /\ \A c \in o .. o + Len(b) - 1 : Write(m, o, b)[c] = b[c - o + 1]
         /\ \A c \in DOMAIN m : c \notin o .. o + Len(b) - 1 => Write(m, o, b)[c] = m[c]
<1> DEFINE l == Len(b)
<1> HIDE DEF l
<1>1. l \in Nat
  BY DEF l
<1>2. {o + i - 1 : i \in 1..l} = o .. o + l - 1
  <2>1. \A c \in o .. o + l - 1 : c - o + 1 \in 1..l /\ c = o + (c - o + 1) - 1
    BY <1>1
  <2>2. \A i \in 1..l : o + i - 1 \in o .. o + l - 1
    BY <1>1
  <2> QED
    BY <2>1, <2>2
<1>3. Write(m, o, b) = [c \in DOMAIN m \cup (o .. o + l - 1) |->
                          IF c \in o .. o + l - 1 THEN b[c - o + 1] ELSE m[c]]
  BY <1>2 DEF Write, l
<1> QED
  BY <1>3 DEF l

\* The cells of a part lie below those of the parts after it.
LEMMA CellsInOrder ==
  ASSUME CallInv, CutInv
  PROVE  /\ \A i \in Parts :
              /\ Out * FirstGroup(i) \in Nat /\ Out * EndGroup(i) \in Nat
              /\ Out * EndGroup(i) = Out * FirstGroup(i) + Out * Size(i)
              /\ Out * Size(i) \in Nat
         /\ \A i, j \in Parts : i < j => Out * EndGroup(i) <= Out * FirstGroup(j)
<1>1. Out \in {3, 4}
  BY Sizes
<1>2. ASSUME NEW i \in Parts
      PROVE  /\ Out * FirstGroup(i) \in Nat /\ Out * EndGroup(i) \in Nat
             /\ Out * EndGroup(i) = Out * FirstGroup(i) + Out * Size(i)
             /\ Out * Size(i) \in Nat
  <2> DEFINE f == FirstGroup(i)
             e == EndGroup(i)
             s == Size(i)
  <2>1. f \in Nat /\ e \in Nat /\ s \in Nat /\ e = f + s
    BY PartsInOrder
  <2> HIDE DEF f, e, s
  <2>2. Out * f \in Nat /\ Out * e \in Nat /\ Out * e = Out * f + Out * s /\ Out * s \in Nat
    BY <1>1, <2>1
  <2> QED
    BY <2>2 DEF f, e, s
<1>3. ASSUME NEW i \in Parts, NEW j \in Parts, i < j
      PROVE  Out * EndGroup(i) <= Out * FirstGroup(j)
  <2> DEFINE f == FirstGroup(j)
             e == EndGroup(i)
  <2>1. f \in Nat /\ e \in Nat /\ e <= f
    BY <1>3, PartsInOrder
  <2> HIDE DEF f, e
  <2>2. Out * e <= Out * f
    BY <1>1, <2>1
  <2> QED
    BY <2>2 DEF f, e
<1> QED
  BY <1>2, <1>3

\* Part i stores b, of which the first n bytes are its next output, within its cells.
LEMMA MemStep ==
  ASSUME IndInv, MemInv, NoWrap, pc # "fork", UNCHANGED <<Fixed, pc>>,
         NEW i \in Parts, Running(i),
         NEW k \in Nat, NEW n \in Nat, NEW b, Len(b) \in Nat,
         Store(i, b, n), pos' = [pos EXCEPT ![i] = @ + k],
         n <= Len(b),
         \A x \in 1..n : b[x] = Out * FirstGroup(i) + wrote[i] + x,
         i < num_threads => wrote[i] + Len(b) <= Out * Size(i),
         k > 0 \/ n > 0 \/ Len(b) = 0
  PROVE  MemInv'
<1> DEFINE base(j) == Out * FirstGroup(j)
           end(j) == Out * EndGroup(j)
           o == base(i) + wrote[i]
           l == Len(b)
           mem2 == Write(mem, o, b)
<1>1. CallInv /\ CutInv /\ PartTypes /\ num_threads \in Nat
      /\ Parts \subseteq Nat /\ \A j \in Parts : j <= num_threads
  BY Cuts DEF IndInv, Parts
<1>2. /\ \A j \in Parts : base(j) \in Nat /\ end(j) \in Nat /\ end(j) = base(j) + Out * Size(j)
                          /\ Out * Size(j) \in Nat
      /\ \A j1, j2 \in Parts : j1 < j2 => end(j1) <= base(j2)
  BY <1>1, CellsInOrder
<1>3. /\ \A j \in Parts : wrote[j] \in Nat /\ pos[j] \in Nat
                          /\ (j < num_threads => wrote[j] <= Out * Size(j))
      /\ wrote' = [wrote EXCEPT ![i] = @ + n]
      /\ \A j \in Parts : j # i => wrote'[j] = wrote[j] /\ pos'[j] = pos[j]
      /\ wrote'[i] = wrote[i] + n /\ pos'[i] = pos[i] + k
  BY <1>1 DEF IndInv, PartTypes, PartInv, Store
<1>4. mem' = mem2 /\ o \in Nat /\ l \in Nat
  BY <1>1, <1>2, <1>3, Offsets, SMTT(30) DEF Store
<1>5. DOMAIN mem \subseteq Nat
  BY DEF MemInv
<1>6. /\ DOMAIN mem' = DOMAIN mem \cup (o .. o + l - 1)
      /\ \A c \in o .. o + l - 1 : mem'[c] = b[c - o + 1]
      /\ \A c \in DOMAIN mem : c \notin o .. o + l - 1 => mem'[c] = mem[c]
  <2> HIDE DEF o
  <2>1. mem' = Write(mem, o, b) /\ o \in Nat /\ Len(b) \in Nat
    BY <1>4
  <2>2. /\ DOMAIN Write(mem, o, b) = DOMAIN mem \cup (o .. o + Len(b) - 1)
        /\ \A c \in o .. o + Len(b) - 1 : Write(mem, o, b)[c] = b[c - o + 1]
        /\ \A c \in DOMAIN mem : c \notin o .. o + Len(b) - 1 => Write(mem, o, b)[c] = mem[c]
    BY <2>1, <1>5, WriteIs
  <2> QED
    BY <2>1, <2>2
<1>7. /\ \A j \in Parts : \A c \in base(j) .. base(j) + wrote[j] - 1 :
           c \in DOMAIN mem /\ mem[c] = c + 1
      /\ \A j \in Parts : ~ Started(j) => \A c \in base(j) .. end(j) - 1 : c \notin DOMAIN mem
  BY DEF MemInv
<1>8. /\ \A x \in 1..n : b[x] = o + x
      /\ i < num_threads => o + l <= end(i)
  BY <1>2, <1>3, <1>4, SMTT(30)
<1>8a. o = base(i) + wrote[i] /\ base(i) \in Nat /\ wrote[i] \in Nat /\ pos[i] \in Nat
       /\ wrote'[i] = wrote[i] + n /\ pos'[i] = pos[i] + k
  BY <1>2, <1>3
<1> HIDE DEF base, end, o, l, mem2
<1>9. ASSUME NEW j \in Parts, j # i
      PROVE  /\ end(j) <= o \/ o + l <= base(j)
             /\ base(j) + wrote[j] <= o \/ o + l <= base(j)
  <2>1. CASE j < i
    <3>1. j < num_threads /\ end(j) <= base(i)
      BY <2>1, <1>1, <1>2
    <3>2. base(j) + wrote[j] <= end(j)
      BY <3>1, <1>2, <1>3, SMTT(30)
    <3>3. base(j) \in Nat /\ end(j) \in Nat /\ wrote[j] \in Nat
      BY <1>2, <1>3
    <3> QED
      BY <3>1, <3>2, <3>3, <1>8a, SMTT(30)
  <2>2. CASE i < j
    <3>1. i < num_threads /\ end(i) <= base(j)
      BY <2>2, <1>1, <1>2
    <3> QED
      BY <3>1, <1>2, <1>4, <1>8
  <2> QED
    BY <2>1, <2>2, <1>1, <1>9
<1>10. ASSUME NEW j \in Parts, NEW c \in base(j) .. base(j) + wrote'[j] - 1
       PROVE  c \in DOMAIN mem' /\ mem'[c] = c + 1
  <2>1. CASE j # i
    <3>1. c \in base(j) .. base(j) + wrote[j] - 1
      BY <2>1, <1>3, <1>10
    <3>2. c \in DOMAIN mem /\ mem[c] = c + 1
      BY <3>1, <1>7
    <3>3. base(j) + wrote[j] <= o \/ o + l <= base(j)
      BY <2>1, <1>9
    <3>4. base(j) \in Nat /\ wrote[j] \in Nat
      BY <1>2, <1>3
    <3>5. c \notin o .. o + l - 1
      BY <3>1, <3>3, <3>4, <1>4
    <3> QED
      BY <3>2, <3>5, <1>6
  <2>2. CASE j = i /\ c < o
    <3>1. c \in base(i) .. base(i) + wrote[i] - 1
      BY <2>2, <1>8a, <1>10
    <3>2. c \in DOMAIN mem /\ mem[c] = c + 1
      BY <3>1, <1>7
    <3>3. c \notin o .. o + l - 1
      BY <2>2, <1>4
    <3> QED
      BY <3>2, <3>3, <1>6
  <2>3. CASE j = i /\ o <= c
    <3>1. c \in Int /\ c <= o + n - 1
      BY <2>3, <1>8a, <1>10, SMTT(30)
    <3>2. c \in o .. o + l - 1 /\ c - o + 1 \in 1..n
      BY <3>1, <2>3, <1>4 DEF l
    <3>3. b[c - o + 1] = o + (c - o + 1)
      BY <3>2, <1>8
    <3> QED
      BY <3>1, <3>2, <3>3, <1>4, <1>6
  <2> QED
    BY <2>1, <2>2, <2>3, <1>2, <1>4, <1>10
<1>11. ASSUME NEW j \in Parts, ~ Started(j)', NEW c \in base(j) .. end(j) - 1
       PROVE  c \notin DOMAIN mem'
  <2>1. CASE j # i
    <3>1. ~ Started(j)
      BY <2>1, <1>3, <1>11 DEF Started
    <3>2. c \notin DOMAIN mem
      BY <3>1, <1>7
    <3>3. end(j) <= o \/ o + l <= base(j)
      BY <2>1, <1>9
    <3>4. base(j) \in Nat /\ end(j) \in Nat /\ c \in base(j) .. end(j) - 1
      BY <1>2, <1>11
    <3>5. c \notin o .. o + l - 1
      BY <3>3, <3>4, <1>4
    <3> QED
      BY <3>2, <3>5, <1>6
  <2>2. CASE j = i
    <3>1. k = 0 /\ n = 0 /\ pos[i] = 0 /\ wrote[i] = 0
      <4>1. pos'[i] = 0 /\ wrote'[i] = 0
        BY <2>2, <1>11 DEF Started
      <4>2. pos[i] + k = 0 /\ wrote[i] + n = 0
        BY <4>1, <1>8a
      <4>3. pos[i] \in Nat /\ wrote[i] \in Nat
        BY <1>8a
      <4> QED
        BY <4>2, <4>3
    <3>2. l = 0
      BY <3>1 DEF l
    <3>3. ~ Started(i) /\ o .. o + l - 1 = {}
      BY <3>1, <3>2, <1>4 DEF Started
    <3> QED
      BY <2>2, <3>3, <1>6, <1>7
  <2> QED
    BY <2>1, <2>2
<1>12. DOMAIN mem' \subseteq Nat
  BY <1>4, <1>5, <1>6
<1>13. /\ Parts' = Parts
       /\ \A j : (Out * FirstGroup(j))' = base(j) /\ (Out * EndGroup(j))' = end(j)
  BY FixedKeeps DEF base, end
<1> QED
  BY <1>10, <1>11, <1>12, <1>13 DEF MemInv

LEMMA BytesAre ==
  ASSUME Out \in {3, 4}, NEW g \in Nat, NEW n \in Nat
  PROVE  /\ Bytes(g, n) \in Seq(Nat) /\ Len(Bytes(g, n)) = n * Out
         /\ \A x \in 1 .. n * Out : Bytes(g, n)[x] = g * Out + x
<1>1. n * Out \in Nat /\ g * Out \in Nat
  OBVIOUS
<1> DEFINE l == n * Out
           o == g * Out
<1>2. Bytes(g, n) = [x \in 1..l |-> o + x]
  BY DEF Bytes
<1>3. l \in Nat /\ o \in Nat
  BY <1>1
<1> HIDE DEF l, o
<1>4. \A x \in 1..l : o + x \in Nat
  BY <1>3
<1>5. Bytes(g, n) \in Seq(Nat) /\ Len(Bytes(g, n)) = l
  BY <1>2, <1>3, <1>4
<1>6. \A x \in 1..l : Bytes(g, n)[x] = o + x
  BY <1>2
<1> QED
  BY <1>5, <1>6 DEF l, o

\* Where the next output of a running part belongs.
LEMMA Next1 ==
  ASSUME IndInv, pc # "fork", NEW i \in Parts, Running(i)
  PROVE  /\ Out \in {3, 4} /\ Group(i) \in Nat
         /\ Group(i) * Out = Out * FirstGroup(i) + wrote[i]
         /\ wrote[i] \in Nat /\ Out * FirstGroup(i) \in Nat
<1> DEFINE f == FirstGroup(i)
           x == pos[i]
<1>1. Out \in {3, 4}
  BY Sizes DEF IndInv
<1>2. f \in Nat /\ x \in Nat /\ wrote[i] = Out * x /\ Group(i) = f + x
  BY Cursor
<1> HIDE DEF f, x
<1>3. Group(i) \in Nat /\ Group(i) * Out = Out * f + Out * x /\ Out * x \in Nat /\ Out * f \in Nat
  BY <1>1, <1>2
<1> QED
  BY <1>1, <1>2, <1>3 DEF f

LEMMA RoundMem ==
  ASSUME IndInv, MemInv, NoWrap, pc # "fork", NEW i \in Parts, Round(i)
  PROVE  MemInv'
<1> DEFINE B == BlockGroups
           ga == kernel.gap
           y == Bytes(Group(i), B)
           b == y \o Zeros(ga)
<1>1. Running(i) /\ BulkReady(i)
  BY DEF Round
<1>2. UNCHANGED <<Fixed, pc>>
  BY DEF Round, Fixed
<1>3. pos' = [pos EXCEPT ![i] = @ + B] /\ Store(i, b, B * Out)
  BY DEF Round
<1>4. /\ B \in Nat \ {0} /\ ga \in Nat
      /\ i < num_threads => Out * B + ga <= Out * (Size(i) - pos[i])
  BY <1>1, RoundFits
<1>5. /\ Out \in {3, 4} /\ Group(i) \in Nat
      /\ Group(i) * Out = Out * FirstGroup(i) + wrote[i]
      /\ wrote[i] \in Nat /\ Out * FirstGroup(i) \in Nat
  BY <1>1, Next1
<1>6. /\ y \in Seq(Nat) /\ Len(y) = B * Out
      /\ \A x \in 1 .. B * Out : y[x] = Group(i) * Out + x
  BY <1>4, <1>5, BytesAre
<1>7. Zeros(ga) \in Seq(Nat) /\ Len(Zeros(ga)) = ga
  BY <1>4 DEF Zeros, Zero
<1> DEFINE z == Zeros(ga)
<1>8. Len(b) = Len(y) + Len(z) /\ \A x \in 1 .. Len(y) : b[x] = y[x]
  <2> HIDE DEF y, z
  <2>1. y \in Seq(Nat) /\ z \in Seq(Nat)
    BY <1>6, <1>7 DEF z
  <2>2. b = y \o z
    BY DEF z
  <2> HIDE DEF b
  <2> QED
    BY <2>1, <2>2
<1> HIDE DEF b, y, ga, B, z
<1>9. B * Out \in Nat /\ B * Out > 0
  BY <1>4, <1>5
<1>10. Len(b) = B * Out + ga /\ Len(b) \in Nat
  BY <1>4, <1>6, <1>7, <1>8, <1>9 DEF z
<1>11. \A x \in 1 .. B * Out : b[x] = Out * FirstGroup(i) + wrote[i] + x
  BY <1>5, <1>6, <1>8
<1>12. B * Out <= Len(b)
  BY <1>4, <1>9, <1>10
<1>13. i < num_threads => wrote[i] + Len(b) <= Out * Size(i)
  <2> DEFINE s == Size(i)
             x == pos[i]
  <2>1. s \in Nat /\ x \in Nat /\ wrote[i] = Out * x /\ x <= s
    BY <1>1, Cursor
  <2> HIDE DEF s, x
  <2>2. i < num_threads => Out * B + ga <= Out * (s - x)
    BY <1>4 DEF s, x
  <2>3. i < num_threads => wrote[i] + Len(b) <= Out * s
    BY <2>1, <2>2, <1>4, <1>5, <1>10
  <2> QED
    BY <2>3 DEF s
<1>14. B \in Nat
  BY <1>4
<1> QED
  BY <1>1, <1>2, <1>3, <1>9, <1>10, <1>11, <1>12, <1>13, <1>14, MemStep

\* A group stores its bytes, or some of them.
LEMMA GroupMem ==
  ASSUME IndInv, MemInv, NoWrap, pc # "fork", NEW i \in Parts, Running(i),
         UNCHANGED <<Fixed, pc>>,
         NEW k \in Nat, NEW n \in Nat, NEW b,
         pos' = [pos EXCEPT ![i] = @ + k], Store(i, b, n),
         b \in Seq(Nat), Len(b) = n,
         \A x \in 1..n : b[x] = Group(i) * Out + x,
         i < num_threads => n <= Out * (Size(i) - pos[i])
  PROVE  MemInv'
<1>1. /\ Out \in {3, 4} /\ Group(i) \in Nat
      /\ Group(i) * Out = Out * FirstGroup(i) + wrote[i]
      /\ wrote[i] \in Nat /\ Out * FirstGroup(i) \in Nat
  BY Next1
<1>2. \A x \in 1..n : b[x] = Out * FirstGroup(i) + wrote[i] + x
  BY <1>1
<1>3. i < num_threads => wrote[i] + Len(b) <= Out * Size(i)
  <2> DEFINE s == Size(i)
             x == pos[i]
  <2>1. s \in Nat /\ x \in Nat /\ wrote[i] = Out * x /\ x <= s
    BY Cursor
  <2>2. i < num_threads => n <= Out * (s - x)
    OBVIOUS
  <2> HIDE DEF s, x
  <2>3. i < num_threads => wrote[i] + n <= Out * s
    BY <2>1, <2>2, <1>1
  <2> QED
    BY <2>3 DEF s
<1>4. Len(b) \in Nat /\ n <= Len(b) /\ (k > 0 \/ n > 0 \/ Len(b) = 0)
  OBVIOUS
<1> QED
  BY <1>2, <1>3, <1>4, MemStep

LEMMA DataGroupMem ==
  ASSUME IndInv, MemInv, NoWrap, pc # "fork", NEW i \in Parts, DataGroup(i)
  PROVE  MemInv'
<1> DEFINE b == Bytes(Group(i), 1)
<1>1. Running(i) /\ pos[i] < Size(i)
  BY DEF DataGroup, AtTail, Size
<1>2. UNCHANGED <<Fixed, pc>> /\ pos' = [pos EXCEPT ![i] = @ + 1] /\ Store(i, b, Out)
  BY DEF DataGroup, Fixed
<1>3. Out \in {3, 4} /\ Group(i) \in Nat
  BY <1>1, Next1
<1>4. b \in Seq(Nat) /\ Len(b) = 1 * Out /\ \A x \in 1 .. 1 * Out : b[x] = Group(i) * Out + x
  BY <1>3, BytesAre
<1> HIDE DEF b
<1>5. Len(b) = Out /\ Out \in Nat /\ \A x \in 1..Out : b[x] = Group(i) * Out + x
  BY <1>3, <1>4
<1>6. Out <= Out * (Size(i) - pos[i])
  BY <1>1, <1>3, Cursor, SMTT(30)
<1> QED
  BY <1>1, <1>2, <1>4, <1>5, <1>6, GroupMem

LEMMA OtherGroupMem ==
  ASSUME IndInv, MemInv, NoWrap, pc # "fork", NEW i \in Parts, OtherGroup(i)
  PROVE  MemInv'
<1> DEFINE y == Bytes(Group(i), 1)
<1>1. Running(i) /\ pos[i] < Size(i)
  BY DEF OtherGroup, AtTail, Size
<1>2. PICK n \in 0..2 : Store(i, SubSeq(y, 1, n), n)
  BY DEF OtherGroup
<1> DEFINE b == SubSeq(y, 1, n)
<1>3. UNCHANGED <<Fixed, pc>> /\ pos' = [pos EXCEPT ![i] = @ + 1]
  BY DEF OtherGroup, Fixed
<1>4. Out \in {3, 4} /\ Group(i) \in Nat
  BY <1>1, Next1
<1>5. y \in Seq(Nat) /\ Len(y) = 1 * Out /\ \A x \in 1 .. 1 * Out : y[x] = Group(i) * Out + x
  BY <1>4, BytesAre
<1> HIDE DEF y
<1>6. n \in 0 .. Len(y)
  BY <1>4, <1>5
<1>7. b \in Seq(Nat) /\ Len(b) = n /\ \A x \in 1..n : b[x] = y[x]
  BY <1>5, <1>6
<1>8. \A x \in 1..n : b[x] = Group(i) * Out + x
  BY <1>4, <1>5, <1>6, <1>7
<1>9. n <= Out * (Size(i) - pos[i])
  <2>1. PICK d \in Nat \ {0} : d = Size(i) - pos[i]
    BY <1>1, Cursor
  <2>2. n <= Out * d
    BY <1>4
  <2> QED
    BY <2>1, <2>2
<1>10. Store(i, b, n) /\ n \in Nat
  BY <1>2
<1> HIDE DEF b
<1> QED
  BY <1>1, <1>3, <1>7, <1>8, <1>9, <1>10, GroupMem

LEMMA EndOfPartMem ==
  ASSUME IndInv, MemInv, NoWrap, pc # "fork", NEW i \in Parts, EndOfPart(i)
  PROVE  MemInv'
<1> DEFINE y == Bytes(Group(i), 2)
           open == IF i < num_threads THEN 0 ELSE extra
           n == IF op = "dec" THEN (3 * open) \div 4 ELSE IF open = 0 THEN 0 ELSE 4
           b == SubSeq(y, 1, n)
<1>1. Running(i) /\ pos[i] = Size(i)
  BY DEF EndOfPart, AtTail, Size
<1>2. Store(i, b, n)
  BY DEF EndOfPart
<1>3. UNCHANGED <<Fixed, pc>> /\ pos' = [pos EXCEPT ![i] = @ + 0]
  <2>1. pos \in [Parts -> Nat]
    BY DEF IndInv, PartTypes
  <2> QED
    BY <2>1 DEF EndOfPart, Fixed
<1>4. Out \in {3, 4} /\ Group(i) \in Nat
  BY <1>1, Next1
<1>5. y \in Seq(Nat) /\ Len(y) = 2 * Out /\ \A x \in 1 .. 2 * Out : y[x] = Group(i) * Out + x
  BY <1>4, BytesAre
<1>6. n \in 0..4 /\ (i < num_threads => n = 0)
  <2>1. extra \in 0..3
    BY Sizes DEF IndInv
  <2>2. open \in 0..3 /\ (i < num_threads => open = 0)
    BY <2>1
  <2> HIDE DEF open
  <2> QED
    BY <2>2
<1> HIDE DEF y, n
<1>7. n \in 0 .. Len(y)
  BY <1>4, <1>5, <1>6
<1>8. b \in Seq(Nat) /\ Len(b) = n /\ \A x \in 1..n : b[x] = y[x]
  BY <1>5, <1>7
<1>9. \A x \in 1..n : b[x] = Group(i) * Out + x
  BY <1>4, <1>5, <1>7, <1>8
<1>10. i < num_threads => n <= Out * (Size(i) - pos[i])
  BY <1>1, <1>4, <1>6, Cursor
<1>11. n \in Nat /\ 0 \in Nat
  BY <1>6
<1> HIDE DEF b
<1> QED
  BY <1>1, <1>2, <1>3, <1>8, <1>9, <1>10, <1>11, GroupMem

\* A step that neither writes nor moves a cursor.
LEMMA MemKept ==
  ASSUME MemInv, pc # "fork", UNCHANGED <<Fixed, mem, pos, wrote>>, pc' # "fork"
  PROVE  MemInv'
<1>1. /\ Parts' = Parts
      /\ \A j : (Out * FirstGroup(j))' = Out * FirstGroup(j)
                /\ (Out * EndGroup(j))' = Out * EndGroup(j)
                /\ Started(j)' = Started(j)
  BY FixedKeeps DEF Started
<1> QED
  BY <1>1 DEF MemInv

LEMMA NextCells == (CallInv /\ CutInv)' => (\A i \in Parts : Out * FirstGroup(i) \in Nat)'
<1>1. CallInv /\ CutInv => \A i \in Parts : Out * FirstGroup(i) \in Nat
  BY CellsInOrder
<1> QED
  BY <1>1, PTL

\* Before the call forks, nothing is written.
LEMMA MemStart ==
  ASSUME MemInv, pc = "fork", mem' = mem, NEW n \in Nat, num_threads' = n,
         wrote' = [i \in 0..n |-> 0], pc' # "fork", CallInv', CutInv'
  PROVE  MemInv'
<1>1. DOMAIN mem' = {}
  BY DEF MemInv
<1>2. Parts' = 0..n
  BY DEF Parts
<1>3. (\A i \in Parts : Out * FirstGroup(i) \in Nat)'
  BY NextCells
<1>4. ASSUME NEW i \in 0..n
      PROVE  (Out * FirstGroup(i))' .. (Out * FirstGroup(i))' + wrote'[i] - 1 = {}
  <2>1. (Out * FirstGroup(i))' \in Nat /\ wrote'[i] = 0
    BY <1>2, <1>3
  <2> QED
    BY <2>1
<1> QED
  BY <1>1, <1>2, <1>4 DEF MemInv

LEMMA MemStepInv == IndInv /\ MemInv /\ NoWrap /\ IndInv' /\ [Next]_vars => MemInv'
<1> SUFFICES ASSUME IndInv, MemInv, NoWrap, IndInv', [Next]_vars PROVE MemInv'
  OBVIOUS
<1>1. CASE UNCHANGED vars
  <2>1. UNCHANGED <<Fixed, mem, pos, wrote, pc>>
    BY <1>1 DEF vars, Fixed
  <2>2. CASE pc = "fork"
    BY <2>1, <2>2 DEF MemInv
  <2>3. CASE pc # "fork"
    BY <2>1, <2>3, MemKept
  <2> QED
    BY <2>2, <2>3
<1>2. CASE Sequential
  <2>1. {0} = 0..0
    OBVIOUS
  <2>2. pc = "fork" /\ mem' = mem /\ 0 \in Nat /\ num_threads' = 0
        /\ wrote' = [i \in 0..0 |-> 0] /\ pc' # "fork"
    BY <2>1, <1>2 DEF Sequential
  <2>3. CallInv' /\ CutInv'
    BY DEF IndInv
  <2> QED
    BY <2>2, <2>3, MemStart
<1>3. CASE Fork
  <2>1. PICK n \in 1..MaxThreads : num_threads' = n /\ wrote' = [i \in 0..n |-> 0]
    BY <1>3 DEF Fork
  <2>2. pc = "fork" /\ mem' = mem /\ n \in Nat /\ pc' # "fork"
    BY <1>3 DEF Fork
  <2>3. CallInv' /\ CutInv'
    BY DEF IndInv
  <2> QED
    BY <2>1, <2>2, <2>3, MemStart
<1>4. ASSUME NEW i \in 0..MaxThreads, i <= num_threads, pc # "fork",
             Stub(i) \/ Round(i) \/ DataGroup(i) \/ OtherGroup(i) \/ EndOfPart(i)
      PROVE  MemInv'
  <2>1. i \in Parts
    BY <1>4, Cuts, ParallelAssumption DEF IndInv, Parts
  <2>2. CASE Stub(i)
    <3>1. UNCHANGED <<Fixed, mem, pos, wrote>> /\ pc' # "fork"
      BY <2>2, <1>4 DEF Stub, Fixed
    <3> QED
      BY <3>1, <1>4, MemKept
  <2> QED
    BY <1>4, <2>1, <2>2, RoundMem, DataGroupMem, OtherGroupMem, EndOfPartMem
<1>5. CASE Join
  <2>1. UNCHANGED <<Fixed, mem, pos, wrote>> /\ pc # "fork" /\ pc' # "fork"
    BY <1>5 DEF Join, Fixed
  <2> QED
    BY <2>1, MemKept
<1>6. CASE Return
  <2>1. UNCHANGED <<Fixed, mem, pos, wrote>> /\ pc # "fork" /\ pc' # "fork"
    BY <1>6 DEF Return, Fixed
  <2> QED
    BY <2>1, MemKept
<1> QED
  BY <1>1, <1>2, <1>3, <1>4, <1>5, <1>6 DEF Next

\* Where no offset wraps, every byte of output is where it belongs in each reachable
\* state.
THEOREM MemInductive == ASSUME NoWrap PROVE Spec => []MemInv
<1>1. Init => MemInv
  BY DEF Init, MemInv
<1>2. MemInv /\ IndInv /\ IndInv' /\ [Next]_vars => MemInv'
  BY MemStepInv
<1> QED
  BY <1>1, <1>2, Inductive, PTL DEF Spec

\* "out parts can be written without side effects" (lib/lib_openmp.c): whatever the
\* source, the team and the interleaving, as long as no offset wraps, no thread
\* overwrites what another has written or touches a part that has yet to start.
THEOREM PartsDisjoint == ASSUME NoWrap PROVE Spec => []PartsAreDisjoint
<1>1. IndInv /\ MemInv => PartsAreDisjoint
  <2> SUFFICES ASSUME IndInv, MemInv, pc # "fork", NEW i \in Parts
               PROVE  /\ \A c \in Offset(i) .. Offset(i) + wrote[i] - 1 : mem[c] = c + 1
                      /\ pos[i] = 0 /\ wrote[i] = 0 =>
                           \A c \in Out * FirstGroup(i) .. Out * EndGroup(i) - 1 :
                             c \notin DOMAIN mem
    BY DEF PartsAreDisjoint
  <2>1. Offset(i) = Out * FirstGroup(i)
    BY Offsets DEF IndInv
  <2> QED
    BY <2>1 DEF MemInv, Started
<1> QED
  BY <1>1, Inductive, MemInductive, PTL

-----------------------------------------------------------------------------
\* The answer, and that of a single thread.

LEMMA PartOf ==
  ASSUME CallInv, CutInv, NEW g \in 1 .. Len(src)
  PROVE  \E i \in Parts : FirstGroup(i) < g /\ g <= EndGroup(i)
<1> DEFINE q == Quota
           n == num_threads
<1>1. q \in Nat /\ n \in Nat /\ n * q \in Nat /\ Len(src) \in Nat
  BY Cuts, Sizes
<1>2. CASE g > n * q
  <2>1. n \in Parts /\ FirstGroup(n) = n * q /\ EndGroup(n) = Len(src)
    BY <1>1, Cuts DEF Parts
  <2> QED
    BY <2>1, <1>2
<1>3. CASE g <= n * q
  <2>1. q # 0
    BY <1>1, <1>3
  <2> DEFINE i == (g - 1) \div q
  <2>2. i \in Nat /\ q * i <= g - 1 /\ g - 1 < q * i + q
    BY <1>1, <2>1
  <2> HIDE DEF i, q, n
  <2>3. i * q <= g - 1 /\ g - 1 < i * q + q /\ i * q \in Nat
    BY <1>1, <2>2
  <2>4. i < n
    <3> SUFFICES ASSUME n <= i PROVE FALSE
      BY <1>1, <2>2
    <3>1. n * q <= i * q
      BY <1>1, <2>2, MulMono
    <3> QED
      BY <3>1, <2>3, <1>1, <1>3
  <2>5. i \in Parts
    BY <1>1, <2>2, <2>4 DEF Parts, n
  <2>6. FirstGroup(i) = i * q /\ EndGroup(i) = i * q + q
    BY <2>4, <2>5, Cuts DEF n, q
  <2>7. FirstGroup(i) < g /\ g <= EndGroup(i)
    BY <2>3, <2>6, <1>1
  <2> QED
    BY <2>5, <2>7
<1> QED
  BY <1>1, <1>2, <1>3

LEMMA GroupKinds ==
  ASSUME CallInv, NEW g \in 1 .. Len(src)
  PROVE  /\ src[g] \in {"data", "bad", "pad1", "pad2"}
         /\ Padding(g) \in 0..2 /\ (src[g] = "data" => Padding(g) = 0)
         /\ src[g] \notin {"data", "bad"} => Padding(g) > 0
         /\ op = "enc" => src[g] = "data"
<1>1. src[g] \in {"data", "bad", "pad1", "pad2"}
  BY ParallelAssumption DEF CallInv
<1>2. op = "enc" => src[g] = "data"
  BY DEF CallInv
<1> QED
  BY <1>1, <1>2 DEF Padding

\* The verdict of the parts is the verdict of the whole.
LEMMA VerdictRight ==
  ASSUME IndInv, pc = "returned", ~ stub, ~ PaddingEndsPart
  PROVE  /\ result = 1 <=> WellFormed
         /\ result = 1 => /\ outlen = sum
                          /\ \A i \in Parts : res[i] = 1 /\ wrote[i] = PartLen(i)
<1>1. CallInv /\ CutInv /\ num_threads \in Nat /\ Parts = 0 .. num_threads
      /\ Len(src) \in Nat /\ op \in {"enc", "dec"}
  BY Cuts, Sizes DEF IndInv, Parts
<1>2. AllDone
  BY DEF IndInv, PhaseInv
<1>3. ASSUME NEW i \in Parts, Done(i)
      PROVE  \/ res[i] = 1 /\ GoodPart(i) /\ wrote[i] = PartLen(i)
             \/ res[i] = 0 /\ ~ GoodPart(i)
  BY <1>3 DEF IndInv, PartInv
<1>4. \A i \in 0 .. num_threads - 1 : i \in Parts /\ Done(i)
  BY <1>1, <1>2 DEF AllDone
<1>5. num_threads \in Parts
  BY <1>1
<1>6. \/ /\ op = "dec" => AllGood
         /\ Done(num_threads) /\ result = res[num_threads] /\ outlen = sum
      \/ op = "dec" /\ ~ AllGood /\ result = 0
  BY DEF IndInv, PhaseInv
<1>7. ASSUME result = 1
      PROVE  outlen = sum /\ \A i \in Parts : res[i] = 1 /\ GoodPart(i) /\ wrote[i] = PartLen(i)
  <2>1. /\ op = "dec" => AllGood
        /\ Done(num_threads) /\ res[num_threads] = 1 /\ outlen = sum
    BY <1>6, <1>7
  <2>2. ASSUME NEW i \in Parts PROVE Done(i) /\ res[i] = 1
    <3>1. CASE i = num_threads
      BY <3>1, <2>1
    <3>2. CASE i \in 0 .. num_threads - 1
      <4>1. Done(i)
        BY <3>2, <1>4
      <4>2. CASE op = "dec"
        BY <4>1, <4>2, <3>2, <2>1 DEF AllGood
      <4>3. CASE op = "enc"
        BY <4>1, <4>3, <1>3 DEF GoodPart
      <4> QED
        BY <4>2, <4>3, <1>1
    <3> QED
      BY <3>1, <3>2, <1>1
  <2>3. \A i \in Parts : GoodPart(i) /\ wrote[i] = PartLen(i)
    BY <2>2, <1>3
  <2> QED
    BY <2>1, <2>2, <2>3
<1>8. ASSUME result = 1 PROVE WellFormed
  <2> SUFFICES ASSUME op = "dec"
               PROVE  /\ extra = 0
                      /\ \A g \in 1 .. Len(src) :
                           src[g] = "data" \/ (g = Len(src) /\ src[g] # "bad")
    BY DEF WellFormed
  <2>1. \A i \in Parts : GoodPart(i)
    BY <1>7, <1>8
  <2>2. extra = 0
    BY <2>1, <1>5 DEF GoodPart, Left
  <2>3. ASSUME NEW g \in 1 .. Len(src), src[g] # "data"
        PROVE  g = Len(src) /\ src[g] # "bad"
    <3>1. PICK i \in Parts : FirstGroup(i) < g /\ g <= EndGroup(i)
      BY <1>1, PartOf
    <3>2. FirstGroup(i) \in Nat /\ EndGroup(i) \in Nat /\ EndGroup(i) <= Len(src)
      BY <1>1, PartsInOrder
    <3>3. g = EndGroup(i) /\ src[g] # "bad"
      <4>1. g \in FirstGroup(i) + 1 .. EndGroup(i)
        BY <3>1, <3>2
      <4> QED
        BY <4>1, <2>1, <2>3 DEF GoodPart
    <3>4. Padding(g) > 0
      BY <3>3, <2>3, <1>1, GroupKinds
    <3>5. CASE i = num_threads
      BY <3>3, <3>5, <1>1, Cuts
    <3>6. CASE i # num_threads
      <4>1. i \in 0 .. num_threads - 1
        BY <3>6, <1>1
      <4>2. ~ (In * g < srclen)
        BY <4>1, <3>1, <3>3, <3>4 DEF PaddingEndsPart
      <4>3. In = 4 /\ srclen = 4 * Len(src)
        BY <1>1, <2>2, Sizes DEF srclen
      <4>4. g <= Len(src)
        BY <3>2, <3>3
      <4> QED
        BY <4>2, <4>3, <4>4, <3>3, <1>1
    <3> QED
      BY <3>5, <3>6
  <2> QED
    BY <2>2, <2>3
<1>9. ASSUME WellFormed PROVE result = 1
  <2>1. ASSUME NEW i \in Parts PROVE GoodPart(i)
    <3> SUFFICES ASSUME op = "dec"
                 PROVE  /\ Left(i) = 0
                        /\ \A g \in FirstGroup(i) + 1 .. EndGroup(i) :
                             src[g] = "data" \/ (g = EndGroup(i) /\ src[g] # "bad")
      BY DEF GoodPart
    <3>1. /\ extra = 0
          /\ \A g \in 1 .. Len(src) : src[g] = "data" \/ (g = Len(src) /\ src[g] # "bad")
      BY <1>9 DEF WellFormed
    <3>2. FirstGroup(i) \in Nat /\ EndGroup(i) \in Nat /\ EndGroup(i) <= Len(src)
      BY <1>1, PartsInOrder
    <3>3. ASSUME NEW g \in FirstGroup(i) + 1 .. EndGroup(i), src[g] # "data"
          PROVE  g = EndGroup(i) /\ src[g] # "bad"
      <4>1. g \in 1 .. Len(src)
        BY <3>2, <1>1
      <4>2. g = Len(src) /\ src[g] # "bad"
        BY <4>1, <3>1, <3>3
      <4> QED
        BY <4>2, <3>2, <1>1
    <3> QED
      BY <3>1, <3>3 DEF Left
  <2>2. \A i \in Parts : Done(i) => res[i] = 1
    BY <2>1, <1>3
  <2>3. AllGood
    BY <2>2, <1>4 DEF AllGood
  <2> QED
    BY <2>2, <2>3, <1>5, <1>6
<1> QED
  BY <1>7, <1>8, <1>9

\* The padding of the whole, and the group that encoding adds for an incomplete one.
LastPadding == IF Len(src) > 0 THEN Padding(Len(src)) ELSE 0
Trailer == IF op = "enc" /\ extra > 0 THEN 4 ELSE 0

LEMMA FullLenIs ==
  ASSUME CallInv, WellFormed
  PROVE  /\ LastPadding \in 0..2 /\ Trailer \in {0, 4}
         /\ FullLen = Out * Len(src) - LastPadding + Trailer
         /\ \A g \in 1 .. Len(src) : g # Len(src) => Padding(g) = 0
<1>1. Len(src) \in Nat /\ (src = <<>> <=> Len(src) = 0)
  <2>1. src \in Seq({"data", "bad", "pad1", "pad2"})
    BY ParallelAssumption DEF CallInv
  <2> QED
    BY <2>1, EmptySeq
<1>2. Len(src) > 0 => Len(src) \in 1 .. Len(src)
  BY <1>1
<1>3. LastPadding \in 0..2 /\ (op = "enc" => LastPadding = 0)
  BY <1>2, GroupKinds DEF LastPadding
<1>4. \A g \in 1 .. Len(src) : g # Len(src) => Padding(g) = 0
  <2> SUFFICES ASSUME NEW g \in 1 .. Len(src), g # Len(src) PROVE Padding(g) = 0
    OBVIOUS
  <2>1. src[g] = "data"
    BY Sizes, GroupKinds DEF WellFormed
  <2> QED
    BY <2>1 DEF Padding
<1>5. CASE op = "enc"
  <2>1. extra \in 0..2 /\ Out = 4
    BY <1>5, Sizes
  <2>2. FullLen = 4 * (Len(src) + (extra + 2) \div 3)
    BY <1>5 DEF FullLen
  <2>3. 4 * ((extra + 2) \div 3) = IF extra > 0 THEN 4 ELSE 0
    BY <2>1
  <2> QED
    BY <2>1, <2>2, <2>3, <1>1, <1>3, <1>4, <1>5 DEF Trailer
<1>6. CASE op = "dec"
  <2>1. Out = 3
    BY <1>6, Sizes
  <2>2. FullLen = 3 * Len(src) - LastPadding
    BY <1>1, <1>6 DEF FullLen, LastPadding
  <2> QED
    BY <2>1, <2>2, <1>1, <1>3, <1>4, <1>6 DEF Trailer
<1> QED
  BY <1>5, <1>6, Sizes

\* What a part writes when the source is well formed: all its cells, but for the
\* padding that ends the source, and the trailer after it.
LEMMA PartLenIs ==
  ASSUME CallInv, CutInv, WellFormed, NEW i \in Parts
  PROVE  PartLen(i) =
           Out * Size(i) - (IF Size(i) > 0 /\ EndGroup(i) = Len(src) THEN LastPadding ELSE 0)
           + (IF i = num_threads THEN Trailer ELSE 0)
<1>1. /\ FirstGroup(i) \in Nat /\ EndGroup(i) \in Nat /\ Size(i) \in Nat
      /\ EndGroup(i) = FirstGroup(i) + Size(i) /\ EndGroup(i) <= Len(src)
      /\ Len(src) \in Nat
  BY PartsInOrder, Sizes
<1>2. ASSUME Size(i) > 0
      PROVE  Padding(EndGroup(i)) = IF EndGroup(i) = Len(src) THEN LastPadding ELSE 0
  <2>1. EndGroup(i) \in 1 .. Len(src)
    BY <1>1, <1>2
  <2> QED
    BY <2>1, <1>1, FullLenIs DEF LastPadding
<1>3. (IF op = "enc" /\ Left(i) > 0 THEN 4 ELSE 0) = IF i = num_threads THEN Trailer ELSE 0
  BY DEF Left, Trailer
<1> QED
  BY <1>2, <1>3 DEF PartLen

LEMMA LengthRight ==
  ASSUME IndInv, pc = "returned", WellFormed,
         \A i \in Parts : res[i] = 1 /\ wrote[i] = PartLen(i)
  PROVE  sum = FullLen
<1> DEFINE q == Quota
           n == num_threads
           L == Len(src)
           P == LastPadding
           T == Trailer
<1>1. /\ q \in Nat /\ n \in Nat /\ n * q \in Nat /\ L \in Nat /\ n * q <= L
      /\ Parts = 0 .. n /\ Out \in {3, 4}
      /\ P \in 0..2 /\ T \in {0, 4} /\ FullLen = Out * L - P + T
      /\ L = 0 => P = 0
  BY Cuts, Sizes, FullLenIs, SMTT(30) DEF IndInv, CutInv, Parts, LastPadding
<1>2. SumInv /\ CallInv /\ CutInv
  BY DEF IndInv
<1>3. \A i \in Parts : Done(i)
  BY DEF Done, None
<1>4. /\ \A i \in Parts : i < n => Size(i) = q /\ EndGroup(i) = i * q + q
      /\ EndGroup(n) = L /\ Size(n) = L - n * q
  BY <1>2, Cuts
<1>5. \A i \in Parts : wrote[i] =
        Out * Size(i) - (IF Size(i) > 0 /\ EndGroup(i) = L THEN P ELSE 0)
        + (IF i = n THEN T ELSE 0)
  BY <1>2, PartLenIs
<1>6. Early = 0 .. n - 2
  <2>1. \A i \in 0 .. n - 2 : i \in Parts
    BY <1>1
  <2>2. \A i \in 0 .. n - 2 : Done(i)
    BY <2>1, <1>3
  <2> QED
    BY <2>2 DEF Early
<1>7. Cardinality(Early) = IF n > 0 THEN n - 1 ELSE 0
  <2>1. PICK m \in Int : m = n - 2
    BY <1>1
  <2>2. Cardinality(0 .. m) = IF 0 > m THEN 0 ELSE m - 0 + 1
    BY FS_Interval
  <2>3. (IF 0 > m THEN 0 ELSE m - 0 + 1) = IF n > 0 THEN n - 1 ELSE 0
    BY <2>1, <1>1
  <2> HIDE DEF n
  <2> QED
    BY <2>1, <2>2, <2>3, <1>6
<1>8. /\ Count(n) = wrote[n]
      /\ n > 0 => Count(n - 1) = wrote[n - 1]
      /\ n = 0 => Count(n - 1) = 0
  BY <1>1, <1>3 DEF Count
<1> HIDE DEF q, n, L, P, T
<1>9. \A i \in Early : wrote[i] = Out * q
  <2> SUFFICES ASSUME NEW i \in 0 .. n - 2 PROVE wrote[i] = Out * q
    BY <1>6
  <2>1. i \in Parts /\ i < n /\ i \in Nat /\ i + 2 <= n /\ i # n
    BY <1>1
  <2>2. Size(i) = q /\ EndGroup(i) = i * q + q
    BY <2>1, <1>4
  <2>3. Size(i) > 0 => EndGroup(i) # L
    <3>1. (i + 2) * q <= n * q
      BY <2>1, <1>1, MulMono
    <3>2. (i + 2) * q = i * q + q + q /\ i * q \in Nat
      BY <2>1, <1>1
    <3> QED
      BY <3>1, <3>2, <2>2, <1>1
  <2>4. wrote[i] = Out * q - 0 + 0
    BY <2>1, <2>2, <2>3, <1>5
  <2>5. Out * q \in Nat
    BY <1>1
  <2> QED
    BY <2>4, <2>5
<1>10. sum = Out * q * Cardinality(Early) + Count(n - 1) + Count(n)
  BY <1>2, <1>9 DEF SumInv, q, n
<1>11. wrote[n] = Out * (L - n * q) - (IF L - n * q > 0 THEN P ELSE 0) + T
  <2>1. n \in Parts
    BY <1>1
  <2> QED
    BY <2>1, <1>4, <1>5
<1>12. CASE n = 0
  <2>1. n * q = 0
    BY <1>1, <1>12
  <2>2. Out * q * 0 = 0
    BY <1>1
  <2>3. sum = wrote[n]
    <3>1. wrote[n] \in Int
      BY <1>1, <1>11, <2>1
    <3> QED
      BY <3>1, <2>2, <1>7, <1>8, <1>10, <1>12
  <2> QED
    BY <2>1, <2>3, <1>1, <1>11
<1>13. CASE n > 0
  <2> DEFINE m == n * q
  <2>1. /\ n - 1 \in Parts /\ n - 1 < n /\ n - 1 # n
        /\ Size(n - 1) = q /\ EndGroup(n - 1) = m
    <3>1. n - 1 \in Parts /\ n - 1 < n /\ n - 1 # n /\ n - 1 \in Nat
      BY <1>1, <1>13
    <3>2. (n - 1) * q + q = n * q
      BY <1>1
    <3> QED
      BY <3>1, <3>2, <1>4
  <2>2. wrote[n - 1] = Out * q - (IF q > 0 /\ m = L THEN P ELSE 0) + 0
    BY <2>1, <1>5
  <2>3. Out * q * (n - 1) + Out * q = Out * m
    BY <1>1, <1>13
  <2>4. Out * q * (n - 1) \in Nat /\ Out * q \in Nat
    BY <1>1, <1>13
  <2>5. m \in Nat /\ m <= L /\ (m > 0 => q > 0)
    BY <1>1
  <2>6. sum = Out * q * (n - 1) + wrote[n - 1] + wrote[n]
    BY <1>7, <1>8, <1>10, <1>13
  <2>7. wrote[n] = Out * (L - m) - (IF L - m > 0 THEN P ELSE 0) + T
    BY <1>11
  <2> DEFINE a == Out * q * (n - 1)
             b == Out * q
             w == wrote[n - 1]
             v == wrote[n]
  <2>8. /\ a \in Nat /\ b \in Nat /\ a + b = Out * m /\ sum = a + w + v
        /\ w = b - (IF q > 0 /\ m = L THEN P ELSE 0) + 0
        /\ v = Out * (L - m) - (IF L - m > 0 THEN P ELSE 0) + T
    BY <2>2, <2>3, <2>4, <2>6, <2>7
  <2> HIDE DEF m, a, b, w, v
  <2>9. Out * (L - m) = Out * L - Out * m /\ Out * m \in Nat /\ Out * L \in Nat
    BY <2>5, <1>1
  <2>10. CASE L = m
    <3>1. (IF q > 0 /\ m = L THEN P ELSE 0) = P
      BY <2>5, <2>10, <1>1
    <3>2. w = b - P /\ v = T
      BY <3>1, <2>8, <2>9, <2>10, <1>1
    <3> QED
      BY <3>2, <2>8, <2>9, <2>10, <1>1
  <2>11. CASE L # m
    <3>1. w = b /\ v = Out * L - Out * m - P + T
      BY <2>5, <2>8, <2>9, <2>11, <1>1
    <3> QED
      BY <3>1, <2>8, <2>9, <1>1, SMTT(30)
  <2> QED
    BY <2>10, <2>11
<1> QED
  BY <1>1, <1>12, <1>13

LEMMA BytesRight ==
  ASSUME IndInv, MemInv, pc = "returned", WellFormed,
         \A i \in Parts : res[i] = 1 /\ wrote[i] = PartLen(i),
         NEW c \in 0 .. FullLen - 1
  PROVE  c \in DOMAIN mem /\ mem[c] = c + 1
<1> DEFINE L == Len(src)
           P == LastPadding
           T == Trailer
           n == num_threads
<1>1. /\ CallInv /\ CutInv /\ L \in Nat /\ Out \in {3, 4} /\ n \in Parts
      /\ P \in 0..2 /\ T \in {0, 4} /\ FullLen = Out * L - P + T
  BY Cuts, Sizes, FullLenIs, SMTT(30) DEF IndInv, Parts
<1>2. c \in Nat /\ c < Out * L - P + T
  <2>1. Out * L - P + T \in Int
    BY <1>1
  <2> QED
    BY <2>1, <1>1
<1>3. \A i \in Parts : \A x \in Out * FirstGroup(i) .. Out * FirstGroup(i) + wrote[i] - 1 :
        x \in DOMAIN mem /\ mem[x] = x + 1
  BY DEF MemInv
<1> SUFFICES \E i \in Parts : c \in Out * FirstGroup(i) .. Out * FirstGroup(i) + wrote[i] - 1
  BY <1>3
<1>4. ASSUME NEW i \in Parts
      PROVE  /\ FirstGroup(i) \in Nat /\ Size(i) \in Nat
             /\ EndGroup(i) = FirstGroup(i) + Size(i) /\ EndGroup(i) <= L
             /\ wrote[i] = Out * Size(i) - (IF Size(i) > 0 /\ EndGroup(i) = L THEN P ELSE 0)
                           + (IF i = n THEN T ELSE 0)
  BY <1>1, PartsInOrder, PartLenIs
<1> HIDE DEF L, P, T, n
<1>5. CASE c < Out * L
  <2> DEFINE g == c \div Out + 1
  <2>1. g \in 1 .. L /\ Out * (g - 1) <= c /\ c < Out * g
    BY <1>1, <1>2, <1>5
  <2> HIDE DEF g
  <2>2. PICK i \in Parts : FirstGroup(i) < g /\ g <= EndGroup(i)
    BY <2>1, <1>1, PartOf DEF L
  <2> DEFINE f == FirstGroup(i)
             s == Size(i)
             e == EndGroup(i)
             w == wrote[i]
  <2>3. /\ f \in Nat /\ s \in Nat /\ e = f + s /\ e <= L /\ f < g /\ g <= e
        /\ w = Out * s - (IF s > 0 /\ e = L THEN P ELSE 0) + (IF i = n THEN T ELSE 0)
    BY <2>2, <1>4
  <2> HIDE DEF f, s, e, w
  <2>4. s > 0
    BY <2>1, <2>3
  <2>5. Out * f <= c /\ Out * f \in Nat
    BY <1>1, <1>2, <2>1, <2>3
  <2>6. c < Out * f + w
    <3>1. CASE e # L
      <4>1. w = Out * s + (IF i = n THEN T ELSE 0)
        BY <3>1, <2>3, <1>1
      <4>2. c < Out * f + Out * s
        BY <1>1, <1>2, <2>1, <2>3
      <4> QED
        BY <4>1, <4>2, <1>1, <1>2, <2>3
    <3>2. CASE e = L
      <4>1. w = Out * s - P + (IF i = n THEN T ELSE 0)
        BY <3>2, <2>3, <2>4
      <4>2. Out * L = Out * f + Out * s /\ Out * s \in Nat /\ Out * f \in Nat
        BY <3>2, <2>3, <1>1
      <4>3. T = 0 \/ P = 0
        BY <1>1, GroupKinds DEF T, P, LastPadding, Trailer, L
      <4>4. c < Out * f + Out * s - P
        BY <4>2, <4>3, <1>1, <1>2, <1>5
      <4> QED
        BY <4>1, <4>2, <4>4, <1>1, <1>2
    <3> QED
      BY <3>1, <3>2
  <2>7. w \in Int
    BY <2>3, <1>1
  <2>8. c \in Out * f .. Out * f + w - 1
    BY <2>5, <2>6, <2>7, <1>2
  <2> QED
    BY <2>8 DEF f, w
<1>6. CASE Out * L <= c
  <2> DEFINE f == FirstGroup(n)
             s == Size(n)
             w == wrote[n]
  <2>1. /\ f \in Nat /\ s \in Nat /\ f + s = L
        /\ w = Out * s - (IF s > 0 THEN P ELSE 0) + T
    <3>1. EndGroup(n) = L
      BY <1>1, Cuts DEF n, L
    <3> QED
      BY <3>1, <1>1, <1>4
  <2> HIDE DEF f, s, w
  <2>2. Out * L = Out * f + Out * s /\ Out * s \in Nat /\ Out * f \in Nat
    BY <2>1, <1>1
  <2>3. T = 0 \/ P = 0
    BY <1>1, GroupKinds DEF T, P, LastPadding, Trailer, L
  <2>4. P = 0
    BY <2>2, <2>3, <1>1, <1>2, <1>6
  <2>5. w = Out * s + T
    BY <2>1, <2>2, <2>4, <1>1
  <2>6. c \in Out * f .. Out * f + w - 1
    BY <2>2, <2>4, <2>5, <1>1, <1>2, <1>6
  <2> QED
    BY <2>6, <1>1 DEF f, w
<1> QED
  BY <1>1, <1>2, <1>5, <1>6

\* The answer of a team is that of a single thread, for every source and team whose
\* offsets do not wrap, wherever no part ends in padding that more input follows.
THEOREM TeamAnswers == ASSUME NoWrap PROVE Spec => []SameAsSequential
<1>1. IndInv /\ MemInv => SameAsSequential
  <2> SUFFICES ASSUME IndInv, MemInv, pc = "returned", ~ stub, ~ PaddingEndsPart
               PROVE  /\ result = 1 <=> WellFormed
                      /\ result = 1 => /\ outlen = FullLen
                                       /\ \A c \in 0 .. outlen - 1 :
                                            c \in DOMAIN mem /\ mem[c] = c + 1
    BY DEF SameAsSequential
  <2>1. /\ result = 1 <=> WellFormed
        /\ result = 1 => /\ outlen = sum
                         /\ \A i \in Parts : res[i] = 1 /\ wrote[i] = PartLen(i)
    BY VerdictRight
  <2>2. result = 1 => sum = FullLen
    BY <2>1, LengthRight
  <2>3. result = 1 => \A c \in 0 .. FullLen - 1 : c \in DOMAIN mem /\ mem[c] = c + 1
    BY <2>1, BytesRight
  <2> QED
    BY <2>1, <2>2, <2>3
<1> QED
  BY <1>1, Inductive, MemInductive, PTL
=============================================================================
