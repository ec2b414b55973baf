------------------------------- MODULE Parallel -----------------------------
(***************************************************************************)
(* The one-shot API: base64_encode and base64_decode (lib/lib.c), which    *)
(* code a short source with one stream, and base64_encode_openmp and       *)
(* base64_decode_openmp (lib/lib_openmp.c), to which they hand a long one: *)
(* it is cut into one part per thread, each a whole number of groups, the  *)
(* threads code their parts into one shared buffer, and the caller codes   *)
(* what remains.                                                           *)
(*                                                                         *)
(* A group is three bytes of input when encoding and four characters when  *)
(* decoding.  What a thread does inside a part is what Encoder and Decoder *)
(* do, one step per round of the bulk loop or per group of the tail; the   *)
(* zeros that a decoder's round stores after its output are kept, for they *)
(* land where another thread may have written.                             *)
(***************************************************************************)
EXTENDS Integers, Sequences, FiniteSets

CONSTANTS
  Ops,         \* the operations: a subset of {"enc", "dec"}
  Sources,     \* the sources, each a sequence of groups: "data", "bad",
               \* or "pad1", "pad2" for a group that ends in '=' or '=='
  Extras,      \* how many bytes may follow the last whole group
  OMP_THRESHOLD,   \* the shortest source that is coded in parallel
  MaxThreads,  \* the threads the runtime may grant, at most
  Kernels,     \* the bulk loops: guard and block, in bytes of input, and the
               \* gap: the zeros that a round stores after its output
  WordSize     \* SIZE_MAX + 1

ASSUME ParallelAssumption ==
  /\ Ops \subseteq {"enc", "dec"}
  /\ Sources \subseteq Seq({"data", "bad", "pad1", "pad2"})
  /\ Extras \subseteq 0..3
  /\ OMP_THRESHOLD \in Nat
  /\ MaxThreads \in Nat \ {0}
  /\ WordSize \in Nat \ {0}
  /\ Kernels \subseteq [op : Ops, guard : Nat, block : Nat \ {0}, gap : Nat]
  \* A round reads whole groups, and its guard keeps back enough input "to cover
  \* the gap" of the "extra zero bytes" (lib/arch/avx2/dec_loop.c:63).
  /\ \A k \in Kernels :
       LET in == IF k.op = "enc" THEN 3 ELSE 4
           out == IF k.op = "enc" THEN 4 ELSE 3
       IN k.block % in = 0 /\ k.guard >= k.block
          /\ in * k.gap <= out * (k.guard - k.block)

VARIABLES
  op, src, extra, kernel, stub,   \* the call: stub: its codec is not compiled in
  mem,          \* the output buffer: what each cell was last given
  pc,           \* "fork", "parallel", "last", "returned"
  num_threads,
  len,          \* the bytes in each part
  pos,          \* per part: the groups coded so far
  wrote,        \* per part: the cells written, `s` of its call
  res,          \* per part: None while its call runs, then its result
  sum,          \* the reduction
  result, outlen

vars == <<op, src, extra, kernel, stub, mem, pc, num_threads, len, pos, wrote,
          res, sum, result, outlen>>
-----------------------------------------------------------------------------
In  == IF op = "enc" THEN 3 ELSE 4
Out == IF op = "enc" THEN 4 ELSE 3

srclen == In * Len(src) + extra

\* The memory: cell -> the index of the output byte it should hold, from 1;
\* Zero for a stored zero.  A cell never written is not in its domain.
Zero == 0
None == -2

Write(m, o, b) == [c \in DOMAIN m \cup {o + i - 1 : i \in 1..Len(b)} |->
                     IF c \in o .. o + Len(b) - 1 THEN b[c - o + 1] ELSE m[c]]

\* The bytes of groups g+1..g+n, and n zeros.
Bytes(g, n) == [i \in 1 .. n * Out |-> g * Out + i]
Zeros(n) == [i \in 1..n |-> Zero]

Parts == 0 .. num_threads        \* one per thread, and the caller's

\* `src + i * len` and `out + i * len * 4 / 3`.  size_t arithmetic wraps.
FirstGroup(i) == (i * len) \div In
EndGroup(i) == IF i < num_threads THEN FirstGroup(i + 1) ELSE Len(src)
Offset(i) == ((i * len * Out) % WordSize) \div In

\* The bytes of the part that its call has yet to read.
Rest(i) == In * (EndGroup(i) - FirstGroup(i) - pos[i])
           + (IF i = num_threads THEN extra ELSE 0)

-----------------------------------------------------------------------------
Init ==
  /\ op \in Ops /\ src \in Sources /\ extra \in Extras /\ kernel \in Kernels
  /\ kernel.op = op
  /\ op = "enc" => extra < 3 /\ \A g \in 1..Len(src) : src[g] = "data"
  /\ stub \in BOOLEAN
  /\ mem = [c \in {} |-> Zero]
  /\ pc = "fork"
  /\ num_threads = 0 /\ len = 0
  /\ pos = <<>> /\ wrote = <<>> /\ res = <<>>
  /\ sum = 0
  /\ result = 0 /\ outlen = -1

\* One stream codes it all, as the caller's part of a team of none: always in a
\* library built without OpenMP, and below the threshold in one built with it.
Sequential ==
  /\ pc = "fork"
  /\ num_threads' = 0 /\ len' = 0
  /\ pos' = [i \in {0} |-> 0] /\ wrote' = [i \in {0} |-> 0]
  /\ res' = [i \in {0} |-> None]
  /\ pc' = "last"
  /\ UNCHANGED <<op, src, extra, kernel, stub, mem, sum, result, outlen>>

\* The runtime grants a team; `single`, and the barrier it implies.
Fork ==
  /\ pc = "fork"
  /\ srclen >= OMP_THRESHOLD
  /\ \E n \in 1..MaxThreads :
       /\ num_threads' = n
       /\ len' = (srclen \div (n * In)) * In
       /\ pos' = [i \in 0..n |-> 0] /\ wrote' = [i \in 0..n |-> 0]
       /\ res' = [i \in 0..n |-> None]
  /\ pc' = "parallel"
  /\ UNCHANGED <<op, src, extra, kernel, stub, mem, sum, result, outlen>>

\* schedule(static,1): thread i of the team runs iteration i, and the caller
\* goes on with the remainder when all have passed the loop's barrier.
Running(i) ==
  /\ res[i] = None
  /\ \/ pc = "parallel" /\ i < num_threads
     \/ pc = "last" /\ i = num_threads

Group(i) == FirstGroup(i) + pos[i]      \* the groups of src before the cursor

Store(i, b, n) ==
  /\ mem' = Write(mem, Offset(i) + wrote[i], b)
  /\ wrote' = [wrote EXCEPT ![i] = @ + n]

\* The call on part i returns r.
Leave(i, r) ==
  /\ res' = [res EXCEPT ![i] = r]
  /\ sum' = sum + wrote'[i]

\* The call's codec is a stub.  The encoding one writes nothing; the decoding
\* one leaves s alone too, so what it adds to the sum is anything: it is never
\* used.
Stub(i) ==
  /\ Running(i) /\ stub
  /\ UNCHANGED <<op, src, extra, kernel, stub, mem, pc, num_threads, len, pos,
                 wrote, result, outlen>>
  /\ Leave(i, IF op = "enc" THEN 1 ELSE -1)

BlockGroups == kernel.block \div In

BulkReadyNoReserve(i) ==     \* mutant: a round for every whole block
  /\ Rest(i) >= kernel.block
  /\ \A g \in Group(i) + 1 .. Group(i) + BlockGroups : src[g] = "data"

BulkReady(i) ==
  /\ Rest(i) >= kernel.guard
  /\ \A g \in Group(i) + 1 .. Group(i) + BlockGroups : src[g] = "data"

\* One round of the bulk loop.
Round(i) ==
  /\ Running(i) /\ ~ stub
  /\ BulkReady(i)
  /\ Store(i, Bytes(Group(i), BlockGroups) \o Zeros(kernel.gap), BlockGroups * Out)
  /\ pos' = [pos EXCEPT ![i] = @ + BlockGroups]
  /\ UNCHANGED <<op, src, extra, kernel, stub, pc, num_threads, len, res, sum,
                 result, outlen>>

AtTail(i) == Running(i) /\ ~ stub /\ ~ BulkReady(i)

\* One group, coded byte by byte.
DataGroup(i) ==
  /\ AtTail(i)
  /\ pos[i] < EndGroup(i) - FirstGroup(i) /\ src[Group(i) + 1] = "data"
  /\ Store(i, Bytes(Group(i), 1), Out)
  /\ pos' = [pos EXCEPT ![i] = @ + 1]
  /\ UNCHANGED <<op, src, extra, kernel, stub, pc, num_threads, len, res, sum,
                 result, outlen>>

\* A group that ends in padding, good if nothing follows it in this part, or one
\* with an invalid character after n bytes.
OtherGroup(i) ==
  /\ AtTail(i)
  /\ pos[i] < EndGroup(i) - FirstGroup(i) /\ src[Group(i) + 1] # "data"
  /\ \E n \in IF src[Group(i) + 1] = "pad1" THEN {2}
              ELSE IF src[Group(i) + 1] = "pad2" THEN {1} ELSE {0, 1, 2} :
       Store(i, SubSeq(Bytes(Group(i), 1), 1, n), n)
  /\ pos' = [pos EXCEPT ![i] = @ + 1]
  /\ Leave(i, IF src[Group(i) + 1] # "bad" /\ Rest(i) = In THEN 1 ELSE 0)
  /\ UNCHANGED <<op, src, extra, kernel, stub, pc, num_threads, len, result,
                 outlen>>

\* The end of the part.  In the caller's, an incomplete group may follow: it
\* is left open when decoding; when encoding base64_stream_encode_final closes
\* it, with a whole group of output.
EndOfPart(i) ==
  /\ AtTail(i)
  /\ pos[i] = EndGroup(i) - FirstGroup(i)
  /\ LET open == IF i < num_threads THEN 0 ELSE extra
         n == IF op = "dec" THEN (3 * open) \div 4 ELSE IF open = 0 THEN 0 ELSE 4
     IN /\ Store(i, SubSeq(Bytes(Group(i), 2), 1, n), n)
        /\ Leave(i, IF op = "dec" /\ open > 0 THEN 0 ELSE 1)
  /\ UNCHANGED <<op, src, extra, kernel, stub, pc, num_threads, len, pos, result,
                 outlen>>

Returned(r) == {i \in 0 .. num_threads - 1 : res[i] = r}

\* Mutants of Join: one good part is enough; a single -1 is taken for a missing
\* codec; and the barrier waits for the caller's part too.
JoinOn(good, absent, waited) ==
  /\ pc = "parallel"
  /\ \A i \in 0 .. waited : res[i] # None
  /\ LET r == Cardinality(Returned(1)) - Cardinality(Returned(-1))
     IN IF op = "enc" \/ r >= good
        THEN pc' = "last" /\ UNCHANGED result
        ELSE pc' = "returned" /\ result' = IF r = - absent THEN -1 ELSE 0
  /\ UNCHANGED <<op, src, extra, kernel, stub, mem, num_threads, len, pos, wrote,
                 res, sum, outlen>>
JoinOneIsEnough == JoinOn(1, num_threads, num_threads - 1)
JoinMinusOne == JoinOn(num_threads, 1, num_threads - 1)
JoinWaitsForCaller == JoinOn(num_threads, num_threads, num_threads)

\* The loop's barrier.  When decoding, the sum of the results is judged before
\* the remainder is touched.
Join ==
  /\ pc = "parallel"
  /\ \A i \in 0 .. num_threads - 1 : res[i] # None
  /\ LET r == Cardinality(Returned(1)) - Cardinality(Returned(-1))
     IN IF op = "enc" \/ r = num_threads
        THEN pc' = "last" /\ UNCHANGED result
        ELSE pc' = "returned" /\ result' = IF r = - num_threads THEN -1 ELSE 0
  /\ UNCHANGED <<op, src, extra, kernel, stub, mem, num_threads, len, pos, wrote,
                 res, sum, outlen>>

Return ==
  /\ pc = "last" /\ res[num_threads] # None
  /\ pc' = "returned"
  /\ outlen' = sum
  /\ result' = res[num_threads]
  /\ UNCHANGED <<op, src, extra, kernel, stub, mem, num_threads, len, pos, wrote,
                 res, sum>>

Next ==
  \/ Sequential \/ Fork
  \/ \E i \in 0..MaxThreads : i <= num_threads /\ pc # "fork" /\
       (Stub(i) \/ Round(i) \/ DataGroup(i) \/ OtherGroup(i) \/ EndOfPart(i))
  \/ Join \/ Return

Spec == Init /\ [][Next]_vars
\* A thread that can go on does, to the barrier and beyond.
FairSpec == Spec /\ WF_vars(Next)
-----------------------------------------------------------------------------
\* "Out parts can be written without side effects" (lib/lib_openmp.c): whatever
\* the threads' interleaving, what a part has written is where it belongs and is
\* never overwritten, and nothing of a part is written before its call runs, not
\* even by the zeros that follow a round of the part before it.
PartsAreDisjoint ==
  pc # "fork" =>
    \A i \in Parts :
      /\ \A c \in Offset(i) .. Offset(i) + wrote[i] - 1 : mem[c] = c + 1
      /\ pos[i] = 0 /\ wrote[i] = 0 =>
           \A c \in Out * FirstGroup(i) .. Out * EndGroup(i) - 1 : c \notin DOMAIN mem

\* What base64_decode and base64_encode make of the same source in one thread.
Padding(g) == IF src[g] = "pad1" THEN 1 ELSE IF src[g] = "pad2" THEN 2 ELSE 0

WellFormed ==
  op = "dec" =>
    /\ extra = 0
    /\ \A g \in 1..Len(src) : src[g] = "data" \/ (g = Len(src) /\ src[g] # "bad")

FullLen ==
  IF op = "enc" THEN 4 * (Len(src) + (extra + 2) \div 3)
  ELSE 3 * Len(src) - (IF src = <<>> THEN 0 ELSE Padding(Len(src)))

\* Padding in the middle of the source falls at the end of a thread's part.
PaddingEndsPart ==
  \E i \in 0 .. num_threads - 1 :
    LET g == EndGroup(i)
    IN g > FirstGroup(i) /\ Padding(g) > 0 /\ In * g < srclen

\* The answer is that of a single thread: the same verdict and, when it is good,
\* the same length and every byte in its place.
SameAsSequential ==
  pc = "returned" /\ ~ stub /\ ~ PaddingEndsPart =>
    /\ result = 1 <=> WellFormed
    /\ result = 1 => /\ outlen = FullLen
                     /\ \A c \in 0 .. outlen - 1 : c \in DOMAIN mem /\ mem[c] = c + 1

\* "all threads returned -1, indicating that the requested codec is not
\* available": -1 is returned for nothing else, and nothing else is for it.
StubIsReported == pc = "returned" /\ op = "dec" => (result = -1 <=> stub)

\* Every call comes back: no thread is left waiting at a barrier.
Terminates == <>(pc = "returned")

\* base64_decode "Returns 1 for success, and 0 when a decode error has occured
\* due to invalid input" (README.md).  Refuted: padding in the middle of the
\* source goes unnoticed where a thread's part ends.
AcceptsOnlyWellFormed == pc = "returned" /\ result = 1 => WellFormed
-----------------------------------------------------------------------------
\* The inductive invariant.

\* The call, and the answer.
CallInv ==
  /\ op \in Ops /\ src \in Sources /\ extra \in Extras /\ kernel \in Kernels
  /\ kernel.op = op /\ stub \in BOOLEAN
  /\ op = "enc" => extra < 3 /\ \A g \in 1..Len(src) : src[g] = "data"
  /\ pc \in {"fork", "parallel", "last", "returned"}
  /\ result \in {-1, 0, 1}

\* The groups in a thread's part: the parts fit in the source, one after another.
Quota == len \div In

CutInv ==
  /\ num_threads \in 0..MaxThreads /\ len \in Nat
  /\ len = In * Quota /\ num_threads * Quota <= Len(src)

Started(i) == pos[i] # 0 \/ wrote[i] # 0
Done(i) == res[i] # None
Size(i) == EndGroup(i) - FirstGroup(i)
Left(i) == IF i = num_threads THEN extra ELSE 0

\* A part whose call returns 1, and what it writes then.
GoodPart(i) ==
  op = "dec" =>
    /\ Left(i) = 0
    /\ \A g \in FirstGroup(i) + 1 .. EndGroup(i) :
         src[g] = "data" \/ (g = EndGroup(i) /\ src[g] # "bad")
PartLen(i) ==
  Out * Size(i) - (IF Size(i) > 0 THEN Padding(EndGroup(i)) ELSE 0)
  + (IF op = "enc" /\ Left(i) > 0 THEN 4 ELSE 0)

StubResult == IF op = "enc" THEN 1 ELSE -1

PartTypes ==
  /\ pos \in [Parts -> Nat] /\ wrote \in [Parts -> Nat]
  /\ res \in [Parts -> {None, -1, 0, 1}]

\* Part i: while its call runs, it has written what it has read; once the call has
\* returned, its result tells whether the part was good.
PartInv(i) ==
  /\ pos[i] <= Size(i)
  /\ ~ Done(i) => wrote[i] = Out * pos[i]
  /\ i < num_threads => wrote[i] <= Out * Size(i)
  /\ ~ stub /\ ~ Done(i) =>
       \A g \in FirstGroup(i) + 1 .. FirstGroup(i) + pos[i] : src[g] = "data"
  /\ stub => pos[i] = 0 /\ wrote[i] = 0 /\ res[i] \in {None, StubResult}
  /\ ~ stub /\ Done(i) =>
       \/ res[i] = 1 /\ GoodPart(i) /\ wrote[i] = PartLen(i)
       \/ res[i] = 0 /\ ~ GoodPart(i)

\* Where the call is: the caller's part waits for all others to be good.
AllDone == \A i \in 0 .. num_threads - 1 : Done(i)
AllGood == \A i \in 0 .. num_threads - 1 : res[i] = 1

PhaseInv ==
  /\ pc \in {"fork", "parallel"} => result = 0
  /\ pc = "parallel" => num_threads >= 1 /\ ~ Done(num_threads)
  /\ pc = "last" => AllDone /\ (op = "dec" => AllGood)
  /\ pc = "returned" =>
       /\ AllDone
       /\ \/ /\ op = "dec" => AllGood
             /\ Done(num_threads) /\ result = res[num_threads] /\ outlen = sum
          \/ /\ op = "dec" /\ num_threads >= 1 /\ ~ AllGood
             /\ result = IF stub THEN -1 ELSE 0

\* The reduction: as long as every thread but the last has filled its part, the sum
\* is what those threads wrote, and the last, and the caller.
Early == {i \in 0 .. num_threads - 2 : Done(i)}
Count(i) == IF i \in Parts /\ Done(i) THEN wrote[i] ELSE 0

SumInv ==
  (\A i \in Early : wrote[i] = Out * Quota) =>
    sum = Out * Quota * Cardinality(Early) + Count(num_threads - 1) + Count(num_threads)

IndInv ==
  /\ CallInv /\ CutInv /\ PhaseInv
  /\ pc = "fork" => sum = 0
  /\ pc # "fork" => PartTypes /\ SumInv /\ \A i \in Parts : PartInv(i)

\* The memory.  No offset may wrap: three bytes become four characters, so that a
\* source below a quarter of the address space is safe in either direction.
NoWrap == \A s \in Sources : 12 * Len(s) < WordSize

MemInv ==
  /\ pc = "fork" => DOMAIN mem = {}
  /\ DOMAIN mem \subseteq Nat
  /\ pc # "fork" =>
       \A i \in Parts :
         /\ \A c \in Out * FirstGroup(i) .. Out * FirstGroup(i) + wrote[i] - 1 :
              c \in DOMAIN mem /\ mem[c] = c + 1
         /\ ~ Started(i) =>
              \A c \in Out * FirstGroup(i) .. Out * EndGroup(i) - 1 : c \notin DOMAIN mem
=============================================================================
