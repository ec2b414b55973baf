-------------------------- MODULE CodecChoiceProofs -------------------------
(***************************************************************************)
(* For every number of threads, every build, every machine and every set   *)
(* of flags: no race between initialisations makes a thread call through   *)
(* NULL, or a codec that nobody asked for or that the machine cannot run.  *)
(***************************************************************************)
EXTENDS CodecChoice, TLAPS

-----------------------------------------------------------------------------
(* The choice itself.                                                      *)

LEMMA LeastOf ==
  ASSUME NEW S, S \subseteq 1..9, S # {}
  PROVE  Least(S) \in S /\ \A j \in S : Least(S) <= j
<1>1. \E i \in S : \A j \in S : i <= j
  <2> SUFFICES ASSUME \A i \in S : \E j \in S : j < i PROVE FALSE
    OBVIOUS
  <2>1. 1 \notin S /\ 2 \notin S /\ 3 \notin S
    OBVIOUS
  <2>2. 4 \notin S /\ 5 \notin S /\ 6 \notin S
    BY <2>1
  <2>3. 7 \notin S /\ 8 \notin S /\ 9 \notin S
    BY <2>1, <2>2
  <2>4. PICK x \in S : x \in 1..9
    OBVIOUS
  <2>5. x \notin {1, 2, 3, 4, 5, 6, 7, 8, 9}
    BY <2>1, <2>2, <2>3, <2>4, Zenon
  <2> QED
    BY <2>4, <2>5
<1> QED
  BY <1>1, Zenon DEF Least

LEMMA Orders ==
  /\ Len(ForceOrder) = 9 /\ Len(ChoiceOrder) = 6
  /\ \A i \in 1..9 : ForceOrder[i] # NULL
  /\ \A i \in 1..6 : ChoiceOrder[i] \in X86 /\ ChoiceOrder[i] # NULL
BY DEF ForceOrder, ChoiceOrder, X86, NULL

\* Every choice is a codec: codec_choose never stores NULL.
LEMMA ChoiceIsCodec == ASSUME NEW f PROVE Choice(f) # NULL
<1>1. CASE ForcedBy(f) # {}
  <2>1. ForcedBy(f) \subseteq 1..9
    BY Orders DEF ForcedBy
  <2>2. Least(ForcedBy(f)) \in 1..9
    BY <1>1, <2>1, LeastOf
  <2> QED
    BY <1>1, <2>2, Orders DEF Choice
<1>2. CASE ForcedBy(f) = {}
  <2> DEFINE S == {i \in 1..Len(ChoiceOrder) : Detects(ChoiceOrder[i])}
  <2>1. S # {} => ChoiceOrder[Least(S)] # NULL
    <3> SUFFICES ASSUME S # {} PROVE ChoiceOrder[Least(S)] # NULL
      OBVIOUS
    <3>1. S \subseteq 1..6
      BY Orders
    <3>2. Least(S) \in 1..6
      <4> HIDE DEF S
      <4>1. S \subseteq 1..9
        BY <3>1
      <4> QED
        BY <3>1, <4>1, LeastOf
    <3> QED
      BY <3>2, Orders
  <2>2. DetectedX86 # NULL
    BY <2>1 DEF DetectedX86, Plain, NULL
  <2> QED
    BY <1>2, <2>2 DEF Choice, Detected, NULL
<1> QED
  BY <1>1, <1>2

\* An x86 codec passes the tests of its branch exactly when the CPU has its
\* instructions and the OS saves the registers it uses.
LEMMA DetectsExecutable ==
  ASSUME build \subseteq X86, machine \in Machine, NEW i \in 1..6
  PROVE  Detects(ChoiceOrder[i]) <=> Executable(ChoiceOrder[i])
<1>1. ChoiceOrder[i] \in X86 /\ "avx512" \notin machine.bits
  BY Orders DEF Machine
<1>2. /\ ChoiceOrder[i] # Plain /\ ChoiceOrder[i] \notin Neon
  BY <1>1 DEF X86, Plain, Neon
<1> DEFINE c == ChoiceOrder[i]
<1> HIDE DEF c
<1>3. CASE c = "avx512"
  BY <1>1, <1>2, <1>3 DEF Detects, Executable, OsSavesAvx, c
<1>4. CASE c = "avx2"
  BY <1>1, <1>2, <1>4 DEF Detects, Executable, OsSavesAvx, c
<1>5. CASE c = "avx"
  BY <1>1, <1>2, <1>5 DEF Detects, Executable, OsSavesAvx, c
<1>6. CASE c \notin {"avx512", "avx2", "avx"}
  BY <1>1, <1>2, <1>6 DEF Detects, Executable, c
<1> QED
  BY <1>3, <1>4, <1>5, <1>6 DEF c

\* Detection finds the best codec that the build has and the machine can run.
BestExecutable(c) ==
  /\ Executable(c)
  /\ \A i \in 1..Len(ChoiceOrder) :
       Executable(ChoiceOrder[i]) => \E j \in 1..i : c = ChoiceOrder[j]

LEMMA DetectedIsBest ==
  ASSUME build \in Builds, machine \in Machines
  PROVE  BestExecutable(Detected)
<1>1. machine \in Machine /\ (build \subseteq X86 \/ build \subseteq Neon)
  BY ChoiceAssumption
<1>2. CASE build \subseteq X86
  <2> DEFINE S == {i \in 1..6 : Detects(ChoiceOrder[i])}
  <2>1. Detected = IF S = {} THEN Plain ELSE ChoiceOrder[Least(S)]
    BY <1>2, Orders DEF Detected, DetectedX86, X86
  <2>2. \A i \in 1..6 : i \in S <=> Executable(ChoiceOrder[i])
    BY <1>1, <1>2, DetectsExecutable
  <2>3. S \subseteq 1..6 /\ S \subseteq 1..9
    OBVIOUS
  <2> HIDE DEF S
  <2>4. CASE S = {}
    BY <2>1, <2>2, <2>4, Orders DEF BestExecutable, Executable
  <2>5. CASE S # {}
    <3>1. Least(S) \in S /\ \A j \in S : Least(S) <= j
      BY <2>3, <2>5, LeastOf
    <3>2. Executable(Detected)
      BY <2>1, <2>2, <2>3, <2>5, <3>1
    <3>3. ASSUME NEW i \in 1..6, Executable(ChoiceOrder[i])
          PROVE  \E j \in 1..i : Detected = ChoiceOrder[j]
      <4>1. Least(S) \in 1..i
        <5>1. i \in S /\ Least(S) <= i /\ Least(S) \in 1..6
          BY <2>2, <2>3, <3>1, <3>3
        <5> QED
          BY <5>1
      <4> QED
        BY <2>1, <2>5, <4>1
    <3> QED
      BY <3>2, <3>3, Orders DEF BestExecutable
  <2> QED
    BY <2>4, <2>5
<1>3. CASE build \subseteq Neon
  <2>1. \A i \in 1..6 : ~ Executable(ChoiceOrder[i]) /\ ~ Detects(ChoiceOrder[i])
    <3>1. \A i \in 1..6 : ChoiceOrder[i] \notin build /\ ChoiceOrder[i] # Plain
      BY <1>3, Orders DEF X86, Neon, Plain
    <3> QED
      BY <3>1 DEF Executable, Detects
  <2>2. DetectedX86 = Plain
    BY <2>1, Orders DEF DetectedX86
  <2>3. Executable(Detected)
    BY <2>2 DEF Detected, Executable, Neon
  <2> QED
    BY <2>1, <2>3, Orders DEF BestExecutable
<1> QED
  BY <1>1, <1>2, <1>3

-----------------------------------------------------------------------------
(* The inductive invariant.                                                *)

\* What a later init asks for does not change what was chosen before.
LEMMA ChosenGrows ==
  ASSUME build' = build, machine' = machine, asked \subseteq asked'
  PROVE  Chosen \subseteq Chosen'
<1>1. \A f : Choice(f)' = Choice(f)
  BY DEF Choice, Detected, DetectedX86, Detects, OsSavesAvx, AvxStates, Avx512States
<1> QED
  BY <1>1 DEF Chosen

LEMMA InitInv == Init => IndInv
<1> SUFFICES ASSUME Init PROVE IndInv
  OBVIOUS
<1>1. TypeOK /\ AskedInv /\ FilledInv /\ NoNullCall
  BY DEF Init, TypeOK, AskedInv, FilledInv, NoNullCall, Ops
<1>2. ChosenInv
  BY DEF Init, ChosenInv, Chosen, Ops
<1> QED
  BY <1>1, <1>2 DEF IndInv

LEMMA StreamInitInv ==
  ASSUME IndInv, NEW t \in Threads, NEW o \in Ops, NEW f \in Flags, StreamInit(t, o, f)
  PROVE  IndInv'
<1> USE DEF IndInv
<1>1. TypeOK'
  BY DEF StreamInit, TypeOK
<1>2. ChosenInv'
  <2>1. Chosen \subseteq Chosen'
    BY ChosenGrows DEF StreamInit
  <2>2. NULL \in Chosen
    BY DEF Chosen
  <2> QED
    BY <2>1, <2>2 DEF StreamInit, ChosenInv
<1>3. AskedInv'
  BY DEF StreamInit, AskedInv, TypeOK
<1>4. FilledInv'
  BY DEF StreamInit, FilledInv, TypeOK
<1>5. NoNullCall'
  BY DEF StreamInit, NoNullCall, TypeOK
<1> QED
  BY <1>1, <1>2, <1>3, <1>4, <1>5

\* The store of one pointer: a codec somebody asked for, and no other pointer.
LEMMA StoreKeeps ==
  ASSUME IndInv, NEW t \in Threads, NEW o \in Ops, pc[t] \in {"choose", "half"},
         codec' = [codec EXCEPT ![o] = Choice(flags[t])],
         UNCHANGED <<build, machine, op, flags, used, asked>>
  PROVE  /\ ChosenInv'
         /\ codec'[o] # NULL
         /\ \A x \in Ops : codec[x] # NULL => codec'[x] # NULL
<1>1. flags[t] \in asked /\ codec \in [Ops -> Chosen] /\ used \in [Threads -> Chosen]
  BY DEF IndInv, AskedInv, ChosenInv
<1>2. Choice(flags[t]) \in Chosen /\ Choice(flags[t]) # NULL
  BY <1>1, ChoiceIsCodec DEF Chosen
<1>3. Chosen \subseteq Chosen'
  BY ChosenGrows
<1> QED
  BY <1>1, <1>2, <1>3 DEF ChosenInv

LEMMA StoreOneInv ==
  ASSUME IndInv, NEW t \in Threads, NEW o \in Ops, StoreOne(t, o)
  PROVE  IndInv'
<1>1. /\ ChosenInv' /\ codec'[o] # NULL
      /\ \A x \in Ops : codec[x] # NULL => codec'[x] # NULL
  BY StoreKeeps DEF StoreOne
<1> USE DEF IndInv
<1>2. TypeOK'
  BY DEF StoreOne, TypeOK
<1>3. AskedInv'
  BY DEF StoreOne, AskedInv, TypeOK
<1>4. FilledInv'
  BY <1>1 DEF StoreOne, FilledInv, TypeOK
<1>5. NoNullCall'
  BY <1>1 DEF StoreOne, NoNullCall, TypeOK
<1> QED
  BY <1>1, <1>2, <1>3, <1>4, <1>5

LEMMA StoreOtherInv ==
  ASSUME IndInv, NEW t \in Threads, StoreOther(t)
  PROVE  IndInv'
<1> DEFINE o == CHOOSE x \in Ops : x # todo[t]
<1>1. /\ pc[t] = "half" /\ codec' = [codec EXCEPT ![o] = Choice(flags[t])]
      /\ UNCHANGED <<build, machine, op, flags, used, asked>>
  BY DEF StoreOther
<1>2. todo[t] \in Ops /\ codec[todo[t]] # NULL
  BY <1>1 DEF IndInv, FilledInv
<1>3. o \in Ops /\ o # todo[t] /\ Ops = {o, todo[t]}
  <2>1. \E x \in Ops : x # todo[t]
    BY DEF Ops
  <2>2. o \in Ops /\ o # todo[t]
    BY <2>1
  <2> HIDE DEF o
  <2> QED
    BY <1>2, <2>2 DEF Ops
<1> HIDE DEF o
<1>4. /\ ChosenInv' /\ codec'[o] # NULL
      /\ \A x \in Ops : codec[x] # NULL => codec'[x] # NULL
  BY <1>1, <1>3, StoreKeeps
<1>5. \A x \in Ops : codec'[x] # NULL
  BY <1>2, <1>3, <1>4
<1> USE DEF IndInv
<1>6. TypeOK'
  BY DEF StoreOther, TypeOK
<1>7. AskedInv'
  BY DEF StoreOther, AskedInv, TypeOK
<1>8. FilledInv'
  BY <1>5 DEF StoreOther, FilledInv, TypeOK
<1>9. NoNullCall'
  BY <1>5, <1>6 DEF NoNullCall, TypeOK
<1> QED
  BY <1>4, <1>6, <1>7, <1>8, <1>9

LEMMA RunInv == ASSUME IndInv, NEW t \in Threads, Run(t) PROVE IndInv'
<1> USE DEF IndInv
<1>1. ChosenInv'
  <2>1. Chosen \subseteq Chosen'
    BY ChosenGrows DEF Run
  <2> QED
    BY <2>1 DEF Run, ChosenInv, TypeOK
<1>2. (TypeOK /\ AskedInv /\ FilledInv /\ NoNullCall)'
  BY DEF Run, TypeOK, AskedInv, FilledInv, NoNullCall
<1> QED
  BY <1>1, <1>2

LEMMA StepInv == IndInv /\ [Next]_vars => IndInv'
<1> SUFFICES ASSUME IndInv, [Next]_vars PROVE IndInv'
  OBVIOUS
<1>1. CASE UNCHANGED vars
  <2>1. Chosen' = Chosen
    <3>1. \A f : Choice(f)' = Choice(f)
      BY <1>1 DEF vars, Choice, Detected, DetectedX86, Detects, OsSavesAvx, AvxStates, Avx512States
    <3> QED
      BY <1>1, <3>1 DEF vars, Chosen
  <2> QED
    BY <1>1, <2>1 DEF vars, IndInv, TypeOK, ChosenInv, AskedInv, FilledInv, NoNullCall
<1>2. CASE Next
  BY <1>2, StreamInitInv, StoreOneInv, StoreOtherInv, RunInv DEF Next
<1> QED
  BY <1>1, <1>2

\* Every reachable state satisfies the inductive invariant: racing inits can only
\* have stored a codec that one of the flags asked for leads to.
THEOREM Inductive == Spec => []IndInv
<1>1. Init => IndInv
  BY InitInv
<1>2. IndInv /\ [Next]_vars => IndInv'
  BY StepInv
<1> QED
  BY <1>1, <1>2, PTL DEF Spec

-----------------------------------------------------------------------------
\* However the unlocked tests and stores of base64_stream_encode_init and
\* _decode_init interleave, a stream that was initialised is never fed through a
\* NULL pointer.
THEOREM NeverNull == Spec => []NoNullCall
<1>1. IndInv => NoNullCall
  BY DEF IndInv
<1> QED
  BY <1>1, Inductive, PTL

\* As long as all inits pass the same flags, every call goes to the codec they name.
THEOREM AgreedFlags == Spec => []AgreedFlagsRun
<1>1. IndInv => AgreedFlagsRun
  BY DEF IndInv, ChosenInv, Chosen, AgreedFlagsRun
<1> QED
  BY <1>1, Inductive, PTL

\* As long as nobody passes a flag, racing inits agree on the best codec that was
\* compiled in and that the CPU and the OS can run: no illegal instruction, and no
\* feature left unused (codec_choose_x86).
THEOREM UnforcedRuns == Spec => []UnforcedCallsRun
<1>1. IndInv => UnforcedCallsRun
  <2> SUFFICES ASSUME IndInv, asked \subseteq {{}}, NEW t \in Threads, used[t] # NULL
               PROVE  BestExecutable(used[t])
    BY DEF UnforcedCallsRun, BestExecutable
  <2>1. PICK f \in asked : used[t] = Choice(f)
    BY DEF IndInv, ChosenInv, Chosen
  <2>2. ForcedBy(f) = {}
    BY <2>1 DEF ForcedBy
  <2>3. used[t] = Detected
    BY <2>1, <2>2 DEF Choice
  <2> QED
    BY <2>3, DetectedIsBest DEF IndInv, TypeOK
<1> QED
  BY <1>1, Inductive, PTL
=============================================================================
