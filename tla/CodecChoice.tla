----------------------------- MODULE CodecChoice ----------------------------
(***************************************************************************)
(* Which codec runs: the process-wide pair of function pointers of         *)
(* lib/lib.c, codec_choose (lib/codec_choose.c) that fills it, and threads *)
(* that initialise streams and feed them without any lock.                 *)
(*                                                                         *)
(* The pointers are two plain words.  A store or a load of one is atomic   *)
(* on the machines the library is built for, but nothing orders the two    *)
(* stores, so a thread's choice lands one pointer at a time, in any order. *)
(***************************************************************************)
EXTENDS Naturals, Sequences

CONSTANTS
  Threads,
  Builds,       \* the codecs compiled in, as sets: each a possible build
  Machines,     \* what cpuid and xgetbv may report
  Flags         \* the `flags` arguments callers pass, as sets of names

NULL  == "NULL"
Plain == "plain"
Neon  == {"neon64", "neon32"}
X86   == {"avx512", "avx2", "avx", "sse42", "sse41", "ssse3"}

\* level: the highest cpuid leaf; bits: the feature bits of leaves 1 and 7;
\* xcr: the register states the OS saves.
Machine == [level : {0, 1, 7}, bits : SUBSET {"osxsave", "avx512vl", "avx512vbmi",
            "avx2", "avx", "sse42", "sse41", "ssse3"},
            xcr : SUBSET {"xmm", "ymm", "zmm"}]

\* A library is built for one architecture.
ASSUME ChoiceAssumption ==
  /\ \A b \in Builds : b \subseteq X86 \/ b \subseteq Neon
  /\ Machines \subseteq Machine

VARIABLES
  build, machine,     \* fixed for the life of the process
  codec,              \* the static struct codec: enc, dec
  pc,                 \* per thread: "idle", "choose", "half", "ready"
  op,                 \* per thread: which of the two pointers it will call
  flags,              \* per thread: the flags of its last init
  todo,               \* per thread: the codec it chose and is storing
  used,               \* per thread: the codec its last call went to
  asked               \* the flags of all inits so far

vars == <<build, machine, codec, pc, op, flags, todo, used, asked>>

Ops == {"enc", "dec"}
-----------------------------------------------------------------------------
\* The order in which codec_choose_forced tests the bits.
ForceOrder == <<"avx2", "neon32", "neon64", "plain", "ssse3", "sse41", "sse42",
                "avx", "avx512">>

ForcedBy(f) == {i \in 1..Len(ForceOrder) : ForceOrder[i] \in f}

Least(S) == CHOOSE i \in S : \A j \in S : i <= j

AvxStates    == {"xmm", "ymm"} \subseteq machine.xcr
Avx512States == {"xmm", "ymm", "zmm"} \subseteq machine.xcr

\* The cascade of codec_choose_x86, best first: what each codec's branch asks
\* for besides being compiled in.
ChoiceOrder == <<"avx512", "avx2", "avx", "sse42", "sse41", "ssse3">>

OsSavesAvxUnasked ==     \* mutant: XGETBV is not consulted
  machine.level >= 1 /\ "osxsave" \in machine.bits

OsSavesAvx ==
  machine.level >= 1 /\ "osxsave" \in machine.bits /\ AvxStates

Detects(c) ==
  /\ c \in build
  /\ CASE c = "avx512" -> /\ OsSavesAvx /\ machine.level >= 7 /\ Avx512States
                          /\ {"avx512vl", "avx512vbmi"} \subseteq machine.bits
       [] c = "avx2"   -> OsSavesAvx /\ machine.level >= 7 /\ "avx2" \in machine.bits
       [] c = "avx"    -> OsSavesAvx /\ "avx" \in machine.bits
       [] OTHER        -> machine.level >= 1 /\ c \in machine.bits

DetectedX86 ==
  LET S == {i \in 1..Len(ChoiceOrder) : Detects(ChoiceOrder[i])}
  IN IF S = {} THEN Plain ELSE ChoiceOrder[Least(S)]

\* On ARM the build decides.
Detected ==
  IF "neon64" \in build THEN "neon64"
  ELSE IF "neon32" \in build THEN "neon32"
  ELSE DetectedX86

\* codec_choose.  A flag that names no codec falls through to detection.
Choice(f) ==
  IF ForcedBy(f) # {} THEN ForceOrder[Least(ForcedBy(f))] ELSE Detected

-----------------------------------------------------------------------------
Init ==
  /\ build \in Builds /\ machine \in Machines
  /\ codec = [enc |-> NULL, dec |-> NULL]
  /\ pc = [t \in Threads |-> "idle"]
  /\ op = [t \in Threads |-> "enc"]
  /\ flags = [t \in Threads |-> {}]
  /\ todo = [t \in Threads |-> NULL]
  /\ used = [t \in Threads |-> NULL]
  /\ asked = {}

\* Mutant: the decoder's init tests the encoder's pointer.
StreamInitTestsEnc(t, o, f) ==
  /\ pc[t] \in {"idle", "ready"}
  /\ op' = [op EXCEPT ![t] = o]
  /\ flags' = [flags EXCEPT ![t] = f]
  /\ pc' = [pc EXCEPT ![t] = IF codec["enc"] = NULL \/ f # {} THEN "choose" ELSE "ready"]
  /\ asked' = asked \cup {f}
  /\ used' = [used EXCEPT ![t] = NULL]
  /\ UNCHANGED <<build, machine, codec, todo>>

\* base64_stream_encode_init or _decode_init: each tests its own pointer.
StreamInit(t, o, f) ==
  /\ pc[t] \in {"idle", "ready"}
  /\ op' = [op EXCEPT ![t] = o]
  /\ flags' = [flags EXCEPT ![t] = f]
  /\ pc' = [pc EXCEPT ![t] = IF codec[o] = NULL \/ f # {} THEN "choose" ELSE "ready"]
  /\ asked' = asked \cup {f}
  /\ used' = [used EXCEPT ![t] = NULL]
  /\ UNCHANGED <<build, machine, codec, todo>>

\* Mutant: the two stores are not of one choice.
StoreOneDetected(t, o) ==
  /\ pc[t] = "choose"
  /\ codec' = [codec EXCEPT ![o] = Detected]
  /\ todo' = [todo EXCEPT ![t] = o]
  /\ pc' = [pc EXCEPT ![t] = "half"]
  /\ UNCHANGED <<build, machine, op, flags, used, asked>>

\* codec_choose stores one of the two pointers, and then the other.
StoreOne(t, o) ==
  /\ pc[t] = "choose"
  /\ codec' = [codec EXCEPT ![o] = Choice(flags[t])]
  /\ todo' = [todo EXCEPT ![t] = o]
  /\ pc' = [pc EXCEPT ![t] = "half"]
  /\ UNCHANGED <<build, machine, op, flags, used, asked>>

StoreOther(t) ==
  /\ pc[t] = "half"
  /\ LET o == CHOOSE x \in Ops : x # todo[t]
     IN codec' = [codec EXCEPT ![o] = Choice(flags[t])]
  /\ todo' = [todo EXCEPT ![t] = NULL]
  /\ pc' = [pc EXCEPT ![t] = "ready"]
  /\ UNCHANGED <<build, machine, op, flags, used, asked>>

\* base64_stream_encode or _decode: a call through the pointer of the moment.
Run(t) ==
  /\ pc[t] = "ready"
  /\ used' = [used EXCEPT ![t] = codec[op[t]]]
  /\ UNCHANGED <<build, machine, codec, pc, op, flags, todo, asked>>

Next == \E t \in Threads :
  \/ \E o \in Ops, f \in Flags : StreamInit(t, o, f)
  \/ \E o \in Ops : StoreOne(t, o)
  \/ StoreOther(t)
  \/ Run(t)

Spec == Init /\ [][Next]_vars
-----------------------------------------------------------------------------
\* What executes without an illegal instruction: for the AVX codecs the CPU must
\* have the instructions and the OS must save the registers they use.
Executable(c) ==
  \/ c = Plain
  \/ c \in build \cap Neon
  \/ /\ c \in build /\ machine.level >= 1
     /\ c \in machine.bits \/ (c = "avx512" /\
          {"avx512vl", "avx512vbmi"} \subseteq machine.bits)
     /\ c \in {"avx", "avx2", "avx512"} => "osxsave" \in machine.bits /\ AvxStates
     /\ c = "avx512" => Avx512States
     /\ c \in {"avx2", "avx512"} => machine.level >= 7

\* No thread calls through a NULL pointer, whatever the race between its init
\* and the inits of the others, who may test and fill the other pointer.
NoNullCall == \A t \in Threads : pc[t] = "ready" => codec[op[t]] # NULL

\* As long as nobody passed a flag, racing initialisations agree: every call
\* goes to a codec that the CPU and the OS can run, and no better one that they
\* could run was compiled in.
UnforcedCallsRun ==
  asked \subseteq {{}} =>
    \A t \in Threads : used[t] # NULL =>
      /\ Executable(used[t])
      /\ \A i \in 1..Len(ChoiceOrder) :
           Executable(ChoiceOrder[i]) =>
             \E j \in 1..i : used[t] = ChoiceOrder[j]

\* As long as everybody passes the same flags, every call goes to the codec that
\* they ask for: the first of those named, or the detected one if none is.
AgreedFlagsRun ==
  \A f \in asked : asked = {f} =>
    \A t \in Threads : used[t] \in {NULL, Choice(f)}

\* "Set `flags` to `0` for the default behavior, which is runtime feature
\* detection on x86, a compile-time fixed codec on ARM, and the plain codec on
\* other platforms" (README.md).  Refuted: once any init in the process was
\* given a flag, the codec it named serves the streams that asked for none.
DefaultIsDetected ==
  \A t \in Threads : flags[t] = {} => used[t] \in {NULL, Detected}

-----------------------------------------------------------------------------
(* The inductive invariant behind these properties: what a pointer holds was *)
(* chosen for flags that somebody passed, a thread that stored one pointer   *)
(* finds it filled when it stores the other, and a filled pointer stays so.  *)

TypeOK ==
  /\ build \in Builds /\ machine \in Machines
  /\ pc \in [Threads -> {"idle", "choose", "half", "ready"}]
  /\ op \in [Threads -> Ops] /\ todo \in [Threads -> Ops \cup {NULL}]
  /\ flags \in [Threads -> Flags \cup {{}}] /\ asked \subseteq Flags

Chosen == {NULL} \cup {Choice(f) : f \in asked}

ChosenInv == codec \in [Ops -> Chosen] /\ used \in [Threads -> Chosen]

AskedInv == \A t \in Threads : pc[t] \in {"choose", "half"} => flags[t] \in asked

FilledInv ==
  \A t \in Threads :
    pc[t] = "half" => todo[t] \in Ops /\ codec[todo[t]] # NULL

IndInv == TypeOK /\ ChosenInv /\ AskedInv /\ FilledInv /\ NoNullCall
=============================================================================
