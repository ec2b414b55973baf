------------------------------- MODULE Encoder ------------------------------
(***************************************************************************)
(* The streaming encoder: base64_stream_encode_init, _encode and           *)
(* _encode_final (lib/lib.c), the Duff's device that every codec includes  *)
(* (lib/arch/generic/enc_head.c, enc_tail.c) and the bulk loops that run   *)
(* at each arrival at its case 0 (the enc_loop.c files of lib/arch).       *)
(*                                                                         *)
(* The message is fixed and a call gets the next chunk of it, base..end,   *)
(* so the input pointer `s` is a position in the message and a load        *)
(* outside base..end is a read outside the caller's buffer.  One step is   *)
(* one pass through a case of the switch or one round of a bulk loop.      *)
(***************************************************************************)
EXTENDS Base64

CONSTANTS
  Messages,     \* the byte sequences the caller may encode
  ChunkSizes,   \* the sizes of the chunks it may pass
  Codecs        \* the codecs: each the sequence of bulk loops it runs at case 0

(* A bulk loop.  guard: it does nothing on less input; reserve: the input   *)
(* it leaves behind at least; block: the input consumed per round; width:   *)
(* the bytes loaded per round; lag: how far the load pointer trails the     *)
(* consumed input after the first round (AVX2 loads at s - 4); whileLoop:    *)
(* it tests its count before the first round, not after it.                 *)
Kernel == [guard : Nat, reserve : Nat, block : Nat, width : Nat, lag : Nat,
           whileLoop : BOOLEAN]

KernelOK(kn) ==
  /\ kn.block > 0 /\ kn.block % 3 = 0
  /\ kn.guard >= kn.reserve
  /\ ~ kn.whileLoop => kn.guard >= kn.reserve + kn.block
  /\ kn.guard >= kn.width
  /\ kn.width <= kn.reserve + kn.block + kn.lag
  /\ kn.lag <= kn.block

ASSUME EncoderAssumption ==
  /\ Messages \subseteq Seq(Byte)
  /\ ChunkSizes \subseteq Nat
  /\ Codecs \subseteq Seq(Kernel)
  /\ \A c \in Codecs : \A j \in 1..Len(c) : KernelOK(c[j])

VARIABLES
  codec,      \* the codec in use, chosen before the stream starts
  msg,        \* the message being encoded
  out,        \* all characters written so far
  state,      \* the caller's struct base64_state: bytes, carry
  base, end,  \* the chunk of the current call, else of the last one
  obase,      \* how many characters the caller held when that call began
  outlen,     \* *outlen of the last returned call
  pc,         \* "caller", "closed", or the place the call is at
  st,         \* the call's local copy of the state
  s,          \* the input consumed
  slen,       \* the call's count of remaining input
  olen,       \* the call's count of output
  k,          \* the bulk loop whose turn it is
  rounds,     \* the rounds left in it
  lag         \* how far its load pointer trails s

locals == <<st, s, slen, olen, k, rounds, lag>>
vars == <<codec, msg, out, state, base, end, obase, outlen, pc, locals>>

-----------------------------------------------------------------------------
(* A bulk loop looks up two characters at a time: three bytes make two     *)
(* 12-bit indices into base64_table_enc_12bit.                             *)
Index1TooWide(b2, b3) == (b2 % 32) * 256 + b3    \* mutant: one bit too many
Index0(b1, b2) == b1 * 16 + (b2 \div 16)
Index1(b2, b3) == (b2 % 16) * 256 + b3

BlockChar(d, i) ==
  LET g  == 3 * ((i - 1) \div 4)
      i0 == Index0(d[g + 1], d[g + 2])
      i1 == Index1(d[g + 2], d[g + 3])
  IN CASE (i - 1) % 4 = 0 -> i0 \div 64
       [] (i - 1) % 4 = 1 -> i0 % 64
       [] (i - 1) % 4 = 2 -> i1 \div 64
       [] OTHER           -> i1 % 64

\* The output of one round on the input block d.
BlockOut(d) == [i \in 1 .. 4 * (Len(d) \div 3) |-> BlockChar(d, i)]

-----------------------------------------------------------------------------
InitState == [bytes |-> 0, carry |-> 0]

Init ==
  /\ codec \in Codecs
  /\ msg \in Messages
  /\ out = <<>>
  /\ state = InitState
  /\ base = 0 /\ end = 0 /\ obase = 0 /\ outlen = 0
  /\ pc = "caller"
  /\ st = InitState
  /\ s = 0 /\ slen = 0 /\ olen = 0 /\ k = 1 /\ rounds = 0 /\ lag = 0

\* Mutant: the init keeps what the last stream left in the struct.
StreamInitStale ==
  /\ pc \in {"caller", "closed"}
  /\ pc' = "caller"
  /\ out' = <<>> /\ s' = 0
  /\ base' = 0 /\ end' = 0 /\ obase' = 0 /\ outlen' = 0
  /\ UNCHANGED <<codec, msg, state, st, slen, olen, k, rounds, lag>>

\* base64_stream_encode_init on a state that may have been used before.
StreamInit ==
  /\ pc \in {"caller", "closed"}
  /\ state' = InitState
  /\ pc' = "caller"
  /\ out' = <<>> /\ s' = 0
  /\ base' = 0 /\ end' = 0 /\ obase' = 0 /\ outlen' = 0
  /\ UNCHANGED <<codec, msg, st, slen, olen, k, rounds, lag>>

\* The function pointers are shared by the whole process: between two calls the
\* init of some other stream, given a FORCE flag, chooses the codec anew.
Rechoose ==
  /\ pc \in {"caller", "closed"}
  /\ codec' \in Codecs
  /\ k' = 1
  /\ UNCHANGED <<msg, out, state, base, end, obase, outlen, pc,
                 st, s, slen, olen, rounds, lag>>

\* Where the switch on st.bytes enters the loop.
Entry(bytes) == CASE bytes = 0 -> "kernel"
                  [] bytes = 1 -> "case1"
                  [] bytes = 2 -> "case2"
                  [] OTHER     -> "break"

\* base64_stream_encode is called with the next n bytes.
Call(n) ==
  /\ pc = "caller"
  /\ end + n <= Len(msg)
  /\ base' = end /\ end' = end + n
  /\ obase' = Len(out)
  /\ st' = state
  /\ slen' = n /\ olen' = 0
  /\ pc' = Entry(state.bytes)
  /\ k' = 1 /\ rounds' = 0 /\ lag' = 0
  /\ UNCHANGED <<codec, msg, out, state, outlen, s>>

Here == codec[k]       \* the bulk loop whose turn it is

\* The input is shorter than its guard: the bulk loop returns at once.
KernelSkip ==
  /\ pc = "kernel" /\ k <= Len(codec)
  /\ slen < Here.guard
  /\ k' = k + 1
  /\ UNCHANGED <<codec, msg, out, state, base, end, obase, outlen, pc,
                 st, s, slen, olen, rounds, lag>>

\* Mutants of KernelEnter: a round for every whole block, the reserve forgotten;
\* and the output booked in bytes of input.
Book(reserve, written) ==
  /\ pc = "kernel" /\ k <= Len(codec)
  /\ slen >= Here.guard
  /\ LET r == (slen - reserve) \div Here.block
     IN /\ rounds' = r
        /\ slen' = slen - r * Here.block
        /\ olen' = olen + r * written
        /\ IF r = 0 /\ Here.whileLoop THEN k' = k + 1 /\ UNCHANGED pc
                                      ELSE pc' = "bulk" /\ UNCHANGED k
  /\ lag' = 0
  /\ UNCHANGED <<codec, msg, out, state, base, end, obase, outlen, st, s>>
KernelEnterNoReserve == Book(0, 4 * (Here.block \div 3))
KernelEnterMiscounts == Book(Here.reserve, Here.block)

\* The bulk loop books its rounds before it runs them.
KernelEnter ==
  /\ pc = "kernel" /\ k <= Len(codec)
  /\ slen >= Here.guard
  /\ LET r == (slen - Here.reserve) \div Here.block
     IN /\ rounds' = r
        /\ slen' = slen - r * Here.block
        /\ olen' = olen + r * (4 * (Here.block \div 3))
        /\ IF r = 0 /\ Here.whileLoop THEN k' = k + 1 /\ UNCHANGED pc
                                      ELSE pc' = "bulk" /\ UNCHANGED k
  /\ lag' = 0
  /\ UNCHANGED <<codec, msg, out, state, base, end, obase, outlen, st, s>>

\* Mutant: the load pointer never moves back (AVX2's `*s -= 4`).
KernelRoundNoLag ==
  /\ pc = "bulk"
  /\ out' = out \o BlockOut(SubSeq(msg, s + 1, s + Here.block))
  /\ s' = s + Here.block
  /\ lag' = 0
  /\ rounds' = rounds - 1
  /\ IF rounds > 1 THEN UNCHANGED <<pc, k>>
     ELSE pc' = "kernel" /\ k' = k + 1
  /\ UNCHANGED <<codec, msg, state, base, end, obase, outlen, st, slen, olen>>

\* One round, and out of the loop when none is left.
KernelRound ==
  /\ pc = "bulk"
  /\ out' = out \o BlockOut(SubSeq(msg, s + 1, s + Here.block))
  /\ s' = s + Here.block
  /\ lag' = Here.lag
  /\ rounds' = rounds - 1
  /\ IF rounds > 1 THEN UNCHANGED <<pc, k>>
     ELSE pc' = "kernel" /\ k' = k + 1
  /\ UNCHANGED <<codec, msg, state, base, end, obase, outlen, st, slen, olen>>

\* One byte in, n characters out, and on to the next case.
Consume(chars, st1, next) ==
  /\ slen > 0
  /\ out' = out \o chars
  /\ olen' = olen + Len(chars)
  /\ st' = st1
  /\ s' = s + 1
  /\ slen' = slen - 1
  /\ pc' = next /\ k' = 1
  /\ UNCHANGED <<codec, msg, state, base, end, obase, outlen, rounds, lag>>

Case1CarryUnmasked(b) == b * 4        \* mutant: the & is forgotten
Case0CarryHigh(b) == (b * 8) % 64     \* mutant: one shift too few

Case0Carry(b) == (b * 16) % 64        \* (b << 4) & 0x30
Case1Carry(b) == (b * 4) % 64         \* (b << 2) & 0x3C

AtCase0 == pc = "kernel" /\ k > Len(codec)

\* The first of three bytes.
Case0 ==
  /\ AtCase0
  /\ LET b == msg[s + 1]
     IN Consume(<<b \div 4>>,
                [bytes |-> st.bytes + 1, carry |-> Case0Carry(b)], "case1")

\* The second.  The carry and the new bits do not overlap, so | is +.
Case1 ==
  /\ pc = "case1"
  /\ LET b == msg[s + 1]
     IN Consume(<<st.carry + (b \div 16)>>,
                [bytes |-> st.bytes + 1, carry |-> Case1Carry(b)], "case2")

\* Mutant: the third case comes round to itself.
Case2Again ==
  /\ pc = "case2"
  /\ LET b == msg[s + 1]
     IN Consume(<<st.carry + (b \div 64), b % 64>>,
                [bytes |-> 0, carry |-> st.carry], "case2")

\* The third: the group is complete and the loop comes back to case 0.
Case2 ==
  /\ pc = "case2"
  /\ LET b == msg[s + 1]
     IN Consume(<<st.carry + (b \div 64), b % 64>>,
                [bytes |-> 0, carry |-> st.carry], "kernel")

\* No input left: write the state back and return.
Return ==
  /\ \/ (AtCase0 \/ pc \in {"case1", "case2"}) /\ slen = 0
     \/ pc = "break"
  /\ state' = st
  /\ outlen' = olen
  /\ pc' = "caller"
  /\ UNCHANGED <<codec, msg, out, base, end, obase, locals>>

TrailerShort ==           \* mutant: one '=' where there should be two
  IF state.bytes \in {1, 2} THEN <<state.carry, Pad>> ELSE <<>>

Trailer ==
  CASE state.bytes = 1 -> <<state.carry, Pad, Pad>>
    [] state.bytes = 2 -> <<state.carry, Pad>>
    [] OTHER           -> <<>>

\* base64_stream_encode_final, once the caller has fed its whole message.
Final ==
  /\ pc = "caller"
  /\ end = Len(msg)
  /\ out' = out \o Trailer
  /\ outlen' = Len(Trailer)
  /\ obase' = Len(out)
  /\ pc' = "closed"
  /\ UNCHANGED <<codec, msg, state, base, end, locals>>

Next ==
  \/ StreamInit \/ Rechoose
  \/ \E n \in ChunkSizes : Call(n)
  \/ KernelSkip \/ KernelEnter \/ KernelRound
  \/ Case0 \/ Case1 \/ Case2
  \/ Return
  \/ Final

Spec == Init /\ [][Next]_vars
-----------------------------------------------------------------------------
InCall == pc \notin {"caller", "closed"}

TypeOK ==
  /\ codec \in Codecs
  /\ msg \in Messages
  /\ out \in Seq(Sextet \cup {Pad})
  /\ state \in [bytes : 0..2, carry : Sextet]
  /\ st \in [bytes : 0..2, carry : Sextet]
  /\ base \in Nat /\ end \in Nat /\ obase \in Nat /\ outlen \in Nat
  /\ s \in Nat /\ slen \in Nat /\ olen \in Nat /\ rounds \in Nat /\ lag \in Nat
  /\ k \in 1 .. Len(codec) + 1
  /\ pc \in {"caller", "closed", "kernel", "bulk", "case1", "case2", "break"}

\* Whatever the chunking and the bulk loops, the output is the encoding of the
\* input consumed so far: not one character early, late, lost or repeated.
OutputIsEncoding ==
  pc # "closed" =>
    /\ Len(out) = EncPrefixLen(s)
    /\ \A i \in 1..Len(out) : out[i] = EncChar(msg, i)

\* After base64_stream_encode_final the caller holds the complete encoding.
FinalIsEncode == pc = "closed" => out = Encode(msg)

\* A bulk loop never loads a byte outside the caller's chunk, at either end
\* (the comments in the enc_loop.c files promise this of the last round).
LoadsInChunk ==
  pc = "bulk" => s - lag >= base /\ s - lag + Here.width <= end

\* The counts the code keeps apart from its pointers agree with them whenever a
\* case of the switch runs, and *outlen tells what the last call wrote.
CountsAgree ==
  /\ (AtCase0 \/ pc \in {"case1", "case2"}) =>
        slen = end - s /\ olen = Len(out) - obase
  /\ pc \in {"caller", "closed"} => outlen = Len(out) - obase

\* A call writes at most the 4/3 of its chunk that the header asks the caller
\* to provide, rounded up.
CallFitsBuffer ==
  InCall => 3 * (Len(out) - obase) <= 4 * (end - base) + 2

\* The encoder implements the abstract stream.
Stream == INSTANCE EncodeStream WITH
  fed    <- IF InCall THEN base ELSE end,
  held   <- IF InCall THEN SubSeq(out, 1, obase) ELSE out,
  closed <- pc = "closed"

StreamSpec == Stream!Spec

-----------------------------------------------------------------------------
(* The inductive invariant behind these properties.  OutputIsEncoding alone *)
(* is not inductive: what the next case writes depends on the carry, and    *)
(* the carry on the position in the group.                                  *)

\* The struct x holds the leftover of the group that n bytes end in.
Carried(x, n) ==
  /\ x.bytes = n % 3
  /\ x.bytes = 1 => x.carry = (msg[n] % 4) * 16
  /\ x.bytes = 2 => x.carry = (msg[n] % 16) * 4

PositionInv ==
  /\ base <= s /\ s <= end /\ end <= Len(msg)
  /\ obase <= Len(out)
  /\ ~ InCall => s = end

WrittenInv ==
  /\ OutputIsEncoding
  /\ pc # "closed" => obase = EncPrefixLen(base)

CarryInv == Carried(IF InCall THEN st ELSE state, s)

PlaceInv ==
  /\ pc \in {"kernel", "bulk"} => s % 3 = 0
  /\ pc = "case1" => s % 3 = 1
  /\ pc = "case2" => s % 3 = 2
  /\ pc # "break"

CountInv ==
  /\ pc \in {"kernel", "case1", "case2"} => slen = end - s /\ olen = Len(out) - obase
  /\ ~ InCall => outlen = Len(out) - obase

BulkInv ==
  pc = "bulk" =>
    /\ k <= Len(codec) /\ rounds >= 1
    /\ slen >= Here.reserve
    /\ s + slen + rounds * Here.block = end
    /\ olen = Len(out) - obase + rounds * (4 * (Here.block \div 3))
    /\ lag \in {0, Here.lag}
    /\ lag = 0 => s + Here.width <= end
    /\ lag # 0 => s >= base + Here.block

ClosedInv == pc = "closed" => s = Len(msg) /\ out = Encode(msg)

IndInv ==
  /\ TypeOK /\ PositionInv /\ WrittenInv /\ CarryInv
  /\ PlaceInv /\ CountInv /\ BulkInv /\ ClosedInv
=============================================================================
