------------------------------- MODULE Decoder ------------------------------
(***************************************************************************)
(* The streaming decoder: base64_stream_decode_init and _decode            *)
(* (lib/lib.c), the Duff's device that every codec includes                *)
(* (lib/arch/generic/dec_head.c, dec_tail.c) and the bulk loops that run   *)
(* at each arrival at its case 0 (the dec_loop.c files of lib/arch).       *)
(*                                                                         *)
(* The text is fixed and a call gets the next chunk of it, base..end.  A   *)
(* character is its class in base64_table_dec_8bit.  One step is one pass  *)
(* through a case of the switch or one round of a bulk loop.               *)
(***************************************************************************)
EXTENDS Base64

CONSTANTS
  Texts,        \* the character sequences the caller may decode
  ChunkSizes,   \* per text, the sizes of the chunks it may pass
  Codecs        \* the codecs: each the sequence of bulk loops it runs at case 0

(* A bulk loop.  guard: it does nothing on less input; reserve: the input   *)
(* it leaves behind at least; block: the characters decoded per round;      *)
(* store: the bytes written per round, of which the last ones may be zeros  *)
(* beyond the decoded ones.                                                 *)
Kernel == [guard : Nat, reserve : Nat, block : Nat, store : Nat]

Produced(kn) == 3 * (kn.block \div 4)
Gap(kn) == kn.store - Produced(kn)

KernelOK(kn) ==
  /\ kn.block > 0 /\ kn.block % 4 = 0
  /\ kn.guard >= kn.reserve + kn.block
  /\ Gap(kn) >= 0
  /\ Gap(kn) > 0 => 4 * Gap(kn) <= 3 * (kn.reserve - 2)

ASSUME DecoderAssumption ==
  /\ Texts \subseteq Seq(Char)
  /\ ChunkSizes \in [Texts -> SUBSET Nat]
  /\ Codecs \subseteq Seq(Kernel)
  /\ \A c \in Codecs : \A j \in 1..Len(c) : KernelOK(c[j])

AEOF == 1      \* BASE64_AEOF: the last '=' is still to come
EOF  == 2      \* BASE64_EOF: the end, or an invalid character

VARIABLES
  codec,      \* the codec in use
  text,       \* the characters being decoded
  out,        \* all bytes decoded so far
  high,       \* how far anything was ever written in the output
  state,      \* the caller's struct base64_state: eof, bytes, carry
  base, end,  \* the chunk of the current call, else of the last one
  obase,      \* how many bytes the caller held when that call began
  outlen,     \* *outlen of the last returned call
  ret,        \* its result
  failed,     \* whether any call with input returned 0
  pc,         \* "caller", or the place the call is at
  st,         \* the call's local copy of the state
  s,          \* the input consumed
  slen,       \* the call's count of remaining input
  olen,       \* the call's count of output
  k,          \* the bulk loop whose turn it is
  rounds      \* the rounds left in it

locals == <<st, s, slen, olen, k, rounds>>
vars == <<codec, text, out, high, state, base, end, obase, outlen, ret, failed,
          pc, locals>>

Max2(a, b) == IF a >= b THEN a ELSE b
-----------------------------------------------------------------------------
(* A bulk loop decodes four characters at a time through four tables whose *)
(* entries are the value shifted to its place in a 24-bit word.            *)
\* Mutant: the two values of each pair are packed in the wrong order.
WordSwapped(c, g) == c[g + 2] * 262144 + c[g + 1] * 4096 + c[g + 4] * 64 + c[g + 3]

Word(c, g) == c[g + 1] * 262144 + c[g + 2] * 4096 + c[g + 3] * 64 + c[g + 4]

BlockByte(c, i) ==
  LET w == Word(c, 4 * ((i - 1) \div 3))
  IN CASE (i - 1) % 3 = 0 -> w \div 65536
       [] (i - 1) % 3 = 1 -> (w \div 256) % 256
       [] OTHER           -> w % 256

\* The decoded bytes of one round on the input block c.
BlockOut(c) == [i \in 1 .. 3 * (Len(c) \div 4) |-> BlockByte(c, i)]

-----------------------------------------------------------------------------
InitState == [eof |-> 0, bytes |-> 0, carry |-> 0]

Init ==
  /\ codec \in Codecs
  /\ text \in Texts
  /\ out = <<>> /\ high = 0
  /\ state = InitState
  /\ base = 0 /\ end = 0 /\ obase = 0 /\ outlen = 0
  /\ ret = 1 /\ failed = FALSE
  /\ pc = "caller"
  /\ st = InitState
  /\ s = 0 /\ slen = 0 /\ olen = 0 /\ k = 1 /\ rounds = 0

\* base64_stream_decode_init on a state that may have been used before.
StreamInit ==
  /\ pc = "caller"
  /\ state' = InitState
  /\ out' = <<>> /\ high' = 0 /\ s' = 0
  /\ base' = 0 /\ end' = 0 /\ obase' = 0 /\ outlen' = 0
  /\ ret' = 1 /\ failed' = FALSE
  /\ UNCHANGED <<codec, text, pc, st, slen, olen, k, rounds>>

\* The function pointers are shared by the whole process: between two calls the
\* init of some other stream, given a FORCE flag, chooses the codec anew.
Rechoose ==
  /\ pc = "caller"
  /\ codec' \in Codecs
  /\ k' = 1
  /\ UNCHANGED <<text, out, high, state, base, end, obase, outlen, ret, failed,
                 pc, st, s, slen, olen, rounds>>

\* Where the switch on st.bytes enters the loop.
Entry(bytes) == CASE bytes = 0 -> "kernel"
                  [] bytes = 1 -> "case1"
                  [] bytes = 2 -> "case2"
                  [] OTHER     -> "case3"

\* base64_stream_decode is called with the next n characters.
Call(n) ==
  /\ pc = "caller"
  /\ end + n <= Len(text)
  /\ state.eof = 0
  /\ base' = end /\ end' = end + n
  /\ obase' = Len(out)
  /\ st' = state
  /\ s' = end
  /\ slen' = n /\ olen' = 0
  /\ pc' = Entry(state.bytes)
  /\ k' = 1 /\ rounds' = 0
  /\ UNCHANGED <<codec, text, out, high, state, outlen, ret, failed>>

\* Mutant: after the almost-end, any last character will do.
CallAfterEofUnchecked(n) ==
  /\ pc = "caller"
  /\ end + n <= Len(text)
  /\ state.eof # 0
  /\ base' = end /\ end' = end + n
  /\ obase' = Len(out)
  /\ outlen' = 0
  /\ IF n > 0 /\ state.eof = AEOF
     THEN /\ state' = [state EXCEPT !.bytes = 0, !.eof = EOF]
          /\ ret' = IF n = 1 THEN 1 ELSE 0
          /\ s' = end + 1
     ELSE ret' = 0 /\ UNCHANGED state /\ s' = end
  /\ failed' = (failed \/ (n > 0 /\ ret' = 0))
  /\ UNCHANGED <<codec, text, out, high, pc, st, slen, olen, k, rounds>>

\* The same call after an end of file or an invalid character: nothing is
\* decoded, and only the one '=' that may be missing is good.
CallAfterEof(n) ==
  /\ pc = "caller"
  /\ end + n <= Len(text)
  /\ state.eof # 0
  /\ base' = end /\ end' = end + n
  /\ obase' = Len(out)
  /\ outlen' = 0
  /\ IF n > 0 /\ state.eof = AEOF
     THEN /\ state' = [state EXCEPT !.bytes = 0, !.eof = EOF]
          /\ ret' = IF text[end + 1] = Pad /\ n = 1 THEN 1 ELSE 0
          /\ s' = end + 1
     ELSE ret' = 0 /\ UNCHANGED state /\ s' = end
  /\ failed' = (failed \/ (n > 0 /\ ret' = 0))
  /\ UNCHANGED <<codec, text, out, high, pc, st, slen, olen, k, rounds>>

Here == codec[k]       \* the bulk loop whose turn it is

\* The input is shorter than its guard: the bulk loop returns at once.
KernelSkip ==
  /\ pc = "kernel" /\ k <= Len(codec)
  /\ slen < Here.guard
  /\ k' = k + 1
  /\ UNCHANGED <<codec, text, out, high, state, base, end, obase, outlen, ret,
                 failed, pc, st, s, slen, olen, rounds>>

\* Mutant: a round for every whole block, the reserve forgotten.
KernelEnterNoReserve ==
  /\ pc = "kernel" /\ k <= Len(codec)
  /\ slen >= Here.guard
  /\ LET r == slen \div Here.block
     IN /\ rounds' = r
        /\ slen' = slen - r * Here.block
        /\ olen' = olen + r * Produced(Here)
  /\ pc' = "bulk"
  /\ UNCHANGED <<codec, text, out, high, state, base, end, obase, outlen, ret,
                 failed, st, s, k>>

\* The bulk loop books its rounds before it runs them.
KernelEnter ==
  /\ pc = "kernel" /\ k <= Len(codec)
  /\ slen >= Here.guard
  /\ LET r == (slen - Here.reserve) \div Here.block
     IN /\ rounds' = r
        /\ slen' = slen - r * Here.block
        /\ olen' = olen + r * Produced(Here)
  /\ pc' = "bulk"
  /\ UNCHANGED <<codec, text, out, high, state, base, end, obase, outlen, ret,
                 failed, st, s, k>>

\* Mutant: '=' passes for a value.
ValidOrPadBlock == \A i \in s + 1 .. s + Here.block : text[i] # Bad

ValidBlock == \A i \in s + 1 .. s + Here.block : text[i] \in Sextet

\* One round, and out of the loop when none is left.
KernelRound ==
  /\ pc = "bulk"
  /\ ValidBlock
  /\ out' = out \o BlockOut(SubSeq(text, s + 1, s + Here.block))
  /\ high' = Max2(high, Len(out) + Here.store)
  /\ s' = s + Here.block
  /\ rounds' = rounds - 1
  /\ IF rounds > 1 THEN UNCHANGED <<pc, k>>
     ELSE pc' = "kernel" /\ k' = k + 1
  /\ UNCHANGED <<codec, text, state, base, end, obase, outlen, ret, failed,
                 st, slen, olen>>

\* Mutant: only the input is given back.
KernelBailOutOutputLost ==
  /\ pc = "bulk"
  /\ ~ ValidBlock
  /\ slen' = slen + rounds * Here.block
  /\ pc' = "kernel" /\ k' = k + 1
  /\ UNCHANGED <<codec, text, out, high, state, base, end, obase, olen, outlen, ret,
                 failed, st, s, rounds>>

\* A round that meets any other character decodes nothing: the rounds that were
\* booked are given back, for the bytewise code to find the fault.
KernelBailOut ==
  /\ pc = "bulk"
  /\ ~ ValidBlock
  /\ slen' = slen + rounds * Here.block
  /\ olen' = olen - rounds * Produced(Here)
  /\ pc' = "kernel" /\ k' = k + 1
  /\ UNCHANGED <<codec, text, out, high, state, base, end, obase, outlen, ret,
                 failed, st, s, rounds>>

-----------------------------------------------------------------------------
(* The cases of the switch.                                                *)

AtCase0 == pc = "kernel" /\ k > Len(codec)

AtCase(bytes) == CASE bytes = 0 -> AtCase0
                   [] bytes = 1 -> pc = "case1"
                   [] bytes = 2 -> pc = "case2"
                   [] OTHER     -> pc = "case3"

q == text[s + 1]       \* the next character

\* The bitwise or of two bytes.  The carry and the new bits do not overlap, but
\* for the one that an invalid third character leaves behind.
Or(x, y) ==
  LET Bit(w) == IF (x \div w) % 2 = 1 \/ (y \div w) % 2 = 1 THEN w ELSE 0
  IN Bit(128) + Bit(64) + Bit(32) + Bit(16) + Bit(8) + Bit(4) + Bit(2) + Bit(1)

\* A value of six bits in, the bytes in o out, and on to the next case.
Consume(o, st1, next) ==
  /\ slen > 0 /\ q \in Sextet
  /\ out' = out \o o
  /\ high' = Max2(high, Len(out'))
  /\ olen' = olen + Len(o)
  /\ st' = st1
  /\ s' = s + 1
  /\ slen' = slen - 1
  /\ pc' = next /\ k' = 1
  /\ UNCHANGED <<codec, text, state, base, end, obase, outlen, ret, failed,
                 rounds>>

Case0 ==
  /\ AtCase0
  /\ Consume(<<>>, [st EXCEPT !.carry = q * 4, !.bytes = @ + 1], "case1")

\* Mutant: the carry is wider than the byte that truncates it.
Case1Wide ==
  /\ pc = "case1"
  /\ Consume(<<Or(st.carry, q \div 16)>>,
             [st EXCEPT !.carry = q * 16, !.bytes = @ + 1], "case2")

Case1 ==
  /\ pc = "case1"
  /\ Consume(<<Or(st.carry, q \div 16)>>,
             [st EXCEPT !.carry = (q * 16) % 256, !.bytes = @ + 1], "case2")

Case2 ==
  /\ pc = "case2"
  /\ Consume(<<Or(st.carry, q \div 4)>>,
             [st EXCEPT !.carry = (q * 64) % 256, !.bytes = @ + 1], "case3")

\* The fourth: the group is complete and the loop comes back to case 0.
Case3 ==
  /\ pc = "case3"
  /\ Consume(<<Or(st.carry, q)>>, [st EXCEPT !.carry = 0, !.bytes = 0], "kernel")

\* Out of the switch: write the state back and return r, having read n
\* characters past s.
Leave(st1, r, n) ==
  /\ state' = st1 /\ st' = st1
  /\ ret' = r
  /\ failed' = (failed \/ (end > base /\ r = 0))
  /\ outlen' = olen
  /\ s' = s + n
  /\ slen' = slen - n
  /\ pc' = "caller"
  /\ UNCHANGED <<codec, text, out, high, base, end, obase, olen, k, rounds>>

\* No input left.
Drained ==
  /\ \E b \in 0..3 : AtCase(b)
  /\ slen = 0
  /\ Leave(st, 1, 0)

\* Neither '=' nor an invalid character may be the first or second of a group.
NotInGroup ==
  /\ AtCase0 \/ pc = "case1"
  /\ slen > 0 /\ q \notin Sextet
  /\ Leave([st EXCEPT !.eof = EOF], 0, 1)

\* Mutant: the group stays open.
PadThenMoreOpen ==
  /\ pc = "case2"
  /\ slen > 1 /\ q = Pad
  /\ Leave([st EXCEPT !.eof = EOF],
           IF text[s + 2] = Pad /\ slen = 2 THEN 1 ELSE 0, 2)

\* The third character is '=' and the fourth is in this chunk too.
PadThenMore ==
  /\ pc = "case2"
  /\ slen > 1 /\ q = Pad
  /\ Leave([st EXCEPT !.bytes = 0, !.eof = EOF],
           IF text[s + 2] = Pad /\ slen = 2 THEN 1 ELSE 0, 2)

\* The third character is '=' and ends the chunk.
PadAtChunkEnd ==
  /\ pc = "case2"
  /\ slen = 1 /\ q = Pad
  /\ Leave([st EXCEPT !.bytes = @ + 1, !.eof = AEOF], 1, 1)

\* The third character is invalid.
BadThird ==
  /\ pc = "case2"
  /\ slen > 0 /\ q = Bad
  /\ Leave([st EXCEPT !.bytes = @ + 1], 0, 1)

\* Mutant: anything may follow the '='.
EndAtFourthLoose ==
  /\ pc = "case3"
  /\ slen > 0 /\ q \notin Sextet
  /\ Leave([st EXCEPT !.bytes = 0, !.eof = EOF], IF q = Pad THEN 1 ELSE 0, 1)

\* The fourth character is '=' or invalid.
EndAtFourth ==
  /\ pc = "case3"
  /\ slen > 0 /\ q \notin Sextet
  /\ Leave([st EXCEPT !.bytes = 0, !.eof = EOF],
           IF q = Pad /\ slen = 1 THEN 1 ELSE 0, 1)

Next ==
  \/ StreamInit \/ Rechoose
  \/ \E n \in ChunkSizes[text] : Call(n) \/ CallAfterEof(n)
  \/ KernelSkip \/ KernelEnter \/ KernelRound \/ KernelBailOut
  \/ Case0 \/ Case1 \/ Case2 \/ Case3
  \/ Drained \/ NotInGroup \/ PadThenMore \/ PadAtChunkEnd \/ BadThird
  \/ EndAtFourth

Spec == Init /\ [][Next]_vars
-----------------------------------------------------------------------------
InCall == pc # "caller"

StateType == [eof : {0, AEOF, EOF}, bytes : 0..3, carry : Byte]

TypeOK ==
  /\ codec \in Codecs
  /\ text \in Texts
  /\ out \in Seq(Byte)
  /\ state \in StateType /\ st \in StateType
  /\ high \in Nat /\ base \in Nat /\ end \in Nat /\ obase \in Nat /\ outlen \in Nat
  /\ s \in Nat /\ slen \in Nat /\ olen \in Nat /\ rounds \in Nat
  /\ ret \in {0, 1} /\ failed \in BOOLEAN
  /\ k \in 1 .. Len(codec) + 1
  /\ pc \in {"caller", "kernel", "bulk", "case1", "case2", "case3"}

\* Until a call fails, whatever the chunking and the bulk loops, the output is
\* what the data among the characters consumed so far determines.
OutputIsDecoding ==
  ~ failed =>
    \E d \in 0..s :
      /\ DataPrefix(text, s, d)
      /\ Len(out) = DecPrefixLen(d)
      /\ \A i \in 1..Len(out) : out[i] = DecByte(text, i)

\* A stream fails exactly when no Base64 text begins with what it was fed:
\* garbage, misplaced padding or anything after the end, cut up in any way.
VerdictIsRight == pc = "caller" => (failed <=> ~ Viable(text, end))

\* The check base64_decode makes, "we're still waiting for input", and what it
\* then returns: the text is complete and well formed, and the output is its
\* decoding.
CompleteIsDecode ==
  pc = "caller" /\ ~ failed =>
    LET c == SubSeq(text, 1, end)
    IN /\ state.bytes = 0 <=> WellFormed(c)
       /\ state.bytes = 0 => out = Decode(c)

\* Nothing is written beyond the 3/4 of the input that the header asks for, and
\* the zeros that a bulk loop writes after its output are covered by the output
\* of the characters it leaves behind, even if the last two of them are '='.
WritesInBuffer ==
  /\ high <= DecPrefixLen(end)
  /\ high > Len(out) => high <= DecPrefixLen(end - 2)

\* The counts the code keeps apart from its pointers agree with them whenever a
\* case of the switch runs, rounds given back included, and *outlen tells what
\* the last call wrote.
CountsAgree ==
  /\ (\E b \in 0..3 : AtCase(b)) => slen = end - s /\ olen = Len(out) - obase
  /\ ~ InCall => outlen = Len(out) - obase

\* "If we previously saw an EOF or an invalid character, bail out"
\* (lib/arch/generic/dec_head.c): once a call has failed, no later call decodes
\* anything.  Refuted: an invalid third character does not set st.eof.
NothingAfterFailure == [][failed /\ failed' => out' = out]_vars

\* The decoder implements the abstract stream.
Stream == INSTANCE DecodeStream WITH
  fed      <- IF failed THEN 0 ELSE IF InCall THEN base ELSE end,
  held     <- IF failed THEN <<>>
              ELSE IF InCall THEN SubSeq(out, 1, obase) ELSE out,
  complete <- ~ failed /\ state.bytes = 0,
  rejected <- failed

StreamSpec == Stream!Spec

-----------------------------------------------------------------------------
(* The inductive invariant behind these properties.  What a case writes     *)
(* depends on the carry, the carry on the position in the group, and both   *)
(* on how the stream can have come there.  A failed stream may go on: its   *)
(* carry is garbage, but its counts and its place in the buffer still hold. *)

Live == IF InCall THEN st ELSE state

\* The output is what the first d characters determine.
Holds(d) ==
  /\ Len(out) = DecPrefixLen(d)
  /\ \A i \in 1..Len(out) : out[i] = DecByte(text, i)

\* The struct x holds the leftover of the group that n characters end in.
Carried(x, n) ==
  /\ x.bytes = n % 4
  /\ x.bytes = 1 => x.carry = text[n] * 4
  /\ x.bytes = 2 => x.carry = (text[n] % 16) * 16
  /\ x.bytes = 3 => x.carry = (text[n] % 4) * 64

PositionInv ==
  /\ base <= s /\ s <= end /\ end <= Len(text)
  /\ obase <= Len(out)
  /\ ~ InCall /\ ~ failed => s = end

\* While no call has failed, the n characters consumed are data, d of them, and
\* then as much padding as the state x tells.
Consumed(x, n, d) ==
  /\ DataPrefix(text, n, d)
  /\ \A i \in d + 1 .. n : text[i] = Pad
  /\ Holds(d)
  /\ x.eof = 0 => d = n /\ Carried(x, n)
  /\ x.eof = AEOF => d = n - 1 /\ n % 4 = 3 /\ x.bytes = 3
  /\ x.eof = EOF => d \in {n - 1, n - 2} /\ n % 4 = 0 /\ x.bytes = 0

StreamInv == ~ failed => \E d \in 0..s : Consumed(Live, s, d)

\* A failure is for good: no text begins with what the stream was fed.
FailedInv == failed => ~ Viable(text, end)

PlaceInv ==
  InCall =>
    /\ st.eof = 0
    /\ st.bytes = CASE pc = "case1" -> 1 [] pc = "case2" -> 2
                     [] pc = "case3" -> 3 [] OTHER -> 0

CountInv ==
  /\ InCall /\ pc # "bulk" => slen = end - s /\ olen = Len(out) - obase
  /\ ~ InCall => outlen = Len(out) - obase

\* Three bytes of output at most for four characters, the open group apart.
BudgetInv ==
  IF Live.eof = 0
  THEN 4 * (Len(out) - DecPrefixLen(Live.bytes)) <= 3 * (s - Live.bytes)
  ELSE 4 * Len(out) <= 3 * s

BulkInv ==
  pc = "bulk" =>
    /\ k <= Len(codec) /\ rounds >= 1
    /\ slen >= Here.reserve
    /\ s + slen + rounds * Here.block = end
    /\ olen = Len(out) - obase + rounds * Produced(Here)

IndInv ==
  /\ TypeOK /\ PositionInv /\ StreamInv /\ FailedInv /\ PlaceInv
  /\ CountInv /\ BudgetInv /\ BulkInv /\ WritesInBuffer
=============================================================================
