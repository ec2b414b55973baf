------------------------------ MODULE CliDecode -----------------------------
(***************************************************************************)
(* The command line tool when decoding: decode() (bin/base64.c) reads the  *)
(* input a buffer at a time, cuts each buffer into runs of characters that *)
(* it keeps, and feeds them to one decoding stream.                        *)
(*                                                                         *)
(* The decoder is what DecodeStream says it is, and for an empty call what *)
(* dec_head.c does: it returns 0 once the text has ended.  A character is  *)
(* its class, but two invalid ones that the tool tells apart have a class  *)
(* of their own.                                                           *)
(***************************************************************************)
EXTENDS Base64, FiniteSets

CONSTANTS
  Inputs,        \* the files: sequences over Symbol
  RawSize        \* BUFFER_RAW_SIZE

LF    == 300           \* '\n'
Quote == 301           \* '"'
Symbol == Char \cup {LF, Quote}

ASSUME CliAssumption ==
  /\ Inputs \subseteq Seq(Symbol)
  /\ RawSize \in Nat \ {0}

\* Class of a symbol in base64_table_dec_8bit.
Class(x) == IF x \in {LF, Quote} THEN Bad ELSE x

Modes == {"strip", "raw", "garbage"}      \* default, -n, -i

VARIABLES
  input, mode,
  got,           \* the characters read so far
  ferror,        \* the error indicator of the input
  start, avail,  \* the part of the buffer that is left
  fed,           \* the characters fed to the decoder so far
  ototal,        \* the bytes decoded from this buffer
  stdout,        \* what was written
  pc, exit       \* the place in the code; the exit code, Running before

vars == <<input, mode, got, ferror, start, avail, fed, ototal, stdout, pc, exit>>

Running == -1
Min2(a, b) == IF a <= b THEN a ELSE b
-----------------------------------------------------------------------------
\* The look-up table of find_garbage: the alphabet, '+', '/' and '"'.
NotGarbage(x) == x \in Sextet \cup {Quote}

Kept(x) ==
  /\ mode = "garbage" => NotGarbage(x)
  /\ mode = "strip" => x # LF

\* find_garbage, find_newline: how many of the characters left come before the
\* next one that is not kept.
RunLength ==
  CHOOSE n \in 0..avail :
    /\ \A i \in 1..n : Kept(input[start + i])
    /\ n < avail => ~ Kept(input[start + n + 1])

\* These characters, as the decoder sees them.
Run == [i \in 1..RunLength |-> Class(input[start + i])]

-----------------------------------------------------------------------------
Init ==
  /\ input \in Inputs /\ mode \in Modes
  /\ got = 0 /\ ferror = FALSE
  /\ start = 0 /\ avail = 0
  /\ fed = <<>> /\ ototal = 0
  /\ stdout = <<>>
  /\ pc = "read" /\ exit = Running

\* Mutant: the bytes of the last buffer are written again.
ReadKeepsTotal ==
  /\ pc = "read"
  /\ \E n \in 1 .. Min2(RawSize, Len(input) - got) :
       /\ got' = got + n
       /\ avail' = n
       /\ ferror' = (ferror \/ n < Min2(RawSize, Len(input) - got))
  /\ start' = got
  /\ pc' = "token"
  /\ UNCHANGED <<input, mode, fed, ototal, stdout, exit>>

\* fread fills the buffer unless the input ends or fails before.
Read ==
  /\ pc = "read"
  /\ \E n \in 1 .. Min2(RawSize, Len(input) - got) :
       /\ got' = got + n
       /\ avail' = n
       /\ ferror' = (ferror \/ n < Min2(RawSize, Len(input) - got))
  /\ start' = got
  /\ ototal' = 0
  /\ pc' = "token"
  /\ UNCHANGED <<input, mode, fed, stdout, exit>>

\* fread returns 0, at the end or for an error.
ReadEnds ==
  /\ pc = "read"
  /\ \/ got = Len(input) /\ ~ ferror /\ exit' = 0 /\ UNCHANGED ferror
     \/ (ferror \/ got < Len(input)) /\ exit' = 1 /\ ferror' = TRUE
  /\ pc' = "exit"
  /\ UNCHANGED <<input, mode, got, start, avail, fed, ototal, stdout>>

\* What base64_stream_decode says of the characters c after those fed before.
Accepts(c) ==
  LET all == fed \o c
  IN Viable(all, Len(all)) /\ ~ (c = <<>> /\ \E i \in 1..Len(fed) : fed[i] = Pad)

\* Mutants: an empty run is decoded like any other; and the loop goes on without
\* stepping over the character.
SkipOneDecodes ==
  /\ pc = "token" /\ avail > 0 /\ RunLength = 0
  /\ IF Accepts(<<>>)
     THEN start' = start + 1 /\ avail' = avail - 1 /\ UNCHANGED <<pc, exit>>
     ELSE exit' = 1 /\ pc' = "exit" /\ UNCHANGED <<start, avail>>
  /\ UNCHANGED <<input, mode, got, ferror, fed, ototal, stdout>>
SkipOneStays ==
  /\ pc = "token" /\ avail > 0 /\ RunLength = 0
  /\ UNCHANGED vars

\* An empty run: step over the character that ends it.
SkipOne ==
  /\ pc = "token" /\ avail > 0 /\ RunLength = 0
  /\ start' = start + 1 /\ avail' = avail - 1
  /\ UNCHANGED <<input, mode, got, ferror, fed, ototal, stdout, pc, exit>>

\* The run is decoded into the raw buffer, and the character after it is skipped.
DecodeRun ==
  /\ pc = "token" /\ avail > 0 /\ RunLength > 0
  /\ Accepts(Run)
  /\ fed' = fed \o Run
  /\ ototal' = ototal + Len(Decoded(fed', Len(fed'))) - Len(Decoded(fed, Len(fed)))
  /\ IF RunLength = avail THEN avail' = 0 /\ UNCHANGED start
     ELSE /\ start' = start + RunLength + 1
          /\ avail' = avail - (RunLength + 1)
  /\ UNCHANGED <<input, mode, got, ferror, stdout, pc, exit>>

\* "decoding error": what this buffer gave is not written.
DecodeFails ==
  /\ pc = "token" /\ avail > 0 /\ RunLength > 0
  /\ ~ Accepts(Run)
  /\ exit' = 1 /\ pc' = "exit"
  /\ UNCHANGED <<input, mode, got, ferror, start, avail, fed, ototal, stdout>>

\* What the decoder gave for this buffer.
Pending ==
  LET d == Decoded(fed, Len(fed))
  IN SubSeq(d, Len(d) - ototal + 1, Len(d))

\* write_stdout: all of it, or an error after some of it.
Write ==
  /\ pc = "token" /\ avail = 0
  /\ stdout' = stdout \o Pending
  /\ pc' = "read"
  /\ UNCHANGED <<input, mode, got, ferror, start, avail, fed, ototal, exit>>

WriteFails ==
  /\ pc = "token" /\ avail = 0 /\ ototal > 0
  /\ \E n \in 0 .. ototal - 1 : stdout' = stdout \o SubSeq(Pending, 1, n)
  /\ exit' = 1 /\ pc' = "failed"
  /\ UNCHANGED <<input, mode, got, ferror, start, avail, fed, ototal>>

Next == \/ Read \/ ReadEnds \/ SkipOne \/ DecodeRun \/ DecodeFails
        \/ Write \/ WriteFails

Spec == Init /\ [][Next]_vars
FairSpec == Spec /\ WF_vars(Next)
-----------------------------------------------------------------------------
\* The text without the characters that are not kept, as the decoder sees it:
\* its k-th character is the one that ends a part with k that are kept.
KeptAt(n) == {i \in 1..n : Kept(input[i])}
KeptCount(n) == Cardinality(KeptAt(n))
Nth(k) == CHOOSE i \in KeptAt(Len(input)) : KeptCount(i) = k

Stripped == [k \in 1 .. KeptCount(Len(input)) |-> Class(input[Nth(k)])]

\* Wherever a buffer ends, a run of kept characters is cut or several are skipped,
\* stdout is a beginning of the decoding of the stripped text.
StdoutIsDecodedText ==
  LET d == CHOOSE x \in 0..Len(Stripped) : DataPrefix(Stripped, Len(Stripped), x)
  IN /\ Len(stdout) <= DecPrefixLen(d)
     /\ \A i \in 1..Len(stdout) : stdout[i] = DecByte(Stripped, i)

\* Exit code 0: the whole stripped text begins a Base64 text and is decoded, to
\* the last byte.  Exit code 1 when nothing failed but the decoder: it does not.
ExitTellsVerdict ==
  /\ exit = 0 => /\ Viable(Stripped, Len(Stripped))
                 /\ stdout = Decoded(Stripped, Len(Stripped))
  /\ exit = 1 /\ pc = "exit" /\ ~ ferror => ~ Viable(Stripped, Len(Stripped))

\* The tool comes to an end: it never spins on a run it cannot use up.
Ends == <>(exit # Running)

\* "-i, --ignore-garbage  When decoding, ignore any non-base64 data" (usage() in
\* bin/base64.c): with it, a text that is good without its garbage is decoded.
\* Refuted: find_garbage takes '"' for base64 data.
GarbageIsIgnored ==
  LET Base64Data(x) == x \in Sextet \cup {Pad}
      c == SelectSeq(input, Base64Data)
  IN mode = "garbage" /\ exit = 1 /\ pc = "exit" /\ ~ ferror => ~ Viable(c, Len(c))

-----------------------------------------------------------------------------
(* The inductive invariant behind these properties: what was fed is the     *)
(* beginning of the stripped text that the part of the input seen so far    *)
(* determines, and what is not written of its decoding is in this buffer.   *)

TypeOK ==
  /\ input \in Inputs /\ mode \in Modes
  /\ got \in Nat /\ ferror \in BOOLEAN
  /\ start \in Nat /\ avail \in Nat
  /\ fed \in Seq(Char) /\ ototal \in Nat
  /\ stdout \in Seq(Byte)
  /\ pc \in {"read", "token", "failed", "exit"}
  /\ exit \in {Running, 0, 1}

BufferInv ==
  /\ got <= Len(input)
  /\ avail > 0 => start + avail = got
  /\ pc = "read" => avail = 0
  /\ exit = Running <=> pc \in {"read", "token"}
  /\ exit = 0 => pc = "exit" /\ avail = 0 /\ got = Len(input)

\* The part of the input that was cut into runs.
Seen == IF avail = 0 THEN got ELSE start

FedInv ==
  /\ Len(fed) = KeptCount(Seen)
  /\ \A k \in 1..Len(fed) : fed[k] = Stripped[k]
  /\ Viable(fed, Len(fed))

OutInv ==
  LET d == Decoded(fed, Len(fed))
  IN /\ Len(stdout) <= Len(d)
     /\ \A i \in 1..Len(stdout) : stdout[i] = d[i]
     /\ pc = "token" => Len(stdout) + ototal = Len(d)
     /\ pc = "read" \/ exit = 0 => Len(stdout) = Len(d)

VerdictInv ==
  exit = 1 /\ pc = "exit" /\ ~ ferror => ~ Viable(Stripped, Len(Stripped))

IndInv == TypeOK /\ BufferInv /\ FedInv /\ OutInv /\ VerdictInv
=============================================================================
