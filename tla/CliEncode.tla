------------------------------ MODULE CliEncode -----------------------------
(***************************************************************************)
(* The command line tool when encoding: encode() and the output path below *)
(* it, write_wrapped, iov_append, writev_retry and write_stdout            *)
(* (bin/base64.c), against a system that writes as much as it likes of     *)
(* what it is given, interrupts calls, or fails.                           *)
(*                                                                         *)
(* The encoder is what EncodeStream says it is: after n bytes it has given *)
(* EncPrefixLen(n) characters, and finalizing gives the rest.  Character i *)
(* of the encoded text is the number i, a newline is 0.  The array of      *)
(* vectors is the symbols they hold, one after the other, and the places   *)
(* where a vector ends.                                                    *)
(***************************************************************************)
EXTENDS Base64, FiniteSets

CONSTANTS
  FileSizes,     \* the sizes of the inputs, in bytes
  RawSize,       \* BUFFER_RAW_SIZE
  WrapWidths,    \* the values of --wrap
  IovMax,        \* IOV_MAX
  MaxAgain       \* the symbols that the emulated writev may write and not
                 \* report, at most; 0 where the system has a writev

ASSUME CliAssumption ==
  /\ FileSizes \subseteq Nat /\ WrapWidths \subseteq Nat
  /\ RawSize \in Nat \ {0} /\ IovMax \in Nat \ {0} /\ MaxAgain \in Nat

VARIABLES
  size, wrap,    \* the input and the option
  fed,           \* the bytes read and encoded
  ferror,        \* the error indicator of the input
  given,         \* the characters taken from the encoder
  lo,            \* of those, the characters already put in vectors
  tail,          \* whether the encoder was finalized
  col,           \* the static column counter
  iov, cuts,     \* the vectors waiting to be written: symbols and ends
  nwrite,        \* the result of the last write: a count, Interrupted or Failed
  stdout,        \* what the system has written
  again,         \* of that, the symbols whose write was not reported
  pc,            \* the place in the code
  resume,        \* where writev_retry returns to
  exit           \* the exit code, Running before there is one

vars == <<size, wrap, fed, ferror, given, lo, tail, col, iov, cuts, nwrite,
          stdout, again, pc, resume, exit>>

Newline == 0
Running == -1
NoWrite == 0
Interrupted == -1     \* -1 with errno EINTR
Failed == -2          \* -1 with any other errno

Chars(a, b) == [i \in 1 .. b - a |-> a + i]
Min2(a, b) == IF a <= b THEN a ELSE b
-----------------------------------------------------------------------------
Init ==
  /\ size \in FileSizes /\ wrap \in WrapWidths
  /\ fed = 0 /\ ferror = FALSE
  /\ given = 0 /\ lo = 0 /\ tail = FALSE
  /\ col = 0 /\ iov = <<>> /\ cuts = {}
  /\ nwrite = NoWrite /\ stdout = <<>> /\ again = 0
  /\ pc = "read" /\ resume = "read"
  /\ exit = Running

\* fread fills the buffer unless the input ends or fails before.
Read ==
  /\ pc = "read"
  /\ \E n \in 1 .. Min2(RawSize, size - fed) :
       /\ fed' = fed + n
       /\ given' = EncPrefixLen(fed + n)
       /\ ferror' = (ferror \/ n < Min2(RawSize, size - fed))
  /\ pc' = "wrap"
  /\ UNCHANGED <<size, wrap, lo, tail, col, iov, cuts, nwrite, stdout, resume,
                 exit, again>>

\* fread returns 0 for an error.
ReadFails ==
  /\ pc = "read"
  /\ ferror \/ fed < size
  /\ ferror' = TRUE
  /\ exit' = 1 /\ pc' = "exit"
  /\ UNCHANGED <<size, wrap, fed, given, lo, tail, col, iov, cuts, nwrite,
                 stdout, resume, again>>

\* fread returns 0 at the end: finalize.
ReadEnd ==
  /\ pc = "read" /\ ~ ferror
  /\ fed = size
  /\ given' = EncodedLen(size)
  /\ tail' = TRUE
  /\ pc' = "wrap"
  /\ UNCHANGED <<size, wrap, fed, ferror, lo, col, iov, cuts, nwrite, stdout,
                 resume, exit, again>>

-----------------------------------------------------------------------------
(* write_wrapped, at the top of its loop.                                  *)

\* iov_append, which empties the array when it is full and goes on at place p.
Append1(v, p) ==
  /\ iov' = iov \o v
  /\ cuts' = cuts \cup {Len(iov')}
  /\ IF Cardinality(cuts') = IovMax THEN pc' = "writev" /\ resume' = p
                                    ELSE pc' = p /\ UNCHANGED resume

\* As much as the line and the data allow.
WrapChars ==
  /\ pc = "wrap" /\ wrap > 0 /\ lo < given
  /\ LET n == Min2(wrap - col, given - lo)
     IN /\ lo' = lo + n
        /\ col' = col + n
        /\ Append1(Chars(lo, lo + n), "endline")
  /\ UNCHANGED <<size, wrap, fed, ferror, given, tail, nwrite, stdout, exit,
                 again>>

\* A full line gets its newline.
WrapNewline ==
  /\ pc = "endline" /\ col = wrap
  /\ col' = 0
  /\ Append1(<<Newline>>, "wrap")
  /\ UNCHANGED <<size, wrap, fed, ferror, given, lo, tail, nwrite, stdout,
                 exit, again>>

WrapPartial ==
  /\ pc = "endline" /\ col # wrap
  /\ pc' = "wrap"
  /\ UNCHANGED <<size, wrap, fed, ferror, given, lo, tail, col, iov, cuts,
                 nwrite, stdout, resume, exit, again>>

\* write_stdout has one buffer; it writes nothing if that is empty.
Single(v) == iov' = v /\ cuts' = {Len(v)} \ {0}

\* Mutant: the system is called for nothing.
FlushAlways(p) == pc' = "writev" /\ resume' = p

\* Hand the system what there is to write, and return to p.
Flush(p) == IF iov' = <<>> THEN pc' = p /\ UNCHANGED resume
                           ELSE pc' = "writev" /\ resume' = p

\* All data is in vectors: write those that remain.
WrapEnd ==
  /\ pc = "wrap" /\ wrap > 0 /\ lo = given
  /\ UNCHANGED <<iov, cuts>>
  /\ Flush("written")
  /\ UNCHANGED <<size, wrap, fed, ferror, given, lo, tail, col, nwrite, stdout,
                 exit, again>>

\* No wrap width: the whole buffer at once.
WritePlain ==
  /\ pc = "wrap" /\ wrap = 0
  /\ lo' = given
  /\ Single(Chars(lo, given))
  /\ Flush("written")
  /\ UNCHANGED <<size, wrap, fed, ferror, given, tail, col, nwrite, stdout,
                 exit, again>>

\* Mutant: the column does not survive the call.
WrittenColLost ==
  /\ pc = "written"
  /\ IF ~ tail THEN pc' = "read" /\ UNCHANGED <<iov, cuts, resume>>
     ELSE /\ Single(IF wrap > 0 /\ col > 0 THEN <<Newline>> ELSE <<>>)
          /\ Flush("done")
  /\ col' = 0
  /\ UNCHANGED <<size, wrap, fed, ferror, given, lo, tail, nwrite, stdout,
                 exit, again>>

\* Back in encode(): read on, or after the tail end the last line.
Written ==
  /\ pc = "written"
  /\ IF ~ tail THEN pc' = "read" /\ UNCHANGED <<iov, cuts, resume>>
     ELSE /\ Single(IF wrap > 0 /\ col > 0 THEN <<Newline>> ELSE <<>>)
          /\ Flush("done")
  /\ UNCHANGED <<size, wrap, fed, ferror, given, lo, tail, col, nwrite, stdout,
                 exit, again>>

Done ==
  /\ pc = "done"
  /\ exit' = 0 /\ pc' = "exit"
  /\ UNCHANGED <<size, wrap, fed, ferror, given, lo, tail, col, iov, cuts,
                 nwrite, stdout, resume, again>>

-----------------------------------------------------------------------------
(* writev_retry; write_stdout is the same with its one buffer.             *)

\* The system writes some of what it is given.
WriteSome ==
  /\ pc = "writev"
  /\ \E n \in 1..Len(iov) :
       /\ nwrite' = n
       /\ stdout' = stdout \o SubSeq(iov, 1, n)
  /\ pc' = "trim"
  /\ UNCHANGED <<size, wrap, fed, ferror, given, lo, tail, col, iov, cuts, resume,
                 exit, again>>

\* Or nothing, with an error; and the emulated writev, which is one write for
\* each vector, after it wrote the first vectors, up to c.
WriteError ==
  /\ pc = "writev"
  /\ nwrite' \in {Interrupted, Failed}
  /\ \E c \in {0} \cup cuts :
       /\ c < Len(iov) /\ again + c <= MaxAgain
       /\ stdout' = stdout \o SubSeq(iov, 1, c)
       /\ again' = again + c
  /\ pc' = "trim"
  /\ UNCHANGED <<size, wrap, fed, ferror, given, lo, tail, col, iov, cuts, resume,
                 exit>>

\* Mutant: a vector that was partly written is kept whole.
DropWhole(n) ==
  LET m == CHOOSE c \in {0} \cup cuts :
             c <= n /\ \A d \in cuts : d <= n => d <= c
  IN /\ iov' = SubSeq(iov, m + 1, Len(iov))
     /\ cuts' = {c - m : c \in {d \in cuts : d > m}}

\* Take the first n symbols out of the vectors: the whole ones are dropped, the
\* one that was partly written is cut.
Drop(n) ==
  /\ iov' = SubSeq(iov, n + 1, Len(iov))
  /\ cuts' = {c - n : c \in {d \in cuts : d > n}}

Trim ==
  /\ pc = "trim" /\ nwrite > 0
  /\ Drop(nwrite)
  /\ pc' = IF iov' = <<>> THEN resume ELSE "writev"
  /\ UNCHANGED <<size, wrap, fed, ferror, given, lo, tail, col, nwrite, stdout,
                 resume, exit, again>>

RetryNever ==      \* mutant: EINTR is an error like any other
  /\ pc = "trim" /\ nwrite = Interrupted
  /\ exit' = 1 /\ pc' = "exit"
  /\ UNCHANGED <<size, wrap, fed, ferror, given, lo, tail, col, iov, cuts,
                 nwrite, stdout, resume, again>>

Retry ==
  /\ pc = "trim" /\ nwrite = Interrupted
  /\ pc' = "writev"
  /\ UNCHANGED <<size, wrap, fed, ferror, given, lo, tail, col, iov, cuts,
                 nwrite, stdout, resume, exit, again>>

GiveUp ==
  /\ pc = "trim" /\ nwrite = Failed
  /\ exit' = 1 /\ pc' = "exit"
  /\ UNCHANGED <<size, wrap, fed, ferror, given, lo, tail, col, iov, cuts,
                 nwrite, stdout, resume, again>>

Work ==
  \/ Read \/ ReadFails \/ ReadEnd
  \/ WrapChars \/ WrapNewline \/ WrapPartial \/ WrapEnd \/ WritePlain
  \/ Written \/ Done
  \/ Trim \/ Retry \/ GiveUp

Next == Work \/ WriteSome \/ WriteError

Spec == Init /\ [][Next]_vars

\* The program goes on, and the system does not interrupt every single write.
FairSpec == Spec /\ WF_vars(Work \/ WriteSome \/ WriteError) /\ SF_vars(WriteSome)
-----------------------------------------------------------------------------
(* The encoded text of n characters in lines of w: symbol p of it.         *)
WrappedLen(n, w) == IF w = 0 THEN n ELSE n + ((n + w - 1) \div w)

WrappedSymbol(n, w, p) ==
  IF w = 0 THEN p
  ELSE LET line == (p - 1) \div (w + 1)
           c == line * w + ((p - 1) % (w + 1)) + 1
       IN IF (p - 1) % (w + 1) = w \/ c > n THEN Newline ELSE c

\* Whatever the system writes, refuses or interrupts, and wherever the buffers
\* end, stdout is a beginning of the wrapped text: no character or newline is
\* lost, repeated or out of place; and exit code 0 means it is all there.  Only
\* what the emulated writev did not report is repeated.
StdoutIsWrappedText ==
  LET n == EncodedLen(size)
  IN /\ Len(stdout) - again <= WrappedLen(n, wrap)
     /\ again = 0 => \A p \in 1..Len(stdout) : stdout[p] = WrappedSymbol(n, wrap, p)
     /\ exit = 0 => Len(stdout) - again = WrappedLen(n, wrap)

\* What is waiting in vectors is what comes next on stdout, or comes again after
\* an emulated writev that wrote some of it and failed; and the vectors never
\* outgrow their array.
PendingIsNext ==
  pc # "trim" /\ exit = Running =>
    /\ Cardinality(cuts) <= IovMax
    /\ pc = "writev" => iov # <<>>
    /\ \A p \in 1..Len(iov) :
         iov[p] = WrappedSymbol(EncodedLen(size), wrap, Len(stdout) - again + p)

\* The program ends: it does not write for ever.
Ends == <>(exit # Running)

\* Exit code 1 means that the input or the output failed, for good: a write that
\* was interrupted, or that was only partly done, is never the reason.
FailsOnlyOnError == exit = 1 => ferror \/ nwrite = Failed

-----------------------------------------------------------------------------
(* The inductive invariant behind these properties: how many symbols went    *)
(* through the vectors, and which come next, follows from the characters and *)
(* the full lines that were put in them.                                     *)

TypeOK ==
  /\ size \in FileSizes /\ wrap \in WrapWidths
  /\ fed \in Nat /\ ferror \in BOOLEAN
  /\ given \in Nat /\ lo \in Nat /\ tail \in BOOLEAN /\ col \in Nat
  /\ iov \in Seq(Nat) /\ cuts \subseteq 1..Len(iov)
  /\ nwrite \in {Interrupted, Failed} \cup Nat
  /\ stdout \in Seq(Nat) /\ again \in Nat
  /\ pc \in {"read", "wrap", "endline", "written", "done", "writev", "trim", "exit"}
  /\ resume \in {"read", "wrap", "endline", "written", "done"}
  /\ exit \in {Running, 0, 1}

\* At place p, or about to return to it from a write.
At(p) == pc = p \/ (pc \in {"writev", "trim"} /\ resume = p)

ReadInv ==
  /\ fed <= size /\ lo <= given
  /\ given = IF tail THEN EncodedLen(size) ELSE EncPrefixLen(fed)
  /\ tail => fed = size
  /\ At("read") => lo = given /\ ~ tail
  /\ At("written") => lo = given
  /\ At("done") \/ exit = 0 => lo = given /\ tail

PlaceInv ==
  /\ pc \in {"read", "written", "done"} => iov = <<>>
  /\ pc = "wrap" /\ wrap = 0 => iov = <<>>
  /\ pc \in {"writev", "trim"} => iov # <<>> /\ resume # "read"
  /\ pc = "trim" => nwrite <= Len(iov) /\ nwrite # 0
  /\ exit = Running <=> pc # "exit"
  /\ exit = 0 => iov = <<>>
  /\ FailsOnlyOnError

ColumnInv ==
  IF wrap = 0 THEN col = 0 /\ ~ At("endline") /\ (At("wrap") => pc = "wrap")
  ELSE IF At("endline") THEN 1 <= col /\ col <= wrap
  ELSE exit # 1 => col < wrap

CutsInv ==
  /\ iov # <<>> => Len(iov) \in cuts
  /\ Cardinality(cuts) <= IovMax
  /\ pc \in {"wrap", "endline"} => Cardinality(cuts) < IovMax

\* The symbols that have left the vectors; and the newline of the last line.
Reported == Len(stdout) - again - (IF pc = "trim" /\ nwrite > 0 THEN nwrite ELSE 0)
Closing == IF (At("done") \/ exit = 0) /\ col > 0 THEN 1 ELSE 0

SymbolInv ==
  /\ Reported \in Nat
  /\ \A p \in 1..Len(iov) :
       iov[p] = WrappedSymbol(EncodedLen(size), wrap, Reported + p)
  /\ again = 0 => \A p \in 1..Len(stdout) :
                    stdout[p] = WrappedSymbol(EncodedLen(size), wrap, p)

\* lines is the number of lines that got their newline.
PlacedInv ==
  IF exit = 1 THEN Reported + Len(iov) <= WrappedLen(EncodedLen(size), wrap)
  ELSE \E lines \in Nat :
    /\ lines * wrap + col = IF wrap = 0 THEN 0 ELSE lo
    /\ wrap = 0 => lines = 0
    /\ Reported + Len(iov) = lo + lines + Closing

IndInv ==
  TypeOK /\ ReadInv /\ PlaceInv /\ ColumnInv /\ CutsInv /\ SymbolInv /\ PlacedInv
=============================================================================
