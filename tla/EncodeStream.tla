---------------------------- MODULE EncodeStream ----------------------------
(***************************************************************************)
(* What the streaming encoder promises (include/libbase64.h): after each   *)
(* call the caller holds exactly the characters that the bytes fed so far  *)
(* determine, however the message was cut into calls; finalizing completes *)
(* the encoding.  A stream may be started over at any time.                *)
(***************************************************************************)
EXTENDS Base64

CONSTANT Messages      \* the byte sequences a caller may encode

VARIABLES
  msg,        \* the message of this stream
  fed,        \* how many of its bytes have been given to returned calls
  held,       \* the characters the caller holds
  closed      \* whether the stream was finalized

absVars == <<msg, fed, held, closed>>

Determined(d, n) == [i \in 1 .. EncPrefixLen(n) |-> EncChar(d, i)]

Init ==
  /\ msg \in Messages
  /\ fed = 0
  /\ held = <<>>
  /\ closed = FALSE

Feed ==
  /\ ~ closed
  /\ \E n \in fed .. Len(msg) : fed' = n /\ held' = Determined(msg, n)
  /\ UNCHANGED <<msg, closed>>

Finalize ==
  /\ ~ closed
  /\ fed = Len(msg)
  /\ held' = Encode(msg)
  /\ closed' = TRUE
  /\ UNCHANGED <<msg, fed>>

StartOver ==
  /\ fed' = 0
  /\ held' = <<>>
  /\ closed' = FALSE
  /\ UNCHANGED msg

Next == Feed \/ Finalize \/ StartOver

Spec == Init /\ [][Next]_absVars
=============================================================================
