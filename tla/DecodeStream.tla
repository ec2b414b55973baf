---------------------------- MODULE DecodeStream ----------------------------
(***************************************************************************)
(* What the streaming decoder promises (include/libbase64.h): a call is    *)
(* accepted exactly when what was fed so far begins some Base64 text, the  *)
(* caller then holds the bytes those characters determine, and it knows    *)
(* whether the text is complete.  A rejected stream is over.               *)
(***************************************************************************)
EXTENDS Base64

CONSTANT Texts         \* the character sequences a caller may decode

VARIABLES
  text,       \* the characters of this stream
  fed,        \* how many of them have been given to accepted calls
  held,       \* the bytes the caller holds
  complete,   \* whether they are the whole of a Base64 text
  rejected    \* whether a call was rejected

absVars == <<text, fed, held, complete, rejected>>

Init ==
  /\ text \in Texts
  /\ fed = 0
  /\ held = <<>>
  /\ complete = TRUE
  /\ rejected = FALSE

Accept(n) ==
  /\ ~ rejected
  /\ Viable(text, n)
  /\ fed' = n
  /\ held' = Decoded(text, n)
  /\ complete' = WellFormed(SubSeq(text, 1, n))
  /\ UNCHANGED <<text, rejected>>

Reject(n) ==
  /\ ~ rejected
  /\ ~ Viable(text, n)
  /\ rejected' = TRUE
  /\ fed' = 0 /\ held' = <<>> /\ complete' = FALSE
  /\ UNCHANGED text

StartOver ==
  /\ fed' = 0
  /\ held' = <<>>
  /\ complete' = TRUE
  /\ rejected' = FALSE
  /\ UNCHANGED text

Next ==
  \/ \E n \in fed .. Len(text) : Accept(n) \/ Reject(n)
  \/ StartOver

Spec == Init /\ [][Next]_absVars
=============================================================================
