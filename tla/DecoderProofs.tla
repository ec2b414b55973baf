---------------------------- MODULE DecoderProofs ---------------------------
(***************************************************************************)
(* For every set of texts, every way to cut them into calls and every      *)
(* sequence of bulk loops that meets KernelOK: the type invariant, the     *)
(* safety invariants of Decoder and the refinement of DecodeStream.        *)
(***************************************************************************)
EXTENDS Decoder, Base64Proofs, SequenceTheorems, TLAPS

-----------------------------------------------------------------------------
(* The bitwise or of the carry and the new bits.                           *)

\* The or of two bytes is a byte.
LEMMA OrIsByte == ASSUME NEW x, NEW y PROVE Or(x, y) \in Byte
<1> DEFINE BitAt(w) == IF (x \div w) % 2 = 1 \/ (y \div w) % 2 = 1 THEN w ELSE 0
<1>1. /\ BitAt(128) \in {0, 128} /\ BitAt(64) \in {0, 64} /\ BitAt(32) \in {0, 32}
      /\ BitAt(16) \in {0, 16} /\ BitAt(8) \in {0, 8} /\ BitAt(4) \in {0, 4}
      /\ BitAt(2) \in {0, 2} /\ BitAt(1) \in {0, 1}
  BY Zenon
<1>2. Or(x, y) = BitAt(128) + BitAt(64) + BitAt(32) + BitAt(16) + BitAt(8) + BitAt(4) + BitAt(2) + BitAt(1)
  BY Zenon DEF Or
<1> HIDE DEF BitAt
<1> QED
  BY <1>1, <1>2 DEF Byte

\* Where no bit is set in both, it is their sum.
LEMMA OrIsSum ==
  /\ \A a \in 0..63, y \in 0..3 : Or(a * 4, y) = a * 4 + y
  /\ \A a \in 0..15, y \in 0..15 : Or(a * 16, y) = a * 16 + y
  /\ \A a \in 0..3, y \in 0..63 : Or(a * 64, y) = a * 64 + y
<1>1. ASSUME NEW a \in 0..63, NEW y \in 0..3 PROVE Or(a * 4, y) = a * 4 + y
  BY DEF Or
<1>2. ASSUME NEW a \in 0..15, NEW y \in 0..15 PROVE Or(a * 16, y) = a * 16 + y
  BY DEF Or
<1>3. ASSUME NEW a \in 0..3, NEW y \in 0..63 PROVE Or(a * 64, y) = a * 64 + y
  BY DEF Or
<1> QED
  BY <1>1, <1>2, <1>3

-----------------------------------------------------------------------------
(* The bulk loops.                                                         *)

\* Four values packed in a 24-bit word give the same three bytes.
LEMMA WordBytes ==
  ASSUME NEW c1 \in Sextet, NEW c2 \in Sextet, NEW c3 \in Sextet, NEW c4 \in Sextet,
         NEW w, w = c1 * 262144 + c2 * 4096 + c3 * 64 + c4
  PROVE  /\ w \div 65536 = c1 * 4 + (c2 \div 16)
         /\ (w \div 256) % 256 = (c2 % 16) * 16 + (c3 \div 4)
         /\ w % 256 = (c3 % 4) * 64 + c4
         /\ c1 * 4 + (c2 \div 16) \in Byte
         /\ (c2 % 16) * 16 + (c3 \div 4) \in Byte
         /\ (c3 % 4) * 64 + c4 \in Byte
BY DEF Sextet, Byte

LEMMA BlockByteAt ==
  ASSUME NEW c, NEW h \in Nat, NEW i \in Nat, (i - 1) \div 3 = h
  PROVE  /\ (i - 1) % 3 = 0 => BlockByte(c, i) = Word(c, 4 * h) \div 65536
         /\ (i - 1) % 3 = 1 => BlockByte(c, i) = (Word(c, 4 * h) \div 256) % 256
         /\ (i - 1) % 3 = 2 => BlockByte(c, i) = Word(c, 4 * h) % 256
<1>1. ASSUME (i - 1) % 3 = 0
      PROVE  BlockByte(c, i) = Word(c, 4 * h) \div 65536
  BY <1>1 DEF BlockByte
<1>2. ASSUME (i - 1) % 3 = 1
      PROVE  BlockByte(c, i) = (Word(c, 4 * h) \div 256) % 256
  <2>1. (i - 1) % 3 # 0
    BY <1>2
  <2> QED
    BY <1>2, <2>1 DEF BlockByte
<1>3. ASSUME (i - 1) % 3 = 2
      PROVE  BlockByte(c, i) = Word(c, 4 * h) % 256
  <2>1. (i - 1) % 3 # 0 /\ (i - 1) % 3 # 1
    BY <1>3
  <2> QED
    BY <1>3, <2>1 DEF BlockByte
<1> QED
  BY <1>1, <1>2, <1>3

\* A round on the 4 * m values after the first n characters, wherever in a
\* group they start, gives the bytes of the groups they make.
RoundIsDecoding(c, n, m) ==
  LET x == BlockOut(SubSeq(c, n + 1, n + 4 * m))
  IN /\ x \in Seq(Byte)
     /\ Len(x) = 3 * m
     /\ n % 4 = 0 => \A i \in 1 .. 3 * m : x[i] = DecByte(c, DecPrefixLen(n) + i)

LEMMA BlockIsDecoding ==
  ASSUME NEW c \in Seq(Char), NEW n \in Nat, NEW m \in Nat,
         n + 4 * m <= Len(c),
         \A i \in n + 1 .. n + 4 * m : c[i] \in Sextet
  PROVE  RoundIsDecoding(c, n, m)
<1> DEFINE b == SubSeq(c, n + 1, n + 4 * m)
<1>1. Len(b) = 4 * m /\ \A j \in 1 .. 4 * m : b[j] = c[n + j]
  OBVIOUS
<1>2. Len(b) \div 4 = m
  BY <1>1
<1>3. BlockOut(b) = [i \in 1 .. 3 * m |-> BlockByte(b, i)]
  BY <1>2 DEF BlockOut
<1>4. ASSUME NEW i \in 1 .. 3 * m
      PROVE  /\ BlockByte(b, i) \in Byte
             /\ n % 4 = 0 => BlockByte(b, i) = DecByte(c, DecPrefixLen(n) + i)
  <2> DEFINE h == (i - 1) \div 3
             p == (i - 1) % 3
             c1 == c[n + (4 * h + 1)]
             c2 == c[n + (4 * h + 2)]
             c3 == c[n + (4 * h + 3)]
             c4 == c[n + (4 * h + 4)]
             w == c1 * 262144 + c2 * 4096 + c3 * 64 + c4
  <2>1. h \in 0 .. m - 1 /\ p \in 0..2
    OBVIOUS
  <2>2. /\ 4 * h + 1 \in 1 .. 4 * m /\ 4 * h + 2 \in 1 .. 4 * m
        /\ 4 * h + 3 \in 1 .. 4 * m /\ 4 * h + 4 \in 1 .. 4 * m
    BY <2>1
  <2>3. /\ b[4 * h + 1] = c1 /\ b[4 * h + 2] = c2
        /\ b[4 * h + 3] = c3 /\ b[4 * h + 4] = c4
    <3> HIDE DEF b, h
    <3> QED
      BY <1>1, <2>2
  <2>4. c1 \in Sextet /\ c2 \in Sextet /\ c3 \in Sextet /\ c4 \in Sextet
    <3>1. /\ n + (4 * h + 1) \in n + 1 .. n + 4 * m
          /\ n + (4 * h + 2) \in n + 1 .. n + 4 * m
          /\ n + (4 * h + 3) \in n + 1 .. n + 4 * m
          /\ n + (4 * h + 4) \in n + 1 .. n + 4 * m
      BY <2>1
    <3> QED
      BY <3>1
  <2>5. /\ p = 0 => BlockByte(b, i) = w \div 65536
        /\ p = 1 => BlockByte(b, i) = (w \div 256) % 256
        /\ p = 2 => BlockByte(b, i) = w % 256
    <3>1. Word(b, 4 * h) = w
      <4> HIDE DEF b, h, c1, c2, c3, c4
      <4> QED
        BY <2>3 DEF Word
    <3>2. h \in Nat /\ i \in Nat /\ (i - 1) \div 3 = h /\ (i - 1) % 3 = p
      OBVIOUS
    <3> HIDE DEF b, h, p, w
    <3> QED
      BY <3>1, <3>2, BlockByteAt
  <2>6. /\ w \div 65536 = c1 * 4 + (c2 \div 16)
        /\ (w \div 256) % 256 = (c2 % 16) * 16 + (c3 \div 4)
        /\ w % 256 = (c3 % 4) * 64 + c4
        /\ c1 * 4 + (c2 \div 16) \in Byte
        /\ (c2 % 16) * 16 + (c3 \div 4) \in Byte
        /\ (c3 % 4) * 64 + c4 \in Byte
    <3> HIDE DEF c1, c2, c3, c4
    <3> QED
      BY <2>4, WordBytes
  <2>7. BlockByte(b, i) \in Byte
    <3> HIDE DEF b, w, p
    <3> QED
      BY <2>1, <2>5, <2>6
  <2>8. ASSUME n % 4 = 0
        PROVE  BlockByte(b, i) = DecByte(c, DecPrefixLen(n) + i)
    <3> DEFINE e == DecPrefixLen(n) + i
               g == n \div 4 + h
    <3>1. /\ e \in Nat /\ g \in Nat
          /\ (e - 1) \div 3 = g /\ (e - 1) % 3 = p
          /\ n = 4 * (n \div 4)
      BY <2>8 DEF DecPrefixLen
    <3>2. /\ 4 * g + 1 = n + (4 * h + 1) /\ 4 * g + 2 = n + (4 * h + 2)
          /\ 4 * g + 3 = n + (4 * h + 3) /\ 4 * g + 4 = n + (4 * h + 4)
      BY <2>1, <3>1
    <3>3. /\ p = 0 => DecByte(c, e) = c[4 * g + 1] * 4 + (c[4 * g + 2] \div 16)
          /\ p = 1 => DecByte(c, e) = (c[4 * g + 2] % 16) * 16 + (c[4 * g + 3] \div 4)
          /\ p = 2 => DecByte(c, e) = (c[4 * g + 3] % 4) * 64 + c[4 * g + 4]
      <4> HIDE DEF e, g, p
      <4> QED
        BY <3>1, DecByteAt
    <3>4. /\ p = 0 => DecByte(c, e) = c1 * 4 + (c2 \div 16)
          /\ p = 1 => DecByte(c, e) = (c2 % 16) * 16 + (c3 \div 4)
          /\ p = 2 => DecByte(c, e) = (c3 % 4) * 64 + c4
      <4> HIDE DEF e, g, p
      <4> QED
        BY <3>2, <3>3
    <3> HIDE DEF b, w, p, c1, c2, c3, c4, e
    <3> QED
      BY <2>1, <2>5, <2>6, <3>4 DEF e
  <2> QED
    BY <2>7, <2>8
<1>5. BlockOut(b) \in Seq(Byte) /\ Len(BlockOut(b)) = 3 * m
  BY <1>3, <1>4
<1> QED
  BY <1>3, <1>4, <1>5 DEF RoundIsDecoding

\* Appending the bytes that follow keeps the output correct.
LEMMA AppendBytes ==
  ASSUME NEW c, NEW o \in Seq(Byte), NEW x \in Seq(Byte),
         \A i \in 1..Len(o) : o[i] = DecByte(c, i),
         \A i \in 1..Len(x) : x[i] = DecByte(c, Len(o) + i)
  PROVE  \A i \in 1..Len(o \o x) : (o \o x)[i] = DecByte(c, i)
<1>1. o \o x \in Seq(Byte) /\ Len(o \o x) = Len(o) + Len(x)
  OBVIOUS
<1>2. ASSUME NEW i \in 1..Len(o \o x) PROVE (o \o x)[i] = DecByte(c, i)
  <2>1. CASE i <= Len(o)
    BY <1>1, <2>1
  <2>2. CASE i > Len(o)
    <3>1. i - Len(o) \in 1..Len(x) /\ (o \o x)[i] = x[i - Len(o)]
      BY <1>1, <2>2
    <3>2. Len(o) + (i - Len(o)) = i
      OBVIOUS
    <3> QED
      BY <3>1, <3>2
  <2> QED
    BY <2>1, <2>2
<1> QED
  BY <1>2

\* The rounds a bulk loop books leave at least its reserve.
LEMMA RoundsFit ==
  ASSUME NEW n \in Nat, NEW r \in Nat, NEW b \in Nat, b > 0, n >= r + b
  PROVE  LET x == (n - r) \div b
         IN x \in Nat /\ x >= 1 /\ x * b \in Nat /\ n - x * b \in Nat /\ n - x * b >= r
<1> DEFINE x == (n - r) \div b
<1>1. x \in Nat /\ x * b <= n - r /\ x >= 1
  BY n - r \in Nat, n - r >= b
<1>2. x * b \in Nat
  BY <1>1
<1> HIDE DEF x
<1> QED
  BY <1>1, <1>2

LEMMA OneRoundLess ==
  ASSUME NEW r \in Nat, NEW b \in Nat, r >= 1
  PROVE  /\ (r - 1) * b = r * b - b
         /\ r * b \in Nat /\ r * b >= b
         /\ r > 1 => r * b - b >= b
         /\ r = 1 => r * b = b
<1> DEFINE p == r - 1
<1>1. p \in Nat /\ r = p + 1
  OBVIOUS
<1>2. (p + 1) * b = p * b + b /\ p * b \in Nat /\ (p > 0 => p * b >= b)
  BY <1>1
<1> HIDE DEF p
<1>3. r * b = p * b + b
  BY <1>1, <1>2
<1>4. p = r - 1
  BY DEF p
<1> QED
  BY <1>1, <1>2, <1>3, <1>4

-----------------------------------------------------------------------------
(* The inductive invariant: what it says of the constants and of a call.   *)

LEMMA HereOK ==
  ASSUME TypeOK, k <= Len(codec)
  PROVE  Here \in Kernel /\ KernelOK(Here)
<1>1. codec \in Seq(Kernel) /\ k \in 1 .. Len(codec)
  BY DecoderAssumption DEF TypeOK
<1>2. KernelOK(codec[k])
  BY <1>1, DecoderAssumption DEF TypeOK
<1> QED
  BY <1>1, <1>2 DEF Here

LEMMA ConstantTypes ==
  ASSUME TypeOK
  PROVE  /\ text \in Seq(Char) /\ Len(text) \in Nat
         /\ ChunkSizes[text] \subseteq Nat
         /\ codec \in Seq(Kernel) /\ Len(codec) \in Nat
BY DecoderAssumption DEF TypeOK

\* The open group takes its share of the budget.
LEMMA WithinBudget ==
  ASSUME NEW n \in Nat, NEW l \in Nat, NEW b \in 0..3,
         4 * (l - DecPrefixLen(b)) <= 3 * (n - b)
  PROVE  4 * l <= 3 * n /\ l <= DecPrefixLen(n)
<1>1. DecPrefixLen(0) = 0 /\ DecPrefixLen(1) = 0 /\ DecPrefixLen(2) = 1 /\ DecPrefixLen(3) = 2
  BY DEF DecPrefixLen
<1>2. 4 * l <= 3 * n
  BY <1>1
<1> QED
  BY <1>2, DecPrefixBound

LEMMA LengthBound ==
  ASSUME TypeOK, BudgetInv
  PROVE  4 * Len(out) <= 3 * s /\ Len(out) <= DecPrefixLen(s)
<1>1. Len(out) \in Nat /\ s \in Nat /\ Live.bytes \in 0..3
  BY DEF TypeOK, StateType, Live
<1>2. CASE Live.eof = 0
  BY <1>1, <1>2, WithinBudget DEF BudgetInv
<1>3. CASE Live.eof # 0
  BY <1>1, <1>3, DecPrefixBound DEF BudgetInv
<1> QED
  BY <1>2, <1>3

\* Inside a call of a stream that has not failed all characters so far are data.
LEMMA DataSoFar ==
  ASSUME IndInv, InCall, ~ failed
  PROVE  /\ Consumed(st, s, s) /\ Carried(st, s) /\ Holds(s)
         /\ \A i \in 1..s : text[i] \in Sextet
<1>1. PICK d \in 0..s : Consumed(st, s, d)
  BY DEF IndInv, StreamInv, Live
<1>2. st.eof = 0
  BY DEF IndInv, PlaceInv
<1>3. d = s
  BY <1>1, <1>2 DEF Consumed
<1> QED
  BY <1>1, <1>2, <1>3 DEF Consumed, DataPrefix

LEMMA InitStateType == InitState \in StateType
BY DEF InitState, StateType, Byte

THEOREM InitInv == Init => IndInv
<1> SUFFICES ASSUME Init PROVE IndInv
  OBVIOUS
<1> USE DEF Init
<1>1. TypeOK
  <2>1. out \in Seq(Byte) /\ ret \in {0, 1}
    OBVIOUS
  <2>2. failed \in BOOLEAN
    BY Zenon
  <2>3. codec \in Seq(Kernel) /\ k \in 1 .. Len(codec) + 1
    BY DecoderAssumption
  <2> QED
    BY <2>1, <2>2, <2>3, InitStateType DEF TypeOK
<1>2. PositionInv /\ FailedInv /\ PlaceInv /\ CountInv /\ BulkInv
  BY <1>1, ConstantTypes DEF PositionInv, FailedInv, PlaceInv, CountInv, BulkInv, InCall
<1>3. DecPrefixLen(0) = 0
  BY DEF DecPrefixLen
<1>4. Consumed(state, 0, 0)
  BY <1>3 DEF Consumed, DataPrefix, Holds, Carried, InitState, AEOF, EOF
<1>5. StreamInv /\ BudgetInv
  BY <1>3, <1>4 DEF StreamInv, BudgetInv, Live, InCall, InitState
<1>6. WritesInBuffer
  BY <1>3 DEF WritesInBuffer
<1> QED
  BY <1>1, <1>2, <1>5, <1>6 DEF IndInv

LEMMA StreamInitInv == IndInv /\ StreamInit => IndInv'
<1> SUFFICES ASSUME IndInv, StreamInit PROVE IndInv'
  OBVIOUS
<1> USE DEF StreamInit
<1>1. TypeOK /\ TypeOK'
  <2>1. TypeOK
    BY DEF IndInv
  <2>2. out' \in Seq(Byte) /\ ret' \in {0, 1} /\ state' \in StateType
    BY InitStateType
  <2>3. failed' \in BOOLEAN
    BY Zenon
  <2> QED
    BY <2>1, <2>2, <2>3 DEF TypeOK
<1>2. (PositionInv /\ FailedInv /\ PlaceInv /\ CountInv /\ BulkInv)'
  BY <1>1, ConstantTypes DEF PositionInv, FailedInv, PlaceInv, CountInv, BulkInv, InCall
<1>3. DecPrefixLen(0) = 0
  BY DEF DecPrefixLen
<1>4. Consumed(state, 0, 0)'
  BY <1>3 DEF Consumed, DataPrefix, Holds, Carried, InitState, AEOF, EOF
<1>5. (StreamInv /\ BudgetInv)'
  BY <1>3, <1>4 DEF StreamInv, BudgetInv, Live, InCall, InitState
<1>6. WritesInBuffer'
  BY <1>3 DEF WritesInBuffer
<1> QED
  BY <1>1, <1>2, <1>5, <1>6 DEF IndInv

\* A codec put in place of another finds nothing in the state that was its own.
LEMMA RechooseInv == IndInv /\ Rechoose => IndInv'
<1> SUFFICES ASSUME IndInv, Rechoose PROVE IndInv'
  OBVIOUS
<1> USE DEF IndInv, Rechoose
<1>1. codec' \in Seq(Kernel) /\ Len(codec') \in Nat
  BY DecoderAssumption
<1>2. TypeOK'
  BY <1>1 DEF TypeOK
<1>3. (PositionInv /\ FailedInv /\ PlaceInv /\ CountInv /\ BulkInv /\ WritesInBuffer)'
  BY DEF PositionInv, FailedInv, PlaceInv, CountInv, BulkInv, InCall, WritesInBuffer
<1>4. (StreamInv /\ BudgetInv)'
  BY DEF StreamInv, BudgetInv, Live, InCall, Consumed, Holds, Carried
<1> QED
  BY <1>2, <1>3, <1>4

\* What is left of the output buffer only grows with the input.
LEMMA BufferGrows ==
  ASSUME NEW e \in Nat, NEW f \in Nat, e <= f
  PROVE  DecPrefixLen(e) <= DecPrefixLen(f) /\ DecPrefixLen(e - 2) <= DecPrefixLen(f - 2)
         /\ DecPrefixLen(e) \in Int /\ DecPrefixLen(e - 2) \in Int
         /\ DecPrefixLen(f) \in Int /\ DecPrefixLen(f - 2) \in Int
BY DEF DecPrefixLen

LEMMA BufferStaysOK ==
  ASSUME TypeOK, WritesInBuffer, end' \in Nat, end <= end',
         high' = high, out' = out
  PROVE  WritesInBuffer'
<1>1. high \in Nat /\ end \in Nat
  BY DEF TypeOK
<1>2. /\ DecPrefixLen(end) <= DecPrefixLen(end')
      /\ DecPrefixLen(end - 2) <= DecPrefixLen(end' - 2)
      /\ DecPrefixLen(end) \in Int /\ DecPrefixLen(end - 2) \in Int
      /\ DecPrefixLen(end') \in Int /\ DecPrefixLen(end' - 2) \in Int
  BY <1>1, BufferGrows
<1> QED
  BY <1>1, <1>2 DEF WritesInBuffer

\* A stream that failed stays failed, whatever it is fed next.
LEMMA FailureStays ==
  ASSUME TypeOK, FailedInv, failed, end' \in Nat, end <= end', text' = text
  PROVE  ~ Viable(text, end')
<1>1. end \in Nat /\ ~ Viable(text, end)
  BY DEF FailedInv, TypeOK
<1> QED
  BY <1>1, ViableShorter

\* More input can only help the budget.
LEMMA BudgetGrows ==
  ASSUME NEW l \in Int, NEW p \in Int, NEW b \in Int, NEW n \in Int, NEW m \in Int,
         n <= m, 4 * (l - p) <= 3 * (n - b)
  PROVE  4 * (l - p) <= 3 * (m - b)
OBVIOUS

\* The updates of the struct, one field at a time and two together.
LEMMA OneUpdate ==
  \A x \in StateType, b \in 0..3, c \in Byte, e \in {0, AEOF, EOF} :
    /\ [x EXCEPT !.eof = e] = [eof |-> e, bytes |-> x.bytes, carry |-> x.carry]
    /\ [x EXCEPT !.bytes = b] = [eof |-> x.eof, bytes |-> b, carry |-> x.carry]
    /\ [x EXCEPT !.carry = c] = [eof |-> x.eof, bytes |-> x.bytes, carry |-> c]
    /\ x.eof \in {0, AEOF, EOF} /\ x.bytes \in 0..3 /\ x.carry \in Byte
BY DEF StateType

LEMMA PadUpdate ==
  ASSUME NEW x \in StateType, NEW b \in 0..3, NEW e \in {0, AEOF, EOF}
  PROVE  /\ [x EXCEPT !.bytes = b, !.eof = e] = [eof |-> e, bytes |-> b, carry |-> x.carry]
         /\ x.carry \in Byte
<1> DEFINE y == [x EXCEPT !.bytes = b]
<1>1. 0 \in Byte
  BY DEF Byte
<1>2. y = [eof |-> x.eof, bytes |-> b, carry |-> x.carry] /\ x.carry \in Byte /\ x.eof \in {0, AEOF, EOF}
  BY <1>1, OneUpdate
<1> HIDE DEF y
<1>3. y \in StateType /\ y.bytes = b /\ y.carry = x.carry
  BY <1>2 DEF StateType
<1>4. [y EXCEPT !.eof = e] = [eof |-> e, bytes |-> b, carry |-> x.carry]
  BY <1>1, <1>3, OneUpdate
<1> QED
  BY <1>2, <1>4, Zenon DEF y

LEMMA CarryUpdate ==
  ASSUME NEW x \in StateType, NEW b \in 0..3, NEW c \in Byte
  PROVE  [x EXCEPT !.carry = c, !.bytes = b] = [eof |-> x.eof, bytes |-> b, carry |-> c]
<1> DEFINE y == [x EXCEPT !.carry = c]
<1>1. y = [eof |-> x.eof, bytes |-> x.bytes, carry |-> c]
      /\ x.bytes \in 0..3 /\ x.eof \in {0, AEOF, EOF}
  BY OneUpdate
<1> HIDE DEF y
<1>2. y \in StateType /\ y.eof = x.eof /\ y.carry = c
  BY <1>1 DEF StateType
<1>3. [y EXCEPT !.bytes = b] = [eof |-> x.eof, bytes |-> b, carry |-> c]
  BY <1>2, OneUpdate
<1> QED
  BY <1>3, Zenon DEF y

LEMMA CallInv ==
  ASSUME NEW n \in ChunkSizes[text], IndInv, Call(n)
  PROVE  IndInv'
<1> USE DEF IndInv
<1>1. /\ n \in Nat /\ Len(text) \in Nat /\ end \in Nat /\ s \in Nat /\ s <= end
      /\ Len(codec) \in Nat /\ Len(out) \in Nat
  BY ConstantTypes DEF TypeOK, PositionInv
<1>2. /\ pc = "caller" /\ ~ InCall /\ Live = state
      /\ state \in StateType /\ state.eof = 0 /\ state.bytes \in 0..3
  BY DEF Call, InCall, Live, TypeOK, StateType
<1>3. /\ base' = end /\ end' = end + n /\ obase' = Len(out) /\ st' = state
      /\ s' = end /\ slen' = n /\ olen' = 0 /\ k' = 1 /\ rounds' = 0
      /\ UNCHANGED <<codec, text, out, high, state, outlen, ret, failed>>
      /\ end + n <= Len(text)
  BY DEF Call
<1>4. /\ state.bytes = 0 => pc' = "kernel"
      /\ state.bytes = 1 => pc' = "case1"
      /\ state.bytes = 2 => pc' = "case2"
      /\ state.bytes = 3 => pc' = "case3"
      /\ pc' \in {"kernel", "case1", "case2", "case3"}
  BY <1>2 DEF Call, Entry
<1>5. InCall' /\ Live' = state
  BY <1>3, <1>4 DEF InCall, Live
<1>6. TypeOK'
  BY <1>1, <1>2, <1>3, <1>4 DEF TypeOK
<1>7. PositionInv' /\ CountInv' /\ BulkInv'
  BY <1>1, <1>3, <1>4, <1>5 DEF PositionInv, CountInv, BulkInv
<1>8. PlaceInv'
  BY <1>2, <1>3, <1>4 DEF PlaceInv, InCall
<1>9. StreamInv'
  <2> SUFFICES ASSUME ~ failed PROVE \E d \in 0..s' : Consumed(Live, s, d)'
    BY <1>3 DEF StreamInv
  <2>1. s = end
    BY <1>2 DEF PositionInv
  <2>2. PICK d \in 0..end : Consumed(state, end, d)
    BY <1>2, <2>1 DEF StreamInv
  <2>3. Consumed(Live, s, d)'
    BY <1>3, <1>5, <2>1, <2>2 DEF Consumed, Holds, Carried
  <2> QED
    BY <1>3, <2>3
<1>10. FailedInv'
  BY <1>1, <1>3, FailureStays DEF FailedInv
<1>11. BudgetInv'
  <2>1. 4 * (Len(out) - DecPrefixLen(state.bytes)) <= 3 * (s - state.bytes)
    BY <1>2 DEF BudgetInv
  <2>2. DecPrefixLen(state.bytes) \in Int
    BY <1>2, NextDecPrefix
  <2>3. 4 * (Len(out) - DecPrefixLen(state.bytes)) <= 3 * (end - state.bytes)
    <3> DEFINE b == state.bytes
               p == DecPrefixLen(b)
               l == Len(out)
    <3>1. l \in Int /\ p \in Int /\ b \in Int /\ s \in Int /\ end \in Int
      BY <1>1, <1>2, <2>2
    <3>2. s <= end /\ 4 * (l - p) <= 3 * (s - b)
      BY <1>1, <2>1
    <3> HIDE DEF b, p, l
    <3>3. 4 * (l - p) <= 3 * (end - b)
      BY <3>1, <3>2, BudgetGrows
    <3> QED
      BY <3>3 DEF b, p, l
  <2> QED
    BY <1>2, <1>3, <1>5, <2>3 DEF BudgetInv
<1>12. WritesInBuffer'
  BY <1>1, <1>3, BufferStaysOK
<1> QED
  BY <1>6, <1>7, <1>8, <1>9, <1>10, <1>11, <1>12

\* After the almost-end the one missing '=' completes the text; anything else
\* after the end of the data is a fault for good.
LEMMA CallAfterEofInv ==
  ASSUME NEW n \in ChunkSizes[text], IndInv, CallAfterEof(n)
  PROVE  IndInv'
<1> USE DEF IndInv
<1>1. /\ n \in Nat /\ Len(text) \in Nat /\ end \in Nat /\ s \in Nat /\ s <= end
      /\ Len(codec) \in Nat /\ Len(out) \in Nat /\ end + n <= Len(text)
  BY ConstantTypes DEF TypeOK, PositionInv, CallAfterEof
<1>2. /\ pc = "caller" /\ pc' = "caller" /\ ~ InCall /\ ~ InCall'
      /\ Live = state /\ Live' = state'
      /\ state \in StateType /\ state.eof \in {AEOF, EOF}
  BY DEF CallAfterEof, InCall, Live, TypeOK, StateType
<1>3. /\ base' = end /\ end' = end + n /\ obase' = Len(out) /\ outlen' = 0
      /\ UNCHANGED <<codec, text, out, high, pc, st, slen, olen, k, rounds>>
      /\ failed' = (failed \/ (n > 0 /\ ret' = 0))
  BY DEF CallAfterEof
<1>6. failed' <=> (failed \/ (n > 0 /\ ret' = 0))
  BY <1>3, Zenon
<1>4. CASE n > 0 /\ state.eof = AEOF
  <2>1. /\ state' = [state EXCEPT !.bytes = 0, !.eof = EOF]
        /\ ret' = IF text[end + 1] = Pad /\ n = 1 THEN 1 ELSE 0
        /\ s' = end + 1
    BY <1>4 DEF CallAfterEof
  <2>2. /\ state' \in StateType /\ state'.eof = EOF /\ state'.bytes = 0
        /\ ret' \in {0, 1} /\ failed' \in BOOLEAN
    <3>1. state' \in StateType /\ state'.eof = EOF /\ state'.bytes = 0
      <4>1. /\ 0 \in 0..3 /\ 0 \in Byte /\ EOF \in {0, AEOF, EOF}
        BY DEF Byte
      <4>2. /\ state' = [eof |-> EOF, bytes |-> 0, carry |-> state.carry]
            /\ state.carry \in Byte
        BY <1>2, <2>1, <4>1, PadUpdate, Zenon
      <4> QED
        BY <4>1, <4>2 DEF StateType
    <3>2. failed' \in BOOLEAN
      BY <1>3, Zenon DEF TypeOK
    <3> QED
      BY <2>1, <3>1, <3>2
  <2>3. TypeOK'
    <3>1. s' \in Nat /\ base' \in Nat /\ end' \in Nat /\ obase' \in Nat /\ outlen' \in Nat
      BY <1>1, <1>3, <2>1
    <3> QED
      BY <1>3, <2>2, <3>1 DEF TypeOK
  <2>4. BudgetInv'
    <3>1. 4 * Len(out) <= 3 * s
      BY LengthBound
    <3> QED
      BY <1>1, <1>2, <1>3, <2>1, <2>2, <3>1 DEF BudgetInv, EOF
  <2>5. ASSUME ~ failed
        PROVE  /\ s = end /\ end >= 1 /\ end % 4 = 3
               /\ DataPrefix(text, end, end - 1) /\ text[end] = Pad /\ Holds(end - 1)
    <3>1. s = end
      BY <1>2, <2>5 DEF PositionInv
    <3>2. PICK d \in 0..end : Consumed(state, end, d)
      BY <1>2, <2>5, <3>1 DEF StreamInv
    <3>3. d = end - 1 /\ end % 4 = 3
      BY <1>4, <3>2 DEF Consumed
    <3> QED
      BY <1>1, <3>1, <3>2, <3>3 DEF Consumed
  <2>6. ~ failed => DataPrefix(text, end + n, end - 1)
    <3> SUFFICES ASSUME ~ failed PROVE DataPrefix(text, end + n, end - 1)
      OBVIOUS
    <3>1. \A i \in 1 .. end - 1 : text[i] \in Sextet
      BY <2>5 DEF DataPrefix
    <3>2. text[(end - 1) + 1] \notin Sextet
      <4>1. (end - 1) + 1 = end /\ text[end] = Pad
        BY <1>1, <2>5
      <4>2. Pad \notin Sextet
        BY DEF Pad, Sextet
      <4> QED
        BY <4>1, <4>2
    <3>3. end - 1 <= end + n
      BY <1>1
    <3> QED
      BY <3>1, <3>2, <3>3 DEF DataPrefix
  <2>7. StreamInv'
    <3> SUFFICES ASSUME ~ failed, ret' = 1
                 PROVE  \E d \in 0..s' : Consumed(Live, s, d)'
      BY <1>4, <1>6, <2>2 DEF StreamInv
    <3>1. text[end + 1] = Pad /\ n = 1
      BY <2>1
    <3>2. PICK d \in Nat : d = end - 1
      BY <1>1, <2>5
    <3>3. Consumed(Live, s, d)'
      <4>1. /\ s' = d + 2 /\ s' % 4 = 0 /\ text' = text /\ out' = out
            /\ Live'.eof = EOF /\ Live'.bytes = 0
        <5>1. end = d + 1 /\ end % 4 = 3 /\ s' = end + 1
          BY <1>1, <2>1, <2>5, <3>2
        <5>2. (d + 2) % 4 = 0 /\ s' = d + 2
          BY <5>1
        <5> QED
          BY <1>2, <1>3, <2>2, <5>2
      <4>2. DataPrefix(text, d + 2, d) /\ Holds(d) /\ text[d + 1] = Pad /\ text[d + 2] = Pad
        BY <1>1, <2>5, <2>6, <3>1, <3>2
      <4>3. \A i \in d + 1 .. s' : text[i] = Pad
        BY <4>1, <4>2
      <4>4. Holds(d)'
        BY <4>1, <4>2 DEF Holds
      <4>5. d \in {s' - 1, s' - 2} /\ EOF # 0 /\ EOF # AEOF /\ DataPrefix(text', s', d)
        BY <4>1, <4>2, <3>2 DEF AEOF, EOF
      <4> QED
        BY <4>1, <4>3, <4>4, <4>5 DEF Consumed
    <3> QED
      BY <1>1, <2>1, <3>2, <3>3
  <2>8. FailedInv'
    <3> SUFFICES ASSUME failed' PROVE ~ Viable(text, end + n)
      BY <1>3 DEF FailedInv
    <3>1. CASE failed
      BY <1>1, <1>3, <3>1, FailureStays
    <3>2. CASE ~ failed
      <4>1. ~ (text[end + 1] = Pad /\ n = 1)
        BY <1>6, <2>1, <3>2
      <4>2. ~ PadsRight(text, end + n, end - 1)
        BY <1>1, <1>4, <2>5, <3>2, <4>1 DEF PadsRight
      <4>3. end - 1 \in 0 .. end + n /\ end + n \in Nat
        BY <1>1, <2>5, <3>2
      <4> QED
        BY <2>6, <3>2, <4>2, <4>3, ViableAt
    <3> QED
      BY <3>1, <3>2
  <2>9. PositionInv'
    <3>1. ~ failed' => n = 1
      BY <1>3, <1>4, <2>1
    <3> QED
      BY <1>1, <1>2, <1>3, <1>4, <2>1, <3>1 DEF PositionInv
  <2> QED
    BY <1>1, <1>2, <1>3, <2>3, <2>4, <2>7, <2>8, <2>9, BufferStaysOK
       DEF PlaceInv, CountInv, BulkInv
<1>5. CASE ~ (n > 0 /\ state.eof = AEOF)
  <2>1. ret' = 0 /\ state' = state /\ s' = end
    BY <1>5 DEF CallAfterEof
  <2>2. failed' \in BOOLEAN
    BY <1>3, Zenon DEF TypeOK
  <2>3. TypeOK'
    BY <1>1, <1>3, <2>1, <2>2 DEF TypeOK
  <2>4. BudgetInv'
    <3>1. 4 * Len(out) <= 3 * s
      BY LengthBound
    <3> QED
      BY <1>1, <1>2, <1>3, <2>1, <3>1 DEF BudgetInv, AEOF, EOF
  <2>5. ASSUME ~ failed
        PROVE  s = end /\ \E d \in 0..end : Consumed(state, end, d)
    BY <1>2, <2>5 DEF PositionInv, StreamInv
  <2>6. StreamInv'
    <3> SUFFICES ASSUME ~ failed PROVE \E d \in 0..s' : Consumed(Live, s, d)'
      BY <1>6 DEF StreamInv
    <3>1. PICK d \in 0..end : Consumed(state, end, d)
      BY <2>5
    <3>2. Consumed(Live, s, d)'
      BY <1>2, <1>3, <2>1, <2>5, <3>1 DEF Consumed, Holds, Carried
    <3> QED
      BY <2>1, <3>2
  <2>7. FailedInv'
    <3> SUFFICES ASSUME failed' PROVE ~ Viable(text, end + n)
      BY <1>3 DEF FailedInv
    <3>1. CASE failed
      BY <1>1, <1>3, <3>1, FailureStays
    <3>2. CASE ~ failed
      <4>1. n > 0 /\ state.eof = EOF
        BY <1>2, <1>3, <1>5, <3>2
      <4>2. PICK d \in 0..end : Consumed(state, end, d)
        BY <2>5, <3>2
      <4>3. d \in {end - 1, end - 2} /\ end % 4 = 0 /\ text[d + 1] = Pad
        BY <1>1, <4>1, <4>2 DEF Consumed
      <4>4. DataPrefix(text, end + n, d) /\ d \in 0 .. end + n /\ end + n \in Nat
        <5>1. \A i \in 1..d : text[i] \in Sextet
          BY <4>2 DEF Consumed, DataPrefix
        <5>2. text[d + 1] \notin Sextet
          BY <4>3 DEF Sextet, Pad
        <5>3. d \in 0 .. end + n /\ end + n \in Nat
          BY <1>1, <4>1
        <5> QED
          BY <5>1, <5>2, <5>3 DEF DataPrefix
      <4>5. ~ PadsRight(text, end + n, d)
        <5>1. d + 1 < end + n
          BY <1>1, <4>1, <4>3
        <5>2. d % 4 # 2 \/ end + n # d + 2
          <6>1. CASE d = end - 1
            BY <1>1, <4>3, <6>1
          <6>2. CASE d = end - 2
            BY <1>1, <4>1, <6>2
          <6> QED
            BY <4>3, <6>1, <6>2
        <5> QED
          BY <5>1, <5>2 DEF PadsRight
      <4> QED
        BY <4>4, <4>5, ViableAt
    <3> QED
      BY <3>1, <3>2
  <2>8. PositionInv'
    <3>1. ~ failed' => n = 0
      BY <1>1, <1>6, <2>1
    <3> QED
      BY <1>1, <1>2, <1>3, <2>1, <3>1 DEF PositionInv
  <2> QED
    BY <1>1, <1>2, <1>3, <2>3, <2>4, <2>6, <2>7, <2>8, BufferStaysOK
       DEF PlaceInv, CountInv, BulkInv
<1> QED
  BY <1>4, <1>5

\* The steps of a call that leave text, output and cursor alone.
LEMMA QuietStep ==
  ASSUME IndInv, InCall, InCall', TypeOK', CountInv', BulkInv',
         pc \in {"kernel", "bulk"}, pc' \in {"kernel", "bulk"},
         UNCHANGED <<text, out, high, state, base, end, obase, failed, st, s>>
  PROVE  IndInv'
<1> USE DEF IndInv
<1>1. Live = st /\ Live' = st
  BY DEF Live
<1>2. PositionInv' /\ FailedInv' /\ WritesInBuffer'
  BY DEF PositionInv, FailedInv, WritesInBuffer
<1>3. PlaceInv'
  <2>1. st.eof = 0 /\ st.bytes = 0
    BY DEF PlaceInv
  <2> QED
    BY <2>1 DEF PlaceInv
<1>4. BudgetInv'
  BY <1>1 DEF BudgetInv
<1>5. StreamInv'
  BY <1>1 DEF StreamInv, Consumed, Holds, Carried
<1> QED
  BY <1>2, <1>3, <1>4, <1>5

LEMMA KernelSkipInv == IndInv /\ KernelSkip => IndInv'
<1> SUFFICES ASSUME IndInv, KernelSkip PROVE IndInv'
  OBVIOUS
<1> USE DEF KernelSkip
<1>1. TypeOK' /\ CountInv' /\ BulkInv' /\ InCall /\ InCall'
  BY DEF IndInv, TypeOK, CountInv, BulkInv, InCall
<1> QED
  BY <1>1, QuietStep

LEMMA HereNumbers ==
  ASSUME TypeOK, k <= Len(codec)
  PROVE  /\ Here.guard \in Nat /\ Here.reserve \in Nat /\ Here.store \in Nat
         /\ Here.block \in Nat /\ Here.block > 0
         /\ Here.block = 4 * (Here.block \div 4) /\ Here.block \div 4 \in Nat
         /\ Produced(Here) = 3 * (Here.block \div 4) /\ Produced(Here) \in Nat
         /\ Here.guard >= Here.reserve + Here.block
         /\ Here.store >= Produced(Here)
         /\ Here.store > Produced(Here) =>
              4 * (Here.store - Produced(Here)) <= 3 * (Here.reserve - 2)
<1>1. Here \in Kernel /\ KernelOK(Here)
  BY HereOK
<1>2. /\ Here.guard \in Nat /\ Here.reserve \in Nat /\ Here.store \in Nat
      /\ Here.block \in Nat
  BY <1>1 DEF Kernel
<1>3. /\ Here.block > 0 /\ Here.block % 4 = 0
      /\ Here.guard >= Here.reserve + Here.block
      /\ Gap(Here) >= 0
      /\ Gap(Here) > 0 => 4 * Gap(Here) <= 3 * (Here.reserve - 2)
  BY <1>1 DEF KernelOK
<1> DEFINE b == Here.block
           m == b \div 4
           p == Produced(Here)
           w == Here.store
<1>4. p = 3 * m /\ Gap(Here) = w - p
  BY DEF Produced, Gap
<1> HIDE DEF b, p, w
<1>5. b \in Nat /\ b % 4 = 0
  BY <1>2, <1>3 DEF b
<1>6. b = 4 * m /\ m \in Nat
  BY <1>5
<1> HIDE DEF m
<1>7. p \in Nat /\ w \in Nat
  BY <1>2, <1>4, <1>6 DEF w
<1>8. w >= p /\ (w > p => 4 * (w - p) <= 3 * (Here.reserve - 2))
  BY <1>2, <1>3, <1>4, <1>7
<1> QED
  BY <1>2, <1>3, <1>4, <1>6, <1>7, <1>8 DEF b, m, p, w

LEMMA KernelEnterInv == IndInv /\ KernelEnter => IndInv'
<1> SUFFICES ASSUME IndInv, KernelEnter PROVE IndInv'
  OBVIOUS
<1> DEFINE b == Here.block
           m == Produced(Here)
           r == (slen - Here.reserve) \div b
           rb == r * b
           rm == r * m
<1>1. TypeOK /\ pc = "kernel" /\ k <= Len(codec) /\ slen >= Here.guard /\ slen \in Nat
  BY DEF IndInv, TypeOK, KernelEnter
<1>2. /\ b \in Nat /\ b > 0 /\ m \in Nat /\ Here.reserve \in Nat /\ Here.guard \in Nat
      /\ slen >= Here.reserve + b
  <2>1. /\ b \in Nat /\ b > 0 /\ m \in Nat /\ Here.reserve \in Nat /\ Here.guard \in Nat
        /\ Here.guard >= Here.reserve + b
    BY <1>1, HereNumbers
  <2> QED
    BY <1>1, <2>1
<1>3. /\ rounds' = r /\ slen' = slen - rb /\ olen' = olen + rm
      /\ pc' = "bulk"
      /\ UNCHANGED <<codec, text, out, high, state, base, end, obase, outlen, ret,
                     failed, st, s, k>>
  BY DEF KernelEnter
<1> HIDE DEF b, m
<1>4. r \in Nat /\ r >= 1 /\ rb \in Nat /\ slen - rb \in Nat /\ slen - rb >= Here.reserve
  BY <1>1, <1>2, RoundsFit
<1> HIDE DEF r
<1>5. rm \in Nat
  BY <1>2, <1>4
<1>6. /\ slen = end - s /\ olen = Len(out) - obase
      /\ s \in Nat /\ end \in Nat /\ olen \in Nat /\ obase \in Nat
  BY <1>1 DEF IndInv, CountInv, TypeOK, InCall
<1>7. InCall /\ InCall' /\ CountInv'
  BY <1>1, <1>3 DEF InCall, CountInv
<1>8. BulkInv'
  <2>1. Here' = Here /\ Produced(Here)' = Produced(Here)
    BY <1>3 DEF Here, Produced
  <2>2. s' + slen' + rounds' * b = end'
    <3> HIDE DEF rb
    <3>1. s + (slen - rb) + rb = end
      BY <1>1, <1>4, <1>6
    <3> QED
      BY <1>3, <3>1 DEF rb
  <2>3. olen' = Len(out') - obase' + rounds' * m
    BY <1>3, <1>6
  <2> QED
    BY <1>1, <1>3, <1>4, <2>1, <2>2, <2>3 DEF BulkInv, b, m
<1>9. TypeOK'
  <2> HIDE DEF rb, rm
  <2>1. slen' \in Nat /\ olen' \in Nat /\ rounds' \in Nat
    BY <1>3, <1>4, <1>5, <1>6
  <2> QED
    BY <1>1, <1>3, <2>1 DEF TypeOK
<1> QED
  BY <1>1, <1>3, <1>7, <1>8, <1>9, QuietStep

\* A bulk loop between two rounds: what it has booked and not yet run.
LEMMA BulkFacts ==
  ASSUME IndInv, pc = "bulk"
  PROVE  /\ k \in Nat /\ k + 1 \in 1 .. Len(codec) + 1
         /\ rounds * Here.block \in Nat /\ rounds * Here.block >= Here.block
         /\ rounds * Produced(Here) \in Nat
         /\ s + slen + rounds * Here.block = end
         /\ olen = Len(out) - obase + rounds * Produced(Here)
         /\ slen >= Here.reserve /\ st.eof = 0 /\ st.bytes = 0 /\ InCall /\ Live = st
<1>1. /\ TypeOK /\ k <= Len(codec) /\ rounds >= 1
      /\ s + slen + rounds * Here.block = end
      /\ olen = Len(out) - obase + rounds * Produced(Here)
      /\ slen >= Here.reserve
  BY DEF IndInv, BulkInv
<1>2. InCall /\ Live = st /\ st.eof = 0 /\ st.bytes = 0
  BY DEF InCall, Live, IndInv, PlaceInv
<1>3. rounds \in Nat /\ k \in 1 .. Len(codec) + 1 /\ Len(codec) \in Nat
  BY <1>1, ConstantTypes DEF TypeOK
<1>4. Here.block \in Nat /\ Produced(Here) \in Nat
  BY <1>1, HereNumbers
<1>5. /\ rounds * Here.block \in Nat /\ rounds * Here.block >= Here.block
      /\ rounds * Produced(Here) \in Nat
  BY <1>1, <1>3, <1>4, OneRoundLess
<1> QED
  BY <1>1, <1>2, <1>3, <1>5

\* What was booked and not run is given back to the last unit.
LEMMA KernelBailOutInv == IndInv /\ KernelBailOut => IndInv'
<1> SUFFICES ASSUME IndInv, KernelBailOut PROVE IndInv'
  OBVIOUS
<1> DEFINE rb == rounds * Here.block
           rm == rounds * Produced(Here)
<1>1. /\ pc = "bulk" /\ pc' = "kernel" /\ k' = k + 1
      /\ slen' = slen + rb /\ olen' = olen - rm
      /\ UNCHANGED <<codec, text, out, high, state, base, end, obase, outlen, ret,
                     failed, st, s, rounds>>
  BY DEF KernelBailOut
<1>2. /\ k + 1 \in 1 .. Len(codec) + 1
      /\ rb \in Nat /\ rm \in Nat /\ InCall
      /\ s + slen + rb = end /\ olen = Len(out) - obase + rm
  BY <1>1, BulkFacts
<1> HIDE DEF rb, rm
<1>3. /\ TypeOK /\ slen \in Nat /\ s \in Nat /\ end \in Nat /\ olen \in Nat /\ obase \in Nat
      /\ obase <= Len(out) /\ Len(out) \in Nat
  BY DEF IndInv, TypeOK, PositionInv
<1>4. slen' = end - s /\ olen' = Len(out) - obase /\ slen' \in Nat /\ olen' \in Nat
  BY <1>1, <1>2, <1>3
<1>5. TypeOK'
  BY <1>1, <1>2, <1>3, <1>4 DEF TypeOK
<1>6. CountInv' /\ BulkInv' /\ InCall'
  BY <1>1, <1>4 DEF CountInv, BulkInv, InCall
<1> QED
  BY <1>1, <1>2, <1>5, <1>6, QuietStep

\* A write up to w, of the output or of a round with its zeros.
LEMMA WriteOK ==
  ASSUME TypeOK, WritesInBuffer, NEW w \in Nat,
         high' = Max2(high, w), end' = end,
         Len(out') \in Nat, Len(out) <= Len(out'),
         w <= DecPrefixLen(end),
         w > Len(out') => w <= DecPrefixLen(end - 2)
  PROVE  WritesInBuffer' /\ high' \in Nat
<1>1. high \in Nat /\ end \in Nat /\ Len(out) \in Nat
  BY DEF TypeOK
<1>2. high' \in {high, w} /\ high' \in Nat
  BY <1>1 DEF Max2
<1>3. DecPrefixLen(end) \in Int /\ DecPrefixLen(end - 2) \in Int
  BY <1>1, BufferGrows
<1> QED
  BY <1>1, <1>2, <1>3 DEF WritesInBuffer

\* The zeros a round writes after its output stay where the characters it leaves
\* behind will write.
LEMMA RoundInBuffer ==
  ASSUME NEW n \in Nat, NEW e \in Nat, NEW l \in Nat, NEW m \in Nat,
         NEW r \in Nat, NEW w \in Nat,
         4 * l <= 3 * n, n + 4 * m + r <= e, w >= 3 * m,
         w > 3 * m => 4 * (w - 3 * m) <= 3 * (r - 2)
  PROVE  /\ l + w <= DecPrefixLen(e)
         /\ l + w > l + 3 * m => l + w <= DecPrefixLen(e - 2)
<1>1. CASE w = 3 * m
  BY <1>1, 4 * (l + w) <= 3 * e, DecPrefixBound
<1>2. CASE w > 3 * m
  <2>1. 4 * (l + w) <= 3 * (e - 2) /\ 4 * (l + w) <= 3 * e /\ e - 2 \in Nat
    BY <1>2
  <2> QED
    BY <2>1, DecPrefixBound
<1> QED
  BY <1>1, <1>2

LEMMA KernelRoundInv == IndInv /\ KernelRound => IndInv'
<1> SUFFICES ASSUME IndInv, KernelRound PROVE IndInv'
  OBVIOUS
<1> DEFINE b == Here.block
           m == Here.block \div 4
           p == Produced(Here)
           x == BlockOut(SubSeq(text, s + 1, s + b))
           rb == rounds * b
           rp == rounds * p
<1>1. TypeOK /\ pc = "bulk" /\ k <= Len(codec) /\ rounds >= 1
  BY DEF IndInv, BulkInv, KernelRound
<1>2. /\ b \in Nat /\ m \in Nat /\ b = 4 * m /\ b > 0 /\ p = 3 * m
      /\ Here.reserve \in Nat /\ Here.store \in Nat /\ Here.store >= 3 * m
      /\ Here.store > 3 * m => 4 * (Here.store - 3 * m) <= 3 * (Here.reserve - 2)
  <2>1. p = 3 * m
    BY <1>1, HereNumbers
  <2> QED
    BY <1>1, <2>1, HereNumbers
<1>3. /\ k \in Nat /\ k + 1 \in 1 .. Len(codec) + 1
      /\ rb \in Nat /\ rp \in Nat /\ rb >= b
      /\ s + slen + rb = end /\ olen = Len(out) - obase + rp
      /\ slen >= Here.reserve /\ st.eof = 0 /\ st.bytes = 0 /\ InCall /\ Live = st
  BY <1>1, BulkFacts
<1>4. /\ s \in Nat /\ slen \in Nat /\ rounds \in Nat /\ end \in Nat /\ base \in Nat
      /\ obase \in Nat /\ olen \in Nat /\ base <= s /\ s <= end /\ end <= Len(text)
      /\ obase <= Len(out) /\ Len(out) \in Nat /\ out \in Seq(Byte)
      /\ text \in Seq(Char) /\ Len(text) \in Nat
  BY <1>1, ConstantTypes DEF IndInv, TypeOK, PositionInv
<1>5. /\ out' = out \o x /\ s' = s + b /\ rounds' = rounds - 1
      /\ high' = Max2(high, Len(out) + Here.store)
      /\ UNCHANGED <<codec, text, state, base, end, obase, outlen, ret, failed, st, slen, olen>>
      /\ \/ pc' = "bulk" /\ k' = k /\ rounds > 1
         \/ pc' = "kernel" /\ k' = k + 1 /\ rounds = 1
      /\ \A i \in s + 1 .. s + b : text[i] \in Sextet
  BY <1>1, <1>4 DEF KernelRound, ValidBlock
<1> HIDE DEF b, m, p
<1>6. /\ (rounds - 1) * b = rb - b /\ (rounds - 1) * p = rp - p
      /\ rounds > 1 => rb - b >= b
      /\ rounds = 1 => rb = b /\ rp = p
  <2>1. p \in Nat
    BY <1>2
  <2> QED
    BY <1>1, <1>2, <1>4, <2>1, OneRoundLess
<1> HIDE DEF rb, rp
<1>7. s + 4 * m + Here.reserve <= end /\ s + 4 * m <= Len(text)
  BY <1>2, <1>3, <1>4, SMTT(30)
<1>8. /\ x \in Seq(Byte) /\ Len(x) = 3 * m
      /\ s % 4 = 0 => \A i \in 1 .. 3 * m : x[i] = DecByte(text, DecPrefixLen(s) + i)
  <2>1. \A i \in s + 1 .. s + 4 * m : text[i] \in Sextet
    BY <1>2, <1>5
  <2>2. RoundIsDecoding(text, s, m)
    BY <1>2, <1>4, <1>7, <2>1, BlockIsDecoding
  <2> QED
    BY <1>2, <2>2 DEF RoundIsDecoding
<1> HIDE DEF x
<1>9. out' \in Seq(Byte) /\ Len(out') = Len(out) + 3 * m /\ Len(out') \in Nat
  <2>1. out \o x \in Seq(Byte) /\ Len(out \o x) = Len(out) + Len(x)
    BY <1>4, <1>8
  <2> QED
    BY <1>2, <1>4, <1>5, <1>8, <2>1
<1>10. 4 * Len(out) <= 3 * s
  BY <1>1, LengthBound DEF IndInv
<1>11. WritesInBuffer' /\ high' \in Nat
  <2> DEFINE w == Len(out) + Here.store
  <2>1. /\ w \in Nat /\ w <= DecPrefixLen(end)
        /\ w > Len(out') => w <= DecPrefixLen(end - 2)
    <3> DEFINE l == Len(out)
               r == Here.reserve
               z == Here.store
    <3>1. /\ l \in Nat /\ r \in Nat /\ z \in Nat /\ m \in Nat /\ s \in Nat /\ end \in Nat
          /\ 4 * l <= 3 * s /\ s + 4 * m + r <= end /\ z >= 3 * m
          /\ z > 3 * m => 4 * (z - 3 * m) <= 3 * (r - 2)
      BY <1>2, <1>4, <1>7, <1>10
    <3>2. Len(out') = l + 3 * m
      BY <1>9
    <3> HIDE DEF l, r, z
    <3>3. /\ l + z <= DecPrefixLen(end)
          /\ l + z > l + 3 * m => l + z <= DecPrefixLen(end - 2)
      BY <3>1, RoundInBuffer, Zenon
    <3>4. l + z \in Nat
      BY <3>1
    <3> QED
      BY <3>2, <3>3, <3>4 DEF l, z
  <2>2. end' = end /\ high' = Max2(high, w) /\ Len(out) <= Len(out') /\ Len(out') \in Nat
    BY <1>2, <1>4, <1>5, <1>9
  <2> HIDE DEF w
  <2> QED
    BY <1>1, <2>1, <2>2, WriteOK DEF IndInv
<1>12. InCall' /\ Live' = st
  BY <1>5 DEF InCall, Live
<1>13. s' \in Nat /\ rounds' \in Nat /\ s' <= end /\ base <= s'
  BY <1>1, <1>2, <1>4, <1>5, <1>7
<1>14. TypeOK'
  <2>1. k' \in 1 .. Len(codec) + 1
    BY <1>1, <1>3, <1>5 DEF TypeOK
  <2> QED
    BY <1>1, <1>5, <1>9, <1>11, <1>13, <2>1 DEF TypeOK
<1>15. PositionInv'
  <2>1. obase <= Len(out')
    BY <1>2, <1>4, <1>9
  <2> QED
    BY <1>4, <1>5, <1>12, <1>13, <2>1 DEF PositionInv
<1>16. StreamInv'
  <2> SUFFICES ASSUME ~ failed PROVE \E d \in 0..s' : Consumed(Live, s, d)'
    BY <1>5 DEF StreamInv
  <2>1. Carried(st, s) /\ Holds(s) /\ \A i \in 1..s : text[i] \in Sextet
    BY <1>3, DataSoFar
  <2>2. s % 4 = 0 /\ s' = s + 4 * m
    BY <1>2, <1>3, <1>5, <2>1 DEF Carried
  <2>3. s' % 4 = 0 /\ DecPrefixLen(s + 4 * m) = DecPrefixLen(s) + 3 * m
    BY <1>2, <1>4, <2>2, BlockDecPrefix
  <2>4. PICK d \in Nat : d = s + 4 * m
    BY <1>2, <1>4
  <2>5. Holds(d)'
    <3>1. Len(out) = DecPrefixLen(s) /\ \A i \in 1..Len(out) : out[i] = DecByte(text, i)
      BY <2>1 DEF Holds
    <3>2. \A i \in 1..Len(x) : x[i] = DecByte(text, Len(out) + i)
      BY <1>8, <2>2, <3>1
    <3>3. \A i \in 1..Len(out \o x) : (out \o x)[i] = DecByte(text, i)
      BY <1>4, <1>8, <3>1, <3>2, AppendBytes
    <3> QED
      BY <1>5, <1>9, <2>3, <2>4, <3>1, <3>3 DEF Holds
  <2>6. \A i \in 1..d : text[i] \in Sextet
    BY <1>2, <1>4, <1>5, <2>1, <2>4
  <2>7. DataPrefix(text, s, d)' /\ d \in 0..s' /\ d = s'
    BY <1>5, <2>2, <2>4, <2>6 DEF DataPrefix
  <2>8. Carried(Live, s)'
    BY <1>3, <1>12, <2>2, <2>3 DEF Carried
  <2>9. Live'.eof = 0 /\ 0 # AEOF /\ 0 # EOF /\ \A i \in d + 1 .. s' : text'[i] = Pad
    <3>1. \A i \in d + 1 .. s' : FALSE
      <4>1. \A i \in d + 1 .. d : FALSE
        OBVIOUS
      <4> QED
        BY <2>7, <4>1
    <3>2. Live'.eof = 0
      BY <1>3, <1>12
    <3> QED
      BY <3>1, <3>2 DEF AEOF, EOF
  <2>10. Consumed(Live, s, d)'
    BY <2>5, <2>7, <2>8, <2>9 DEF Consumed
  <2> QED
    BY <2>7, <2>10
<1>17. FailedInv' /\ PlaceInv'
  <2>1. PlaceInv'
    BY <1>3, <1>5 DEF PlaceInv
  <2> QED
    BY <1>5, <2>1 DEF IndInv, FailedInv
<1>18. CountInv'
  <2> SUFFICES ASSUME pc' = "kernel" PROVE slen' = end' - s' /\ olen' = Len(out') - obase'
    BY <1>5, <1>12 DEF CountInv
  <2>1. s + slen + b = end /\ olen = Len(out) - obase + 3 * m
    BY <1>2, <1>3, <1>5, <1>6
  <2> QED
    BY <1>2, <1>4, <1>5, <1>9, <2>1
<1>19. BudgetInv'
  <2>1. 4 * (Len(out') - DecPrefixLen(0)) <= 3 * (s' - 0)
    <3>1. DecPrefixLen(0) = 0
      BY DEF DecPrefixLen
    <3>2. Len(out') = Len(out) + 3 * m /\ s' = s + 4 * m
      BY <1>2, <1>5, <1>9
    <3> QED
      BY <1>2, <1>4, <1>10, <3>1, <3>2
  <2> QED
    BY <1>3, <1>12, <2>1 DEF BudgetInv
<1>20. BulkInv'
  <2> SUFFICES ASSUME pc' = "bulk" PROVE BulkInv'
    BY DEF BulkInv
  <2>1. /\ k' = k /\ Here' = Here /\ Produced(Here)' = Produced(Here)
        /\ rounds > 1 /\ rounds' >= 1
    BY <1>4, <1>5 DEF Here, Produced
  <2>2. s' + slen' + rounds' * b = end'
    <3>1. (s + b) + slen + (rb - b) = end
      BY <1>2, <1>3, <1>4
    <3> QED
      BY <1>5, <1>6, <3>1
  <2>3. olen' = Len(out') - obase' + rounds' * p
    <3>1. olen = (Len(out) + 3 * m) - obase + (rp - p)
      BY <1>2, <1>3, <1>4
    <3> QED
      BY <1>5, <1>6, <1>9, <3>1
  <2> QED
    BY <1>1, <1>3, <1>5, <2>1, <2>2, <2>3 DEF BulkInv, b, p
<1> QED
  BY <1>11, <1>14, <1>15, <1>16, <1>17, <1>18, <1>19, <1>20 DEF IndInv

\* What a case of the switch finds.
LEMMA CaseFacts ==
  ASSUME IndInv, InCall, pc # "bulk"
  PROVE  /\ TypeOK /\ st \in StateType /\ st.eof = 0 /\ Live = st
         /\ pc = "kernel" => st.bytes = 0
         /\ pc = "case1" => st.bytes = 1
         /\ pc = "case2" => st.bytes = 2
         /\ pc = "case3" => st.bytes = 3
         /\ pc \in {"kernel", "case1", "case2", "case3"}
         /\ s \in Nat /\ slen \in Nat /\ end \in Nat /\ base \in Nat /\ olen \in Nat
         /\ obase \in Nat /\ obase <= Len(out) /\ Len(out) \in Nat /\ out \in Seq(Byte)
         /\ slen = end - s /\ olen = Len(out) - obase
         /\ base <= s /\ s <= end /\ end <= Len(text)
         /\ text \in Seq(Char) /\ Len(text) \in Nat /\ Len(codec) \in Nat
         /\ 4 * (Len(out) - DecPrefixLen(st.bytes)) <= 3 * (s - st.bytes)
<1> USE DEF IndInv
<1>1. Live = st
  BY DEF Live
<1>2. pc \in {"kernel", "case1", "case2", "case3"}
  BY DEF TypeOK, InCall
<1>3. /\ st.eof = 0
      /\ pc = "kernel" => st.bytes = 0
      /\ pc = "case1" => st.bytes = 1
      /\ pc = "case2" => st.bytes = 2
      /\ pc = "case3" => st.bytes = 3
  <2>1. /\ "kernel" # "case1" /\ "kernel" # "case2" /\ "kernel" # "case3"
        /\ "case1" # "case2" /\ "case1" # "case3" /\ "case2" # "case3"
    OBVIOUS
  <2> QED
    BY <1>2, <2>1 DEF PlaceInv
<1>4. slen = end - s /\ olen = Len(out) - obase
  BY DEF CountInv
<1>5. 4 * (Len(out) - DecPrefixLen(st.bytes)) <= 3 * (s - st.bytes)
  BY <1>1, <1>3 DEF BudgetInv
<1>6. /\ TypeOK /\ st \in StateType /\ out \in Seq(Byte) /\ Len(out) \in Nat
      /\ s \in Nat /\ slen \in Nat /\ end \in Nat /\ base \in Nat /\ olen \in Nat
      /\ obase \in Nat
  BY DEF TypeOK
<1>7. obase <= Len(out) /\ base <= s /\ s <= end /\ end <= Len(text)
  BY DEF PositionInv
<1> QED
  BY <1>1, <1>2, <1>3, <1>4, <1>5, <1>6, <1>7, ConstantTypes

\* The budget of l bytes after n characters, b of them in the open group.
RoomFor(l, n, b) == 4 * (l - DecPrefixLen(b)) <= 3 * (n - b)

\* What the four byte-wise cases have in common: one value consumed, the byte
\* it completes written, the leftover carried to the next case.
LEMMA ConsumeInv ==
  ASSUME IndInv, InCall, pc # "bulk", NEW o, NEW st1, NEW next,
         Consume(o, st1, next),
         o \in Seq(Byte), st1 \in StateType, st1.eof = 0,
         next \in {"kernel", "case1", "case2", "case3"},
         next = "kernel" => st1.bytes = 0,
         next = "case1" => st1.bytes = 1,
         next = "case2" => st1.bytes = 2,
         next = "case3" => st1.bytes = 3,
         RoomFor(Len(out) + Len(o), s + 1, st1.bytes),
         ~ failed =>
           /\ Carried(st1, s + 1)
           /\ DecPrefixLen(s + 1) = DecPrefixLen(s) + Len(o)
           /\ \A i \in 1..Len(o) : o[i] = DecByte(text, DecPrefixLen(s) + i)
  PROVE  IndInv'
<1>1. /\ out' = out \o o /\ high' = Max2(high, Len(out')) /\ olen' = olen + Len(o)
      /\ st' = st1 /\ s' = s + 1 /\ slen' = slen - 1 /\ pc' = next /\ k' = 1
      /\ UNCHANGED <<codec, text, state, base, end, obase, outlen, ret, failed, rounds>>
      /\ slen > 0 /\ text[s + 1] \in Sextet
  BY DEF Consume, q
<1>2. /\ TypeOK /\ s \in Nat /\ slen \in Nat /\ end \in Nat /\ olen \in Nat /\ obase \in Nat
      /\ base \in Nat /\ obase <= Len(out) /\ Len(out) \in Nat /\ out \in Seq(Byte)
      /\ slen = end - s /\ olen = Len(out) - obase
      /\ base <= s /\ s <= end /\ end <= Len(text) /\ Len(codec) \in Nat
  BY CaseFacts
<1>3. InCall' /\ Live' = st1 /\ st1.bytes \in 0..3
  BY <1>1 DEF InCall, Live, StateType
<1>4. /\ out' \in Seq(Byte) /\ Len(out') = Len(out) + Len(o)
      /\ Len(o) \in Nat /\ Len(out') \in Nat
  BY <1>1, <1>2
<1>5. s + 1 \in Nat /\ s + 1 <= end /\ s' = s + 1
  BY <1>1, <1>2
<1>6. 4 * (Len(out') - DecPrefixLen(st1.bytes)) <= 3 * (s' - st1.bytes)
  <2>1. RoomFor(Len(out'), s', st1.bytes)
    BY <1>4, <1>5
  <2> QED
    BY <2>1 DEF RoomFor
<1>7. Len(out') <= DecPrefixLen(end)
  <2>1. Len(out') <= DecPrefixLen(s + 1)
    BY <1>3, <1>4, <1>5, <1>6, WithinBudget
  <2>2. DecPrefixLen(s + 1) <= DecPrefixLen(end)
    BY <1>2, <1>5, BufferGrows
  <2>3. DecPrefixLen(s + 1) \in Nat /\ DecPrefixLen(end) \in Nat
    BY <1>2, <1>5, NextDecPrefix
  <2> QED
    BY <1>4, <2>1, <2>2, <2>3
<1>8. WritesInBuffer' /\ high' \in Nat
  <2> DEFINE w == Len(out')
  <2>1. /\ w \in Nat /\ high' = Max2(high, w) /\ end' = end /\ Len(out) <= Len(out')
        /\ w <= DecPrefixLen(end) /\ ~ w > Len(out')
    BY <1>1, <1>2, <1>4, <1>7
  <2> QED
    BY <1>2, <1>4, <2>1, WriteOK DEF IndInv
<1>9. TypeOK'
  <2>1. s' \in Nat /\ slen' \in Nat /\ olen' \in Nat /\ k' \in 1 .. Len(codec) + 1
    BY <1>1, <1>2, <1>4
  <2> QED
    BY <1>1, <1>2, <1>4, <1>8, <2>1 DEF TypeOK
<1>10. PositionInv' /\ CountInv' /\ BulkInv' /\ FailedInv'
  <2>1. PositionInv'
    BY <1>1, <1>2, <1>3, <1>4, <1>5 DEF PositionInv
  <2>2. CountInv'
    BY <1>1, <1>2, <1>3, <1>4, <1>5 DEF CountInv
  <2> QED
    BY <1>1, <2>1, <2>2 DEF BulkInv, FailedInv, IndInv
<1>11. PlaceInv'
  BY <1>1 DEF PlaceInv
<1>12. BudgetInv'
  BY <1>3, <1>6 DEF BudgetInv
<1>13. StreamInv'
  <2> SUFFICES ASSUME ~ failed PROVE \E d \in 0..s' : Consumed(Live, s, d)'
    BY <1>1 DEF StreamInv
  <2>1. Holds(s) /\ \A i \in 1..s : text[i] \in Sextet
    BY DataSoFar
  <2>2. PICK d \in Nat : d = s + 1
    BY <1>2
  <2>3. Holds(d)'
    <3>1. Len(out) = DecPrefixLen(s) /\ \A i \in 1..Len(out) : out[i] = DecByte(text, i)
      BY <2>1 DEF Holds
    <3>2. \A i \in 1..Len(o) : o[i] = DecByte(text, Len(out) + i)
      BY <3>1
    <3>3. \A i \in 1..Len(out \o o) : (out \o o)[i] = DecByte(text, i)
      BY <1>2, <3>1, <3>2, AppendBytes
    <3> QED
      BY <1>1, <1>4, <2>2, <3>1, <3>3 DEF Holds
  <2>4. \A i \in 1..d : text[i] \in Sextet
    BY <1>1, <1>2, <2>1, <2>2
  <2>5. DataPrefix(text, s, d)' /\ d \in 0..s' /\ d = s'
    BY <1>1, <2>2, <2>4 DEF DataPrefix
  <2>6. Carried(Live, s)'
    <3>1. Carried(st1, s + 1)
      OBVIOUS
    <3>2. Live' = st1 /\ s' = s + 1 /\ text' = text
      BY <1>1, <1>3
    <3> QED
      BY <3>1, <3>2 DEF Carried
  <2>7. /\ Live'.eof = 0 /\ 0 # AEOF /\ 0 # EOF
        /\ \A i \in d + 1 .. s' : text'[i] = Pad
    <3>1. \A i \in d + 1 .. s' : FALSE
      <4>1. \A i \in d + 1 .. d : FALSE
        OBVIOUS
      <4> QED
        BY <2>5, <4>1
    <3>2. Live'.eof = 0
      BY <1>3
    <3> QED
      BY <3>1, <3>2 DEF AEOF, EOF
  <2>8. Consumed(Live, s, d)'
    BY <2>3, <2>5, <2>6, <2>7 DEF Consumed
  <2> QED
    BY <2>5, <2>8
<1> QED
  BY <1>8, <1>9, <1>10, <1>11, <1>12, <1>13 DEF IndInv

\* What the next value leaves in the carry, and the byte it completes.
LEMMA NextValue ==
  ASSUME NEW v \in Sextet
  PROVE  /\ v * 4 \in Byte
         /\ (v * 16) % 256 = (v % 16) * 16 /\ (v % 16) * 16 \in Byte /\ v % 16 \in 0..15
         /\ (v * 64) % 256 = (v % 4) * 64 /\ (v % 4) * 64 \in Byte /\ v % 4 \in 0..3
         /\ v \div 16 \in 0..3 /\ v \div 4 \in 0..15 /\ v \in 0..63 /\ v \in Int
BY DEF Sextet, Byte

\* The struct after a value: b values in the open group, the leftover c.
LEMMA NextStruct ==
  ASSUME IndInv, InCall, pc # "bulk"
  PROVE  \A b \in 0..3, c \in Byte :
           [st EXCEPT !.carry = c, !.bytes = b] = [eof |-> 0, bytes |-> b, carry |-> c]
<1> SUFFICES ASSUME NEW b \in 0..3, NEW c \in Byte
             PROVE  [st EXCEPT !.carry = c, !.bytes = b] = [eof |-> 0, bytes |-> b, carry |-> c]
  BY Zenon
<1>1. st \in StateType /\ st.eof = 0
  BY CaseFacts, Zenon
<1>2. [st EXCEPT !.carry = c, !.bytes = b] = [eof |-> st.eof, bytes |-> b, carry |-> c]
  BY <1>1, CarryUpdate, Zenon
<1> QED
  BY <1>1, <1>2, Zenon

\* One more byte for one more value.
LEMMA RoomForNext ==
  ASSUME NEW l \in Nat, NEW n \in Nat
  PROVE  /\ RoomFor(l, n, 0) => RoomFor(l, n + 1, 1)
         /\ RoomFor(l, n, 1) => RoomFor(l + 1, n + 1, 2)
         /\ RoomFor(l, n, 2) => RoomFor(l + 1, n + 1, 3)
         /\ RoomFor(l, n, 3) => RoomFor(l + 1, n + 1, 0)
<1>1. DecPrefixLen(0) = 0 /\ DecPrefixLen(1) = 0 /\ DecPrefixLen(2) = 1 /\ DecPrefixLen(3) = 2
  BY DEF DecPrefixLen
<1> QED
  BY <1>1 DEF RoomFor

LEMMA Case0Inv == IndInv /\ Case0 => IndInv'
<1> SUFFICES ASSUME IndInv, Case0 PROVE IndInv'
  OBVIOUS
<1>1. pc = "kernel" /\ InCall /\ pc # "bulk"
  BY DEF Case0, AtCase0, InCall
<1>2. /\ st.bytes = 0 /\ s \in Nat /\ Len(out) \in Nat
      /\ RoomFor(Len(out), s, st.bytes)
  BY <1>1, CaseFacts DEF RoomFor
<1> DEFINE c == text[s + 1] * 4
           x == [st EXCEPT !.carry = c, !.bytes = 1]
<1>3. Consume(<<>>, [st EXCEPT !.carry = text[s + 1] * 4, !.bytes = st.bytes + 1], "case1")
  BY DEF Case0, q
<1>4. Consume(<<>>, x, "case1") /\ text[s + 1] \in Sextet
  BY <1>2, <1>3 DEF Consume, q
<1>5. c \in Byte
  BY <1>4, NextValue
<1>6. x = [eof |-> 0, bytes |-> 1, carry |-> c]
  BY <1>1, <1>5, 1 \in 0..3, NextStruct, Zenon
<1> HIDE DEF x
<1>10. x \in StateType /\ x.eof = 0 /\ x.bytes = 1 /\ x.carry = c
  BY <1>5, <1>6 DEF StateType
<1>7. RoomFor(Len(out) + Len(<<>>), s + 1, x.bytes)
  BY <1>2, <1>10, RoomForNext
<1>8. ASSUME ~ failed
      PROVE  /\ Carried(x, s + 1)
             /\ DecPrefixLen(s + 1) = DecPrefixLen(s) + Len(<<>>)
             /\ \A i \in 1..Len(<<>>) : <<>>[i] = DecByte(text, DecPrefixLen(s) + i)
  <2>1. s % 4 = 0
    BY <1>1, <1>2, <1>8, DataSoFar DEF Carried
  <2>2. (s + 1) % 4 = 1 /\ DecPrefixLen(s + 1) = DecPrefixLen(s) /\ DecPrefixLen(s) \in Nat
    BY <1>2, <2>1, NextDecPrefix
  <2> QED
    BY <1>10, <2>2 DEF Carried
<1>9. <<>> \in Seq(Byte)
  OBVIOUS
<1> QED
  BY <1>1, <1>4, <1>7, <1>8, <1>9, <1>10, ConsumeInv

LEMMA Case1Inv == IndInv /\ Case1 => IndInv'
<1> SUFFICES ASSUME IndInv, Case1 PROVE IndInv'
  OBVIOUS
<1>1. pc = "case1" /\ InCall /\ pc # "bulk"
  BY DEF Case1, InCall
<1>2. /\ st.bytes = 1 /\ s \in Nat /\ Len(out) \in Nat
      /\ RoomFor(Len(out), s, st.bytes)
  BY <1>1, CaseFacts DEF RoomFor
<1> DEFINE v == text[s + 1]
           c == (v * 16) % 256
           x == [st EXCEPT !.carry = c, !.bytes = 2]
           o == <<Or(st.carry, v \div 16)>>
<1>3. Consume(o, x, "case2") /\ v \in Sextet
  BY <1>2, 1 + 1 = 2, 2 + 1 = 3, Zenon DEF Case1, Consume, q
<1>4. c = (v % 16) * 16 /\ c \in Byte
  BY <1>3, NextValue
<1>5. x = [eof |-> 0, bytes |-> 2, carry |-> c]
  BY <1>1, <1>4, 2 \in 0..3, NextStruct, Zenon
<1> HIDE DEF x
<1>6. x \in StateType /\ x.eof = 0 /\ x.bytes = 2 /\ x.carry = c
  BY <1>4, <1>5 DEF StateType
<1>7. o \in Seq(Byte) /\ Len(o) = 1 /\ o[1] = Or(st.carry, v \div 16)
  BY OrIsByte
<1>8. RoomFor(Len(out) + Len(o), s + 1, x.bytes)
  BY <1>2, <1>6, <1>7, RoomForNext
<1>9. ASSUME ~ failed
      PROVE  /\ Carried(x, s + 1)
             /\ DecPrefixLen(s + 1) = DecPrefixLen(s) + Len(o)
             /\ \A i \in 1..Len(o) : o[i] = DecByte(text, DecPrefixLen(s) + i)
  <2>1. s % 4 = 1 /\ st.carry = text[s] * 4 /\ \A i \in 1..s : text[i] \in Sextet
    BY <1>1, <1>2, <1>9, DataSoFar DEF Carried
  <2>2. (s + 1) % 4 = 2 /\ DecPrefixLen(s + 1) = DecPrefixLen(s) + 1
    BY <1>2, <2>1, NextDecPrefix
  <2>3. text[s] \in Sextet
    BY <1>2, <2>1
  <2>4. DecByte(text, DecPrefixLen(s) + 1) = text[s] * 4 + (v \div 16)
    BY <1>2, <2>1, NextByte DEF NextByteIs
  <2>5. Or(st.carry, v \div 16) = text[s] * 4 + (v \div 16)
    BY <1>3, <2>1, <2>3, NextValue, OrIsSum DEF Sextet
  <2>6. o[1] = DecByte(text, DecPrefixLen(s) + 1)
    BY <1>7, <2>4, <2>5, Zenon
  <2>7. Carried(x, s + 1)
    BY <1>4, <1>6, <2>2 DEF Carried
  <2> QED
    BY <1>7, <2>2, <2>6, <2>7
<1> HIDE DEF o
<1> QED
  BY <1>1, <1>3, <1>6, <1>7, <1>8, <1>9, ConsumeInv

LEMMA Case2Inv == IndInv /\ Case2 => IndInv'
<1> SUFFICES ASSUME IndInv, Case2 PROVE IndInv'
  OBVIOUS
<1>1. pc = "case2" /\ InCall /\ pc # "bulk"
  BY DEF Case2, InCall
<1>2. /\ st.bytes = 2 /\ s \in Nat /\ Len(out) \in Nat
      /\ RoomFor(Len(out), s, st.bytes)
  BY <1>1, CaseFacts DEF RoomFor
<1> DEFINE v == text[s + 1]
           c == (v * 64) % 256
           x == [st EXCEPT !.carry = c, !.bytes = 3]
           o == <<Or(st.carry, v \div 4)>>
<1>3. Consume(o, x, "case3") /\ v \in Sextet
  BY <1>2, 1 + 1 = 2, 2 + 1 = 3, Zenon DEF Case2, Consume, q
<1>4. c = (v % 4) * 64 /\ c \in Byte
  BY <1>3, NextValue
<1>5. x = [eof |-> 0, bytes |-> 3, carry |-> c]
  BY <1>1, <1>4, 3 \in 0..3, NextStruct, Zenon
<1> HIDE DEF x
<1>6. x \in StateType /\ x.eof = 0 /\ x.bytes = 3 /\ x.carry = c
  BY <1>4, <1>5 DEF StateType
<1>7. o \in Seq(Byte) /\ Len(o) = 1 /\ o[1] = Or(st.carry, v \div 4)
  BY OrIsByte
<1>8. RoomFor(Len(out) + Len(o), s + 1, x.bytes)
  BY <1>2, <1>6, <1>7, RoomForNext
<1>9. ASSUME ~ failed
      PROVE  /\ Carried(x, s + 1)
             /\ DecPrefixLen(s + 1) = DecPrefixLen(s) + Len(o)
             /\ \A i \in 1..Len(o) : o[i] = DecByte(text, DecPrefixLen(s) + i)
  <2>1. s % 4 = 2 /\ st.carry = (text[s] % 16) * 16 /\ \A i \in 1..s : text[i] \in Sextet
    BY <1>1, <1>2, <1>9, DataSoFar DEF Carried
  <2>2. (s + 1) % 4 = 3 /\ DecPrefixLen(s + 1) = DecPrefixLen(s) + 1
    BY <1>2, <2>1, NextDecPrefix
  <2>3. text[s] \in Sextet
    BY <1>2, <2>1
  <2>4. DecByte(text, DecPrefixLen(s) + 1) = (text[s] % 16) * 16 + (v \div 4)
    BY <1>2, <2>1, NextByte DEF NextByteIs
  <2>5. Or(st.carry, v \div 4) = (text[s] % 16) * 16 + (v \div 4)
    BY <1>3, <2>1, <2>3, NextValue, OrIsSum DEF Sextet
  <2>6. o[1] = DecByte(text, DecPrefixLen(s) + 1)
    BY <1>7, <2>4, <2>5, Zenon
  <2>7. Carried(x, s + 1)
    BY <1>4, <1>6, <2>2 DEF Carried
  <2> QED
    BY <1>7, <2>2, <2>6, <2>7
<1> HIDE DEF o
<1> QED
  BY <1>1, <1>3, <1>6, <1>7, <1>8, <1>9, ConsumeInv

LEMMA Case3Inv == IndInv /\ Case3 => IndInv'
<1> SUFFICES ASSUME IndInv, Case3 PROVE IndInv'
  OBVIOUS
<1>1. pc = "case3" /\ InCall /\ pc # "bulk"
  BY DEF Case3, InCall
<1>2. /\ st.bytes = 3 /\ s \in Nat /\ Len(out) \in Nat
      /\ RoomFor(Len(out), s, st.bytes)
  BY <1>1, CaseFacts DEF RoomFor
<1> DEFINE v == text[s + 1]
           c == 0
           x == [st EXCEPT !.carry = c, !.bytes = 0]
           o == <<Or(st.carry, v)>>
<1>3. Consume(o, x, "kernel") /\ v \in Sextet
  BY <1>2, Zenon DEF Case3, Consume, q
<1>4. c = 0 /\ c \in Byte
  BY <1>3, NextValue DEF Byte
<1>5. x = [eof |-> 0, bytes |-> 0, carry |-> c]
  BY <1>1, <1>4, 0 \in 0..3, NextStruct, Zenon
<1> HIDE DEF x
<1>6. x \in StateType /\ x.eof = 0 /\ x.bytes = 0 /\ x.carry = c
  BY <1>4, <1>5 DEF StateType
<1>7. o \in Seq(Byte) /\ Len(o) = 1 /\ o[1] = Or(st.carry, v)
  BY OrIsByte
<1>8. RoomFor(Len(out) + Len(o), s + 1, x.bytes)
  BY <1>2, <1>6, <1>7, RoomForNext
<1>9. ASSUME ~ failed
      PROVE  /\ Carried(x, s + 1)
             /\ DecPrefixLen(s + 1) = DecPrefixLen(s) + Len(o)
             /\ \A i \in 1..Len(o) : o[i] = DecByte(text, DecPrefixLen(s) + i)
  <2>1. s % 4 = 3 /\ st.carry = (text[s] % 4) * 64 /\ \A i \in 1..s : text[i] \in Sextet
    BY <1>1, <1>2, <1>9, DataSoFar DEF Carried
  <2>2. (s + 1) % 4 = 0 /\ DecPrefixLen(s + 1) = DecPrefixLen(s) + 1
    BY <1>2, <2>1, NextDecPrefix
  <2>3. text[s] \in Sextet
    BY <1>2, <2>1
  <2>4. DecByte(text, DecPrefixLen(s) + 1) = (text[s] % 4) * 64 + v
    BY <1>2, <2>1, NextByte DEF NextByteIs
  <2>5. Or(st.carry, v) = (text[s] % 4) * 64 + v
    BY <1>3, <2>1, <2>3, NextValue, OrIsSum DEF Sextet
  <2>6. o[1] = DecByte(text, DecPrefixLen(s) + 1)
    BY <1>7, <2>4, <2>5, Zenon
  <2>7. Carried(x, s + 1)
    BY <1>4, <1>6, <2>2 DEF Carried
  <2> QED
    BY <1>7, <2>2, <2>6, <2>7
<1> HIDE DEF o
<1> QED
  BY <1>1, <1>3, <1>6, <1>7, <1>8, <1>9, ConsumeInv

\* What all ways out of the switch have in common: n characters read past s, the
\* struct x written back and the result r, which must be the verdict on the text.
LEMMA LeaveInv ==
  ASSUME IndInv, InCall, pc # "bulk",
         NEW x \in StateType, NEW r \in {0, 1}, NEW n \in Nat, n <= slen,
         Leave(x, r, n),
         x.eof = 0 => RoomFor(Len(out), s + n, x.bytes),
         r = 0 => n >= 1,
         ~ failed /\ r = 0 => ~ Viable(text, end),
         ~ failed /\ r = 1 => s + n = end /\ \E d \in 0..end : Consumed(x, end, d)
  PROVE  IndInv'
<1>1. /\ state' = x /\ st' = x /\ ret' = r /\ outlen' = olen /\ s' = s + n
      /\ slen' = slen - n /\ pc' = "caller"
      /\ UNCHANGED <<codec, text, out, high, base, end, obase, olen, k, rounds>>
  BY DEF Leave
<1>2. /\ TypeOK /\ s \in Nat /\ slen \in Nat /\ end \in Nat /\ olen \in Nat /\ obase \in Nat
      /\ base \in Nat /\ obase <= Len(out) /\ Len(out) \in Nat
      /\ slen = end - s /\ olen = Len(out) - obase
      /\ base <= s /\ s <= end /\ end <= Len(text)
  BY CaseFacts
<1>3. ~ InCall' /\ Live' = x
  BY <1>1 DEF InCall, Live
<1>4. s' \in Nat /\ s' <= end /\ base <= s' /\ s' = s + n /\ slen' \in Nat
  BY <1>1, <1>2
<1>5. failed' <=> (failed \/ r = 0)
  <2>1. failed' <=> (failed \/ (end > base /\ r = 0))
    BY Zenon DEF Leave
  <2>2. r = 0 => end > base
    BY <1>2
  <2> QED
    BY <2>1, <2>2
<1>6. failed' \in BOOLEAN
  <2>1. failed' = (failed \/ (end > base /\ r = 0))
    BY Zenon DEF Leave
  <2> QED
    BY <2>1, Zenon
<1>7. TypeOK'
  <2>1. ret' \in {0, 1}
    BY <1>1
  <2> QED
    BY <1>1, <1>2, <1>4, <1>6, <2>1 DEF TypeOK
<1>8. ~ failed' => s' = end
  BY <1>4, <1>5
<1>9. PositionInv' /\ CountInv' /\ PlaceInv' /\ BulkInv'
  BY <1>1, <1>2, <1>3, <1>4, <1>8 DEF PositionInv, CountInv, PlaceInv, BulkInv
<1>10. WritesInBuffer'
  BY <1>1 DEF IndInv, WritesInBuffer
<1>11. FailedInv'
  <2>1. failed => ~ Viable(text, end)
    BY DEF IndInv, FailedInv
  <2>2. failed' => ~ Viable(text, end)
    BY <1>5, <2>1
  <2> QED
    BY <1>1, <2>2 DEF FailedInv
<1>12. StreamInv'
  <2> SUFFICES ASSUME ~ failed' PROVE \E d \in 0..s' : Consumed(Live, s, d)'
    BY DEF StreamInv
  <2>1. ~ failed /\ r = 1
    BY <1>5
  <2>2. PICK d \in 0..end : Consumed(x, end, d)
    BY <2>1
  <2>3. s' = end /\ text' = text /\ out' = out /\ Live' = x
    BY <1>1, <1>3, <1>8
  <2>4. Consumed(Live, s, d)'
    BY <2>2, <2>3 DEF Consumed, Holds, Carried
  <2> QED
    BY <2>2, <2>3, <2>4
<1>13. BudgetInv'
  <2>1. CASE x.eof = 0
    <3>1. RoomFor(Len(out'), s', x.bytes)
      BY <1>1, <2>1
    <3> QED
      BY <1>3, <2>1, <3>1 DEF BudgetInv, RoomFor
  <2>2. CASE x.eof # 0
    <3>1. 4 * Len(out) <= 3 * s
      BY <1>2, LengthBound DEF IndInv
    <3>2. 4 * Len(out') <= 3 * s'
      BY <1>1, <1>2, <1>4, <3>1
    <3> QED
      BY <1>3, <2>2, <3>2 DEF BudgetInv
  <2> QED
    BY <2>1, <2>2
<1> QED
  BY <1>7, <1>9, <1>10, <1>11, <1>12, <1>13 DEF IndInv

\* The first character that is no value: the data ends here, and the verdict is
\* whether it is padding where padding may be.
LEMMA EndOfData ==
  ASSUME IndInv, InCall, pc # "bulk", slen > 0, text[s + 1] \notin Sextet, ~ failed
  PROVE  /\ s \in 0..end /\ DataPrefix(text, end, s) /\ Holds(s) /\ s % 4 = st.bytes
         /\ Viable(text, end) <=> PadsRight(text, end, s)
<1>1. s \in Nat /\ end \in Nat /\ slen = end - s
  BY CaseFacts
<1>2. Carried(st, s) /\ Holds(s) /\ \A i \in 1..s : text[i] \in Sextet
  BY DataSoFar
<1>3. s \in 0..end /\ DataPrefix(text, end, s)
  BY <1>1, <1>2 DEF DataPrefix
<1>4. s % 4 = st.bytes
  BY <1>2 DEF Carried
<1> QED
  BY <1>1, <1>2, <1>3, <1>4, ViableAt

\* What was consumed when the stream ends with padding.
LEMMA PaddedText ==
  ASSUME NEW x, NEW d \in Nat, NEW n \in Nat,
         DataPrefix(text, n, d), Holds(d), text[d + 1] = Pad,
         \/ n = d + 1
         \/ n = d + 2 /\ text[d + 2] = Pad,
         \/ x.eof = AEOF /\ n = d + 1 /\ n % 4 = 3 /\ x.bytes = 3
         \/ x.eof = EOF /\ n % 4 = 0 /\ x.bytes = 0
  PROVE  Consumed(x, n, d)
<1>1. AEOF # 0 /\ EOF # 0 /\ AEOF # EOF
  BY DEF AEOF, EOF
<1>2. \A i \in d + 1 .. n : text[i] = Pad
  OBVIOUS
<1>3. d = n - 1 \/ d = n - 2
  OBVIOUS
<1> QED
  BY <1>1, <1>2, <1>3 DEF Consumed

LEMMA DrainedInv == IndInv /\ Drained => IndInv'
<1> SUFFICES ASSUME IndInv, Drained PROVE IndInv'
  OBVIOUS
<1>1. InCall /\ pc # "bulk" /\ slen = 0 /\ Leave(st, 1, 0)
  BY DEF Drained, AtCase, AtCase0, InCall
<1>2. /\ st \in StateType /\ s \in Nat /\ end \in Nat /\ slen = end - s
      /\ RoomFor(Len(out), s, st.bytes)
  BY <1>1, CaseFacts DEF RoomFor
<1>3. s + 0 = s /\ s = end
  BY <1>1, <1>2
<1>4. ASSUME ~ failed PROVE \E d \in 0..end : Consumed(st, end, d)
  <2>1. Consumed(st, s, s) /\ s \in 0..end
    BY <1>1, <1>2, <1>3, <1>4, DataSoFar
  <2> QED
    BY <1>3, <2>1
<1>5. RoomFor(Len(out), s + 0, st.bytes) /\ s + 0 = end
  BY <1>2, <1>3
<1> QED
  BY <1>1, <1>2, <1>4, <1>5, LeaveInv

LEMMA NotInGroupInv == IndInv /\ NotInGroup => IndInv'
<1> SUFFICES ASSUME IndInv, NotInGroup PROVE IndInv'
  OBVIOUS
<1>1. /\ InCall /\ pc # "bulk" /\ pc \in {"kernel", "case1"}
      /\ slen > 0 /\ text[s + 1] \notin Sextet
      /\ Leave([st EXCEPT !.eof = EOF], 0, 1)
  BY DEF NotInGroup, AtCase0, InCall, q
<1>2. st \in StateType /\ st.bytes \in {0, 1} /\ slen \in Nat
  BY <1>1, CaseFacts
<1> DEFINE x == [st EXCEPT !.eof = EOF]
<1>3. x \in StateType /\ x.eof # 0
  BY <1>2 DEF StateType, AEOF, EOF
<1>4. ASSUME ~ failed PROVE ~ Viable(text, end)
  <2>1. s % 4 \in {0, 1} /\ s \in 0..end /\ DataPrefix(text, end, s)
        /\ (Viable(text, end) <=> PadsRight(text, end, s))
    BY <1>1, <1>2, <1>4, EndOfData
  <2>2. s < end
    BY <1>1, <1>2, CaseFacts
  <2> QED
    BY <2>1, <2>2 DEF PadsRight
<1>5. Leave(x, 0, 1) /\ 1 <= slen
  BY <1>1, <1>2
<1> HIDE DEF x
<1> QED
  BY <1>1, <1>3, <1>4, <1>5, LeaveInv

LEMMA PadThenMoreInv == IndInv /\ PadThenMore => IndInv'
<1> SUFFICES ASSUME IndInv, PadThenMore PROVE IndInv'
  OBVIOUS
<1> DEFINE x == [st EXCEPT !.bytes = 0, !.eof = EOF]
           r == IF text[s + 2] = Pad /\ slen = 2 THEN 1 ELSE 0
<1>1. pc = "case2" /\ slen > 1 /\ text[s + 1] = Pad /\ Leave(x, r, 2)
  BY Zenon DEF PadThenMore, q
<1>2. InCall /\ pc # "bulk"
  BY <1>1, Zenon DEF InCall
<1>3. x = [eof |-> EOF, bytes |-> 0, carry |-> st.carry] /\ st.carry \in Byte
  <2>1. st \in StateType
    BY <1>2, CaseFacts, Zenon
  <2> QED
    BY <2>1, 0 \in 0..3, EOF \in {0, AEOF, EOF}, PadUpdate, Zenon
<1> HIDE DEF x
<1>4. x \in StateType /\ x.eof = EOF /\ EOF # 0 /\ x.bytes = 0
  BY <1>3 DEF StateType, AEOF, EOF
<1>5. /\ st.bytes = 2 /\ s \in Nat /\ end \in Nat /\ slen \in Nat /\ slen = end - s
      /\ text[s + 1] \notin Sextet
  BY <1>1, <1>2, CaseFacts DEF Sextet, Pad
<1>6. ASSUME ~ failed
      PROVE  /\ s % 4 = 2 /\ s \in 0..end /\ DataPrefix(text, end, s) /\ Holds(s)
             /\ Viable(text, end) <=> PadsRight(text, end, s)
  BY <1>1, <1>2, <1>5, <1>6, EndOfData
<1>7. ASSUME ~ failed, r = 0 PROVE ~ Viable(text, end)
  BY <1>1, <1>5, <1>6, <1>7 DEF PadsRight
<1>8. ASSUME ~ failed, r = 1 PROVE s + 2 = end /\ \E d \in 0..end : Consumed(x, end, d)
  <2>1. text[s + 2] = Pad /\ end = s + 2 /\ end % 4 = 0
    BY <1>5, <1>6, <1>8
  <2>2. Consumed(x, end, s)
    BY <1>1, <1>4, <1>5, <1>6, <1>8, <2>1, PaddedText
  <2> QED
    BY <1>6, <1>8, <2>1, <2>2
<1>9. r \in {0, 1} /\ 2 <= slen
  BY <1>1, <1>5
<1> HIDE DEF r
<1> QED
  BY <1>1, <1>2, <1>4, <1>7, <1>8, <1>9, LeaveInv

LEMMA PadAtChunkEndInv == IndInv /\ PadAtChunkEnd => IndInv'
<1> SUFFICES ASSUME IndInv, PadAtChunkEnd PROVE IndInv'
  OBVIOUS
<1> DEFINE x == [st EXCEPT !.bytes = 3, !.eof = AEOF]
<1>1. /\ pc = "case2" /\ slen = 1 /\ text[s + 1] = Pad
      /\ Leave([st EXCEPT !.bytes = st.bytes + 1, !.eof = AEOF], 1, 1)
  BY Zenon DEF PadAtChunkEnd, q
<1>2. InCall /\ pc # "bulk"
  BY <1>1, Zenon DEF InCall
<1>3. /\ st.bytes = 2 /\ s \in Nat /\ end \in Nat /\ slen \in Nat /\ slen = end - s
      /\ text[s + 1] \notin Sextet /\ st \in StateType
  BY <1>1, <1>2, CaseFacts DEF Sextet, Pad
<1>4. Leave(x, 1, 1)
  BY <1>1, <1>3, 2 + 1 = 3, Zenon
<1>5. x = [eof |-> AEOF, bytes |-> 3, carry |-> st.carry] /\ st.carry \in Byte
  BY <1>3, 3 \in 0..3, AEOF \in {0, AEOF, EOF}, PadUpdate, Zenon
<1> HIDE DEF x
<1>6. x \in StateType /\ x.eof = AEOF /\ AEOF # 0 /\ x.bytes = 3
  BY <1>5 DEF StateType, AEOF, EOF
<1>7. ASSUME ~ failed PROVE s + 1 = end /\ \E d \in 0..end : Consumed(x, end, d)
  <2>1. s % 4 = 2 /\ s \in 0..end /\ DataPrefix(text, end, s) /\ Holds(s)
    BY <1>1, <1>2, <1>3, <1>7, EndOfData
  <2>2. end = s + 1 /\ end % 4 = 3
    BY <1>1, <1>3, <2>1
  <2>3. Consumed(x, end, s)
    BY <1>1, <1>3, <1>6, <2>1, <2>2, PaddedText
  <2> QED
    BY <2>1, <2>2, <2>3
<1>8. 1 <= slen
  BY <1>1
<1> QED
  BY <1>2, <1>4, <1>6, <1>7, <1>8, LeaveInv

LEMMA BadThirdInv == IndInv /\ BadThird => IndInv'
<1> SUFFICES ASSUME IndInv, BadThird PROVE IndInv'
  OBVIOUS
<1>1. /\ pc = "case2" /\ slen > 0 /\ text[s + 1] = Bad
      /\ Leave([st EXCEPT !.bytes = st.bytes + 1], 0, 1)
  BY DEF BadThird, q
<1>2. InCall /\ pc # "bulk"
  BY <1>1 DEF InCall
<1>3. /\ st.bytes = 2 /\ s \in Nat /\ end \in Nat /\ slen \in Nat /\ slen = end - s
      /\ text[s + 1] \notin Sextet /\ st \in StateType /\ st.eof = 0 /\ Len(out) \in Nat
      /\ RoomFor(Len(out), s, st.bytes)
  BY <1>1, <1>2, CaseFacts DEF Sextet, Bad, RoomFor
<1> DEFINE x == [st EXCEPT !.bytes = 3]
<1>4. Leave(x, 0, 1)
  BY <1>1, <1>3
<1>5. x \in StateType /\ x.eof = 0 /\ x.bytes = 3
  BY <1>3 DEF StateType
<1> HIDE DEF x
<1>6. RoomFor(Len(out), s + 1, x.bytes)
  <2>1. DecPrefixLen(2) = 1 /\ DecPrefixLen(3) = 2
    BY DEF DecPrefixLen
  <2>2. RoomFor(Len(out), s, 2)
    BY <1>3
  <2>3. RoomFor(Len(out), s + 1, 3)
    BY <1>3, <2>1, <2>2 DEF RoomFor
  <2> QED
    BY <1>5, <2>3
<1>7. ASSUME ~ failed PROVE ~ Viable(text, end)
  <2>1. s \in 0..end /\ (Viable(text, end) <=> PadsRight(text, end, s))
    BY <1>1, <1>2, <1>3, <1>7, EndOfData
  <2> QED
    BY <1>1, <1>3, <2>1 DEF PadsRight, Bad, Pad
<1>8. 1 <= slen
  BY <1>1, <1>3
<1> QED
  BY <1>2, <1>4, <1>5, <1>6, <1>7, <1>8, LeaveInv

LEMMA EndAtFourthInv == IndInv /\ EndAtFourth => IndInv'
<1> SUFFICES ASSUME IndInv, EndAtFourth PROVE IndInv'
  OBVIOUS
<1> DEFINE x == [st EXCEPT !.bytes = 0, !.eof = EOF]
           r == IF text[s + 1] = Pad /\ slen = 1 THEN 1 ELSE 0
<1>1. pc = "case3" /\ slen > 0 /\ text[s + 1] \notin Sextet /\ Leave(x, r, 1)
  BY Zenon DEF EndAtFourth, q
<1>2. InCall /\ pc # "bulk"
  BY <1>1, Zenon DEF InCall
<1>3. x = [eof |-> EOF, bytes |-> 0, carry |-> st.carry] /\ st.carry \in Byte
  <2>1. st \in StateType
    BY <1>2, CaseFacts, Zenon
  <2> QED
    BY <2>1, 0 \in 0..3, EOF \in {0, AEOF, EOF}, PadUpdate, Zenon
<1> HIDE DEF x
<1>4. x \in StateType /\ x.eof = EOF /\ EOF # 0 /\ x.bytes = 0
  BY <1>3 DEF StateType, AEOF, EOF
<1>5. st.bytes = 3 /\ s \in Nat /\ end \in Nat /\ slen \in Nat /\ slen = end - s
  BY <1>1, <1>2, CaseFacts
<1>6. ASSUME ~ failed
      PROVE  /\ s % 4 = 3 /\ s \in 0..end /\ DataPrefix(text, end, s) /\ Holds(s)
             /\ Viable(text, end) <=> PadsRight(text, end, s)
  BY <1>1, <1>2, <1>5, <1>6, EndOfData
<1>7. ASSUME ~ failed, r = 0 PROVE ~ Viable(text, end)
  BY <1>1, <1>5, <1>6, <1>7 DEF PadsRight
<1>8. ASSUME ~ failed, r = 1 PROVE s + 1 = end /\ \E d \in 0..end : Consumed(x, end, d)
  <2>1. text[s + 1] = Pad /\ end = s + 1 /\ end % 4 = 0
    BY <1>5, <1>6, <1>8
  <2>2. Consumed(x, end, s)
    BY <1>4, <1>5, <1>6, <1>8, <2>1, PaddedText
  <2> QED
    BY <1>6, <1>8, <2>1, <2>2
<1>9. r \in {0, 1} /\ 1 <= slen
  BY <1>1, <1>5
<1> HIDE DEF r
<1> QED
  BY <1>1, <1>2, <1>4, <1>7, <1>8, <1>9, LeaveInv

-----------------------------------------------------------------------------
LEMMA StepInv == IndInv /\ [Next]_vars => IndInv'
<1> SUFFICES ASSUME IndInv, [Next]_vars PROVE IndInv'
  OBVIOUS
<1>1. CASE StreamInit
  BY <1>1, StreamInitInv
<1>2. CASE Rechoose
  BY <1>2, RechooseInv
<1>3. ASSUME NEW n \in ChunkSizes[text], Call(n) PROVE IndInv'
  BY <1>3, CallInv
<1>4. ASSUME NEW n \in ChunkSizes[text], CallAfterEof(n) PROVE IndInv'
  BY <1>4, CallAfterEofInv
<1>5. CASE KernelSkip
  BY <1>5, KernelSkipInv
<1>6. CASE KernelEnter
  BY <1>6, KernelEnterInv
<1>7. CASE KernelRound
  BY <1>7, KernelRoundInv
<1>8. CASE KernelBailOut
  BY <1>8, KernelBailOutInv
<1>9. CASE Case0
  BY <1>9, Case0Inv
<1>10. CASE Case1
  BY <1>10, Case1Inv
<1>11. CASE Case2
  BY <1>11, Case2Inv
<1>12. CASE Case3
  BY <1>12, Case3Inv
<1>13. CASE Drained
  BY <1>13, DrainedInv
<1>14. CASE NotInGroup
  BY <1>14, NotInGroupInv
<1>15. CASE PadThenMore
  BY <1>15, PadThenMoreInv
<1>16. CASE PadAtChunkEnd
  BY <1>16, PadAtChunkEndInv
<1>17. CASE BadThird
  BY <1>17, BadThirdInv
<1>18. CASE EndAtFourth
  BY <1>18, EndAtFourthInv
<1>19. CASE UNCHANGED vars
  BY <1>19 DEF vars, locals, IndInv, TypeOK, PositionInv, StreamInv, FailedInv, PlaceInv,
     CountInv, BudgetInv, BulkInv, WritesInBuffer, Consumed, Holds, Carried, Live,
     InCall, Here, Produced
<1> QED
  BY <1>1, <1>2, <1>3, <1>4, <1>5, <1>6, <1>7, <1>8, <1>9, <1>10, <1>11, <1>12, <1>13,
     <1>14, <1>15, <1>16, <1>17, <1>18, <1>19, Zenon DEF Next

\* Every reachable state of the decoder satisfies the inductive invariant.
THEOREM Inductive == Spec => []IndInv
<1>1. Init => IndInv
  BY InitInv
<1>2. IndInv /\ [Next]_vars => IndInv'
  BY StepInv
<1> QED
  BY <1>1, <1>2, PTL DEF Spec

\* Every variable keeps its type: the carry stays a byte and the count of the open
\* group below four, whatever characters arrive (struct base64_state).
THEOREM TypeCorrect == Spec => []TypeOK
<1>1. IndInv => TypeOK
  BY DEF IndInv
<1> QED
  BY <1>1, Inductive, PTL

\* No bulk loop and no case writes beyond the three quarters of the input that the
\* header asks the caller to provide, the zeros a vector store adds included.
THEOREM WritesBounded == Spec => []WritesInBuffer
<1>1. IndInv => WritesInBuffer
  BY DEF IndInv
<1> QED
  BY <1>1, Inductive, PTL

\* Where a case of the switch runs, slen and olen agree with the pointers: what a
\* bulk loop booked and did not run has been given back (KernelBailOut).
THEOREM CountsCorrect == Spec => []CountsAgree
<1>1. IndInv => CountsAgree
  BY DEF IndInv, CountInv, CountsAgree, AtCase, AtCase0, InCall
<1> QED
  BY <1>1, Inductive, PTL

\* Until a call fails the output is the decoding of the data consumed so far.
THEOREM OutputCorrect == Spec => []OutputIsDecoding
<1>1. IndInv => OutputIsDecoding
  BY DEF IndInv, StreamInv, Consumed, Holds, OutputIsDecoding
<1> QED
  BY <1>1, Inductive, PTL

-----------------------------------------------------------------------------
(* Between two calls of a stream that has not failed.                      *)

\* The characters fed are d data characters and their padding; the struct tells
\* how many are missing.
LEMMA BetweenCalls ==
  ASSUME IndInv, pc = "caller", ~ failed
  PROVE  \E d \in 0..end :
           /\ Consumed(state, end, d) /\ PadsRight(text, end, d)
           /\ state.bytes = 0 <=> end % 4 = 0
           /\ \/ d = end
              \/ d = end - 1 /\ text[end] = Pad /\ end % 4 = 3
              \/ d = end - 1 /\ text[end] = Pad /\ end % 4 = 0
              \/ d = end - 2 /\ text[end] = Pad /\ text[end - 1] = Pad /\ end % 4 = 0
<1>1. s = end /\ Live = state /\ end \in Nat /\ state.eof \in {0, AEOF, EOF}
  BY DEF IndInv, PositionInv, Live, InCall, TypeOK, StateType
<1>2. PICK d \in 0..end : Consumed(state, end, d)
  BY <1>1 DEF IndInv, StreamInv
<1>3. /\ state.bytes = 0 <=> end % 4 = 0
      /\ \/ d = end
         \/ d = end - 1 /\ end % 4 = 3
         \/ d = end - 1 /\ end % 4 = 0
         \/ d = end - 2 /\ end % 4 = 0
  BY <1>1, <1>2 DEF Consumed, Carried
<1>4. \A i \in d + 1 .. end : text[i] = Pad
  BY <1>2 DEF Consumed
<1>5. /\ d = end - 1 => text[d + 1] = Pad /\ d + 1 = end
      /\ d = end - 2 => text[d + 1] = Pad /\ text[end] = Pad /\ d + 1 = end - 1
  BY <1>1, <1>4
<1>6. PadsRight(text, end, d)
  BY <1>1, <1>3, <1>5 DEF PadsRight
<1> QED
  BY <1>2, <1>3, <1>5, <1>6

LEMMA VerdictAt == IndInv => VerdictIsRight
<1> SUFFICES ASSUME IndInv, pc = "caller" PROVE failed <=> ~ Viable(text, end)
  BY DEF VerdictIsRight
<1>1. failed => ~ Viable(text, end)
  BY DEF IndInv, FailedInv
<1>2. ASSUME ~ failed PROVE Viable(text, end)
  <2>1. PICK d \in 0..end : Consumed(state, end, d) /\ PadsRight(text, end, d)
    BY <1>2, BetweenCalls
  <2>2. end \in Nat /\ DataPrefix(text, end, d)
    BY <2>1 DEF IndInv, TypeOK, Consumed
  <2> QED
    BY <2>1, <2>2, ViableAt
<1> QED
  BY <1>1, <1>2

\* A stream fails exactly when no Base64 text begins with what it was fed, however
\* it was cut into calls and whichever bulk loops ran.
THEOREM VerdictCorrect == Spec => []VerdictIsRight
BY VerdictAt, Inductive, PTL

LEMMA PadCounted ==
  ASSUME NEW c \in Seq(Char), NEW n \in Nat, Len(c) = n, NEW d \in 0..n,
         \A i \in 1..d : c[i] \in Sextet,
         \/ d = n
         \/ d = n - 1 /\ c[n] = Pad
         \/ d = n - 2 /\ c[n] = Pad /\ c[n - 1] = Pad
  PROVE  PadCount(c) = n - d
<1>1. c = <<>> <=> n = 0
  OBVIOUS
<1>2. \A i \in 1..d : c[i] # Pad
  <2>1. Pad \notin Sextet
    BY DEF Sextet, Pad
  <2> QED
    BY <2>1
<1>3. CASE d = n
  BY <1>1, <1>2, <1>3 DEF PadCount
<1>4. CASE d = n - 1 /\ c[n] = Pad
  <2>1. n > 1 => c[n - 1] # Pad
    BY <1>2, <1>4
  <2> QED
    BY <1>1, <1>4, <2>1 DEF PadCount
<1>5. CASE d = n - 2 /\ c[n] = Pad /\ c[n - 1] = Pad
  BY <1>1, <1>5 DEF PadCount
<1> QED
  BY <1>3, <1>4, <1>5

\* Bytes short of three a group, by its padding.
LEMMA PaddedLength ==
  ASSUME NEW n \in Nat, n % 4 = 0, NEW d \in 0..n, n <= d + 2
  PROVE  DecPrefixLen(n) - (n - d) = DecPrefixLen(d) /\ DecPrefixLen(d) \in Nat
BY DEF DecPrefixLen

LEMMA CompleteAt == IndInv => CompleteIsDecode
<1> SUFFICES ASSUME IndInv, pc = "caller", ~ failed
             PROVE  LET c == SubSeq(text, 1, end)
                    IN /\ state.bytes = 0 <=> WellFormed(c)
                       /\ state.bytes = 0 => out = Decode(c)
  BY DEF CompleteIsDecode
<1> DEFINE c == SubSeq(text, 1, end)
<1>1. /\ text \in Seq(Char) /\ Len(text) \in Nat /\ end \in Nat /\ end <= Len(text)
      /\ out \in Seq(Byte)
  BY ConstantTypes DEF IndInv, TypeOK, PositionInv
<1>2. c \in Seq(Char) /\ Len(c) = end /\ \A i \in 1..end : c[i] = text[i]
  BY <1>1
<1>3. PICK d \in 0..end :
        /\ Consumed(state, end, d)
        /\ state.bytes = 0 <=> end % 4 = 0
        /\ \/ d = end
           \/ d = end - 1 /\ text[end] = Pad /\ end % 4 = 3
           \/ d = end - 1 /\ text[end] = Pad /\ end % 4 = 0
           \/ d = end - 2 /\ text[end] = Pad /\ text[end - 1] = Pad /\ end % 4 = 0
  BY BetweenCalls
<1>4. Holds(d) /\ \A i \in 1..d : text[i] \in Sextet
  BY <1>3 DEF Consumed, DataPrefix
<1> HIDE DEF c
<1>5. \A i \in 1..d : c[i] \in Sextet /\ c[i] = text[i]
  BY <1>1, <1>2, <1>4
<1>6. PadCount(c) = end - d
  <2>1. \/ d = end
        \/ d = end - 1 /\ c[end] = Pad
        \/ d = end - 2 /\ c[end] = Pad /\ c[end - 1] = Pad
    <3>1. /\ d = end - 1 => c[end] = text[end]
          /\ d = end - 2 => c[end] = text[end] /\ c[end - 1] = text[end - 1]
      BY <1>1, <1>2
    <3> QED
      BY <1>3, <3>1
  <2> QED
    BY <1>1, <1>2, <1>5, <2>1, PadCounted
<1>7. state.bytes = 0 <=> WellFormed(c)
  <2>1. end - (end - d) = d
    BY <1>1
  <2> QED
    BY <1>2, <1>3, <1>5, <1>6, <2>1 DEF WellFormed
<1>8. ASSUME state.bytes = 0 PROVE out = Decode(c)
  <2>1. DecPrefixLen(end) - PadCount(c) = DecPrefixLen(d) /\ DecPrefixLen(d) \in Nat
    BY <1>1, <1>3, <1>6, <1>8, PaddedLength
  <2>2. Len(out) = DecPrefixLen(d)
    BY <1>4 DEF Holds
  <2>3. \A i \in 1 .. Len(out) : out[i] = DecByte(c, i)
    BY <1>4, <1>5, <2>2, DecByteLocal DEF Holds
  <2>4. Decode(c) = [i \in 1 .. Len(out) |-> DecByte(c, i)]
    BY <1>2, <2>1, <2>2 DEF Decode
  <2>5. out = [i \in 1 .. Len(out) |-> out[i]]
    BY <1>1
  <2> QED
    BY <2>3, <2>4, <2>5
<1> QED
  BY <1>7, <1>8 DEF c

\* When base64_decode finds no group open and no fault, what it was given is a
\* complete text and the output its decoding; and only then is no group open.
THEOREM CompleteCorrect == Spec => []CompleteIsDecode
BY CompleteAt, Inductive, PTL

-----------------------------------------------------------------------------
(* The decoder implements the abstract stream.                             *)

\* The reference definitions of the two modules are the same.
LEMMA SameReference ==
  ASSUME NEW c, NEW n
  PROVE  /\ Stream!Viable(c, n) = Viable(c, n)
         /\ Stream!Decoded(c, n) = Decoded(c, n)
         /\ Stream!WellFormed(c) = WellFormed(c)
<1>1. \A d : Stream!DataPrefix(c, n, d) = DataPrefix(c, n, d)
  BY DEF Stream!DataPrefix, DataPrefix, Stream!Sextet, Sextet
<1>2. Stream!Viable(c, n) = Viable(c, n)
  BY <1>1 DEF Stream!Viable, Viable, Stream!Pad, Pad
<1>3. \A i : Stream!DecByte(c, i) = DecByte(c, i)
  BY DEF Stream!DecByte, DecByte
<1>4. \A i : Stream!DecPrefixLen(i) = DecPrefixLen(i)
  BY DEF Stream!DecPrefixLen, DecPrefixLen
<1>5. Stream!Decoded(c, n) = Decoded(c, n)
  BY <1>1, <1>3, <1>4 DEF Stream!Decoded, Decoded
<1>6. Stream!PadCount(c) = PadCount(c)
  BY DEF Stream!PadCount, PadCount, Stream!Pad, Pad
<1>7. Stream!WellFormed(c) = WellFormed(c)
  BY <1>6 DEF Stream!WellFormed, WellFormed, Stream!Sextet, Sextet
<1> QED
  BY <1>2, <1>5, <1>7

LEMMA InitRefines == Init => Stream!Init
<1> SUFFICES ASSUME Init PROVE Stream!Init
  OBVIOUS
<1>1. ~ failed /\ state.bytes = 0
  BY Zenon DEF Init, InitState
<1>2. (~ failed /\ state.bytes = 0) = TRUE /\ failed = FALSE
  BY <1>1, Zenon DEF Init
<1> QED
  BY <1>2 DEF Init, InCall, Stream!Init

\* Between two calls of a stream that has not failed the caller holds what the
\* characters fed determine, and knows whether they are a complete text.
LEMMA HeldIsDecoded == IndInv /\ pc = "caller" /\ ~ failed => out = Decoded(text, end)
<1> SUFFICES ASSUME IndInv, pc = "caller", ~ failed PROVE out = Decoded(text, end)
  OBVIOUS
<1>1. PICK d \in 0..end : Consumed(state, end, d)
  BY BetweenCalls
<1>2. out \in Seq(Byte) /\ end \in Nat
  BY DEF IndInv, TypeOK
<1>3. DataPrefix(text, end, d) /\ Holds(d)
  BY <1>1 DEF Consumed
<1>5. Decoded(text, end) = [i \in 1 .. DecPrefixLen(d) |-> DecByte(text, i)]
  BY <1>2, <1>3, DecodedAt
<1>6. out = [i \in 1 .. Len(out) |-> out[i]]
  BY <1>2
<1> QED
  BY <1>3, <1>5, <1>6 DEF Holds

\* A call that returns has accepted or rejected, as it should, what was fed.
LEMMA ReturnRefines ==
  ASSUME IndInv, IndInv', ~ InCall', text' = text, failed => failed',
         (IF InCall THEN base ELSE end) <= end'
  PROVE  [Stream!Next]_(Stream!absVars)
<1>1. /\ end' \in Nat /\ base \in Nat /\ end \in Nat /\ end' <= Len(text)
      /\ pc' = "caller" /\ Len(text) \in Nat
  BY ConstantTypes DEF IndInv, TypeOK, PositionInv, InCall
<1>2. failed \in BOOLEAN /\ failed' \in BOOLEAN
  BY Zenon DEF IndInv, TypeOK
<1>3. CASE failed
  <2>1. failed'
    BY <1>3
  <2>2. failed' = failed
    BY <1>2, <1>3, <2>1
  <2> QED
    BY <1>3, <2>1, <2>2 DEF Stream!absVars
<1>4. /\ failed' <=> ~ Viable(text', end')
      /\ ~ failed' => out' = Decoded(text', end')
      /\ ~ failed' => (state'.bytes = 0 <=> WellFormed(SubSeq(text', 1, end')))
  <2>1. IndInv' => VerdictIsRight' /\ CompleteIsDecode'
    BY VerdictAt, CompleteAt, PTL
  <2>2. IndInv' /\ (pc = "caller")' /\ (~ failed)' => (out = Decoded(text, end))'
    BY HeldIsDecoded, PTL
  <2> QED
    BY <1>1, <2>1, <2>2 DEF VerdictIsRight, CompleteIsDecode
<1>5. end' \in (IF InCall THEN base ELSE end) .. Len(text)
  BY <1>1
<1>6. CASE ~ failed /\ failed'
  <2>1. Stream!Reject(end')
    <3>1. ~ Stream!Viable(text, end')
      BY <1>4, <1>6, SameReference
    <3> QED
      BY <1>2, <1>6, <3>1 DEF Stream!Reject
  <2> QED
    BY <1>5, <1>6, <2>1 DEF Stream!Next
<1>7. CASE ~ failed /\ ~ failed'
  <2>1. Stream!Accept(end')
    <3>1. /\ Stream!Viable(text, end') /\ out' = Stream!Decoded(text, end')
          /\ state'.bytes = 0 <=> Stream!WellFormed(SubSeq(text, 1, end'))
      BY <1>4, <1>7, SameReference
    <3>2. failed' = failed
      BY <1>2, <1>7
    <3>3. (~ failed /\ state.bytes = 0)' = Stream!WellFormed(SubSeq(text, 1, end'))
      BY <1>7, <3>1 DEF Stream!WellFormed
    <3> QED
      BY <1>7, <3>1, <3>2, <3>3 DEF Stream!Accept
  <2> QED
    BY <1>5, <1>7, <2>1 DEF Stream!Next
<1> QED
  BY <1>3, <1>6, <1>7

\* The steps inside a call leave what the caller holds alone.
LEMMA InnerStutters ==
  ASSUME IndInv, InCall, InCall',
         UNCHANGED <<text, state, base, obase, failed>>,
         NEW x, out' = out \o x, x \in Seq(Byte)
  PROVE  UNCHANGED Stream!absVars
<1>1. out \in Seq(Byte) /\ obase \in Nat /\ obase <= Len(out)
  BY DEF IndInv, TypeOK, PositionInv
<1>2. /\ out \o x \in Seq(Byte) /\ Len(out \o x) = Len(out) + Len(x)
      /\ \A i \in 1..obase : (out \o x)[i] = out[i]
  BY <1>1
<1>3. SubSeq(out \o x, 1, obase) = SubSeq(out, 1, obase)
  <2>1. obase <= Len(out \o x)
    BY <1>1, <1>2
  <2> DEFINE y == SubSeq(out \o x, 1, obase)
             z == SubSeq(out, 1, obase)
  <2>2. /\ y \in Seq(Byte) /\ Len(y) = obase /\ z \in Seq(Byte) /\ Len(z) = obase
        /\ \A i \in 1..obase : y[i] = (out \o x)[i] /\ z[i] = out[i]
    BY <1>1, <1>2, <2>1
  <2> HIDE DEF y, z
  <2>3. y = [i \in 1..Len(y) |-> y[i]] /\ z = [i \in 1..Len(z) |-> z[i]]
    BY <2>2
  <2>4. y = z
    BY <1>1, <1>2, <2>2, <2>3
  <2> QED
    BY <2>4 DEF y, z
<1> QED
  BY <1>3 DEF Stream!absVars

\* What a round and a case of the switch write.
LEMMA RoundWrites ==
  ASSUME IndInv, KernelRound
  PROVE  \E x \in Seq(Byte) : out' = out \o x
<1> DEFINE b == Here.block
           m == Here.block \div 4
           rb == rounds * b
<1>1. /\ TypeOK /\ pc = "bulk" /\ k <= Len(codec) /\ text \in Seq(Char) /\ Len(text) \in Nat
      /\ s \in Nat /\ slen \in Nat /\ end \in Nat /\ end <= Len(text)
  BY ConstantTypes DEF IndInv, TypeOK, BulkInv, PositionInv, KernelRound
<1>2. b \in Nat /\ m \in Nat /\ b = 4 * m
  BY <1>1, HereNumbers
<1>3. rb \in Nat /\ rb >= b /\ s + slen + rb = end
  BY <1>1, BulkFacts
<1>4. /\ \A i \in s + 1 .. s + b : text[i] \in Sextet
      /\ out' = out \o BlockOut(SubSeq(text, s + 1, s + b))
  BY DEF KernelRound, ValidBlock
<1> HIDE DEF b, m, rb
<1>5. s + 4 * m <= Len(text)
  BY <1>1, <1>2, <1>3
<1>6. RoundIsDecoding(text, s, m)
  BY <1>1, <1>2, <1>4, <1>5, BlockIsDecoding
<1> QED
  BY <1>2, <1>4, <1>6 DEF RoundIsDecoding

LEMMA CaseWrites ==
  ASSUME Case0 \/ Case1 \/ Case2 \/ Case3
  PROVE  \E x \in Seq(Byte) : out' = out \o x
<1>1. \A y : <<Or(st.carry, y)>> \in Seq(Byte)
  BY OrIsByte
<1>2. <<>> \in Seq(Byte)
  OBVIOUS
<1>3. CASE Case0
  BY <1>2, <1>3, Zenon DEF Case0, Consume
<1>4. CASE Case1
  BY <1>1, <1>4, Zenon DEF Case1, Consume
<1>5. CASE Case2
  BY <1>1, <1>5, Zenon DEF Case2, Consume
<1>6. CASE Case3
  BY <1>1, <1>6, Zenon DEF Case3, Consume
<1> QED
  BY <1>3, <1>4, <1>5, <1>6

\* Which of the steps return from a call.
Returning == Drained \/ NotInGroup \/ PadThenMore \/ PadAtChunkEnd \/ BadThird \/ EndAtFourth

LEMMA ReturningSteps ==
  ASSUME Returning
  PROVE  InCall /\ ~ InCall' /\ text' = text /\ end' = end /\ (failed => failed')
<1>1. pc # "caller"
  BY Zenon DEF Returning, Drained, NotInGroup, PadThenMore, PadAtChunkEnd, BadThird,
     EndAtFourth, AtCase, AtCase0
<1>2. \E x, r, n : Leave(x, r, n)
  BY Zenon DEF Returning, Drained, NotInGroup, PadThenMore, PadAtChunkEnd, BadThird, EndAtFourth
<1>3. pc' = "caller" /\ text' = text /\ end' = end /\ (failed => failed')
  BY <1>2, Zenon DEF Leave
<1> QED
  BY <1>1, <1>3, Zenon DEF InCall

LEMMA StepRefines ==
  IndInv /\ IndInv' /\ [Next]_vars => [Stream!Next]_(Stream!absVars)
<1> SUFFICES ASSUME IndInv, IndInv', [Next]_vars
             PROVE  [Stream!Next]_(Stream!absVars)
  OBVIOUS
<1>1. CASE StreamInit
  <2>1. ~ failed' /\ state'.bytes = 0 /\ failed' = FALSE
    BY <1>1, Zenon DEF StreamInit, InitState
  <2>2. (~ failed /\ state.bytes = 0)' = TRUE
    BY <2>1, Zenon
  <2>3. Stream!StartOver
    BY <1>1, <2>1, <2>2 DEF StreamInit, InCall, Stream!StartOver
  <2> QED
    BY <2>3 DEF Stream!Next
<1>2. ASSUME NEW n \in ChunkSizes[text], Call(n) PROVE [Stream!Next]_(Stream!absVars)
  <2>1. /\ ~ InCall /\ InCall' /\ base' = end /\ obase' = Len(out)
        /\ UNCHANGED <<out, text, state, failed>>
    BY <1>2 DEF Call, InCall, Entry
  <2>2. out \in Seq(Byte)
    BY DEF IndInv, TypeOK
  <2>3. SubSeq(out, 1, Len(out)) = out
    BY <2>2
  <2> QED
    BY <2>1, <2>3 DEF Stream!absVars
<1>3. ASSUME NEW n \in ChunkSizes[text], CallAfterEof(n) PROVE [Stream!Next]_(Stream!absVars)
  <2>1. ~ InCall /\ ~ InCall' /\ text' = text /\ end' = end + n
    BY <1>3 DEF CallAfterEof, InCall
  <2>2. failed => failed'
    BY <1>3, Zenon DEF CallAfterEof
  <2>3. n \in Nat /\ end \in Nat
    BY ConstantTypes DEF IndInv, TypeOK
  <2> QED
    BY <2>1, <2>2, <2>3, ReturnRefines
<1>4. CASE Rechoose \/ KernelSkip \/ KernelEnter \/ KernelBailOut
  BY <1>4 DEF Rechoose, KernelSkip, KernelEnter, KernelBailOut, InCall, Stream!absVars
<1>5. CASE KernelRound
  <2>1. InCall /\ InCall' /\ UNCHANGED <<text, state, base, obase, failed>>
    BY <1>5 DEF KernelRound, InCall
  <2>2. PICK x \in Seq(Byte) : out' = out \o x
    BY <1>5, RoundWrites
  <2> QED
    BY <2>1, <2>2, InnerStutters
<1>6. CASE Case0 \/ Case1 \/ Case2 \/ Case3
  <2>1. InCall /\ InCall' /\ UNCHANGED <<text, state, base, obase, failed>>
    BY <1>6 DEF Case0, Case1, Case2, Case3, Consume, AtCase0, InCall
  <2>2. PICK x \in Seq(Byte) : out' = out \o x
    BY <1>6, CaseWrites
  <2> QED
    BY <2>1, <2>2, InnerStutters
<1>7. CASE Returning
  <2>1. InCall /\ ~ InCall' /\ text' = text /\ end' = end /\ (failed => failed')
    BY <1>7, ReturningSteps
  <2>2. base <= end
    BY DEF IndInv, TypeOK, PositionInv
  <2> QED
    BY <2>1, <2>2, ReturnRefines
<1>8. CASE UNCHANGED vars
  BY <1>8 DEF vars, InCall, Stream!absVars
<1> QED
  BY <1>1, <1>2, <1>3, <1>4, <1>5, <1>6, <1>7, <1>8, Zenon DEF Next, Returning

\* Chunking, carry, bulk loops and the flags of the struct are invisible to a caller:
\* a call is accepted exactly when what was fed begins some Base64 text, and then
\* leaves what those characters determine (DecodeStream).
THEOREM Refinement == Spec => StreamSpec
<1>1. Init => Stream!Init
  BY InitRefines
<1>2. IndInv /\ IndInv' /\ [Next]_vars => [Stream!Next]_(Stream!absVars)
  BY StepRefines
<1> QED
  BY <1>1, <1>2, Inductive, PTL DEF Spec, StreamSpec, Stream!Spec
=============================================================================
