---------------------------- MODULE EncoderProofs ---------------------------
(***************************************************************************)
(* For every set of messages, every way to cut them into calls and every   *)
(* sequence of bulk loops that meets KernelOK: the type invariant, the     *)
(* safety invariants of Encoder and the refinement of EncodeStream.        *)
(***************************************************************************)
EXTENDS Encoder, Base64Proofs, SequenceTheorems, TLAPS

-----------------------------------------------------------------------------
(* Facts about the reference encoding.  An output of n consumed bytes ends  *)
(* at character EncPrefixLen(n); these say which characters come next.      *)

LEMMA NextPrefix ==
  ASSUME NEW n \in Nat
  PROVE  /\ EncPrefixLen(n) \in Nat
         /\ n % 3 = 0 => (n + 1) % 3 = 1 /\ EncPrefixLen(n + 1) = EncPrefixLen(n) + 1
         /\ n % 3 = 1 => (n + 1) % 3 = 2 /\ EncPrefixLen(n + 1) = EncPrefixLen(n) + 1
         /\ n % 3 = 2 => (n + 1) % 3 = 0 /\ EncPrefixLen(n + 1) = EncPrefixLen(n) + 2
BY DEF EncPrefixLen

LEMMA BlockPrefix ==
  ASSUME NEW n \in Nat, NEW m \in Nat
  PROVE  EncPrefixLen(n + 3 * m) = EncPrefixLen(n) + 4 * m
BY DEF EncPrefixLen

\* The characters that byte n + 1 adds, by its position in the group.
NextCharsAre(d, n) ==
  LET e == EncPrefixLen(n)
  IN /\ n % 3 = 0 => EncChar(d, e + 1) = d[n + 1] \div 4
     /\ n % 3 = 1 =>
          EncChar(d, e + 1) = (d[n] % 4) * 16 + (d[n + 1] \div 16)
     /\ n % 3 = 2 =>
          /\ EncChar(d, e + 1) = (d[n] % 16) * 4 + (d[n + 1] \div 64)
          /\ EncChar(d, e + 2) = d[n + 1] % 64

LEMMA NextChars ==
  ASSUME NEW d \in Seq(Byte), NEW n \in Nat, n < Len(d)
  PROVE  NextCharsAre(d, n)
<1> DEFINE e == EncPrefixLen(n)
           g == n \div 3
<1>1. g \in Nat /\ e \in Nat /\ e + 1 \in Nat /\ e + 2 \in Nat
  BY DEF EncPrefixLen
<1>2. ASSUME n % 3 = 0 PROVE EncChar(d, e + 1) = d[n + 1] \div 4
  <2>1. (e + 1 - 1) \div 4 = g /\ (e + 1 - 1) % 4 = 0 /\ n = 3 * g
    BY <1>2 DEF EncPrefixLen
  <2> HIDE DEF e, g
  <2> QED
    BY <1>1, <2>1, EncCharAt
<1>3. ASSUME n % 3 = 1
      PROVE  EncChar(d, e + 1) = (d[n] % 4) * 16 + (d[n + 1] \div 16)
  <2>1. (e + 1 - 1) \div 4 = g /\ (e + 1 - 1) % 4 = 1 /\ n = 3 * g + 1
    BY <1>3 DEF EncPrefixLen
  <2> HIDE DEF e, g
  <2> QED
    BY <1>1, <2>1, EncCharAt
<1>4. ASSUME n % 3 = 2
      PROVE  /\ EncChar(d, e + 1) = (d[n] % 16) * 4 + (d[n + 1] \div 64)
             /\ EncChar(d, e + 2) = d[n + 1] % 64
  <2>1. /\ (e + 1 - 1) \div 4 = g /\ (e + 1 - 1) % 4 = 2 
        /\ (e + 2 - 1) \div 4 = g /\ (e + 2 - 1) % 4 = 3
        /\ n = 3 * g + 2
    BY <1>4 DEF EncPrefixLen
  <2> HIDE DEF e, g
  <2> QED
    BY <1>1, <2>1, EncCharAt
<1> QED
  BY <1>2, <1>3, <1>4 DEF NextCharsAre

\* Three bytes as two 12-bit indices give the same four characters.
LEMMA TwoIndices ==
  ASSUME NEW b1 \in Byte, NEW b2 \in Byte, NEW b3 \in Byte
  PROVE  /\ Index0(b1, b2) \div 64 = b1 \div 4
         /\ Index0(b1, b2) % 64 = (b1 % 4) * 16 + (b2 \div 16)
         /\ Index1(b2, b3) \div 64 = (b2 % 16) * 4 + (b3 \div 64)
         /\ Index1(b2, b3) % 64 = b3 % 64
BY DEF Index0, Index1, Byte

\* A round on 3 * m bytes after the first n writes their encoding.
RoundIsEncoding(d, n, m) ==
  LET x == BlockOut(SubSeq(d, n + 1, n + 3 * m))
  IN /\ x \in Seq(Sextet)
     /\ Len(x) = 4 * m
     /\ \A i \in 1 .. 4 * m : x[i] = EncChar(d, EncPrefixLen(n) + i)

\* Every round of a bulk loop writes the characters the reference gives.
LEMMA BlockIsEncoding ==
  ASSUME NEW d \in Seq(Byte), NEW n \in Nat, NEW m \in Nat,
         n % 3 = 0, n + 3 * m <= Len(d)
  PROVE  RoundIsEncoding(d, n, m)
<1> DEFINE b == SubSeq(d, n + 1, n + 3 * m)
<1>1. Len(b) = 3 * m /\ \A j \in 1 .. 3 * m : b[j] = d[n + j]
  OBVIOUS
<1>2. Len(b) \div 3 = m
  BY <1>1
<1>3. BlockOut(b) = [i \in 1 .. 4 * m |-> BlockChar(b, i)]
  BY <1>2 DEF BlockOut
<1>5. ASSUME NEW i \in 1 .. 4 * m
      PROVE  BlockChar(b, i) = EncChar(d, EncPrefixLen(n) + i) /\ BlockChar(b, i) \in Sextet
  <2> DEFINE h == (i - 1) \div 4
             p == (i - 1) % 4
             e == EncPrefixLen(n) + i
             g == n \div 3 + h
             b1 == d[3 * g + 1]
             b2 == d[3 * g + 2]
             b3 == d[3 * g + 3]
  <2>1. h \in 0 .. m - 1 /\ p \in 0..3
    OBVIOUS
  <2>2. /\ e \in Nat /\ g \in Nat
        /\ (e - 1) \div 4 = g /\ (e - 1) % 4 = p
    BY DEF EncPrefixLen
  <2>3. 3 * g = n + 3 * h
    OBVIOUS
  <2>4. 3 * h + 1 \in 1 .. 3 * m /\ 3 * h + 2 \in 1 .. 3 * m /\ 3 * h + 3 \in 1 .. 3 * m
    BY <2>1
  <2>5. b[3 * h + 1] = b1 /\ b[3 * h + 2] = b2 /\ b[3 * h + 3] = b3
    <3>1. /\ b[3 * h + 1] = d[n + (3 * h + 1)]
          /\ b[3 * h + 2] = d[n + (3 * h + 2)]
          /\ b[3 * h + 3] = d[n + (3 * h + 3)]
      <4> HIDE DEF b, h
      <4> QED
        BY <1>1, <2>4
    <3>2. /\ n + (3 * h + 1) = 3 * g + 1
          /\ n + (3 * h + 2) = 3 * g + 2
          /\ n + (3 * h + 3) = 3 * g + 3
      BY <2>3
    <3> QED
      BY <3>1, <3>2
  <2>6. 3 * g + 3 <= Len(d) /\ b1 \in Byte /\ b2 \in Byte /\ b3 \in Byte
    <3>1. 3 * g + 3 <= Len(d)
      BY <2>1, <2>3
    <3> HIDE DEF g
    <3> QED BY <2>2, <3>1, SMTT(30)
  <2>7. /\ p = 0 => EncChar(d, e) = b1 \div 4
        /\ p = 1 => EncChar(d, e) = (b1 % 4) * 16 + (b2 \div 16)
        /\ p = 2 => EncChar(d, e) = (b2 % 16) * 4 + (b3 \div 64)
        /\ p = 3 => EncChar(d, e) = b3 % 64
    <3> HIDE DEF e, g, p
    <3> QED BY <2>2, <2>6, EncCharAt
  <2>8. BlockChar(b, i) = CASE p = 0 -> Index0(b1, b2) \div 64
                            [] p = 1 -> Index0(b1, b2) % 64
                            [] p = 2 -> Index1(b2, b3) \div 64
                            [] OTHER -> Index1(b2, b3) % 64
    BY <2>5, Zenon DEF BlockChar
  <2>9. /\ b1 \div 4 \in Sextet
        /\ (b1 % 4) * 16 + (b2 \div 16) \in Sextet
        /\ (b2 % 16) * 4 + (b3 \div 64) \in Sextet
        /\ b3 % 64 \in Sextet
    <3> HIDE DEF b1, b2, b3
    <3> QED BY <2>6 DEF Byte, Sextet
  <2>10. /\ Index0(b1, b2) \div 64 = b1 \div 4
         /\ Index0(b1, b2) % 64 = (b1 % 4) * 16 + (b2 \div 16)
         /\ Index1(b2, b3) \div 64 = (b2 % 16) * 4 + (b3 \div 64)
         /\ Index1(b2, b3) % 64 = b3 % 64
    BY <2>6, TwoIndices
  <2> HIDE DEF b, b1, b2, b3, p
  <2>11. CASE p = 0
    BY <2>11, <2>7, <2>8, <2>9, <2>10
  <2>12. CASE p = 1
    BY <2>12, <2>7, <2>8, <2>9, <2>10
  <2>13. CASE p = 2
    BY <2>13, <2>7, <2>8, <2>9, <2>10
  <2>14. CASE p = 3
    BY <2>14, <2>7, <2>8, <2>9, <2>10
  <2> QED
    BY <2>1, <2>11, <2>12, <2>13, <2>14
<1> QED
  BY <1>3, <1>5 DEF RoundIsEncoding

LEMMA PlusNothing ==
  ASSUME NEW b \in Byte, NEW m \in {4, 16}, NEW c \in {4, 16}, NEW q \in {16, 64}
  PROVE  (b % m) * c + (0 \div q) = (b % m) * c
<1>1. 0 \div 16 = 0 /\ 0 \div 64 = 0
  OBVIOUS
<1>2. (b % 4) * 16 \in Int /\ (b % 16) * 4 \in Int /\ (b % 4) * 4 \in Int /\ (b % 16) * 16 \in Int
  BY DEF Byte
<1>3. 0 \div q = 0
  BY <1>1
<1>4. (b % m) * c \in Int
  BY <1>2
<1> HIDE DEF Byte
<1> QED
  BY <1>3, <1>4

\* The characters of the open group that a message ends in.
LEMMA OpenGroup ==
  ASSUME NEW d \in Seq(Byte), NEW g \in Nat, NEW e \in Nat, (e - 1) \div 4 = g
  PROVE  /\ (e - 1) % 4 = 1 /\ Len(d) = 3 * g + 1 =>
              EncChar(d, e) = (d[3 * g + 1] % 4) * 16
         /\ (e - 1) % 4 = 2 /\ Len(d) = 3 * g + 2 =>
              EncChar(d, e) = (d[3 * g + 2] % 16) * 4
         /\ (e - 1) % 4 = 2 /\ Len(d) = 3 * g + 1 => EncChar(d, e) = Pad
         /\ (e - 1) % 4 = 3 /\ Len(d) < 3 * g + 3 => EncChar(d, e) = Pad
<1>1. ASSUME (e - 1) % 4 = 1, Len(d) = 3 * g + 1
      PROVE  EncChar(d, e) = (d[3 * g + 1] % 4) * 16
  <2>1. /\ ByteAt(d, 3 * ((e - 1) \div 4) + 1) = d[3 * g + 1]
        /\ ByteAt(d, 3 * ((e - 1) \div 4) + 2) = 0
    BY <1>1 DEF ByteAt
  <2>2. d[3 * g + 1] \in Byte /\ 0 \div 16 = 0
    BY <1>1
  <2>3. EncChar(d, e) = (ByteAt(d, 3 * ((e - 1) \div 4) + 1) % 4) * 16
                          + (ByteAt(d, 3 * ((e - 1) \div 4) + 2) \div 16)
    <3>1. (e - 1) % 4 # 0
      BY <1>1
    <3> QED
      BY <1>1, <3>1 DEF EncChar
  <2> QED
    BY <2>1, <2>2, <2>3, PlusNothing
<1>2. ASSUME (e - 1) % 4 = 2, Len(d) = 3 * g + 2
      PROVE  EncChar(d, e) = (d[3 * g + 2] % 16) * 4
  <2>1. /\ ByteAt(d, 3 * ((e - 1) \div 4) + 2) = d[3 * g + 2]
        /\ ByteAt(d, 3 * ((e - 1) \div 4) + 3) = 0
        /\ ~ (3 * ((e - 1) \div 4) + 2 > Len(d))
    BY <1>2 DEF ByteAt
  <2>2. d[3 * g + 2] \in Byte /\ 0 \div 64 = 0
    BY <1>2
  <2>3. EncChar(d, e) = (ByteAt(d, 3 * ((e - 1) \div 4) + 2) % 16) * 4
                          + (ByteAt(d, 3 * ((e - 1) \div 4) + 3) \div 64)
    <3>1. (e - 1) % 4 # 0 /\ (e - 1) % 4 # 1
      BY <1>2
    <3> QED
      BY <1>2, <2>1, <3>1, Zenon DEF EncChar
  <2> QED
    BY <2>1, <2>2, <2>3, PlusNothing
<1>3. ASSUME (e - 1) % 4 = 2, Len(d) = 3 * g + 1 PROVE EncChar(d, e) = Pad
  <2>1. 3 * ((e - 1) \div 4) + 2 > Len(d)
    BY <1>3
  <2> QED
    BY <1>3, <2>1 DEF EncChar
<1>4. ASSUME (e - 1) % 4 = 3, Len(d) < 3 * g + 3 PROVE EncChar(d, e) = Pad
  <2>1. 3 * ((e - 1) \div 4) + 3 > Len(d)
    BY <1>4
  <2> QED
    BY <1>4, <2>1, SMTT(30) DEF EncChar
<1> QED
  BY <1>1, <1>2, <1>3, <1>4

\* The end of a message: finalizing pads the open group with '='.
LEMMA Trailing ==
  ASSUME NEW d \in Seq(Byte)
  PROVE  LET n == Len(d)
             e == EncPrefixLen(n)
         IN /\ n % 3 = 0 => EncodedLen(n) = e
            /\ n % 3 = 1 => /\ EncodedLen(n) = e + 3
                            /\ EncChar(d, e + 1) = (d[n] % 4) * 16
                            /\ EncChar(d, e + 2) = Pad /\ EncChar(d, e + 3) = Pad
            /\ n % 3 = 2 => /\ EncodedLen(n) = e + 2
                            /\ EncChar(d, e + 1) = (d[n] % 16) * 4
                            /\ EncChar(d, e + 2) = Pad
<1> DEFINE n == Len(d)
           e == EncPrefixLen(n)
           g == n \div 3
<1>1. n \in Nat /\ e \in Nat /\ g \in Nat
  BY DEF EncPrefixLen
<1>2. n % 3 = 0 => EncodedLen(n) = e
  BY <1>1 DEF EncPrefixLen, EncodedLen
<1>3. ASSUME n % 3 = 1
      PROVE  /\ EncodedLen(n) = e + 3
             /\ EncChar(d, e + 1) = (d[n] % 4) * 16
             /\ EncChar(d, e + 2) = Pad /\ EncChar(d, e + 3) = Pad
  <2>1. n = 3 * g + 1 /\ EncodedLen(n) = e + 3
    BY <1>1, <1>3 DEF EncPrefixLen, EncodedLen
  <2>2. /\ (e + 1 - 1) \div 4 = g /\ (e + 1 - 1) % 4 = 1
        /\ (e + 2 - 1) \div 4 = g /\ (e + 2 - 1) % 4 = 2
        /\ (e + 3 - 1) \div 4 = g /\ (e + 3 - 1) % 4 = 3
    BY <1>1, <1>3 DEF EncPrefixLen
  <2> HIDE DEF e, g
  <2> QED
    BY <1>1, <2>1, <2>2, OpenGroup
<1>4. ASSUME n % 3 = 2
      PROVE  /\ EncodedLen(n) = e + 2
             /\ EncChar(d, e + 1) = (d[n] % 16) * 4
             /\ EncChar(d, e + 2) = Pad
  <2>1. n = 3 * g + 2 /\ EncodedLen(n) = e + 2
    BY <1>1, <1>4 DEF EncPrefixLen, EncodedLen
  <2>2. /\ (e + 1 - 1) \div 4 = g /\ (e + 1 - 1) % 4 = 2
        /\ (e + 2 - 1) \div 4 = g /\ (e + 2 - 1) % 4 = 3
    BY <1>1, <1>4 DEF EncPrefixLen
  <2> HIDE DEF e, g
  <2> QED
    BY <1>1, <2>1, <2>2, OpenGroup
<1> QED
  BY <1>2, <1>3, <1>4

-----------------------------------------------------------------------------
(* The inductive invariant.                                                *)

LEMMA HereOK ==
  ASSUME TypeOK, k <= Len(codec)
  PROVE  Here \in Kernel /\ KernelOK(Here)
<1>1. codec \in Seq(Kernel) /\ k \in 1 .. Len(codec)
  BY EncoderAssumption DEF TypeOK
<1>2. KernelOK(codec[k])
  BY <1>1, EncoderAssumption DEF TypeOK
<1> QED
  BY <1>1, <1>2 DEF Here

LEMMA MessageType ==
  ASSUME TypeOK
  PROVE  msg \in Seq(Byte) /\ Len(msg) \in Nat
BY EncoderAssumption DEF TypeOK

THEOREM InitInv == Init => IndInv
<1> SUFFICES ASSUME Init PROVE IndInv
  OBVIOUS
<1> USE DEF Init
<1>1. TypeOK
  BY EncoderAssumption DEF TypeOK, InitState, Sextet
<1>2. PositionInv /\ PlaceInv /\ CountInv /\ BulkInv /\ ClosedInv
  BY <1>1, MessageType DEF PositionInv, PlaceInv, CountInv, BulkInv, ClosedInv, InCall
<1>3. WrittenInv /\ CarryInv
  BY DEF WrittenInv, OutputIsEncoding, EncPrefixLen, CarryInv, Carried, InitState, InCall
<1> QED
  BY <1>1, <1>2, <1>3 DEF IndInv

LEMMA StreamInitInv == IndInv /\ StreamInit => IndInv'
<1> SUFFICES ASSUME IndInv, StreamInit PROVE IndInv'
  OBVIOUS
<1> USE DEF StreamInit, IndInv
<1>1. TypeOK'
  BY DEF TypeOK, InitState, Sextet
<1>2. (PositionInv /\ PlaceInv /\ CountInv /\ BulkInv /\ ClosedInv)'
  BY MessageType DEF PositionInv, PlaceInv, CountInv, BulkInv, ClosedInv, InCall
<1>3. (WrittenInv /\ CarryInv)'
  BY DEF WrittenInv, OutputIsEncoding, EncPrefixLen, CarryInv, Carried, InitState, InCall
<1> QED
  BY <1>1, <1>2, <1>3

\* A codec put in place of another finds nothing in the state that was its own.
LEMMA RechooseInv == IndInv /\ Rechoose => IndInv'
<1> SUFFICES ASSUME IndInv, Rechoose PROVE IndInv'
  OBVIOUS
<1> USE DEF IndInv, Rechoose
<1>1. codec' \in Seq(Kernel) /\ Len(codec') \in Nat
  BY EncoderAssumption
<1>2. TypeOK'
  BY <1>1 DEF TypeOK
<1>3. (PositionInv /\ PlaceInv /\ CountInv /\ BulkInv /\ ClosedInv)'
  BY DEF PositionInv, PlaceInv, CountInv, BulkInv, ClosedInv, InCall
<1>4. (WrittenInv /\ CarryInv)'
  BY DEF WrittenInv, OutputIsEncoding, CarryInv, Carried, InCall
<1> QED
  BY <1>2, <1>3, <1>4

LEMMA CallInv == ASSUME NEW n \in ChunkSizes, IndInv, Call(n) PROVE IndInv'
<1> USE DEF IndInv
<1>1. n \in Nat /\ Len(msg) \in Nat /\ s = end /\ s \in Nat
  BY EncoderAssumption, MessageType DEF PositionInv, TypeOK, Call, InCall
<1>2. state.bytes = s % 3 /\ state.bytes \in 0..2
  BY DEF CarryInv, Carried, Call, InCall, TypeOK
<1>3. /\ s % 3 = 0 => pc' = "kernel"
      /\ s % 3 = 1 => pc' = "case1"
      /\ s % 3 = 2 => pc' = "case2"
      /\ pc' \in {"kernel", "case1", "case2"}
  BY <1>2 DEF Call, Entry
<1>4. TypeOK'
  BY <1>1, <1>3 DEF Call, TypeOK
<1>5. PositionInv' /\ PlaceInv' /\ CountInv' /\ BulkInv' /\ ClosedInv'
  BY <1>1, <1>3, <1>4 DEF Call, TypeOK, PositionInv, PlaceInv, CountInv, BulkInv,
     ClosedInv, InCall
<1>6. WrittenInv'
  BY <1>1, <1>3 DEF Call, WrittenInv, OutputIsEncoding, InCall
<1>7. CarryInv'
  BY <1>1, <1>3 DEF Call, CarryInv, Carried, InCall
<1> QED
  BY <1>4, <1>5, <1>6, <1>7

LEMMA KernelSkipInv == IndInv /\ KernelSkip => IndInv'
<1> SUFFICES ASSUME IndInv, KernelSkip PROVE IndInv'
  OBVIOUS
<1> USE DEF IndInv, KernelSkip
<1>1. TypeOK'
  BY DEF TypeOK
<1>2. (PositionInv /\ PlaceInv /\ CountInv /\ BulkInv /\ ClosedInv)'
  BY DEF PositionInv, PlaceInv, CountInv, BulkInv, ClosedInv, InCall
<1>3. (WrittenInv /\ CarryInv)'
  BY DEF WrittenInv, OutputIsEncoding, CarryInv, Carried, InCall
<1> QED
  BY <1>1, <1>2, <1>3

\* The rounds a bulk loop books leave at least its reserve.
LEMMA RoundsFit ==
  ASSUME NEW n \in Nat, NEW r \in Nat, NEW b \in Nat, b > 0, n >= r
  PROVE  LET q == (n - r) \div b
         IN /\ q \in Nat
            /\ n - q * b \in Nat /\ n - q * b >= r
            /\ n >= r + b => q >= 1
<1> DEFINE x == n - r
           q == x \div b
<1>1. x \in Nat
  OBVIOUS
<1>2. q \in Nat /\ q * b <= x /\ (x >= b => q >= 1)
  BY <1>1
<1>3. q * b \in Nat
  BY <1>2
<1> HIDE DEF q
<1> QED
  BY <1>1, <1>2, <1>3

LEMMA OneRoundLess ==
  ASSUME NEW r \in Nat, NEW b \in Nat, r >= 1
  PROVE  /\ (r - 1) * b = r * b - b
         /\ r * b \in Nat /\ r * b >= b
         /\ r > 1 => r * b - b >= b
         /\ r = 1 => r * b = b
<1> DEFINE p == r - 1
<1>1. p \in Nat /\ r = p + 1
  OBVIOUS
<1>2. (p + 1) * b = p * b + b /\ p * b \in Nat /\ (p > 0 => p * b >= b)
  BY <1>1
<1> HIDE DEF p
<1>3. r * b = p * b + b
  BY <1>1, <1>2
<1>4. p = r - 1
  BY DEF p
<1> QED
  BY <1>1, <1>2, <1>3, <1>4

\* Appending the next characters of the encoding keeps the output correct.
LEMMA AppendChars ==
  ASSUME NEW d, NEW o \in Seq(Sextet \cup {Pad}), NEW x \in Seq(Sextet \cup {Pad}),
         \A i \in 1..Len(o) : o[i] = EncChar(d, i),
         \A i \in 1..Len(x) : x[i] = EncChar(d, Len(o) + i)
  PROVE  /\ o \o x \in Seq(Sextet \cup {Pad})
         /\ Len(o \o x) = Len(o) + Len(x)
         /\ \A i \in 1..Len(o \o x) : (o \o x)[i] = EncChar(d, i)
<1>1. o \o x \in Seq(Sextet \cup {Pad}) /\ Len(o \o x) = Len(o) + Len(x)
  OBVIOUS
<1>2. ASSUME NEW i \in 1..Len(o \o x) PROVE (o \o x)[i] = EncChar(d, i)
  <2>1. CASE i <= Len(o)
    BY <1>1, <2>1
  <2>2. CASE i > Len(o)
    <3>1. i - Len(o) \in 1..Len(x) /\ (o \o x)[i] = x[i - Len(o)]
      BY <1>1, <2>2
    <3>2. Len(o) + (i - Len(o)) = i
      OBVIOUS
    <3> QED
      BY <3>1, <3>2
  <2> QED
    BY <2>1, <2>2
<1> QED
  BY <1>1, <1>2

LEMMA KernelEnterInv == IndInv /\ KernelEnter => IndInv'
<1> SUFFICES ASSUME IndInv, KernelEnter PROVE IndInv'
  OBVIOUS
<1> DEFINE r == (slen - Here.reserve) \div Here.block
<1>1. TypeOK /\ pc = "kernel" /\ k <= Len(codec) /\ slen >= Here.guard /\ slen \in Nat
  BY DEF IndInv, TypeOK, KernelEnter
<1>2. Here \in Kernel /\ KernelOK(Here)
  BY <1>1, HereOK
<1>3. /\ Here.reserve \in Nat /\ Here.block \in Nat /\ Here.block > 0
      /\ slen >= Here.reserve
      /\ ~ Here.whileLoop => slen >= Here.reserve + Here.block
      /\ slen >= Here.width /\ Here.guard \in Nat /\ Here.width \in Nat
      /\ Here.block \div 3 \in Nat
  BY <1>1, <1>2 DEF Kernel, KernelOK
<1>4. /\ r \in Nat /\ slen - r * Here.block \in Nat
      /\ slen - r * Here.block >= Here.reserve
      /\ ~ Here.whileLoop => r >= 1
      /\ r * Here.block \in Nat
  <2>1. \A n, q, b \in Nat : b > 0 /\ n >= q =>
          /\ (n - q) \div b \in Nat
          /\ n - ((n - q) \div b) * b \in Nat /\ n - ((n - q) \div b) * b >= q
          /\ n >= q + b => (n - q) \div b >= 1
    BY RoundsFit
  <2>2. r \in Nat /\ slen - r * Here.block \in Nat
        /\ slen - r * Here.block >= Here.reserve
        /\ (~ Here.whileLoop => r >= 1)
    BY <1>1, <1>3, <2>1
  <2> HIDE DEF r
  <2> QED
    BY <1>3, <2>2
<1>5. /\ rounds' = r /\ slen' = slen - r * Here.block
      /\ olen' = olen + r * (4 * (Here.block \div 3)) /\ lag' = 0
      /\ UNCHANGED <<codec, msg, out, state, base, end, obase, outlen, st, s>>
      /\ \/ pc' = "kernel" /\ k' = k + 1 /\ r = 0
         \/ pc' = "bulk" /\ k' = k /\ (r = 0 => ~ Here.whileLoop)
  BY <1>1 DEF KernelEnter
<1> HIDE DEF r
<1>6. r * (4 * (Here.block \div 3)) \in Nat /\ (r = 0 => r * Here.block = 0)
      /\ (r = 0 => r * (4 * (Here.block \div 3)) = 0)
  BY <1>3, <1>4
<1>7. TypeOK'
  BY <1>1, <1>4, <1>5, <1>6, SMTT(30) DEF TypeOK
<1>8. /\ slen = end - s /\ olen = Len(out) - obase
      /\ s \in Nat /\ end \in Nat /\ s % 3 = 0
  BY <1>1 DEF IndInv, CountInv, PlaceInv, TypeOK
<1>9. (PositionInv /\ PlaceInv /\ CountInv /\ ClosedInv)'
  BY <1>1, <1>5, <1>6, <1>8 DEF IndInv, PositionInv, PlaceInv, CountInv, ClosedInv, InCall
<1>10. BulkInv'
  <2> SUFFICES ASSUME pc' = "bulk" PROVE BulkInv'
    BY DEF BulkInv
  <2>1. k' = k /\ Here' = Here /\ r >= 1
    BY <1>4, <1>5 DEF Here
  <2>2. s + slen' + r * Here.block = end
    BY <1>4, <1>5, <1>8, SMTT(30)
  <2>3. s + Here.width <= end
    BY <1>3, <1>8
  <2> QED
    BY <1>1, <1>4, <1>5, <1>8, <2>1, <2>2, <2>3 DEF BulkInv
<1>11. (WrittenInv /\ CarryInv)'
  BY <1>1, <1>5 DEF IndInv, WrittenInv, OutputIsEncoding, CarryInv, Carried, InCall
<1> QED
  BY <1>7, <1>9, <1>10, <1>11 DEF IndInv

LEMMA KernelRoundInv == IndInv /\ KernelRound => IndInv'
<1> SUFFICES ASSUME IndInv, KernelRound PROVE IndInv'
  OBVIOUS
<1> DEFINE b == Here.block
           m == Here.block \div 3
           x == BlockOut(SubSeq(msg, s + 1, s + b))
<1>1. TypeOK /\ pc = "bulk" /\ k \in Nat /\ k <= Len(codec) /\ Len(codec) \in Nat
  <2>1. TypeOK /\ pc = "bulk" /\ k <= Len(codec)
    BY DEF IndInv, BulkInv, KernelRound
  <2> QED
    BY <2>1, EncoderAssumption DEF TypeOK
<1>2. Here \in Kernel /\ KernelOK(Here)
  BY <1>1, HereOK
<1>3. /\ b \in Nat /\ m \in Nat /\ b = 3 * m /\ b > 0
      /\ Here.reserve \in Nat /\ Here.width \in Nat /\ Here.lag \in Nat
      /\ Here.width <= Here.reserve + b + Here.lag
      /\ Here.lag <= b
  BY <1>2 DEF Kernel, KernelOK
<1>4. /\ s \in Nat /\ slen \in Nat /\ rounds \in Nat /\ rounds >= 1 /\ end \in Nat
      /\ base \in Nat /\ obase \in Nat /\ olen \in Nat /\ s % 3 = 0
      /\ slen >= Here.reserve
      /\ base <= s /\ s <= end /\ end <= Len(msg) /\ obase <= Len(out)
  BY <1>1 DEF IndInv, TypeOK, BulkInv, PlaceInv, PositionInv
<1>21. /\ s + slen + rounds * b = end
       /\ olen = Len(out) - obase + rounds * (4 * m)
  BY <1>1 DEF IndInv, BulkInv
<1> DEFINE rb == rounds * b
           ro == rounds * (4 * m)
<1> HIDE DEF b, m
<1>5. /\ (rounds - 1) * b = rb - b
      /\ (rounds - 1) * (4 * m) = ro - 4 * m
      /\ rb \in Nat /\ ro \in Nat /\ rb >= b
      /\ rounds > 1 => rb - b >= b
      /\ rounds = 1 => rb = b /\ ro = 4 * m
      /\ s + slen + rb = end /\ olen = Len(out) - obase + ro
  <2>1. rounds \in Nat /\ rounds >= 1 /\ b \in Nat /\ 4 * m \in Nat
    BY <1>3, <1>4
  <2>2. /\ (rounds - 1) * b = rb - b /\ rb \in Nat /\ rb >= b
        /\ rounds > 1 => rb - b >= b
        /\ rounds = 1 => rb = b
    BY <2>1, OneRoundLess
  <2>3. /\ (rounds - 1) * (4 * m) = ro - 4 * m /\ ro \in Nat
        /\ rounds = 1 => ro = 4 * m
    BY <2>1, OneRoundLess
  <2> QED
    BY <1>21, <2>2, <2>3
<1> HIDE DEF rb, ro
<1>6. s + b \in Nat /\ s + b + slen <= end /\ s + b <= end
  BY <1>3, <1>4, <1>5
<1>7. msg \in Seq(Byte) /\ Len(msg) \in Nat
  BY <1>1, MessageType
<1>8. /\ x \in Seq(Sextet) /\ Len(x) = 4 * m
      /\ \A i \in 1 .. 4 * m : x[i] = EncChar(msg, EncPrefixLen(s) + i)
  <2>1. s + 3 * m <= Len(msg)
    BY <1>3, <1>4, <1>6, <1>7
  <2>2. RoundIsEncoding(msg, s, m)
    BY <1>3, <1>4, <1>7, <2>1, BlockIsEncoding
  <2> QED
    BY <1>3, <2>2 DEF RoundIsEncoding
<1>9. /\ out' = out \o x /\ s' = s + b /\ lag' = Here.lag /\ rounds' = rounds - 1
      /\ UNCHANGED <<codec, msg, state, base, end, obase, outlen, st, slen, olen>>
      /\ \/ pc' = "bulk" /\ k' = k /\ rounds > 1
         \/ pc' = "kernel" /\ k' = k + 1 /\ rounds = 1
  BY <1>4 DEF KernelRound, x, b
<1> HIDE DEF x
<1>10. /\ out \in Seq(Sextet \cup {Pad}) /\ x \in Seq(Sextet \cup {Pad})
       /\ Len(out) = EncPrefixLen(s)
       /\ \A i \in 1..Len(out) : out[i] = EncChar(msg, i)
  <2>1. out \in Seq(Sextet \cup {Pad})
    BY <1>1 DEF TypeOK
  <2>2. Len(out) = EncPrefixLen(s) /\ \A i \in 1..Len(out) : out[i] = EncChar(msg, i)
    BY <1>1 DEF IndInv, WrittenInv, OutputIsEncoding
  <2>3. x \in Seq(Sextet \cup {Pad})
    BY <1>8
  <2> QED
    BY <2>1, <2>2, <2>3
<1>11. /\ out' \in Seq(Sextet \cup {Pad})
       /\ Len(out') = Len(out) + 4 * m
       /\ \A i \in 1..Len(out') : out'[i] = EncChar(msg, i)
  <2>1. \A i \in 1..Len(x) : x[i] = EncChar(msg, Len(out) + i)
    BY <1>8, <1>10
  <2>2. /\ out \o x \in Seq(Sextet \cup {Pad})
        /\ Len(out \o x) = Len(out) + Len(x)
        /\ \A i \in 1..Len(out \o x) : (out \o x)[i] = EncChar(msg, i)
    BY <1>10, <2>1, AppendChars
  <2> QED
    BY <1>8, <1>9, <2>2
<1>12. TypeOK'
  <2>1. s' \in Nat /\ lag' \in Nat /\ rounds' \in Nat /\ k' \in 1 .. Len(codec) + 1
    BY <1>1, <1>3, <1>4, <1>6, <1>9, SMTT(30) DEF TypeOK
  <2> QED
    BY <1>1, <1>9, <1>11, <2>1 DEF TypeOK
<1>13. EncPrefixLen(s + b) = EncPrefixLen(s) + 4 * m /\ (s + b) % 3 = 0
  <2>1. (s + 3 * m) % 3 = 0 /\ EncPrefixLen(s + 3 * m) = EncPrefixLen(s) + 4 * m
    BY <1>3, <1>4 DEF EncPrefixLen
  <2> QED
    BY <1>3, <2>1
<1>14. WrittenInv'
  BY <1>1, <1>9, <1>10, <1>11, <1>13 DEF IndInv, WrittenInv, OutputIsEncoding
<1>15. CarryInv'
  <2>1. st.bytes = 0 /\ s % 3 = 0
    BY <1>1, <1>4 DEF IndInv, CarryInv, Carried, InCall
  <2> QED
    BY <1>1, <1>9, <1>13, <2>1 DEF CarryInv, Carried, InCall
<1>16. Len(out) \in Nat /\ 4 * m \in Nat
  BY <1>3, <1>10
<1>17. PositionInv'
  <2>1. obase' <= Len(out') /\ base' <= s' /\ s' <= end' /\ end' <= Len(msg')
    BY <1>3, <1>4, <1>6, <1>9, <1>11, <1>16
  <2> QED
    BY <1>9, <2>1 DEF PositionInv, InCall
<1>18. PlaceInv' /\ ClosedInv'
  BY <1>9, <1>13 DEF PlaceInv, ClosedInv
<1>19. CountInv'
  <2> SUFFICES ASSUME pc' = "kernel" PROVE (slen = end - s /\ olen = Len(out) - obase)'
    BY <1>9 DEF CountInv, InCall
  <2>1. s + slen + b = end /\ olen = Len(out) - obase + 4 * m
    BY <1>5, <1>9
  <2> QED
    BY <1>3, <1>4, <1>9, <1>11, <1>16, <2>1
<1>20. BulkInv'
  <2> SUFFICES ASSUME pc' = "bulk" PROVE BulkInv'
    BY DEF BulkInv
  <2>1. k' = k /\ Here' = Here /\ rounds > 1 /\ rounds' >= 1
    BY <1>4, <1>9 DEF Here
  <2>2. rounds' * b = rb - b /\ rounds' * (4 * m) = ro - 4 * m
    BY <1>5, <1>9
  <2>3. s' + slen' + (rb - b) = end'
    BY <1>3, <1>4, <1>5, <1>9
  <2>4. olen' = Len(out') - obase' + (ro - 4 * m)
    <3>1. olen' = olen /\ obase' = obase /\ Len(out') = Len(out) + 4 * m
      BY <1>9, <1>11
    <3>2. olen = Len(out) - obase + ro /\ ro \in Nat
      BY <1>5
    <3>3. obase \in Nat
      BY <1>4
    <3> QED
      BY <3>1, <3>2, <3>3, <1>16
  <2>5. s' + b + Here.reserve <= end
    BY <1>3, <1>4, <1>5, <1>9, <2>1, <2>3, SMTT(30)
  <2>6. lag' = 0 => s' + Here.width <= end
    BY <1>3, <1>9, <2>5, <1>6, <1>4
  <2>7. s' >= base + b
    BY <1>3, <1>4, <1>9
  <2> QED
    BY <1>1, <1>4, <1>9, <2>1, <2>2, <2>3, <2>4, <2>6, <2>7 DEF BulkInv, b, m
<1> QED
  BY <1>12, <1>14, <1>15, <1>17, <1>18, <1>19, <1>20 DEF IndInv

\* What the three byte-wise cases have in common: one byte consumed, the
\* characters it determines written, the leftover carried to the next case.
LEMMA ConsumeInv ==
  ASSUME IndInv, NEW chars, NEW st1, NEW next,
         pc \in {"kernel", "case1", "case2"},
         Consume(chars, st1, next),
         chars \in Seq(Sextet),
         EncPrefixLen(s + 1) = EncPrefixLen(s) + Len(chars),
         \A i \in 1..Len(chars) : chars[i] = EncChar(msg, EncPrefixLen(s) + i),
         st1 \in [bytes : 0..2, carry : Sextet],
         Carried(st1, s + 1),
         next \in {"kernel", "case1", "case2"},
         next = "kernel" => (s + 1) % 3 = 0,
         next = "case1"  => (s + 1) % 3 = 1,
         next = "case2"  => (s + 1) % 3 = 2
  PROVE  IndInv'
<1>1. /\ TypeOK /\ slen > 0 /\ slen = end - s /\ olen = Len(out) - obase
      /\ s \in Nat /\ slen \in Nat /\ end \in Nat /\ olen \in Nat /\ obase \in Nat
      /\ base \in Nat /\ base <= s /\ s <= end /\ end <= Len(msg) /\ obase <= Len(out)
      /\ out \in Seq(Sextet \cup {Pad}) /\ Len(codec) \in Nat
  BY EncoderAssumption DEF IndInv, TypeOK, CountInv, PositionInv, Consume
<1>2. /\ out' = out \o chars /\ olen' = olen + Len(chars) /\ st' = st1
      /\ s' = s + 1 /\ slen' = slen - 1 /\ pc' = next /\ k' = 1
      /\ UNCHANGED <<codec, msg, state, base, end, obase, outlen, rounds, lag>>
  BY DEF Consume
<1>3. /\ out' \in Seq(Sextet \cup {Pad})
      /\ Len(out') = Len(out) + Len(chars)
      /\ \A i \in 1..Len(out') : out'[i] = EncChar(msg, i)
      /\ Len(out) = EncPrefixLen(s)
  <2>1. Len(out) = EncPrefixLen(s) /\ \A i \in 1..Len(out) : out[i] = EncChar(msg, i)
    BY DEF IndInv, WrittenInv, OutputIsEncoding
  <2>2. /\ out \o chars \in Seq(Sextet \cup {Pad})
        /\ Len(out \o chars) = Len(out) + Len(chars)
        /\ \A i \in 1..Len(out \o chars) : (out \o chars)[i] = EncChar(msg, i)
    <3>1. chars \in Seq(Sextet \cup {Pad})
      OBVIOUS
    <3>2. \A i \in 1..Len(chars) : chars[i] = EncChar(msg, Len(out) + i)
      BY <2>1
    <3> QED
      BY <1>1, <2>1, <3>1, <3>2, AppendChars
  <2> QED
    BY <1>2, <2>1, <2>2
<1>4. Len(chars) \in Nat /\ Len(out) \in Nat
  BY <1>1
<1>5. TypeOK'
  <2>1. s' \in Nat /\ slen' \in Nat /\ olen' \in Nat /\ k' \in 1 .. Len(codec) + 1
    BY <1>1, <1>2, <1>4
  <2> QED
    BY <1>1, <1>2, <1>3, <2>1 DEF TypeOK
<1>6. PositionInv'
  BY <1>1, <1>2, <1>3, <1>4, SMTT(30) DEF PositionInv, InCall
<1>7. WrittenInv'
  BY <1>2, <1>3 DEF IndInv, WrittenInv, OutputIsEncoding
<1>8. CarryInv'
  BY <1>2 DEF CarryInv, Carried, InCall
<1>9. PlaceInv' /\ BulkInv' /\ ClosedInv'
  BY <1>2 DEF PlaceInv, BulkInv, ClosedInv
<1>10. CountInv'
  BY <1>1, <1>2, <1>3, <1>4, SMTT(30) DEF CountInv, InCall
<1> QED
  BY <1>5, <1>6, <1>7, <1>8, <1>9, <1>10 DEF IndInv

\* The byte a case reads, and the carry it finds.
LEMMA ByteRead ==
  ASSUME IndInv, pc \in {"kernel", "case1", "case2"}, slen > 0
  PROVE  /\ msg \in Seq(Byte) /\ s \in Nat /\ s < Len(msg) /\ msg[s + 1] \in Byte
         /\ s > 0 => msg[s] \in Byte
         /\ st \in [bytes : 0..2, carry : Sextet] /\ Carried(st, s)
<1>1. /\ s \in Nat /\ end \in Nat /\ slen \in Nat
      /\ slen = end - s /\ end <= Len(msg)
      /\ st \in [bytes : 0..2, carry : Sextet]
  BY DEF IndInv, TypeOK, CountInv, PositionInv
<1>2. msg \in Seq(Byte) /\ Len(msg) \in Nat
  BY MessageType DEF IndInv
<1>3. s < Len(msg)
  BY <1>1, <1>2
<1>4. msg[s + 1] \in Byte /\ (s > 0 => msg[s] \in Byte)
  BY <1>1, <1>2, <1>3
<1>5. Carried(st, s)
  BY DEF IndInv, CarryInv, InCall
<1> QED
  BY <1>1, <1>2, <1>3, <1>4, <1>5

LEMMA CarryMasks ==
  ASSUME NEW b \in Byte
  PROVE  /\ Case0Carry(b) = (b % 4) * 16 /\ Case0Carry(b) \in Sextet
         /\ Case1Carry(b) = (b % 16) * 4 /\ Case1Carry(b) \in Sextet
BY DEF Case0Carry, Case1Carry, Byte, Sextet

LEMMA CharRanges ==
  ASSUME NEW x \in Byte, NEW b \in Byte
  PROVE  /\ b \div 4 \in Sextet /\ b % 64 \in Sextet
         /\ (x % 4) * 16 + (b \div 16) \in Sextet
         /\ (x % 16) * 4 + (b \div 64) \in Sextet
BY DEF Byte, Sextet

LEMMA Case0Inv == IndInv /\ Case0 => IndInv'
<1> SUFFICES ASSUME IndInv, Case0 PROVE IndInv'
  OBVIOUS
<1> DEFINE b == msg[s + 1]
           st1 == [bytes |-> st.bytes + 1, carry |-> Case0Carry(b)]
<1>1. pc = "kernel" /\ Consume(<<b \div 4>>, st1, "case1") /\ slen > 0 /\ s % 3 = 0
  BY DEF Case0, AtCase0, Consume, IndInv, PlaceInv
<1>2. /\ msg \in Seq(Byte) /\ s \in Nat /\ s < Len(msg) /\ b \in Byte /\ Carried(st, s)
  BY <1>1, ByteRead
<1>3. /\ EncPrefixLen(s + 1) = EncPrefixLen(s) + 1 /\ (s + 1) % 3 = 1
      /\ EncChar(msg, EncPrefixLen(s) + 1) = b \div 4
      /\ b \div 4 \in Sextet
  <2>1. NextCharsAre(msg, s)
    BY <1>2, NextChars
  <2>2. (s + 1) % 3 = 1 /\ EncPrefixLen(s + 1) = EncPrefixLen(s) + 1
    <3>1. s \in Nat
      BY <1>2
    <3> QED
      BY <1>1, <3>1, NextPrefix
  <2> QED
    BY <1>1, <1>2, <2>1, <2>2, CharRanges DEF NextCharsAre
<1>4. st1 \in [bytes : 0..2, carry : Sextet] /\ Carried(st1, s + 1)
  BY <1>1, <1>2, <1>3, CarryMasks DEF Carried
<1> HIDE DEF b, st1
<1>5. /\ <<b \div 4>> \in Seq(Sextet) /\ Len(<<b \div 4>>) = 1
      /\ \A i \in 1..1 : <<b \div 4>>[i] = EncChar(msg, EncPrefixLen(s) + i)
  BY <1>3
<1> QED
  BY <1>1, <1>3, <1>4, <1>5, ConsumeInv

LEMMA Case1Inv == IndInv /\ Case1 => IndInv'
<1> SUFFICES ASSUME IndInv, Case1 PROVE IndInv'
  OBVIOUS
<1> DEFINE b == msg[s + 1]
           c == st.carry + (b \div 16)
           st1 == [bytes |-> st.bytes + 1, carry |-> Case1Carry(b)]
<1>1. pc = "case1" /\ Consume(<<c>>, st1, "case2") /\ slen > 0 /\ s % 3 = 1
  BY DEF Case1, Consume, IndInv, PlaceInv
<1>2. /\ msg \in Seq(Byte) /\ s \in Nat /\ s < Len(msg) /\ b \in Byte
      /\ msg[s] \in Byte /\ Carried(st, s)
  BY <1>1, ByteRead
<1>3. c = (msg[s] % 4) * 16 + (b \div 16) /\ c \in Sextet
  <2>1. st.carry = (msg[s] % 4) * 16
    BY <1>1, <1>2 DEF Carried
  <2> QED
    BY <1>2, <2>1, CharRanges
<1>4. /\ EncPrefixLen(s + 1) = EncPrefixLen(s) + 1 /\ (s + 1) % 3 = 2
      /\ EncChar(msg, EncPrefixLen(s) + 1) = c
  <2>1. NextCharsAre(msg, s)
    BY <1>2, NextChars
  <2>2. (s + 1) % 3 = 2 /\ EncPrefixLen(s + 1) = EncPrefixLen(s) + 1
    <3>1. s \in Nat
      BY <1>2
    <3> QED
      BY <1>1, <3>1, NextPrefix
  <2> QED
    BY <1>1, <1>3, <2>1, <2>2 DEF NextCharsAre
<1>5. st1 \in [bytes : 0..2, carry : Sextet] /\ Carried(st1, s + 1)
  BY <1>1, <1>2, <1>4, CarryMasks DEF Carried
<1> HIDE DEF b, c, st1
<1>6. /\ <<c>> \in Seq(Sextet) /\ Len(<<c>>) = 1
      /\ \A i \in 1..1 : <<c>>[i] = EncChar(msg, EncPrefixLen(s) + i)
  BY <1>3, <1>4
<1> QED
  BY <1>1, <1>3, <1>4, <1>5, <1>6, ConsumeInv

LEMMA Case2Inv == IndInv /\ Case2 => IndInv'
<1> SUFFICES ASSUME IndInv, Case2 PROVE IndInv'
  OBVIOUS
<1> DEFINE b == msg[s + 1]
           c == st.carry + (b \div 64)
           st1 == [bytes |-> 0, carry |-> st.carry]
<1>1. pc = "case2" /\ Consume(<<c, b % 64>>, st1, "kernel") /\ slen > 0 /\ s % 3 = 2
  BY DEF Case2, Consume, IndInv, PlaceInv
<1>2. /\ msg \in Seq(Byte) /\ s \in Nat /\ s < Len(msg) /\ b \in Byte
      /\ msg[s] \in Byte /\ Carried(st, s)
      /\ st \in [bytes : 0..2, carry : Sextet]
  BY <1>1, ByteRead
<1>3. /\ c = (msg[s] % 16) * 4 + (b \div 64) /\ c \in Sextet
      /\ b % 64 \in Sextet
  <2>1. st.carry = (msg[s] % 16) * 4
    BY <1>1, <1>2 DEF Carried
  <2> QED
    BY <1>2, <2>1, CharRanges
<1>4. /\ EncPrefixLen(s + 1) = EncPrefixLen(s) + 2 /\ (s + 1) % 3 = 0
      /\ EncChar(msg, EncPrefixLen(s) + 1) = c
      /\ EncChar(msg, EncPrefixLen(s) + 2) = b % 64
  <2>1. NextCharsAre(msg, s)
    BY <1>2, NextChars
  <2>2. (s + 1) % 3 = 0 /\ EncPrefixLen(s + 1) = EncPrefixLen(s) + 2
    <3>1. s \in Nat
      BY <1>2
    <3> QED
      BY <1>1, <3>1, NextPrefix
  <2> QED
    BY <1>1, <1>3, <2>1, <2>2 DEF NextCharsAre
<1>5. st1 \in [bytes : 0..2, carry : Sextet] /\ Carried(st1, s + 1)
  BY <1>2, <1>4 DEF Carried
<1> HIDE DEF c, st1
<1>6. /\ <<c, b % 64>> \in Seq(Sextet) /\ Len(<<c, b % 64>>) = 2
      /\ \A i \in 1..2 : <<c, b % 64>>[i] = EncChar(msg, EncPrefixLen(s) + i)
  <2>1. \A i \in 1..2 : i = 1 \/ i = 2
    OBVIOUS
  <2> QED
    BY <1>3, <1>4, <2>1
<1> HIDE DEF b
<1> QED
  BY <1>1, <1>3, <1>4, <1>5, <1>6, ConsumeInv

LEMMA ReturnInv == IndInv /\ Return => IndInv'
<1> SUFFICES ASSUME IndInv, Return PROVE IndInv'
  OBVIOUS
<1>1. /\ pc \in {"kernel", "case1", "case2"} /\ slen = 0
      /\ state' = st /\ outlen' = olen /\ pc' = "caller"
      /\ UNCHANGED <<codec, msg, out, base, end, obase, st, s, slen, olen, k, rounds, lag>>
  BY DEF Return, AtCase0, locals, IndInv, PlaceInv
<1>2. s = end /\ olen = Len(out) - obase
  BY <1>1 DEF IndInv, CountInv, TypeOK
<1>3. TypeOK'
  BY <1>1 DEF IndInv, TypeOK
<1>4. PositionInv' /\ PlaceInv' /\ CountInv' /\ BulkInv' /\ ClosedInv'
  BY <1>1, <1>2 DEF IndInv, PositionInv, PlaceInv, CountInv, BulkInv, ClosedInv, InCall
<1>5. WrittenInv' /\ CarryInv'
  BY <1>1 DEF IndInv, WrittenInv, OutputIsEncoding, CarryInv, Carried, InCall
<1> QED
  BY <1>3, <1>4, <1>5 DEF IndInv

\* A sequence with the right length and the right characters is the encoding.
LEMMA IsEncode ==
  ASSUME NEW d, NEW o \in Seq(Sextet \cup {Pad}), Len(o) = EncodedLen(Len(d)),
         \A i \in 1..Len(o) : o[i] = EncChar(d, i)
  PROVE  o = Encode(d)
<1>1. o = [i \in 1..Len(o) |-> o[i]]
  OBVIOUS
<1> QED
  BY <1>1 DEF Encode

TrailingIs(d) ==
  LET n == Len(d)
      e == EncPrefixLen(n)
  IN /\ n % 3 = 0 => EncodedLen(n) = e
     /\ n % 3 = 1 => /\ EncodedLen(n) = e + 3
                     /\ EncChar(d, e + 1) = (d[n] % 4) * 16
                     /\ EncChar(d, e + 2) = Pad /\ EncChar(d, e + 3) = Pad
     /\ n % 3 = 2 => /\ EncodedLen(n) = e + 2
                     /\ EncChar(d, e + 1) = (d[n] % 16) * 4
                     /\ EncChar(d, e + 2) = Pad

LEMMA FinalInv == IndInv /\ Final => IndInv'
<1> SUFFICES ASSUME IndInv, Final PROVE IndInv'
  OBVIOUS
<1>1. /\ TypeOK /\ pc = "caller" /\ s = Len(msg) /\ end = Len(msg)
      /\ out \in Seq(Sextet \cup {Pad}) /\ state \in [bytes : 0..2, carry : Sextet]
      /\ base \in Nat /\ base <= s /\ s \in Nat
  BY DEF IndInv, TypeOK, PositionInv, InCall, Final
<1>2. msg \in Seq(Byte) /\ Len(msg) \in Nat
  BY <1>1, MessageType
<1>3. /\ Len(out) = EncPrefixLen(Len(msg)) /\ Len(out) \in Nat
      /\ \A i \in 1..Len(out) : out[i] = EncChar(msg, i)
      /\ Carried(state, Len(msg))
  BY <1>1 DEF IndInv, WrittenInv, OutputIsEncoding, CarryInv, InCall
<1>4. TrailingIs(msg)
  BY <1>2, Trailing DEF TrailingIs
<1> DEFINE e == EncPrefixLen(Len(msg))
<1>5. /\ Trailer \in Seq(Sextet \cup {Pad})
      /\ EncodedLen(Len(msg)) = Len(out) + Len(Trailer)
      /\ \A i \in 1..Len(Trailer) : Trailer[i] = EncChar(msg, Len(out) + i)
  <2>1. state.bytes \in 0..2 /\ state.carry \in Sextet /\ state.bytes = Len(msg) % 3
    BY <1>1, <1>3 DEF Carried
  <2>2. CASE state.bytes = 0
    <3>1. Trailer = <<>>
      BY <2>2 DEF Trailer
    <3>2. EncodedLen(Len(msg)) = Len(out)
      BY <1>3, <1>4, <2>1, <2>2 DEF TrailingIs
    <3>3. <<>> \in Seq(Sextet \cup {Pad}) /\ Len(<<>>) = 0
      OBVIOUS
    <3> QED
      BY <1>3, <3>1, <3>2, <3>3
  <2>3. CASE state.bytes = 1
    <3>1. Trailer = <<state.carry, Pad, Pad>>
      BY <2>3 DEF Trailer
    <3>2. /\ EncodedLen(Len(msg)) = Len(out) + 3
          /\ EncChar(msg, Len(out) + 1) = state.carry
          /\ EncChar(msg, Len(out) + 2) = Pad /\ EncChar(msg, Len(out) + 3) = Pad
      BY <1>3, <1>4, <2>1, <2>3 DEF TrailingIs, Carried
    <3>3. \A i \in 1..3 : i = 1 \/ i = 2 \/ i = 3
      OBVIOUS
    <3> QED
      BY <2>1, <3>1, <3>2, <3>3
  <2>4. CASE state.bytes = 2
    <3>1. Trailer = <<state.carry, Pad>>
      BY <2>4 DEF Trailer
    <3>2. /\ EncodedLen(Len(msg)) = Len(out) + 2
          /\ EncChar(msg, Len(out) + 1) = state.carry
          /\ EncChar(msg, Len(out) + 2) = Pad
      BY <1>3, <1>4, <2>1, <2>4 DEF TrailingIs, Carried
    <3>3. \A i \in 1..2 : i = 1 \/ i = 2
      OBVIOUS
    <3> QED
      BY <2>1, <3>1, <3>2, <3>3
  <2> QED
    BY <2>1, <2>2, <2>3, <2>4
<1>6. /\ out' = out \o Trailer /\ outlen' = Len(Trailer) /\ obase' = Len(out)
      /\ pc' = "closed"
      /\ UNCHANGED <<codec, msg, state, base, end, st, s, slen, olen, k, rounds, lag>>
  BY DEF Final, locals
<1> HIDE DEF e
<1>7. /\ out' \in Seq(Sextet \cup {Pad})
      /\ Len(out') = Len(out) + Len(Trailer)
      /\ \A i \in 1..Len(out') : out'[i] = EncChar(msg, i)
  <2>1. /\ out \o Trailer \in Seq(Sextet \cup {Pad})
        /\ Len(out \o Trailer) = Len(out) + Len(Trailer)
        /\ \A i \in 1..Len(out \o Trailer) : (out \o Trailer)[i] = EncChar(msg, i)
    BY <1>1, <1>3, <1>5, AppendChars
  <2> QED
    BY <1>6, <2>1
<1>8. out' = Encode(msg)
  BY <1>5, <1>7, IsEncode
<1>9. Len(Trailer) \in Nat
  BY <1>5
<1>10. TypeOK'
  BY <1>1, <1>3, <1>6, <1>7, <1>9 DEF TypeOK
<1>11. PositionInv' /\ CountInv'
  BY <1>1, <1>2, <1>3, <1>6, <1>7, <1>9 DEF IndInv, PositionInv, CountInv, InCall
<1>12. PlaceInv' /\ BulkInv' /\ WrittenInv'
  BY <1>6 DEF PlaceInv, BulkInv, WrittenInv, OutputIsEncoding
<1>13. CarryInv'
  BY <1>1, <1>3, <1>6 DEF CarryInv, Carried, InCall
<1>14. ClosedInv'
  BY <1>1, <1>6, <1>8 DEF ClosedInv
<1> QED
  BY <1>10, <1>11, <1>12, <1>13, <1>14 DEF IndInv

LEMMA StepInv == IndInv /\ [Next]_vars => IndInv'
<1> SUFFICES ASSUME IndInv, [Next]_vars PROVE IndInv'
  OBVIOUS
<1>1. CASE StreamInit
  BY <1>1, StreamInitInv
<1>2. ASSUME NEW n \in ChunkSizes, Call(n) PROVE IndInv'
  BY <1>2, CallInv
<1>3. CASE KernelSkip
  BY <1>3, KernelSkipInv
<1>4. CASE KernelEnter
  BY <1>4, KernelEnterInv
<1>5. CASE KernelRound
  BY <1>5, KernelRoundInv
<1>6. CASE Case0
  BY <1>6, Case0Inv
<1>7. CASE Case1
  BY <1>7, Case1Inv
<1>8. CASE Case2
  BY <1>8, Case2Inv
<1>9. CASE Return
  BY <1>9, ReturnInv
<1>10. CASE Final
  BY <1>10, FinalInv
<1>12. CASE Rechoose
  BY <1>12, RechooseInv
<1>11. CASE UNCHANGED vars
  BY <1>11 DEF vars, locals, IndInv, TypeOK, PositionInv, WrittenInv, CarryInv, PlaceInv,
     CountInv, BulkInv, ClosedInv, InCall, OutputIsEncoding, Carried, Here
<1> QED
  BY <1>1, <1>2, <1>3, <1>4, <1>5, <1>6, <1>7, <1>8, <1>9, <1>10, <1>11, <1>12 DEF Next

THEOREM Inductive == Spec => []IndInv
<1>1. Init => IndInv
  BY InitInv
<1>2. IndInv /\ [Next]_vars => IndInv'
  BY StepInv
<1> QED
  BY <1>1, <1>2, PTL DEF Spec

-----------------------------------------------------------------------------
(* The properties.                                                         *)

\* Every variable keeps its type; in particular no sextet index leaves 0..63.
THEOREM TypeCorrect == Spec => []TypeOK
<1>1. IndInv => TypeOK
  BY DEF IndInv
<1> QED
  BY <1>1, Inductive, PTL

\* What has been written is the encoding of what has been consumed.
THEOREM OutputCorrect == Spec => []OutputIsEncoding
<1>1. IndInv => OutputIsEncoding
  BY DEF IndInv, WrittenInv
<1> QED
  BY <1>1, Inductive, PTL

\* A finalized stream is the complete, padded encoding of the message.
THEOREM FinalCorrect == Spec => []FinalIsEncode
<1>1. IndInv => FinalIsEncode
  BY DEF IndInv, ClosedInv, FinalIsEncode
<1> QED
  BY <1>1, Inductive, PTL

\* The loads of the bulk loops stay inside the caller's chunk.
THEOREM LoadsCorrect == Spec => []LoadsInChunk
<1>1. IndInv => LoadsInChunk
  <2> SUFFICES ASSUME IndInv, pc = "bulk"
               PROVE  s - lag >= base /\ s - lag + Here.width <= end
    BY DEF LoadsInChunk
  <2>1. /\ k <= Len(codec) /\ rounds >= 1 /\ slen >= Here.reserve
        /\ s + slen + rounds * Here.block = end
        /\ lag \in {0, Here.lag}
        /\ lag = 0 => s + Here.width <= end
        /\ lag # 0 => s >= base + Here.block
        /\ base <= s
        /\ s \in Nat /\ slen \in Nat /\ rounds \in Nat /\ end \in Nat /\ base \in Nat
    BY DEF IndInv, BulkInv, PositionInv, TypeOK
  <2>2. /\ Here.width \in Nat /\ Here.block \in Nat /\ Here.reserve \in Nat /\ Here.lag \in Nat
        /\ Here.width <= Here.reserve + Here.block + Here.lag /\ Here.lag <= Here.block
    BY <2>1, HereOK DEF IndInv, Kernel, KernelOK
  <2>3. s + slen + Here.block <= end
    <3>1. rounds * Here.block \in Nat /\ rounds * Here.block >= Here.block
      BY <2>1, <2>2, OneRoundLess
    <3> QED
      BY <2>1, <2>2, <3>1
  <2>4. CASE lag = 0
    BY <2>1, <2>2, <2>4
  <2>5. CASE lag # 0
    <3>1. /\ lag = Here.lag /\ s >= base + Here.block /\ slen >= Here.reserve
          /\ s \in Nat /\ slen \in Nat /\ end \in Nat /\ base \in Nat
      BY <2>1, <2>5
    <3> QED
      BY <2>2, <2>3, <3>1
  <2> QED
    BY <2>4, <2>5
<1> QED
  BY <1>1, Inductive, PTL

\* The counts reported to the caller are those of the pointers.
THEOREM CountsCorrect == Spec => []CountsAgree
<1>1. IndInv => CountsAgree
  BY DEF IndInv, CountInv, CountsAgree, AtCase0, InCall
<1> QED
  BY <1>1, Inductive, PTL

\* A call never writes more than 4/3 of its chunk, rounded up.
THEOREM CallOutputBounded == Spec => []CallFitsBuffer
<1>1. IndInv => CallFitsBuffer
  <2> SUFFICES ASSUME IndInv, InCall
               PROVE  3 * (Len(out) - obase) <= 4 * (end - base) + 2
    BY DEF CallFitsBuffer
  <2>1. /\ Len(out) = EncPrefixLen(s) /\ obase = EncPrefixLen(base)
        /\ base <= s /\ s <= end /\ s \in Nat /\ base \in Nat /\ end \in Nat
    BY DEF IndInv, WrittenInv, OutputIsEncoding, PositionInv, InCall, TypeOK
  <2>2. 3 * (EncPrefixLen(s) - EncPrefixLen(base)) <= 4 * (s - base) + 2
    BY <2>1 DEF EncPrefixLen
  <2>3. EncPrefixLen(s) \in Nat /\ EncPrefixLen(base) \in Nat
    BY <2>1, NextPrefix
  <2> QED
    BY <2>1, <2>2, <2>3
<1> QED
  BY <1>1, Inductive, PTL

-----------------------------------------------------------------------------
(* The encoder implements the abstract stream.                             *)

\* The reference definitions of the two modules are the same.
LEMMA SameReference ==
  ASSUME NEW d, NEW i
  PROVE  /\ Stream!EncPrefixLen(i) = EncPrefixLen(i)
         /\ Stream!EncChar(d, i) = EncChar(d, i)
         /\ Stream!Encode(d) = Encode(d)
<1>1. \A n : Stream!EncPrefixLen(n) = EncPrefixLen(n)
  BY DEF Stream!EncPrefixLen, EncPrefixLen
<1>2. \A j : Stream!ByteAt(d, j) = ByteAt(d, j)
  BY DEF Stream!ByteAt, ByteAt
<1>3. \A j : Stream!EncChar(d, j) = EncChar(d, j)
  BY DEF Stream!EncChar, EncChar, Stream!ByteAt, ByteAt, Stream!Pad, Pad
<1>4. Stream!Encode(d) = Encode(d)
  BY <1>3 DEF Stream!Encode, Encode, Stream!EncodedLen, EncodedLen
<1> QED
  BY <1>1, <1>3, <1>4

\* A correct prefix is what the abstract stream calls Determined.
LEMMA IsDetermined ==
  ASSUME NEW d, NEW n \in Nat, NEW o \in Seq(Sextet \cup {Pad}),
         EncPrefixLen(n) \in Nat, Len(o) >= EncPrefixLen(n),
         \A i \in 1..Len(o) : o[i] = EncChar(d, i)
  PROVE  SubSeq(o, 1, EncPrefixLen(n)) = Stream!Determined(d, n)
<1> DEFINE e == EncPrefixLen(n)
           x == SubSeq(o, 1, e)
<1>1. /\ x \in Seq(Sextet \cup {Pad}) /\ Len(x) = e
      /\ \A i \in 1..e : x[i] = EncChar(d, i)
  OBVIOUS
<1>2. x = [i \in 1..e |-> x[i]]
  BY <1>1
<1>3. Stream!EncPrefixLen(n) = e /\ \A i : Stream!EncChar(d, i) = EncChar(d, i)
  BY SameReference
<1> HIDE DEF x, e
<1>4. x = [i \in 1..e |-> EncChar(d, i)]
  BY <1>1, <1>2
<1>5. Stream!Determined(d, n) = [i \in 1..e |-> EncChar(d, i)]
  BY <1>3 DEF Stream!Determined
<1> QED
  BY <1>4, <1>5 DEF x, e

\* What the caller holds between calls, and held when this call began.
LEMMA HeldIsDetermined ==
  ASSUME IndInv, pc # "closed"
  PROVE  /\ SubSeq(out, 1, obase) = Stream!Determined(msg, base)
         /\ out = Stream!Determined(msg, s)
<1>1. /\ out \in Seq(Sextet \cup {Pad}) /\ obase <= Len(out)
      /\ Len(out) = EncPrefixLen(s) /\ obase = EncPrefixLen(base)
      /\ \A i \in 1..Len(out) : out[i] = EncChar(msg, i)
      /\ s \in Nat /\ base \in Nat
  BY DEF IndInv, TypeOK, WrittenInv, OutputIsEncoding, PositionInv
<1>2. EncPrefixLen(s) \in Nat /\ EncPrefixLen(base) \in Nat
  BY <1>1, NextPrefix
<1>3. SubSeq(out, 1, EncPrefixLen(base)) = Stream!Determined(msg, base)
  BY <1>1, <1>2, IsDetermined
<1>4. SubSeq(out, 1, EncPrefixLen(s)) = Stream!Determined(msg, s)
  BY <1>1, <1>2, IsDetermined
<1>5. SubSeq(out, 1, Len(out)) = out
  BY <1>1
<1> QED
  BY <1>1, <1>3, <1>4, <1>5

\* The characters a bulk round and a byte-wise case append are six-bit values.
LEMMA RoundWrites ==
  ASSUME IndInv, KernelRound
  PROVE  BlockOut(SubSeq(msg, s + 1, s + Here.block)) \in Seq(Sextet)
<1> DEFINE b == Here.block
           m == Here.block \div 3
           n == end - s - slen
<1>1. TypeOK /\ pc = "bulk" /\ k <= Len(codec) /\ s % 3 = 0
  BY DEF IndInv, BulkInv, PlaceInv, KernelRound
<1>2. Here \in Kernel /\ KernelOK(Here)
  BY <1>1, HereOK
<1>3. b \in Nat /\ m \in Nat /\ b = 3 * m
  BY <1>2 DEF Kernel, KernelOK
<1>4. /\ s \in Nat /\ slen \in Nat /\ end \in Nat /\ end <= Len(msg)
      /\ rounds \in Nat /\ rounds >= 1 /\ s + slen + rounds * b = end
  BY <1>1 DEF IndInv, TypeOK, BulkInv, PositionInv
<1> HIDE DEF b, m
<1>5. s + 3 * m <= Len(msg)
  <2>1. rounds * b \in Nat /\ rounds * b >= b
    BY <1>3, <1>4, OneRoundLess
  <2> DEFINE rb == rounds * b
  <2>2. s + slen + rb = end /\ rb \in Nat /\ rb >= 3 * m
    BY <1>3, <1>4, <2>1
  <2> HIDE DEF rb
  <2>3. Len(msg) \in Nat
    BY <1>1, MessageType
  <2>4. s \in Nat /\ slen \in Nat /\ end \in Nat /\ end <= Len(msg) /\ 3 * m \in Nat
    BY <1>3, <1>4
  <2> QED
    BY <2>2, <2>3, <2>4
<1>6. RoundIsEncoding(msg, s, m)
  BY <1>1, <1>3, <1>4, <1>5, MessageType, BlockIsEncoding
<1> QED
  BY <1>3, <1>6 DEF RoundIsEncoding, b

LEMMA CaseWrites ==
  ASSUME IndInv, Case0 \/ Case1 \/ Case2
  PROVE  \E x \in Seq(Sextet) : out' = out \o x
<1> DEFINE b == msg[s + 1]
<1>1. /\ pc \in {"kernel", "case1", "case2"} /\ slen > 0
      /\ Case1 => s % 3 = 1
      /\ Case2 => s % 3 = 2
  BY DEF Case0, Case1, Case2, AtCase0, Consume, IndInv, PlaceInv
<1>2. /\ b \in Byte /\ Carried(st, s) /\ s \in Nat
      /\ s > 0 => msg[s] \in Byte
  BY <1>1, ByteRead
<1>3. CASE Case0
  <2>1. <<b \div 4>> \in Seq(Sextet)
    BY <1>2, CharRanges
  <2> QED
    BY <1>3, <2>1 DEF Case0, Consume
<1>4. CASE Case1
  <2>1. st.carry = (msg[s] % 4) * 16 /\ msg[s] \in Byte
    BY <1>1, <1>2, <1>4 DEF Carried
  <2>2. <<st.carry + (b \div 16)>> \in Seq(Sextet)
    BY <1>2, <2>1, CharRanges
  <2> QED
    BY <1>4, <2>2 DEF Case1, Consume
<1>5. CASE Case2
  <2>1. st.carry = (msg[s] % 16) * 4 /\ msg[s] \in Byte
    BY <1>1, <1>2, <1>5 DEF Carried
  <2>2. <<st.carry + (b \div 64), b % 64>> \in Seq(Sextet)
    BY <1>2, <2>1, CharRanges
  <2> QED
    BY <1>5, <2>2 DEF Case2, Consume
<1> QED
  BY <1>3, <1>4, <1>5

LEMMA InitRefines == Init => Stream!Init
BY DEF Init, Stream!Init, InCall

\* The steps inside a call leave what the caller holds alone.
LEMMA InnerStutters ==
  ASSUME IndInv, IndInv', InCall, InCall',
         base' = base, obase' = obase, msg' = msg,
         NEW x, out' = out \o x, x \in Seq(Sextet)
  PROVE  UNCHANGED Stream!absVars
<1>1. /\ out \in Seq(Sextet \cup {Pad}) /\ obase \in Nat /\ obase <= Len(out)
  BY DEF IndInv, TypeOK, PositionInv
<1>2. /\ x \in Seq(Sextet \cup {Pad})
      /\ out \o x \in Seq(Sextet \cup {Pad}) /\ Len(out \o x) = Len(out) + Len(x)
      /\ \A i \in 1..obase : (out \o x)[i] = out[i]
  BY <1>1
<1>3. SubSeq(out \o x, 1, obase) = SubSeq(out, 1, obase)
  <2>1. Len(x) \in Nat /\ obase <= Len(out \o x)
    BY <1>1, <1>2
  <2> DEFINE y == SubSeq(out \o x, 1, obase)
             z == SubSeq(out, 1, obase)
  <2>2. /\ y \in Seq(Sextet \cup {Pad}) /\ Len(y) = obase
        /\ z \in Seq(Sextet \cup {Pad}) /\ Len(z) = obase
        /\ \A i \in 1..obase : y[i] = (out \o x)[i] /\ z[i] = out[i]
    BY <1>1, <1>2, <2>1
  <2> HIDE DEF y, z
  <2>3. /\ y = [i \in 1..Len(y) |-> y[i]]
        /\ z = [i \in 1..Len(z) |-> z[i]]
    BY <2>2
  <2>4. y = z
    BY <1>1, <1>2, <2>2, <2>3
  <2> QED
    BY <2>4 DEF y, z
<1> QED
  BY <1>3 DEF Stream!absVars, InCall

LEMMA StepRefines ==
  IndInv /\ IndInv' /\ [Next]_vars => [Stream!Next]_(Stream!absVars)
<1> SUFFICES ASSUME IndInv, IndInv', [Next]_vars
             PROVE  [Stream!Next]_(Stream!absVars)
  OBVIOUS
<1>1. CASE StreamInit
  BY <1>1 DEF StreamInit, InCall, Stream!Next, Stream!StartOver
<1>2. ASSUME NEW n \in ChunkSizes, Call(n) PROVE [Stream!Next]_(Stream!absVars)
  <2>1. /\ ~ InCall /\ InCall' /\ pc = "caller" /\ base' = end /\ obase' = Len(out)
        /\ out' = out /\ msg' = msg /\ pc' # "closed"
    BY <1>2 DEF Call, InCall, Entry
  <2>2. out \in Seq(Sextet \cup {Pad})
    BY DEF IndInv, TypeOK
  <2>3. SubSeq(out, 1, Len(out)) = out
    BY <2>2
  <2> QED
    BY <2>1, <2>3 DEF Stream!absVars, InCall
<1>3. CASE KernelSkip \/ KernelEnter
  BY <1>3 DEF KernelSkip, KernelEnter, InCall, Stream!absVars
<1>4. CASE KernelRound
  <2> DEFINE x == BlockOut(SubSeq(msg, s + 1, s + Here.block))
  <2>1. /\ InCall /\ InCall' /\ base' = base /\ obase' = obase /\ msg' = msg
        /\ out' = out \o x
    BY <1>4 DEF KernelRound, InCall
  <2>2. x \in Seq(Sextet)
    BY <1>4, RoundWrites
  <2> HIDE DEF x
  <2> QED
    BY <2>1, <2>2, InnerStutters
<1>5. CASE Case0 \/ Case1 \/ Case2
  <2>1. PICK x \in Seq(Sextet) : out' = out \o x
    BY <1>5, CaseWrites
  <2>2. InCall /\ InCall' /\ base' = base /\ obase' = obase /\ msg' = msg
    BY <1>5 DEF Case0, Case1, Case2, Consume, AtCase0, InCall
  <2> QED
    BY <2>1, <2>2, InnerStutters
<1>6. CASE Return
  <2>1. /\ pc # "closed" /\ InCall /\ pc' = "caller" /\ ~ InCall'
        /\ UNCHANGED <<msg, out, base, end, obase, s>>
    BY <1>6 DEF Return, AtCase0, InCall, locals
  <2>2. out = Stream!Determined(msg, s)
    BY <2>1, HeldIsDetermined
  <2>3. s = end /\ end \in Nat /\ base \in Nat /\ base <= end /\ end <= Len(msg)
    BY <2>1 DEF IndInv, PositionInv, TypeOK
  <2>4. end \in base .. Len(msg)
    BY <2>3, MessageType DEF IndInv
  <2> QED
    BY <2>1, <2>2, <2>3, <2>4 DEF Stream!Next, Stream!Feed, InCall
<1>7. CASE Final
  <2>1. /\ pc = "caller" /\ ~ InCall /\ pc' = "closed" /\ ~ InCall' /\ end = Len(msg)
        /\ UNCHANGED <<msg, end>>
    BY <1>7 DEF Final, InCall
  <2>2. out' = Encode(msg)
    BY <2>1 DEF IndInv, ClosedInv
  <2>3. Stream!Encode(msg) = Encode(msg)
    BY SameReference
  <2> QED
    BY <2>1, <2>2, <2>3 DEF Stream!Next, Stream!Finalize, InCall
<1>8. CASE UNCHANGED vars
  BY <1>8 DEF vars, Stream!absVars, InCall
<1>9. CASE Rechoose
  BY <1>9 DEF Rechoose, InCall, Stream!absVars
<1> QED
  BY <1>1, <1>2, <1>3, <1>4, <1>5, <1>6, <1>7, <1>8, <1>9 DEF Next

\* However the message is cut into calls, the caller sees the abstract stream.
THEOREM Refinement == Spec => StreamSpec
<1>1. Init => Stream!Init
  BY InitRefines
<1>2. IndInv /\ IndInv' /\ [Next]_vars => [Stream!Next]_(Stream!absVars)
  BY StepRefines
<1> QED
  BY <1>1, <1>2, Inductive, PTL DEF Spec, StreamSpec, Stream!Spec
=============================================================================
