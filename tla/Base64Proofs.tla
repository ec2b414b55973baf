---------------------------- MODULE Base64Proofs ----------------------------
(***************************************************************************)
(* Lemmas about the reference definitions of Base64 that the proofs about  *)
(* the encoder, the decoder, the loops and the decoding tool share; and,   *)
(* for every content of a register: one round of each instruction set      *)
(* makes of a block what the bytewise code makes of it.                    *)
(***************************************************************************)
EXTENDS VectorEncode, VectorDecode, BulkLoops, TLAPS

-----------------------------------------------------------------------------
(* Facts about the reference encoding.                                     *)

\* The four characters of group g, where the message has the bytes they need.
LEMMA EncCharAt ==
  ASSUME NEW d \in Seq(Byte), NEW g \in Nat, NEW e \in Nat, (e - 1) \div 4 = g
  PROVE  /\ (e - 1) % 4 = 0 /\ 3 * g + 1 <= Len(d) =>
              EncChar(d, e) = d[3 * g + 1] \div 4
         /\ (e - 1) % 4 = 1 /\ 3 * g + 2 <= Len(d) =>
              EncChar(d, e) = (d[3 * g + 1] % 4) * 16 + (d[3 * g + 2] \div 16)
         /\ (e - 1) % 4 = 2 /\ 3 * g + 3 <= Len(d) =>
              EncChar(d, e) = (d[3 * g + 2] % 16) * 4 + (d[3 * g + 3] \div 64)
         /\ (e - 1) % 4 = 3 /\ 3 * g + 3 <= Len(d) =>
              EncChar(d, e) = d[3 * g + 3] % 64
<1>1. ASSUME (e - 1) % 4 = 0, 3 * g + 1 <= Len(d)
      PROVE  EncChar(d, e) = d[3 * g + 1] \div 4
  BY <1>1 DEF EncChar, ByteAt
<1>2. ASSUME (e - 1) % 4 = 1, 3 * g + 2 <= Len(d)
      PROVE  EncChar(d, e) = (d[3 * g + 1] % 4) * 16 + (d[3 * g + 2] \div 16)
  <2>1. /\ ByteAt(d, 3 * ((e - 1) \div 4) + 1) = d[3 * g + 1]
        /\ ByteAt(d, 3 * ((e - 1) \div 4) + 2) = d[3 * g + 2]
    BY <1>2 DEF ByteAt
  <2>2. d[3 * g + 1] \in Byte /\ d[3 * g + 2] \in Byte
    BY <1>2
  <2> QED
    BY <1>2, <2>1, <2>2 DEF EncChar, Byte
<1>3. ASSUME (e - 1) % 4 = 2, 3 * g + 3 <= Len(d)
      PROVE  EncChar(d, e) = (d[3 * g + 2] % 16) * 4 + (d[3 * g + 3] \div 64)
  <2>1. 3 * g + 2 <= Len(d) /\ ~ (3 * g + 2 > Len(d))
    BY <1>3
  <2> QED
    BY <1>3, <2>1 DEF EncChar, ByteAt
<1>4. ASSUME (e - 1) % 4 = 3, 3 * g + 3 <= Len(d)
      PROVE  EncChar(d, e) = d[3 * g + 3] % 64
  <2>1. ~ (3 * g + 3 > Len(d))
    BY <1>4
  <2> QED
    BY <1>4, <2>1, SMTT(30) DEF EncChar, ByteAt
<1> QED
  BY <1>1, <1>2, <1>3, <1>4

-----------------------------------------------------------------------------
(* Facts about the reference decoding.  The first n characters of a text    *)
(* determine DecPrefixLen(n) bytes; these say which byte comes next.        *)

LEMMA NextDecPrefix ==
  ASSUME NEW n \in Nat
  PROVE  /\ DecPrefixLen(n) \in Nat
         /\ n % 4 = 0 => (n + 1) % 4 = 1 /\ DecPrefixLen(n + 1) = DecPrefixLen(n)
         /\ n % 4 = 1 => (n + 1) % 4 = 2 /\ DecPrefixLen(n + 1) = DecPrefixLen(n) + 1
         /\ n % 4 = 2 => (n + 1) % 4 = 3 /\ DecPrefixLen(n + 1) = DecPrefixLen(n) + 1
         /\ n % 4 = 3 => (n + 1) % 4 = 0 /\ DecPrefixLen(n + 1) = DecPrefixLen(n) + 1
BY DEF DecPrefixLen

LEMMA BlockDecPrefix ==
  ASSUME NEW n \in Nat, NEW m \in Nat
  PROVE  DecPrefixLen(n + 4 * m) = DecPrefixLen(n) + 3 * m /\ (n + 4 * m) % 4 = n % 4
BY DEF DecPrefixLen

LEMMA DecPrefixBound ==
  ASSUME NEW n \in Nat, NEW x \in Nat
  PROVE  4 * x <= 3 * n <=> x <= DecPrefixLen(n)
BY DEF DecPrefixLen

\* The byte that character n + 1 completes, by its position in the group.
NextByteIs(c, n) ==
  LET e == DecPrefixLen(n) + 1
  IN /\ n % 4 = 1 => DecByte(c, e) = c[n] * 4 + (c[n + 1] \div 16)
     /\ n % 4 = 2 => DecByte(c, e) = (c[n] % 16) * 16 + (c[n + 1] \div 4)
     /\ n % 4 = 3 => DecByte(c, e) = (c[n] % 4) * 64 + c[n + 1]

\* The three bytes of group g.
LEMMA DecByteAt ==
  ASSUME NEW c, NEW g \in Nat, NEW e \in Nat, (e - 1) \div 3 = g
  PROVE  /\ (e - 1) % 3 = 0 => DecByte(c, e) = c[4 * g + 1] * 4 + (c[4 * g + 2] \div 16)
         /\ (e - 1) % 3 = 1 =>
              DecByte(c, e) = (c[4 * g + 2] % 16) * 16 + (c[4 * g + 3] \div 4)
         /\ (e - 1) % 3 = 2 =>
              DecByte(c, e) = (c[4 * g + 3] % 4) * 64 + c[4 * g + 4]
<1>1. /\ (e - 1) % 3 = 1 => (e - 1) % 3 # 0
      /\ (e - 1) % 3 = 2 => (e - 1) % 3 # 0 /\ (e - 1) % 3 # 1
  OBVIOUS
<1>2. ASSUME (e - 1) % 3 = 0
      PROVE  DecByte(c, e) = c[4 * g + 1] * 4 + (c[4 * g + 2] \div 16)
  BY <1>1, <1>2, Zenon DEF DecByte
<1>3. ASSUME (e - 1) % 3 = 1
      PROVE  DecByte(c, e) = (c[4 * g + 2] % 16) * 16 + (c[4 * g + 3] \div 4)
  BY <1>1, <1>3 DEF DecByte
<1>4. ASSUME (e - 1) % 3 = 2
      PROVE  DecByte(c, e) = (c[4 * g + 3] % 4) * 64 + c[4 * g + 4]
  BY <1>1, <1>4 DEF DecByte
<1> QED
  BY <1>2, <1>3, <1>4

LEMMA NextByte ==
  ASSUME NEW c, NEW n \in Nat
  PROVE  NextByteIs(c, n)
<1> DEFINE e == DecPrefixLen(n) + 1
           g == n \div 4
<1>1. g \in Nat /\ e \in Nat
  BY DEF DecPrefixLen
<1>2. ASSUME n % 4 = 1 PROVE DecByte(c, e) = c[n] * 4 + (c[n + 1] \div 16)
  <2>1. (e - 1) \div 3 = g /\ (e - 1) % 3 = 0 /\ n = 4 * g + 1 /\ n + 1 = 4 * g + 2
    BY <1>2 DEF DecPrefixLen
  <2> HIDE DEF e, g
  <2> QED
    BY <1>1, <2>1, DecByteAt
<1>3. ASSUME n % 4 = 2 PROVE DecByte(c, e) = (c[n] % 16) * 16 + (c[n + 1] \div 4)
  <2>1. (e - 1) \div 3 = g /\ (e - 1) % 3 = 1 /\ n = 4 * g + 2 /\ n + 1 = 4 * g + 3
    BY <1>3 DEF DecPrefixLen
  <2> HIDE DEF e, g
  <2> QED
    BY <1>1, <2>1, DecByteAt
<1>4. ASSUME n % 4 = 3 PROVE DecByte(c, e) = (c[n] % 4) * 64 + c[n + 1]
  <2>1. (e - 1) \div 3 = g /\ (e - 1) % 3 = 2 /\ n = 4 * g + 3 /\ n + 1 = 4 * g + 4
    BY <1>4 DEF DecPrefixLen
  <2> HIDE DEF e, g
  <2> QED
    BY <1>1, <2>1, DecByteAt
<1> QED
  BY <1>2, <1>3, <1>4 DEF NextByteIs

\* A byte depends on no character after those that determine it.
LEMMA DecByteLocal ==
  ASSUME NEW c, NEW e, NEW n \in Nat, \A j \in 1..n : c[j] = e[j],
         NEW i \in 1 .. DecPrefixLen(n)
  PROVE  DecByte(c, i) = DecByte(e, i)
<1> DEFINE g == (i - 1) \div 3
<1>1. i \in Nat /\ g \in Nat /\ (i - 1) \div 3 = g /\ (i - 1) % 3 \in 0..2
  BY DEF DecPrefixLen
<1>2. /\ 4 * g + 1 \in 1..n /\ 4 * g + 2 \in 1..n
      /\ (i - 1) % 3 = 1 => 4 * g + 3 \in 1..n
      /\ (i - 1) % 3 = 2 => 4 * g + 3 \in 1..n /\ 4 * g + 4 \in 1..n
  BY DEF DecPrefixLen
<1> HIDE DEF g
<1>3. /\ c[4 * g + 1] = e[4 * g + 1] /\ c[4 * g + 2] = e[4 * g + 2]
      /\ (i - 1) % 3 = 1 => c[4 * g + 3] = e[4 * g + 3]
      /\ (i - 1) % 3 = 2 => c[4 * g + 3] = e[4 * g + 3] /\ c[4 * g + 4] = e[4 * g + 4]
  BY <1>2
<1>4. CASE (i - 1) % 3 = 0
  BY <1>1, <1>3, <1>4, DecByteAt
<1>5. CASE (i - 1) % 3 = 1
  BY <1>1, <1>3, <1>5, DecByteAt
<1>6. CASE (i - 1) % 3 = 2
  BY <1>1, <1>3, <1>6, DecByteAt
<1> QED
  BY <1>1, <1>4, <1>5, <1>6

-----------------------------------------------------------------------------
(* Which texts are viable.                                                 *)

LEMMA PrefixUnique ==
  ASSUME NEW c, NEW n \in Nat, NEW d \in 0..n, NEW e \in 0..n,
         DataPrefix(c, n, d), DataPrefix(c, n, e)
  PROVE  d = e
<1>1. ~ d < e
  BY d + 1 \in 1..e \/ ~ d < e DEF DataPrefix
<1>2. ~ e < d
  BY e + 1 \in 1..d \/ ~ e < d DEF DataPrefix
<1> QED
  BY <1>1, <1>2

\* The padding that may follow the d data characters among the first n.
PadsRight(c, n, d) ==
  /\ d < n => c[d + 1] = Pad /\ d % 4 \in {2, 3}
  /\ d + 1 < n => d % 4 = 2 /\ n = d + 2 /\ c[n] = Pad

LEMMA ViableAt ==
  ASSUME NEW c, NEW n \in Nat, NEW d \in 0..n, DataPrefix(c, n, d)
  PROVE  Viable(c, n) <=> PadsRight(c, n, d)
<1>1. ASSUME Viable(c, n) PROVE PadsRight(c, n, d)
  <2>1. PICK e \in 0..n : DataPrefix(c, n, e) /\ PadsRight(c, n, e)
    BY <1>1 DEF Viable, PadsRight
  <2>2. e = d
    BY <2>1, PrefixUnique
  <2> QED
    BY <2>1, <2>2
<1>2. ASSUME PadsRight(c, n, d) PROVE Viable(c, n)
  BY <1>2 DEF Viable, PadsRight
<1> QED
  BY <1>1, <1>2

\* What begins no text is not mended by more characters.
LEMMA ViableShorter ==
  ASSUME NEW c, NEW n \in Nat, NEW m \in Nat, n <= m, Viable(c, m)
  PROVE  Viable(c, n)
<1>1. PICK d \in 0..m : DataPrefix(c, m, d) /\ PadsRight(c, m, d)
  BY DEF Viable, PadsRight
<1>2. CASE d >= n
  <2>1. n \in 0..n /\ DataPrefix(c, n, n) /\ PadsRight(c, n, n)
    BY <1>1, <1>2 DEF DataPrefix, PadsRight
  <2> QED
    BY <2>1, ViableAt
<1>3. CASE d < n
  <2>1. d \in 0..n /\ DataPrefix(c, n, d) /\ PadsRight(c, n, d)
    BY <1>1, <1>3 DEF DataPrefix, PadsRight
  <2> QED
    BY <2>1, ViableAt
<1> QED
  BY <1>2, <1>3

-----------------------------------------------------------------------------
(* Decoding the data characters that a text begins with.                   *)

LEMMA DecodedAt ==
  ASSUME NEW c, NEW n \in Nat, NEW d \in 0..n, DataPrefix(c, n, d)
  PROVE  Decoded(c, n) = [i \in 1 .. DecPrefixLen(d) |-> DecByte(c, i)]
<1>1. (CHOOSE e \in 0..n : DataPrefix(c, n, e)) = d
  BY PrefixUnique
<1> QED
  BY <1>1 DEF Decoded

-----------------------------------------------------------------------------
(* Encoding: the tables.                                                   *)

LEMMA CharacterOf ==
  ASSUME NEW v \in Sextet
  PROVE  /\ v < 26 => base64_table_enc_6bit[v] = 65 + v
         /\ v \in 26..51 => base64_table_enc_6bit[v] = 71 + v
         /\ v \in 52..61 => base64_table_enc_6bit[v] = v - 4
         /\ v = 62 => base64_table_enc_6bit[v] = 43
         /\ v = 63 => base64_table_enc_6bit[v] = 47
<1> DEFINE a == v < 26
           b == v \in 26..51
           c == v \in 52..61
           d == v = 62
<1>1. base64_table_enc_6bit[v] = CASE a -> 65 + v [] b -> 71 + v [] c -> v - 4
                                   [] d -> 43 [] OTHER -> 47
  BY Zenon DEF base64_table_enc_6bit
<1>2. /\ a => ~b /\ ~c /\ ~d
      /\ b => ~a /\ ~c /\ ~d
      /\ c => ~a /\ ~b /\ ~d
      /\ d => ~a /\ ~b /\ ~c
      /\ v = 63 => ~a /\ ~b /\ ~c /\ ~d
  BY DEF Sextet
<1> HIDE DEF a, b, c, d
<1>3. /\ a => base64_table_enc_6bit[v] = 65 + v
      /\ b => base64_table_enc_6bit[v] = 71 + v
      /\ c => base64_table_enc_6bit[v] = v - 4
      /\ d => base64_table_enc_6bit[v] = 43
      /\ v = 63 => base64_table_enc_6bit[v] = 47
  BY <1>1, <1>2, Zenon
<1> QED
  BY <1>3 DEF a, b, c, d

LEMMA Lut1 ==
  ASSUME NEW k \in 0..15
  PROVE  /\ k = 0 => lut1[k] = 65
         /\ k = 1 => lut1[k] = 71
         /\ k \in 2..11 => lut1[k] = 252
         /\ k = 12 => lut1[k] = 237
         /\ k = 13 => lut1[k] = 240
<1> DEFINE a == k = 0
           b == k = 1
           c == k \in 2..11
           d == k = 12
           e == k = 13
<1>1. lut1[k] = CASE a -> 65 [] b -> 71 [] c -> 252 [] d -> 237 [] e -> 240 [] OTHER -> 0
  BY Zenon DEF lut1
<1>2. /\ a => ~b /\ ~c /\ ~d /\ ~e
      /\ b => ~a /\ ~c /\ ~d /\ ~e
      /\ c => ~a /\ ~b /\ ~d /\ ~e
      /\ d => ~a /\ ~b /\ ~c /\ ~e
      /\ e => ~a /\ ~b /\ ~c /\ ~d
  OBVIOUS
<1> HIDE DEF a, b, c, d, e
<1>3. /\ a => lut1[k] = 65
      /\ b => lut1[k] = 71
      /\ c => lut1[k] = 252
      /\ d => lut1[k] = 237
      /\ e => lut1[k] = 240
  BY <1>1, <1>2, ZenonT(30)
<1> QED
  BY <1>3 DEF a, b, c, d, e

\* A value plus the entry for its range is its character.
LEMMA OffsetIsRight ==
  ASSUME NEW v \in Sextet, NEW index \in Int,
         index = (subs8(v, 51) - (IF v > 25 THEN 255 ELSE 0)) % 256
  PROVE  /\ index \in 0..13
         /\ add8(v, lut1[index]) = base64_table_enc_6bit[v]
<1>1. /\ v < 26 => index = 0
      /\ v \in 26..51 => index = 1
      /\ v \in 52..61 => index \in 2..11
      /\ v = 62 => index = 12
      /\ v = 63 => index = 13
  BY DEF subs8, Sextet
<1>2. index \in 0..15
  BY <1>1 DEF Sextet
<1>3. /\ v < 26 => lut1[index] = 65
      /\ v \in 26..51 => lut1[index] = 71
      /\ v \in 52..61 => lut1[index] = 252
      /\ v = 62 => lut1[index] = 237
      /\ v = 63 => lut1[index] = 240
  BY <1>1, <1>2, Lut1
<1> QED
  BY <1>1, <1>3, CharacterOf DEF add8, Sextet

-----------------------------------------------------------------------------
(* Encoding: the four fields of each group of three bytes.                 *)

\* Group g of `out` holds the fields of the three bytes a, b, c.
HasFields(out, g, a, b, c) ==
  /\ out[4 * g + 1] = a \div 4
  /\ out[4 * g + 2] = (a % 4) * 16 + (b \div 16)
  /\ out[4 * g + 3] = (b % 16) * 4 + (c \div 64)
  /\ out[4 * g + 4] = c % 64

LEMMA FieldsFit ==
  ASSUME NEW a \in Byte, NEW b \in Byte, NEW c \in Byte
  PROVE  /\ a \div 4 \in Sextet /\ (a % 4) * 16 + (b \div 16) \in Sextet
         /\ (b % 16) * 4 + (c \div 64) \in Sextet /\ c % 64 \in Sextet
BY DEF Byte, Sextet

LEMMA GroupOfChars ==
  ASSUME NEW d \in Seq(Byte), NEW g \in Nat, 3 * g + 3 <= Len(d)
  PROVE  HasFields([j \in Nat |-> EncChar(d, j)], g,
                   d[3 * g + 1], d[3 * g + 2], d[3 * g + 3])
<1>1. \A k \in 0..3 : /\ 4 * g + k + 1 \in Nat
                      /\ (4 * g + k + 1 - 1) \div 4 = g /\ (4 * g + k + 1 - 1) % 4 = k
  OBVIOUS
<1>2. 3 * g + 1 <= Len(d) /\ 3 * g + 2 <= Len(d)
  OBVIOUS
<1>3. EncChar(d, 4 * g + 0 + 1) = d[3 * g + 1] \div 4
  BY <1>1, <1>2, EncCharAt
<1>4. EncChar(d, 4 * g + 1 + 1) = (d[3 * g + 1] % 4) * 16 + (d[3 * g + 2] \div 16)
  BY <1>1, <1>2, EncCharAt
<1>5. EncChar(d, 4 * g + 2 + 1) = (d[3 * g + 2] % 16) * 4 + (d[3 * g + 3] \div 64)
  BY <1>1, <1>2, EncCharAt
<1>6. EncChar(d, 4 * g + 3 + 1) = d[3 * g + 3] % 64
  BY <1>1, <1>2, EncCharAt
<1>7. /\ 4 * g + 0 + 1 = 4 * g + 1 /\ 4 * g + 1 + 1 = 4 * g + 2
      /\ 4 * g + 2 + 1 = 4 * g + 3 /\ 4 * g + 3 + 1 = 4 * g + 4
  OBVIOUS
<1> QED
  BY <1>3, <1>4, <1>5, <1>6, <1>7 DEF HasFields

LEMMA RegisterIsSeq ==
  ASSUME NEW n \in Nat, NEW S, NEW v \in [1..n -> S]
  PROVE  v \in Seq(S) /\ Len(v) = n /\ \A j \in 1..n : v[j] \in S
OBVIOUS

LEMMA FieldsAreValues ==
  ASSUME NEW n \in Nat, NEW d \in [1 .. 3 * n -> Byte], NEW out,
         \A g \in 0 .. n - 1 : HasFields(out, g, d[3 * g + 1], d[3 * g + 2], d[3 * g + 3]),
         NEW i \in 1 .. 4 * n
  PROVE  out[i] \in Sextet /\ out[i] = EncChar(d, i)
<1> DEFINE g == (i - 1) \div 4
           a == d[3 * g + 1]
           b == d[3 * g + 2]
           c == d[3 * g + 3]
<1>1. /\ g \in 0 .. n - 1 /\ g \in Nat /\ i \in Nat
      /\ i = 4 * g + 1 \/ i = 4 * g + 2 \/ i = 4 * g + 3 \/ i = 4 * g + 4
  OBVIOUS
<1> HIDE DEF g
<1>2. d \in Seq(Byte) /\ Len(d) = 3 * n /\ 3 * n \in Nat
  BY RegisterIsSeq
<1>3. a \in Byte /\ b \in Byte /\ c \in Byte
  <2>1. 3 * g + 1 \in 1 .. 3 * n /\ 3 * g + 2 \in 1 .. 3 * n /\ 3 * g + 3 \in 1 .. 3 * n
    BY <1>1
  <2> QED
    BY <2>1
<1>4. HasFields([j \in Nat |-> EncChar(d, j)], g, a, b, c)
  <2>1. 3 * g + 3 <= Len(d)
    BY <1>1, <1>2
  <2> QED
    BY <1>1, <1>2, <2>1, GroupOfChars
<1>5. HasFields(out, g, a, b, c)
  BY <1>1
<1> HIDE DEF a, b, c
<1>6. /\ a \div 4 \in Sextet /\ (a % 4) * 16 + (b \div 16) \in Sextet
      /\ (b % 16) * 4 + (c \div 64) \in Sextet /\ c % 64 \in Sextet
  BY <1>3, FieldsFit
<1> QED
  BY <1>1, <1>4, <1>5, <1>6, SMTT(30) DEF HasFields

LEMMA OrNothing ==
  ASSUME NEW x \in Byte
  PROVE  Or8(x, 0) = x /\ Or8(0, x) = x
BY DEF Or8, And8, Bit, Byte

\* The two words of a group, whose middle byte is in both.
LEMMA WordsSplit ==
  ASSUME NEW a \in Byte, NEW b \in Byte, NEW c \in Byte
  PROVE  /\ mulhi16(Mask(b + 256 * a, 65536, 1024), 64) = a \div 4
         /\ mullo16(Mask(b + 256 * a, 1024, 16), 16) = 256 * ((a % 4) * 16 + (b \div 16))
         /\ mulhi16(Mask(c + 256 * b, 4096, 64), 1024) = (b % 16) * 4 + (c \div 64)
         /\ mullo16(Mask(c + 256 * b, 64, 1), 256) = 256 * (c % 64)
<1>1. mulhi16(Mask(b + 256 * a, 65536, 1024), 64) = a \div 4
  <2>1. (b + 256 * a) % 65536 = b + 256 * a
    BY DEF Byte
  <2>2. (b + 256 * a) % 1024 = b + 256 * (a % 4)
    BY DEF Byte
  <2>3. 256 * a - 256 * (a % 4) = 1024 * (a \div 4)
    BY DEF Byte
  <2>4. Mask(b + 256 * a, 65536, 1024) = 1024 * (a \div 4)
    BY <2>1, <2>2, <2>3 DEF Mask, Byte
  <2>5. a \div 4 \in Nat
    BY DEF Byte
  <2> QED
    BY <2>4, <2>5 DEF mulhi16
<1>2. mullo16(Mask(b + 256 * a, 1024, 16), 16) = 256 * ((a % 4) * 16 + (b \div 16))
  BY DEF mullo16, Mask, Byte
<1>3. mulhi16(Mask(c + 256 * b, 4096, 64), 1024) = (b % 16) * 4 + (c \div 64)
  BY DEF mulhi16, Mask, Byte
<1>4. mullo16(Mask(c + 256 * b, 64, 1), 256) = 256 * (c % 64)
  BY DEF mullo16, Mask, Byte
<1> QED
  BY <1>1, <1>2, <1>3, <1>4

LEMMA MultiplySplits ==
  ASSUME NEW v \in Seq(Byte), NEW g \in Nat, 4 * g + 4 <= Len(v),
         v[4 * g + 4] = v[4 * g + 1]
  PROVE  HasFields(SplitMultiply(v), g, v[4 * g + 2], v[4 * g + 1], v[4 * g + 3])
<1> DEFINE a == v[4 * g + 2]
           b == v[4 * g + 1]
           c == v[4 * g + 3]
<1>0. /\ v[4 * g + 1] = b /\ v[4 * g + 2] = a /\ v[4 * g + 3] = c /\ v[4 * g + 4] = b
      /\ a \in Byte /\ b \in Byte /\ c \in Byte
  OBVIOUS
<1> HIDE DEF a, b, c
<1> DEFINE f1 == a \div 4
           f2 == (a % 4) * 16 + (b \div 16)
           f3 == (b % 16) * 4 + (c \div 64)
           f4 == c % 64
<1>1. /\ Lane16(v, 2 * g + 1) = b + 256 * a
      /\ Lane16(v, 2 * g + 2) = c + 256 * b
  <2>1. /\ 2 * (2 * g + 1) - 1 = 4 * g + 1 /\ 2 * (2 * g + 1) = 4 * g + 2
        /\ 2 * (2 * g + 2) - 1 = 4 * g + 3 /\ 2 * (2 * g + 2) = 4 * g + 4
    OBVIOUS
  <2> QED
    BY <1>0, <2>1 DEF Lane16
<1>2. f1 \in Byte /\ f2 \in Byte /\ f3 \in Byte /\ f4 \in Byte
  <2>1. f1 \in Sextet /\ f2 \in Sextet /\ f3 \in Sextet /\ f4 \in Sextet
    BY <1>0, FieldsFit
  <2> HIDE DEF f1, f2, f3, f4
  <2> QED
    BY <2>1 DEF Byte, Sextet
<1>3. /\ (4 * g + 1 + 1) \div 2 = 2 * g + 1 /\ (4 * g + 2 + 1) \div 2 = 2 * g + 1
      /\ (4 * g + 3 + 1) \div 2 = 2 * g + 2 /\ (4 * g + 4 + 1) \div 2 = 2 * g + 2
      /\ (2 * g + 1) % 2 = 1 /\ (2 * g + 2) % 2 # 1
      /\ (4 * g + 1) % 2 = 1 /\ (4 * g + 3) % 2 = 1
      /\ (4 * g + 2) % 2 # 1 /\ (4 * g + 4) % 2 # 1
      /\ {4 * g + 1, 4 * g + 2, 4 * g + 3, 4 * g + 4} \subseteq 1 .. Len(v)
  OBVIOUS
<1>4. /\ SplitMultiply(v)[4 * g + 1] =
           Or8(ByteOfWord(mulhi16(Mask(b + 256 * a, 65536, 1024), 64), 4 * g + 1),
               ByteOfWord(mullo16(Mask(b + 256 * a, 1024, 16), 16), 4 * g + 1))
      /\ SplitMultiply(v)[4 * g + 2] =
           Or8(ByteOfWord(mulhi16(Mask(b + 256 * a, 65536, 1024), 64), 4 * g + 2),
               ByteOfWord(mullo16(Mask(b + 256 * a, 1024, 16), 16), 4 * g + 2))
      /\ SplitMultiply(v)[4 * g + 3] =
           Or8(ByteOfWord(mulhi16(Mask(c + 256 * b, 4096, 64), 1024), 4 * g + 3),
               ByteOfWord(mullo16(Mask(c + 256 * b, 64, 1), 256), 4 * g + 3))
      /\ SplitMultiply(v)[4 * g + 4] =
           Or8(ByteOfWord(mulhi16(Mask(c + 256 * b, 4096, 64), 1024), 4 * g + 4),
               ByteOfWord(mullo16(Mask(c + 256 * b, 64, 1), 256), 4 * g + 4))
  BY <1>1, <1>3, SMTT(30) DEF SplitMultiply
<1>5. /\ mulhi16(Mask(b + 256 * a, 65536, 1024), 64) = f1
      /\ mullo16(Mask(b + 256 * a, 1024, 16), 16) = 256 * f2
      /\ mulhi16(Mask(c + 256 * b, 4096, 64), 1024) = f3
      /\ mullo16(Mask(c + 256 * b, 64, 1), 256) = 256 * f4
  BY <1>0, WordsSplit
<1> HIDE DEF f1, f2, f3, f4
<1>6. /\ ByteOfWord(f1, 4 * g + 1) = f1 /\ ByteOfWord(f1, 4 * g + 2) = 0
      /\ ByteOfWord(256 * f2, 4 * g + 1) = 0 /\ ByteOfWord(256 * f2, 4 * g + 2) = f2
      /\ ByteOfWord(f3, 4 * g + 3) = f3 /\ ByteOfWord(f3, 4 * g + 4) = 0
      /\ ByteOfWord(256 * f4, 4 * g + 3) = 0 /\ ByteOfWord(256 * f4, 4 * g + 4) = f4
  BY <1>2, <1>3 DEF ByteOfWord, Byte
<1>7. /\ SplitMultiply(v)[4 * g + 1] = f1 /\ SplitMultiply(v)[4 * g + 2] = f2
      /\ SplitMultiply(v)[4 * g + 3] = f3 /\ SplitMultiply(v)[4 * g + 4] = f4
  BY <1>2, <1>4, <1>5, <1>6, OrNothing
<1> QED
  BY <1>7 DEF HasFields, f1, f2, f3, f4, a, b, c

-----------------------------------------------------------------------------
(* Encoding: which bytes of the register come to which place.              *)

LEMMA Lut128 ==
  /\ \A i \in 1..16 : lut0_128[i] \in 0..11
  /\ \A g \in 0..3 : /\ lut0_128[4 * g + 1] = 3 * g + 1
                     /\ lut0_128[4 * g + 2] = 3 * g
                     /\ lut0_128[4 * g + 3] = 3 * g + 2
                     /\ lut0_128[4 * g + 4] = 3 * g + 1
<1>1. \A i \in 1..16 : lut0_128[i] \in 0..11
  BY DEF lut0_128
<1>2. ASSUME NEW g \in 0..3
      PROVE  /\ lut0_128[4 * g + 1] = 3 * g + 1
             /\ lut0_128[4 * g + 2] = 3 * g
             /\ lut0_128[4 * g + 3] = 3 * g + 2
             /\ lut0_128[4 * g + 4] = 3 * g + 1
  <2>1. g = 0 \/ g = 1 \/ g = 2 \/ g = 3
    OBVIOUS
  <2>2. CASE g = 0
    BY <2>2 DEF lut0_128
  <2>3. CASE g = 1
    BY <2>3 DEF lut0_128
  <2>4. CASE g = 2
    BY <2>4 DEF lut0_128
  <2>5. CASE g = 3
    BY <2>5 DEF lut0_128
  <2> QED
    BY <2>1, <2>2, <2>3, <2>4, <2>5
<1> QED
  BY <1>1, <1>2

LEMMA ReshuffleSSSE3 ==
  ASSUME NEW in \in [1..16 -> Byte], NEW g \in 0..3
  PROVE  HasFields(enc_reshuffle_ssse3(in), g, in[3 * g + 1], in[3 * g + 2], in[3 * g + 3])
<1> DEFINE v == ShuffleLanes(in, lut0_128)
<1>1. ASSUME NEW i \in 1..16
      PROVE  v[i] = in[lut0_128[i] + 1] /\ v[i] \in Byte
  <2> DEFINE l == lut0_128[i]
  <2>1. l \in 0..11
    BY Lut128
  <2>2. Len(in) = 16
    BY RegisterIsSeq
  <2>3. v[i] = in[16 * ((i - 1) \div 16) + l + 1]
    BY <2>2 DEF ShuffleLanes
  <2> HIDE DEF l, v
  <2>4. 16 * ((i - 1) \div 16) + l + 1 = l + 1 /\ l + 1 \in 1..16
    <3>1. (i - 1) \div 16 = 0
      OBVIOUS
    <3> QED
      BY <2>1, <3>1
  <2>5. v[i] = in[l + 1] /\ in[l + 1] \in Byte
    BY <2>3, <2>4
  <2> QED
    BY <2>5 DEF l
<1>2. v \in Seq(Byte) /\ Len(v) = 16
  <2>1. v \in [1..16 -> Byte]
    <3>1. Len(in) = 16
      BY RegisterIsSeq
    <3>2. v = [i \in 1..16 |-> v[i]]
      BY <3>1 DEF ShuffleLanes
    <3> HIDE DEF v
    <3> QED
      BY <1>1, <3>2
  <2> QED
    BY <2>1, RegisterIsSeq
<1> HIDE DEF v
<1>3. /\ v[4 * g + 1] = in[3 * g + 2] /\ v[4 * g + 2] = in[3 * g + 1]
      /\ v[4 * g + 3] = in[3 * g + 3] /\ v[4 * g + 4] = in[3 * g + 2]
  <2>1. /\ 4 * g + 1 \in 1..16 /\ 4 * g + 2 \in 1..16
        /\ 4 * g + 3 \in 1..16 /\ 4 * g + 4 \in 1..16
    OBVIOUS
  <2>2. /\ v[4 * g + 1] = in[lut0_128[4 * g + 1] + 1]
        /\ v[4 * g + 2] = in[lut0_128[4 * g + 2] + 1]
        /\ v[4 * g + 3] = in[lut0_128[4 * g + 3] + 1]
        /\ v[4 * g + 4] = in[lut0_128[4 * g + 4] + 1]
    BY <1>1, <2>1
  <2>3. /\ lut0_128[4 * g + 1] + 1 = 3 * g + 2 /\ lut0_128[4 * g + 2] + 1 = 3 * g + 1
        /\ lut0_128[4 * g + 3] + 1 = 3 * g + 3 /\ lut0_128[4 * g + 4] + 1 = 3 * g + 2
    BY Lut128
  <2> QED
    BY <2>2, <2>3
<1>4. HasFields(SplitMultiply(v), g, v[4 * g + 2], v[4 * g + 1], v[4 * g + 3])
  <2>1. g \in Nat /\ 4 * g + 4 <= Len(v)
    <3>1. g \in Nat /\ 4 * g + 4 <= 16
      OBVIOUS
    <3> QED
      BY <1>2, <3>1, Zenon
  <2>2. v[4 * g + 4] = v[4 * g + 1]
    BY <1>3, Zenon
  <2> QED
    BY <1>2, <2>1, <2>2, MultiplySplits
<1>5. enc_reshuffle_ssse3(in) = SplitMultiply(v)
  BY DEF enc_reshuffle_ssse3, v
<1> QED
  BY <1>3, <1>4, <1>5 DEF HasFields

\* The lower half of the register has its bytes at the top end, so the block is
\* the 24 bytes from the fifth on.
LEMMA ReshuffleAVX2 ==
  ASSUME NEW in \in [1..32 -> Byte], NEW g \in 0..7
  PROVE  HasFields(enc_reshuffle_avx2(in), g,
                   in[3 * g + 5], in[3 * g + 6], in[3 * g + 7])
<1> DEFINE v == ShuffleLanes(in, lut0_256)
           at(i) == IF i <= 16 THEN lut0_128[i] + 5 ELSE lut0_128[i - 16] + 17
<1>0. Len(in) = 32
  BY RegisterIsSeq
<1>1. ASSUME NEW i \in 1..32
      PROVE  v[i] = in[at(i)] /\ v[i] \in Byte
  <2>1. v[i] = in[16 * ((i - 1) \div 16) + lut0_256[i] + 1]
    BY <1>0 DEF ShuffleLanes
  <2> HIDE DEF v
  <2>2. 16 * ((i - 1) \div 16) + lut0_256[i] + 1 = at(i) /\ at(i) \in 1..32
    <3>1. CASE i <= 16
      <4>1. lut0_128[i] \in 0..11
        BY <3>1, Lut128
      <4>2. lut0_256[i] = lut0_128[i] + 4
        BY <3>1 DEF lut0_256
      <4>3. (i - 1) \div 16 = 0
        BY <3>1
      <4> QED
        BY <3>1, <4>1, <4>2, <4>3
    <3>2. CASE i > 16
      <4>1. lut0_128[i - 16] \in 0..11
        BY <3>2, Lut128
      <4>2. lut0_256[i] = lut0_128[i - 16]
        BY <3>2 DEF lut0_256
      <4>3. (i - 1) \div 16 = 1
        BY <3>2
      <4> QED
        BY <3>2, <4>1, <4>2, <4>3
    <3> QED
      BY <3>1, <3>2
  <2> HIDE DEF at
  <2> QED
    BY <2>1, <2>2
<1>2. v \in Seq(Byte) /\ Len(v) = 32
  <2>1. v \in [1..32 -> Byte]
    <3>1. v = [i \in 1..32 |-> v[i]]
      BY <1>0 DEF ShuffleLanes
    <3> HIDE DEF v
    <3> QED
      BY <1>1, <3>1
  <2> QED
    BY <2>1, RegisterIsSeq, ZenonT(30)
<1> HIDE DEF v
<1>3. /\ v[4 * g + 1] = in[3 * g + 6] /\ v[4 * g + 2] = in[3 * g + 5]
      /\ v[4 * g + 3] = in[3 * g + 7] /\ v[4 * g + 4] = in[3 * g + 6]
  <2>1. /\ 4 * g + 1 \in 1..32 /\ 4 * g + 2 \in 1..32
        /\ 4 * g + 3 \in 1..32 /\ 4 * g + 4 \in 1..32
    OBVIOUS
  <2>2. /\ at(4 * g + 1) = 3 * g + 6 /\ at(4 * g + 2) = 3 * g + 5
        /\ at(4 * g + 3) = 3 * g + 7 /\ at(4 * g + 4) = 3 * g + 6
    <3>1. CASE g \in 0..3
      <4>1. /\ lut0_128[4 * g + 1] + 5 = 3 * g + 6 /\ lut0_128[4 * g + 2] + 5 = 3 * g + 5
            /\ lut0_128[4 * g + 3] + 5 = 3 * g + 7 /\ lut0_128[4 * g + 4] + 5 = 3 * g + 6
        BY <3>1, Lut128
      <4>2. 4 * g + 1 <= 16 /\ 4 * g + 2 <= 16 /\ 4 * g + 3 <= 16 /\ 4 * g + 4 <= 16
        BY <3>1
      <4> QED
        BY <4>1, <4>2
    <3>2. CASE g \in 4..7
      <4> DEFINE h == g - 4
      <4>1. h \in 0..3
        BY <3>2
      <4>2. /\ (4 * g + 1) - 16 = 4 * h + 1 /\ (4 * g + 2) - 16 = 4 * h + 2
            /\ (4 * g + 3) - 16 = 4 * h + 3 /\ (4 * g + 4) - 16 = 4 * h + 4
            /\ 3 * g = 3 * h + 12
            /\ ~ 4 * g + 1 <= 16 /\ ~ 4 * g + 2 <= 16
            /\ ~ 4 * g + 3 <= 16 /\ ~ 4 * g + 4 <= 16
        BY <3>2
      <4> HIDE DEF h
      <4>3. /\ lut0_128[4 * h + 1] + 17 = 3 * h + 18 /\ lut0_128[4 * h + 2] + 17 = 3 * h + 17
            /\ lut0_128[4 * h + 3] + 17 = 3 * h + 19 /\ lut0_128[4 * h + 4] + 17 = 3 * h + 18
        BY <4>1, Lut128
      <4> QED
        BY <4>1, <4>2, <4>3
    <3> QED
      BY <3>1, <3>2
  <2> HIDE DEF at
  <2> QED
    BY <1>1, <2>1, <2>2
<1> HIDE DEF at
<1>4. HasFields(SplitMultiply(v), g, v[4 * g + 2], v[4 * g + 1], v[4 * g + 3])
  <2>1. g \in Nat /\ 4 * g + 4 <= Len(v)
    <3>1. g \in Nat /\ 4 * g + 4 <= 32
      OBVIOUS
    <3> QED
      BY <1>2, <3>1, Zenon
  <2>2. v[4 * g + 4] = v[4 * g + 1]
    BY <1>3, Zenon
  <2> QED
    BY <1>2, <2>1, <2>2, MultiplySplits
<1>5. enc_reshuffle_avx2(in) = SplitMultiply(v)
  BY DEF enc_reshuffle_avx2, v
<1> QED
  BY <1>3, <1>4, <1>5 DEF HasFields

LEMMA InsertsFields ==
  ASSUME NEW a \in Byte, NEW b \in Byte, NEW c \in Byte
  PROVE  /\ sli8(b \div 16, a, 4) % 64 = (a % 4) * 16 + (b \div 16)
         /\ sli8(c \div 64, b, 2) % 64 = (b % 16) * 4 + (c \div 64)
<1>1. sli8(b \div 16, a, 4) % 64 = (a % 4) * 16 + (b \div 16)
  BY SMTT(60) DEF sli8, Byte
<1>2. sli8(c \div 64, b, 2) % 64 = (b % 16) * 4 + (c \div 64)
  BY DEF sli8, Byte
<1> QED
  BY <1>1, <1>2

\* NEON has the groups apart from the start.
LEMMA ReshuffleNeon ==
  ASSUME NEW in \in [1..48 -> Byte], NEW g \in 0..15
  PROVE  HasFields(enc_reshuffle_neon(in), g, in[3 * g + 1], in[3 * g + 2], in[3 * g + 3])
<1> DEFINE a == in[3 * g + 1]
           b == in[3 * g + 2]
           c == in[3 * g + 3]
<1>1. a \in Byte /\ b \in Byte /\ c \in Byte
  OBVIOUS
<1>2. Len(in) = 48
  BY RegisterIsSeq
<1>3. /\ (4 * g + 1 - 1) \div 4 = g /\ (4 * g + 1 - 1) % 4 = 0
      /\ (4 * g + 2 - 1) \div 4 = g /\ (4 * g + 2 - 1) % 4 = 1
      /\ (4 * g + 3 - 1) \div 4 = g /\ (4 * g + 3 - 1) % 4 = 2
      /\ (4 * g + 4 - 1) \div 4 = g /\ (4 * g + 4 - 1) % 4 = 3
      /\ {4 * g + 1, 4 * g + 2, 4 * g + 3, 4 * g + 4} \subseteq 1 .. 4 * (48 \div 3)
  OBVIOUS
<1>4. /\ enc_reshuffle_neon(in)[4 * g + 1] = a \div 4
      /\ enc_reshuffle_neon(in)[4 * g + 2] = sli8(b \div 16, a, 4) % 64
      /\ enc_reshuffle_neon(in)[4 * g + 3] = sli8(c \div 64, b, 2) % 64
      /\ enc_reshuffle_neon(in)[4 * g + 4] = c % 64
  <2> DEFINE out(h) == << in[3*h + 1] \div 4,
                          sli8(in[3*h + 2] \div 16, in[3*h + 1], 4) % 64,
                          sli8(in[3*h + 3] \div 64, in[3*h + 2], 2) % 64,
                          in[3*h + 3] % 64 >>
  <2>1. enc_reshuffle_neon(in) =
          [i \in 1 .. 4 * (48 \div 3) |-> out((i - 1) \div 4)[((i - 1) % 4) + 1]]
    BY <1>2 DEF enc_reshuffle_neon
  <2>2. /\ out(g)[1] = a \div 4 /\ out(g)[2] = sli8(b \div 16, a, 4) % 64
        /\ out(g)[3] = sli8(c \div 64, b, 2) % 64 /\ out(g)[4] = c % 64
    OBVIOUS
  <2> HIDE DEF out
  <2>3. /\ enc_reshuffle_neon(in)[4 * g + 1] = out(g)[0 + 1]
        /\ enc_reshuffle_neon(in)[4 * g + 2] = out(g)[1 + 1]
        /\ enc_reshuffle_neon(in)[4 * g + 3] = out(g)[2 + 1]
        /\ enc_reshuffle_neon(in)[4 * g + 4] = out(g)[3 + 1]
    BY <1>3, <2>1
  <2> QED
    BY <2>2, <2>3
<1> HIDE DEF a, b, c
<1>5. /\ sli8(b \div 16, a, 4) % 64 = (a % 4) * 16 + (b \div 16)
      /\ sli8(c \div 64, b, 2) % 64 = (b % 16) * 4 + (c \div 64)
  BY <1>1, InsertsFields
<1> QED
  BY <1>4, <1>5 DEF HasFields, a, b, c

\* Byte b of lane h from its bit r on, filled up from the next byte.
TwoBytes(v, h, b, r) ==
  (v[8 * h + b + 1] \div 2^r + v[8 * h + ((b + 1) % 8) + 1] * 2^(8 - r)) % 256

LEMMA MultiShiftAt ==
  ASSUME NEW v \in [1..64 -> Byte], NEW h \in 0..7, NEW p \in 1..8,
         NEW b \in 0..7, NEW r \in 0..7
  PROVE  MultiShift(v, 8 * h + p, 8 * b + r) = TwoBytes(v, h, b, r)
<1>1. /\ 8 * (((8 * h + p) - 1) \div 8) = 8 * h
      /\ (8 * b + r) \div 8 = b /\ (8 * b + r) % 8 = r
  <2>1. ((8 * h + p) - 1) \div 8 = h
    OBVIOUS
  <2> QED
    BY <2>1
<1> QED
  BY <1>1, Zenon DEF MultiShift, TwoBytes

LEMMA Shuffle512 ==
  ASSUME NEW g \in 0..15
  PROVE  /\ shuffle_input[4 * g + 1] + 1 = 3 * g + 2
         /\ shuffle_input[4 * g + 2] + 1 = 3 * g + 1
         /\ shuffle_input[4 * g + 3] + 1 = 3 * g + 3
         /\ shuffle_input[4 * g + 4] + 1 = 3 * g + 2
<1> DEFINE order == <<1, 0, 2, 1>>
<1>1. ASSUME NEW k \in 1..4 PROVE shuffle_input[4 * g + k] = 3 * g + order[k]
  <2>1. /\ 4 * g + k \in 1..64
        /\ (4 * g + k - 1) \div 4 = g /\ ((4 * g + k - 1) % 4) + 1 = k
    OBVIOUS
  <2>2. shuffle_input[4 * g + k] =
          3 * ((4 * g + k - 1) \div 4) + order[((4 * g + k - 1) % 4) + 1]
    BY <2>1 DEF shuffle_input
  <2> HIDE DEF order
  <2> QED
    BY <2>1, <2>2
<1>2. order[1] = 1 /\ order[2] = 0 /\ order[3] = 2 /\ order[4] = 1
  OBVIOUS
<1> HIDE DEF order
<1> QED
  BY <1>1, <1>2

\* The eight bytes of output of lane h.
LEMMA LaneOf512 ==
  ASSUME NEW v \in [1..64 -> Byte], NEW h \in 0..7
  PROVE  LET out(p) == MultiShift(v, 8 * h + p, shifts[p])
             two(x, m, y, n) == (v[8 * h + x] \div m + v[8 * h + y] * n) % 256
         IN /\ out(1) = two(2, 4, 3, 64)  /\ out(2) = two(1, 16, 2, 16)
            /\ out(3) = two(3, 64, 4, 4)  /\ out(4) = two(3, 1, 4, 256)
            /\ out(5) = two(6, 4, 7, 64)  /\ out(6) = two(5, 16, 6, 16)
            /\ out(7) = two(7, 64, 8, 4)  /\ out(8) = two(7, 1, 8, 256)
<1>1. /\ shifts[1] = 8 * 1 + 2 /\ shifts[2] = 8 * 0 + 4
      /\ shifts[3] = 8 * 2 + 6 /\ shifts[4] = 8 * 2 + 0
      /\ shifts[5] = 8 * 5 + 2 /\ shifts[6] = 8 * 4 + 4
      /\ shifts[7] = 8 * 6 + 6 /\ shifts[8] = 8 * 6 + 0
  BY DEF shifts
<1>2. /\ TwoBytes(v, h, 1, 2) = (v[8 * h + 2] \div 4 + v[8 * h + 3] * 64) % 256
      /\ TwoBytes(v, h, 0, 4) = (v[8 * h + 1] \div 16 + v[8 * h + 2] * 16) % 256
      /\ TwoBytes(v, h, 2, 6) = (v[8 * h + 3] \div 64 + v[8 * h + 4] * 4) % 256
      /\ TwoBytes(v, h, 2, 0) = (v[8 * h + 3] \div 1 + v[8 * h + 4] * 256) % 256
      /\ TwoBytes(v, h, 5, 2) = (v[8 * h + 6] \div 4 + v[8 * h + 7] * 64) % 256
      /\ TwoBytes(v, h, 4, 4) = (v[8 * h + 5] \div 16 + v[8 * h + 6] * 16) % 256
      /\ TwoBytes(v, h, 6, 6) = (v[8 * h + 7] \div 64 + v[8 * h + 8] * 4) % 256
      /\ TwoBytes(v, h, 6, 0) = (v[8 * h + 7] \div 1 + v[8 * h + 8] * 256) % 256
  BY DEF TwoBytes
<1>3. \A p \in 1..8, b \in 0..7, r \in 0..7 :
        MultiShift(v, 8 * h + p, 8 * b + r) = TwoBytes(v, h, b, r)
  BY MultiShiftAt
<1>4. /\ MultiShift(v, 8 * h + 1, shifts[1]) = TwoBytes(v, h, 1, 2)
      /\ MultiShift(v, 8 * h + 2, shifts[2]) = TwoBytes(v, h, 0, 4)
      /\ MultiShift(v, 8 * h + 3, shifts[3]) = TwoBytes(v, h, 2, 6)
      /\ MultiShift(v, 8 * h + 4, shifts[4]) = TwoBytes(v, h, 2, 0)
      /\ MultiShift(v, 8 * h + 5, shifts[5]) = TwoBytes(v, h, 5, 2)
      /\ MultiShift(v, 8 * h + 6, shifts[6]) = TwoBytes(v, h, 4, 4)
      /\ MultiShift(v, 8 * h + 7, shifts[7]) = TwoBytes(v, h, 6, 6)
      /\ MultiShift(v, 8 * h + 8, shifts[8]) = TwoBytes(v, h, 6, 0)
  BY <1>1, <1>3
<1> QED
  BY <1>2, <1>4, SMTT(60)

\* The lookup drops what is above a field.
Fields512(input) == [i \in 1..64 |-> Reshuffle512(input)[i] % 64]

LEMMA ReshuffleAVX512 ==
  ASSUME NEW input \in [1..64 -> Byte], NEW g \in 0..15
  PROVE  HasFields(Fields512(input), g, input[3 * g + 1], input[3 * g + 2], input[3 * g + 3])
<1> DEFINE in == [i \in 1..64 |-> input[shuffle_input[i] + 1]]
           out == Reshuffle512(input)
           h == g \div 2
<1>1. ASSUME NEW j \in 0..15
      PROVE  /\ in[4 * j + 1] = input[3 * j + 2] /\ in[4 * j + 2] = input[3 * j + 1]
             /\ in[4 * j + 3] = input[3 * j + 3] /\ in[4 * j + 4] = input[3 * j + 2]
             /\ input[3 * j + 1] \in Byte /\ input[3 * j + 2] \in Byte
             /\ input[3 * j + 3] \in Byte
  <2>1. /\ 4 * j + 1 \in 1..64 /\ 4 * j + 2 \in 1..64
        /\ 4 * j + 3 \in 1..64 /\ 4 * j + 4 \in 1..64
        /\ 3 * j + 1 \in 1..64 /\ 3 * j + 2 \in 1..64 /\ 3 * j + 3 \in 1..64
    OBVIOUS
  <2>2. /\ in[4 * j + 1] = input[shuffle_input[4 * j + 1] + 1]
        /\ in[4 * j + 2] = input[shuffle_input[4 * j + 2] + 1]
        /\ in[4 * j + 3] = input[shuffle_input[4 * j + 3] + 1]
        /\ in[4 * j + 4] = input[shuffle_input[4 * j + 4] + 1]
    BY <2>1
  <2> HIDE DEF in
  <2> QED
    BY <2>1, <2>2, Shuffle512
<1>2. in \in [1..64 -> Byte]
  <2>1. \A i \in 1..64 : in[i] \in Byte
    <3> HIDE DEF in
    <3> SUFFICES ASSUME NEW i \in 1..64 PROVE in[i] \in Byte
      OBVIOUS
    <3> DEFINE j == (i - 1) \div 4
    <3>1. /\ j \in 0..15
          /\ i = 4 * j + 1 \/ i = 4 * j + 2 \/ i = 4 * j + 3 \/ i = 4 * j + 4
      OBVIOUS
    <3> HIDE DEF j
    <3> QED
      BY <1>1, <3>1
  <2>2. in = [i \in 1..64 |-> in[i]]
    OBVIOUS
  <2> HIDE DEF in
  <2> QED
    BY <2>1, <2>2
<1>3. \A i \in 1..64 : out[i] = MultiShift(in, i, shifts[((i - 1) % 8) + 1])
  BY DEF Reshuffle512
<1>4. h \in 0..7 /\ (g = 2 * h \/ g = 2 * h + 1)
  OBVIOUS
<1> HIDE DEF in, out, h
<1>5. ASSUME NEW p \in 1..8
      PROVE  out[8 * h + p] = MultiShift(in, 8 * h + p, shifts[p])
  <2>1. 8 * h + p \in 1..64 /\ (((8 * h + p) - 1) % 8) + 1 = p
    BY <1>4
  <2> QED
    BY <1>3, <2>1
<1>6. /\ out[8 * h + 1] = (in[8 * h + 2] \div 4 + in[8 * h + 3] * 64) % 256
      /\ out[8 * h + 2] = (in[8 * h + 1] \div 16 + in[8 * h + 2] * 16) % 256
      /\ out[8 * h + 3] = (in[8 * h + 3] \div 64 + in[8 * h + 4] * 4) % 256
      /\ out[8 * h + 4] = (in[8 * h + 3] \div 1 + in[8 * h + 4] * 256) % 256
      /\ out[8 * h + 5] = (in[8 * h + 6] \div 4 + in[8 * h + 7] * 64) % 256
      /\ out[8 * h + 6] = (in[8 * h + 5] \div 16 + in[8 * h + 6] * 16) % 256
      /\ out[8 * h + 7] = (in[8 * h + 7] \div 64 + in[8 * h + 8] * 4) % 256
      /\ out[8 * h + 8] = (in[8 * h + 7] \div 1 + in[8 * h + 8] * 256) % 256
  <2>1. /\ MultiShift(in, 8 * h + 1, shifts[1]) = (in[8 * h + 2] \div 4 + in[8 * h + 3] * 64) % 256
        /\ MultiShift(in, 8 * h + 2, shifts[2]) = (in[8 * h + 1] \div 16 + in[8 * h + 2] * 16) % 256
        /\ MultiShift(in, 8 * h + 3, shifts[3]) = (in[8 * h + 3] \div 64 + in[8 * h + 4] * 4) % 256
        /\ MultiShift(in, 8 * h + 4, shifts[4]) = (in[8 * h + 3] \div 1 + in[8 * h + 4] * 256) % 256
        /\ MultiShift(in, 8 * h + 5, shifts[5]) = (in[8 * h + 6] \div 4 + in[8 * h + 7] * 64) % 256
        /\ MultiShift(in, 8 * h + 6, shifts[6]) = (in[8 * h + 5] \div 16 + in[8 * h + 6] * 16) % 256
        /\ MultiShift(in, 8 * h + 7, shifts[7]) = (in[8 * h + 7] \div 64 + in[8 * h + 8] * 4) % 256
        /\ MultiShift(in, 8 * h + 8, shifts[8]) = (in[8 * h + 7] \div 1 + in[8 * h + 8] * 256) % 256
    BY <1>2, <1>4, LaneOf512, SMTT(30)
  <2>2. /\ out[8 * h + 1] = MultiShift(in, 8 * h + 1, shifts[1])
        /\ out[8 * h + 2] = MultiShift(in, 8 * h + 2, shifts[2])
        /\ out[8 * h + 3] = MultiShift(in, 8 * h + 3, shifts[3])
        /\ out[8 * h + 4] = MultiShift(in, 8 * h + 4, shifts[4])
        /\ out[8 * h + 5] = MultiShift(in, 8 * h + 5, shifts[5])
        /\ out[8 * h + 6] = MultiShift(in, 8 * h + 6, shifts[6])
        /\ out[8 * h + 7] = MultiShift(in, 8 * h + 7, shifts[7])
        /\ out[8 * h + 8] = MultiShift(in, 8 * h + 8, shifts[8])
    BY ONLY <1>5
  <2> QED
    BY ONLY <2>1, <2>2
<1> DEFINE a == input[3 * g + 1]
           b == input[3 * g + 2]
           c == input[3 * g + 3]
<1>7. /\ in[4 * g + 1] = b /\ in[4 * g + 2] = a /\ in[4 * g + 3] = c /\ in[4 * g + 4] = b
      /\ a \in Byte /\ b \in Byte /\ c \in Byte
  BY <1>1
<1> HIDE DEF a, b, c
<1>8. /\ out[4 * g + 1] = (a \div 4 + c * 64) % 256
      /\ out[4 * g + 2] = (b \div 16 + a * 16) % 256
      /\ out[4 * g + 3] = (c \div 64 + b * 4) % 256
      /\ out[4 * g + 4] = (c \div 1 + b * 256) % 256
  <2>1. CASE g = 2 * h
    <3>1. /\ 8 * h + 1 = 4 * g + 1 /\ 8 * h + 2 = 4 * g + 2
          /\ 8 * h + 3 = 4 * g + 3 /\ 8 * h + 4 = 4 * g + 4
      BY <1>4, <2>1
    <3> QED
      BY <1>6, <1>7, <3>1
  <2>2. CASE g = 2 * h + 1
    <3>1. /\ 8 * h + 5 = 4 * g + 1 /\ 8 * h + 6 = 4 * g + 2
          /\ 8 * h + 7 = 4 * g + 3 /\ 8 * h + 8 = 4 * g + 4
      BY <1>4, <2>2
    <3> QED
      BY <1>6, <1>7, <3>1
  <2> QED
    BY <1>4, <2>1, <2>2
<1>9. /\ out[4 * g + 1] % 64 = a \div 4
      /\ out[4 * g + 2] % 64 = (a % 4) * 16 + (b \div 16)
      /\ out[4 * g + 3] % 64 = (b % 16) * 4 + (c \div 64)
      /\ out[4 * g + 4] % 64 = c % 64
  <2>1. /\ ((a \div 4 + c * 64) % 256) % 64 = a \div 4
        /\ ((b \div 16 + a * 16) % 256) % 64 = (a % 4) * 16 + (b \div 16)
        /\ ((c \div 64 + b * 4) % 256) % 64 = (b % 16) * 4 + (c \div 64)
        /\ ((c \div 1 + b * 256) % 256) % 64 = c % 64
    <3>1. a \in Byte /\ b \in Byte /\ c \in Byte
      BY <1>7
    <3>2. ((a \div 4 + c * 64) % 256) % 64 = a \div 4
      BY <3>1, SMTT(60) DEF Byte
    <3>3. ((b \div 16 + a * 16) % 256) % 64 = (a % 4) * 16 + (b \div 16)
      BY <3>1, SMTT(60) DEF Byte
    <3>4. ((c \div 64 + b * 4) % 256) % 64 = (b % 16) * 4 + (c \div 64)
      BY <3>1, SMTT(60) DEF Byte
    <3>5. ((c \div 1 + b * 256) % 256) % 64 = c % 64
      BY <3>1, SMTT(60) DEF Byte
    <3> QED
      BY <3>2, <3>3, <3>4, <3>5
  <2> QED
    BY <1>8, <2>1, ZenonT(30)
<1>10. /\ Fields512(input)[4 * g + 1] = out[4 * g + 1] % 64
       /\ Fields512(input)[4 * g + 2] = out[4 * g + 2] % 64
       /\ Fields512(input)[4 * g + 3] = out[4 * g + 3] % 64
       /\ Fields512(input)[4 * g + 4] = out[4 * g + 4] % 64
  BY DEF Fields512, out
<1> QED
  BY <1>9, <1>10 DEF HasFields, a, b, c

-----------------------------------------------------------------------------
(* Encoding: from the fields to characters.                                *)

LEMMA TranslatesEach ==
  ASSUME NEW n \in Nat, NEW in, in \in [1..n -> Sextet], NEW i \in 1..n
  PROVE  /\ enc_translate(in)[i] = base64_table_enc_6bit[in[i]]
         /\ enc_translate_neon32(in)[i] = base64_table_enc_6bit[in[i]]
         /\ Lookup64(in)[i] = base64_table_enc_6bit[in[i]]
<1> DEFINE v == in[i]
           index == (subs8(v, 51) - (IF v > 25 THEN 255 ELSE 0)) % 256
<1>1. v \in Sextet /\ Len(in) = n
  BY RegisterIsSeq
<1>2. /\ enc_translate(in)[i] =
           add8(v, pshufb(lut1, (subs8(v, 51) - Above25(v)) % 256))
      /\ enc_translate_neon32(in)[i] = add8(v, tbl(lut1, index))
      /\ Lookup64(in)[i] = tbl(base64_table_enc_6bit, v)
  BY <1>1 DEF enc_translate, enc_translate_neon32, Lookup64
<1> HIDE DEF v
<1>3. Above25(v) = IF v > 25 THEN 255 ELSE 0
  BY <1>1 DEF Above25, Sextet
<1>4. index \in Int
  BY <1>1 DEF subs8, Sextet
<1>5. index \in 0..13 /\ add8(v, lut1[index]) = base64_table_enc_6bit[v]
  <2> HIDE DEF index
  <2>1. index = (subs8(v, 51) - (IF v > 25 THEN 255 ELSE 0)) % 256
    BY DEF index
  <2> QED
    BY <1>1, <1>4, <2>1, OffsetIsRight
<1>6. enc_translate(in)[i] = add8(v, pshufb(lut1, index))
  BY <1>2, <1>3
<1> HIDE DEF index
<1>7. pshufb(lut1, index) = lut1[index] /\ tbl(lut1, index) = lut1[index]
  <2>1. DOMAIN lut1 = 0..15
    BY Zenon DEF lut1
  <2>2. ~ index >= 128 /\ index % 16 = index /\ index \in DOMAIN lut1
    BY <1>5, <2>1, SMTT(30)
  <2> QED
    BY <2>2, Zenon DEF pshufb, tbl
<1>8. tbl(base64_table_enc_6bit, v) = base64_table_enc_6bit[v]
  <2>1. DOMAIN base64_table_enc_6bit = Sextet
    BY Zenon DEF base64_table_enc_6bit
  <2> QED
    BY <1>1, <2>1 DEF tbl
<1> QED
  BY <1>2, <1>5, <1>6, <1>7, <1>8 DEF v, index

\* Two bytes in memory, written by the machine whose order they are in.
LEMMA MemoryPair ==
  ASSUME NEW endian \in Endians, NEW first, NEW second
  PROVE  LET m == Memory(endian, IF endian = "le" THEN <<first, second>>
                                 ELSE <<second, first>>)
         IN m[1] = first /\ m[2] = second
<1>1. CASE endian = "le"
  BY <1>1 DEF Memory
<1>2. CASE endian = "be"
  <2> DEFINE t == <<second, first>>
  <2>1. Len(t) = 2 /\ t[1] = second /\ t[2] = first
    OBVIOUS
  <2> HIDE DEF t
  <2>2. endian # "le"
    BY <1>2
  <2>3. Memory(endian, t)[1] = first /\ Memory(endian, t)[2] = second
    BY <2>1, <2>2 DEF Memory
  <2> QED
    BY <2>2, <2>3 DEF t
<1> QED
  BY <1>1, <1>2 DEF Endians

\* Two characters of each 12-bit index.
Index12 == 0..4095

Field12Half(index, i) ==
  IF i % 2 = 1 THEN index[(i + 1) \div 2] \div 64 ELSE index[(i + 1) \div 2] % 64

LEMMA LooksUpPairs ==
  ASSUME NEW endian \in Endians, NEW n \in Nat, NEW index \in [1..n -> Index12],
         NEW i \in 1 .. 2 * n
  PROVE  LookupPairs(endian, index)[i] = base64_table_enc_6bit[Field12Half(index, i)]
<1> DEFINE k == (i + 1) \div 2
           first == base64_table_enc_6bit[index[k] \div 64]
           second == base64_table_enc_6bit[index[k] % 64]
           m == Memory(endian, base64_table_enc_12bit(endian, index[k]))
<1>1. Len(index) = n
  BY RegisterIsSeq
<1>2. LookupPairs(endian, index)[i] = m[IF i % 2 = 1 THEN 1 ELSE 2]
  BY <1>1 DEF LookupPairs
<1>3. base64_table_enc_12bit(endian, index[k]) =
        IF endian = "le" THEN <<first, second>> ELSE <<second, first>>
  BY DEF base64_table_enc_12bit
<1> HIDE DEF first, second, k
<1>4. m[1] = first /\ m[2] = second
  BY <1>3, MemoryPair
<1> HIDE DEF m
<1> QED
  BY <1>2, <1>4 DEF first, second, k, Field12Half

-----------------------------------------------------------------------------
(* Encoding: a whole round.                                                *)

\* The block that a register holds from place `from` on: n groups of three bytes.
BlockIn(in, from, n) == [j \in 1 .. 3 * n |-> in[from + j]]

CharactersOf(d, n) == [i \in 1 .. 4 * n |-> base64_table_enc_6bit[EncChar(d, i)]]

EncodesBlock(isa, in, from, n) ==
  Translate(isa, Split(isa, in)) = CharactersOf(BlockIn(in, from, n), n)

\* A register of the fields of the block d.
SplitOf(out, d, n) ==
  /\ d \in [1 .. 3 * n -> Byte]
  /\ out = [i \in 1 .. 4 * n |-> out[i]]
  /\ \A g \in 0 .. n - 1 : HasFields(out, g, d[3 * g + 1], d[3 * g + 2], d[3 * g + 3])

LEMMA ValuesOfSplit ==
  ASSUME NEW n \in Nat, NEW d, NEW out, SplitOf(out, d, n)
  PROVE  \A i \in 1 .. 4 * n : out[i] \in Sextet /\ out[i] = EncChar(d, i)
BY FieldsAreValues DEF SplitOf

LEMMA TranslatesBlock ==
  ASSUME NEW n \in Nat, NEW d, NEW out, SplitOf(out, d, n)
  PROVE  /\ enc_translate(out) = CharactersOf(d, n)
         /\ enc_translate_neon32(out) = CharactersOf(d, n)
         /\ Lookup64(out) = CharactersOf(d, n)
<1>1. \A i \in 1 .. 4 * n : out[i] \in Sextet /\ out[i] = EncChar(d, i)
  BY ValuesOfSplit
<1>2. out \in [1 .. 4 * n -> Sextet] /\ 4 * n \in Nat
  BY <1>1 DEF SplitOf
<1>3. Len(out) = 4 * n
  BY <1>2, RegisterIsSeq
<1>4. \A i \in 1 .. 4 * n :
        /\ enc_translate(out)[i] = base64_table_enc_6bit[out[i]]
        /\ enc_translate_neon32(out)[i] = base64_table_enc_6bit[out[i]]
        /\ Lookup64(out)[i] = base64_table_enc_6bit[out[i]]
  BY <1>2, TranslatesEach
<1>5. /\ enc_translate(out) = [i \in 1 .. 4 * n |-> enc_translate(out)[i]]
      /\ enc_translate_neon32(out) = [i \in 1 .. 4 * n |-> enc_translate_neon32(out)[i]]
      /\ Lookup64(out) = [i \in 1 .. 4 * n |-> Lookup64(out)[i]]
  BY <1>3 DEF enc_translate, enc_translate_neon32, Lookup64
<1>6. \A i \in 1 .. 4 * n :
        /\ enc_translate(out)[i] = base64_table_enc_6bit[EncChar(d, i)]
        /\ enc_translate_neon32(out)[i] = base64_table_enc_6bit[EncChar(d, i)]
        /\ Lookup64(out)[i] = base64_table_enc_6bit[EncChar(d, i)]
  BY <1>1, <1>4
<1> QED
  BY <1>5, <1>6 DEF CharactersOf

LEMMA RoundSSSE3 ==
  ASSUME NEW in \in [1..16 -> Byte]
  PROVE  EncodesBlock("ssse3", in, 0, 4)
<1> DEFINE d == BlockIn(in, 0, 4)
           out == enc_reshuffle_ssse3(in)
<1>1. d \in [1 .. 3 * 4 -> Byte] /\ \A j \in 1..12 : d[j] = in[j]
  BY DEF BlockIn
<1>2. out = [i \in 1 .. 4 * 4 |-> out[i]]
  <2>1. Len(in) = 16
    BY RegisterIsSeq
  <2>2. Len(ShuffleLanes(in, lut0_128)) = 16
    BY <2>1 DEF ShuffleLanes
  <2> QED
    BY <2>2 DEF enc_reshuffle_ssse3, SplitMultiply
<1> HIDE DEF out, d
<1>3. ASSUME NEW g \in 0 .. 4 - 1
      PROVE  HasFields(out, g, d[3 * g + 1], d[3 * g + 2], d[3 * g + 3])
  <2>1. g \in 0..3 /\ 3 * g + 1 \in 1..12 /\ 3 * g + 2 \in 1..12 /\ 3 * g + 3 \in 1..12
    OBVIOUS
  <2>2. HasFields(out, g, in[3 * g + 1], in[3 * g + 2], in[3 * g + 3])
    BY <2>1, ReshuffleSSSE3 DEF out
  <2> QED
    BY <1>1, <2>1, <2>2
<1>4. SplitOf(out, d, 4)
  BY <1>1, <1>2, <1>3 DEF SplitOf
<1>5. enc_translate(out) = CharactersOf(d, 4)
  BY <1>4, TranslatesBlock
<1>6. Translate("ssse3", Split("ssse3", in)) = enc_translate(out)
  BY DEF Translate, Split, out
<1> QED
  BY <1>5, <1>6 DEF EncodesBlock, d

LEMMA RoundAVX2 ==
  ASSUME NEW in \in [1..32 -> Byte]
  PROVE  EncodesBlock("avx2", in, 4, 8)
<1> DEFINE d == BlockIn(in, 4, 8)
           out == enc_reshuffle_avx2(in)
<1>1. d \in [1 .. 3 * 8 -> Byte] /\ \A j \in 1..24 : d[j] = in[4 + j]
  BY DEF BlockIn
<1>2. out = [i \in 1 .. 4 * 8 |-> out[i]]
  <2>1. Len(in) = 32
    BY RegisterIsSeq
  <2>2. Len(ShuffleLanes(in, lut0_256)) = 32
    BY <2>1 DEF ShuffleLanes
  <2> QED
    BY <2>2 DEF enc_reshuffle_avx2, SplitMultiply
<1> HIDE DEF out, d
<1>3. ASSUME NEW g \in 0 .. 8 - 1
      PROVE  HasFields(out, g, d[3 * g + 1], d[3 * g + 2], d[3 * g + 3])
  <2>1. /\ g \in 0..7 /\ 3 * g + 1 \in 1..24 /\ 3 * g + 2 \in 1..24 /\ 3 * g + 3 \in 1..24
        /\ 4 + (3 * g + 1) = 3 * g + 5 /\ 4 + (3 * g + 2) = 3 * g + 6
        /\ 4 + (3 * g + 3) = 3 * g + 7
    OBVIOUS
  <2>2. HasFields(out, g, in[3 * g + 5], in[3 * g + 6], in[3 * g + 7])
    BY <2>1, ReshuffleAVX2 DEF out
  <2> QED
    BY <1>1, <2>1, <2>2
<1>4. SplitOf(out, d, 8)
  BY <1>1, <1>2, <1>3 DEF SplitOf
<1>5. enc_translate(out) = CharactersOf(d, 8)
  BY <1>4, TranslatesBlock
<1>6. Translate("avx2", Split("avx2", in)) = enc_translate(out)
  BY DEF Translate, Split, out
<1> QED
  BY <1>5, <1>6 DEF EncodesBlock, d

LEMMA RoundNeon ==
  ASSUME NEW in \in [1..48 -> Byte], NEW isa \in {"neon32", "neon64"}
  PROVE  EncodesBlock(isa, in, 0, 16)
<1> DEFINE d == BlockIn(in, 0, 16)
           out == enc_reshuffle_neon(in)
<1>1. d \in [1 .. 3 * 16 -> Byte] /\ \A j \in 1..48 : d[j] = in[j]
  BY DEF BlockIn
<1>2. out = [i \in 1 .. 4 * 16 |-> out[i]]
  <2>1. Len(in) = 48
    BY RegisterIsSeq
  <2> QED
    BY <2>1 DEF enc_reshuffle_neon
<1> HIDE DEF out, d
<1>3. ASSUME NEW g \in 0 .. 16 - 1
      PROVE  HasFields(out, g, d[3 * g + 1], d[3 * g + 2], d[3 * g + 3])
  <2>1. g \in 0..15 /\ 3 * g + 1 \in 1..48 /\ 3 * g + 2 \in 1..48 /\ 3 * g + 3 \in 1..48
    OBVIOUS
  <2>2. HasFields(out, g, in[3 * g + 1], in[3 * g + 2], in[3 * g + 3])
    BY <2>1, ReshuffleNeon DEF out
  <2> QED
    BY <1>1, <2>1, <2>2
<1>4. SplitOf(out, d, 16)
  BY <1>1, <1>2, <1>3 DEF SplitOf
<1>5. enc_translate_neon32(out) = CharactersOf(d, 16) /\ Lookup64(out) = CharactersOf(d, 16)
  BY <1>4, TranslatesBlock
<1>6. /\ isa = "neon32" => Translate(isa, Split(isa, in)) = enc_translate_neon32(out)
      /\ isa = "neon64" => Translate(isa, Split(isa, in)) = Lookup64(out)
  BY DEF Translate, Split, out
<1> QED
  BY <1>5, <1>6 DEF EncodesBlock, d

LEMMA RoundAVX512 ==
  ASSUME NEW in \in [1..64 -> Byte]
  PROVE  EncodesBlock("avx512", in, 0, 16)
<1> DEFINE d == BlockIn(in, 0, 16)
           out == Fields512(in)
<1>1. d \in [1 .. 3 * 16 -> Byte] /\ \A j \in 1..48 : d[j] = in[j]
  BY DEF BlockIn
<1>2. out = [i \in 1 .. 4 * 16 |-> out[i]]
  BY DEF Fields512
<1> HIDE DEF out, d
<1>3. ASSUME NEW g \in 0 .. 16 - 1
      PROVE  HasFields(out, g, d[3 * g + 1], d[3 * g + 2], d[3 * g + 3])
  <2>1. g \in 0..15 /\ 3 * g + 1 \in 1..48 /\ 3 * g + 2 \in 1..48 /\ 3 * g + 3 \in 1..48
    OBVIOUS
  <2>2. HasFields(out, g, in[3 * g + 1], in[3 * g + 2], in[3 * g + 3])
    BY <2>1, ReshuffleAVX512 DEF out
  <2> QED
    BY <1>1, <2>1, <2>2
<1>4. SplitOf(out, d, 16)
  BY <1>1, <1>2, <1>3 DEF SplitOf
<1>5. \A i \in 1 .. 4 * 16 : out[i] = EncChar(d, i)
  BY <1>4, ValuesOfSplit
<1>6. Translate("avx512", Split("avx512", in)) = Lookup512(Reshuffle512(in))
  BY DEF Translate, Split
<1>7. \A i \in 1..64 : out[i] = Reshuffle512(in)[i] % 64
  BY DEF out, Fields512
<1>8. Lookup512(Reshuffle512(in)) = CharactersOf(d, 16)
  BY <1>5, <1>7, SMTT(30) DEF Lookup512, CharactersOf
<1> QED
  BY <1>6, <1>8 DEF EncodesBlock, d

\* The fields of 12 bits hold two fields each.
FieldsOfPairs(index) ==
  [i \in 1 .. 2 * Len(index) |-> Field12Half(index, i)]

PairHolds(x, y, a, b, c) ==
  x = a * 16 + (b \div 16) /\ y = (b % 16) * 256 + c

LEMMA PairHasFields ==
  ASSUME NEW a \in Byte, NEW b \in Byte, NEW c \in Byte, NEW x, NEW y,
         PairHolds(x, y, a, b, c)
  PROVE  /\ x \in Index12 /\ y \in Index12
         /\ x \div 64 = a \div 4
         /\ x % 64 = (a % 4) * 16 + (b \div 16)
         /\ y \div 64 = (b % 16) * 4 + (c \div 64)
         /\ y % 64 = c % 64
<1>1. x \in Index12 /\ y \in Index12
  BY SMTT(60) DEF PairHolds, Byte, Index12
<1>2. x \div 64 = a \div 4
  BY DEF PairHolds, Byte
<1>3. x % 64 = (a % 4) * 16 + (b \div 16)
  BY DEF PairHolds, Byte
<1>4. y \div 64 = (b % 16) * 4 + (c \div 64)
  BY DEF PairHolds, Byte
<1>5. y % 64 = c % 64
  BY DEF PairHolds, Byte
<1> QED
  BY <1>1, <1>2, <1>3, <1>4, <1>5

\* The two fields of 12 bits of each group of three bytes.
PairsOf(index, d, n) ==
  /\ d \in [1 .. 3 * n -> Byte]
  /\ index = [k \in 1 .. 2 * n |-> index[k]]
  /\ \A g \in 0 .. n - 1 :
       PairHolds(index[2 * g + 1], index[2 * g + 2], d[3 * g + 1], d[3 * g + 2], d[3 * g + 3])

LEMMA PairsOfBlock ==
  ASSUME NEW n \in Nat, NEW d, NEW index, PairsOf(index, d, n)
  PROVE  /\ index \in [1 .. 2 * n -> Index12]
         /\ SplitOf(FieldsOfPairs(index), d, n)
<1>0. d \in [1 .. 3 * n -> Byte]
  BY DEF PairsOf
<1>1. ASSUME NEW g \in 0 .. n - 1
      PROVE  /\ index[2 * g + 1] \in Index12 /\ index[2 * g + 2] \in Index12
             /\ index[2 * g + 1] \div 64 = d[3 * g + 1] \div 4
             /\ index[2 * g + 1] % 64 = (d[3 * g + 1] % 4) * 16 + (d[3 * g + 2] \div 16)
             /\ index[2 * g + 2] \div 64 = (d[3 * g + 2] % 16) * 4 + (d[3 * g + 3] \div 64)
             /\ index[2 * g + 2] % 64 = d[3 * g + 3] % 64
  <2> DEFINE a == d[3 * g + 1]
             b == d[3 * g + 2]
             c == d[3 * g + 3]
             x == index[2 * g + 1]
             y == index[2 * g + 2]
  <2>1. a \in Byte /\ b \in Byte /\ c \in Byte
    BY <1>0
  <2>2. PairHolds(x, y, a, b, c)
    BY DEF PairsOf
  <2> HIDE DEF a, b, c, x, y
  <2>3. /\ x \in Index12 /\ y \in Index12
        /\ x \div 64 = a \div 4
        /\ x % 64 = (a % 4) * 16 + (b \div 16)
        /\ y \div 64 = (b % 16) * 4 + (c \div 64)
        /\ y % 64 = c % 64
    BY <2>1, <2>2, PairHasFields
  <2> QED
    BY <2>3 DEF a, b, c, x, y
<1>2. index \in [1 .. 2 * n -> Index12]
  <2>1. ASSUME NEW k \in 1 .. 2 * n PROVE index[k] \in Index12
    <3> DEFINE g == (k - 1) \div 2
    <3>1. g \in 0 .. n - 1 /\ (k = 2 * g + 1 \/ k = 2 * g + 2)
      OBVIOUS
    <3> HIDE DEF g
    <3>2. index[2 * g + 1] \in Index12 /\ index[2 * g + 2] \in Index12
      BY <1>1, <3>1
    <3> QED
      BY <3>1, <3>2, Zenon
  <2>2. index = [k \in 1 .. 2 * n |-> index[k]]
    BY DEF PairsOf
  <2> QED
    BY <2>1, <2>2, Zenon
<1>3. Len(index) = 2 * n
  <2>1. 2 * n \in Nat
    OBVIOUS
  <2> QED
    BY <1>2, <2>1, RegisterIsSeq
<1> DEFINE out == FieldsOfPairs(index)
<1>4. out = [i \in 1 .. 4 * n |-> out[i]]
  <2>1. 2 * Len(index) = 4 * n
    BY <1>3
  <2> QED
    BY <2>1 DEF FieldsOfPairs
<1>5. ASSUME NEW g \in 0 .. n - 1
      PROVE  /\ out[4 * g + 1] = index[2 * g + 1] \div 64
             /\ out[4 * g + 2] = index[2 * g + 1] % 64
             /\ out[4 * g + 3] = index[2 * g + 2] \div 64
             /\ out[4 * g + 4] = index[2 * g + 2] % 64
  <2>1. /\ 4 * g + 1 \in 1 .. 2 * (2 * n) /\ 4 * g + 2 \in 1 .. 2 * (2 * n)
        /\ 4 * g + 3 \in 1 .. 2 * (2 * n) /\ 4 * g + 4 \in 1 .. 2 * (2 * n)
        /\ (4 * g + 1) % 2 = 1 /\ (4 * g + 2) % 2 # 1
        /\ (4 * g + 3) % 2 = 1 /\ (4 * g + 4) % 2 # 1
        /\ (4 * g + 1 + 1) \div 2 = 2 * g + 1 /\ (4 * g + 2 + 1) \div 2 = 2 * g + 1
        /\ (4 * g + 3 + 1) \div 2 = 2 * g + 2 /\ (4 * g + 4 + 1) \div 2 = 2 * g + 2
    OBVIOUS
  <2> QED
    BY <1>3, <2>1 DEF FieldsOfPairs, Field12Half
<1> HIDE DEF out
<1>6. ASSUME NEW g \in 0 .. n - 1
      PROVE  HasFields(out, g, d[3 * g + 1], d[3 * g + 2], d[3 * g + 3])
  BY <1>1, <1>5 DEF HasFields
<1> QED
  BY <1>0, <1>2, <1>4, <1>6 DEF SplitOf, out

\* The plain loops: a word of either byte order, one or two groups of it.
LEMMA LooksUpBlock ==
  ASSUME NEW endian \in Endians, NEW n \in Nat, NEW d, NEW index, PairsOf(index, d, n)
  PROVE  LookupPairs(endian, index) = CharactersOf(d, n)
<1> DEFINE out == FieldsOfPairs(index)
<1>1. index \in [1 .. 2 * n -> Index12] /\ 2 * n \in Nat /\ SplitOf(out, d, n)
  <2>1. 2 * n \in Nat
    OBVIOUS
  <2> QED
    BY <2>1, PairsOfBlock, Zenon
<1>2. Len(index) = 2 * n
  BY <1>1, RegisterIsSeq
<1>3. \A i \in 1 .. 4 * n : out[i] = EncChar(d, i)
  <2> HIDE DEF out
  <2> QED
    BY <1>1, ValuesOfSplit
<1>4. ASSUME NEW i \in 1 .. 4 * n
      PROVE  LookupPairs(endian, index)[i] = base64_table_enc_6bit[out[i]]
  <2>1. i \in 1 .. 2 * (2 * n)
    OBVIOUS
  <2>2. out[i] = Field12Half(index, i)
    BY <1>2, <2>1 DEF FieldsOfPairs
  <2> HIDE DEF out
  <2>3. LookupPairs(endian, index)[i] = base64_table_enc_6bit[Field12Half(index, i)]
    BY <1>1, <2>1, LooksUpPairs
  <2> QED
    BY <2>2, <2>3
<1>5. LookupPairs(endian, index) = [i \in 1 .. 4 * n |-> LookupPairs(endian, index)[i]]
  <2>1. 2 * Len(index) = 4 * n
    BY <1>2
  <2> QED
    BY <2>1 DEF LookupPairs
<1> HIDE DEF out
<1> QED
  BY <1>3, <1>4, <1>5 DEF CharactersOf

LEMMA Round32 ==
  ASSUME NEW in \in [1..4 -> Byte], NEW isa \in {"32le", "32be"}
  PROVE  EncodesBlock(isa, in, 0, 1)
<1> DEFINE d == BlockIn(in, 0, 1)
           index == Indices32(in)
<1>1. d \in [1 .. 3 * 1 -> Byte] /\ d[1] = in[1] /\ d[2] = in[2] /\ d[3] = in[3]
  BY DEF BlockIn
<1>2. index = [k \in 1 .. 2 * 1 |-> index[k]]
  BY DEF Indices32
<1>3. index[1] = in[1] * 16 + (in[2] \div 16) /\ index[2] = (in[2] % 16) * 256 + in[3]
  BY DEF Indices32, Field12
<1> HIDE DEF d, index
<1>4. \A g \in 0 .. 1 - 1 : PairHolds(index[2 * g + 1], index[2 * g + 2],
                                      d[3 * g + 1], d[3 * g + 2], d[3 * g + 3])
  <2>1. PairHolds(index[1], index[2], d[1], d[2], d[3])
    BY <1>1, <1>3 DEF PairHolds
  <2>2. \A g \in 0 .. 1 - 1 : /\ 2 * g + 1 = 1 /\ 2 * g + 2 = 2
                              /\ 3 * g + 1 = 1 /\ 3 * g + 2 = 2 /\ 3 * g + 3 = 3
    OBVIOUS
  <2> QED
    BY <2>1, <2>2
<1>5. PairsOf(index, d, 1)
  BY <1>1, <1>2, <1>4 DEF PairsOf
<1>6. LookupPairs("le", index) = CharactersOf(d, 1) /\ LookupPairs("be", index) = CharactersOf(d, 1)
  BY <1>5, LooksUpBlock DEF Endians
<1>7. /\ isa = "32le" => Translate(isa, Split(isa, in)) = LookupPairs("le", index)
      /\ isa = "32be" => Translate(isa, Split(isa, in)) = LookupPairs("be", index)
  BY DEF Translate, Split, index
<1> QED
  BY <1>6, <1>7 DEF EncodesBlock, d

LEMMA Round64 ==
  ASSUME NEW in \in [1..8 -> Byte], NEW isa \in {"64le", "64be"}
  PROVE  EncodesBlock(isa, in, 0, 2)
<1> DEFINE d == BlockIn(in, 0, 2)
           index == Indices64(in)
<1>1. /\ d \in [1 .. 3 * 2 -> Byte]
      /\ d[1] = in[1] /\ d[2] = in[2] /\ d[3] = in[3]
      /\ d[4] = in[4] /\ d[5] = in[5] /\ d[6] = in[6]
  BY DEF BlockIn
<1>2. index = [k \in 1 .. 2 * 2 |-> index[k]]
  BY DEF Indices64
<1>3. /\ index[1] = in[1] * 16 + (in[2] \div 16) /\ index[2] = (in[2] % 16) * 256 + in[3]
      /\ index[3] = in[4] * 16 + (in[5] \div 16) /\ index[4] = (in[5] % 16) * 256 + in[6]
  BY DEF Indices64, Field12
<1> HIDE DEF d, index
<1>4. \A g \in 0 .. 2 - 1 : PairHolds(index[2 * g + 1], index[2 * g + 2],
                                      d[3 * g + 1], d[3 * g + 2], d[3 * g + 3])
  <2>1. /\ PairHolds(index[1], index[2], d[1], d[2], d[3])
        /\ PairHolds(index[3], index[4], d[4], d[5], d[6])
    BY <1>1, <1>3 DEF PairHolds
  <2>2. \A g \in 0 .. 2 - 1 :
          \/ /\ 2 * g + 1 = 1 /\ 2 * g + 2 = 2
             /\ 3 * g + 1 = 1 /\ 3 * g + 2 = 2 /\ 3 * g + 3 = 3
          \/ /\ 2 * g + 1 = 3 /\ 2 * g + 2 = 4
             /\ 3 * g + 1 = 4 /\ 3 * g + 2 = 5 /\ 3 * g + 3 = 6
    OBVIOUS
  <2> QED
    BY <2>1, <2>2
<1>5. PairsOf(index, d, 2)
  BY <1>1, <1>2, <1>4 DEF PairsOf
<1>6. LookupPairs("le", index) = CharactersOf(d, 2) /\ LookupPairs("be", index) = CharactersOf(d, 2)
  BY <1>5, LooksUpBlock DEF Endians
<1>7. /\ isa = "64le" => Translate(isa, Split(isa, in)) = LookupPairs("le", index)
      /\ isa = "64be" => Translate(isa, Split(isa, in)) = LookupPairs("be", index)
  BY DEF Translate, Split, index
<1> QED
  BY <1>6, <1>7 DEF EncodesBlock, d

\* The bulk loop in C of each instruction set.
EncLoopOf(isa) ==
  CASE isa = "ssse3"  -> enc_loop_ssse3
    [] isa = "avx2"   -> enc_loop_avx2
    [] isa = "avx512" -> enc_loop_avx512
    [] isa = "neon32" -> enc_loop_neon32
    [] isa = "neon64" -> enc_loop_neon64
    [] isa \in {"32le", "32be"} -> enc_loop_generic_32
    [] isa \in {"64le", "64be"} -> enc_loop_generic_64

\* Whatever bytes a round loads, it computes the characters that the bytewise code
\* would have written for the block in them.  So the two multiplications, the
\* shuffles, the shifts and inserts, the lookups of two characters at once and the
\* offsets by range never disagree with base64_table_enc_6bit, on any machine.
THEOREM EncodeRound ==
  ASSUME NEW isa \in {"ssse3", "avx2", "avx512", "neon32", "neon64",
                      "32le", "32be", "64le", "64be"},
         NEW in \in [1 .. EncLoopOf(isa).width -> Byte]
  PROVE  EncodesBlock(isa, in, EncLoopOf(isa).lag, EncLoopOf(isa).block \div 3)
<1>1. CASE isa = "ssse3"
  <2>1. EncLoopOf(isa).width = 16 /\ EncLoopOf(isa).lag = 0 /\ EncLoopOf(isa).block \div 3 = 4
    BY <1>1 DEF EncLoopOf, enc_loop_ssse3, EncLoop
  <2> QED
    BY <1>1, <2>1, RoundSSSE3
<1>2. CASE isa = "avx2"
  <2>1. EncLoopOf(isa).width = 32 /\ EncLoopOf(isa).lag = 4 /\ EncLoopOf(isa).block \div 3 = 8
    BY <1>2 DEF EncLoopOf, enc_loop_avx2, EncLoop
  <2> QED
    BY <1>2, <2>1, RoundAVX2
<1>3. CASE isa = "avx512"
  <2>1. EncLoopOf(isa).width = 64 /\ EncLoopOf(isa).lag = 0 /\ EncLoopOf(isa).block \div 3 = 16
    BY <1>3 DEF EncLoopOf, enc_loop_avx512, EncLoop
  <2> QED
    BY <1>3, <2>1, RoundAVX512
<1>4. CASE isa \in {"neon32", "neon64"}
  <2>1. EncLoopOf(isa).width = 48 /\ EncLoopOf(isa).lag = 0 /\ EncLoopOf(isa).block \div 3 = 16
    BY <1>4 DEF EncLoopOf, enc_loop_neon32, enc_loop_neon64, EncLoop
  <2> QED
    BY <1>4, <2>1, RoundNeon
<1>5. CASE isa \in {"32le", "32be"}
  <2>1. EncLoopOf(isa).width = 4 /\ EncLoopOf(isa).lag = 0 /\ EncLoopOf(isa).block \div 3 = 1
    BY <1>5 DEF EncLoopOf, enc_loop_generic_32, EncLoop
  <2> QED
    BY <1>5, <2>1, Round32
<1>6. CASE isa \in {"64le", "64be"}
  <2>1. EncLoopOf(isa).width = 8 /\ EncLoopOf(isa).lag = 0 /\ EncLoopOf(isa).block \div 3 = 2
    BY <1>6 DEF EncLoopOf, enc_loop_generic_64, EncLoop
  <2> QED
    BY <1>6, <2>1, Round64
<1> QED
  BY <1>1, <1>2, <1>3, <1>4, <1>5, <1>6

\* enc_loop_avx2_inner_first has its block at the start of the register and moves
\* it to where the other rounds find theirs.
THEOREM FirstRoundOfAVX2 ==
  ASSUME NEW in \in [1..32 -> Byte]
  PROVE  LET moved == PermuteDwords(in, <<0, 0, 1, 2, 3, 4, 5, 6>>)
         IN Translate("avx2", Split("avx2", moved)) = CharactersOf(BlockIn(in, 0, 8), 8)
<1> DEFINE order == <<0, 0, 1, 2, 3, 4, 5, 6>>
           moved == PermuteDwords(in, order)
<1>1. \A k \in 1..8 : order[k] \in 0..7 /\ (k > 1 => order[k] = k - 2)
  OBVIOUS
<1>2. Len(in) = 32
  BY RegisterIsSeq
<1> HIDE DEF order
<1>3. ASSUME NEW i \in 1..32
      PROVE  /\ moved[i] = in[4 * order[((i - 1) \div 4) + 1] + ((i - 1) % 4) + 1]
             /\ moved[i] \in Byte
  <2> DEFINE k == order[((i - 1) \div 4) + 1]
  <2>1. moved[i] = in[4 * k + ((i - 1) % 4) + 1]
    BY <1>2 DEF PermuteDwords
  <2>2. k \in 0..7
    <3>1. ((i - 1) \div 4) + 1 \in 1..8
      OBVIOUS
    <3> QED
      BY <1>1, <3>1
  <2> HIDE DEF moved, k
  <2>3. 4 * k + ((i - 1) % 4) + 1 \in 1..32
    BY <2>2
  <2>4. in[4 * k + ((i - 1) % 4) + 1] \in Byte
    BY <2>3
  <2> QED
    BY <2>1, <2>4 DEF k
<1>4. moved \in [1..32 -> Byte]
  <2>1. moved = [i \in 1..32 |-> moved[i]]
    BY <1>2 DEF PermuteDwords
  <2> HIDE DEF moved
  <2> QED
    BY <1>3, <2>1
<1> HIDE DEF moved
<1>5. EncodesBlock("avx2", moved, 4, 8)
  BY <1>4, RoundAVX2
<1>6. ASSUME NEW j \in 1 .. 3 * 8 PROVE moved[4 + j] = in[0 + j]
  <2> DEFINE k == ((4 + j - 1) \div 4) + 1
  <2>1. k \in 1..8 /\ k > 1 /\ 4 * (k - 2) + ((4 + j - 1) % 4) + 1 = 0 + j /\ 4 + j \in 1..32
    OBVIOUS
  <2>2. moved[4 + j] = in[4 * order[k] + ((4 + j - 1) % 4) + 1]
    BY <1>3, <2>1
  <2> HIDE DEF k
  <2>3. order[k] = k - 2
    BY <1>1, <2>1
  <2> QED
    BY <2>1, <2>2, <2>3, Zenon
<1>7. BlockIn(moved, 4, 8) = BlockIn(in, 0, 8)
  BY <1>6 DEF BlockIn
<1> QED
  BY <1>5, <1>7 DEF EncodesBlock, moved, order

-----------------------------------------------------------------------------
(* Decoding: the tables.                                                   *)

\* What a character is, by its code.
LEMMA ClassOf ==
  ASSUME NEW c \in Byte
  PROVE  /\ c \in 65..90 => base64_table_dec_8bit[c] = c - 65
         /\ c \in 97..122 => base64_table_dec_8bit[c] = c - 71
         /\ c \in 48..57 => base64_table_dec_8bit[c] = c + 4
         /\ c = 43 => base64_table_dec_8bit[c] = 62
         /\ c = 47 => base64_table_dec_8bit[c] = 63
         /\ base64_table_dec_8bit[c] \in Sextet <=>
              c \in 65..90 \/ c \in 97..122 \/ c \in 48..57 \/ c = 43 \/ c = 47
<1> DEFINE p == c \in 65..90
           q == c \in 97..122
           r == c \in 48..57
           s == c = 43
           t == c = 47
           u == c = 61
           class == base64_table_dec_8bit[c]
<1>1. class = CASE p -> c - 65 [] q -> c - 71 [] r -> c + 4 [] s -> 62 [] t -> 63
                [] u -> Pad [] OTHER -> Bad
  BY Zenon DEF base64_table_dec_8bit
<1>2. /\ p => ~q /\ ~r /\ ~s /\ ~t /\ ~u
      /\ q => ~p /\ ~r /\ ~s /\ ~t /\ ~u
      /\ r => ~p /\ ~q /\ ~s /\ ~t /\ ~u
      /\ s => ~p /\ ~q /\ ~r /\ ~t /\ ~u
      /\ t => ~p /\ ~q /\ ~r /\ ~s /\ ~u
      /\ u => ~p /\ ~q /\ ~r /\ ~s /\ ~t
  BY DEF Byte
<1> HIDE DEF p, q, r, s, t, u, class
<1>3. /\ p => class = c - 65
      /\ q => class = c - 71
      /\ r => class = c + 4
      /\ s => class = 62
      /\ t => class = 63
      /\ ~p /\ ~q /\ ~r /\ ~s /\ ~t => class = Pad \/ class = Bad
  BY <1>1, <1>2, Zenon
<1>4. class \in Sextet <=> p \/ q \/ r \/ s \/ t
  BY <1>3 DEF p, q, r, s, t, Sextet, Pad, Bad
<1> QED
  BY <1>3, <1>4 DEF p, q, r, s, t, class

LEMMA LutLo ==
  ASSUME NEW n \in 0..15
  PROVE  /\ n = 0 => lut_lo[n] = 21
         /\ n \in 1..9 => lut_lo[n] = 17
         /\ n = 10 => lut_lo[n] = 19
         /\ n \in {11, 15} => lut_lo[n] = 26
         /\ n \in 12..14 => lut_lo[n] = 27
<1> DEFINE p == n = 0
           q == n \in 1..9
           r == n = 10
           s == n \in {11, 15}
<1>1. lut_lo[n] = CASE p -> 21 [] q -> 17 [] r -> 19 [] s -> 26 [] OTHER -> 27
  BY Zenon DEF lut_lo
<1>2. /\ p => ~q /\ ~r /\ ~s
      /\ q => ~p /\ ~r /\ ~s
      /\ r => ~p /\ ~q /\ ~s
      /\ s => ~p /\ ~q /\ ~r
      /\ n \in 12..14 => ~p /\ ~q /\ ~r /\ ~s
  OBVIOUS
<1> HIDE DEF p, q, r, s
<1>3. /\ p => lut_lo[n] = 21
      /\ q => lut_lo[n] = 17
      /\ r => lut_lo[n] = 19
      /\ s => lut_lo[n] = 26
      /\ n \in 12..14 => lut_lo[n] = 27
  BY <1>1, <1>2, Zenon
<1> QED
  BY <1>3 DEF p, q, r, s

LEMMA LutHi ==
  ASSUME NEW n \in 0..15
  PROVE  /\ n = 2 => lut_hi[n] = 1
         /\ n = 3 => lut_hi[n] = 2
         /\ n \in {4, 6} => lut_hi[n] = 4
         /\ n \in {5, 7} => lut_hi[n] = 8
         /\ n \notin 2..7 => lut_hi[n] = 16
<1> DEFINE p == n = 2
           q == n = 3
           r == n \in {4, 6}
           s == n \in {5, 7}
<1>1. lut_hi[n] = CASE p -> 1 [] q -> 2 [] r -> 4 [] s -> 8 [] OTHER -> 16
  BY Zenon DEF lut_hi
<1>2. /\ p => ~q /\ ~r /\ ~s
      /\ q => ~p /\ ~r /\ ~s
      /\ r => ~p /\ ~q /\ ~s
      /\ s => ~p /\ ~q /\ ~r
      /\ n \notin 2..7 => ~p /\ ~q /\ ~r /\ ~s
  OBVIOUS
<1> HIDE DEF p, q, r, s
<1>3. /\ p => lut_hi[n] = 1
      /\ q => lut_hi[n] = 2
      /\ r => lut_hi[n] = 4
      /\ s => lut_hi[n] = 8
      /\ n \notin 2..7 => lut_hi[n] = 16
  BY <1>1, <1>2, Zenon
<1> QED
  BY <1>3 DEF p, q, r, s

LEMMA LutRoll ==
  ASSUME NEW n \in 0..15
  PROVE  /\ n = 1 => lut_roll[n] = 16
         /\ n = 2 => lut_roll[n] = 19
         /\ n = 3 => lut_roll[n] = 4
         /\ n \in {4, 5} => lut_roll[n] = 191
         /\ n \in {6, 7} => lut_roll[n] = 185
<1> DEFINE p == n = 1
           q == n = 2
           r == n = 3
           s == n \in {4, 5}
           t == n \in {6, 7}
<1>1. lut_roll[n] = CASE p -> 16 [] q -> 19 [] r -> 4 [] s -> 191 [] t -> 185 [] OTHER -> 0
  BY Zenon DEF lut_roll
<1>2. /\ p => ~q /\ ~r /\ ~s /\ ~t
      /\ q => ~p /\ ~r /\ ~s /\ ~t
      /\ r => ~p /\ ~q /\ ~s /\ ~t
      /\ s => ~p /\ ~q /\ ~r /\ ~t
      /\ t => ~p /\ ~q /\ ~r /\ ~s
  OBVIOUS
<1> HIDE DEF p, q, r, s, t
<1>3. /\ p => lut_roll[n] = 16
      /\ q => lut_roll[n] = 19
      /\ r => lut_roll[n] = 4
      /\ s => lut_roll[n] = 191
      /\ t => lut_roll[n] = 185
  BY <1>1, <1>2, Zenon
<1> QED
  BY <1>3 DEF p, q, r, s, t

-----------------------------------------------------------------------------
(* Decoding: the nibbles of a character.                                   *)

LEMMA AndWith47 ==
  ASSUME NEW x \in Byte
  PROVE  And8(x, 47) = (x % 16) + 32 * ((x \div 32) % 2)
<1>1. /\ Bit(47, 0) = 1 /\ Bit(47, 1) = 1 /\ Bit(47, 2) = 1 /\ Bit(47, 3) = 1
      /\ Bit(47, 4) = 0 /\ Bit(47, 5) = 1 /\ Bit(47, 6) = 0 /\ Bit(47, 7) = 0
  BY DEF Bit
<1>2. /\ Bit(x, 0) = x % 2 /\ Bit(x, 1) = (x \div 2) % 2
      /\ Bit(x, 2) = (x \div 4) % 2 /\ Bit(x, 3) = (x \div 8) % 2
      /\ Bit(x, 5) = (x \div 32) % 2
      /\ Bit(x, 4) \in Int /\ Bit(x, 6) \in Int /\ Bit(x, 7) \in Int
  BY DEF Bit, Byte
<1>3. And8(x, 47) = (x % 2) + 2 * ((x \div 2) % 2) + 4 * ((x \div 4) % 2)
                      + 8 * ((x \div 8) % 2) + 32 * ((x \div 32) % 2)
  <2> HIDE DEF Bit
  <2> QED
    BY <1>1, <1>2 DEF And8, Byte
<1> QED
  BY <1>3 DEF Byte

LEMMA AndWithOneBit ==
  ASSUME NEW x \in Byte
  PROVE  /\ And8(x, 1) = x % 2
         /\ And8(x, 2) = 2 * ((x \div 2) % 2)
         /\ And8(x, 4) = 4 * ((x \div 4) % 2)
         /\ And8(x, 8) = 8 * ((x \div 8) % 2)
         /\ And8(x, 16) = 16 * ((x \div 16) % 2)
<1>1. /\ Bit(x, 0) = x % 2 /\ Bit(x, 1) = (x \div 2) % 2
      /\ Bit(x, 2) = (x \div 4) % 2 /\ Bit(x, 3) = (x \div 8) % 2
      /\ Bit(x, 4) = (x \div 16) % 2
      /\ Bit(x, 5) \in Int /\ Bit(x, 6) \in Int /\ Bit(x, 7) \in Int
  BY DEF Bit, Byte
<1>2. /\ Bit(1, 0) = 1 /\ Bit(1, 1) = 0 /\ Bit(1, 2) = 0 /\ Bit(1, 3) = 0
      /\ Bit(1, 4) = 0 /\ Bit(1, 5) = 0 /\ Bit(1, 6) = 0 /\ Bit(1, 7) = 0
  BY DEF Bit
<1>3. /\ Bit(2, 0) = 0 /\ Bit(2, 1) = 1 /\ Bit(2, 2) = 0 /\ Bit(2, 3) = 0
      /\ Bit(2, 4) = 0 /\ Bit(2, 5) = 0 /\ Bit(2, 6) = 0 /\ Bit(2, 7) = 0
  BY DEF Bit
<1>4. /\ Bit(4, 0) = 0 /\ Bit(4, 1) = 0 /\ Bit(4, 2) = 1 /\ Bit(4, 3) = 0
      /\ Bit(4, 4) = 0 /\ Bit(4, 5) = 0 /\ Bit(4, 6) = 0 /\ Bit(4, 7) = 0
  BY DEF Bit
<1>5. /\ Bit(8, 0) = 0 /\ Bit(8, 1) = 0 /\ Bit(8, 2) = 0 /\ Bit(8, 3) = 1
      /\ Bit(8, 4) = 0 /\ Bit(8, 5) = 0 /\ Bit(8, 6) = 0 /\ Bit(8, 7) = 0
  BY DEF Bit
<1>6. /\ Bit(16, 0) = 0 /\ Bit(16, 1) = 0 /\ Bit(16, 2) = 0 /\ Bit(16, 3) = 0
      /\ Bit(16, 4) = 1 /\ Bit(16, 5) = 0 /\ Bit(16, 6) = 0 /\ Bit(16, 7) = 0
  BY DEF Bit
<1> HIDE DEF Bit
<1>7. And8(x, 1) = x % 2
  BY <1>1, <1>2 DEF And8, Byte
<1>8. And8(x, 2) = 2 * ((x \div 2) % 2)
  BY <1>1, <1>3 DEF And8, Byte
<1>9. And8(x, 4) = 4 * ((x \div 4) % 2)
  BY <1>1, <1>4 DEF And8, Byte
<1>10. And8(x, 8) = 8 * ((x \div 8) % 2)
  BY <1>1, <1>5 DEF And8, Byte
<1>11. And8(x, 16) = 16 * ((x \div 16) % 2)
  BY <1>1, <1>6 DEF And8, Byte
<1> QED
  BY <1>7, <1>8, <1>9, <1>10, <1>11

\* The entries of a character's nibbles share no bit if it is in the alphabet.
LEMMA NibblesShareNothing ==
  ASSUME NEW c \in Byte
  PROVE  And8(lut_lo[c % 16], lut_hi[c \div 16]) = 0 <=>
           base64_table_dec_8bit[c] \in Sextet
<1> DEFINE l == c % 16
           h == c \div 16
           lo == lut_lo[l]
           hi == lut_hi[h]
<1>1. l \in 0..15 /\ h \in 0..15 /\ c = 16 * h + l
  BY DEF Byte
<1> HIDE DEF l, h
<1>2. /\ l = 0 => lo = 21
      /\ l \in 1..9 => lo = 17
      /\ l = 10 => lo = 19
      /\ l \in {11, 15} => lo = 26
      /\ l \in 12..14 => lo = 27
  BY <1>1, LutLo
<1>3. /\ h = 2 => hi = 1
      /\ h = 3 => hi = 2
      /\ h \in {4, 6} => hi = 4
      /\ h \in {5, 7} => hi = 8
      /\ h \notin 2..7 => hi = 16
  BY <1>1, LutHi
<1> HIDE DEF lo, hi
<1>4. lo \in {17, 19, 21, 26, 27}
  BY <1>1, <1>2
<1>5. lo \in Byte
  BY <1>4 DEF Byte
<1>6. /\ And8(lo, 1) = lo % 2
      /\ And8(lo, 2) = 2 * ((lo \div 2) % 2)
      /\ And8(lo, 4) = 4 * ((lo \div 4) % 2)
      /\ And8(lo, 8) = 8 * ((lo \div 8) % 2)
      /\ And8(lo, 16) = 16 * ((lo \div 16) % 2)
  BY <1>5, AndWithOneBit
<1>7. base64_table_dec_8bit[c] \in Sextet <=>
        c \in 65..90 \/ c \in 97..122 \/ c \in 48..57 \/ c = 43 \/ c = 47
  BY ClassOf
<1> DEFINE accepted == And8(lo, hi) = 0
<1>8. CASE h = 2
  <2>1. accepted <=> l \in {11, 15}
    BY <1>1, <1>2, <1>3, <1>6, <1>8
  <2> QED
    BY <1>1, <1>7, <1>8, <2>1 DEF lo, hi, l, h
<1>9. CASE h = 3
  <2>1. accepted <=> l \in 0..9
    BY <1>1, <1>2, <1>3, <1>6, <1>9
  <2> QED
    BY <1>1, <1>7, <1>9, <2>1 DEF lo, hi, l, h
<1>10. CASE h \in {4, 6}
  <2>1. accepted <=> l \in 1..15
    BY <1>1, <1>2, <1>3, <1>6, <1>10
  <2> QED
    BY <1>1, <1>7, <1>10, <2>1 DEF lo, hi, l, h
<1>11. CASE h \in {5, 7}
  <2>1. accepted <=> l \in 0..10
    BY <1>1, <1>2, <1>3, <1>6, <1>11
  <2> QED
    BY <1>1, <1>7, <1>11, <2>1 DEF lo, hi, l, h
<1>12. CASE h \notin 2..7
  <2>1. ~accepted
    BY <1>1, <1>2, <1>3, <1>6, <1>12
  <2> QED
    BY <1>1, <1>7, <1>12, <2>1 DEF lo, hi, l, h
<1> QED
  BY <1>1, <1>8, <1>9, <1>10, <1>11, <1>12 DEF lo, hi, l, h

LEMMA NibblesOfByte ==
  ASSUME NEW x \in Byte
  PROVE  x % 16 \in 0..15 /\ x \div 16 \in 0..15 /\ (x \div 32) % 2 \in {0, 1}
BY DEF Byte

LEMMA JoinNibbles ==
  ASSUME NEW a \in 0..15, NEW m \in 0..15
  PROVE  /\ a + m * 16 \in Byte /\ (a + m * 16) % 16 = a
         /\ a + 0 \in Byte /\ (a + 0) % 16 = a
BY DEF Byte

LEMMA HighNibbleIs ==
  ASSUME NEW n \in Nat, n % 4 = 0, NEW in \in [1..n -> Byte], NEW i \in 1..n
  PROVE  \E b \in {0, 1} : HighNibble(in, i) = in[i] \div 16 + 32 * b
<1> DEFINE c == in[i]
           d == in[i + 1]
           a == c \div 16
           m == d % 16
           next == IF i % 4 = 0 THEN 0 ELSE m * 16
           x == a + next
<1>1. c \in Byte
  OBVIOUS
<1>2. i % 4 # 0 => d \in Byte
  BY SMTT(30)
<1>3. HighNibble(in, i) = And8(x, 47)
  BY DEF HighNibble
<1> HIDE DEF c, d
<1>4. a \in 0..15
  BY <1>1, NibblesOfByte
<1>5. i % 4 # 0 => m \in 0..15
  BY <1>2, NibblesOfByte
<1> HIDE DEF a, m
<1>6. x \in Byte /\ x % 16 = a
  <2>1. CASE i % 4 = 0
    BY <1>4, <2>1, JoinNibbles, Zenon
  <2>2. CASE i % 4 # 0
    BY <1>4, <1>5, <2>2, JoinNibbles, Zenon
  <2> QED
    BY <2>1, <2>2
<1> HIDE DEF x
<1>7. And8(x, 47) = a + 32 * ((x \div 32) % 2) /\ (x \div 32) % 2 \in {0, 1}
  BY <1>6, AndWith47, NibblesOfByte
<1> QED
  BY <1>3, <1>7 DEF a, c

LEMMA LowNibbleIs ==
  ASSUME NEW n \in Nat, NEW in \in [1..n -> Byte], NEW i \in 1..n
  PROVE  \E b \in {0, 1} : LowNibble(in, i) = (in[i] % 16) + 32 * b
<1> DEFINE c == in[i]
<1>1. c \in Byte
  OBVIOUS
<1>2. LowNibble(in, i) = And8(c, 47)
  BY DEF LowNibble
<1> HIDE DEF c
<1>3. And8(c, 47) = (c % 16) + 32 * ((c \div 32) % 2) /\ (c \div 32) % 2 \in {0, 1}
  BY <1>1, AndWith47, NibblesOfByte
<1> QED
  BY <1>2, <1>3 DEF c

LEMMA PshufbOfNibble ==
  ASSUME NEW t, NEW n \in 0..15, NEW b \in {0, 1}
  PROVE  pshufb(t, n + 32 * b) = t[n]
<1>1. ~ n + 32 * b >= 128 /\ (n + 32 * b) % 16 = n
  OBVIOUS
<1> QED
  BY <1>1, Zenon DEF pshufb

-----------------------------------------------------------------------------
(* Decoding: the test of a round, and its values.                          *)

AllInAlphabet(in, n) == \A i \in 1..n : base64_table_dec_8bit[in[i]] \in Sextet

ClassesOf(in, n) == [i \in 1..n |-> base64_table_dec_8bit[in[i]]]

LEMMA NibbleTest ==
  ASSUME NEW n \in Nat, n % 4 = 0, NEW in \in [1..n -> Byte]
  PROVE  AcceptsByNibbles(in) <=> AllInAlphabet(in, n)
<1>1. Len(in) = n
  BY RegisterIsSeq
<1>2. ASSUME NEW i \in 1..n
      PROVE  And8(pshufb(lut_lo, LowNibble(in, i)), pshufb(lut_hi, HighNibble(in, i))) = 0
               <=> base64_table_dec_8bit[in[i]] \in Sextet
  <2> DEFINE c == in[i]
             low == LowNibble(in, i)
             high == HighNibble(in, i)
  <2>1. PICK b \in {0, 1} : high = c \div 16 + 32 * b
    BY HighNibbleIs
  <2>2. PICK a \in {0, 1} : low = (c % 16) + 32 * a
    BY LowNibbleIs
  <2>3. c \in Byte
    OBVIOUS
  <2> HIDE DEF c, low, high
  <2>4. c % 16 \in 0..15 /\ c \div 16 \in 0..15
    BY <2>3, NibblesOfByte
  <2>5. pshufb(lut_lo, low) = lut_lo[c % 16]
    BY <2>2, <2>4, PshufbOfNibble
  <2>6. pshufb(lut_hi, high) = lut_hi[c \div 16]
    BY <2>1, <2>4, PshufbOfNibble
  <2>7. And8(lut_lo[c % 16], lut_hi[c \div 16]) = 0 <=> base64_table_dec_8bit[c] \in Sextet
    BY <2>3, NibblesShareNothing
  <2> QED
    BY <2>5, <2>6, <2>7, Zenon DEF c, low, high
<1> QED
  BY <1>1, <1>2, Zenon DEF AcceptsByNibbles, AllInAlphabet

LEMMA NibbleTest32 ==
  ASSUME NEW n \in Nat, NEW in \in [1..n -> Byte]
  PROVE  AcceptsByNibbles32(in) <=> AllInAlphabet(in, n)
<1>1. Len(in) = n
  BY RegisterIsSeq
<1>2. DOMAIN lut_lo = 0..15 /\ DOMAIN lut_hi = 0..15
  BY Zenon DEF lut_lo, lut_hi
<1>3. ASSUME NEW i \in 1..n
      PROVE  And8(tbl(lut_lo, in[i] % 16), tbl(lut_hi, in[i] \div 16)) = 0
               <=> base64_table_dec_8bit[in[i]] \in Sextet
  <2> DEFINE c == in[i]
  <2>1. c \in Byte
    OBVIOUS
  <2> HIDE DEF c
  <2>2. c % 16 \in 0..15 /\ c \div 16 \in 0..15
    BY <2>1, NibblesOfByte
  <2>3. tbl(lut_lo, c % 16) = lut_lo[c % 16] /\ tbl(lut_hi, c \div 16) = lut_hi[c \div 16]
    BY <1>2, <2>2, Zenon DEF tbl
  <2>4. And8(lut_lo[c % 16], lut_hi[c \div 16]) = 0 <=> base64_table_dec_8bit[c] \in Sextet
    BY <2>1, NibblesShareNothing
  <2> QED
    BY <2>3, <2>4, Zenon DEF c
<1> QED
  BY <1>1, <1>3, Zenon DEF AcceptsByNibbles32, AllInAlphabet

\* The entry of lut_roll that a character of the alphabet selects.
RollIndex(c) == IF c = 47 THEN 1 ELSE c \div 16

LEMMA RollIsRight ==
  ASSUME NEW c \in Byte, base64_table_dec_8bit[c] \in Sextet
  PROVE  RollIndex(c) \in 1..7 /\ add8(c, lut_roll[RollIndex(c)]) = base64_table_dec_8bit[c]
<1> DEFINE k == RollIndex(c)
           roll == lut_roll[k]
           class == base64_table_dec_8bit[c]
<1>1. /\ c \in 65..90 => class = c - 65
      /\ c \in 97..122 => class = c - 71
      /\ c \in 48..57 => class = c + 4
      /\ c = 43 => class = 62
      /\ c = 47 => class = 63
      /\ c \in 65..90 \/ c \in 97..122 \/ c \in 48..57 \/ c = 43 \/ c = 47
  BY ClassOf
<1> HIDE DEF class
<1>2. /\ k \in 1..7
      /\ c \in 65..90 => k \in {4, 5}
      /\ c \in 97..122 => k \in {6, 7}
      /\ c \in 48..57 => k = 3
      /\ c = 43 => k = 2
      /\ c = 47 => k = 1
  BY <1>1 DEF RollIndex, Byte
<1> HIDE DEF k
<1>3. k \in 0..15
  BY <1>2
<1>4. /\ k = 1 => roll = 16
      /\ k = 2 => roll = 19
      /\ k = 3 => roll = 4
      /\ k \in {4, 5} => roll = 191
      /\ k \in {6, 7} => roll = 185
  BY <1>3, LutRoll
<1> HIDE DEF roll
<1>5. add8(c, roll) = class
  BY <1>1, <1>2, <1>4 DEF add8, Byte
<1> QED
  BY <1>2, <1>5 DEF k, roll, class

LEMMA RollValue ==
  ASSUME NEW c \in Byte, base64_table_dec_8bit[c] \in Sextet, NEW b \in {0, 1}
  PROVE  add8(c, pshufb(lut_roll, add8(Eq2F(c), c \div 16 + 32 * b))) = base64_table_dec_8bit[c]
<1> DEFINE k == RollIndex(c)
<1>1. k \in 1..7 /\ add8(c, lut_roll[k]) = base64_table_dec_8bit[c]
  BY RollIsRight
<1>2. add8(Eq2F(c), c \div 16 + 32 * b) = k + 32 * b
  BY DEF RollIndex, Eq2F, add8, Byte
<1> HIDE DEF k
<1>3. k \in 0..15
  BY <1>1
<1>4. pshufb(lut_roll, k + 32 * b) = lut_roll[k]
  BY <1>3, PshufbOfNibble
<1> QED
  BY <1>1, <1>2, <1>4, Zenon

LEMMA DeltaValue ==
  ASSUME NEW c \in Byte, base64_table_dec_8bit[c] \in Sextet
  PROVE  add8(c, delta_lookup(add8(Eq2F(c), c \div 16))) = base64_table_dec_8bit[c]
<1> DEFINE k == RollIndex(c)
<1>1. k \in 1..7 /\ add8(c, lut_roll[k]) = base64_table_dec_8bit[c]
  BY RollIsRight
<1>2. add8(Eq2F(c), c \div 16) = k
  BY DEF RollIndex, Eq2F, add8, Byte
<1> HIDE DEF k
<1>3. k < 8
  BY <1>1
<1> QED
  BY <1>1, <1>2, <1>3, Zenon DEF delta_lookup

LEMMA RollValues ==
  ASSUME NEW n \in Nat, n % 4 = 0, NEW in \in [1..n -> Byte], AllInAlphabet(in, n)
  PROVE  ValuesByRoll(in) = ClassesOf(in, n)
<1>1. Len(in) = n
  BY RegisterIsSeq
<1>2. ASSUME NEW i \in 1..n
      PROVE  add8(in[i], pshufb(lut_roll, add8(Eq2F(in[i]), HighNibble(in, i)))) =
               base64_table_dec_8bit[in[i]]
  <2> DEFINE c == in[i]
             high == HighNibble(in, i)
  <2>1. PICK b \in {0, 1} : high = c \div 16 + 32 * b
    BY HighNibbleIs
  <2>2. c \in Byte /\ base64_table_dec_8bit[c] \in Sextet
    BY DEF AllInAlphabet
  <2> HIDE DEF c, high
  <2>3. add8(c, pshufb(lut_roll, add8(Eq2F(c), c \div 16 + 32 * b))) = base64_table_dec_8bit[c]
    BY <2>2, RollValue
  <2> QED
    BY <2>1, <2>3, Zenon DEF c, high
<1> QED
  BY <1>1, <1>2, Zenon DEF ValuesByRoll, ClassesOf

LEMMA DeltaValues ==
  ASSUME NEW n \in Nat, NEW in \in [1..n -> Byte], AllInAlphabet(in, n)
  PROVE  ValuesByDelta(in) = ClassesOf(in, n)
<1>1. Len(in) = n
  BY RegisterIsSeq
<1>2. ASSUME NEW i \in 1..n
      PROVE  add8(in[i], delta_lookup(add8(Eq2F(in[i]), in[i] \div 16))) =
               base64_table_dec_8bit[in[i]]
  <2> DEFINE c == in[i]
  <2>1. c \in Byte /\ base64_table_dec_8bit[c] \in Sextet
    BY DEF AllInAlphabet
  <2> HIDE DEF c
  <2>2. add8(c, delta_lookup(add8(Eq2F(c), c \div 16))) = base64_table_dec_8bit[c]
    BY <2>1, DeltaValue
  <2> QED
    BY <2>2, Zenon DEF c
<1> QED
  BY <1>1, <1>2, Zenon DEF ValuesByDelta, ClassesOf

\* The two tables of neon64, for the characters below 64 and those above 63.
LEMMA DecLut1 ==
  ASSUME NEW c \in 0..63
  PROVE  /\ c = 43 => dec_lut1[c] = 62
         /\ c = 47 => dec_lut1[c] = 63
         /\ c \in 48..57 => dec_lut1[c] = c + 4
         /\ c # 43 /\ c # 47 /\ c \notin 48..57 => dec_lut1[c] = 255
<1> DEFINE p == c = 43
           q == c = 47
           r == c \in 48..57
<1>1. dec_lut1[c] = CASE p -> 62 [] q -> 63 [] r -> c + 4 [] OTHER -> 255
  BY Zenon DEF dec_lut1
<1>2. /\ p => ~q /\ ~r
      /\ q => ~p /\ ~r
      /\ r => ~p /\ ~q
  OBVIOUS
<1> HIDE DEF p, q, r
<1>3. /\ p => dec_lut1[c] = 62
      /\ q => dec_lut1[c] = 63
      /\ r => dec_lut1[c] = c + 4
      /\ ~p /\ ~q /\ ~r => dec_lut1[c] = 255
  BY <1>1, <1>2, Zenon
<1> QED
  BY <1>3 DEF p, q, r

LEMMA DecLut2 ==
  ASSUME NEW n \in 0..63
  PROVE  /\ n = 0 => dec_lut2[n] = 0
         /\ n \in 2..27 => dec_lut2[n] = n - 2
         /\ n \in 34..59 => dec_lut2[n] = n - 8
         /\ n # 0 /\ n \notin 2..27 /\ n \notin 34..59 => dec_lut2[n] = 255
<1> DEFINE p == n = 0
           q == n \in 2..27
           r == n \in 34..59
<1>1. dec_lut2[n] = CASE p -> 0 [] q -> n - 2 [] r -> n - 8 [] OTHER -> 255
  BY Zenon DEF dec_lut2
<1>2. /\ p => ~q /\ ~r
      /\ q => ~p /\ ~r
      /\ r => ~p /\ ~q
  OBVIOUS
<1> HIDE DEF p, q, r
<1>3. /\ p => dec_lut2[n] = 0
      /\ q => dec_lut2[n] = n - 2
      /\ r => dec_lut2[n] = n - 8
      /\ ~p /\ ~q /\ ~r => dec_lut2[n] = 255
  BY <1>1, <1>2, Zenon
<1> QED
  BY <1>3 DEF p, q, r

\* What neon64 makes of one character: its value, or a number above 63.
TableValue(c) ==
  LET above == subs8(c, 63)
  IN Or8(tbl(dec_lut1, c), IF above \in DOMAIN dec_lut2 THEN dec_lut2[above] ELSE above)

LEMMA TableValueIsRight ==
  ASSUME NEW c \in Byte
  PROVE  /\ TableValue(c) <= 63 <=> base64_table_dec_8bit[c] \in Sextet
         /\ base64_table_dec_8bit[c] \in Sextet => TableValue(c) = base64_table_dec_8bit[c]
<1> DEFINE class == base64_table_dec_8bit[c]
           v == TableValue(c)
           above == subs8(c, 63)
           low == tbl(dec_lut1, c)
           high == IF above \in DOMAIN dec_lut2 THEN dec_lut2[above] ELSE above
<1>1. /\ c \in 65..90 => class = c - 65
      /\ c \in 97..122 => class = c - 71
      /\ c \in 48..57 => class = c + 4
      /\ c = 43 => class = 62
      /\ c = 47 => class = 63
      /\ class \in Sextet <=>
           c \in 65..90 \/ c \in 97..122 \/ c \in 48..57 \/ c = 43 \/ c = 47
  BY ClassOf
<1>2. v = Or8(low, high)
  BY DEF TableValue
<1>3. DOMAIN dec_lut1 = 0..63 /\ DOMAIN dec_lut2 = 0..63
  BY Zenon DEF dec_lut1, dec_lut2
<1>4. CASE c <= 63
  <2>1. c \in 0..63 /\ above = 0
    BY <1>4 DEF subs8, Byte
  <2>2. low = dec_lut1[c] /\ high = dec_lut2[0]
    BY <1>3, <2>1 DEF tbl
  <2>3. dec_lut2[0] = 0
    BY DecLut2
  <2>4. /\ c = 43 => low = 62
        /\ c = 47 => low = 63
        /\ c \in 48..57 => low = c + 4
        /\ c # 43 /\ c # 47 /\ c \notin 48..57 => low = 255
    BY <2>1, <2>2, DecLut1
  <2> HIDE DEF class, v, above, low, high
  <2>5. low \in Byte
    BY <2>1, <2>4 DEF Byte
  <2>6. v = low
    BY <1>2, <2>2, <2>3, <2>5, OrNothing
  <2>7. (v <= 63 <=> class \in Sextet) /\ (class \in Sextet => v = class)
    BY <1>1, <1>4, <2>1, <2>4, <2>6
  <2> QED
    BY <2>7 DEF class, v
<1>5. CASE c > 63
  <2>1. above = c - 63 /\ above \in 1..192
    BY <1>5 DEF subs8, Byte
  <2>2. low = 0
    BY <1>3, <1>5 DEF tbl
  <2>3. above <= 63 => /\ high = dec_lut2[above]
                       /\ above \in 0..63
    BY <1>3, <2>1
  <2>4. above > 63 => high = above
    BY <1>3, <2>1
  <2> HIDE DEF class, v, above, low, high
  <2>5. above <= 63 =>
          /\ above \in 2..27 => high = above - 2
          /\ above \in 34..59 => high = above - 8
          /\ above # 0 /\ above \notin 2..27 /\ above \notin 34..59 => high = 255
    BY <2>3, DecLut2
  <2>6. high \in Byte
    BY <2>1, <2>4, <2>5 DEF Byte
  <2>7. v = high
    BY <1>2, <2>2, <2>6, OrNothing
  <2>8. (v <= 63 <=> class \in Sextet) /\ (class \in Sextet => v = class)
    BY <1>1, <1>5, <2>1, <2>4, <2>5, <2>7 DEF Byte
  <2> QED
    BY <2>8 DEF class, v
<1> QED
  BY <1>4, <1>5 DEF Byte

LEMMA TableTest ==
  ASSUME NEW n \in Nat, NEW in \in [1..n -> Byte]
  PROVE  /\ AcceptsSmall(ValuesByTables(in)) <=> AllInAlphabet(in, n)
         /\ AllInAlphabet(in, n) => ValuesByTables(in) = ClassesOf(in, n)
<1> DEFINE out == ValuesByTables(in)
<1>1. Len(in) = n
  BY RegisterIsSeq
<1>2. out = [i \in 1..n |-> TableValue(in[i])]
  BY <1>1, Zenon DEF ValuesByTables, TableValue
<1>3. Len(out) = n
  BY <1>2
<1>4. ASSUME NEW i \in 1..n
      PROVE  /\ TableValue(in[i]) <= 63 <=> base64_table_dec_8bit[in[i]] \in Sextet
             /\ base64_table_dec_8bit[in[i]] \in Sextet =>
                  TableValue(in[i]) = base64_table_dec_8bit[in[i]]
  BY TableValueIsRight
<1> HIDE DEF out
<1>5. \A i \in 1..n : out[i] = TableValue(in[i])
  BY <1>2, Zenon
<1>6. AcceptsSmall(out) <=> AllInAlphabet(in, n)
  BY <1>3, <1>4, <1>5, Zenon DEF AcceptsSmall, AllInAlphabet
<1>7. AllInAlphabet(in, n) => out = ClassesOf(in, n)
  BY <1>2, <1>4, Zenon DEF ClassesOf, AllInAlphabet
<1> QED
  BY <1>6, <1>7 DEF out

-----------------------------------------------------------------------------
(* Decoding: four values to three bytes.                                   *)

\* Values that share no bit add up.
LEMMA OrJoins ==
  /\ \A x \in 0..63, y \in 0..3 : Or8(4 * x, y) = 4 * x + y
  /\ \A x \in 0..15, y \in 0..15 : Or8(16 * x, y) = 16 * x + y
  /\ \A x \in 0..3, y \in 0..63 : Or8(64 * x, y) = 64 * x + y
<1>1. ASSUME NEW x \in 0..63, NEW y \in 0..3
      PROVE  Or8(4 * x, y) = 4 * x + y
  <2>1. /\ Bit(4 * x, 0) = 0 /\ Bit(4 * x, 1) = 0
        /\ \A n \in 0..7 : Bit(4 * x, n) \in Int
    BY DEF Bit
  <2>2. /\ Bit(y, 2) = 0 /\ Bit(y, 3) = 0 /\ Bit(y, 4) = 0
        /\ Bit(y, 5) = 0 /\ Bit(y, 6) = 0 /\ Bit(y, 7) = 0
        /\ Bit(y, 0) \in Int /\ Bit(y, 1) \in Int
    BY DEF Bit
  <2>3. And8(4 * x, y) = 0
    BY <2>1, <2>2, SMTT(60) DEF And8
  <2> QED
    BY <2>3 DEF Or8
<1>2. ASSUME NEW x \in 0..15, NEW y \in 0..15
      PROVE  Or8(16 * x, y) = 16 * x + y
  <2>1. /\ Bit(16 * x, 0) = 0 /\ Bit(16 * x, 1) = 0 /\ Bit(16 * x, 2) = 0
        /\ Bit(16 * x, 3) = 0
        /\ \A n \in 0..7 : Bit(16 * x, n) \in Int
    BY DEF Bit
  <2>2. /\ Bit(y, 4) = 0 /\ Bit(y, 5) = 0 /\ Bit(y, 6) = 0 /\ Bit(y, 7) = 0
        /\ \A n \in 0..3 : Bit(y, n) \in Int
    BY DEF Bit
  <2>3. And8(16 * x, y) = 0
    BY <2>1, <2>2, SMTT(60) DEF And8
  <2> QED
    BY <2>3 DEF Or8
<1>3. ASSUME NEW x \in 0..3, NEW y \in 0..63
      PROVE  Or8(64 * x, y) = 64 * x + y
  <2>1. /\ Bit(64 * x, 0) = 0 /\ Bit(64 * x, 1) = 0 /\ Bit(64 * x, 2) = 0
        /\ Bit(64 * x, 3) = 0 /\ Bit(64 * x, 4) = 0 /\ Bit(64 * x, 5) = 0
        /\ Bit(64 * x, 6) \in Int /\ Bit(64 * x, 7) \in Int
    BY DEF Bit
  <2>2. /\ Bit(y, 6) = 0 /\ Bit(y, 7) = 0
        /\ \A n \in 0..5 : Bit(y, n) \in Int
    BY DEF Bit
  <2>3. And8(64 * x, y) = 0
    BY <2>1, <2>2 DEF And8
  <2> QED
    BY <2>3 DEF Or8
<1> QED
  BY <1>1, <1>2, <1>3

\* The three bytes of four values.
Byte1(a, b) == a * 4 + (b \div 16)
Byte2(b, c) == (b % 16) * 16 + (c \div 4)
Byte3(c, d) == (c % 4) * 64 + d

LEMMA LaneHasBytes ==
  ASSUME NEW a \in Sextet, NEW b \in Sextet, NEW c \in Sextet, NEW d \in Sextet
  PROVE  LET x == (a * 64 + b) * 4096 + (c * 64 + d)
         IN /\ ByteOfLane24(x, 2) = Byte1(a, b)
            /\ ByteOfLane24(x, 1) = Byte2(b, c)
            /\ ByteOfLane24(x, 0) = Byte3(c, d)
<1> DEFINE x == (a * 64 + b) * 4096 + (c * 64 + d)
           p == Byte1(a, b)
           q == Byte2(b, c)
           r == Byte3(c, d)
<1>1. p \in Byte /\ q \in Byte /\ r \in Byte
  BY DEF Byte1, Byte2, Byte3, Sextet, Byte
<1>2. x = p * 65536 + q * 256 + r
  BY DEF Byte1, Byte2, Byte3, Sextet
<1> HIDE DEF x, p, q, r
<1>3. x \div 65536 = p /\ (x \div 256) % 256 = q /\ x % 256 = r
  BY <1>1, <1>2 DEF Byte
<1>4. ByteOfLane24(x, 2) = p /\ ByteOfLane24(x, 1) = q /\ ByteOfLane24(x, 0) = r
  BY <1>3 DEF ByteOfLane24
<1> QED
  BY <1>4 DEF x, p, q, r

LEMMA OrHasBytes ==
  ASSUME NEW a \in Sextet, NEW b \in Sextet, NEW c \in Sextet, NEW d \in Sextet
  PROVE  /\ Or8((a * 4) % 256, b \div 16) = Byte1(a, b)
         /\ Or8((b * 16) % 256, c \div 4) = Byte2(b, c)
         /\ Or8((c * 64) % 256, d) = Byte3(c, d)
<1>1. /\ (a * 4) % 256 = 4 * a /\ b \div 16 \in 0..3 /\ a \in 0..63
      /\ (b * 16) % 256 = 16 * (b % 16) /\ c \div 4 \in 0..15 /\ b % 16 \in 0..15
      /\ (c * 64) % 256 = 64 * (c % 4) /\ c % 4 \in 0..3 /\ d \in 0..63
  BY DEF Sextet
<1>2. /\ Or8(4 * a, b \div 16) = 4 * a + (b \div 16)
      /\ Or8(16 * (b % 16), c \div 4) = 16 * (b % 16) + (c \div 4)
      /\ Or8(64 * (c % 4), d) = 64 * (c % 4) + d
  BY <1>1, OrJoins
<1> QED
  BY <1>1, <1>2 DEF Byte1, Byte2, Byte3

\* The bytes that n groups of values decode to, and the zeros that fill the store.
BytesOf(v, n, store) == [i \in 1..store |-> IF i <= 3 * n THEN DecByte(v, i) ELSE 0]

LEMMA LaneIsGroup ==
  ASSUME NEW n \in Nat, NEW v, v \in [1 .. 4 * n -> Sextet],
         NEW g \in 0 .. n - 1, NEW k \in 0..2
  PROVE  ByteOfLane24(Lane24(v, g + 1), 2 - k) = DecByte(v, 3 * g + k + 1)
<1> DEFINE a == v[4 * g + 1]
           b == v[4 * g + 2]
           c == v[4 * g + 3]
           d == v[4 * g + 4]
           x == (a * 64 + b) * 4096 + (c * 64 + d)
           e == 3 * g + k + 1
<1>1. a \in Sextet /\ b \in Sextet /\ c \in Sextet /\ d \in Sextet
  BY SMTT(30)
<1>2. Lane24(v, g + 1) = x
  <2>1. /\ 2 * (2 * (g + 1) - 1) - 1 = 4 * g + 1
        /\ 2 * (2 * (g + 1) - 1) = 4 * g + 2
        /\ 2 * (2 * (g + 1)) - 1 = 4 * g + 3
        /\ 2 * (2 * (g + 1)) = 4 * g + 4
    OBVIOUS
  <2>2. Merged(v, 2 * (g + 1) - 1) = a * 64 + b
    BY <2>1, Zenon DEF Merged
  <2>3. Merged(v, 2 * (g + 1)) = c * 64 + d
    BY <2>1, Zenon DEF Merged
  <2> HIDE DEF a, b, c, d
  <2> QED
    BY <2>2, <2>3 DEF Lane24, Merged
<1>3. /\ e \in Nat /\ (e - 1) \div 3 = g /\ (e - 1) % 3 = k /\ g \in Nat
  OBVIOUS
<1> HIDE DEF e
<1>4. /\ (e - 1) % 3 = 0 => DecByte(v, e) = Byte1(a, b)
      /\ (e - 1) % 3 = 1 => DecByte(v, e) = Byte2(b, c)
      /\ (e - 1) % 3 = 2 => DecByte(v, e) = Byte3(c, d)
  BY <1>3, DecByteAt, ZenonT(30) DEF Byte1, Byte2, Byte3
<1> HIDE DEF a, b, c, d
<1>5. /\ ByteOfLane24(x, 2) = Byte1(a, b)
      /\ ByteOfLane24(x, 1) = Byte2(b, c)
      /\ ByteOfLane24(x, 0) = Byte3(c, d)
  BY <1>1, LaneHasBytes
<1> HIDE DEF x
<1>6. ByteOfLane24(x, 2 - k) = DecByte(v, e)
  <2>1. CASE k = 0
    <3>1. 2 - k = 2
      BY <2>1
    <3> QED
      BY <1>3, <1>4, <1>5, <2>1, <3>1, Zenon
  <2>2. CASE k = 1
    <3>1. 2 - k = 1
      BY <2>2
    <3> QED
      BY <1>3, <1>4, <1>5, <2>2, <3>1, Zenon
  <2>3. CASE k = 2
    <3>1. 2 - k = 0
      BY <2>3
    <3> QED
      BY <1>3, <1>4, <1>5, <2>3, <3>1, Zenon
  <2> QED
    BY <2>1, <2>2, <2>3
<1> QED
  BY <1>2, <1>6, Zenon DEF e

LEMMA PackLanesAt ==
  ASSUME NEW h \in {1, 2}, NEW v, v \in [1 .. 16 * h -> Sextet],
         NEW half \in 0 .. h - 1, NEW j \in 0..15
  PROVE  PackLanes(v)[16 * half + j + 1] =
           IF j < 12 THEN DecByte(v, 12 * half + j + 1) ELSE 0
<1> DEFINE i == 16 * half + j + 1
           g == 4 * half + (j \div 3)
           k == j % 3
<1>1. Len(v) = 16 * h
  BY RegisterIsSeq
<1>2. i \in 1 .. 16 * h /\ (i - 1) \div 16 = half /\ (i - 1) % 16 = j
  OBVIOUS
<1>3. k \in 0..2 /\ 3 * g + k + 1 = 12 * half + j + 1
  OBVIOUS
<1>4. j < 12 => g \in 0 .. 4 * h - 1
  OBVIOUS
<1> HIDE DEF i
<1>5. PackLanes(v)[i] = IF j >= 12 THEN 0 ELSE ByteOfLane24(Lane24(v, g + 1), 2 - k)
  BY <1>1, <1>2, Zenon DEF PackLanes
<1> HIDE DEF g, k
<1>6. 4 * h \in Nat /\ v \in [1 .. 4 * (4 * h) -> Sextet]
  OBVIOUS
<1>7. j < 12 => ByteOfLane24(Lane24(v, g + 1), 2 - k) = DecByte(v, 3 * g + k + 1)
  BY <1>3, <1>4, <1>6, LaneIsGroup
<1>8. CASE j < 12
  <2>1. ~ j >= 12
    BY <1>8
  <2> QED
    BY <1>3, <1>5, <1>7, <1>8, <2>1, Zenon DEF i
<1>9. CASE ~ j < 12
  <2>1. j >= 12
    BY <1>9
  <2> QED
    BY <1>5, <1>9, <2>1, Zenon DEF i
<1> QED
  BY <1>8, <1>9

LEMMA PackSSSE3 ==
  ASSUME NEW v, v \in [1..16 -> Sextet]
  PROVE  dec_reshuffle_ssse3(v) = BytesOf(v, 4, 16)
<1>1. Len(v) = 16
  BY RegisterIsSeq
<1>2. ASSUME NEW i \in 1..16
      PROVE  PackLanes(v)[i] = IF i <= 12 THEN DecByte(v, i) ELSE 0
  <2> DEFINE j == i - 1
  <2>1. j \in 0..15 /\ 0 \in 0 .. 1 - 1 /\ 16 * 0 + j + 1 = i /\ 12 * 0 + j + 1 = i
        /\ (j < 12 <=> i <= 12) /\ 1 \in {1, 2} /\ v \in [1 .. 16 * 1 -> Sextet]
    OBVIOUS
  <2> HIDE DEF j
  <2>2. PackLanes(v)[16 * 0 + j + 1] = IF j < 12 THEN DecByte(v, 12 * 0 + j + 1) ELSE 0
    BY <2>1, PackLanesAt, Zenon
  <2> QED
    BY <2>1, <2>2, Zenon
<1>3. PackLanes(v) = [i \in 1..16 |-> PackLanes(v)[i]]
  BY <1>1 DEF PackLanes
<1>4. BytesOf(v, 4, 16) = [i \in 1..16 |-> IF i <= 12 THEN DecByte(v, i) ELSE 0]
  BY DEF BytesOf
<1> QED
  BY <1>2, <1>3, <1>4, Zenon DEF dec_reshuffle_ssse3

LEMMA PackAVX2 ==
  ASSUME NEW v, v \in [1..32 -> Sextet]
  PROVE  dec_reshuffle_avx2(v) = BytesOf(v, 8, 32)
<1> DEFINE order == <<0, 1, 2, 4, 5, 6, 7, 7>>
           p == PackLanes(v)
<1>1. Len(v) = 32
  BY RegisterIsSeq
<1>2. /\ p = [i \in 1..32 |-> p[i]]
      /\ Len(p) = 32
  BY <1>1 DEF PackLanes
<1>3. ASSUME NEW half \in {0, 1}, NEW j \in 0..15
      PROVE  p[16 * half + j + 1] = IF j < 12 THEN DecByte(v, 12 * half + j + 1) ELSE 0
  <2>1. 2 \in {1, 2} /\ half \in 0 .. 2 - 1 /\ v \in [1 .. 16 * 2 -> Sextet]
    OBVIOUS
  <2> QED
    BY <2>1, PackLanesAt, Zenon
<1>4. /\ order[1] = 0 /\ order[2] = 1 /\ order[3] = 2 /\ order[4] = 4
      /\ order[5] = 5 /\ order[6] = 6 /\ order[7] = 7 /\ order[8] = 7
  OBVIOUS
<1> HIDE DEF p, order
<1>5. PermuteDwords(p, order) =
        [i \in 1..32 |-> p[4 * order[((i - 1) \div 4) + 1] + ((i - 1) % 4) + 1]]
  BY <1>2, Zenon DEF PermuteDwords
<1>6. ASSUME NEW i \in 1..32
      PROVE  p[4 * order[((i - 1) \div 4) + 1] + ((i - 1) % 4) + 1] =
               IF i <= 24 THEN DecByte(v, i) ELSE 0
  <2> DEFINE k == ((i - 1) \div 4) + 1
             from == 4 * order[k] + ((i - 1) % 4) + 1
  <2>1. k \in 1..8 /\ i = 4 * (k - 1) + ((i - 1) % 4) + 1 /\ (i - 1) % 4 \in 0..3
    OBVIOUS
  <2>2. /\ k \in 1..3 => order[k] = k - 1
        /\ k \in 4..7 => order[k] = k
        /\ k = 8 => order[k] = 7
    <3> HIDE DEF k
    <3> QED
      BY <1>4, <2>1
  <2> HIDE DEF k
  <2>3. CASE k \in 1..3
    <3>1. from = i /\ i - 1 \in 0..11 /\ 16 * 0 + (i - 1) + 1 = i
          /\ 12 * 0 + (i - 1) + 1 = i /\ i - 1 < 12 /\ i - 1 \in 0..15 /\ i <= 24
      BY <2>1, <2>2, <2>3
    <3>2. p[16 * 0 + (i - 1) + 1] =
            IF i - 1 < 12 THEN DecByte(v, 12 * 0 + (i - 1) + 1) ELSE 0
      BY <1>3, <3>1, Zenon
    <3> QED
      BY <3>1, <3>2, Zenon DEF from, k
  <2>4. CASE k \in 4..7
    <3> DEFINE j == i - 13
    <3>1. from = 16 * 1 + j + 1 /\ j \in 0..15 /\ (j < 12 <=> i <= 24)
          /\ 12 * 1 + j + 1 = i
      BY <2>1, <2>2, <2>4
    <3> HIDE DEF j
    <3>2. p[16 * 1 + j + 1] = IF j < 12 THEN DecByte(v, 12 * 1 + j + 1) ELSE 0
      BY <1>3, <3>1, Zenon
    <3> QED
      BY <3>1, <3>2, Zenon DEF from, k
  <2>5. CASE k = 8
    <3> DEFINE j == i - 17
    <3>1. from = 16 * 1 + j + 1 /\ j \in 0..15 /\ ~ j < 12 /\ ~ i <= 24
      BY <2>1, <2>2, <2>5
    <3> HIDE DEF j
    <3>2. p[16 * 1 + j + 1] = IF j < 12 THEN DecByte(v, 12 * 1 + j + 1) ELSE 0
      BY <1>3, <3>1, Zenon
    <3> QED
      BY <3>1, <3>2, Zenon DEF from, k
  <2> QED
    BY <2>1, <2>3, <2>4, <2>5
<1>7. BytesOf(v, 8, 32) = [i \in 1..32 |-> IF i <= 24 THEN DecByte(v, i) ELSE 0]
  BY DEF BytesOf
<1> QED
  BY <1>5, <1>6, <1>7, Zenon DEF dec_reshuffle_avx2, p, order

LEMMA PackInterleaved ==
  ASSUME NEW n \in Nat, NEW v, v \in [1 .. 4 * n -> Sextet]
  PROVE  PackNeon(v) = BytesOf(v, n, 3 * n)
<1> DEFINE out(g) == << Or8((v[4*g + 1] * 4) % 256,  v[4*g + 2] \div 16),
                        Or8((v[4*g + 2] * 16) % 256, v[4*g + 3] \div 4),
                        Or8((v[4*g + 3] * 64) % 256, v[4*g + 4]) >>
<1>1. Len(v) = 4 * n /\ Len(v) \div 4 = n
  BY RegisterIsSeq
<1>2. PackNeon(v) = [i \in 1 .. 3 * n |-> out((i - 1) \div 3)[((i - 1) % 3) + 1]]
  BY <1>1, Zenon DEF PackNeon
<1>3. ASSUME NEW i \in 1 .. 3 * n
      PROVE  out((i - 1) \div 3)[((i - 1) % 3) + 1] = DecByte(v, i)
  <2> DEFINE g == (i - 1) \div 3
             k == (i - 1) % 3
             a == v[4 * g + 1]
             b == v[4 * g + 2]
             c == v[4 * g + 3]
             d == v[4 * g + 4]
  <2>1. g \in 0 .. n - 1 /\ k \in 0..2 /\ g \in Nat /\ i \in Nat
    OBVIOUS
  <2>2. /\ k = 0 => DecByte(v, i) = Byte1(a, b)
        /\ k = 1 => DecByte(v, i) = Byte2(b, c)
        /\ k = 2 => DecByte(v, i) = Byte3(c, d)
    BY <2>1, DecByteAt, Zenon DEF Byte1, Byte2, Byte3
  <2>3. out(g) = << Or8((a * 4) % 256, b \div 16), Or8((b * 16) % 256, c \div 4),
                    Or8((c * 64) % 256, d) >>
    OBVIOUS
  <2> HIDE DEF g, k, out
  <2>4. a \in Sextet /\ b \in Sextet /\ c \in Sextet /\ d \in Sextet
    BY <2>1, SMTT(30)
  <2> HIDE DEF a, b, c, d
  <2>5. out(g) = << Byte1(a, b), Byte2(b, c), Byte3(c, d) >>
    <3>1. /\ Or8((a * 4) % 256, b \div 16) = Byte1(a, b)
          /\ Or8((b * 16) % 256, c \div 4) = Byte2(b, c)
          /\ Or8((c * 64) % 256, d) = Byte3(c, d)
      BY <2>4, OrHasBytes
    <3> QED
      BY <2>3, <3>1, Zenon
  <2> DEFINE o == out(g)
  <2>6. o[1] = Byte1(a, b) /\ o[2] = Byte2(b, c) /\ o[3] = Byte3(c, d)
    BY <2>5
  <2> HIDE DEF o
  <2>7. o[k + 1] = DecByte(v, i)
    <3>1. CASE k = 0
      BY <2>2, <2>6, <3>1
    <3>2. CASE k = 1
      BY <2>2, <2>6, <3>2
    <3>3. CASE k = 2
      BY <2>2, <2>6, <3>3
    <3> QED
      BY <2>1, <3>1, <3>2, <3>3
  <2> QED
    BY <2>7 DEF o, g, k
<1>4. BytesOf(v, n, 3 * n) = [i \in 1 .. 3 * n |-> DecByte(v, i)]
  BY DEF BytesOf
<1> HIDE DEF out
<1> QED
  BY <1>2, <1>3, <1>4, Zenon

-----------------------------------------------------------------------------
(* Decoding: the plain loop, whose four tables have the values in place.   *)

LEMMA OrAllOnes ==
  ASSUME NEW x \in Byte
  PROVE  Or8(255, x) = 255 /\ Or8(x, 255) = 255
<1>1. /\ Bit(255, 0) = 1 /\ Bit(255, 1) = 1 /\ Bit(255, 2) = 1 /\ Bit(255, 3) = 1
      /\ Bit(255, 4) = 1 /\ Bit(255, 5) = 1 /\ Bit(255, 6) = 1 /\ Bit(255, 7) = 1
  BY DEF Bit
<1>2. /\ Bit(x, 0) = x % 2 /\ Bit(x, 1) = (x \div 2) % 2
      /\ Bit(x, 2) = (x \div 4) % 2 /\ Bit(x, 3) = (x \div 8) % 2
      /\ Bit(x, 4) = (x \div 16) % 2 /\ Bit(x, 5) = (x \div 32) % 2
      /\ Bit(x, 6) = (x \div 64) % 2 /\ Bit(x, 7) = (x \div 128) % 2
  BY DEF Bit, Byte
<1>3. x = (x % 2) + 2 * ((x \div 2) % 2) + 4 * ((x \div 4) % 2) + 8 * ((x \div 8) % 2)
            + 16 * ((x \div 16) % 2) + 32 * ((x \div 32) % 2) + 64 * ((x \div 64) % 2)
            + 128 * ((x \div 128) % 2)
  BY DEF Byte
<1> HIDE DEF Bit
<1>4. And8(255, x) = x /\ And8(x, 255) = x
  BY <1>1, <1>2, <1>3 DEF And8, Byte
<1> QED
  BY <1>4 DEF Or8, Byte

\* A number of 32 bits, from the bytes it has.
HasBytes(x, first, second, third, fourth) ==
  x[1] = first /\ x[2] = second /\ x[3] = third /\ x[4] = fourth

LEMMA ShiftHasBytes ==
  ASSUME NEW i \in Sextet
  PROVE  /\ HasBytes(Shift32(i, 0), i, 0, 0, 0)
         /\ HasBytes(Shift32(i, 2), i * 4, 0, 0, 0)
         /\ HasBytes(Shift32(i, 8), 0, i, 0, 0)
         /\ HasBytes(Shift32(i, 16), 0, 0, i, 0)
         /\ HasBytes(Shift32(i, 6), (i % 4) * 64, i \div 4, 0, 0)
         /\ HasBytes(Shift32(i, 12), 0, (i % 16) * 16, i \div 16, 0)
         /\ HasBytes(Shift32(i, 22), 0, 0, (i % 4) * 64, i \div 4)
         /\ HasBytes(Shift32(i, 14), 0, (i % 4) * 64, i \div 4, 0)
         /\ HasBytes(Shift32(i, 20), 0, 0, (i % 16) * 16, i \div 16)
         /\ HasBytes(Shift32(i, 26), 0, 0, 0, i * 4)
<1>1. /\ i * 1 = i /\ i % 256 = i /\ i \div 256 = 0
      /\ (i * 4) % 256 = i * 4 /\ (i * 4) \div 256 = 0
      /\ (i * 64) % 256 = (i % 4) * 64 /\ (i * 64) \div 256 = i \div 4
      /\ (i * 16) % 256 = (i % 16) * 16 /\ (i * 16) \div 256 = i \div 16
  BY DEF Sextet
<1>2. HasBytes(Shift32(i, 0), i, 0, 0, 0)
  BY <1>1, SMTT(30) DEF HasBytes, Shift32, Sextet
<1>3. HasBytes(Shift32(i, 2), i * 4, 0, 0, 0)
  BY <1>1, SMTT(30) DEF HasBytes, Shift32, Sextet
<1>4. HasBytes(Shift32(i, 8), 0, i, 0, 0)
  BY <1>1, SMTT(30) DEF HasBytes, Shift32, Sextet
<1>5. HasBytes(Shift32(i, 16), 0, 0, i, 0)
  BY <1>1, SMTT(30) DEF HasBytes, Shift32, Sextet
<1>6. HasBytes(Shift32(i, 6), (i % 4) * 64, i \div 4, 0, 0)
  BY <1>1, SMTT(30) DEF HasBytes, Shift32, Sextet
<1>7. HasBytes(Shift32(i, 12), 0, (i % 16) * 16, i \div 16, 0)
  BY <1>1, SMTT(30) DEF HasBytes, Shift32, Sextet
<1>8. HasBytes(Shift32(i, 22), 0, 0, (i % 4) * 64, i \div 4)
  BY <1>1, SMTT(30) DEF HasBytes, Shift32, Sextet
<1>9. HasBytes(Shift32(i, 14), 0, (i % 4) * 64, i \div 4, 0)
  BY <1>1, SMTT(30) DEF HasBytes, Shift32, Sextet
<1>10. HasBytes(Shift32(i, 20), 0, 0, (i % 16) * 16, i \div 16)
  BY <1>1, SMTT(30) DEF HasBytes, Shift32, Sextet
<1>11. HasBytes(Shift32(i, 26), 0, 0, 0, i * 4)
  BY <1>1, SMTT(30) DEF HasBytes, Shift32, Sextet
<1> QED
  BY <1>2, <1>3, <1>4, <1>5, <1>6, <1>7, <1>8, <1>9, <1>10, <1>11

\* The entry of a value in each of the four tables.
LEMMA EntriesLe ==
  ASSUME NEW i \in Sextet
  PROVE  /\ HasBytes(Entry32("le", 0, i), i * 4, 0, 0, 0)
         /\ HasBytes(Entry32("le", 1, i), i \div 16, (i % 16) * 16, 0, 0)
         /\ HasBytes(Entry32("le", 2, i), 0, i \div 4, (i % 4) * 64, 0)
         /\ HasBytes(Entry32("le", 3, i), 0, 0, i, 0)
<1>1. /\ Entry32("le", 0, i) = Shift32(i, 2)
      /\ Entry32("le", 1, i) = Plus32(Shift32(i \div 16, 0), Shift32(i % 16, 12))
      /\ Entry32("le", 2, i) = Plus32(Shift32(i % 4, 22), Shift32(i - (i % 4), 6))
      /\ Entry32("le", 3, i) = Shift32(i, 16)
  BY DEF Entry32
<1>2. HasBytes(Shift32(i, 2), i * 4, 0, 0, 0) /\ HasBytes(Shift32(i, 16), 0, 0, i, 0)
  BY ShiftHasBytes
<1>3. HasBytes(Plus32(Shift32(i \div 16, 0), Shift32(i % 16, 12)),
               i \div 16, (i % 16) * 16, 0, 0)
  <2> DEFINE h == i \div 16
             l == i % 16
  <2>1. h \in Sextet /\ l \in Sextet /\ l % 16 = l /\ l \div 16 = 0
    BY DEF Sextet
  <2> HIDE DEF h, l
  <2>2. HasBytes(Shift32(h, 0), h, 0, 0, 0)
    BY <2>1, ShiftHasBytes
  <2>3. HasBytes(Shift32(l, 12), 0, (l % 16) * 16, l \div 16, 0)
    BY <2>1, ShiftHasBytes
  <2>4. HasBytes(Plus32(Shift32(h, 0), Shift32(l, 12)), h, l * 16, 0, 0)
    BY <2>1, <2>2, <2>3 DEF HasBytes, Plus32, Sextet
  <2> QED
    BY <2>4 DEF h, l
<1>4. HasBytes(Plus32(Shift32(i % 4, 22), Shift32(i - (i % 4), 6)),
               0, i \div 4, (i % 4) * 64, 0)
  <2> DEFINE l == i % 4
             m == i - (i % 4)
             q == i \div 4
  <2>1. l \in Sextet /\ m \in Sextet /\ l % 4 = l /\ l \div 4 = 0 /\ m % 4 = 0
        /\ m \div 4 = q /\ q \in Int
    BY DEF Sextet
  <2> HIDE DEF l, m, q
  <2>2. HasBytes(Shift32(l, 22), 0, 0, (l % 4) * 64, l \div 4)
    BY <2>1, ShiftHasBytes
  <2>3. HasBytes(Shift32(m, 6), (m % 4) * 64, m \div 4, 0, 0)
    BY <2>1, ShiftHasBytes
  <2>4. HasBytes(Plus32(Shift32(l, 22), Shift32(m, 6)), 0, q, l * 64, 0)
    BY <2>1, <2>2, <2>3 DEF HasBytes, Plus32, Sextet
  <2> QED
    BY <2>4 DEF l, m, q
<1> QED
  BY <1>1, <1>2, <1>3, <1>4

LEMMA EntriesBe ==
  ASSUME NEW i \in Sextet
  PROVE  /\ HasBytes(Entry32("be", 0, i), 0, 0, 0, i * 4)
         /\ HasBytes(Entry32("be", 1, i), 0, 0, (i % 16) * 16, i \div 16)
         /\ HasBytes(Entry32("be", 2, i), 0, (i % 4) * 64, i \div 4, 0)
         /\ HasBytes(Entry32("be", 3, i), 0, i, 0, 0)
<1>1. /\ Entry32("be", 0, i) = Shift32(i, 26)
      /\ Entry32("be", 1, i) = Shift32(i, 20)
      /\ Entry32("be", 2, i) = Shift32(i, 14)
      /\ Entry32("be", 3, i) = Shift32(i, 8)
  BY DEF Entry32
<1>2. /\ HasBytes(Shift32(i, 26), 0, 0, 0, i * 4)
      /\ HasBytes(Shift32(i, 20), 0, 0, (i % 16) * 16, i \div 16)
      /\ HasBytes(Shift32(i, 14), 0, (i % 4) * 64, i \div 4, 0)
      /\ HasBytes(Shift32(i, 8), 0, i, 0, 0)
  BY ShiftHasBytes
<1> QED
  BY <1>1, <1>2

\* The or of four bytes, as the loop forms it.
Or4(p, q, r, s) == Or8(Or8(p, q), Or8(r, s))

LEMMA OrOfFields ==
  ASSUME NEW a \in Sextet, NEW b \in Sextet, NEW c \in Sextet, NEW d \in Sextet
  PROVE  /\ Or4(0, 0, 0, 0) = 0
         /\ Or4(a * 4, b \div 16, 0, 0) = Byte1(a, b)
         /\ Or4(0, (b % 16) * 16, c \div 4, 0) = Byte2(b, c)
         /\ Or4(0, 0, (c % 4) * 64, d) = Byte3(c, d)
<1> DEFINE a4 == a * 4
           bh == b \div 16
           bl == (b % 16) * 16
           ch == c \div 4
           cl == (c % 4) * 64
<1>1. /\ a4 \in Byte /\ bh \in Byte /\ bl \in Byte /\ ch \in Byte /\ cl \in Byte
      /\ d \in Byte /\ 0 \in Byte
  BY DEF Sextet, Byte
<1>2. /\ a4 = (a * 4) % 256 /\ bl = (b * 16) % 256 /\ cl = (c * 64) % 256
  BY DEF Sextet
<1>3. /\ Or8((a * 4) % 256, b \div 16) = Byte1(a, b)
      /\ Or8((b * 16) % 256, c \div 4) = Byte2(b, c)
      /\ Or8((c * 64) % 256, d) = Byte3(c, d)
  BY OrHasBytes
<1>4. /\ Byte1(a, b) \in Byte /\ Byte3(c, d) \in Byte
  BY DEF Byte1, Byte3, Sextet, Byte
<1>5. /\ Or8(a4, bh) = Byte1(a, b) /\ Or8(bl, ch) = Byte2(b, c) /\ Or8(cl, d) = Byte3(c, d)
  BY <1>2, <1>3, Zenon
<1> HIDE DEF a4, bh, bl, ch, cl
<1>6. /\ Or8(0, 0) = 0 /\ Or8(0, bl) = bl /\ Or8(ch, 0) = ch
      /\ Or8(Byte1(a, b), 0) = Byte1(a, b) /\ Or8(0, Byte3(c, d)) = Byte3(c, d)
  BY <1>1, <1>4, OrNothing
<1>7. /\ Or4(0, 0, 0, 0) = 0
      /\ Or4(a4, bh, 0, 0) = Byte1(a, b)
      /\ Or4(0, bl, ch, 0) = Byte2(b, c)
      /\ Or4(0, 0, cl, d) = Byte3(c, d)
  BY <1>5, <1>6 DEF Or4
<1> QED
  BY <1>7 DEF a4, bh, bl, ch, cl

\* One marked byte marks the whole.
LEMMA OrOfMarks ==
  ASSUME NEW p \in {0, 255}, NEW q \in {0, 255}, NEW r \in {0, 255}, NEW s \in {0, 255}
  PROVE  Or4(p, q, r, s) = IF p = 0 /\ q = 0 /\ r = 0 /\ s = 0 THEN 0 ELSE 255
<1>1. ASSUME NEW x \in {0, 255}, NEW y \in {0, 255}
      PROVE  Or8(x, y) = IF x = 0 /\ y = 0 THEN 0 ELSE 255
  <2>1. x \in Byte /\ y \in Byte /\ 0 \in Byte
    BY DEF Byte
  <2>2. Or8(0, y) = y /\ Or8(255, y) = 255
    BY <2>1, OrNothing, OrAllOnes
  <2> QED
    BY <2>2
<1> DEFINE x == Or8(p, q)
           y == Or8(r, s)
<1>2. x = (IF p = 0 /\ q = 0 THEN 0 ELSE 255) /\ y = (IF r = 0 /\ s = 0 THEN 0 ELSE 255)
  BY <1>1
<1>3. Or4(p, q, r, s) = Or8(x, y)
  BY DEF Or4
<1> HIDE DEF x, y
<1>4. x \in {0, 255} /\ y \in {0, 255}
  BY <1>2
<1>5. Or8(x, y) = IF x = 0 /\ y = 0 THEN 0 ELSE 255
  BY <1>1, <1>4
<1> QED
  BY <1>2, <1>3, <1>5

\* The byte of the word that tells whether a character was invalid.
MarkAt(endian) == IF endian = "le" THEN 4 ELSE 1

LEMMA EntryMark ==
  ASSUME NEW endian \in Endians, NEW d \in 0..3, NEW c \in Byte
  PROVE  base64_table_dec_32bit(endian, d, c)[MarkAt(endian)] =
           IF base64_table_dec_8bit[c] \in Sextet THEN 0 ELSE 255
<1> DEFINE i == base64_table_dec_8bit[c]
           ones == <<255, 255, 255, 255>>
<1>1. MarkAt(endian) \in 1..4
  BY DEF MarkAt
<1>2. base64_table_dec_32bit(endian, d, c) = IF i \in Sextet THEN Entry32(endian, d, i) ELSE ones
  BY Zenon DEF base64_table_dec_32bit
<1>3. ones[MarkAt(endian)] = 255
  BY <1>1
<1>4. d = 0 \/ d = 1 \/ d = 2 \/ d = 3
  OBVIOUS
<1> HIDE DEF i, ones
<1>5. ASSUME i \in Sextet PROVE Entry32(endian, d, i)[MarkAt(endian)] = 0
  <2>1. CASE endian = "le"
    BY <1>4, <1>5, <2>1, EntriesLe DEF MarkAt, HasBytes
  <2>2. CASE endian = "be"
    <3>1. endian # "le"
      BY <2>2
    <3> QED
      BY <1>4, <1>5, <2>2, <3>1, EntriesBe DEF MarkAt, HasBytes
  <2> QED
    BY <2>1, <2>2 DEF Endians
<1> QED
  BY <1>2, <1>3, <1>5, Zenon DEF i

LEMMA WordAt ==
  ASSUME NEW endian, NEW in, NEW j \in 1..4
  PROVE  LET e(n) == base64_table_dec_32bit(endian, n, in[n + 1])
         IN WordByTables(endian, in)[j] = Or4(e(0)[j], e(1)[j], e(2)[j], e(3)[j])
BY DEF WordByTables, Or32, Or4

LEMMA WordTest ==
  ASSUME NEW endian \in Endians, NEW in, in \in [1..4 -> Byte]
  PROVE  AcceptsWord(endian, WordByTables(endian, in)) <=> AllInAlphabet(in, 4)
<1> DEFINE m == MarkAt(endian)
           w == WordByTables(endian, in)
           p == base64_table_dec_32bit(endian, 0, in[1])[m]
           q == base64_table_dec_32bit(endian, 1, in[2])[m]
           r == base64_table_dec_32bit(endian, 2, in[3])[m]
           s == base64_table_dec_32bit(endian, 3, in[4])[m]
           ok(k) == base64_table_dec_8bit[in[k]] \in Sextet
<1>1. m \in 1..4
  BY DEF MarkAt
<1>2. in[1] \in Byte /\ in[2] \in Byte /\ in[3] \in Byte /\ in[4] \in Byte
  OBVIOUS
<1>3. /\ p = IF ok(1) THEN 0 ELSE 255
      /\ q = IF ok(2) THEN 0 ELSE 255
      /\ r = IF ok(3) THEN 0 ELSE 255
      /\ s = IF ok(4) THEN 0 ELSE 255
  BY <1>2, EntryMark
<1>4. w[m] = Or4(p, q, r, s)
  BY <1>1, WordAt
<1>5. AllInAlphabet(in, 4) <=> ok(1) /\ ok(2) /\ ok(3) /\ ok(4)
  <2>1. \A k \in 1..4 : k = 1 \/ k = 2 \/ k = 3 \/ k = 4
    OBVIOUS
  <2>2. 1 \in 1..4 /\ 2 \in 1..4 /\ 3 \in 1..4 /\ 4 \in 1..4
    OBVIOUS
  <2> QED
    BY <2>1, <2>2, Zenon DEF AllInAlphabet
<1>6. AcceptsWord(endian, w) <=> IF endian = "le" THEN Bit(w[4], 7) = 0 ELSE Bit(w[1], 0) = 0
  BY DEF AcceptsWord
<1>7. (endian = "le" => m = 4) /\ (endian # "le" => m = 1)
  BY DEF MarkAt
<1> HIDE DEF m, w, p, q, r, s, ok
<1>8. p \in {0, 255} /\ q \in {0, 255} /\ r \in {0, 255} /\ s \in {0, 255}
  BY <1>3
<1>9. Or4(p, q, r, s) = IF p = 0 /\ q = 0 /\ r = 0 /\ s = 0 THEN 0 ELSE 255
  BY <1>8, OrOfMarks
<1>10. w[m] = IF ok(1) /\ ok(2) /\ ok(3) /\ ok(4) THEN 0 ELSE 255
  BY <1>3, <1>4, <1>9
<1>11. Bit(0, 7) = 0 /\ Bit(0, 0) = 0 /\ Bit(255, 7) = 1 /\ Bit(255, 0) = 1
  BY DEF Bit
<1>12. ASSUME ok(1) /\ ok(2) /\ ok(3) /\ ok(4)
       PROVE  AcceptsWord(endian, w) <=> AllInAlphabet(in, 4)
  BY <1>5, <1>6, <1>7, <1>10, <1>11, <1>12
<1>13. ASSUME ~ (ok(1) /\ ok(2) /\ ok(3) /\ ok(4))
       PROVE  AcceptsWord(endian, w) <=> AllInAlphabet(in, 4)
  BY <1>5, <1>6, <1>7, <1>10, <1>11, <1>13
<1> QED
  BY <1>12, <1>13 DEF w

LEMMA WordHasBytes ==
  ASSUME NEW endian \in Endians, NEW in, in \in [1..4 -> Byte], AllInAlphabet(in, 4)
  PROVE  LET v == ClassesOf(in, 4)
             m == Memory(endian, WordByTables(endian, in))
         IN HasBytes(m, Byte1(v[1], v[2]), Byte2(v[2], v[3]), Byte3(v[3], v[4]), 0)
<1> DEFINE a == base64_table_dec_8bit[in[1]]
           b == base64_table_dec_8bit[in[2]]
           c == base64_table_dec_8bit[in[3]]
           d == base64_table_dec_8bit[in[4]]
           v == ClassesOf(in, 4)
           w == WordByTables(endian, in)
           e(n) == base64_table_dec_32bit(endian, n, in[n + 1])
<1>1. a \in Sextet /\ b \in Sextet /\ c \in Sextet /\ d \in Sextet
  BY DEF AllInAlphabet
<1>2. v[1] = a /\ v[2] = b /\ v[3] = c /\ v[4] = d
  BY DEF ClassesOf
<1>3. /\ e(0) = Entry32(endian, 0, a) /\ e(1) = Entry32(endian, 1, b)
      /\ e(2) = Entry32(endian, 2, c) /\ e(3) = Entry32(endian, 3, d)
  BY <1>1 DEF base64_table_dec_32bit
<1>4. \A j \in 1..4 : w[j] = Or4(e(0)[j], e(1)[j], e(2)[j], e(3)[j])
  BY WordAt
<1>5. Len(w) = 4
  BY DEF WordByTables, Or32
<1> HIDE DEF a, b, c, d, w, e, v
<1>6. /\ Or4(0, 0, 0, 0) = 0
      /\ Or4(a * 4, b \div 16, 0, 0) = Byte1(a, b)
      /\ Or4(0, (b % 16) * 16, c \div 4, 0) = Byte2(b, c)
      /\ Or4(0, 0, (c % 4) * 64, d) = Byte3(c, d)
  BY <1>1, OrOfFields
<1>7. HasBytes(Memory(endian, w), Byte1(a, b), Byte2(b, c), Byte3(c, d), 0)
  <2>1. CASE endian = "le"
    <3>1. /\ HasBytes(e(0), a * 4, 0, 0, 0)
          /\ HasBytes(e(1), b \div 16, (b % 16) * 16, 0, 0)
          /\ HasBytes(e(2), 0, c \div 4, (c % 4) * 64, 0)
          /\ HasBytes(e(3), 0, 0, d, 0)
      BY <1>1, <1>3, <2>1, EntriesLe
    <3>2. HasBytes(w, Byte1(a, b), Byte2(b, c), Byte3(c, d), 0)
      BY <1>4, <1>6, <3>1 DEF HasBytes
    <3> QED
      BY <2>1, <3>2 DEF Memory
  <2>2. CASE endian = "be"
    <3>1. /\ HasBytes(e(0), 0, 0, 0, a * 4)
          /\ HasBytes(e(1), 0, 0, (b % 16) * 16, b \div 16)
          /\ HasBytes(e(2), 0, (c % 4) * 64, c \div 4, 0)
          /\ HasBytes(e(3), 0, d, 0, 0)
      BY <1>1, <1>3, <2>2, EntriesBe
    <3>2. HasBytes(w, 0, Byte3(c, d), Byte2(b, c), Byte1(a, b))
      BY <1>4, <1>6, <3>1 DEF HasBytes
    <3>3. endian # "le"
      BY <2>2
    <3>4. Memory(endian, w) = [j \in 1..4 |-> w[4 + 1 - j]]
      BY <1>5, <3>3 DEF Memory
    <3> QED
      BY <3>2, <3>4 DEF HasBytes
  <2> QED
    BY <2>1, <2>2 DEF Endians
<1> QED
  BY <1>2, <1>7 DEF w, v

LEMMA WordIsBytes ==
  ASSUME NEW endian \in Endians, NEW in, in \in [1..4 -> Byte], AllInAlphabet(in, 4)
  PROVE  Memory(endian, WordByTables(endian, in)) = BytesOf(ClassesOf(in, 4), 1, 4)
<1> DEFINE v == ClassesOf(in, 4)
           w == WordByTables(endian, in)
           m == Memory(endian, w)
<1>1. HasBytes(m, Byte1(v[1], v[2]), Byte2(v[2], v[3]), Byte3(v[3], v[4]), 0)
  BY WordHasBytes, Zenon
<1>2. m = [j \in 1..4 |-> m[j]]
  <2>1. w = [j \in 1..4 |-> w[j]] /\ Len(w) = 4
    BY DEF WordByTables, Or32
  <2> HIDE DEF w
  <2>2. m = IF endian = "le" THEN w ELSE [j \in 1..4 |-> w[4 + 1 - j]]
    BY <2>1, Zenon DEF Memory
  <2> HIDE DEF m
  <2>3. CASE endian = "le"
    BY <2>1, <2>2, <2>3, Zenon
  <2>4. CASE endian # "le"
    BY <2>2, <2>4
  <2> QED
    BY <2>3, <2>4
<1> HIDE DEF v, w, m
<1>3. /\ DecByte(v, 1) = Byte1(v[1], v[2])
      /\ DecByte(v, 2) = Byte2(v[2], v[3])
      /\ DecByte(v, 3) = Byte3(v[3], v[4])
  BY DEF DecByte, Byte1, Byte2, Byte3
<1>4. ASSUME NEW j \in 1..4 PROVE m[j] = IF j <= 3 * 1 THEN DecByte(v, j) ELSE 0
  <2>1. j = 1 \/ j = 2 \/ j = 3 \/ j = 4
    OBVIOUS
  <2> QED
    BY <1>1, <1>3, <2>1 DEF HasBytes
<1> QED
  BY <1>2, <1>4, Zenon DEF BytesOf, v, w, m

-----------------------------------------------------------------------------
(* Decoding: a whole round.                                                *)

LEMMA ClassesAreValues ==
  ASSUME NEW n \in Nat, NEW in, AllInAlphabet(in, n)
  PROVE  ClassesOf(in, n) \in [1..n -> Sextet]
BY DEF AllInAlphabet, ClassesOf

DecodesBlock(isa, in, block, store) ==
  LET v == Values(isa, in)
  IN /\ AcceptsAll(isa, in, v) <=> AllInAlphabet(in, block)
     /\ AllInAlphabet(in, block) =>
          Pack(isa, v) = BytesOf(ClassesOf(in, block), block \div 4, store)

LEMMA DecodesSSSE3 ==
  ASSUME NEW in, in \in [1..16 -> Byte]
  PROVE  DecodesBlock("ssse3", in, 16, 16)
<1>1. 16 \in Nat /\ 16 % 4 = 0 /\ 16 \div 4 = 4
  OBVIOUS
<1>2. AcceptsByNibbles(in) <=> AllInAlphabet(in, 16)
  BY <1>1, NibbleTest
<1>3. ASSUME AllInAlphabet(in, 16)
      PROVE  dec_reshuffle_ssse3(ValuesByRoll(in)) = BytesOf(ClassesOf(in, 16), 4, 16)
  <2>1. ValuesByRoll(in) = ClassesOf(in, 16)
    BY <1>1, <1>3, RollValues
  <2>2. ClassesOf(in, 16) \in [1..16 -> Sextet]
    BY <1>1, <1>3, ClassesAreValues
  <2> QED
    BY <2>1, <2>2, PackSSSE3
<1>4. /\ Values("ssse3", in) = ValuesByRoll(in)
      /\ AcceptsAll("ssse3", in, Values("ssse3", in)) <=> AcceptsByNibbles(in)
      /\ Pack("ssse3", Values("ssse3", in)) = dec_reshuffle_ssse3(Values("ssse3", in))
  BY DEF Values, AcceptsAll, Pack
<1> QED
  BY <1>1, <1>2, <1>3, <1>4, Zenon DEF DecodesBlock

LEMMA DecodesAVX2 ==
  ASSUME NEW in, in \in [1..32 -> Byte]
  PROVE  DecodesBlock("avx2", in, 32, 32)
<1>1. 32 \in Nat /\ 32 % 4 = 0 /\ 32 \div 4 = 8
  OBVIOUS
<1>2. AcceptsByNibbles(in) <=> AllInAlphabet(in, 32)
  BY <1>1, NibbleTest
<1>3. ASSUME AllInAlphabet(in, 32)
      PROVE  dec_reshuffle_avx2(ValuesByRoll(in)) = BytesOf(ClassesOf(in, 32), 8, 32)
  <2>1. ValuesByRoll(in) = ClassesOf(in, 32)
    BY <1>1, <1>3, RollValues
  <2>2. ClassesOf(in, 32) \in [1..32 -> Sextet]
    BY <1>1, <1>3, ClassesAreValues
  <2> QED
    BY <2>1, <2>2, PackAVX2
<1>4. /\ Values("avx2", in) = ValuesByRoll(in)
      /\ AcceptsAll("avx2", in, Values("avx2", in)) <=> AcceptsByNibbles(in)
      /\ Pack("avx2", Values("avx2", in)) = dec_reshuffle_avx2(Values("avx2", in))
  BY DEF Values, AcceptsAll, Pack
<1> QED
  BY <1>1, <1>2, <1>3, <1>4, Zenon DEF DecodesBlock

LEMMA DecodesNeon ==
  ASSUME NEW isa \in {"neon32", "neon64"}, NEW in, in \in [1..64 -> Byte]
  PROVE  DecodesBlock(isa, in, 64, 48)
<1> DEFINE v == Values(isa, in)
<1>1. 64 \in Nat /\ 64 \div 4 = 16 /\ 3 * 16 = 48 /\ 16 \in Nat /\ 4 * 16 = 64
  OBVIOUS
<1>2. /\ AcceptsAll(isa, in, v) <=> AllInAlphabet(in, 64)
      /\ AllInAlphabet(in, 64) => v = ClassesOf(in, 64)
  <2>1. CASE isa = "neon32"
    <3>1. AcceptsByNibbles32(in) <=> AllInAlphabet(in, 64)
      BY <1>1, NibbleTest32, ZenonT(30)
    <3>2. AllInAlphabet(in, 64) => ValuesByDelta(in) = ClassesOf(in, 64)
      BY <1>1, DeltaValues, ZenonT(30)
    <3> QED
      BY <2>1, <3>1, <3>2 DEF Values, AcceptsAll
  <2>2. CASE isa = "neon64"
    <3>1. /\ AcceptsSmall(ValuesByTables(in)) <=> AllInAlphabet(in, 64)
          /\ AllInAlphabet(in, 64) => ValuesByTables(in) = ClassesOf(in, 64)
      BY <1>1, TableTest, ZenonT(30)
    <3> QED
      BY <2>2, <3>1 DEF Values, AcceptsAll
  <2> QED
    BY <2>1, <2>2
<1>3. Pack(isa, v) = PackNeon(v)
  BY DEF Pack
<1> HIDE DEF v
<1>4. ASSUME AllInAlphabet(in, 64)
      PROVE  PackNeon(v) = BytesOf(ClassesOf(in, 64), 16, 48)
  <2> DEFINE w == ClassesOf(in, 64)
  <2>1. w \in [1..64 -> Sextet]
    BY <1>1, <1>4, ClassesAreValues, ZenonT(30)
  <2> HIDE DEF w
  <2>2. PackNeon(w) = BytesOf(w, 16, 3 * 16)
    BY <1>1, <2>1, PackInterleaved, ZenonT(30)
  <2> QED
    BY <1>1, <1>2, <1>4, <2>2, Zenon DEF w
<1> QED
  BY <1>1, <1>2, <1>3, <1>4, Zenon DEF DecodesBlock, v

LEMMA DecodesWord ==
  ASSUME NEW isa \in {"32le", "32be"}, NEW in, in \in [1..4 -> Byte]
  PROVE  DecodesBlock(isa, in, 4, 4)
<1> DEFINE endian == IF isa = "32le" THEN "le" ELSE "be"
           w == WordByTables(endian, in)
<1>1. endian \in Endians
  BY DEF Endians
<1>2. AcceptsWord(endian, w) <=> AllInAlphabet(in, 4)
  BY <1>1, WordTest
<1>3. AllInAlphabet(in, 4) => Memory(endian, w) = BytesOf(ClassesOf(in, 4), 1, 4)
  BY <1>1, WordIsBytes
<1>4. /\ Values(isa, in) = w
      /\ AcceptsAll(isa, in, Values(isa, in)) <=> AcceptsWord(endian, Values(isa, in))
      /\ Pack(isa, Values(isa, in)) = Memory(endian, Values(isa, in))
  BY DEF Values, AcceptsAll, Pack
<1>5. 4 \div 4 = 1
  OBVIOUS
<1> QED
  BY <1>2, <1>3, <1>4, <1>5, Zenon DEF DecodesBlock

\* The bulk loop of each instruction set.
DecLoopOf(isa) ==
  CASE isa = "ssse3"  -> dec_loop_ssse3
    [] isa = "avx2"   -> dec_loop_avx2
    [] isa = "neon32" -> dec_loop_neon32
    [] isa = "neon64" -> dec_loop_neon64
    [] isa \in {"32le", "32be"} -> dec_loop_generic_32

\* Whatever characters a decoding round loads, it goes on exactly if each of them
\* is in the alphabet, and then stores the bytes that the bytewise code would have
\* written for them, followed by zeros up to the size of the store.  So the nibble
\* tables of x86 and neon32, the two tables of neon64 and the marker bits of the
\* plain loop accept the same characters as base64_table_dec_8bit.
THEOREM DecodeRound ==
  ASSUME NEW isa \in {"ssse3", "avx2", "neon32", "neon64", "32le", "32be"},
         NEW in \in [1 .. DecLoopOf(isa).block -> Byte]
  PROVE  DecodesBlock(isa, in, DecLoopOf(isa).block, DecLoopOf(isa).store)
<1>1. CASE isa = "ssse3"
  <2>1. DecLoopOf(isa).block = 16 /\ DecLoopOf(isa).store = 16
    BY <1>1 DEF DecLoopOf, dec_loop_ssse3, DecLoop
  <2> QED
    BY <1>1, <2>1, DecodesSSSE3
<1>2. CASE isa = "avx2"
  <2>1. DecLoopOf(isa).block = 32 /\ DecLoopOf(isa).store = 32
    BY <1>2 DEF DecLoopOf, dec_loop_avx2, DecLoop
  <2> QED
    BY <1>2, <2>1, DecodesAVX2
<1>3. CASE isa \in {"neon32", "neon64"}
  <2>1. DecLoopOf(isa).block = 64 /\ DecLoopOf(isa).store = 48
    BY <1>3 DEF DecLoopOf, dec_loop_neon32, dec_loop_neon64, DecLoop
  <2> QED
    BY <1>3, <2>1, DecodesNeon
<1>4. CASE isa \in {"32le", "32be"}
  <2>1. DecLoopOf(isa).block = 4 /\ DecLoopOf(isa).store = 4
    BY <1>4 DEF DecLoopOf, dec_loop_generic_32, DecLoop
  <2> QED
    BY <1>4, <2>1, DecodesWord
<1> QED
  BY <1>1, <1>2, <1>3, <1>4
=============================================================================
