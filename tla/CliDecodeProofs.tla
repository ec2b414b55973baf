--------------------------- MODULE CliDecodeProofs --------------------------
(***************************************************************************)
(* For every input and every size of the buffer, wherever fread comes up   *)
(* short and whatever write does: stdout of the decoding tool is a         *)
(* beginning of the decoding of the stripped text, and the exit code tells *)
(* the verdict on it.                                                      *)
(***************************************************************************)
EXTENDS CliDecode, Base64Proofs, FiniteSetTheorems, SequenceTheorems, TLAPS

-----------------------------------------------------------------------------
(* A set of numbers that has 0 and, with each number below n, its successor *)
(* has n: else one could take one from each number it lacks, which maps     *)
(* these numbers into themselves but for n.                                 *)

LEMMA UpTo ==
  ASSUME NEW S, NEW n \in Nat, 0 \in S, \A k \in 0 .. n - 1 : k \in S => k + 1 \in S
  PROVE  n \in S
<1> SUFFICES ASSUME n \notin S PROVE FALSE
  OBVIOUS
<1> DEFINE V == {y \in 0..n : y \notin S}
           f == [y \in V |-> y - 1]
<1>1. IsFiniteSet(V) /\ n \in V
  <2>1. IsFiniteSet(0..n)
    BY FS_Interval
  <2> QED
    BY <2>1, FS_Subset
<1>2. /\ IsFiniteSet(V \ {n})
      /\ Cardinality(V \ {n}) = Cardinality(V) - 1 /\ Cardinality(V) \in Nat
  BY <1>1, FS_RemoveElement, FS_CardinalityType
<1>3. ASSUME NEW y \in V PROVE y - 1 \in V \ {n}
  <2>1. y \in 0..n /\ y \notin S /\ y # 0
    BY <1>3
  <2>2. y - 1 \in 0 .. n - 1 /\ (y - 1) + 1 = y
    BY <2>1
  <2>3. y - 1 \notin S
    BY <2>1, <2>2
  <2> QED
    BY <2>2, <2>3
<1>4. \A y \in V : y \in Int
  OBVIOUS
<1> HIDE DEF V
<1>5. f \in Injection(V, V \ {n})
  <2>1. f \in [V -> V \ {n}]
    BY <1>3
  <2>2. \A x, y \in V : f[x] = f[y] => x = y
    BY <1>4
  <2> QED
    BY <2>1, <2>2 DEF Injection, IsInjective
<1> QED
  BY <1>1, <1>2, <1>5, FS_Injection

\* A set of numbers up to n that is not empty has a least one.
LEMMA LeastExists ==
  ASSUME NEW n \in Nat, NEW S \in SUBSET (0..n), S # {}
  PROVE  \E m \in S : \A k \in 0 .. m - 1 : k \notin S
<1> SUFFICES ASSUME \A m \in S : \E k \in 0 .. m - 1 : k \in S PROVE FALSE
  OBVIOUS
<1> DEFINE T == {x \in Nat : \A y \in 0..x : y \notin S}
<1>1. 0 \in T
  <2>1. 0 \notin S
    BY 0 .. 0 - 1 = {}
  <2> QED
    BY <2>1
<1>2. ASSUME NEW k \in 0 .. n - 1, k \in T PROVE k + 1 \in T
  <2>1. \A y \in 0..k : y \notin S
    BY <1>2
  <2>2. k + 1 \notin S
    <3> SUFFICES ASSUME k + 1 \in S PROVE FALSE
      OBVIOUS
    <3>1. \E y \in 0 .. (k + 1) - 1 : y \in S
      OBVIOUS
    <3> QED
      BY <2>1, <3>1
  <2>3. \A y \in 0 .. k + 1 : y \in 0..k \/ y = k + 1
    OBVIOUS
  <2> QED
    BY <2>1, <2>2, <2>3
<1> HIDE DEF T
<1>3. n \in T
  BY <1>1, <1>2, UpTo
<1> QED
  BY <1>3 DEF T

\* Every text begins with some number of data characters.
LEMMA PrefixExists ==
  ASSUME NEW c, NEW n \in Nat
  PROVE  \E d \in 0..n : DataPrefix(c, n, d)
<1> DEFINE S == {d \in 0..n : d < n => c[d + 1] \notin Sextet}
<1>1. S \in SUBSET (0..n) /\ n \in S
  OBVIOUS
<1>2. PICK d \in S : \A k \in 0 .. d - 1 : k \notin S
  <2> HIDE DEF S
  <2> QED
    BY <1>1, LeastExists
<1>3. ASSUME NEW i \in 1..d PROVE c[i] \in Sextet
  <2>1. i - 1 \in 0 .. d - 1 /\ i - 1 \in 0..n /\ (i - 1) + 1 = i
    BY <1>1
  <2> QED
    BY <1>2, <2>1
<1> QED
  BY <1>3 DEF DataPrefix

-----------------------------------------------------------------------------
(* Which characters are kept.                                              *)

LEMMA CountType ==
  ASSUME NEW n \in Nat
  PROVE  IsFiniteSet(KeptAt(n)) /\ KeptCount(n) \in Nat
<1>1. IsFiniteSet(1..n) /\ KeptAt(n) \subseteq 1..n
  BY FS_Interval DEF KeptAt
<1> QED
  BY <1>1, FS_Subset, FS_CardinalityType DEF KeptCount

LEMMA CountNothing == KeptCount(0) = 0
BY FS_EmptySet, 1..0 = {} DEF KeptCount, KeptAt

\* A character that is not kept does not count.
LEMMA CountSkips ==
  ASSUME NEW n \in Nat, ~ Kept(input[n + 1])
  PROVE  KeptCount(n + 1) = KeptCount(n)
<1>1. KeptAt(n + 1) = KeptAt(n)
  BY DEF KeptAt
<1> QED
  BY <1>1 DEF KeptCount

\* A run of kept characters counts in full.
LEMMA CountRun ==
  ASSUME NEW n \in Nat, NEW m \in Nat, \A i \in 1..m : Kept(input[n + i])
  PROVE  KeptCount(n + m) = KeptCount(n) + m
<1> DEFINE R == n + 1 .. n + m
<1>1. KeptAt(n + m) = KeptAt(n) \cup R
  <2>1. ASSUME NEW j \in R PROVE Kept(input[j])
    <3>1. j - n \in 1..m /\ n + (j - n) = j
      OBVIOUS
    <3> QED
      BY <3>1
  <2> HIDE DEF Kept
  <2> QED
    BY <2>1 DEF KeptAt
<1>2. IsFiniteSet(R) /\ Cardinality(R) = m
  <2>1. IsFiniteSet(R) /\ Cardinality(R) = IF n + 1 > n + m THEN 0 ELSE (n + m) - (n + 1) + 1
    BY FS_Interval
  <2> QED
    BY <2>1
<1>3. KeptAt(n) \cap R = {}
  BY DEF KeptAt
<1>4. Cardinality(KeptAt(n) \cup R) =
        Cardinality(KeptAt(n)) + Cardinality(R) - Cardinality(KeptAt(n) \cap R)
  BY <1>2, CountType, FS_Union
<1>5. Cardinality(KeptAt(n) \cap R) = 0
  BY <1>3, FS_EmptySet
<1>6. KeptCount(n) \in Nat /\ KeptCount(n + m) = Cardinality(KeptAt(n) \cup R)
  BY <1>1, CountType DEF KeptCount
<1> HIDE DEF R
<1> QED
  BY <1>2, <1>4, <1>5, <1>6 DEF KeptCount

LEMMA CountGrows ==
  ASSUME NEW n \in Nat, NEW m \in Nat, n <= m
  PROVE  KeptCount(n) <= KeptCount(m)
<1>1. KeptAt(n) \subseteq KeptAt(m)
  BY DEF KeptAt
<1> QED
  BY <1>1, CountType, FS_Subset DEF KeptCount

\* Character j, if it is kept, is the one that the stripped text has at the
\* place that counts the kept characters up to j.
LEMMA StrippedAt ==
  ASSUME NEW j \in 1 .. Len(input), Len(input) \in Nat, Kept(input[j])
  PROVE  /\ KeptCount(j) \in 1 .. KeptCount(Len(input))
         /\ Stripped[KeptCount(j)] = Class(input[j])
<1>1. ASSUME NEW x \in Nat, NEW y \in Nat, 0 < y, x < y, Kept(input[y])
      PROVE  KeptCount(x) < KeptCount(y)
  <2>1. KeptCount((y - 1) + 1) = KeptCount(y - 1) + 1
    <3>1. y - 1 \in Nat /\ \A i \in 1..1 : (y - 1) + i = y
      BY <1>1
    <3> HIDE DEF Kept
    <3> QED
      BY <1>1, <3>1, CountRun
  <2>2. KeptCount(x) <= KeptCount(y - 1)
    BY <1>1, CountGrows
  <2>3. (y - 1) + 1 = y
    BY <1>1
  <2> QED
    BY <1>1, <2>1, <2>2, <2>3, CountType
<1>2. KeptCount(j) \in 1 .. KeptCount(Len(input))
  <2>1. KeptCount(0) < KeptCount(j)
    BY <1>1
  <2> QED
    BY <2>1, CountNothing, CountType, CountGrows
<1>3. j \in KeptAt(Len(input))
  BY DEF KeptAt
<1>4. ASSUME NEW i \in KeptAt(Len(input)), KeptCount(i) = KeptCount(j) PROVE i = j
  <2>1. i \in Nat /\ 0 < i /\ Kept(input[i])
    BY DEF KeptAt
  <2>2. KeptCount(i) \in Nat /\ KeptCount(j) \in Nat
    BY <2>1, CountType
  <2>3. ~ i < j
    <3>1. i < j => KeptCount(i) < KeptCount(j)
      BY <1>1, <2>1
    <3> QED
      BY <1>4, <2>2, <3>1
  <2>4. ~ j < i
    <3>1. j < i => KeptCount(j) < KeptCount(i)
      BY <1>1, <2>1
    <3> QED
      BY <1>4, <2>2, <3>1
  <2> QED
    BY <2>1, <2>3, <2>4
<1>5. Nth(KeptCount(j)) = j
  BY <1>3, <1>4 DEF Nth
<1> QED
  BY <1>2, <1>5 DEF Stripped

-----------------------------------------------------------------------------
(* The stripped text, the run that comes next, and the initial states.     *)

LEMMA InputType ==
  ASSUME TypeOK
  PROVE  /\ input \in Seq(Symbol) /\ Len(input) \in Nat
         /\ \A i \in 1..Len(input) : input[i] \in Symbol /\ Class(input[i]) \in Char
BY CliAssumption DEF TypeOK, Symbol, Class, Char, Bad

LEMMA StrippedType ==
  ASSUME TypeOK
  PROVE  /\ KeptCount(Len(input)) \in Nat
         /\ Len(Stripped) = KeptCount(Len(input))
<1>1. KeptCount(Len(input)) \in Nat
  BY InputType, CountType
<1> QED
  BY <1>1 DEF Stripped

LEMMA RunIs ==
  ASSUME start \in Nat, avail \in Nat
  PROVE  /\ RunLength \in 0..avail
         /\ \A i \in 1..RunLength : Kept(input[start + i])
         /\ RunLength < avail => ~ Kept(input[start + RunLength + 1])
<1> DEFINE S == {n \in 0..avail : n < avail => ~ Kept(input[start + n + 1])}
           Cut(n) == /\ \A i \in 1..n : Kept(input[start + i])
                     /\ n < avail => ~ Kept(input[start + n + 1])
<1> HIDE DEF Kept
<1>1. S \in SUBSET (0..avail) /\ avail \in S
  OBVIOUS
<1>2. PICK m \in S : \A k \in 0 .. m - 1 : k \notin S
  <2> HIDE DEF S
  <2> QED
    BY <1>1, LeastExists
<1>3. ASSUME NEW i \in 1..m PROVE Kept(input[start + i])
  <2>1. i - 1 \in 0 .. m - 1 /\ i - 1 \in 0..avail /\ i - 1 < avail
    BY <1>1
  <2>2. Kept(input[start + (i - 1) + 1])
    BY <1>2, <2>1
  <2>3. start + (i - 1) + 1 = start + i
    OBVIOUS
  <2> QED
    BY <2>2, <2>3
<1>4. m \in 0..avail /\ Cut(m)
  BY <1>3
<1>5. RunLength = CHOOSE n \in 0..avail : Cut(n)
  BY DEF RunLength
<1> HIDE DEF Cut
<1>6. RunLength \in 0..avail /\ Cut(RunLength)
  BY <1>4, <1>5
<1> QED
  BY <1>6 DEF Cut

LEMMA InitInv == Init => IndInv
<1> SUFFICES ASSUME Init PROVE IndInv
  OBVIOUS
<1>1. TypeOK
  <2>1. fed \in Seq(Char) /\ stdout \in Seq(Byte)
    BY DEF Init
  <2>2. ferror \in BOOLEAN
    BY DEF Init
  <2> QED
    BY <2>1, <2>2 DEF Init, TypeOK
<1>2. BufferInv
  <2>1. Len(input) \in Nat
    BY <1>1, InputType
  <2> QED
    BY <2>1 DEF Init, BufferInv, Running
<1>3. Len(fed) = 0 /\ Seen = 0 /\ stdout = <<>> /\ fed = <<>>
  BY DEF Init, Seen
<1>4. DataPrefix(fed, 0, 0)
  BY DEF DataPrefix
<1>5. Viable(fed, 0)
  BY <1>4, 0 \in 0..0 DEF Viable
<1>6. FedInv
  BY <1>3, <1>5, CountNothing DEF FedInv
<1>7. Len(Decoded(fed, 0)) = 0
  <2>1. Decoded(fed, 0) = [i \in 1 .. DecPrefixLen(0) |-> DecByte(fed, i)]
    BY <1>4, 0 \in 0..0, DecodedAt
  <2>2. DecPrefixLen(0) = 0
    BY DEF DecPrefixLen
  <2> QED
    BY <2>1, <2>2
<1>8. OutInv
  BY <1>3, <1>7 DEF OutInv, Init
<1>9. VerdictInv
  BY DEF VerdictInv, Init, Running
<1> QED
  BY <1>1, <1>2, <1>6, <1>8, <1>9 DEF IndInv

-----------------------------------------------------------------------------
(* More characters only add to a decoding.                                 *)

LEMMA DecodedType ==
  ASSUME NEW c, NEW n \in Nat
  PROVE  Decoded(c, n) \in Seq(Byte) /\ Len(Decoded(c, n)) \in Nat
<1>1. PICK d \in 0..n : DataPrefix(c, n, d)
  BY PrefixExists
<1>2. Decoded(c, n) = [i \in 1 .. DecPrefixLen(d) |-> DecByte(c, i)]
  BY <1>1, DecodedAt
<1>3. DecPrefixLen(d) \in Nat
  BY DEF DecPrefixLen
<1>4. ASSUME NEW i \in 1 .. DecPrefixLen(d) PROVE DecByte(c, i) \in Byte
  <2> DEFINE g == (i - 1) \div 3
  <2>1. i \in Nat /\ g \in Nat /\ (i - 1) \div 3 = g /\ (i - 1) % 3 \in 0..2
    BY <1>3
  <2>2. /\ 4 * g + 1 \in 1..d /\ 4 * g + 2 \in 1..d
        /\ (i - 1) % 3 = 1 => 4 * g + 3 \in 1..d
        /\ (i - 1) % 3 = 2 => 4 * g + 3 \in 1..d /\ 4 * g + 4 \in 1..d
    BY DEF DecPrefixLen
  <2> HIDE DEF g
  <2>3. /\ c[4 * g + 1] \in Sextet /\ c[4 * g + 2] \in Sextet
        /\ (i - 1) % 3 = 1 => c[4 * g + 3] \in Sextet
        /\ (i - 1) % 3 = 2 => c[4 * g + 3] \in Sextet /\ c[4 * g + 4] \in Sextet
    BY <1>1, <2>2 DEF DataPrefix
  <2>4. /\ \A x, y \in Sextet : x * 4 + (y \div 16) \in Byte
        /\ \A x, y \in Sextet : (x % 16) * 16 + (y \div 4) \in Byte
        /\ \A x, y \in Sextet : (x % 4) * 64 + y \in Byte
    <3>1. \A x, y \in Sextet : x * 4 + (y \div 16) \in Byte
      BY ONLY SMTT(30) DEF Sextet, Byte
    <3>2. \A x, y \in Sextet : (x % 16) * 16 + (y \div 4) \in Byte
      BY ONLY SMTT(30) DEF Sextet, Byte
    <3>3. \A x, y \in Sextet : (x % 4) * 64 + y \in Byte
      BY ONLY SMTT(30) DEF Sextet, Byte
    <3> QED
      BY <3>1, <3>2, <3>3, Zenon
  <2>5. CASE (i - 1) % 3 = 0
    BY <2>1, <2>3, <2>4, <2>5, DecByteAt
  <2>6. CASE (i - 1) % 3 = 1
    BY <2>1, <2>3, <2>4, <2>6, DecByteAt
  <2>7. CASE (i - 1) % 3 = 2
    BY <2>1, <2>3, <2>4, <2>7, DecByteAt
  <2> QED
    BY <2>1, <2>5, <2>6, <2>7
<1> QED
  BY <1>2, <1>3, <1>4

LEMMA DecodedGrows ==
  ASSUME NEW c, NEW e, NEW n \in Nat, NEW m \in Nat, n <= m,
         \A j \in 1..n : c[j] = e[j]
  PROVE  /\ Len(Decoded(c, n)) <= Len(Decoded(e, m))
         /\ \A i \in 1 .. Len(Decoded(c, n)) : Decoded(c, n)[i] = Decoded(e, m)[i]
<1>1. PICK d \in 0..n : DataPrefix(c, n, d)
  BY PrefixExists
<1>2. PICK x \in 0..m : DataPrefix(e, m, x)
  BY PrefixExists
<1>3. d <= x
  <2> SUFFICES ASSUME x < d PROVE FALSE
    OBVIOUS
  <2>1. x + 1 \in 1..d /\ x + 1 \in 1..n /\ x < m
    OBVIOUS
  <2> QED
    BY <1>1, <1>2, <2>1 DEF DataPrefix
<1>4. DecPrefixLen(d) \in Nat /\ DecPrefixLen(x) \in Nat /\ DecPrefixLen(d) <= DecPrefixLen(x)
  BY <1>3 DEF DecPrefixLen
<1>5. /\ Decoded(c, n) = [i \in 1 .. DecPrefixLen(d) |-> DecByte(c, i)]
      /\ Decoded(e, m) = [i \in 1 .. DecPrefixLen(x) |-> DecByte(e, i)]
  BY <1>1, <1>2, DecodedAt
<1>6. \A i \in 1 .. DecPrefixLen(d) : DecByte(c, i) = DecByte(e, i)
  <2>1. d \in Nat /\ \A j \in 1..d : c[j] = e[j]
    OBVIOUS
  <2> QED
    BY <2>1, DecByteLocal
<1> QED
  BY <1>4, <1>5, <1>6

\* Whether characters begin a text depends on no others.
LEMMA ViableLocal ==
  ASSUME NEW c, NEW e, NEW n \in Nat, \A j \in 1..n : c[j] = e[j], Viable(c, n)
  PROVE  Viable(e, n)
<1>1. PICK d \in 0..n : DataPrefix(c, n, d) /\ PadsRight(c, n, d)
  BY DEF Viable, PadsRight
<1>2. DataPrefix(e, n, d) /\ PadsRight(e, n, d)
  BY <1>1 DEF DataPrefix, PadsRight
<1> QED
  BY <1>2, ViableAt

-----------------------------------------------------------------------------
(* What a step has to show of the stripped text, which stays what it is.   *)

LEMMA SameText ==
  ASSUME UNCHANGED <<input, mode>>
  PROVE  /\ Stripped' = Stripped
         /\ KeptCount(Seen)' = KeptCount(Seen')
         /\ \A x : Kept(x)' = Kept(x)
<1>1. \A x : Kept(x)' = Kept(x)
  BY DEF Kept
<1> QED
  BY <1>1 DEF Stripped, KeptCount, KeptAt, Nth, Kept, NotGarbage

LEMMA FedStep ==
  ASSUME UNCHANGED <<input, mode>>,
         Len(fed') = KeptCount(Seen'),
         \A k \in 1..Len(fed') : fed'[k] = Stripped[k],
         Viable(fed', Len(fed'))
  PROVE  FedInv'
BY SameText DEF FedInv

\* Where nothing is fed, what was seen may grow by characters not kept.
LEMMA NothingFed ==
  ASSUME IndInv, UNCHANGED <<input, mode, fed>>, KeptCount(Seen') = KeptCount(Seen)
  PROVE  FedInv'
<1>1. FedInv
  BY DEF IndInv
<1> QED
  BY <1>1, FedStep DEF FedInv

LEMMA Types ==
  ASSUME IndInv
  PROVE  /\ Len(input) \in Nat /\ got \in Nat /\ start \in Nat /\ avail \in Nat
         /\ ototal \in Nat /\ Len(stdout) \in Nat /\ Len(fed) \in Nat
         /\ Decoded(fed, Len(fed)) \in Seq(Byte)
         /\ Len(Decoded(fed, Len(fed))) \in Nat
<1>1. TypeOK
  BY DEF IndInv
<1>2. Len(fed) \in Nat
  BY <1>1 DEF TypeOK
<1> QED
  BY <1>1, <1>2, InputType, DecodedType DEF TypeOK

-----------------------------------------------------------------------------
(* Reading.                                                                *)

LEMMA ReadInv == IndInv /\ Read => IndInv'
<1> SUFFICES ASSUME IndInv, Read PROVE IndInv'
  OBVIOUS
<1>1. PICK n \in 1 .. Min2(RawSize, Len(input) - got) :
        /\ got' = got + n
        /\ avail' = n
        /\ ferror' = (ferror \/ n < Min2(RawSize, Len(input) - got))
  BY Zenon DEF Read
<1>2. /\ start' = got /\ ototal' = 0 /\ pc' = "token" /\ pc = "read"
      /\ UNCHANGED <<input, mode, fed, stdout, exit>>
  BY DEF Read
<1>3. n \in Nat /\ 0 < n /\ n <= Len(input) - got
  BY <1>1, Types, CliAssumption DEF Min2
<1>4. avail = 0 /\ exit = Running
  BY <1>2 DEF IndInv, BufferInv
<1>5. TypeOK'
  <2>1. ferror' \in BOOLEAN
    BY <1>1, Zenon
  <2>2. got' \in Nat /\ start' \in Nat /\ avail' \in Nat /\ ototal' \in Nat
    BY <1>1, <1>2, <1>3, Types
  <2> QED
    BY <1>2, <2>1, <2>2 DEF IndInv, TypeOK
<1>6. BufferInv'
  BY <1>1, <1>2, <1>3, <1>4, Types DEF BufferInv, Running
<1>7. FedInv'
  <2>1. Seen' = got /\ Seen = got
    BY <1>1, <1>2, <1>3, <1>4 DEF Seen
  <2> QED
    BY <1>2, <2>1, NothingFed
<1>8. OutInv'
  <2>1. OutInv
    BY DEF IndInv
  <2> QED
    BY <1>2, <1>4, <2>1, Types DEF OutInv, Running
<1>9. VerdictInv'
  BY <1>2 DEF VerdictInv
<1> QED
  BY <1>5, <1>6, <1>7, <1>8, <1>9 DEF IndInv

LEMMA ReadEndsInv == IndInv /\ ReadEnds => IndInv'
<1> SUFFICES ASSUME IndInv, ReadEnds PROVE IndInv'
  OBVIOUS
<1>1. /\ pc = "read" /\ pc' = "exit"
      /\ UNCHANGED <<input, mode, got, start, avail, fed, ototal, stdout>>
      /\ \/ got = Len(input) /\ exit' = 0 /\ ferror' = ferror
         \/ exit' = 1 /\ ferror' = TRUE
  BY DEF ReadEnds
<1>2. exit' \in {0, 1} /\ (exit' = 0 => got = Len(input)) /\ (exit' = 1 => ferror')
  BY <1>1
<1>3. TypeOK'
  <2>1. ferror' \in BOOLEAN
    BY <1>1, Zenon DEF IndInv, TypeOK
  <2> QED
    BY <1>1, <1>2, <2>1 DEF IndInv, TypeOK
<1>4. BufferInv'
  BY <1>1, <1>2 DEF IndInv, BufferInv, Running
<1>5. FedInv'
  <2>1. Seen' = Seen
    BY <1>1 DEF Seen
  <2> QED
    BY <1>1, <2>1, NothingFed
<1>6. OutInv'
  <2>1. OutInv
    BY DEF IndInv
  <2> QED
    BY <1>1, <2>1 DEF OutInv
<1>7. VerdictInv'
  BY <1>2 DEF VerdictInv
<1> QED
  BY <1>3, <1>4, <1>5, <1>6, <1>7 DEF IndInv

-----------------------------------------------------------------------------
(* Runs.                                                                   *)

LEMMA SkipOneInv == IndInv /\ SkipOne => IndInv'
<1> SUFFICES ASSUME IndInv, SkipOne PROVE IndInv'
  OBVIOUS
<1>1. /\ pc = "token" /\ avail > 0 /\ RunLength = 0
      /\ start' = start + 1 /\ avail' = avail - 1
      /\ UNCHANGED <<input, mode, got, ferror, fed, ototal, stdout, pc, exit>>
  BY DEF SkipOne
<1>2. TypeOK'
  BY <1>1, Types DEF IndInv, TypeOK
<1>3. start + avail = got
  BY <1>1 DEF IndInv, BufferInv
<1>4. exit = Running
  BY <1>1 DEF IndInv, BufferInv
<1>5. BufferInv'
  BY <1>1, <1>3, <1>4, Types DEF IndInv, BufferInv, Running
<1>6. FedInv'
  <2>1. Seen = start /\ Seen' = start + 1
    BY <1>1, <1>3, Types DEF Seen
  <2>2. ~ Kept(input[start + 1])
    <3>1. RunLength < avail /\ start + RunLength + 1 = start + 1
      BY <1>1, Types
    <3> HIDE DEF Kept
    <3> QED
      BY <3>1, Types, RunIs
  <2>3. KeptCount(start + 1) = KeptCount(start)
    BY <2>2, Types, CountSkips
  <2> QED
    BY <1>1, <2>1, <2>3, NothingFed
<1>7. OutInv'
  <2>1. OutInv
    BY DEF IndInv
  <2> QED
    BY <1>1, <2>1 DEF OutInv
<1>8. VerdictInv'
  BY <1>1, <1>4 DEF VerdictInv, Running
<1> QED
  BY <1>2, <1>5, <1>6, <1>7, <1>8 DEF IndInv

\* The characters of the run are the next ones of the stripped text.
LEMMA RunText ==
  ASSUME IndInv, avail > 0
  PROVE  LET all == fed \o Run
         IN /\ all \in Seq(Char) /\ Len(all) = Len(fed) + RunLength
            /\ \A k \in 1..Len(fed) : all[k] = fed[k]
            /\ \A k \in 1..Len(all) : all[k] = Stripped[k]
            /\ Len(all) = KeptCount(start + RunLength)
            /\ Len(all) <= Len(Stripped)
<1>1. TypeOK
  BY DEF IndInv
<1>2. /\ Len(input) \in Nat /\ start \in Nat /\ avail \in Nat /\ got \in Nat
      /\ Len(fed) \in Nat
  BY Types
<1>3. start + avail = got /\ got <= Len(input) /\ Seen = start
  BY <1>2 DEF IndInv, BufferInv, Seen
<1>4. /\ RunLength \in 0..avail
      /\ \A i \in 1..RunLength : Kept(input[start + i])
  BY <1>2, RunIs
<1>5. RunLength \in Nat /\ start + RunLength <= Len(input)
  BY <1>2, <1>3, <1>4
<1>6. Run \in Seq(Char) /\ Len(Run) = RunLength
  <2>1. ASSUME NEW i \in 1..RunLength PROVE Class(input[start + i]) \in Char
    <3>1. start + i \in 1..Len(input)
      BY <1>2, <1>5
    <3> QED
      BY <1>1, <3>1, InputType
  <2> QED
    BY <1>5, <2>1 DEF Run
<1>7. Len(fed) = KeptCount(start) /\ \A k \in 1..Len(fed) : fed[k] = Stripped[k]
  BY <1>3 DEF IndInv, FedInv
<1>8. ASSUME NEW i \in 1..RunLength
      PROVE  /\ KeptCount(start + i) = Len(fed) + i
             /\ Stripped[Len(fed) + i] = Run[i]
  <2>1. start + i \in 1..Len(input) /\ Kept(input[start + i]) /\ i \in Nat
    BY <1>2, <1>4, <1>5
  <2>2. \A j \in 1..i : Kept(input[start + j])
    BY <1>4, <1>5
  <2>3. KeptCount(start + i) = KeptCount(start) + i
    <3> HIDE DEF Kept
    <3> QED
      BY <1>2, <2>1, <2>2, CountRun
  <2>4. Stripped[KeptCount(start + i)] = Class(input[start + i])
    <3> HIDE DEF Kept
    <3> QED
      BY <1>2, <2>1, StrippedAt
  <2>5. Run[i] = Class(input[start + i])
    BY DEF Run
  <2> QED
    BY <1>7, <2>3, <2>4, <2>5
<1>9. KeptCount(start + RunLength) = Len(fed) + RunLength
  <2> HIDE DEF Kept
  <2> QED
    BY <1>2, <1>4, <1>5, <1>7, CountRun
<1>10. KeptCount(start + RunLength) <= Len(Stripped)
  BY <1>1, <1>2, <1>5, StrippedType, CountGrows
<1> DEFINE all == fed \o Run
<1>11. fed \in Seq(Char)
  BY <1>1 DEF TypeOK
<1>12. /\ all \in Seq(Char) /\ Len(all) = Len(fed) + RunLength
       /\ \A k \in 1..Len(fed) : all[k] = fed[k]
       /\ \A i \in 1..RunLength : all[Len(fed) + i] = Run[i]
  BY <1>5, <1>6, <1>11
<1> HIDE DEF all
<1>13. ASSUME NEW k \in 1..Len(all) PROVE all[k] = Stripped[k]
  <2>1. CASE k <= Len(fed)
    BY <1>2, <1>7, <1>12, <2>1
  <2>2. CASE k > Len(fed)
    <3>1. k - Len(fed) \in 1..RunLength /\ Len(fed) + (k - Len(fed)) = k
      BY <1>2, <1>5, <1>12, <2>2
    <3> QED
      BY <1>8, <1>12, <3>1
  <2> QED
    BY <1>2, <1>12, <2>1, <2>2
<1>14. /\ all \in Seq(Char) /\ Len(all) = Len(fed) + RunLength
       /\ \A k \in 1..Len(fed) : all[k] = fed[k]
       /\ \A k \in 1..Len(all) : all[k] = Stripped[k]
       /\ Len(all) = KeptCount(start + RunLength)
       /\ Len(all) <= Len(Stripped)
  BY <1>9, <1>10, <1>12, <1>13
<1> QED
  BY <1>14 DEF all

LEMMA DecodeRunInv == IndInv /\ DecodeRun => IndInv'
<1> SUFFICES ASSUME IndInv, DecodeRun PROVE IndInv'
  OBVIOUS
<1>1. /\ pc = "token" /\ avail > 0 /\ RunLength > 0
      /\ fed' = fed \o Run
      /\ ototal' = ototal + Len(Decoded(fed', Len(fed'))) - Len(Decoded(fed, Len(fed)))
      /\ UNCHANGED <<input, mode, got, ferror, stdout, pc, exit>>
  BY DEF DecodeRun
<1>2. Viable(fed', Len(fed'))
  BY DEF DecodeRun, Accepts
<1>3. IF RunLength = avail THEN avail' = 0 /\ start' = start
      ELSE start' = start + RunLength + 1 /\ avail' = avail - (RunLength + 1)
  BY DEF DecodeRun
<1>4. /\ fed' \in Seq(Char) /\ Len(fed') = Len(fed) + RunLength
      /\ \A k \in 1..Len(fed) : fed'[k] = fed[k]
      /\ \A k \in 1..Len(fed') : fed'[k] = Stripped[k]
      /\ Len(fed') = KeptCount(start + RunLength)
  BY <1>1, RunText
<1>5. /\ RunLength \in 0..avail
      /\ RunLength < avail => ~ Kept(input[start + RunLength + 1])
  BY Types, RunIs
<1>6. start + avail = got /\ exit = Running
  BY <1>1 DEF IndInv, BufferInv
<1> DEFINE d == Decoded(fed, Len(fed))
           e == Decoded(fed', Len(fed'))
<1>7. /\ e \in Seq(Byte) /\ Len(e) \in Nat /\ Len(d) \in Nat /\ Len(d) <= Len(e)
      /\ \A i \in 1..Len(d) : d[i] = e[i]
  <2>1. Len(fed) \in Nat /\ Len(fed') \in Nat /\ Len(fed) <= Len(fed')
    BY <1>4, <1>5, Types
  <2> QED
    BY <1>4, <2>1, DecodedType, DecodedGrows
<1>8. ototal' = ototal + Len(e) - Len(d)
  BY <1>1
<1>9. /\ Len(stdout) <= Len(d) /\ \A i \in 1..Len(stdout) : stdout[i] = d[i]
      /\ Len(stdout) + ototal = Len(d)
  BY <1>1 DEF IndInv, OutInv
<1> HIDE DEF d, e
<1>10. TypeOK'
  <2>1. ototal' \in Nat
    BY <1>7, <1>8, Types
  <2>2. start' \in Nat /\ avail' \in Nat
    BY <1>3, <1>5, Types, SMTT(30)
  <2> QED
    BY <1>1, <1>4, <2>1, <2>2 DEF IndInv, TypeOK
<1>11. start' + avail' = got \/ avail' = 0
  BY <1>3, <1>5, <1>6, Types
<1>12. BufferInv'
  BY <1>1, <1>6, <1>11 DEF IndInv, BufferInv, Running
<1>13. FedInv'
  <2>1. CASE RunLength = avail
    <3>1. Seen' = start + RunLength
      BY <1>1, <1>3, <1>6, <2>1 DEF Seen
    <3> QED
      BY <1>1, <1>2, <1>4, <3>1, FedStep
  <2>2. CASE RunLength # avail
    <3>1. Seen' = (start + RunLength) + 1
      <4>1. avail' = avail - (RunLength + 1) /\ start' = start + RunLength + 1
        BY <1>3, <2>2
      <4>2. avail' = 0 => got = start + RunLength + 1
        BY <1>5, <1>6, <4>1, Types, SMTT(30)
      <4>3. Seen' = IF avail' = 0 THEN got ELSE start'
        BY <1>1 DEF Seen
      <4>4. Seen' = start + RunLength + 1
        BY <4>1, <4>2, <4>3
      <4> QED
        BY <1>5, <4>4, Types
    <3>2. start + RunLength \in Nat /\ ~ Kept(input[(start + RunLength) + 1])
      <4>1. start + RunLength \in Nat /\ RunLength < avail
        BY <1>5, <2>2, Types
      <4> HIDE DEF Kept
      <4> QED
        BY <1>5, <4>1
    <3>3. KeptCount((start + RunLength) + 1) = KeptCount(start + RunLength)
      BY <3>2, CountSkips
    <3> QED
      BY <1>1, <1>2, <1>4, <3>1, <3>3, FedStep
  <2> QED
    BY <2>1, <2>2
<1>14. OutInv'
  <2>1. Len(stdout) <= Len(e) /\ Len(stdout) + ototal' = Len(e)
    <3>1. Len(stdout) \in Nat /\ ototal \in Nat
      BY Types
    <3> QED
      BY <1>7, <1>8, <1>9, <3>1, SMTT(30)
  <2>2. \A i \in 1..Len(stdout) : stdout[i] = e[i]
    BY <1>7, <1>9, Types
  <2> QED
    BY <1>1, <1>6, <2>1, <2>2 DEF OutInv, Running, e
<1>15. VerdictInv'
  BY <1>1, <1>6 DEF VerdictInv, Running
<1> QED
  BY <1>10, <1>12, <1>13, <1>14, <1>15 DEF IndInv

LEMMA DecodeFailsInv == IndInv /\ DecodeFails => IndInv'
<1> SUFFICES ASSUME IndInv, DecodeFails PROVE IndInv'
  OBVIOUS
<1>1. /\ pc = "token" /\ avail > 0 /\ RunLength > 0 /\ ~ Accepts(Run)
      /\ exit' = 1 /\ pc' = "exit"
      /\ UNCHANGED <<input, mode, got, ferror, start, avail, fed, ototal, stdout>>
  BY DEF DecodeFails
<1>2. TypeOK'
  BY <1>1 DEF IndInv, TypeOK
<1>3. BufferInv'
  BY <1>1 DEF IndInv, BufferInv, Running
<1>4. FedInv'
  <2>1. Seen' = Seen
    BY <1>1 DEF Seen
  <2> QED
    BY <1>1, <2>1, NothingFed
<1>5. OutInv'
  <2>1. OutInv
    BY DEF IndInv
  <2> QED
    BY <1>1, <2>1 DEF OutInv
<1>6. VerdictInv'
  <2> DEFINE all == fed \o Run
  <2>1. /\ Len(all) = Len(fed) + RunLength
        /\ \A k \in 1..Len(all) : all[k] = Stripped[k]
        /\ Len(all) <= Len(Stripped)
    BY <1>1, RunText
  <2>2. Run # <<>>
    <3>1. Len(Run) = RunLength
      BY <1>1, Types, RunIs DEF Run
    <3> QED
      BY <1>1, <3>1
  <2>3. ~ Viable(all, Len(all))
    BY <1>1, <2>2 DEF Accepts
  <2>4. Len(all) \in Nat /\ Len(Stripped) \in Nat
    <3>1. TypeOK /\ RunLength \in Nat
      BY Types, RunIs DEF IndInv
    <3> QED
      BY <2>1, <3>1, Types, StrippedType
  <2> HIDE DEF all
  <2>5. ~ Viable(Stripped, Len(all))
    BY <2>1, <2>3, <2>4, ViableLocal
  <2>6. ~ Viable(Stripped, Len(Stripped))
    BY <2>1, <2>4, <2>5, ViableShorter
  <2> QED
    BY <1>1, <2>6, SameText DEF VerdictInv
<1> QED
  BY <1>2, <1>3, <1>4, <1>5, <1>6 DEF IndInv

-----------------------------------------------------------------------------
(* Writing.                                                                *)

LEMMA Appended ==
  ASSUME NEW s \in Seq(Byte), NEW t \in Seq(Byte)
  PROVE  /\ s \o t \in Seq(Byte) /\ Len(s \o t) = Len(s) + Len(t)
         /\ \A i \in 1..Len(s) : (s \o t)[i] = s[i]
         /\ \A i \in 1..Len(t) : (s \o t)[Len(s) + i] = t[i]
OBVIOUS

\* What is pending continues what was written.
LEMMA PendingText ==
  ASSUME IndInv, pc = "token"
  PROVE  LET d == Decoded(fed, Len(fed))
         IN /\ Pending \in Seq(Byte) /\ Len(Pending) = ototal
            /\ Len(stdout) + ototal = Len(d)
            /\ \A i \in 1..ototal : Pending[i] = d[Len(stdout) + i]
<1> DEFINE d == Decoded(fed, Len(fed))
<1>1. d \in Seq(Byte) /\ Len(d) \in Nat /\ ototal \in Nat /\ Len(stdout) \in Nat
  BY Types
<1>2. Len(stdout) + ototal = Len(d)
  BY DEF IndInv, OutInv
<1>3. Pending = SubSeq(d, Len(d) - ototal + 1, Len(d))
  BY DEF Pending
<1> HIDE DEF d
<1>4. Len(d) - ototal + 1 = Len(stdout) + 1
  BY <1>1, <1>2
<1>5. /\ SubSeq(d, Len(stdout) + 1, Len(d)) \in Seq(Byte)
      /\ Len(SubSeq(d, Len(stdout) + 1, Len(d))) = ototal
      /\ \A i \in 1..ototal :
           SubSeq(d, Len(stdout) + 1, Len(d))[i] = d[Len(stdout) + i]
  BY <1>1, <1>2
<1>6. /\ Pending \in Seq(Byte) /\ Len(Pending) = ototal
      /\ Len(stdout) + ototal = Len(d)
      /\ \A i \in 1..ototal : Pending[i] = d[Len(stdout) + i]
  BY <1>2, <1>3, <1>4, <1>5
<1> QED
  BY <1>6 DEF d

LEMMA WriteInv == IndInv /\ Write => IndInv'
<1> SUFFICES ASSUME IndInv, Write PROVE IndInv'
  OBVIOUS
<1>1. /\ pc = "token" /\ avail = 0 /\ stdout' = stdout \o Pending /\ pc' = "read"
      /\ UNCHANGED <<input, mode, got, ferror, start, avail, fed, ototal, exit>>
  BY DEF Write
<1>2. exit = Running
  BY <1>1 DEF IndInv, BufferInv
<1> DEFINE d == Decoded(fed, Len(fed))
<1>3. /\ Pending \in Seq(Byte) /\ Len(Pending) = ototal
      /\ Len(stdout) + ototal = Len(d)
      /\ \A i \in 1..ototal : Pending[i] = d[Len(stdout) + i]
  BY <1>1, PendingText
<1>4. /\ Len(d) \in Nat /\ ototal \in Nat /\ Len(stdout) \in Nat
      /\ stdout \in Seq(Byte)
      /\ \A i \in 1..Len(stdout) : stdout[i] = d[i]
  BY Types DEF IndInv, TypeOK, OutInv
<1> HIDE DEF d
<1>5. /\ stdout' \in Seq(Byte) /\ Len(stdout') = Len(d)
      /\ \A i \in 1..Len(stdout) : stdout'[i] = stdout[i]
      /\ \A i \in 1..ototal : stdout'[Len(stdout) + i] = Pending[i]
  BY <1>1, <1>3, <1>4, Appended
<1>6. ASSUME NEW i \in 1..Len(stdout') PROVE stdout'[i] = d[i]
  <2>1. CASE i <= Len(stdout)
    BY <1>4, <1>5, <2>1
  <2>2. CASE i > Len(stdout)
    <3>1. i - Len(stdout) \in 1..ototal /\ Len(stdout) + (i - Len(stdout)) = i
      BY <1>3, <1>4, <1>5, <2>2
    <3> QED
      BY <1>3, <1>5, <3>1
  <2> QED
    BY <1>4, <1>5, <2>1, <2>2
<1>7. TypeOK'
  BY <1>1, <1>5 DEF IndInv, TypeOK
<1>8. BufferInv'
  BY <1>1, <1>2 DEF IndInv, BufferInv, Running
<1>9. FedInv'
  <2>1. Seen' = Seen
    BY <1>1 DEF Seen
  <2> QED
    BY <1>1, <2>1, NothingFed
<1>10. OutInv'
  BY <1>1, <1>4, <1>5, <1>6 DEF OutInv, d
<1>11. VerdictInv'
  BY <1>1, <1>2 DEF VerdictInv, Running
<1> QED
  BY <1>7, <1>8, <1>9, <1>10, <1>11 DEF IndInv

LEMMA WriteFailsInv == IndInv /\ WriteFails => IndInv'
<1> SUFFICES ASSUME IndInv, WriteFails PROVE IndInv'
  OBVIOUS
<1>1. /\ pc = "token" /\ avail = 0 /\ ototal > 0 /\ exit' = 1 /\ pc' = "failed"
      /\ UNCHANGED <<input, mode, got, ferror, start, avail, fed, ototal>>
  BY DEF WriteFails
<1>2. PICK n \in 0 .. ototal - 1 : stdout' = stdout \o SubSeq(Pending, 1, n)
  BY DEF WriteFails
<1> DEFINE d == Decoded(fed, Len(fed))
           w == SubSeq(Pending, 1, n)
<1>3. /\ Pending \in Seq(Byte) /\ Len(Pending) = ototal
      /\ Len(stdout) + ototal = Len(d)
      /\ \A i \in 1..ototal : Pending[i] = d[Len(stdout) + i]
  BY <1>1, PendingText
<1>4. /\ Len(d) \in Nat /\ ototal \in Nat /\ Len(stdout) \in Nat
      /\ stdout \in Seq(Byte)
      /\ \A i \in 1..Len(stdout) : stdout[i] = d[i]
  BY Types DEF IndInv, TypeOK, OutInv
<1>5. n \in Nat /\ n <= ototal
  BY <1>4
<1> HIDE DEF d
<1>6. w \in Seq(Byte) /\ Len(w) = n /\ \A i \in 1..n : w[i] = Pending[i]
  BY <1>3, <1>5
<1>7. stdout' = stdout \o w
  BY <1>2
<1> HIDE DEF w
<1>8. /\ stdout' \in Seq(Byte) /\ Len(stdout') = Len(stdout) + n
      /\ \A i \in 1..Len(stdout) : stdout'[i] = stdout[i]
      /\ \A i \in 1..n : stdout'[Len(stdout) + i] = w[i]
  BY <1>4, <1>5, <1>6, <1>7, Appended
<1>9. ASSUME NEW i \in 1..Len(stdout') PROVE stdout'[i] = d[i]
  <2>1. CASE i <= Len(stdout)
    BY <1>4, <1>8, <2>1
  <2>2. CASE i > Len(stdout)
    <3>1. /\ i - Len(stdout) \in 1..n /\ i - Len(stdout) \in 1..ototal
          /\ Len(stdout) + (i - Len(stdout)) = i
      BY <1>4, <1>5, <1>8, <2>2
    <3> QED
      BY <1>3, <1>6, <1>8, <3>1
  <2> QED
    BY <1>4, <1>5, <1>8, <2>1, <2>2
<1>10. TypeOK'
  BY <1>1, <1>8 DEF IndInv, TypeOK
<1>11. BufferInv'
  BY <1>1 DEF IndInv, BufferInv, Running
<1>12. FedInv'
  <2>1. Seen' = Seen
    BY <1>1 DEF Seen
  <2> QED
    BY <1>1, <2>1, NothingFed
<1>13. OutInv'
  <2>1. Len(stdout') <= Len(d)
    BY <1>3, <1>4, <1>5, <1>8
  <2> QED
    BY <1>1, <1>9, <2>1 DEF OutInv, d
<1>14. VerdictInv'
  BY <1>1 DEF VerdictInv
<1> QED
  BY <1>10, <1>11, <1>12, <1>13, <1>14 DEF IndInv

-----------------------------------------------------------------------------
(* The theorems.                                                           *)

LEMMA FedIsPrefix ==
  ASSUME IndInv
  PROVE  /\ Len(fed) <= Len(Stripped)
         /\ \A k \in 1..Len(fed) : fed[k] = Stripped[k]
<1>1. TypeOK
  BY DEF IndInv
<1>2. /\ Len(fed) = KeptCount(Seen)
      /\ \A k \in 1..Len(fed) : fed[k] = Stripped[k]
  BY DEF IndInv, FedInv
<1>3. Seen \in Nat /\ Seen <= Len(input) /\ Len(input) \in Nat
  <2>1. got <= Len(input) /\ (avail > 0 => start + avail = got)
    BY DEF IndInv, BufferInv
  <2> QED
    BY <2>1, Types DEF Seen
<1>4. Len(Stripped) = KeptCount(Len(input))
  BY <1>1, StrippedType
<1> QED
  BY <1>2, <1>3, <1>4, CountGrows

LEMMA StepInv == IndInv /\ [Next]_vars => IndInv'
<1> SUFFICES ASSUME IndInv, [Next]_vars PROVE IndInv'
  OBVIOUS
<1>1. CASE UNCHANGED vars
  <2>1. UNCHANGED <<input, mode>> /\ UNCHANGED <<fed, got, start, avail>>
    BY <1>1 DEF vars
  <2>2. Seen' = Seen
    BY <2>1 DEF Seen
  <2>3. FedInv'
    BY <2>1, <2>2, NothingFed
  <2>4. TypeOK' /\ BufferInv' /\ OutInv'
    BY <1>1 DEF vars, IndInv, TypeOK, BufferInv, OutInv
  <2>5. VerdictInv'
    BY <1>1, <2>1, SameText DEF vars, IndInv, VerdictInv
  <2> QED
    BY <2>3, <2>4, <2>5 DEF IndInv
<1>2. CASE Read
  BY <1>2, ReadInv
<1>3. CASE ReadEnds
  BY <1>3, ReadEndsInv
<1>4. CASE SkipOne
  BY <1>4, SkipOneInv
<1>5. CASE DecodeRun
  BY <1>5, DecodeRunInv
<1>6. CASE DecodeFails
  BY <1>6, DecodeFailsInv
<1>7. CASE Write
  BY <1>7, WriteInv
<1>8. CASE WriteFails
  BY <1>8, WriteFailsInv
<1> QED
  BY <1>1, <1>2, <1>3, <1>4, <1>5, <1>6, <1>7, <1>8 DEF Next

\* In every state of the decoding tool the inductive invariant holds: what was
\* fed is what the part of the input seen so far has to keep.
THEOREM Inductive == Spec => []IndInv
<1> QED
  BY InitInv, StepInv, PTL DEF Spec

\* Where the buffers end, and where runs are cut, does not matter: what decode()
\* writes is a beginning of the decoding of the stripped text.
THEOREM StdoutCorrect == Spec => []StdoutIsDecodedText
<1>1. IndInv => StdoutIsDecodedText
  <2> SUFFICES ASSUME IndInv PROVE StdoutIsDecodedText
    OBVIOUS
  <2>1. TypeOK
    BY DEF IndInv
  <2>2. Len(Stripped) \in Nat /\ Len(fed) \in Nat /\ Len(stdout) \in Nat
    BY <2>1, StrippedType, Types
  <2>3. Len(fed) <= Len(Stripped) /\ \A k \in 1..Len(fed) : fed[k] = Stripped[k]
    BY FedIsPrefix
  <2>4. PICK d \in 0..Len(Stripped) : DataPrefix(Stripped, Len(Stripped), d)
    BY <2>2, PrefixExists
  <2>5. (CHOOSE x \in 0..Len(Stripped) : DataPrefix(Stripped, Len(Stripped), x)) = d
    BY <2>2, <2>4, PrefixUnique
  <2>6. Decoded(Stripped, Len(Stripped)) =
          [i \in 1 .. DecPrefixLen(d) |-> DecByte(Stripped, i)]
    BY <2>2, <2>4, DecodedAt
  <2>7. DecPrefixLen(d) \in Nat
    BY DEF DecPrefixLen
  <2> DEFINE w == Decoded(fed, Len(fed))
             all == Decoded(Stripped, Len(Stripped))
  <2>8. Len(stdout) <= Len(w) /\ \A i \in 1..Len(stdout) : stdout[i] = w[i]
    BY DEF IndInv, OutInv
  <2>9. /\ Len(w) <= Len(all) /\ \A i \in 1..Len(w) : w[i] = all[i]
        /\ Len(w) \in Nat
    BY <2>2, <2>3, DecodedGrows, DecodedType
  <2>10. /\ Len(all) = DecPrefixLen(d)
         /\ \A i \in 1 .. DecPrefixLen(d) : all[i] = DecByte(Stripped, i)
    BY <2>6, <2>7
  <2> HIDE DEF w, all
  <2>11. /\ Len(stdout) <= DecPrefixLen(d)
         /\ \A i \in 1..Len(stdout) : stdout[i] = DecByte(Stripped, i)
    BY <2>2, <2>7, <2>8, <2>9, <2>10
  <2> QED
    BY <2>5, <2>11 DEF StdoutIsDecodedText
<1> QED
  BY <1>1, Inductive, PTL

\* Exit code 0 means that the whole stripped text begins a Base64 text and is on
\* stdout to the last byte; exit code 1, when reading and writing went well, that
\* it does not: decode() never gives a wrong verdict.
THEOREM ExitCorrect == Spec => []ExitTellsVerdict
<1>1. IndInv => ExitTellsVerdict
  <2> SUFFICES ASSUME IndInv PROVE ExitTellsVerdict
    OBVIOUS
  <2>1. ASSUME exit = 0
        PROVE  /\ Viable(Stripped, Len(Stripped))
               /\ stdout = Decoded(Stripped, Len(Stripped))
    <3>1. TypeOK
      BY DEF IndInv
    <3>2. Len(fed) = Len(Stripped) /\ Len(fed) \in Nat
      <4>1. Seen = Len(input)
        BY <2>1 DEF IndInv, BufferInv, Seen
      <4>2. Len(fed) = KeptCount(Seen)
        BY DEF IndInv, FedInv
      <4> QED
        BY <3>1, <4>1, <4>2, StrippedType, Types
    <3>3. \A k \in 1..Len(fed) : fed[k] = Stripped[k]
      BY FedIsPrefix
    <3>4. Viable(fed, Len(fed))
      BY DEF IndInv, FedInv
    <3>5. Viable(Stripped, Len(Stripped))
      BY <3>2, <3>3, <3>4, ViableLocal
    <3> DEFINE w == Decoded(fed, Len(fed))
               all == Decoded(Stripped, Len(Stripped))
    <3>6. /\ Len(w) <= Len(all) /\ \A i \in 1..Len(w) : w[i] = all[i]
          /\ w \in Seq(Byte) /\ Len(w) \in Nat
          /\ all \in Seq(Byte) /\ Len(all) \in Nat
      BY <3>2, <3>3, DecodedGrows, DecodedType
    <3>7. Len(all) <= Len(w)
      <4>1. \A k \in 1..Len(Stripped) : Stripped[k] = fed[k]
        BY <3>2, <3>3
      <4>2. Len(Stripped) \in Nat /\ Len(Stripped) <= Len(fed)
        BY <3>2
      <4> HIDE DEF w, all
      <4>3. Len(Decoded(Stripped, Len(Stripped))) <= Len(Decoded(fed, Len(fed)))
        BY <3>2, <4>1, <4>2, DecodedGrows
      <4> QED
        BY <4>3 DEF w, all
    <3>8. Len(stdout) = Len(w) /\ \A i \in 1..Len(stdout) : stdout[i] = w[i]
      BY <2>1 DEF IndInv, OutInv
    <3>9. stdout \in Seq(Byte)
      BY <3>1 DEF TypeOK
    <3> HIDE DEF w, all
    <3>10. Len(stdout) = Len(all) /\ \A i \in 1..Len(stdout) : stdout[i] = all[i]
      BY <3>6, <3>7, <3>8
    <3>11. stdout = all
      BY <3>6, <3>9, <3>10, SeqEqual
    <3> QED
      BY <3>5, <3>11 DEF all
  <2>2. exit = 1 /\ pc = "exit" /\ ~ ferror => ~ Viable(Stripped, Len(Stripped))
    BY DEF IndInv, VerdictInv
  <2> QED
    BY <2>1, <2>2 DEF ExitTellsVerdict
<1> QED
  BY <1>1, Inductive, PTL
=============================================================================
