--------------------------- MODULE CliEncodeProofs --------------------------
(***************************************************************************)
(* For every input size, buffer size, wrap width and size of the vector    *)
(* array, and whatever the system writes, interrupts or refuses: stdout of *)
(* the encoding tool is a beginning of the wrapped text.                   *)
(***************************************************************************)
EXTENDS CliEncode, FiniteSetTheorems, SequenceTheorems, TLAPS

-----------------------------------------------------------------------------
(* Lines.                                                                  *)

LEMMA Remainder ==
  ASSUME NEW a \in Nat, NEW w \in Nat \ {0}
  PROVE  a \div w \in Int /\ a % w \in 0 .. w - 1 /\ a = w * (a \div w) + (a % w)
OBVIOUS

LEMMA Division ==
  ASSUME NEW q \in Nat, NEW w \in Nat \ {0}, NEW r \in 0 .. w - 1
  PROVE  (q * w + r) \div w = q /\ (q * w + r) % w = r
<1>1. q * w \in Nat
  OBVIOUS
<1> DEFINE a == q * w + r
<1>2. a \in Nat /\ a = q * w + r
  BY <1>1
<1>3. /\ a \div w \in Int /\ a % w \in 0 .. w - 1
      /\ a = w * (a \div w) + (a % w)
  <2> HIDE DEF a
  <2> QED
    BY <1>2, Remainder
<1> DEFINE d == a \div w  m == a % w
<1>4. d \in Int /\ m \in 0 .. w - 1 /\ a = w * d + m
  BY <1>3
<1> HIDE DEF d, m, a
<1>5. w * (d - q) = r - m
  BY <1>2, <1>4
<1>6. d = q
  BY <1>5, <1>4
<1>7. m = r
  BY <1>5, <1>6, <1>4
<1> QED
  BY <1>6, <1>7 DEF d, m, a

\* The place of character c + 1 of a line after `lines` full ones, with their
\* newlines and without.
Place(lines, w, c) == lines * w + lines + c + 1
Character(lines, w, c) == lines * w + c + 1

LEMMA LineSymbol ==
  ASSUME NEW n \in Nat, NEW w \in Nat \ {0}, NEW lines \in Nat, NEW c \in 0 .. w
  PROVE  WrappedSymbol(n, w, Place(lines, w, c)) =
           IF c = w \/ Character(lines, w, c) > n THEN Newline
           ELSE Character(lines, w, c)
<1> DEFINE p == Place(lines, w, c)
<1>1. lines * w \in Nat
  OBVIOUS
<1>2. p - 1 = lines * (w + 1) + c
  BY <1>1 DEF Place
<1>3. (p - 1) \div (w + 1) = lines /\ (p - 1) % (w + 1) = c
  <2> DEFINE m == w + 1
  <2>1. m \in Nat \ {0} /\ c \in 0 .. m - 1
    OBVIOUS
  <2> HIDE DEF m, p
  <2>2. (lines * m + c) \div m = lines /\ (lines * m + c) % m = c
    BY <2>1, Division
  <2> QED
    BY <2>2, <1>2 DEF m
<1> HIDE DEF p
<1>4. WrappedSymbol(n, w, p) =
        IF c = w \/ Character(lines, w, c) > n THEN Newline
        ELSE Character(lines, w, c)
  <2>1. WrappedSymbol(n, w, p) =
          IF c = w \/ lines * w + c + 1 > n THEN Newline ELSE lines * w + c + 1
    BY <1>1, <1>3 DEF WrappedSymbol
  <2> QED
    BY <2>1 DEF Character
<1> QED
  BY <1>4 DEF p

\* With l full lines and c further characters of n in all.
LEMMA LengthSoFar ==
  ASSUME NEW n \in Nat, NEW w \in Nat \ {0}, NEW l \in Nat, NEW c \in 0 .. w
  PROVE  /\ l * w + c <= n => l * w + c + l <= WrappedLen(n, w)
         /\ l * w + c <= n /\ c > 0 => l * w + c + l + 1 <= WrappedLen(n, w)
         /\ Character(l, w, c) = n + 1 /\ c < w =>
              WrappedLen(n, w) = n + l + (IF c > 0 THEN 1 ELSE 0)
<1> DEFINE a == n + w - 1  d == a \div w  m == a % w
<1>0. l * w \in Nat /\ a \in Nat
  OBVIOUS
<1>1. d \in Int /\ m \in 0 .. w - 1 /\ a = w * d + m
  BY <1>0
<1>2. WrappedLen(n, w) = n + d
  BY DEF WrappedLen
<1> HIDE DEF d, m
<1>3. l * w + c <= n => d >= l
  <2> SUFFICES ASSUME l * w + c <= n, d <= l - 1 PROVE FALSE
    BY <1>1
  <2>1. w * d <= w * (l - 1)
    BY <1>1
  <2> QED
    BY <2>1, <1>1, <1>0
<1>4. l * w + c <= n /\ c > 0 => d >= l + 1
  <2> SUFFICES ASSUME l * w + c <= n, c > 0, d <= l PROVE FALSE
    BY <1>1
  <2>1. w * d <= w * l
    BY <1>1
  <2> QED
    BY <2>1, <1>1, <1>0
<1>5. l * w + c = n /\ c < w => d <= l + (IF c > 0 THEN 1 ELSE 0)
  <2> SUFFICES ASSUME l * w + c = n, c < w, d >= l + 1, c > 0 => d >= l + 2
               PROVE  FALSE
    BY <1>1
  <2>1. CASE c = 0
    <3>1. w * d >= w * (l + 1)
      BY <1>1
    <3> QED
      BY <3>1, <2>1, <1>1, <1>0
  <2>2. CASE c > 0
    <3>1. w * d >= w * (l + 2)
      BY <1>1, <2>2
    <3> QED
      BY <3>1, <2>2, <1>1, <1>0
  <2> QED
    BY <2>1, <2>2
<1> QED
  BY <1>0, <1>1, <1>2, <1>3, <1>4, <1>5 DEF Character
-----------------------------------------------------------------------------
(* Lengths, and the initial states.                                        *)

LEMMA Lengths ==
  ASSUME NEW n \in Nat
  PROVE  /\ EncPrefixLen(n) \in Nat /\ EncodedLen(n) \in Nat
         /\ EncPrefixLen(n) <= EncodedLen(n)
         /\ \A m \in Nat : n <= m => EncPrefixLen(n) <= EncPrefixLen(m)
BY DEF EncPrefixLen, EncodedLen

LEMMA Sizes ==
  TypeOK => size \in Nat /\ wrap \in Nat /\ EncodedLen(size) \in Nat
BY CliAssumption, Lengths DEF TypeOK

LEMMA InitInv == Init => IndInv
<1> SUFFICES ASSUME Init PROVE IndInv
  OBVIOUS
<1>1. size \in Nat /\ wrap \in Nat /\ EncPrefixLen(0) = 0
  BY CliAssumption DEF Init, EncPrefixLen
<1>2. <<>> \in Seq(Nat) /\ Len(<<>>) = 0
  OBVIOUS
<1>3. TypeOK
  BY <1>2 DEF Init, TypeOK, Interrupted, Failed, NoWrite, Running
<1>4. ReadInv
  BY <1>1 DEF Init, ReadInv, At, Running
<1>5. PlaceInv
  BY <1>2 DEF Init, PlaceInv, FailsOnlyOnError, Running
<1>6. ColumnInv
  BY <1>1 DEF Init, ColumnInv, At
<1>7. CutsInv
  <2>1. Cardinality({}) = 0
    BY FS_EmptySet
  <2> QED
    BY <2>1, CliAssumption DEF Init, CutsInv
<1>8. Reported = 0 /\ Closing = 0 /\ SymbolInv
  BY <1>2 DEF Init, Reported, Closing, SymbolInv, At, Running
<1>9. PlacedInv
  <2>1. 0 * wrap = 0
    BY <1>1
  <2>2. /\ 0 * wrap + col = IF wrap = 0 THEN 0 ELSE lo
        /\ Reported + Len(iov) = lo + 0 + Closing
    BY <1>2, <1>8, <2>1 DEF Init
  <2> QED
    BY <2>2 DEF Init, PlacedInv, Running
<1> QED
  BY <1>3, <1>4, <1>5, <1>6, <1>7, <1>8, <1>9 DEF IndInv

-----------------------------------------------------------------------------
(* Reading.                                                                *)

LEMMA NoWriteYet ==
  TypeOK /\ pc # "trim" => Reported = Len(stdout) - again
BY DEF TypeOK, Reported

\* A step that moves no symbol and does not close the text.
LEMMA QuietSymbols ==
  ASSUME TypeOK, SymbolInv, CutsInv, PlacedInv, exit' # 1, exit # 1,
         pc # "trim", pc' # "trim", Closing' = Closing,
         pc' \in {"wrap", "endline"} => Cardinality(cuts) < IovMax,
         UNCHANGED <<size, wrap, lo, col, iov, cuts, stdout, again>>
  PROVE  SymbolInv' /\ CutsInv' /\ PlacedInv'
<1>1. Reported' = Reported
  BY NoWriteYet DEF Reported
<1>2. SymbolInv'
  BY <1>1 DEF SymbolInv
<1>3. CutsInv'
  BY DEF CutsInv
<1>4. PlacedInv'
  <2> PICK lines \in Nat :
         /\ lines * wrap + col = IF wrap = 0 THEN 0 ELSE lo
         /\ wrap = 0 => lines = 0
         /\ Reported + Len(iov) = lo + lines + Closing
    BY DEF PlacedInv
  <2>1. /\ lines * wrap' + col' = IF wrap' = 0 THEN 0 ELSE lo'
        /\ wrap' = 0 => lines = 0
        /\ Reported' + Len(iov') = lo' + lines + Closing'
    BY <1>1
  <2> QED
    BY <2>1 DEF PlacedInv
<1> QED
  BY <1>2, <1>3, <1>4

LEMMA ReadInvariant == IndInv /\ Read => IndInv'
<1> SUFFICES ASSUME IndInv, Read PROVE IndInv'
  OBVIOUS
<1> USE DEF IndInv
<1>0. pc = "read" /\ pc' = "wrap"
  BY DEF Read
<1>1. PICK n \in 1 .. Min2(RawSize, size - fed) :
        /\ fed' = fed + n
        /\ given' = EncPrefixLen(fed + n)
        /\ ferror' = (ferror \/ n < Min2(RawSize, size - fed))
  BY DEF Read
<1>2. n \in Nat /\ fed \in Nat /\ size \in Nat /\ fed + n <= size
  BY Sizes, CliAssumption DEF Min2, TypeOK
<1>3. given' \in Nat /\ given <= given'
  BY <1>0, <1>1, <1>2, Lengths DEF ReadInv, At
<1>4. TypeOK'
  <2>1. ferror' \in BOOLEAN
    BY <1>1, Zenon
  <2> QED
    BY <1>1, <1>2, <1>3, <2>1 DEF TypeOK, Read
<1>5. ReadInv'
  <2>1. lo <= given' /\ lo' = lo
    BY <1>3, <1>0 DEF ReadInv, At, TypeOK, Read
  <2>2. ~ tail /\ tail' = tail /\ size' = size /\ exit' # 0
    BY <1>0 DEF ReadInv, At, Read, PlaceInv, Running
  <2> QED
    BY <1>0, <1>1, <1>2, <1>3, <2>1, <2>2 DEF ReadInv, At
<1>6. PlaceInv'
  <2>1. FailsOnlyOnError'
    BY <1>1 DEF FailsOnlyOnError, PlaceInv, Read
  <2> QED
    BY <1>0, <2>1 DEF PlaceInv, Read
<1>7. ColumnInv'
  BY <1>0 DEF ColumnInv, At, Read, PlaceInv, Running
<1>8. SymbolInv' /\ CutsInv' /\ PlacedInv'
  <2>1. Cardinality(cuts) < IovMax
    <3>1. iov = <<>> /\ cuts = {}
      <4>1. iov = <<>>
        BY <1>0 DEF PlaceInv
      <4> QED
        BY <4>1 DEF TypeOK
    <3> QED
      BY <3>1, FS_EmptySet, CliAssumption
  <2>2. exit = Running /\ exit' = exit
    BY <1>0 DEF Read, PlaceInv
  <2>3. Closing = 0 /\ Closing' = 0
    BY <1>0, <2>2 DEF Closing, At, Running
  <2> QED
    BY <1>0, <2>1, <2>2, <2>3, QuietSymbols DEF Read, Running
<1> QED
  BY <1>4, <1>5, <1>6, <1>7, <1>8

LEMMA ReadEndInv == IndInv /\ ReadEnd => IndInv'
<1> SUFFICES ASSUME IndInv, ReadEnd PROVE IndInv'
  OBVIOUS
<1> USE DEF IndInv
<1>0. pc = "read" /\ pc' = "wrap" /\ tail' = TRUE /\ fed = size
  BY DEF ReadEnd
<1>1. given' = EncodedLen(size) /\ given' \in Nat /\ given <= given'
  BY <1>0, Sizes, Lengths DEF ReadEnd, ReadInv, At, TypeOK
<1>2. TypeOK'
  BY <1>0, <1>1 DEF TypeOK, ReadEnd
<1>3. exit = Running /\ exit' = exit
  BY <1>0 DEF ReadEnd, PlaceInv
<1>4. ReadInv'
  <2>1. lo <= given' /\ lo' = lo
    BY <1>0, <1>1 DEF ReadInv, At, TypeOK, ReadEnd
  <2> QED
    BY <1>0, <1>1, <1>3, <2>1 DEF ReadInv, At, ReadEnd, Running
<1>5. PlaceInv'
  BY <1>0, <1>3 DEF PlaceInv, FailsOnlyOnError, ReadEnd, Running
<1>6. ColumnInv'
  BY <1>0, <1>3 DEF ColumnInv, At, ReadEnd, Running
<1>7. SymbolInv' /\ CutsInv' /\ PlacedInv'
  <2>1. Cardinality(cuts) < IovMax
    <3>1. cuts = {}
      BY <1>0 DEF PlaceInv, TypeOK
    <3> QED
      BY <3>1, FS_EmptySet, CliAssumption
  <2>2. Closing = 0 /\ Closing' = 0
    BY <1>0, <1>3 DEF Closing, At, Running
  <2> QED
    BY <1>0, <1>3, <2>1, <2>2, QuietSymbols DEF ReadEnd, Running
<1> QED
  BY <1>2, <1>4, <1>5, <1>6, <1>7

\* There are never more symbols than the wrapped text has.
LEMMA WithinText ==
  ASSUME IndInv
  PROVE  Reported + Len(iov) <= WrappedLen(EncodedLen(size), wrap)
<1> USE DEF IndInv
<1> DEFINE n == EncodedLen(size)
<1>1. size \in Nat /\ wrap \in Nat /\ n \in Nat /\ lo \in Nat /\ col \in Nat
  BY Sizes DEF TypeOK
<1>2. lo <= n /\ (Closing = 1 => lo = n)
  <2>1. given <= n
    <3>1. fed \in Nat /\ fed <= size
      BY DEF ReadInv, TypeOK
    <3>2. /\ EncPrefixLen(fed) <= EncPrefixLen(size)
          /\ EncPrefixLen(size) <= EncodedLen(size)
          /\ EncPrefixLen(fed) \in Nat /\ EncPrefixLen(size) \in Nat
      BY <3>1, <1>1, Lengths
    <3> QED
      BY <3>2, <1>1 DEF ReadInv
  <2>2. lo <= given /\ given \in Nat
    BY DEF ReadInv, TypeOK
  <2>3. Closing = 1 => lo = given /\ tail
    BY DEF Closing, ReadInv
  <2>4. tail => given = n
    BY DEF ReadInv
  <2> HIDE DEF n
  <2> QED
    BY <1>1, <2>1, <2>2, <2>3, <2>4
<1> SUFFICES ASSUME exit # 1
             PROVE  Reported + Len(iov) <= WrappedLen(n, wrap)
  BY DEF PlacedInv
<1> PICK lines \in Nat :
      /\ lines * wrap + col = IF wrap = 0 THEN 0 ELSE lo
      /\ wrap = 0 => lines = 0
      /\ Reported + Len(iov) = lo + lines + Closing
  BY DEF PlacedInv
<1>3. Closing \in {0, 1} /\ (Closing = 1 => col > 0)
  BY DEF Closing
<1> HIDE DEF n
<1>4. CASE wrap = 0
  <2>1. Closing = 0
    BY <1>3, <1>4, <1>1 DEF ColumnInv
  <2> QED
    BY <1>1, <1>2, <1>4, <2>1 DEF WrappedLen
<1>5. CASE wrap # 0
  <2>1. col \in 0 .. wrap
    BY <1>1, <1>5 DEF ColumnInv
  <2>2. lines * wrap + col = lo
    BY <1>5
  <2>3. wrap \in Nat \ {0}
    BY <1>1, <1>5
  <2>4. /\ lo <= n => lo + lines <= WrappedLen(n, wrap)
        /\ lo <= n /\ col > 0 => lo + lines + 1 <= WrappedLen(n, wrap)
    BY <2>1, <2>2, <2>3, <1>1, LengthSoFar
  <2>5. WrappedLen(n, wrap) \in Int
    <3>1. n + wrap - 1 \in Nat
      BY <2>3, <1>1
    <3>2. (n + wrap - 1) \div wrap \in Int
      BY <3>1, <2>3, Remainder
    <3> QED
      BY <3>2, <1>1, <1>5 DEF WrappedLen
  <2> QED
    BY <1>1, <1>2, <1>3, <2>4, <2>5
<1> QED
  BY <1>4, <1>5

LEMMA ReadFailsInv == IndInv /\ ReadFails => IndInv'
<1> SUFFICES ASSUME IndInv, ReadFails PROVE IndInv'
  OBVIOUS
<1> USE DEF IndInv
<1>0. /\ pc = "read" /\ pc' = "exit" /\ ferror' = TRUE /\ exit' = 1
      /\ UNCHANGED <<size, wrap, fed, given, lo, tail, col, iov, cuts, nwrite,
                     stdout, resume, again>>
  BY DEF ReadFails
<1>1. TypeOK'
  BY <1>0 DEF TypeOK
<1>2. ReadInv'
  BY <1>0 DEF ReadInv, At
<1>3. PlaceInv'
  BY <1>0 DEF PlaceInv, FailsOnlyOnError, Running
<1>4. ColumnInv'
  BY <1>0 DEF ColumnInv, At
<1>5. CutsInv'
  BY <1>0 DEF CutsInv
<1>6. Reported' = Reported
  BY <1>0 DEF Reported
<1>7. SymbolInv'
  BY <1>0, <1>6 DEF SymbolInv
<1>8. PlacedInv'
  BY <1>0, <1>6, WithinText DEF PlacedInv
<1> QED
  BY <1>1, <1>2, <1>3, <1>4, <1>5, <1>7, <1>8

LEMMA GiveUpInv == IndInv /\ GiveUp => IndInv'
<1> SUFFICES ASSUME IndInv, GiveUp PROVE IndInv'
  OBVIOUS
<1> USE DEF IndInv
<1>0. /\ pc = "trim" /\ pc' = "exit" /\ nwrite = Failed /\ exit' = 1
      /\ UNCHANGED <<size, wrap, fed, ferror, given, lo, tail, col, iov, cuts,
                     nwrite, stdout, resume, again>>
  BY DEF GiveUp
<1>1. TypeOK'
  BY <1>0 DEF TypeOK
<1>2. ReadInv'
  BY <1>0 DEF ReadInv, At
<1>3. PlaceInv'
  BY <1>0 DEF PlaceInv, FailsOnlyOnError, Running
<1>4. ColumnInv'
  BY <1>0 DEF ColumnInv, At
<1>5. CutsInv'
  BY <1>0 DEF CutsInv
<1>6. Reported' = Reported
  BY <1>0 DEF Reported, Failed
<1>7. SymbolInv'
  BY <1>0, <1>6 DEF SymbolInv
<1>8. PlacedInv'
  BY <1>0, <1>6, WithinText DEF PlacedInv
<1> QED
  BY <1>1, <1>2, <1>3, <1>4, <1>5, <1>7, <1>8

LEMMA DoneInv == IndInv /\ Done => IndInv'
<1> SUFFICES ASSUME IndInv, Done PROVE IndInv'
  OBVIOUS
<1> USE DEF IndInv
<1>0. /\ pc = "done" /\ pc' = "exit" /\ exit' = 0
      /\ UNCHANGED <<size, wrap, fed, ferror, given, lo, tail, col, iov, cuts,
                     nwrite, stdout, resume, again>>
  BY DEF Done
<1>1. TypeOK'
  BY <1>0 DEF TypeOK
<1>2. ReadInv'
  BY <1>0 DEF ReadInv, At
<1>3. PlaceInv'
  BY <1>0 DEF PlaceInv, FailsOnlyOnError, Running
<1>4. exit # 1
  BY <1>0 DEF PlaceInv, Running
<1>5. ColumnInv'
  BY <1>0, <1>4 DEF ColumnInv, At
<1>6. Closing' = Closing
  BY <1>0 DEF Closing, At
<1>7. SymbolInv' /\ CutsInv' /\ PlacedInv'
  BY <1>0, <1>4, <1>6, QuietSymbols
<1> QED
  BY <1>1, <1>2, <1>3, <1>5, <1>7

LEMMA WrapPartialInv == IndInv /\ WrapPartial => IndInv'
<1> SUFFICES ASSUME IndInv, WrapPartial PROVE IndInv'
  OBVIOUS
<1> USE DEF IndInv
<1>0. /\ pc = "endline" /\ pc' = "wrap" /\ col # wrap
      /\ UNCHANGED <<size, wrap, fed, ferror, given, lo, tail, col, iov, cuts,
                     nwrite, stdout, resume, exit, again>>
  BY DEF WrapPartial
<1>1. TypeOK'
  BY <1>0 DEF TypeOK
<1>2. ReadInv'
  BY <1>0 DEF ReadInv, At
<1>3. wrap # 0
  BY <1>0 DEF ColumnInv, At
<1>4. PlaceInv'
  BY <1>0, <1>3 DEF PlaceInv, FailsOnlyOnError, Running
<1>5. exit = Running
  BY <1>0 DEF PlaceInv, Running
<1>6. ColumnInv'
  <2>1. col <= wrap /\ col \in Nat /\ wrap \in Nat
    BY <1>0, <1>3, Sizes DEF ColumnInv, At, TypeOK
  <2> QED
    BY <1>0, <1>3, <2>1 DEF ColumnInv, At
<1>7. Closing' = Closing
  BY <1>0 DEF Closing, At
<1>8. SymbolInv' /\ CutsInv' /\ PlacedInv'
  <2>1. Cardinality(cuts) < IovMax
    BY <1>0 DEF CutsInv
  <2> QED
    BY <1>0, <1>5, <1>7, <2>1, QuietSymbols DEF Running
<1> QED
  BY <1>1, <1>2, <1>4, <1>6, <1>8

LEMMA RetryInv == IndInv /\ Retry => IndInv'
<1> SUFFICES ASSUME IndInv, Retry PROVE IndInv'
  OBVIOUS
<1> USE DEF IndInv
<1>0. /\ pc = "trim" /\ pc' = "writev" /\ nwrite = Interrupted
      /\ UNCHANGED <<size, wrap, fed, ferror, given, lo, tail, col, iov, cuts,
                     nwrite, stdout, resume, exit, again>>
  BY DEF Retry
<1>1. TypeOK'
  BY <1>0 DEF TypeOK
<1>2. ReadInv'
  BY <1>0 DEF ReadInv, At
<1>3. PlaceInv'
  BY <1>0 DEF PlaceInv, FailsOnlyOnError, Running
<1>4. ColumnInv'
  BY <1>0 DEF ColumnInv, At
<1>5. CutsInv'
  BY <1>0 DEF CutsInv
<1>6. Reported' = Reported /\ Closing' = Closing
  BY <1>0 DEF Reported, Closing, At, Interrupted
<1>7. SymbolInv'
  BY <1>0, <1>6 DEF SymbolInv
<1>8. PlacedInv'
  BY <1>0, <1>6 DEF PlacedInv
<1> QED
  BY <1>1, <1>2, <1>3, <1>4, <1>5, <1>7, <1>8

-----------------------------------------------------------------------------
(* The system writes, or refuses.                                          *)

LEMMA WriteSomeInv == IndInv /\ WriteSome => IndInv'
<1> SUFFICES ASSUME IndInv, WriteSome PROVE IndInv'
  OBVIOUS
<1> USE DEF IndInv
<1>0. /\ pc = "writev" /\ pc' = "trim"
      /\ UNCHANGED <<size, wrap, fed, ferror, given, lo, tail, col, iov, cuts,
                     resume, exit, again>>
  BY DEF WriteSome
<1>1. PICK n \in 1..Len(iov) : nwrite' = n /\ stdout' = stdout \o SubSeq(iov, 1, n)
  BY DEF WriteSome
<1> DEFINE x == SubSeq(iov, 1, n)
<1>2. iov \in Seq(Nat) /\ stdout \in Seq(Nat) /\ again \in Nat /\ n \in Nat
  BY DEF TypeOK
<1>3. x \in Seq(Nat) /\ Len(x) = n /\ \A i \in 1..n : x[i] = iov[i]
  <2>1. \A i \in 1..n : iov[i] \in Nat
    BY <1>2
  <2> QED
    BY <2>1, <1>2, SubSeqProperties
<1> HIDE DEF x
<1>4. /\ stdout' \in Seq(Nat) /\ Len(stdout') = Len(stdout) + n
      /\ \A i \in 1 .. Len(stdout) + n :
           stdout'[i] = IF i <= Len(stdout) THEN stdout[i] ELSE x[i - Len(stdout)]
  <2>1. stdout' = stdout \o x
    BY <1>1 DEF x
  <2>2. /\ stdout \o x \in Seq(Nat) /\ Len(stdout \o x) = Len(stdout) + Len(x)
        /\ \A i \in 1 .. Len(stdout) + Len(x) :
             (stdout \o x)[i] = IF i <= Len(stdout) THEN stdout[i]
                                ELSE x[i - Len(stdout)]
    BY <1>2, <1>3, ConcatProperties
  <2> QED
    BY <1>3, <2>1, <2>2
<1>5. TypeOK'
  BY <1>0, <1>1, <1>2, <1>4 DEF TypeOK
<1>6. ReadInv'
  BY <1>0 DEF ReadInv, At
<1>7. PlaceInv'
  BY <1>0, <1>1, <1>2 DEF PlaceInv, FailsOnlyOnError, Running
<1>8. ColumnInv'
  BY <1>0 DEF ColumnInv, At
<1>9. CutsInv'
  BY <1>0 DEF CutsInv
<1>10. Reported' = Reported /\ Closing' = Closing /\ Reported = Len(stdout) - again
  BY <1>0, <1>1, <1>2, <1>4 DEF Reported, Closing, At
<1>11. SymbolInv'
  <2>1. Reported' \in Nat /\ \A p \in 1..Len(iov') :
          iov'[p] = WrappedSymbol(EncodedLen(size'), wrap', Reported' + p)
    BY <1>0, <1>10 DEF SymbolInv
  <2>2. ASSUME again = 0, NEW p \in 1..Len(stdout')
        PROVE  stdout'[p] = WrappedSymbol(EncodedLen(size), wrap, p)
    <3>1. CASE p <= Len(stdout)
      BY <1>2, <1>4, <2>2, <3>1, SMTT(30) DEF SymbolInv
    <3>2. CASE p > Len(stdout)
      <4> DEFINE i == p - Len(stdout)
      <4>1. i \in 1..n /\ i \in 1..Len(iov) /\ Reported + i = p
        BY <1>2, <1>4, <1>10, <2>2, <3>2
      <4>2. stdout'[p] = iov[i]
        BY <1>2, <1>3, <1>4, <2>2, <3>2, <4>1, SMTT(30)
      <4> HIDE DEF i
      <4> QED
        BY <4>1, <4>2 DEF SymbolInv
    <3> QED
      BY <3>1, <3>2, <1>2, <1>4
  <2> QED
    <3>1. again' = 0 => \A p \in 1..Len(stdout') :
            stdout'[p] = WrappedSymbol(EncodedLen(size'), wrap', p)
      BY <1>0, <2>2
    <3> QED
      BY <2>1, <3>1 DEF SymbolInv
<1>12. PlacedInv'
  BY <1>0, <1>10 DEF PlacedInv
<1> QED
  BY <1>5, <1>6, <1>7, <1>8, <1>9, <1>11, <1>12

\* What the emulated writev does not report is on stdout and still in the vectors.
LEMMA WriteErrorInv == IndInv /\ WriteError => IndInv'
<1> SUFFICES ASSUME IndInv, WriteError PROVE IndInv'
  OBVIOUS
<1> USE DEF IndInv
<1>0. /\ pc = "writev" /\ pc' = "trim" /\ nwrite' \in {Interrupted, Failed}
      /\ UNCHANGED <<size, wrap, fed, ferror, given, lo, tail, col, iov, cuts,
                     resume, exit>>
  BY DEF WriteError
<1>1. PICK c \in {0} \cup cuts : /\ c < Len(iov)
                                 /\ stdout' = stdout \o SubSeq(iov, 1, c)
                                 /\ again' = again + c
  BY DEF WriteError
<1> DEFINE x == SubSeq(iov, 1, c)
<1>2. iov \in Seq(Nat) /\ stdout \in Seq(Nat) /\ again \in Nat /\ c \in 0..Len(iov)
  BY <1>1 DEF TypeOK
<1>3. x \in Seq(Nat) /\ Len(x) = c
  <2>1. \A i \in 1..c : iov[i] \in Nat
    BY <1>2
  <2> QED
    BY <2>1, <1>2, SubSeqProperties
<1> HIDE DEF x
<1>4. stdout' \in Seq(Nat) /\ Len(stdout') = Len(stdout) + c
  <2>1. stdout' = stdout \o x
    BY <1>1 DEF x
  <2> QED
    BY <1>2, <1>3, <2>1, ConcatProperties
<1>5. TypeOK'
  BY <1>0, <1>1, <1>2, <1>4 DEF TypeOK
<1>6. ReadInv'
  BY <1>0 DEF ReadInv, At
<1>7. PlaceInv'
  BY <1>0, <1>2 DEF PlaceInv, FailsOnlyOnError, Running, Interrupted, Failed
<1>8. ColumnInv'
  BY <1>0 DEF ColumnInv, At
<1>9. CutsInv'
  BY <1>0 DEF CutsInv
<1>10. Reported' = Reported /\ Closing' = Closing
  <2>1. Reported = Len(stdout) - again /\ Reported' = Len(stdout') - again'
    <3>1. ~ (nwrite' > 0)
      BY <1>0 DEF Interrupted, Failed
    <3> QED
      BY <1>0, <1>2, <1>4, <3>1, <1>1 DEF Reported
  <2>2. Closing' = Closing
    BY <1>0 DEF Closing, At
  <2> QED
    BY <1>1, <1>2, <1>4, <2>1, <2>2
<1>11. SymbolInv'
  <2>1. Reported' \in Nat /\ \A p \in 1..Len(iov') :
          iov'[p] = WrappedSymbol(EncodedLen(size'), wrap', Reported' + p)
    BY <1>0, <1>10 DEF SymbolInv
  <2>2. again' = 0 => again = 0 /\ stdout' = stdout
    <3>1. again' = 0 => again = 0 /\ c = 0
      BY <1>1, <1>2
    <3>2. c = 0 => stdout' = stdout
      <4>1. c = 0 => x = <<>>
        BY <1>3
      <4> QED
        BY <1>1, <1>2, <4>1, ConcatEmptySeq DEF x
    <3> QED
      BY <3>1, <3>2
  <2> QED
    <3>1. again' = 0 => \A p \in 1..Len(stdout') :
            stdout'[p] = WrappedSymbol(EncodedLen(size'), wrap', p)
      BY <1>0, <2>2 DEF SymbolInv
    <3> QED
      BY <2>1, <3>1 DEF SymbolInv
<1>12. PlacedInv'
  BY <1>0, <1>10 DEF PlacedInv
<1> QED
  BY <1>5, <1>6, <1>7, <1>8, <1>9, <1>11, <1>12

\* The ends that remain are no more than there were.
LEMMA FewerCuts ==
  ASSUME NEW S \in SUBSET Nat, IsFiniteSet(S), NEW n \in Nat
  PROVE  LET T == {c - n : c \in {d \in S : d > n}}
         IN IsFiniteSet(T) /\ Cardinality(T) <= Cardinality(S)
<1> DEFINE T == {c - n : c \in {d \in S : d > n}}
           f == [t \in T |-> t + n]
<1>1. \A t \in T : t \in Nat /\ t + n \in S
  OBVIOUS
<1>2. f \in [T -> S]
  BY <1>1
<1>3. ASSUME NEW a \in T, NEW b \in T, f[a] = f[b] PROVE a = b
  <2>1. f[a] = a + n /\ f[b] = b + n
    OBVIOUS
  <2>2. a \in Nat /\ b \in Nat
    BY <1>1
  <2> QED
    BY <1>3, <2>1, <2>2
<1> HIDE DEF f, T
<1>4. f \in Injection(T, S)
  BY <1>2, <1>3 DEF Injection, IsInjective
<1>5. IsFiniteSet(T) /\ Cardinality(T) <= Cardinality(S)
  BY <1>4, FS_Injection
<1> QED
  BY <1>5 DEF T

LEMMA TrimInv == IndInv /\ Trim => IndInv'
<1> SUFFICES ASSUME IndInv, Trim PROVE IndInv'
  OBVIOUS
<1> USE DEF IndInv
<1>0. /\ pc = "trim" /\ pc' = IF iov' = <<>> THEN resume ELSE "writev"
      /\ nwrite > 0 /\ Drop(nwrite)
      /\ UNCHANGED <<size, wrap, fed, ferror, given, lo, tail, col, nwrite,
                     stdout, resume, exit, again>>
  BY DEF Trim
<1> DEFINE n == nwrite
<1>1. /\ n \in 1..Len(iov) /\ iov \in Seq(Nat) /\ Len(iov) \in Nat
      /\ stdout \in Seq(Nat) /\ again \in Nat /\ Len(stdout) \in Nat
      /\ resume \in {"wrap", "endline", "written", "done"}
      /\ cuts \subseteq 1..Len(iov)
  BY <1>0 DEF TypeOK, PlaceInv, Interrupted, Failed
<1>2. /\ iov' = SubSeq(iov, n + 1, Len(iov))
      /\ cuts' = {c - n : c \in {d \in cuts : d > n}}
  BY <1>0 DEF Drop
<1> HIDE DEF n
<1>3. /\ iov' \in Seq(Nat) /\ Len(iov') = Len(iov) - n
      /\ \A i \in 1 .. Len(iov) - n : iov'[i] = iov[n + i]
  <2>1. \A i \in n + 1 .. Len(iov) : iov[i] \in Nat
    BY <1>1
  <2>2. /\ SubSeq(iov, n + 1, Len(iov)) \in Seq(Nat)
        /\ Len(SubSeq(iov, n + 1, Len(iov))) =
             IF n + 1 <= Len(iov) THEN Len(iov) - (n + 1) + 1 ELSE 0
        /\ \A i \in 1 .. Len(iov) - (n + 1) + 1 :
             SubSeq(iov, n + 1, Len(iov))[i] = iov[n + 1 + i - 1]
    <3>1. n + 1 \in Int /\ Len(iov) \in Int
      BY <1>1
    <3> QED
      BY <2>1, <3>1, SubSeqProperties
  <2>3. Len(iov') = Len(iov) - n
    BY <1>1, <1>2, <2>2
  <2>4. ASSUME NEW i \in 1 .. Len(iov) - n PROVE iov'[i] = iov[n + i]
    <3>1. i \in 1 .. Len(iov) - (n + 1) + 1 /\ n + 1 + i - 1 = n + i
      BY <1>1
    <3> QED
      BY <3>1, <2>2, <1>2
  <2> QED
    BY <1>2, <2>2, <2>3, <2>4
<1>4. iov' = <<>> <=> Len(iov') = 0
  BY <1>3, EmptySeq
<1>5. cuts' \subseteq 1..Len(iov')
  BY <1>1, <1>2, <1>3, SMTT(30)
<1>6. exit = Running /\ pc' # "exit" /\ pc' # "trim" /\ pc' # "read"
  BY <1>0, <1>1 DEF PlaceInv
<1>7. /\ At("wrap")' <=> At("wrap")
      /\ At("endline")' <=> At("endline")
      /\ At("written")' <=> At("written")
      /\ At("done")' <=> At("done")
      /\ ~ At("read")'
  BY <1>0, <1>1 DEF At
<1>8. TypeOK'
  BY <1>0, <1>1, <1>3, <1>5 DEF TypeOK
<1>9. ReadInv'
  BY <1>0, <1>7 DEF ReadInv
<1>10. PlaceInv'
  BY <1>0, <1>1, <1>6 DEF PlaceInv, FailsOnlyOnError, Running
<1>11. ColumnInv'
  <2>1. wrap = 0 => ~ At("wrap")
    BY <1>0 DEF ColumnInv
  <2> QED
    BY <1>0, <1>7, <2>1 DEF ColumnInv
<1>12. CutsInv'
  <2>1. iov' # <<>> => Len(iov') \in cuts'
    <3> SUFFICES ASSUME iov' # <<>> PROVE Len(iov') \in cuts'
      OBVIOUS
    <3>1. Len(iov) > n
      BY <1>1, <1>3, <1>4
    <3>2. Len(iov) \in cuts
      BY <1>0 DEF CutsInv, PlaceInv
    <3> QED
      BY <3>1, <3>2, <1>2, <1>3
  <2>2. IsFiniteSet(cuts) /\ cuts \in SUBSET Nat /\ Cardinality(cuts) \in Nat
    <3>1. IsFiniteSet(1..Len(iov))
      BY <1>1, FS_Interval
    <3>2. IsFiniteSet(cuts)
      BY <3>1, <1>1, FS_Subset
    <3> QED
      BY <3>2, <1>1, FS_CardinalityType
  <2>3. IsFiniteSet(cuts') /\ Cardinality(cuts') <= Cardinality(cuts)
    <3>1. n \in Nat
      BY <1>1
    <3> QED
      BY <3>1, <2>2, <1>2, FewerCuts
  <2>4. Cardinality(cuts') \in Nat /\ Cardinality(cuts') <= IovMax
    <3>1. Cardinality(cuts') \in Nat
      BY <2>3, FS_CardinalityType
    <3> QED
      BY <3>1, <2>2, <2>3, CliAssumption DEF CutsInv
  <2>5. pc' \in {"wrap", "endline"} => Cardinality(cuts') < IovMax
    <3>1. pc' \in {"wrap", "endline"} => cuts' = {}
      BY <1>0, <1>4, <1>5
    <3> QED
      BY <3>1, FS_EmptySet, CliAssumption
  <2> QED
    BY <2>1, <2>4, <2>5 DEF CutsInv
<1>13. /\ Reported' = Reported + n /\ Reported \in Nat
       /\ Closing' = Closing
  <2>1. Reported = Len(stdout) - again - n /\ Reported' = Len(stdout) - again
    BY <1>0, <1>1, <1>6 DEF Reported, n
  <2>2. Closing' = Closing
    BY <1>0, <1>7 DEF Closing
  <2> QED
    BY <1>1, <2>1, <2>2 DEF SymbolInv
<1>14. SymbolInv'
  <2>1. ASSUME NEW p \in 1..Len(iov')
        PROVE  iov'[p] = WrappedSymbol(EncodedLen(size'), wrap', Reported' + p)
    <3>1. p \in 1 .. Len(iov) - n /\ n + p \in 1..Len(iov)
      BY <1>1, <1>3
    <3>2. Reported' + p = Reported + (n + p)
      BY <1>1, <1>13
    <3>3. iov[n + p] = WrappedSymbol(EncodedLen(size), wrap, Reported + (n + p))
      BY <3>1 DEF SymbolInv
    <3> QED
      BY <1>0, <1>3, <3>1, <3>2, <3>3
  <2>2. Reported' \in Nat
    BY <1>1, <1>13
  <2>3. again' = 0 => \A p \in 1..Len(stdout') :
          stdout'[p] = WrappedSymbol(EncodedLen(size'), wrap', p)
    BY <1>0 DEF SymbolInv
  <2> QED
    BY <2>1, <2>2, <2>3 DEF SymbolInv
<1>15. PlacedInv'
  <2> PICK lines \in Nat :
         /\ lines * wrap + col = IF wrap = 0 THEN 0 ELSE lo
         /\ wrap = 0 => lines = 0
         /\ Reported + Len(iov) = lo + lines + Closing
    BY <1>6 DEF PlacedInv, Running
  <2>1. Reported' + Len(iov') = Reported + Len(iov)
    BY <1>1, <1>3, <1>13
  <2>2. /\ lines * wrap' + col' = IF wrap' = 0 THEN 0 ELSE lo'
        /\ wrap' = 0 => lines = 0
        /\ Reported' + Len(iov') = lo' + lines + Closing'
    BY <1>0, <1>13, <2>1
  <2> QED
    BY <1>0, <1>6, <2>2 DEF PlacedInv, Running
<1> QED
  BY <1>8, <1>9, <1>10, <1>11, <1>12, <1>14, <1>15

-----------------------------------------------------------------------------
(* Filling vectors.                                                        *)

\* A vector is appended whose symbols come next.
LEMMA AppendInv ==
  ASSUME IndInv, NEW v \in Seq(Nat), Len(v) > 0, NEW p, Append1(v, p),
         pc \in {"wrap", "endline"}, p \in {"wrap", "endline"},
         UNCHANGED <<size, wrap, stdout, again>>,
         \A i \in 1..Len(v) :
           v[i] = WrappedSymbol(EncodedLen(size), wrap, Reported + Len(iov) + i)
  PROVE  /\ iov' \in Seq(Nat) /\ Len(iov') = Len(iov) + Len(v) /\ iov' # <<>>
         /\ cuts' \subseteq 1..Len(iov')
         /\ pc' \in {p, "writev"} /\ (pc' = "writev" => resume' = p)
         /\ resume' \in {resume, p}
         /\ Reported' = Reported /\ CutsInv' /\ SymbolInv'
<1> USE DEF IndInv
<1>1. /\ iov' = iov \o v
      /\ cuts' = cuts \cup {Len(iov')}
      /\ IF Cardinality(cuts') = IovMax THEN pc' = "writev" /\ resume' = p
                                        ELSE pc' = p /\ UNCHANGED resume
  BY DEF Append1
<1>2. /\ iov \in Seq(Nat) /\ Len(iov) \in Nat /\ Len(v) \in Nat
      /\ cuts \subseteq 1..Len(iov)
      /\ stdout \in Seq(Nat) /\ again \in Nat
  BY DEF TypeOK
<1>3. /\ iov' \in Seq(Nat) /\ Len(iov') = Len(iov) + Len(v)
      /\ \A i \in 1 .. Len(iov) + Len(v) :
           iov'[i] = IF i <= Len(iov) THEN iov[i] ELSE v[i - Len(iov)]
  <2>1. /\ iov \o v \in Seq(Nat) /\ Len(iov \o v) = Len(iov) + Len(v)
        /\ \A i \in 1 .. Len(iov) + Len(v) :
             (iov \o v)[i] = IF i <= Len(iov) THEN iov[i] ELSE v[i - Len(iov)]
    BY <1>2, ConcatProperties
  <2> QED
    BY <1>1, <2>1
<1>4. iov' # <<>>
  BY <1>2, <1>3
<1>5. cuts' \subseteq 1..Len(iov')
  <2>1. Len(iov') \in 1..Len(iov') /\ Len(iov) <= Len(iov')
    BY <1>2, <1>3
  <2>2. cuts' = cuts \cup {Len(iov')}
    BY <1>1
  <2>3. \A c \in cuts : c \in 1..Len(iov')
    BY <1>2, <2>1
  <2> QED
    BY <2>1, <2>2, <2>3, Zenon
<1>6. /\ pc' \in {p, "writev"} /\ (pc' = "writev" => resume' = p)
      /\ resume' \in {resume, p}
  BY <1>1
<1>7. Reported' = Reported
  <2>1. pc # "trim" /\ pc' # "trim"
    BY <1>6
  <2> QED
    BY <2>1 DEF Reported
<1>8. CutsInv'
  <2>1. IsFiniteSet(cuts) /\ Cardinality(cuts) \in Nat
    <3>1. IsFiniteSet(1..Len(iov))
      BY <1>2, FS_Interval
    <3>2. IsFiniteSet(cuts)
      BY <3>1, <1>2, FS_Subset
    <3> QED
      BY <3>2, FS_CardinalityType
  <2>2. /\ Cardinality(cuts') \in Nat
        /\ Cardinality(cuts') <= Cardinality(cuts) + 1
    <3>1. Cardinality(cuts') =
            IF Len(iov') \in cuts THEN Cardinality(cuts) ELSE Cardinality(cuts) + 1
      BY <1>1, <2>1, FS_AddElement
    <3> QED
      BY <3>1, <2>1
  <2>3. Cardinality(cuts') <= IovMax
    BY <2>1, <2>2, CliAssumption DEF CutsInv
  <2>4. pc' \in {"wrap", "endline"} => Cardinality(cuts') < IovMax
    <3>1. pc' \in {"wrap", "endline"} => Cardinality(cuts') # IovMax
      BY <1>1
    <3> QED
      BY <3>1, <2>2, <2>3, CliAssumption
  <2> QED
    BY <1>1, <2>3, <2>4 DEF CutsInv
<1>9. SymbolInv'
  <2>1. ASSUME NEW q \in 1..Len(iov')
        PROVE  iov'[q] = WrappedSymbol(EncodedLen(size'), wrap', Reported' + q)
    <3>1. CASE q <= Len(iov)
      <4>1. iov'[q] = iov[q] /\ q \in 1..Len(iov)
        BY <1>2, <1>3, <3>1
      <4> QED
        BY <4>1, <1>7 DEF SymbolInv
    <3>2. CASE q > Len(iov)
      <4> DEFINE i == q - Len(iov)
      <4>1. i \in 1..Len(v) /\ iov'[q] = v[i]
        BY <1>2, <1>3, <3>2
      <4>2. Reported + Len(iov) + i = Reported + q
        BY <1>2, <3>2 DEF SymbolInv
      <4> HIDE DEF i
      <4> QED
        BY <4>1, <4>2, <1>7
    <3> QED
      BY <3>1, <3>2, <1>2, <1>3
  <2> QED
    BY <2>1, <1>7 DEF SymbolInv
<1> QED
  BY <1>3, <1>4, <1>5, <1>6, <1>7, <1>8, <1>9

LEMMA WrapCharsInv == IndInv /\ WrapChars => IndInv'
<1> SUFFICES ASSUME IndInv, WrapChars PROVE IndInv'
  OBVIOUS
<1> USE DEF IndInv
<1> DEFINE n == Min2(wrap - col, given - lo)
           v == Chars(lo, lo + n)
<1>0. /\ pc = "wrap" /\ wrap > 0 /\ lo < given
      /\ lo' = lo + n /\ col' = col + n /\ Append1(v, "endline")
      /\ UNCHANGED <<size, wrap, fed, ferror, given, tail, nwrite, stdout, exit,
                     again>>
  BY DEF WrapChars
<1>1. /\ size \in Nat /\ wrap \in Nat \ {0} /\ EncodedLen(size) \in Nat
      /\ lo \in Nat /\ given \in Nat /\ col \in Nat /\ Len(iov) \in Nat
      /\ Reported \in Nat
  BY <1>0, Sizes DEF TypeOK, SymbolInv
<1>2. exit = Running /\ exit # 0 /\ exit # 1
  BY <1>0 DEF PlaceInv, Running
<1>3. col < wrap
  <2>1. ~ At("endline") /\ wrap # 0
    BY <1>0, <1>1 DEF At
  <2> QED
    BY <1>2, <2>1 DEF ColumnInv
<1>4. /\ n \in Nat \ {0} /\ col + n <= wrap /\ lo + n <= given
  BY <1>0, <1>1, <1>3 DEF Min2
<1>5. given <= EncodedLen(size)
  <2>1. fed \in Nat /\ fed <= size
    BY DEF ReadInv, TypeOK
  <2>2. /\ EncPrefixLen(fed) <= EncPrefixLen(size)
        /\ EncPrefixLen(size) <= EncodedLen(size)
        /\ EncPrefixLen(fed) \in Nat /\ EncPrefixLen(size) \in Nat
    BY <2>1, <1>1, Lengths
  <2> QED
    BY <2>2, <1>1 DEF ReadInv
<1>6. v \in Seq(Nat) /\ Len(v) = n /\ \A i \in 1..n : v[i] = lo + i
  <2> HIDE DEF n
  <2>1. (lo + n) - lo = n
    BY <1>1, <1>4
  <2>2. v = [i \in 1 .. (lo + n) - lo |-> lo + i]
    BY DEF Chars
  <2> HIDE DEF v
  <2>3. v = [i \in 1..n |-> lo + i]
    BY <2>1, <2>2
  <2> QED
    BY <1>1, <1>4, <2>3
<1>7. Closing = 0
  BY <1>0, <1>2 DEF Closing, At
<1> PICK lines \in Nat :
       /\ lines * wrap + col = lo
       /\ Reported + Len(iov) = lo + lines
  <2>1. PICK lines \in Nat :
         /\ lines * wrap + col = IF wrap = 0 THEN 0 ELSE lo
         /\ wrap = 0 => lines = 0
         /\ Reported + Len(iov) = lo + lines + Closing
    BY <1>2 DEF PlacedInv
  <2>2. Reported + Len(iov) = lo + lines
    BY <1>1, <1>7, <2>1
  <2> QED
    BY <1>1, <2>1, <2>2
<1> HIDE DEF n, v
<1>8. ASSUME NEW i \in 1..n
      PROVE  WrappedSymbol(EncodedLen(size), wrap, Reported + Len(iov) + i) = lo + i
  <2> DEFINE c == col + i - 1
  <2>1. c \in 0 .. wrap /\ c # wrap
    BY <1>1, <1>4
  <2>2. lines * wrap \in Nat
    BY <1>1
  <2>3. /\ Reported + Len(iov) + i = Place(lines, wrap, c)
        /\ lo + i = Character(lines, wrap, c)
    BY <1>1, <1>4, <2>2 DEF Place, Character
  <2>4. ~ (lo + i > EncodedLen(size))
    BY <1>1, <1>4, <1>5
  <2> HIDE DEF c
  <2>5. WrappedSymbol(EncodedLen(size), wrap, Place(lines, wrap, c)) =
          IF c = wrap \/ Character(lines, wrap, c) > EncodedLen(size) THEN Newline
          ELSE Character(lines, wrap, c)
    BY <1>1, <2>1, LineSymbol
  <2> QED
    BY <2>1, <2>3, <2>4, <2>5
<1>9. /\ iov' \in Seq(Nat) /\ Len(iov') = Len(iov) + n /\ iov' # <<>>
      /\ cuts' \subseteq 1..Len(iov')
      /\ pc' \in {"endline", "writev"} /\ (pc' = "writev" => resume' = "endline")
      /\ resume' \in {resume, "endline"}
      /\ Reported' = Reported /\ CutsInv' /\ SymbolInv'
  <2>1. Len(v) > 0
    BY <1>4, <1>6
  <2>2. \A i \in 1..Len(v) :
           v[i] = WrappedSymbol(EncodedLen(size), wrap, Reported + Len(iov) + i)
    BY <1>6, <1>8
  <2> QED
    BY <1>0, <1>6, <2>1, <2>2, AppendInv
<1>10. TypeOK'
  <2>1. lo' \in Nat /\ col' \in Nat
    BY <1>0, <1>1, <1>4
  <2> QED
    BY <1>0, <1>9, <2>1 DEF TypeOK
<1>11. At("endline")' /\ \A p \in {"read", "wrap", "written", "done"} : ~ At(p)'
  BY <1>9 DEF At
<1>12. ReadInv'
  BY <1>0, <1>1, <1>2, <1>4, <1>11 DEF ReadInv
<1>13. PlaceInv'
  BY <1>0, <1>2, <1>9 DEF PlaceInv, FailsOnlyOnError, Running
<1>14. ColumnInv'
  BY <1>0, <1>1, <1>4, <1>11 DEF ColumnInv
<1>15. PlacedInv'
  <2>1. Closing' = 0
    BY <1>0, <1>2, <1>11 DEF Closing
  <2>2. lines * wrap \in Nat
    BY <1>1
  <2>3. /\ lines * wrap' + col' = IF wrap' = 0 THEN 0 ELSE lo'
        /\ wrap' = 0 => lines = 0
        /\ Reported' + Len(iov') = lo' + lines + Closing'
    BY <1>0, <1>1, <1>4, <1>9, <2>1, <2>2, SMTT(30)
  <2> QED
    BY <1>0, <1>2, <2>3 DEF PlacedInv
<1> QED
  BY <1>9, <1>10, <1>12, <1>13, <1>14, <1>15

LEMMA WrapNewlineInv == IndInv /\ WrapNewline => IndInv'
<1> SUFFICES ASSUME IndInv, WrapNewline PROVE IndInv'
  OBVIOUS
<1> USE DEF IndInv
<1> DEFINE v == <<Newline>>
<1>0. /\ pc = "endline" /\ col = wrap /\ col' = 0 /\ Append1(v, "wrap")
      /\ UNCHANGED <<size, wrap, fed, ferror, given, lo, tail, nwrite, stdout,
                     exit, again>>
  BY DEF WrapNewline
<1>1. wrap # 0
  BY <1>0 DEF ColumnInv, At
<1>2. /\ size \in Nat /\ wrap \in Nat \ {0} /\ EncodedLen(size) \in Nat
      /\ lo \in Nat /\ given \in Nat /\ Len(iov) \in Nat /\ Reported \in Nat
  BY <1>1, Sizes DEF TypeOK, SymbolInv
<1>3. exit = Running /\ exit # 0 /\ exit # 1
  BY <1>0 DEF PlaceInv, Running
<1>4. Closing = 0
  BY <1>0, <1>3 DEF Closing, At
<1> PICK lines \in Nat :
       /\ lines * wrap + col = lo
       /\ Reported + Len(iov) = lo + lines
  <2>1. PICK lines \in Nat :
         /\ lines * wrap + col = IF wrap = 0 THEN 0 ELSE lo
         /\ wrap = 0 => lines = 0
         /\ Reported + Len(iov) = lo + lines + Closing
    BY <1>3 DEF PlacedInv
  <2>2. Reported + Len(iov) = lo + lines
    BY <1>2, <1>4, <2>1
  <2> QED
    BY <1>1, <2>1, <2>2
<1>5. v \in Seq(Nat) /\ Len(v) = 1 /\ v[1] = Newline
  BY DEF Newline
<1> HIDE DEF v
<1>6. WrappedSymbol(EncodedLen(size), wrap, Reported + Len(iov) + 1) = Newline
  <2>1. wrap \in 0 .. wrap /\ lines * wrap \in Nat
    BY <1>2
  <2>2. Reported + Len(iov) + 1 = Place(lines, wrap, wrap)
    BY <1>0, <1>2, <2>1 DEF Place
  <2>3. WrappedSymbol(EncodedLen(size), wrap, Place(lines, wrap, wrap)) = Newline
    BY <1>2, <2>1, LineSymbol
  <2> QED
    BY <2>2, <2>3
<1>7. /\ iov' \in Seq(Nat) /\ Len(iov') = Len(iov) + 1 /\ iov' # <<>>
      /\ cuts' \subseteq 1..Len(iov')
      /\ pc' \in {"wrap", "writev"} /\ (pc' = "writev" => resume' = "wrap")
      /\ resume' \in {resume, "wrap"}
      /\ Reported' = Reported /\ CutsInv' /\ SymbolInv'
  <2>1. Len(v) > 0
    BY <1>5
  <2>2. \A i \in 1..Len(v) :
           v[i] = WrappedSymbol(EncodedLen(size), wrap, Reported + Len(iov) + i)
    BY <1>5, <1>6
  <2> QED
    BY <1>0, <1>5, <2>1, <2>2, AppendInv
<1>8. TypeOK'
  BY <1>0, <1>7 DEF TypeOK
<1>9. At("wrap")' /\ \A p \in {"read", "endline", "written", "done"} : ~ At(p)'
  BY <1>7 DEF At
<1>10. ReadInv'
  BY <1>0, <1>3, <1>9 DEF ReadInv
<1>11. PlaceInv'
  BY <1>0, <1>1, <1>3, <1>7 DEF PlaceInv, FailsOnlyOnError, Running
<1>12. ColumnInv'
  BY <1>0, <1>2, <1>9 DEF ColumnInv
<1>13. PlacedInv'
  <2>1. Closing' = 0
    BY <1>0 DEF Closing
  <2>2. (lines + 1) * wrap = lines * wrap + wrap /\ lines * wrap \in Nat
    BY <1>2
  <2>3. /\ (lines + 1) * wrap' + col' = IF wrap' = 0 THEN 0 ELSE lo'
        /\ wrap' = 0 => lines + 1 = 0
        /\ Reported' + Len(iov') = lo' + (lines + 1) + Closing'
    BY <1>0, <1>2, <1>7, <2>1, <2>2
  <2>4. lines + 1 \in Nat
    OBVIOUS
  <2> QED
    BY <1>0, <1>3, <2>3, <2>4 DEF PlacedInv
<1> QED
  BY <1>7, <1>8, <1>10, <1>11, <1>12, <1>13

LEMMA WrapEndInv == IndInv /\ WrapEnd => IndInv'
<1> SUFFICES ASSUME IndInv, WrapEnd PROVE IndInv'
  OBVIOUS
<1> USE DEF IndInv
<1>0. /\ pc = "wrap" /\ wrap > 0 /\ lo = given
      /\ IF iov = <<>> THEN pc' = "written" /\ UNCHANGED resume
                       ELSE pc' = "writev" /\ resume' = "written"
      /\ UNCHANGED <<size, wrap, fed, ferror, given, lo, tail, col, iov, cuts,
                     nwrite, stdout, exit, again>>
  BY DEF WrapEnd, Flush
<1>1. exit = Running /\ exit # 0 /\ exit # 1
  BY <1>0 DEF PlaceInv, Running
<1>2. At("written")' /\ \A p \in {"read", "wrap", "endline", "done"} : ~ At(p)'
  BY <1>0 DEF At
<1>3. TypeOK'
  BY <1>0 DEF TypeOK
<1>4. ReadInv'
  BY <1>0, <1>1, <1>2 DEF ReadInv
<1>5. PlaceInv'
  BY <1>0, <1>1 DEF PlaceInv, FailsOnlyOnError, Running
<1>6. ColumnInv'
  <2>1. wrap # 0 /\ ~ At("endline")
    BY <1>0, Sizes DEF At
  <2> QED
    BY <1>0, <1>2, <2>1 DEF ColumnInv
<1>7. Closing' = Closing
  BY <1>0, <1>1, <1>2 DEF Closing, At
<1>8. SymbolInv' /\ CutsInv' /\ PlacedInv'
  BY <1>0, <1>1, <1>7, QuietSymbols
<1> QED
  BY <1>3, <1>4, <1>5, <1>6, <1>8

\* The same for the one buffer of write_stdout, which may be empty.
LEMMA SingleInv ==
  ASSUME IndInv, NEW v \in Seq(Nat), NEW p, Single(v), Flush(p),
         pc \in {"wrap", "written"}, p \in {"written", "done"}, iov = <<>>,
         UNCHANGED <<size, wrap, stdout, again>>,
         \A i \in 1..Len(v) :
           v[i] = WrappedSymbol(EncodedLen(size), wrap, Reported + i)
  PROVE  /\ iov' \in Seq(Nat) /\ Len(iov') = Len(v) /\ iov' = v
         /\ cuts' \subseteq 1..Len(iov')
         /\ IF v = <<>> THEN pc' = p /\ resume' = resume
                        ELSE pc' = "writev" /\ resume' = p
         /\ Reported' = Reported /\ CutsInv' /\ SymbolInv'
<1> USE DEF IndInv
<1>1. /\ iov' = v /\ cuts' = {Len(v)} \ {0}
      /\ IF v = <<>> THEN pc' = p /\ resume' = resume
                     ELSE pc' = "writev" /\ resume' = p
  BY DEF Single, Flush
<1>2. Len(v) \in Nat /\ (v = <<>> <=> Len(v) = 0)
  BY EmptySeq
<1>3. cuts' \subseteq 1..Len(iov')
  BY <1>1, <1>2
<1>4. Reported' = Reported
  <2>1. pc # "trim" /\ pc' # "trim"
    BY <1>1
  <2> QED
    BY <2>1 DEF Reported
<1>5. CutsInv'
  <2>1. Cardinality(cuts') \in {0, 1} /\ (v = <<>> => Cardinality(cuts') = 0)
    <3>1. v = <<>> => cuts' = {}
      BY <1>1, <1>2
    <3>2. v # <<>> => cuts' = {Len(v)}
      BY <1>1, <1>2
    <3> QED
      BY <3>1, <3>2, FS_EmptySet, FS_Singleton
  <2>2. pc' \notin {"wrap", "endline"}
    BY <1>1
  <2>3. iov' # <<>> => Len(iov') \in cuts'
    BY <1>1, <1>2
  <2>4. Cardinality(cuts') <= IovMax
    BY <2>1, CliAssumption
  <2> QED
    BY <2>2, <2>3, <2>4 DEF CutsInv
<1>6. SymbolInv'
  <2>1. \A q \in 1..Len(iov') :
          iov'[q] = WrappedSymbol(EncodedLen(size'), wrap', Reported' + q)
    BY <1>1, <1>4
  <2> QED
    BY <2>1, <1>4 DEF SymbolInv
<1> QED
  BY <1>1, <1>3, <1>4, <1>5, <1>6

LEMMA WritePlainInv == IndInv /\ WritePlain => IndInv'
<1> SUFFICES ASSUME IndInv, WritePlain PROVE IndInv'
  OBVIOUS
<1> USE DEF IndInv
<1> DEFINE v == Chars(lo, given)
<1>0. /\ pc = "wrap" /\ wrap = 0 /\ lo' = given
      /\ Single(v) /\ Flush("written")
      /\ UNCHANGED <<size, wrap, fed, ferror, given, tail, col, nwrite, stdout,
                     exit, again>>
  BY DEF WritePlain
<1>1. /\ lo \in Nat /\ given \in Nat /\ lo <= given /\ iov = <<>> /\ Len(iov) = 0
      /\ Reported \in Nat /\ col = 0
  BY <1>0 DEF TypeOK, ReadInv, PlaceInv, SymbolInv, ColumnInv
<1>2. exit = Running /\ exit # 0 /\ exit # 1
  BY <1>0 DEF PlaceInv, Running
<1>3. Reported = lo
  <2>1. Closing = 0
    BY <1>0, <1>2 DEF Closing, At
  <2> QED
    BY <1>0, <1>1, <1>2, <2>1 DEF PlacedInv
<1>4. v \in Seq(Nat) /\ Len(v) = given - lo /\ \A i \in 1 .. given - lo : v[i] = lo + i
  <2>1. v = [i \in 1 .. given - lo |-> lo + i]
    BY DEF Chars
  <2> HIDE DEF v
  <2> QED
    BY <1>1, <2>1
<1> HIDE DEF v
<1>5. /\ iov' \in Seq(Nat) /\ Len(iov') = given - lo /\ iov' = v
      /\ cuts' \subseteq 1..Len(iov')
      /\ IF v = <<>> THEN pc' = "written" /\ resume' = resume
                     ELSE pc' = "writev" /\ resume' = "written"
      /\ Reported' = Reported /\ CutsInv' /\ SymbolInv'
  <2>1. \A i \in 1..Len(v) :
           v[i] = WrappedSymbol(EncodedLen(size), wrap, Reported + i)
    BY <1>0, <1>3, <1>4 DEF WrappedSymbol
  <2> QED
    BY <1>0, <1>1, <1>4, <2>1, SingleInv
<1>6. At("written")' /\ \A p \in {"read", "wrap", "endline", "done"} : ~ At(p)'
  BY <1>5 DEF At
<1>7. TypeOK'
  BY <1>0, <1>1, <1>5 DEF TypeOK
<1>8. ReadInv'
  BY <1>0, <1>1, <1>2, <1>6 DEF ReadInv
<1>9. PlaceInv'
  BY <1>0, <1>2, <1>5 DEF PlaceInv, FailsOnlyOnError, Running
<1>10. ColumnInv'
  BY <1>0, <1>1, <1>6 DEF ColumnInv
<1>11. PlacedInv'
  <2>1. Closing' = 0
    BY <1>0, <1>1 DEF Closing
  <2>2. /\ 0 * wrap' + col' = IF wrap' = 0 THEN 0 ELSE lo'
        /\ Reported' + Len(iov') = lo' + 0 + Closing'
    BY <1>0, <1>1, <1>3, <1>5, <2>1
  <2> QED
    BY <1>0, <1>2, <2>2 DEF PlacedInv
<1> QED
  BY <1>5, <1>7, <1>8, <1>9, <1>10, <1>11

LEMMA WrittenInv == IndInv /\ Written => IndInv'
<1> SUFFICES ASSUME IndInv, Written PROVE IndInv'
  OBVIOUS
<1> USE DEF IndInv
<1>0. /\ pc = "written"
      /\ UNCHANGED <<size, wrap, fed, ferror, given, lo, tail, col, nwrite,
                     stdout, exit, again>>
  BY DEF Written
<1>1. exit = Running /\ exit # 0 /\ exit # 1 /\ iov = <<>> /\ lo = given
  BY <1>0 DEF PlaceInv, ReadInv, At, Running
<1>2. Closing = 0
  BY <1>0, <1>1 DEF Closing, At
<1>3. CASE ~ tail
  <2>0. pc' = "read" /\ UNCHANGED <<iov, cuts, resume>>
    BY <1>3 DEF Written
  <2>1. TypeOK'
    BY <1>0, <2>0 DEF TypeOK
  <2>2. ReadInv'
    BY <1>0, <1>1, <1>3, <2>0 DEF ReadInv, At
  <2>3. PlaceInv'
    BY <1>0, <1>1, <2>0 DEF PlaceInv, FailsOnlyOnError, Running
  <2>4. ColumnInv'
    BY <1>0, <1>1, <2>0 DEF ColumnInv, At
  <2>5. Closing' = Closing
    BY <1>0, <1>1, <2>0 DEF Closing, At
  <2>6. SymbolInv' /\ CutsInv' /\ PlacedInv'
    BY <1>0, <1>1, <2>0, <2>5, QuietSymbols
  <2> QED
    BY <2>1, <2>2, <2>3, <2>4, <2>6
<1>4. CASE tail
  <2> DEFINE v == IF wrap > 0 /\ col > 0 THEN <<Newline>> ELSE <<>>
  <2>0. Single(v) /\ Flush("done")
    BY <1>4 DEF Written
  <2>1. /\ size \in Nat /\ wrap \in Nat /\ EncodedLen(size) \in Nat
        /\ lo \in Nat /\ col \in Nat /\ Reported \in Nat /\ Len(iov) = 0
        /\ lo = EncodedLen(size)
    BY <1>1, <1>4, Sizes DEF TypeOK, SymbolInv, ReadInv
  <2>2. wrap = 0 => col = 0
    BY DEF ColumnInv
  <2>3. wrap # 0 => col < wrap
    BY <1>0, <1>1 DEF ColumnInv, At
  <2> PICK lines \in Nat :
         /\ lines * wrap + col = IF wrap = 0 THEN 0 ELSE lo
         /\ wrap = 0 => lines = 0
         /\ Reported = lo + lines
    <3>1. PICK lines \in Nat :
           /\ lines * wrap + col = IF wrap = 0 THEN 0 ELSE lo
           /\ wrap = 0 => lines = 0
           /\ Reported + Len(iov) = lo + lines + Closing
      BY <1>1 DEF PlacedInv
    <3>2. Reported = lo + lines
      BY <1>2, <2>1, <3>1
    <3> QED
      BY <3>1, <3>2
  <2>4. /\ v \in Seq(Nat)
        /\ col > 0 => Len(v) = 1 /\ v[1] = Newline /\ v # <<>>
        /\ ~ (col > 0) => Len(v) = 0 /\ v = <<>>
    <3>1. v = IF col > 0 THEN <<Newline>> ELSE <<>>
      BY <2>1, <2>2
    <3> HIDE DEF v
    <3> QED
      BY <3>1 DEF Newline
  <2> HIDE DEF v
  <2>5. col > 0 =>
          WrappedSymbol(EncodedLen(size), wrap, Reported + 1) = Newline
    <3> SUFFICES ASSUME col > 0
                 PROVE  WrappedSymbol(EncodedLen(size), wrap, Reported + 1) = Newline
      OBVIOUS
    <3>1. wrap \in Nat \ {0} /\ col \in 0 .. wrap /\ lines * wrap \in Nat
      BY <2>1, <2>2, <2>3
    <3>2. /\ Reported + 1 = Place(lines, wrap, col)
          /\ Character(lines, wrap, col) > EncodedLen(size)
      BY <2>1, <3>1 DEF Place, Character
    <3>3. WrappedSymbol(EncodedLen(size), wrap, Place(lines, wrap, col)) = Newline
      BY <2>1, <3>1, <3>2, LineSymbol
    <3> QED
      BY <3>2, <3>3
  <2>6. /\ iov' \in Seq(Nat) /\ Len(iov') = Len(v) /\ iov' = v
        /\ cuts' \subseteq 1..Len(iov')
        /\ IF v = <<>> THEN pc' = "done" /\ resume' = resume
                       ELSE pc' = "writev" /\ resume' = "done"
        /\ Reported' = Reported /\ CutsInv' /\ SymbolInv'
    <3>1. \A i \in 1..Len(v) :
             v[i] = WrappedSymbol(EncodedLen(size), wrap, Reported + i)
      BY <2>4, <2>5
    <3> QED
      BY <1>0, <1>1, <2>0, <2>4, <3>1, SingleInv
  <2>7. At("done")' /\ \A p \in {"read", "wrap", "endline", "written"} : ~ At(p)'
    BY <2>6 DEF At
  <2>8. TypeOK'
    BY <1>0, <2>6 DEF TypeOK
  <2>9. ReadInv'
    BY <1>0, <1>1, <1>4, <2>7 DEF ReadInv
  <2>10. PlaceInv'
    BY <1>0, <1>1, <2>6 DEF PlaceInv, FailsOnlyOnError, Running
  <2>11. ColumnInv'
    BY <1>0, <2>2, <2>3, <2>7 DEF ColumnInv
  <2>12. PlacedInv'
    <3>1. Closing' = IF col > 0 THEN 1 ELSE 0
      BY <1>0, <2>7 DEF Closing
    <3>2. Len(iov') = Closing'
      BY <2>1, <2>4, <2>6, <3>1
    <3>3. Reported' + Len(iov') = lo' + lines + Closing'
      BY <1>0, <2>6, <3>2
    <3>4. /\ lines * wrap' + col' = IF wrap' = 0 THEN 0 ELSE lo'
          /\ wrap' = 0 => lines = 0
      BY <1>0
    <3> QED
      BY <1>0, <1>1, <3>3, <3>4 DEF PlacedInv
  <2> QED
    BY <2>6, <2>8, <2>9, <2>10, <2>11, <2>12
<1> QED
  BY <1>3, <1>4

-----------------------------------------------------------------------------
(* The theorems.                                                           *)

\* The invariant is inductive: whatever the tool and the system do, what has left
\* the vectors, what is in them and what has yet to come make up the wrapped text.
THEOREM Inductive == Spec => []IndInv
<1>1. IndInv /\ [Next]_vars => IndInv'
  <2> SUFFICES ASSUME IndInv, [Next]_vars PROVE IndInv'
    OBVIOUS
  <2>1. CASE Work
    BY <2>1, ReadInvariant, ReadFailsInv, ReadEndInv, WrapCharsInv, WrapNewlineInv,
       WrapPartialInv, WrapEndInv, WritePlainInv, WrittenInv, DoneInv, TrimInv,
       RetryInv, GiveUpInv
    DEF Work
  <2>2. CASE WriteSome
    BY <2>2, WriteSomeInv
  <2>3. CASE WriteError
    BY <2>3, WriteErrorInv
  <2>4. CASE UNCHANGED vars
    <3> USE <2>4 DEF IndInv, vars
    <3>1. \A p : At(p)' <=> At(p)
      BY DEF At
    <3>2. TypeOK'
      BY DEF TypeOK
    <3>3. ReadInv'
      BY <3>1 DEF ReadInv
    <3>4. PlaceInv'
      BY DEF PlaceInv, FailsOnlyOnError
    <3>5. ColumnInv'
      BY <3>1 DEF ColumnInv
    <3>6. CutsInv'
      BY DEF CutsInv
    <3>7. Reported' = Reported /\ Closing' = Closing
      BY <3>1 DEF Reported, Closing
    <3>8. SymbolInv'
      BY <3>7 DEF SymbolInv
    <3>9. PlacedInv'
      BY <3>7 DEF PlacedInv
    <3> QED
      BY <3>2, <3>3, <3>4, <3>5, <3>6, <3>8, <3>9
  <2> QED
    BY <2>1, <2>2, <2>3, <2>4 DEF Next
<1> QED
  BY <1>1, InitInv, PTL DEF Spec

\* Every variable of the tool keeps its type; a vector never ends outside the
\* symbols that the array holds.
THEOREM TypeCorrect == Spec => []TypeOK
<1>1. IndInv => TypeOK
  BY DEF IndInv
<1> QED
  BY <1>1, Inductive, PTL

\* writev_retry and write_stdout retry what was interrupted or partly written: the
\* exit code is 1 only if reading or writing failed with another error.
THEOREM FailureCorrect == Spec => []FailsOnlyOnError
<1>1. IndInv => FailsOnlyOnError
  BY DEF IndInv, PlaceInv
<1> QED
  BY <1>1, Inductive, PTL

\* The vectors of write_wrapped always hold what stdout lacks next, and the array
\* of IOV_MAX vectors never overflows.
THEOREM PendingCorrect == Spec => []PendingIsNext
<1>1. IndInv => PendingIsNext
  <2> SUFFICES ASSUME IndInv, pc # "trim", exit = Running
               PROVE  /\ Cardinality(cuts) <= IovMax
                      /\ pc = "writev" => iov # <<>>
                      /\ \A p \in 1..Len(iov) :
                           iov[p] = WrappedSymbol(EncodedLen(size), wrap,
                                                  Len(stdout) - again + p)
    BY DEF PendingIsNext
  <2>1. Reported = Len(stdout) - again
    BY NoWriteYet DEF IndInv
  <2> QED
    BY <2>1 DEF IndInv, CutsInv, PlaceInv, SymbolInv
<1> QED
  BY <1>1, Inductive, PTL

\* What encode() and write_wrapped make the system write is a beginning of the
\* wrapped text, and the whole of it when the tool exits with code 0.
THEOREM StdoutCorrect == Spec => []StdoutIsWrappedText
<1>1. IndInv => StdoutIsWrappedText
  <2> SUFFICES ASSUME IndInv PROVE StdoutIsWrappedText
    OBVIOUS
  <2> USE DEF IndInv
  <2> DEFINE n == EncodedLen(size)
  <2>1. /\ n \in Nat /\ wrap \in Nat /\ lo \in Nat /\ col \in Nat
        /\ Len(stdout) \in Nat /\ again \in Nat /\ Len(iov) \in Nat
        /\ Reported \in Nat
    BY Sizes DEF TypeOK, SymbolInv
  <2>2. WrappedLen(n, wrap) \in Int
    <3> HIDE DEF n
    <3>1. CASE wrap = 0
      BY <2>1, <3>1 DEF WrappedLen
    <3>2. CASE wrap # 0
      <4>1. n + wrap - 1 \in Nat /\ wrap \in Nat \ {0}
        BY <2>1, <3>2
      <4>2. (n + wrap - 1) \div wrap \in Int
        BY <4>1, Remainder
      <4> QED
        BY <2>1, <3>2, <4>2 DEF WrappedLen
    <3> QED
      BY <3>1, <3>2
  <2>3. Len(stdout) - again <= Reported + Len(iov)
    <3>1. CASE pc = "trim" /\ nwrite > 0
      <4>1. nwrite \in Nat /\ nwrite <= Len(iov)
        BY <3>1 DEF PlaceInv, TypeOK, Interrupted, Failed
      <4>2. Reported = Len(stdout) - again - nwrite
        BY <3>1 DEF Reported
      <4> QED
        BY <2>1, <4>1, <4>2
    <3>2. CASE ~ (pc = "trim" /\ nwrite > 0)
      <4>1. Reported = Len(stdout) - again - 0
        BY <3>2 DEF Reported
      <4> QED
        BY <2>1, <4>1
    <3> QED
      BY <3>1, <3>2
  <2>4. Len(stdout) - again <= WrappedLen(n, wrap)
    <3>1. Reported + Len(iov) <= WrappedLen(n, wrap)
      BY WithinText
    <3> HIDE DEF n
    <3> QED
      BY <2>1, <2>2, <2>3, <3>1
  <2>5. exit = 0 => Len(stdout) - again = WrappedLen(n, wrap)
    <3> SUFFICES ASSUME exit = 0
                 PROVE  Len(stdout) - again = WrappedLen(n, wrap)
      OBVIOUS
    <3>1. pc = "exit" /\ iov = <<>> /\ Len(iov) = 0
      BY DEF PlaceInv, Running, TypeOK
    <3>2. Reported = Len(stdout) - again
      BY <3>1, NoWriteYet
    <3>3. lo = n
      BY DEF ReadInv
    <3>4. Closing = IF col > 0 THEN 1 ELSE 0
      BY DEF Closing
    <3> HIDE DEF n
    <3> PICK lines \in Nat :
          /\ lines * wrap + col = IF wrap = 0 THEN 0 ELSE lo
          /\ wrap = 0 => lines = 0
          /\ Reported + Len(iov) = lo + lines + Closing
      BY DEF PlacedInv
    <3>5. CASE wrap = 0
      <4>1. col = 0
        BY <3>5 DEF ColumnInv
      <4> QED
        BY <2>1, <3>1, <3>2, <3>3, <3>4, <3>5, <4>1 DEF WrappedLen
    <3>6. CASE wrap # 0
      <4>1. wrap \in Nat \ {0} /\ col < wrap /\ col \in 0 .. wrap
        BY <2>1, <3>1, <3>6 DEF ColumnInv, At
      <4>2. Character(lines, wrap, col) = n + 1
        BY <2>1, <3>3, <3>6 DEF Character
      <4>3. WrappedLen(n, wrap) = n + lines + (IF col > 0 THEN 1 ELSE 0)
        BY <2>1, <4>1, <4>2, LengthSoFar
      <4> QED
        BY <2>1, <3>1, <3>2, <3>3, <3>4, <4>3
    <3> QED
      BY <3>5, <3>6
  <2>6. again = 0 => \A p \in 1..Len(stdout) : stdout[p] = WrappedSymbol(n, wrap, p)
    BY DEF SymbolInv
  <2> HIDE DEF n
  <2>7. /\ Len(stdout) - again <= WrappedLen(n, wrap)
        /\ again = 0 => \A p \in 1..Len(stdout) : stdout[p] = WrappedSymbol(n, wrap, p)
        /\ exit = 0 => Len(stdout) - again = WrappedLen(n, wrap)
    BY <2>4, <2>5, <2>6
  <2> QED
    BY <2>7 DEF StdoutIsWrappedText, n
<1> QED
  BY <1>1, Inductive, PTL
=============================================================================
