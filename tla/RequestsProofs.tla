--------------------------- MODULE RequestsProofs ---------------------------
(***************************************************************************)
(* Requests from end to end, for any paths, store, connections, sizes and   *)
(* failures.  The catalog forgets nothing that it has published, and the    *)
(* base found in it fits as no other does; the record of a nar in the log   *)
(* comes after one of a narinfo for it; what the log says was downloaded    *)
(* is what was; and a simulation counts what it has recorded.               *)
(***************************************************************************)
EXTENDS Requests, SequenceTheorems, FiniteSetTheorems, WellFoundedInduction, TLAPS
-----------------------------------------------------------------------------
(* Naturals *)

\* Well-founded minimum.
LEMMA Least ==
    ASSUME NEW S \in SUBSET Nat, S # {}
    PROVE  \E m \in S : \A i \in S : m <= i
<1> DEFINE R == OpToRel(<, Nat)
<1>1. IsWellFoundedOn(R, Nat)
  BY NatLessThanWellFounded
<1> HIDE DEF R
<1>2. PICK m \in S : \A i \in S : <<i, m>> \notin R
  BY <1>1, WFMin
<1>3. ASSUME NEW i \in S PROVE m <= i
  <2>1. i \in Nat /\ m \in Nat /\ <<i, m>> \notin R
    BY <1>2
  <2>2. ~(i < m)
    BY <2>1 DEF R, OpToRel
  <2> QED
    BY <2>1, <2>2
<1> QED
  BY <1>3

LEMMA UpTo ==
    ASSUME NEW n \in Nat, NEW S, 0 \in S, \A i \in 1..n : i - 1 \in S => i \in S
    PROVE  0..n \subseteq S
<1> SUFFICES ASSUME ~(0..n \subseteq S) PROVE FALSE
  OBVIOUS
<1>1. PICK m \in (0..n) \ S : \A i \in (0..n) \ S : m <= i
  <2>1. (0..n) \ S \in SUBSET Nat /\ (0..n) \ S # {}
    OBVIOUS
  <2> QED
    BY <2>1, Least
<1>2. m \in 1..n /\ m - 1 \in 0..n /\ ~(m <= m - 1)
  BY <1>1
<1>3. m - 1 \in S
  BY <1>1, <1>2
<1> QED
  BY <1>1, <1>2, <1>3
-----------------------------------------------------------------------------
(* Names *)

Bytes == 1..Top
Text == Seq(Bytes)

\* n is where a and b part.
Parts(n, a, b) ==
    /\ n \in Nat /\ n <= Len(a) /\ n <= Len(b) /\ \A j \in 1..n : a[j] = b[j]
    /\ n < Len(a) /\ n < Len(b) => a[n + 1] # b[n + 1]

LEMMA TextIs ==
    ASSUME NEW a \in Text
    PROVE  Len(a) \in Nat /\ DOMAIN a = 1..Len(a) /\ \A j \in 1..Len(a) : a[j] \in Nat /\ a[j] <= Top
<1>1. Len(a) \in Nat /\ DOMAIN a = 1..Len(a)
  BY LenProperties DEF Text
<1>2. \A j \in 1..Len(a) : a[j] \in 1..Top
  BY ElementOfSeq DEF Text, Bytes
<1>3. \A x \in 1..Top : x \in Nat /\ x <= Top
  BY DEF Top
<1> QED
  BY <1>1, <1>2, <1>3

LEMMA MatchLenParts == ASSUME NEW a \in Text, NEW b \in Text PROVE Parts(MatchLen(a, b), a, b)
<1> DEFINE S == {i \in DOMAIN a \cap DOMAIN b : \A j \in 1..i : a[j] = b[j]}
<1>1. Len(a) \in Nat /\ DOMAIN a = 1..Len(a) /\ Len(b) \in Nat /\ DOMAIN b = 1..Len(b)
  BY TextIs
<1>2. PICK m \in {i \in Nat \ {0} : i \notin S} : \A i \in {i \in Nat \ {0} : i \notin S} : m <= i
  <2>1. Len(a) + 1 \in {i \in Nat \ {0} : i \notin S}
    BY <1>1
  <2> QED
    BY <2>1, Least
<1>3. S = 1..m - 1
  <2>1. ASSUME NEW i \in 1..m - 1 PROVE i \in S
    BY <1>2
  <2>2. ASSUME NEW i \in S, i >= m PROVE FALSE
    <3>1. m \in DOMAIN a \cap DOMAIN b /\ \A j \in 1..m : a[j] = b[j]
      BY <1>1, <1>2, <2>2
    <3> QED
      BY <1>2, <3>1
  <2>3. \A i \in S : i \in Nat /\ i >= 1
    BY <1>1
  <2> HIDE DEF S
  <2>4. m \in Nat
    BY <1>2
  <2>5. \A i \in S : i \in 1..m - 1
    BY <2>2, <2>3, <2>4
  <2>6. \A i \in 1..m - 1 : i \in S
    BY <2>1
  <2> QED
    BY <2>5, <2>6
<1>4. MatchLen(a, b) = m - 1
  <2>1. MatchLen(a, b) = Cardinality(S)
    BY DEF MatchLen
  <2>2. Cardinality(1..m - 1) = m - 1
    BY FS_Interval, <1>2
  <2> QED
    BY <1>3, <2>1, <2>2
<1>5. /\ m - 1 \in Nat /\ m - 1 <= Len(a) /\ m - 1 <= Len(b)
      /\ \A j \in 1..m - 1 : a[j] = b[j]
  <2>1. ASSUME m - 1 >= 1 PROVE m - 1 \in S
    BY <1>2, <1>3, <2>1
  <2>2. CASE m - 1 >= 1
    BY <1>1, <1>2, <2>1, <2>2
  <2>3. CASE m = 1
    BY <1>1, <2>3
  <2> QED
    BY <1>2, <2>2, <2>3
<1>6. ASSUME m - 1 < Len(a), m - 1 < Len(b) PROVE a[m] # b[m]
  <2>1. m \in DOMAIN a \cap DOMAIN b
    BY <1>1, <1>2, <1>6
  <2>2. PICK j \in 1..m : a[j] # b[j]
    BY <1>2, <2>1
  <2> QED
    BY <1>2, <1>5, <2>2
<1> HIDE DEF S
<1>7. (m - 1) + 1 = m
  BY <1>2
<1> QED
  BY <1>4, <1>5, <1>6, <1>7 DEF Parts

\* There is but one such place.
LEMMA PartsOnce ==
    ASSUME NEW a \in Text, NEW b \in Text, NEW m, Parts(m, a, b)
    PROVE  MatchLen(a, b) = m
<1> DEFINE n == MatchLen(a, b)
<1>1. Parts(n, a, b)
  BY MatchLenParts
<1>2. Len(a) \in Nat /\ Len(b) \in Nat
  BY TextIs
<1> HIDE DEF n
<1>3. ~(n < m)
  <2> SUFFICES ASSUME n < m PROVE FALSE
    OBVIOUS
  <2>1. n + 1 \in 1..m /\ n < Len(a) /\ n < Len(b)
    BY <1>1, <1>2 DEF Parts
  <2> QED
    BY <1>1, <2>1 DEF Parts
<1>4. ~(m < n)
  <2> SUFFICES ASSUME m < n PROVE FALSE
    OBVIOUS
  <2>1. m + 1 \in 1..n /\ m < Len(a) /\ m < Len(b)
    BY <1>1, <1>2 DEF Parts
  <2> QED
    BY <1>1, <2>1 DEF Parts
<1>5. n = m
  BY <1>1, <1>3, <1>4 DEF Parts
<1> QED
  BY <1>5 DEF n

\* Less by the place where the names part.
LEMMA LessIs ==
    ASSUME NEW a \in Text, NEW b \in Text, NEW n, Parts(n, a, b)
    PROVE  Less(a, b) <=> n < Len(b) /\ (n < Len(a) => a[n + 1] < b[n + 1])
  BY PartsOnce DEF Less

LEMMA LessOnce == ASSUME NEW a \in Text, NEW b \in Text, Less(a, b) PROVE ~Less(b, a) /\ a # b
<1>1. PICK n : n = MatchLen(a, b)
  OBVIOUS
<1>2. Parts(n, a, b)
  BY <1>1, MatchLenParts
<1>3. Parts(n, b, a)
  BY <1>2 DEF Parts
<1>4. /\ Less(a, b) <=> n < Len(b) /\ (n < Len(a) => a[n + 1] < b[n + 1])
      /\ Less(b, a) <=> n < Len(a) /\ (n < Len(b) => b[n + 1] < a[n + 1])
  BY <1>2, <1>3, LessIs
<1>5. /\ n \in Nat /\ Len(a) \in Nat /\ Len(b) \in Nat
      /\ n < Len(a) => a[n + 1] \in Nat
      /\ n < Len(b) => b[n + 1] \in Nat
  <2>1. n \in Nat /\ Len(a) \in Nat /\ Len(b) \in Nat
    BY <1>2, TextIs DEF Parts
  <2>2. n < Len(a) => n + 1 \in 1..Len(a)
    BY <2>1
  <2>3. n < Len(b) => n + 1 \in 1..Len(b)
    BY <2>1
  <2> QED
    BY <2>1, <2>2, <2>3, TextIs
<1>6. ~Less(b, a)
  BY <1>4, <1>5
<1>7. a # b
  BY <1>6
<1> QED
  BY <1>6, <1>7

LEMMA LessTotal == ASSUME NEW a \in Text, NEW b \in Text, a # b PROVE Less(a, b) \/ Less(b, a)
<1>1. PICK n : n = MatchLen(a, b)
  OBVIOUS
<1>2. Parts(n, a, b)
  BY <1>1, MatchLenParts
<1>3. Parts(n, b, a)
  BY <1>2 DEF Parts
<1>4. /\ Less(a, b) <=> n < Len(b) /\ (n < Len(a) => a[n + 1] < b[n + 1])
      /\ Less(b, a) <=> n < Len(a) /\ (n < Len(b) => b[n + 1] < a[n + 1])
  BY <1>2, <1>3, LessIs
<1>5. n \in Nat /\ Len(a) \in Nat /\ Len(b) \in Nat
  BY <1>2, TextIs DEF Parts
<1>6. CASE n < Len(a) /\ n < Len(b)
  <2>1. n + 1 \in 1..Len(a) /\ n + 1 \in 1..Len(b)
    BY <1>5, <1>6
  <2>2. a[n + 1] \in Nat /\ b[n + 1] \in Nat
    BY <2>1, TextIs
  <2>3. a[n + 1] # b[n + 1]
    BY <1>2, <1>6 DEF Parts
  <2> QED
    BY <1>4, <1>6, <2>2, <2>3
<1>7. CASE n = Len(a) /\ n = Len(b)
  <2>1. \A j \in 1..Len(a) : a[j] = b[j]
    BY <1>2, <1>7 DEF Parts
  <2>2. a = b
    BY <1>7, <2>1, SeqEqual DEF Text
  <2> QED
    BY <2>2
<1>8. n <= Len(a) /\ n <= Len(b)
  BY <1>2 DEF Parts
<1> QED
  BY <1>4, <1>5, <1>6, <1>7, <1>8

LEMMA LessTransitive ==
    ASSUME NEW a \in Text, NEW b \in Text, NEW c \in Text, Less(a, b), Less(b, c)
    PROVE  Less(a, c)
<1>1. PICK n : n = MatchLen(a, b)
  OBVIOUS
<1>2. PICK m : m = MatchLen(b, c)
  OBVIOUS
<1>3. Parts(n, a, b) /\ Parts(m, b, c)
  BY <1>1, <1>2, MatchLenParts
<1>4. /\ n < Len(b) /\ (n < Len(a) => a[n + 1] < b[n + 1])
      /\ m < Len(c) /\ (m < Len(b) => b[m + 1] < c[m + 1])
  BY <1>3, LessIs
<1>5. n \in Nat /\ m \in Nat /\ Len(a) \in Nat /\ Len(b) \in Nat /\ Len(c) \in Nat
  BY <1>3, TextIs DEF Parts
<1>6. n < Len(a) => a[n + 1] \in Nat /\ b[n + 1] \in Nat
  <2>1. n < Len(a) => n + 1 \in 1..Len(a) /\ n + 1 \in 1..Len(b)
    BY <1>4, <1>5
  <2> QED
    BY <2>1, TextIs
<1>7. /\ n <= Len(a) /\ m <= Len(b)
      /\ \A j \in 1..n : a[j] = b[j]
      /\ \A j \in 1..m : b[j] = c[j]
  BY <1>3 DEF Parts
<1>8. CASE n < m
  <2>1. n + 1 \in 1..m
    BY <1>5, <1>8
  <2>2. b[n + 1] = c[n + 1] /\ n < Len(c)
    BY <1>4, <1>5, <1>7, <1>8, <2>1
  <2>3. \A j \in 1..n : a[j] = c[j]
    <3>1. \A j \in 1..n : j \in 1..m
      BY <1>5, <1>8
    <3> QED
      BY <1>7, <3>1
  <2>4. n < Len(a) => a[n + 1] # c[n + 1]
    BY <1>4, <1>6, <2>2
  <2>5. Parts(n, a, c)
    BY <1>5, <1>7, <2>2, <2>3, <2>4 DEF Parts
  <2>6. Less(a, c) <=> n < Len(c) /\ (n < Len(a) => a[n + 1] < c[n + 1])
    BY <2>5, LessIs
  <2> QED
    BY <1>4, <2>2, <2>6
<1>9. CASE m < n
  <2>1. m + 1 \in 1..n /\ m < Len(a) /\ m < Len(b)
    BY <1>4, <1>5, <1>7, <1>9
  <2>2. a[m + 1] = b[m + 1]
    BY <1>7, <2>1
  <2>3. \A j \in 1..m : a[j] = c[j]
    <3>1. \A j \in 1..m : j \in 1..n
      BY <1>5, <1>9
    <3> QED
      BY <1>7, <3>1
  <2>4. m + 1 \in 1..Len(b) /\ m + 1 \in 1..Len(c)
    BY <1>4, <1>5, <2>1
  <2>5. b[m + 1] \in Nat /\ c[m + 1] \in Nat
    BY <2>4, TextIs
  <2>6. a[m + 1] < c[m + 1] /\ a[m + 1] # c[m + 1]
    BY <1>4, <2>1, <2>2, <2>5
  <2>7. Parts(m, a, c)
    <3>1. m <= Len(a) /\ m <= Len(c)
      BY <1>4, <1>5, <2>1
    <3> QED
      BY <1>5, <2>3, <2>6, <3>1 DEF Parts
  <2>8. Less(a, c) <=> m < Len(c) /\ (m < Len(a) => a[m + 1] < c[m + 1])
    BY <2>7, LessIs
  <2> QED
    BY <1>4, <2>6, <2>8
<1>10. CASE m = n
  <2>1. \A j \in 1..n : a[j] = c[j]
    BY <1>7, <1>10
  <2>2. n + 1 \in 1..Len(b) /\ n + 1 \in 1..Len(c)
    BY <1>4, <1>5, <1>10
  <2>3. b[n + 1] \in Nat /\ c[n + 1] \in Nat /\ b[n + 1] < c[n + 1]
    BY <1>4, <1>10, <2>2, TextIs
  <2>4. n < Len(a) => a[n + 1] < c[n + 1] /\ a[n + 1] # c[n + 1]
    BY <1>4, <1>6, <2>3
  <2>5. Parts(n, a, c)
    <3>1. n <= Len(c)
      BY <1>4, <1>5, <1>10
    <3> QED
      BY <1>5, <1>7, <2>1, <2>4, <3>1 DEF Parts
  <2>6. Less(a, c) <=> n < Len(c) /\ (n < Len(a) => a[n + 1] < c[n + 1])
    BY <2>5, LessIs
  <2> QED
    BY <1>4, <1>10, <2>4, <2>6
<1> QED
  BY <1>5, <1>8, <1>9, <1>10

\* A name of a path has no Top.
Plain == Seq(1..Top - 1)

Begins(s, a) == Len(s) <= Len(a) /\ \A j \in 1..Len(s) : a[j] = s[j]

LEMMA PlainIs ==
    ASSUME NEW a \in Plain
    PROVE  a \in Text /\ \A j \in 1..Len(a) : a[j] < Top
<1>1. \A j \in 1..Len(a) : a[j] \in 1..Top - 1
  BY ElementOfSeq DEF Plain
<1>2. \A x \in 1..Top - 1 : x \in Bytes /\ x < Top
  BY DEF Top, Bytes
<1>3. a \in Text
  <2>1. Len(a) \in Nat /\ a \in [1..Len(a) -> 1..Top - 1]
    BY LenProperties DEF Plain
  <2>2. a \in [1..Len(a) -> Bytes]
    BY <1>2, <2>1
  <2> QED
    BY <2>1, <2>2, SeqDef DEF Text
<1> QED
  BY <1>1, <1>2, <1>3

\* What the range from a start to its end holds are the names that begin so.
LEMMA RangeIs ==
    ASSUME NEW a \in Plain, NEW s \in Plain
    PROVE  ~Less(a, s) /\ Less(a, Append(s, Top)) <=> Begins(s, a)
<1> DEFINE t == Append(s, Top)
<1>1. a \in Text /\ s \in Text /\ \A j \in 1..Len(a) : a[j] < Top
  BY PlainIs
<1>2. /\ t \in Text /\ Len(t) = Len(s) + 1 /\ t[Len(s) + 1] = Top
      /\ \A j \in 1..Len(s) : t[j] = s[j]
  BY <1>1, AppendProperties DEF Text, Bytes, Top
<1> HIDE DEF t
<1>3. Len(a) \in Nat /\ Len(s) \in Nat
  BY <1>1, TextIs
<1>4. PICK n : n = MatchLen(a, s)
  OBVIOUS
<1>5. Parts(n, a, s)
  BY <1>1, <1>4, MatchLenParts
<1>6. Less(a, s) <=> n < Len(s) /\ (n < Len(a) => a[n + 1] < s[n + 1])
  BY <1>1, <1>5, LessIs
<1>7. n \in Nat /\ n <= Len(a) /\ n <= Len(s) /\ \A j \in 1..n : a[j] = s[j]
  BY <1>5 DEF Parts
<1>8. ASSUME Begins(s, a) PROVE ~Less(a, s) /\ Less(a, t)
  <2>1. n = Len(s)
    <3> SUFFICES ASSUME n < Len(s) PROVE FALSE
      BY <1>3, <1>7
    <3>1. n < Len(a) /\ n + 1 \in 1..Len(s)
      BY <1>3, <1>7, <1>8 DEF Begins
    <3> QED
      BY <1>5, <1>8, <3>1 DEF Parts, Begins
  <2>2. n < Len(a) => a[n + 1] < Top
    <3>1. n < Len(a) => n + 1 \in 1..Len(a)
      BY <1>3, <1>7
    <3> QED
      BY <1>1, <3>1
  <2>3. n < Len(a) => a[n + 1] # t[n + 1] /\ a[n + 1] < t[n + 1]
    <3>1. n < Len(a) => a[n + 1] \in Nat
      <4>1. n < Len(a) => n + 1 \in 1..Len(a)
        BY <1>3, <1>7
      <4> QED
        BY <1>1, <4>1, TextIs
    <3> QED
      BY <1>2, <2>1, <2>2, <3>1 DEF Top
  <2>4. Parts(n, a, t)
    BY <1>2, <1>3, <1>7, <2>1, <2>3 DEF Parts
  <2>5. Less(a, t) <=> n < Len(t) /\ (n < Len(a) => a[n + 1] < t[n + 1])
    BY <1>1, <1>2, <2>4, LessIs
  <2> QED
    BY <1>2, <1>3, <1>6, <1>7, <2>1, <2>3, <2>5
<1>9. ASSUME ~Less(a, s), Less(a, t) PROVE Begins(s, a)
  <2>1. n = Len(s)
    <3> SUFFICES ASSUME n < Len(s) PROVE FALSE
      BY <1>3, <1>7
    <3>1. n < Len(a) /\ ~(a[n + 1] < s[n + 1])
      BY <1>6, <1>9
    <3>2. n + 1 \in 1..Len(s) /\ n + 1 \in 1..Len(a)
      BY <1>3, <1>7, <3>1
    <3>3. t[n + 1] = s[n + 1] /\ a[n + 1] # s[n + 1]
      BY <1>2, <1>5, <3>1, <3>2 DEF Parts
    <3>4. \A j \in 1..n : a[j] = t[j]
      <4>1. \A j \in 1..n : j \in 1..Len(s)
        BY <1>3, <1>7
      <4> QED
        BY <1>2, <1>7, <4>1
    <3>5. n <= Len(t)
      BY <1>2, <1>3, <1>7
    <3>6. Parts(n, a, t)
      BY <1>7, <3>3, <3>4, <3>5 DEF Parts
    <3>7. Less(a, t) <=> n < Len(t) /\ (n < Len(a) => a[n + 1] < t[n + 1])
      BY <1>1, <1>2, <3>6, LessIs
    <3>8. a[n + 1] < s[n + 1]
      BY <1>9, <3>1, <3>3, <3>7
    <3> QED
      BY <3>1, <3>8
  <2> QED
    BY <1>7, <2>1 DEF Begins
<1> QED
  BY <1>8, <1>9 DEF t
-----------------------------------------------------------------------------
(* Segments *)

LEMMA DashesIs ==
    ASSUME NEW s \in Plain
    PROVE  /\ IsFiniteSet(FindDashes(s)) /\ FindDashes(s) \subseteq 1..Len(s)
           /\ Cardinality(FindDashes(s)) \in Nat
           /\ Cardinality(FindDashes(s)) = 0 <=> FindDashes(s) = {}
<1>1. Len(s) \in Nat /\ DOMAIN s = 1..Len(s)
  BY PlainIs, TextIs
<1>2. FindDashes(s) \in SUBSET (1..Len(s))
  BY <1>1 DEF FindDashes
<1>3. IsFiniteSet(1..Len(s))
  BY <1>1, FS_Interval
<1>4. IsFiniteSet(FindDashes(s))
  BY <1>2, <1>3, FS_Subset
<1> QED
  BY <1>2, <1>4, FS_CardinalityType, FS_EmptySet

\* The first dash.
LEMMA MinIs ==
    ASSUME NEW s \in Plain, FindDashes(s) # {}
    PROVE  /\ Min(FindDashes(s)) \in FindDashes(s) /\ Min(FindDashes(s)) \in 1..Len(s)
           /\ \A y \in FindDashes(s) : Min(FindDashes(s)) <= y
<1>1. FindDashes(s) \subseteq 1..Len(s)
  BY DashesIs
<1>2. FindDashes(s) \in SUBSET Nat
  BY <1>1
<1>3. \E m \in FindDashes(s) : \A y \in FindDashes(s) : m <= y
  BY <1>2, Least
<1> QED
  BY <1>1, <1>3 DEF Min

\* One segment more than dashes.
LEMMA SegmentsCount ==
    ASSUME NEW s \in Plain
    PROVE  Cardinality(Segments(s)) = Cardinality(FindDashes(s)) + 1
<1> DEFINE n == Len(s) + 1
           D == FindDashes(s)
           ends == {n} \cup D
           cuts == {0, n} \cup D
           G == Segments(s)
<1>1. Len(s) \in Nat /\ D \subseteq 1..Len(s) /\ IsFiniteSet(D)
  BY DashesIs, PlainIs, TextIs
<1>2. IsFiniteSet(ends) /\ Cardinality(ends) = Cardinality(D) + 1
  <2>1. n \notin D
    BY <1>1
  <2> HIDE DEF n, D
  <2>2. ends = D \cup {n}
    OBVIOUS
  <2> HIDE DEF ends
  <2>3. /\ IsFiniteSet(D \cup {n})
        /\ Cardinality(D \cup {n}) = IF n \in D THEN Cardinality(D) ELSE Cardinality(D) + 1
    BY <1>1, FS_AddElement, Zenon
  <2> QED
    BY <2>1, <2>2, <2>3
<1>3. G = {g \in cuts \X cuts : g[1] < g[2] /\ \A k \in cuts : k <= g[1] \/ g[2] <= k}
  BY DEF Segments
<1>4. cuts \subseteq Nat /\ ends = {k \in cuts : k > 0}
  BY <1>1
<1> DEFINE f == [j \in ends |-> <<CHOOSE i \in cuts : i < j /\ \A k \in cuts : k <= i \/ j <= k, j>>]
<1> HIDE DEF n, D, ends, cuts, G
<1>5. ASSUME NEW j \in ends
      PROVE  \E i \in cuts : i < j /\ \A k \in cuts : k <= i \/ j <= k
  <2> DEFINE T == {x \in Nat : \E i \in cuts : i < j /\ x = j - i}
  <2>1. j \in cuts /\ j \in Nat /\ j > 0 /\ 0 \in cuts
    BY <1>4 DEF cuts
  <2>2. j \in T /\ T \in SUBSET Nat
    BY <2>1
  <2>3. PICK x \in T : \A y \in T : x <= y
    BY <2>2, Least, Zenon
  <2>4. PICK i \in cuts : i < j /\ x = j - i
    BY <2>3
  <2>5. ASSUME NEW k \in cuts, ~(k <= i), ~(j <= k) PROVE FALSE
    <3>1. k \in Nat /\ i \in Nat
      BY <1>4
    <3>2. j - k \in T /\ k < j
      BY <2>1, <2>5, <3>1
    <3>3. x <= j - k
      BY <2>3, <3>2
    <3> QED
      BY <2>1, <2>4, <2>5, <3>1, <3>3
  <2> QED
    BY <2>4, <2>5
<1>6. f \in [ends -> G]
  <2>1. ASSUME NEW j \in ends PROVE f[j] \in G
    <3>1. j \in cuts
      BY <1>4
    <3>2. PICK i : i = CHOOSE m \in cuts : m < j /\ \A k \in cuts : k <= m \/ j <= k
      OBVIOUS
    <3>3. i \in cuts /\ i < j /\ \A k \in cuts : k <= i \/ j <= k
      BY <1>5, <3>2
    <3>4. f[j] = <<i, j>>
      BY <3>2
    <3> HIDE DEF f
    <3> QED
      BY <1>3, <3>1, <3>3, <3>4
  <2> QED
    BY <2>1
<1>7. ASSUME NEW g \in G PROVE \E j \in ends : f[j] = g
  <2>1. PICK i \in cuts, j \in cuts : g = <<i, j>>
    BY <1>3
  <2>2. i < j /\ \A k \in cuts : k <= i \/ j <= k
    BY <1>3, <2>1
  <2>3. i \in Nat /\ j \in Nat /\ j \in ends
    BY <1>4, <2>1, <2>2
  <2>4. PICK h : h = CHOOSE m \in cuts : m < j /\ \A k \in cuts : k <= m \/ j <= k
    OBVIOUS
  <2>5. h \in cuts /\ h < j /\ \A k \in cuts : k <= h \/ j <= k
    BY <1>5, <2>3, <2>4
  <2>6. h = i
    <3>1. h \in Nat /\ h <= i /\ i <= h
      BY <1>4, <2>2, <2>3, <2>5
    <3> QED
      BY <2>3, <3>1
  <2>7. f[j] = <<i, j>>
    BY <2>3, <2>4, <2>6
  <2> QED
    BY <2>1, <2>3, <2>7
<1>8. ASSUME NEW j \in ends, NEW k \in ends, f[j] = f[k] PROVE j = k
  BY <1>8
<1>9. ExistsBijection(ends, G)
  <2> HIDE DEF f
  <2>1. f \in Bijection(ends, G)
    BY <1>6, <1>7, <1>8 DEF Bijection, Injection, Surjection, IsInjective
  <2> QED
    BY <2>1 DEF ExistsBijection
<1>10. Cardinality(G) = Cardinality(ends)
  BY <1>2, <1>9, FS_Bijection
<1> QED
  BY <1>2, <1>10 DEF G, D

\* The first segment ends at the first dash, or with the name.
LEMMA FirstSegmentIs ==
    ASSUME NEW s \in Plain
    PROVE  FirstSegment(s) = IF FindDashes(s) = {} THEN SubSeq(s, 1, Len(s))
                             ELSE SubSeq(s, 1, Min(FindDashes(s)) - 1)
<1> DEFINE D == FindDashes(s)
           e == IF D = {} THEN Len(s) + 1 ELSE Min(D)
           cuts == {0, Len(s) + 1} \cup D
<1>1. Len(s) \in Nat /\ D \subseteq 1..Len(s)
  BY DashesIs, PlainIs, TextIs
<1>2. e \in cuts /\ e \in Nat /\ e > 0 /\ \A k \in cuts : k = 0 \/ e <= k
  <2>1. CASE D = {}
    BY <1>1, <2>1
  <2>2. CASE D # {}
    BY <1>1, <2>2, MinIs
  <2> QED
    BY <2>1, <2>2
<1> HIDE DEF e
<1>3. Segments(s) = {g \in cuts \X cuts : g[1] < g[2] /\ \A k \in cuts : k <= g[1] \/ g[2] <= k}
  BY DEF Segments
<1> HIDE DEF cuts
<1>4. <<0, e>> \in Segments(s)
  <2>1. <<0, e>> \in cuts \X cuts
    BY <1>2 DEF cuts
  <2>2. \A k \in cuts : k <= 0 \/ e <= k
    BY <1>2
  <2> QED
    BY <1>2, <1>3, <2>1, <2>2
<1>5. ASSUME NEW g \in Segments(s), g[1] = 0 PROVE g[2] = e
  <2>1. PICK i \in cuts, j \in cuts : g = <<i, j>>
    BY <1>3
  <2>2. i = 0 /\ i < j /\ \A k \in cuts : k <= i \/ j <= k
    BY <1>3, <1>5, <2>1
  <2>3. j \in Nat
    BY <1>1 DEF cuts
  <2>4. e <= j /\ j <= e
    BY <1>2, <2>2, <2>3
  <2> QED
    BY <1>2, <2>1, <2>3, <2>4
<1>6. PICK g : g = CHOOSE h \in Segments(s) : h[1] = 0
  OBVIOUS
<1>7. g \in Segments(s) /\ g[1] = 0
  <2>1. \E h \in Segments(s) : h[1] = 0
    BY <1>4
  <2> QED
    BY <1>6, <2>1
<1>8. FirstSegment(s) = SubSeq(s, 1, e - 1)
  BY <1>5, <1>6, <1>7 DEF FirstSegment
<1>9. e - 1 = IF D = {} THEN Len(s) ELSE Min(D) - 1
  BY <1>1 DEF e
<1> QED
  BY <1>8, <1>9

\* What a base's name must begin with is plain, and not empty.
LEMMA StartIs ==
    ASSUME NEW s \in Plain
    PROVE  /\ Start(s) \in Plain
           /\ FindDashes(s) = {} => Start(s) = s
           /\ FindDashes(s) # {} =>
                  /\ Len(Start(s)) = Min(FindDashes(s))
                  /\ \A j \in 1..Min(FindDashes(s)) : Start(s)[j] = s[j]
<1>1. CASE FindDashes(s) = {}
  BY <1>1 DEF Start
<1>2. CASE FindDashes(s) # {}
  <2>1. PICK d : d = Min(FindDashes(s))
    OBVIOUS
  <2>2. d \in 1..Len(s) /\ Len(s) \in Nat
    BY <1>2, <2>1, MinIs, PlainIs, TextIs
  <2>3. Start(s) = SubSeq(s, 1, d)
    BY <1>2, <2>1 DEF Start
  <2>4. \A i \in 1..d : s[i] \in 1..Top - 1
    <3>1. \A i \in 1..d : i \in 1..Len(s)
      BY <2>2
    <3> QED
      BY <3>1, ElementOfSeq DEF Plain
  <2>5. /\ SubSeq(s, 1, d) \in Seq(1..Top - 1) /\ Len(SubSeq(s, 1, d)) = d
        /\ \A j \in 1..d : SubSeq(s, 1, d)[j] = s[j]
    <3>1. SubSeq(s, 1, d) = [i \in 1..d |-> s[i]]
      BY <2>2 DEF Plain
    <3>2. [i \in 1..d |-> s[i]] \in [1..d -> 1..Top - 1]
      BY <2>4
    <3>3. [i \in 1..d |-> s[i]] \in Seq(1..Top - 1) /\ Len([i \in 1..d |-> s[i]]) = d
      BY <2>2, <3>2, SeqDef, LenProperties
    <3> QED
      BY <3>1, <3>3
  <2> QED
    BY <1>2, <2>1, <2>3, <2>5 DEF Plain
<1> QED
  BY <1>1, <1>2

LEMMA PlainPath ==
    ASSUME NEW p \in Path
    PROVE  p.name \in Plain /\ p.name \in Text /\ p.hash \in Nat /\ p # NoBase
<1>1. "hash" \in DOMAIN p /\ p.name \in Plain /\ p.hash \in Nat
  BY CatalogAssumption DEF Plain
<1>2. "hash" \notin DOMAIN NoBase
  BY DEF NoBase
<1> QED
  BY <1>1, <1>2, PlainIs

LEMMA PrefixIs ==
    ASSUME NEW s \in Plain, NEW a \in Plain
    PROVE  IsPrefix(s, a) <=> Begins(s, a)
<1>1. Len(s) \in Nat /\ Len(a) \in Nat /\ s \in Text /\ a \in Text
  BY PlainIs, TextIs
<1> SUFFICES ASSUME Len(s) <= Len(a)
             PROVE  SubSeq(s, 1, Len(s)) = SubSeq(a, 1, Len(s)) <=> \A j \in 1..Len(s) : a[j] = s[j]
  BY DEF IsPrefix, Begins
<1>2. SubSeq(s, 1, Len(s)) = [j \in 1..Len(s) |-> s[j]] /\ SubSeq(a, 1, Len(s)) = [j \in 1..Len(s) |-> a[j]]
  BY <1>1 DEF Plain
<1> QED
  BY <1>2

\* Two names have the same first segment if one begins with that of the other
\* and its dash.
LEMMA SameFirst ==
    ASSUME NEW s \in Plain, NEW a \in Plain, FindDashes(s) # {}, FindDashes(a) # {}
    PROVE  FirstSegment(a) = FirstSegment(s) <=> Begins(Start(s), a)
<1>1. PICK d : d = Min(FindDashes(s))
  OBVIOUS
<1>2. PICK e : e = Min(FindDashes(a))
  OBVIOUS
<1>3. /\ d \in 1..Len(s) /\ Len(s) \in Nat /\ e \in 1..Len(a) /\ Len(a) \in Nat
      /\ s[d] = Dash /\ a[e] = Dash
      /\ \A y \in 1..Len(s) : s[y] = Dash => d <= y
      /\ \A y \in 1..Len(a) : a[y] = Dash => e <= y
  <2>1. /\ d \in FindDashes(s) /\ d \in 1..Len(s) /\ \A y \in FindDashes(s) : d <= y
        /\ e \in FindDashes(a) /\ e \in 1..Len(a) /\ \A y \in FindDashes(a) : e <= y
    BY <1>1, <1>2, MinIs
  <2>2. Len(s) \in Nat /\ DOMAIN s = 1..Len(s) /\ Len(a) \in Nat /\ DOMAIN a = 1..Len(a)
    BY PlainIs, TextIs
  <2> QED
    BY <2>1, <2>2 DEF FindDashes
<1>4. FirstSegment(s) = [j \in 1..d - 1 |-> s[j]] /\ FirstSegment(a) = [j \in 1..e - 1 |-> a[j]]
  <2>1. FirstSegment(s) = SubSeq(s, 1, d - 1) /\ FirstSegment(a) = SubSeq(a, 1, e - 1)
    BY <1>1, <1>2, FirstSegmentIs
  <2>2. SubSeq(s, 1, d - 1) = [j \in 1..d - 1 |-> s[j]] /\ SubSeq(a, 1, e - 1) = [j \in 1..e - 1 |-> a[j]]
    BY <1>3 DEF Plain
  <2> QED
    BY <2>1, <2>2
<1>5. Begins(Start(s), a) <=> d <= Len(a) /\ \A j \in 1..d : a[j] = s[j]
  <2>1. Len(Start(s)) = d /\ \A j \in 1..d : Start(s)[j] = s[j]
    BY <1>1, StartIs
  <2> QED
    BY <2>1 DEF Begins
<1>6. ASSUME FirstSegment(a) = FirstSegment(s)
      PROVE  d <= Len(a) /\ \A j \in 1..d : a[j] = s[j]
  <2>1. 1..d - 1 = 1..e - 1 /\ \A j \in 1..d - 1 : a[j] = s[j]
    <3>1. DOMAIN FirstSegment(a) = 1..e - 1 /\ DOMAIN FirstSegment(s) = 1..d - 1
      BY <1>4
    <3> QED
      BY <1>4, <1>6, <3>1
  <2>2. d = e
    <3>1. d - 1 \in 1..d - 1 \/ d = 1
      BY <1>3
    <3>2. e - 1 \in 1..e - 1 \/ e = 1
      BY <1>3
    <3> QED
      BY <1>3, <2>1, <3>1, <3>2
  <2>3. \A j \in 1..d : j = d \/ j \in 1..d - 1
    BY <1>3
  <2> QED
    BY <1>3, <2>1, <2>2, <2>3
<1>7. ASSUME d <= Len(a), \A j \in 1..d : a[j] = s[j]
      PROVE  FirstSegment(a) = FirstSegment(s)
  <2>1. d \in 1..Len(a) /\ d \in 1..d
    BY <1>3, <1>7
  <2>2. e <= d
    BY <1>3, <1>7, <2>1
  <2>3. e \in 1..d /\ e \in 1..Len(s)
    BY <1>3, <2>2
  <2>4. d <= e
    BY <1>3, <1>7, <2>3
  <2>5. d = e
    BY <1>3, <2>2, <2>4
  <2>6. \A j \in 1..d - 1 : a[j] = s[j]
    BY <1>3, <1>7
  <2> QED
    BY <1>4, <2>5, <2>6
<1> QED
  BY <1>5, <1>6, <1>7

\* What findBase looks at and takes into account is what is similar.
LEMMA SimilarIs ==
    ASSUME NEW p \in Path, NEW i \in Path
    PROVE  Similar(i, p) <=> Begins(Start(p.name), i.name) /\ Eligible(i, p)
<1> DEFINE s == p.name
           a == i.name
<1>1. s \in Plain /\ a \in Plain
  BY PlainPath
<1>2. /\ Cardinality(Segments(s)) = Cardinality(FindDashes(s)) + 1
      /\ Cardinality(Segments(a)) = Cardinality(FindDashes(a)) + 1
  BY <1>1, SegmentsCount
<1>3. /\ Cardinality(FindDashes(s)) \in Nat /\ Cardinality(FindDashes(a)) \in Nat
      /\ Cardinality(FindDashes(s)) = 0 <=> FindDashes(s) = {}
      /\ Cardinality(FindDashes(a)) = 0 <=> FindDashes(a) = {}
  BY <1>1, DashesIs
<1>4. /\ Cardinality(Segments(a)) = Cardinality(Segments(s))
             <=> Cardinality(FindDashes(a)) = Cardinality(FindDashes(s))
      /\ Cardinality(Segments(s)) = 1 <=> FindDashes(s) = {}
  BY <1>2, <1>3
<1>5. Eligible(i, p) <=> /\ i.sys = p.sys /\ p.signer \in {Unsigned, i.signer}
                         /\ Cardinality(FindDashes(a)) = Cardinality(FindDashes(s))
  BY DEF Eligible
<1>6. Similar(i, p) <=> /\ i.sys = p.sys /\ p.signer \in {Unsigned, i.signer}
                        /\ Cardinality(Segments(a)) = Cardinality(Segments(s))
                        /\ IF Cardinality(Segments(s)) = 1 THEN IsPrefix(s, a)
                           ELSE FirstSegment(a) = FirstSegment(s)
  BY DEF Similar
<1>7. FindDashes(s) = {} => Start(s) = s
  BY <1>1, StartIs
<1>8. IsPrefix(s, a) <=> Begins(s, a)
  BY <1>1, PrefixIs
<1>9. FindDashes(s) # {} /\ FindDashes(a) # {} => (FirstSegment(a) = FirstSegment(s) <=> Begins(Start(s), a))
  BY <1>1, SameFirst
<1>10. Cardinality(FindDashes(a)) = Cardinality(FindDashes(s)) => (FindDashes(a) = {} <=> FindDashes(s) = {})
  BY <1>3
<1> HIDE DEF s, a
<1>11. Similar(i, p) <=> Begins(Start(s), a) /\ Eligible(i, p)
  <2>1. CASE FindDashes(s) = {}
    BY <1>4, <1>5, <1>6, <1>7, <1>8, <2>1
  <2>2. CASE FindDashes(s) # {}
    BY <1>4, <1>5, <1>6, <1>9, <1>10, <2>2
  <2> QED
    BY <2>1, <2>2
<1> QED
  BY <1>11 DEF s, a
-----------------------------------------------------------------------------
(* The order of the items, and the best of them *)

LEMMA ItemTotal ==
    ASSUME NEW i \in Path, NEW j \in Path, i # j
    PROVE  ItemLess(i, j) \/ ItemLess(j, i)
<1>1. CASE i.name = j.name
  <2>1. i.hash # j.hash /\ i.hash \in Nat /\ j.hash \in Nat
    BY <1>1, CatalogAssumption
  <2> QED
    BY <1>1, <2>1 DEF ItemLess
<1>2. CASE i.name # j.name
  BY <1>2, LessTotal, PlainPath DEF ItemLess
<1> QED
  BY <1>1, <1>2

LEMMA ItemOnce ==
    ASSUME NEW i \in Path, NEW j \in Path, ItemLess(i, j)
    PROVE  ~ItemLess(j, i)
<1>1. i.name \in Text /\ j.name \in Text /\ i.hash \in Nat /\ j.hash \in Nat
  BY PlainPath
<1>2. CASE Less(i.name, j.name)
  BY <1>1, <1>2, LessOnce DEF ItemLess
<1>3. CASE i.name = j.name /\ i.hash < j.hash
  <2>1. ~Less(j.name, i.name)
    BY <1>1, <1>3, LessOnce
  <2> QED
    BY <1>1, <1>3, <2>1 DEF ItemLess
<1> QED
  BY <1>2, <1>3 DEF ItemLess

LEMMA ItemTransitive ==
    ASSUME NEW i \in Path, NEW j \in Path, NEW k \in Path, ItemLess(i, j), ItemLess(j, k)
    PROVE  ItemLess(i, k)
<1>1. /\ i.name \in Text /\ j.name \in Text /\ k.name \in Text
      /\ i.hash \in Nat /\ j.hash \in Nat /\ k.hash \in Nat
  BY PlainPath
<1>2. Less(i.name, j.name) /\ Less(j.name, k.name) => Less(i.name, k.name)
  BY <1>1, LessTransitive
<1> QED
  BY <1>1, <1>2 DEF ItemLess

IsLast(l, items) == l \in items /\ \A j \in items \ {l} : ItemLess(j, l)

LEMMA LastExists ==
    ASSUME NEW items \in SUBSET Path, IsFiniteSet(items), items # {}
    PROVE  \E l : IsLast(l, items)
<1> DEFINE S == {n \in Nat : \A s \in SUBSET Path :
                     IsFiniteSet(s) /\ Cardinality(s) = n + 1 => \E l : IsLast(l, s)}
           N == Cardinality(items)
<1>1. N \in Nat /\ N # 0
  BY FS_CardinalityType, FS_EmptySet
<1>2. 0 \in S
  <2> SUFFICES ASSUME NEW s \in SUBSET Path, IsFiniteSet(s), Cardinality(s) = 1
               PROVE  \E l : IsLast(l, s)
    OBVIOUS
  <2>1. PICK x : s = {x}
    BY FS_Singleton
  <2> QED
    BY <2>1 DEF IsLast
<1>3. ASSUME NEW n \in 1..N, n - 1 \in S PROVE n \in S
  <2> SUFFICES ASSUME NEW s \in SUBSET Path, IsFiniteSet(s), Cardinality(s) = n + 1
               PROVE  \E l : IsLast(l, s)
    OBVIOUS
  <2>1. PICK x \in s : TRUE
    BY FS_EmptySet
  <2>2. /\ IsFiniteSet(s \ {x}) /\ s \ {x} \in SUBSET Path
        /\ Cardinality(s \ {x}) = (n - 1) + 1
    <3>1. n \in Nat /\ (n + 1) - 1 = (n - 1) + 1
      BY <1>1
    <3>2. IsFiniteSet(s \ {x}) /\ Cardinality(s \ {x}) = Cardinality(s) - 1
      BY FS_RemoveElement
    <3> QED
      BY <3>1, <3>2
  <2>3. PICK l : IsLast(l, s \ {x})
    BY <1>3, <2>2
  <2>4. l \in Path /\ x \in Path /\ l # x /\ l \in s /\ \A j \in s \ {x, l} : ItemLess(j, l)
    BY <2>3 DEF IsLast
  <2>5. CASE ItemLess(x, l)
    BY <2>4, <2>5 DEF IsLast
  <2>6. CASE ItemLess(l, x)
    <3>1. \A j \in s \ {x} : ItemLess(j, x)
      BY <2>4, <2>6, ItemTransitive
    <3> QED
      BY <3>1 DEF IsLast
  <2> QED
    BY <2>4, <2>5, <2>6, ItemTotal
<1> HIDE DEF S, N
<1>4. 0..N - 1 \subseteq S
  <2>1. N - 1 \in Nat /\ \A n \in 1..N - 1 : n \in 1..N
    BY <1>1
  <2> QED
    BY <1>2, <1>3, <2>1, UpTo
<1>5. N - 1 \in S
  BY <1>1, <1>4
<1> QED
  BY <1>1, <1>5 DEF S, N

LEMMA LastIs ==
    ASSUME NEW items \in SUBSET Path, IsFiniteSet(items), items # {}
    PROVE  IsLast(LastItem(items), items)
<1>1. \E l \in items : \A j \in items \ {l} : ItemLess(j, l)
  BY LastExists DEF IsLast
<1> QED
  BY <1>1 DEF IsLast, LastItem

\* b is what there is to find for p among some items.
Best(b, p, items) ==
    IF b = NoBase THEN \A i \in items : ~Eligible(i, p)
    ELSE /\ b \in items /\ Eligible(b, p)
         /\ \A i \in items \ {b} : Eligible(i, p) =>
                \/ MatchLen(p.name, i.name) < MatchLen(p.name, b.name)
                \/ /\ MatchLen(p.name, i.name) = MatchLen(p.name, b.name)
                   /\ ItemLess(i, b)

LEMMA MatchNat == ASSUME NEW a \in Text, NEW b \in Text PROVE MatchLen(a, b) \in Nat
  BY MatchLenParts DEF Parts

\* The next item in order makes of the best so far the best.
LEMMA BetterBest ==
    ASSUME NEW p \in Path, NEW items \in SUBSET Path, NEW l, IsLast(l, items),
           NEW b, Best(b, p, items \ {l})
    PROVE  Best(Better(p, b, l), p, items)
<1>1. l \in items /\ l \in Path /\ l # NoBase /\ \A j \in items \ {l} : ItemLess(j, l)
  BY PlainPath DEF IsLast
<1>2. p.name \in Text /\ MatchLen(p.name, l.name) \in Nat /\ \A i \in items : MatchLen(p.name, i.name) \in Nat
  <2>1. p.name \in Text /\ \A i \in items : i.name \in Text
    BY PlainPath
  <2> QED
    BY <1>1, <2>1, MatchNat
<1>3. b # NoBase => b \in items \ {l} /\ Eligible(b, p) /\ MatchLen(p.name, b.name) \in Nat
  BY <1>2 DEF Best
<1>4. MatchLen(p.name, NoBase.name) = 0
  <2>1. NoBase.name = <<>> /\ <<>> \in Text /\ Len(<<>>) = 0
    BY DEF NoBase, Text
  <2>2. Parts(MatchLen(p.name, <<>>), p.name, <<>>)
    BY <1>2, <2>1, MatchLenParts
  <2> QED
    BY <2>1, <2>2 DEF Parts
<1>5. CASE Eligible(l, p) /\ MatchLen(p.name, l.name) >= MatchLen(p.name, b.name)
  <2>1. Better(p, b, l) = l
    BY <1>5 DEF Better
  <2>2. ASSUME NEW i \in items \ {l}, Eligible(i, p)
        PROVE  \/ MatchLen(p.name, i.name) < MatchLen(p.name, l.name)
               \/ MatchLen(p.name, i.name) = MatchLen(p.name, l.name) /\ ItemLess(i, l)
    <3>1. b # NoBase
      BY <2>2 DEF Best
    <3>2. MatchLen(p.name, i.name) <= MatchLen(p.name, b.name)
      BY <1>2, <1>3, <2>2, <3>1 DEF Best
    <3> QED
      BY <1>1, <1>2, <1>3, <1>5, <2>2, <3>1, <3>2
  <2> QED
    BY <1>1, <1>5, <2>1, <2>2 DEF Best
<1>6. CASE ~(Eligible(l, p) /\ MatchLen(p.name, l.name) >= MatchLen(p.name, b.name))
  <2>1. Better(p, b, l) = b
    BY <1>6 DEF Better
  <2>2. CASE b = NoBase
    <3>1. ~Eligible(l, p)
      BY <1>2, <1>4, <1>6, <2>2
    <3> QED
      BY <2>1, <2>2, <3>1 DEF Best
  <2>3. CASE b # NoBase
    <3>1. Eligible(l, p) => MatchLen(p.name, l.name) < MatchLen(p.name, b.name)
      BY <1>2, <1>3, <1>6, <2>3
    <3> QED
      BY <2>1, <2>3, <3>1 DEF Best
  <2> QED
    BY <2>2, <2>3
<1> QED
  BY <1>5, <1>6

\* The recursion of findBase over the items seen.
Loop(g, p, items) ==
    [seen \in SUBSET items |->
        IF seen = {} THEN NoBase
        ELSE LET i == LastItem(seen) IN Better(p, g[seen \ {i}], i)]

LEMMA LoopExists ==
    ASSUME NEW p, NEW items \in SUBSET Path, IsFiniteSet(items)
    PROVE  \E g : g = Loop(g, p, items)
<1> DEFINE Upto(g, n) == \A s \in SUBSET items : Cardinality(s) <= n => g[s] = Loop(g, p, items)[s]
           S == {n \in Nat : \E g : g = [s \in SUBSET items |-> g[s]] /\ Upto(g, n)}
           N == Cardinality(items)
<1>1. ASSUME NEW s \in SUBSET items
      PROVE  IsFiniteSet(s) /\ Cardinality(s) \in Nat /\ Cardinality(s) <= N /\ N \in Nat
  BY FS_Subset, FS_CardinalityType
<1>2. \A g, s : s \in SUBSET items =>
          Loop(g, p, items)[s] =
              IF s = {} THEN NoBase ELSE Better(p, g[s \ {LastItem(s)}], LastItem(s))
  BY DEF Loop
<1>3. 0 \in S
  <2> DEFINE g == [s \in SUBSET items |-> NoBase]
  <2>1. ASSUME NEW s \in SUBSET items, Cardinality(s) <= 0 PROVE g[s] = Loop(g, p, items)[s]
    <3>1. s = {}
      BY <1>1, <2>1, FS_EmptySet
    <3> QED
      BY <1>2, <3>1
  <2>2. g = [s \in SUBSET items |-> g[s]]
    OBVIOUS
  <2> HIDE DEF g
  <2> QED
    BY <2>1, <2>2
<1>4. ASSUME NEW n \in 1..N, n - 1 \in S PROVE n \in S
  <2>1. PICK g : Upto(g, n - 1)
    BY <1>4
  <2> DEFINE h == Loop(g, p, items)
  <2>2. h = [s \in SUBSET items |-> h[s]]
    BY DEF Loop
  <2>3. ASSUME NEW s \in SUBSET items, Cardinality(s) <= n PROVE h[s] = Loop(h, p, items)[s]
    <3>1. CASE s = {}
      BY <1>2, <3>1
    <3>2. CASE s # {}
      <4>1. PICK t : t = s \ {LastItem(s)}
        OBVIOUS
      <4>2. LastItem(s) \in s
        BY <1>1, <3>2, LastIs DEF IsLast
      <4>3. t \in SUBSET items /\ Cardinality(t) <= n - 1
        <5>1. IsFiniteSet(s) /\ Cardinality(s) \in Nat
          BY <1>1, <2>3, FS_Subset, FS_CardinalityType
        <5>2. Cardinality(t) = Cardinality(s) - 1 /\ t \in SUBSET items
          BY <2>3, <4>1, <4>2, <5>1, FS_RemoveElement
        <5> QED
          BY <1>4, <2>3, <5>1, <5>2
      <4>4. g[t] = h[t]
        BY <2>1, <4>3
      <4>5. h[s] = Better(p, g[t], LastItem(s))
        BY <1>2, <3>2, <4>1
      <4>6. Loop(h, p, items)[s] = Better(p, h[t], LastItem(s))
        BY <1>2, <3>2, <4>1
      <4> QED
        BY <4>4, <4>5, <4>6
    <3> QED
      BY <3>1, <3>2
  <2> HIDE DEF h
  <2>4. n \in Nat /\ Upto(h, n)
    BY <1>1, <2>3
  <2> HIDE DEF Upto
  <2> QED
    BY <2>2, <2>4
<1> HIDE DEF S, N
<1>5. N \in Nat
  BY <1>1
<1>6. 0..N \subseteq S
  BY <1>3, <1>4, <1>5, UpTo
<1>7. PICK g : g = [s \in SUBSET items |-> g[s]] /\ Upto(g, N)
  <2>1. N \in S
    BY <1>5, <1>6
  <2> QED
    BY <2>1 DEF S
<1>8. \A s \in SUBSET items : g[s] = Loop(g, p, items)[s]
  BY <1>1, <1>7
<1>9. Loop(g, p, items) = [s \in SUBSET items |-> Loop(g, p, items)[s]]
  BY DEF Loop
<1> QED
  BY <1>7, <1>8, <1>9

\* The loop finds the best of the items it has seen.
LEMMA LoopBest ==
    ASSUME NEW p \in Path, NEW items \in SUBSET Path, IsFiniteSet(items),
           NEW g, g = Loop(g, p, items)
    PROVE  Best(g[items], p, items)
<1> DEFINE S == {n \in Nat : \A s \in SUBSET items : Cardinality(s) = n => Best(g[s], p, s)}
           N == Cardinality(items)
<1>1. ASSUME NEW s \in SUBSET items
      PROVE  IsFiniteSet(s) /\ Cardinality(s) \in Nat /\ N \in Nat
  BY FS_Subset, FS_CardinalityType
<1>2. \A s \in SUBSET items :
          g[s] = IF s = {} THEN NoBase ELSE Better(p, g[s \ {LastItem(s)}], LastItem(s))
  BY DEF Loop
<1>3. 0 \in S
  <2> SUFFICES ASSUME NEW s \in SUBSET items, Cardinality(s) = 0 PROVE Best(g[s], p, s)
    OBVIOUS
  <2>1. s = {}
    BY <1>1, FS_EmptySet
  <2> QED
    BY <1>2, <2>1 DEF Best
<1>4. ASSUME NEW n \in 1..N, n - 1 \in S PROVE n \in S
  <2> SUFFICES ASSUME NEW s \in SUBSET items, Cardinality(s) = n PROVE Best(g[s], p, s)
    OBVIOUS
  <2>1. s # {}
    BY <1>1, FS_EmptySet
  <2>2. PICK l : l = LastItem(s)
    OBVIOUS
  <2>3. IsLast(l, s)
    BY <1>1, <2>1, <2>2, LastIs
  <2>4. PICK t : t = s \ {l}
    OBVIOUS
  <2>5. t \in SUBSET items /\ Cardinality(t) = n - 1
    BY <1>1, <2>3, <2>4, FS_RemoveElement DEF IsLast
  <2>6. Best(g[t], p, t)
    BY <1>4, <2>5
  <2>7. g[s] = Better(p, g[t], l)
    BY <1>2, <2>1, <2>2, <2>4
  <2>8. Best(g[t], p, s \ {l})
    BY <2>4, <2>6
  <2>9. s \in SUBSET Path
    OBVIOUS
  <2>10. Best(Better(p, g[t], l), p, s)
    BY <2>3, <2>8, <2>9, BetterBest
  <2> QED
    BY <2>7, <2>10
<1> HIDE DEF S, N
<1>5. N \in Nat
  BY <1>1
<1>6. 0..N \subseteq S
  BY <1>3, <1>4, <1>5, UpTo
<1>7. N \in S
  BY <1>5, <1>6
<1> QED
  BY <1>7 DEF S, N

LEMMA FindBaseIs ==
    ASSUME NEW p \in Path, NEW items \in SUBSET Path
    PROVE  IF Len(p.name) < 3 \/ p.name = Source THEN FindBase(items, p) = NoBase
           ELSE Best(FindBase(items, p), p, {i \in items : Begins(Start(p.name), i.name)})
<1>1. CASE Len(p.name) < 3 \/ p.name = Source
  BY <1>1 DEF FindBase
<1>2. CASE ~(Len(p.name) < 3 \/ p.name = Source)
  <2>1. PICK range : range = AscendRange(items, Start(p.name))
    OBVIOUS
  <2>2. range = {i \in items : Begins(Start(p.name), i.name)}
    <3>1. Start(p.name) \in Plain
      BY PlainPath, StartIs
    <3>2. \A i \in items : i.name \in Plain
      BY PlainPath
    <3>3. \A i \in items : ~Less(i.name, Start(p.name)) /\ Less(i.name, Append(Start(p.name), Top))
                               <=> Begins(Start(p.name), i.name)
      BY <3>1, <3>2, RangeIs
    <3> QED
      BY <2>1, <3>3 DEF AscendRange
  <2>3. range \in SUBSET Path /\ IsFiniteSet(range)
    BY <2>2, CatalogAssumption, FS_Subset
  <2> DEFINE best == CHOOSE g : g = Loop(g, p, range)
  <2>4. best = Loop(best, p, range)
    <3>1. \E g : g = Loop(g, p, range)
      BY <2>3, LoopExists
    <3> QED
      BY <3>1
  <2>5. FindBase(items, p) = best[range]
    BY <1>2, <2>1 DEF FindBase, Loop
  <2> HIDE DEF best
  <2>6. Best(best[range], p, range)
    BY <2>3, <2>4, LoopBest
  <2> QED
    BY <1>2, <2>2, <2>5, <2>6
<1> QED
  BY <1>1, <1>2

\* findBase gives a path of the catalog that is similar, the best of them, if
\* there is one.
LEMMA FindBaseFits ==
    ASSUME NEW p \in Path, NEW items \in SUBSET Path
    PROVE  LET base == FindBase(items, p) IN
           /\ base \in items \cup {NoBase}
           /\ IF Len(p.name) < 3 \/ p.name = Source THEN base = NoBase
              ELSE IF base = NoBase THEN \A i \in items : ~Similar(i, p)
              ELSE /\ base \in items /\ Similar(base, p)
                   /\ \A i \in items \ {base} : Similar(i, p) =>
                          \/ MatchLen(p.name, i.name) < MatchLen(p.name, base.name)
                          \/ /\ MatchLen(p.name, i.name) = MatchLen(p.name, base.name)
                             /\ ItemLess(i, base)
<1>1. PICK base : base = FindBase(items, p)
  OBVIOUS
<1>3. \A i \in items : Similar(i, p) <=> Begins(Start(p.name), i.name) /\ Eligible(i, p)
  BY SimilarIs
<1>4. CASE Len(p.name) < 3 \/ p.name = Source
  <2>1. base = NoBase
    BY <1>1, <1>4, FindBaseIs
  <2> QED
    BY <1>1, <1>4, <2>1
<1>5. CASE ~(Len(p.name) < 3 \/ p.name = Source)
  <2>1. Best(base, p, {i \in items : Begins(Start(p.name), i.name)})
    BY <1>1, <1>5, FindBaseIs
  <2>2. base = NoBase => \A i \in items : ~Similar(i, p)
    BY <1>3, <2>1 DEF Best
  <2>3. base # NoBase =>
            /\ base \in items /\ Similar(base, p)
            /\ \A i \in items \ {base} : Similar(i, p) =>
                   \/ MatchLen(p.name, i.name) < MatchLen(p.name, base.name)
                   \/ /\ MatchLen(p.name, i.name) = MatchLen(p.name, base.name)
                      /\ ItemLess(i, base)
    BY <1>3, <2>1 DEF Best
  <2> QED
    BY <1>1, <1>5, <2>2, <2>3
<1> QED
  BY <1>4, <1>5
-----------------------------------------------------------------------------
(* The inductive invariant *)

\* The updater works on a copy of what was published.
CatalogInv ==
    /\ there \in [Path -> Presence] /\ bt \in SUBSET Path
    /\ upd \in [pc : {"idle", "read", "info"}, nt : SUBSET Path, left : SUBSET Path,
                batch : SUBSET Path]
    /\ upd.pc # "idle" => bt \subseteq upd.nt

\* What findBase may give.
Base == Path \cup {NoBase}

Record ==
    [kind : {"R"}, id : Nat, nar : Nar, file : Nat, failed : Failed]
        \cup [kind : {"D"}, id : Nat, nar : Nar, diff : Nat]

RequestTypes ==
    /\ mode \in {"serve", "sim"}
    /\ at \in [Conn -> {"free", "start", "sem", "info", "put", "nar", "done"}]
    /\ ask \in [Conn -> Path]
    /\ mine \in [Conn -> [id : Nat, nar : Nar, base : Base]]
    /\ recents \in [Nar -> [id : Nat, nar : Nar, base : Base]]
    /\ owed \in [Nar -> Nat]
    /\ lastId \in Nat
    /\ log \in Seq(Record)

\* There is a record of a narinfo for nar n.
Promised(n) == \E j \in 1..Len(log) : log[j].kind = "R" /\ log[j].nar = n /\ log[j].failed = ""

\* A recent stays under its nar, and a nar is only asked for, or begun, after
\* its narinfo has been recorded.
PromiseInv ==
    /\ \A n \in Nar : owed[n] > 0 => recents[n].nar = n /\ Promised(n)
    /\ \A c \in Conn :
        /\ at[c] \in {"put", "nar"} => recents[mine[c].nar].nar = mine[c].nar
        /\ at[c] = "nar" => Promised(mine[c].nar)

IInv == CatalogInv /\ RequestTypes /\ PromiseInv /\ RecordFirst
-----------------------------------------------------------------------------
(* The catalog *)

LEMMA BatchPaths ==
    ASSUME NEW nt \in SUBSET Path, NEW batch \in SUBSET Path
    PROVE  PathInfo(nt, batch) \in SUBSET Path /\ nt \subseteq PathInfo(nt, batch)
  BY DEF PathInfo

LEMMA SurroundingsCatalog ==
    ASSUME CatalogInv, Update \/ ReadFails \/ \E p \in Moving, x \in Presence : Change(p, x)
    PROVE  CatalogInv' /\ bt \subseteq bt'
<1> USE DEF CatalogInv
<1>1. CASE Open
  BY <1>1 DEF Open
<1>2. CASE Readdirnames
  <2>1. PICK names \in kSubset(Min({Batch, Cardinality(upd.left)}), upd.left) :
            LET batch == NewNames(upd.nt, names) IN
            upd' = [upd EXCEPT !.left = @ \ names, !.batch = batch,
                               !.pc = IF batch = {} THEN "read" ELSE "info"]
    BY <1>2 DEF Readdirnames
  <2>2. NewNames(upd.nt, names) \in SUBSET Path
    BY DEF kSubset, NewNames
  <2> QED
    BY <1>2, <2>1, <2>2 DEF Readdirnames
<1>3. CASE AskPathInfo
  <2>1. /\ upd.nt \in SUBSET Path /\ upd.batch \in SUBSET Path /\ upd.pc = "info"
        /\ bt' = bt /\ there' = there
    BY <1>3 DEF AskPathInfo
  <2>2. PathInfo(upd.nt, upd.batch) \in SUBSET Path /\ upd.nt \subseteq PathInfo(upd.nt, upd.batch)
    BY <2>1, BatchPaths
  <2>3. \/ upd' = [upd EXCEPT !.pc = "read", !.batch = {}, !.nt = PathInfo(upd.nt, upd.batch)]
        \/ upd' = [upd EXCEPT !.pc = "read", !.batch = {}]
    BY <1>3 DEF AskPathInfo
  <2> QED
    BY <2>1, <2>2, <2>3
<1>4. CASE ReadFails
  BY <1>4 DEF ReadFails, Resting
<1>5. CASE Publish
  BY <1>5 DEF Publish, Resting
<1>6. ASSUME NEW p \in Moving, NEW x \in Presence, Change(p, x) PROVE CatalogInv' /\ bt \subseteq bt'
  <2>1. p \in Path
    BY CatalogAssumption
  <2>2. there' \in [Path -> Presence] /\ bt' = bt
    BY <1>6, <2>1 DEF Change
  <2>3. upd' = upd \/ upd' = [upd EXCEPT !.left = upd.left \cup {p}]
    BY <1>6 DEF Change
  <2> QED
    BY <2>1, <2>2, <2>3
<1> QED
  BY <1>1, <1>2, <1>3, <1>4, <1>5, <1>6 DEF Update
-----------------------------------------------------------------------------
(* The log *)

\* What is recorded stays recorded; a record goes to the end.
LEMMA LogGrows ==
    ASSUME log \in Seq(Record), NEW r \in Record, log' = Append(log, r)
    PROVE  /\ log' \in Seq(Record) /\ Len(log) \in Nat
           /\ Len(log') = Len(log) + 1 /\ log'[Len(log) + 1] = r
           /\ \A i \in 1..Len(log) : log'[i] = log[i]
           /\ \A n : Promised(n) => Promised(n)'
<1>1. /\ log' \in Seq(Record) /\ Len(log) \in Nat
      /\ Len(log') = Len(log) + 1 /\ log'[Len(log) + 1] = r
      /\ \A i \in 1..Len(log) : log'[i] = log[i]
  BY AppendProperties, LenProperties
<1>2. ASSUME NEW n, Promised(n) PROVE Promised(n)'
  <2>1. PICK j \in 1..Len(log) : log[j].kind = "R" /\ log[j].nar = n /\ log[j].failed = ""
    BY <1>2 DEF Promised
  <2>2. j \in 1..Len(log') /\ log'[j] = log[j]
    BY <1>1
  <2> QED
    BY <2>1, <2>2 DEF Promised
<1> QED
  BY <1>1, <1>2

\* A record of a request keeps the order; with "" it is a promise.
LEMMA LogRequest ==
    ASSUME log \in Seq(Record), RecordFirst, NEW id \in Nat, NEW n \in Nar, NEW file \in Nat,
           NEW failed \in Failed, log' = Append(log, RRecord(id, n, file, failed))
    PROVE  /\ log' \in Seq(Record) /\ RecordFirst'
           /\ failed = "" => Promised(n)'
           /\ \A m : Promised(m) => Promised(m)'
<1> DEFINE r == RRecord(id, n, file, failed)
<1>1. r \in Record /\ r.kind = "R" /\ r.nar = n /\ r.failed = failed
  BY DEF RRecord, Record
<1> HIDE DEF r
<1>2. /\ log' \in Seq(Record) /\ Len(log) \in Nat
      /\ Len(log') = Len(log) + 1 /\ log'[Len(log) + 1] = r
      /\ \A i \in 1..Len(log) : log'[i] = log[i]
      /\ \A m : Promised(m) => Promised(m)'
  BY <1>1, LogGrows DEF r
<1>3. ASSUME failed = "" PROVE Promised(n)'
  <2>1. PICK j \in 1..Len(log') : log'[j] = r
    BY <1>2
  <2> QED
    BY <1>1, <1>3, <2>1 DEF Promised
<1>4. ASSUME NEW i \in 1..Len(log'), log'[i].kind = "D"
      PROVE  \E j \in 1..i - 1 : log'[j].kind = "R" /\ log'[j].nar = log'[i].nar /\ log'[j].failed = ""
  <2>1. i \in 1..Len(log)
    BY <1>1, <1>2, <1>4
  <2>2. PICK j \in 1..i - 1 : log[j].kind = "R" /\ log[j].nar = log[i].nar /\ log[j].failed = ""
    BY <1>2, <1>4, <2>1 DEF RecordFirst
  <2>3. j \in 1..Len(log)
    BY <1>2, <2>1
  <2> QED
    BY <1>2, <2>1, <2>2, <2>3
<1> QED
  BY <1>2, <1>3, <1>4 DEF RecordFirst

\* The record of a nar keeps the order when its narinfo was promised.
LEMMA LogNar ==
    ASSUME log \in Seq(Record), RecordFirst, NEW id \in Nat, NEW n \in Nar, NEW diff \in Nat,
           Promised(n), log' = Append(log, DRecord(id, n, diff))
    PROVE  /\ log' \in Seq(Record) /\ RecordFirst'
           /\ \A m : Promised(m) => Promised(m)'
<1> DEFINE r == DRecord(id, n, diff)
<1>1. r \in Record /\ r.kind = "D" /\ r.nar = n
  BY DEF DRecord, Record
<1> HIDE DEF r
<1>2. /\ log' \in Seq(Record) /\ Len(log) \in Nat
      /\ Len(log') = Len(log) + 1 /\ log'[Len(log) + 1] = r
      /\ \A i \in 1..Len(log) : log'[i] = log[i]
      /\ \A m : Promised(m) => Promised(m)'
  BY <1>1, LogGrows DEF r
<1>3. ASSUME NEW i \in 1..Len(log'), log'[i].kind = "D"
      PROVE  \E j \in 1..i - 1 : log'[j].kind = "R" /\ log'[j].nar = log'[i].nar /\ log'[j].failed = ""
  <2>1. CASE i = Len(log) + 1
    <3>1. PICK j \in 1..Len(log) : log[j].kind = "R" /\ log[j].nar = n /\ log[j].failed = ""
      BY DEF Promised
    <3>2. j \in 1..i - 1 /\ log'[j] = log[j] /\ log'[i] = r
      BY <1>2, <2>1
    <3> QED
      BY <1>1, <3>1, <3>2
  <2>2. CASE i # Len(log) + 1
    <3>1. i \in 1..Len(log)
      BY <1>2, <2>2
    <3>2. PICK j \in 1..i - 1 : log[j].kind = "R" /\ log[j].nar = log[i].nar /\ log[j].failed = ""
      BY <1>2, <1>3, <3>1 DEF RecordFirst
    <3>3. j \in 1..Len(log)
      BY <1>2, <3>1
    <3> QED
      BY <1>2, <3>1, <3>2, <3>3
  <2> QED
    BY <2>1, <2>2
<1> QED
  BY <1>2, <1>3 DEF RecordFirst
-----------------------------------------------------------------------------
(* Each step keeps the inductive invariant. *)

\* What the parameters are.
LEMMA Parameters ==
    /\ Wishes \subseteq Path /\ Modes \subseteq {"serve", "sim"}
    /\ \A p \in Path : p.nar \in Nar
    /\ \A n \in Nar : FileSize[n] \in Nat /\ DiffSize[n] \in Nat
  BY RequestsAssumption

LEMMA InitIInv == Init => IInv
<1> SUFFICES ASSUME Init PROVE IInv
  OBVIOUS
<1>1. there \in [Path -> Presence] /\ bt \in SUBSET Path /\ upd = Resting
  <2>1. CASE mode = "sim"
    <3>1. PICK lines \in SUBSET Path : bt = AddBatch({}, lines)
      BY <2>1 DEF Init, SetInit
    <3>2. NewNames({}, lines) \in SUBSET Path
      BY DEF NewNames
    <3> QED
      BY <2>1, <3>1, <3>2, BatchPaths, CatalogAssumption DEF Init, SetInit, AddBatch
  <2>2. CASE mode # "sim"
    BY <2>2, CatalogAssumption DEF Init, CatalogInit
  <2> QED
    BY <2>1, <2>2
<1>2. CatalogInv
  BY <1>1 DEF CatalogInv, Resting
<1>3. \A p \in Wishes : p.nar \in Nar
  BY Parameters
<1>4. NoRecent \in [id : Nat, nar : Nar, base : Base]
  <2>1. (CHOOSE n \in Nar : TRUE) \in Nar
    BY <1>3, RequestsAssumption
  <2> QED
    BY <2>1 DEF NoRecent, Base
<1>5. ask \in [Conn -> Path]
  BY RequestsAssumption DEF Init
<1>6. log = <<>> /\ log \in Seq(Record) /\ Len(log) = 0
  BY DEF Init
<1>7. RequestTypes
  BY <1>4, <1>5, <1>6, Parameters DEF Init, RequestTypes
<1>8. PromiseInv
  BY DEF Init, PromiseInv
<1>9. RecordFirst
  <2>1. 1..Len(log) = {}
    BY <1>6
  <2> QED
    BY <2>1 DEF RecordFirst
<1> QED
  BY <1>2, <1>7, <1>8, <1>9 DEF IInv

LEMMA EndAt ==
    ASSUME RequestTypes, NEW c \in Conn, NEW ok, End(c, ok)
    PROVE  at' = [at EXCEPT ![c] = at'[c]] /\ at'[c] \in {"free", "done"}
  BY DEF End, RequestTypes

LEMMA OutcomeType ==
    ASSUME NEW p, NEW b
    PROVE  Outcome(p, b) \in Failed
  BY DEF Outcome, Failed

LEMMA BaseType == ASSUME NEW items \in SUBSET Path, NEW p \in Path PROVE FindBase(items, p) \in Base
  BY FindBaseFits DEF Base

\* The id of a request is all that changes of its recent.
LEMMA MineType ==
    ASSUME RequestTypes, NEW c \in Conn, NEW id \in Nat, mine' = [mine EXCEPT ![c].id = id]
    PROVE  /\ mine' \in [Conn -> [id : Nat, nar : Nar, base : Base]]
           /\ \A d \in Conn : mine'[d].nar = mine[d].nar
<1> DEFINE m == [mine[c] EXCEPT !.id = id]
<1>1. mine \in [Conn -> [id : Nat, nar : Nar, base : Base]] /\ mine' = [mine EXCEPT ![c] = m]
  BY DEF RequestTypes
<1>2. m \in [id : Nat, nar : Nar, base : Base] /\ m.nar = mine[c].nar
  BY <1>1
<1> HIDE DEF m
<1> QED
  BY <1>1, <1>2

\* A request that is not, or no more, promised a nar.
LEMMA QuietPromise ==
    ASSUME RequestTypes, PromiseInv, RecordFirst, UNCHANGED <<log, recents, owed>>,
           NEW c \in Conn, at' = [at EXCEPT ![c] = at'[c]], at'[c] \notin {"put", "nar"},
           \A d \in Conn : mine'[d].nar = mine[d].nar
    PROVE  PromiseInv' /\ RecordFirst'
<1>1. \A n : Promised(n) => Promised(n)'
  BY DEF Promised
<1>2. \A d \in Conn : at'[d] \in {"put", "nar"} => at'[d] = at[d]
  BY DEF RequestTypes
<1>3. PromiseInv'
  BY <1>1, <1>2 DEF PromiseInv
<1> QED
  BY <1>3 DEF RecordFirst

LEMMA AskInfoStep == ASSUME IInv, NEW c \in Conn, NEW p \in Wishes, AskInfo(c, p) PROVE IInv'
<1>0. CatalogInv /\ RequestTypes /\ PromiseInv /\ RecordFirst
  BY DEF IInv
<1> USE DEF AskInfo
<1>1. CatalogInv'
  BY <1>0 DEF CatalogInv, catalogVars
<1>2. p \in Path
  BY Parameters
<1>3. /\ mine' \in [Conn -> [id : Nat, nar : Nar, base : Base]]
      /\ \A d \in Conn : mine'[d].nar = mine[d].nar
  <2>1. lastId + 1 \in Nat /\ mine' = [mine EXCEPT ![c].id = lastId + 1]
    BY <1>0 DEF RequestTypes
  <2> QED
    BY <1>0, <2>1, MineType
<1>4. RequestTypes'
  BY <1>0, <1>2, <1>3 DEF RequestTypes
<1>5. PromiseInv' /\ RecordFirst'
  BY <1>0, <1>3, QuietPromise DEF RequestTypes
<1> QED
  BY <1>1, <1>4, <1>5 DEF IInv

LEMMA SimStartStep == ASSUME IInv, NEW c \in Conn, SimStart(c) PROVE IInv'
<1>0. CatalogInv /\ RequestTypes /\ PromiseInv /\ RecordFirst
  BY DEF IInv
<1> USE DEF SimStart
<1>1. CatalogInv'
  BY <1>0 DEF CatalogInv, catalogVars
<1>2. RequestTypes'
  BY <1>0 DEF RequestTypes
<1>3. PromiseInv' /\ RecordFirst'
  BY <1>0, QuietPromise DEF RequestTypes
<1> QED
  BY <1>1, <1>2, <1>3 DEF IInv

LEMMA SimRequestStep == ASSUME IInv, NEW c \in Conn, SimRequest(c) PROVE IInv'
<1>0. CatalogInv /\ RequestTypes /\ PromiseInv /\ RecordFirst
  BY DEF IInv
<1> USE DEF SimRequest
<1>1. CatalogInv'
  BY <1>0 DEF CatalogInv, catalogVars
<1>2. /\ mine' \in [Conn -> [id : Nat, nar : Nar, base : Base]]
      /\ \A d \in Conn : mine'[d].nar = mine[d].nar
  <2>1. lastId + 1 \in Nat /\ mine' = [mine EXCEPT ![c].id = lastId + 1]
    BY <1>0 DEF RequestTypes
  <2> QED
    BY <1>0, <2>1, MineType
<1>3. RequestTypes'
  BY <1>0, <1>2 DEF RequestTypes
<1>4. PromiseInv' /\ RecordFirst'
  BY <1>0, <1>2, QuietPromise DEF RequestTypes
<1> QED
  BY <1>1, <1>3, <1>4 DEF IInv

LEMMA UpstreamFailsStep == ASSUME IInv, NEW c \in Conn, UpstreamFails(c) PROVE IInv'
<1>0. CatalogInv /\ RequestTypes /\ PromiseInv /\ RecordFirst
  BY DEF IInv
<1> USE DEF UpstreamFails
<1>1. CatalogInv'
  BY <1>0 DEF CatalogInv, catalogVars
<1>2. at' = [at EXCEPT ![c] = at'[c]] /\ at'[c] \in {"free", "done"}
  BY <1>0, EndAt
<1>3. RequestTypes'
  BY <1>0, <1>2 DEF RequestTypes
<1>4. PromiseInv' /\ RecordFirst'
  BY <1>0, <1>2, QuietPromise DEF RequestTypes
<1> QED
  BY <1>1, <1>3, <1>4 DEF IInv

LEMMA RefuseStep == ASSUME IInv, NEW c \in Conn, Refuse(c) PROVE IInv'
<1>0. CatalogInv /\ RequestTypes /\ PromiseInv /\ RecordFirst
  BY DEF IInv
<1> USE DEF Refuse
<1> DEFINE p == ask[c]
           outcome == Outcome(p, FindBase(bt, p))
           file == IF outcome = "notfound" THEN 0 ELSE FileSize[p.nar]
<1>1. CatalogInv'
  BY <1>0 DEF CatalogInv, catalogVars
<1>2. at' = [at EXCEPT ![c] = at'[c]] /\ at'[c] \in {"free", "done"}
  BY <1>0, EndAt
<1>3. mine[c].id \in Nat /\ p.nar \in Nar /\ file \in Nat /\ outcome \in Failed
  BY <1>0, Parameters, OutcomeType DEF RequestTypes
<1>4. log' = Append(log, RRecord(mine[c].id, p.nar, file, outcome))
  OBVIOUS
<1> HIDE DEF p, outcome, file
<1>5. log' \in Seq(Record) /\ RecordFirst' /\ \A m : Promised(m) => Promised(m)'
  <2>1. log \in Seq(Record)
    BY <1>0 DEF RequestTypes
  <2> QED
    BY <1>0, <1>3, <1>4, <2>1, LogRequest
<1>6. RequestTypes'
  BY <1>0, <1>2, <1>5 DEF RequestTypes
<1>7. PromiseInv'
  BY <1>0, <1>2, <1>5 DEF PromiseInv, RequestTypes
<1> QED
  BY <1>1, <1>5, <1>6, <1>7 DEF IInv

LEMMA PutRecentStep == ASSUME IInv, NEW c \in Conn, PutRecent(c) PROVE IInv'
<1>0. CatalogInv /\ RequestTypes /\ PromiseInv /\ RecordFirst
  BY DEF IInv
<1> USE DEF PutRecent
<1> DEFINE n == ask[c].nar
           recent == [id |-> mine[c].id, nar |-> n, base |-> FindBase(bt, ask[c])]
<1>1. CatalogInv'
  BY <1>0 DEF CatalogInv, catalogVars
<1>2. n \in Nar /\ recent.nar = n /\ recent \in [id : Nat, nar : Nar, base : Base]
  <2>1. ask[c] \in Path /\ bt \in SUBSET Path /\ mine[c].id \in Nat
    BY <1>0 DEF RequestTypes, CatalogInv
  <2>2. n \in Nar /\ FindBase(bt, ask[c]) \in Base
    BY <2>1, Parameters, BaseType
  <2> QED
    BY <2>1, <2>2
<1>3. /\ at' = [at EXCEPT ![c] = "put"] /\ mine' = [mine EXCEPT ![c] = recent]
      /\ recents' = [recents EXCEPT ![n] = recent]
      /\ UNCHANGED <<mode, ask, lastId, log, owed>>
  OBVIOUS
<1> HIDE DEF n, recent, PutRecent
<1>4. RequestTypes'
  BY <1>0, <1>2, <1>3 DEF RequestTypes
<1>5. \A m : Promised(m)' <=> Promised(m)
  BY <1>3 DEF Promised
<1>6. PromiseInv'
  BY <1>0, <1>2, <1>3, <1>5 DEF PromiseInv, RequestTypes
<1>7. RecordFirst'
  BY <1>0, <1>3 DEF RecordFirst
<1> QED
  BY <1>1, <1>4, <1>6, <1>7 DEF IInv

LEMMA ReplyStep == ASSUME IInv, NEW c \in Conn, Reply(c) PROVE IInv'
<1>0. CatalogInv /\ RequestTypes /\ PromiseInv /\ RecordFirst
  BY DEF IInv
<1> DEFINE n == mine[c].nar
<1>1. CatalogInv'
  BY <1>0 DEF Reply, CatalogInv, catalogVars
<1>2. mine[c].id \in Nat /\ n \in Nar /\ FileSize[n] \in Nat /\ "" \in Failed /\ log \in Seq(Record)
  BY <1>0, Parameters DEF RequestTypes, Failed
<1>3. log' = Append(log, RRecord(mine[c].id, n, FileSize[n], ""))
  BY DEF Reply, OkRecord
<1>4. log' \in Seq(Record) /\ RecordFirst' /\ Promised(n)' /\ \A m : Promised(m) => Promised(m)'
  <2>1. PICK failed \in Failed : failed = ""
    BY <1>2
  <2>2. log' = Append(log, RRecord(mine[c].id, n, FileSize[n], failed))
    BY <1>3, <2>1
  <2>3. PICK m \in Nar : m = n
    BY <1>2
  <2>4. PICK id \in Nat : id = mine[c].id
    BY <1>2
  <2>5. PICK file \in Nat : file = FileSize[n]
    BY <1>2
  <2>6. log' = Append(log, RRecord(id, m, file, failed))
    BY <2>2, <2>3, <2>4, <2>5
  <2>7. log' \in Seq(Record) /\ RecordFirst' /\ Promised(m)' /\ \A k : Promised(k) => Promised(k)'
    BY <1>0, <1>2, <2>1, <2>6, LogRequest
  <2>8. n' = n
    BY DEF Reply
  <2> QED
    BY <2>3, <2>7, <2>8 DEF Promised
<1>5. /\ at[c] = "put" /\ UNCHANGED <<mode, ask, mine, recents, lastId>>
      /\ \/ /\ owed' = [owed EXCEPT ![n] = @ + 1]
            /\ at' = [at EXCEPT ![c] = at'[c]] /\ at'[c] \in {"free", "done"}
         \/ owed' = owed /\ at' = [at EXCEPT ![c] = "nar"]
  BY <1>0, EndAt DEF Reply
<1>6. recents[n].nar = n
  BY <1>0, <1>5 DEF PromiseInv
<1> HIDE DEF n
<1>7. RequestTypes'
  <2>1. owed' \in [Nar -> Nat]
    <3>1. owed' = owed \/ owed' = [owed EXCEPT ![n] = owed[n] + 1]
      BY <1>5
    <3>2. owed \in [Nar -> Nat]
      BY <1>0 DEF RequestTypes
    <3>3. n \in Nar
      BY <1>2, Zenon
    <3>4. owed[n] \in Nat
      BY <3>2, <3>3
    <3> QED
      BY <3>1, <3>2, <3>3, <3>4
  <2>2. at' \in [Conn -> {"free", "start", "sem", "info", "put", "nar", "done"}]
    BY <1>0, <1>5 DEF RequestTypes
  <2> QED
    BY <1>0, <1>4, <1>5, <2>1, <2>2 DEF RequestTypes
<1>8. PromiseInv'
  <2>1. \A m \in Nar : owed'[m] > 0 => recents'[m].nar = m /\ Promised(m)'
    <3>1. \A m \in Nar \ {n} : owed'[m] = owed[m]
      BY <1>0, <1>2, <1>5 DEF RequestTypes
    <3> QED
      <4>1. ASSUME NEW m \in Nar \ {n}, owed'[m] > 0 PROVE recents'[m].nar = m /\ Promised(m)'
        BY <1>0, <1>4, <1>5, <3>1, <4>1 DEF PromiseInv
      <4>2. recents'[n].nar = n /\ Promised(n)'
        BY <1>4, <1>5, <1>6
      <4>3. ASSUME NEW m \in Nar, owed'[m] > 0, m = n PROVE recents'[m].nar = m /\ Promised(m)'
        BY <1>5, <4>2, <4>3 DEF n
      <4> QED
        BY <4>1, <4>3
  <2>2. \A d \in Conn : /\ at'[d] \in {"put", "nar"} => recents'[mine'[d].nar].nar = mine'[d].nar
                        /\ (at[d] = "nar" => Promised(mine[d].nar))'
    <3>1. \A d \in Conn \ {c} : at'[d] = at[d]
      BY <1>0, <1>5 DEF RequestTypes
    <3>2. n' = n /\ mine'[c].nar = n
      BY <1>5 DEF n
    <3>3. Promised(mine[c].nar)'
      BY <1>4 DEF n
    <3> QED
      BY <1>0, <1>4, <1>5, <1>6, <3>1, <3>2, <3>3 DEF PromiseInv
  <2> QED
    BY <2>1, <2>2 DEF PromiseInv
<1> QED
  BY <1>1, <1>4, <1>7, <1>8 DEF IInv

LEMMA AskNarStep == ASSUME IInv, NEW c \in Conn, NEW n \in Nar, AskNar(c, n) PROVE IInv'
<1>0. CatalogInv /\ RequestTypes /\ PromiseInv /\ RecordFirst
  BY DEF IInv
<1> USE DEF AskNar
<1>1. CatalogInv'
  BY <1>0 DEF CatalogInv, catalogVars
<1>2. recents[n].nar = n /\ Promised(n)
  BY <1>0 DEF PromiseInv
<1>3. RequestTypes'
  BY <1>0 DEF RequestTypes
<1>4. \A m : Promised(m)' <=> Promised(m)
  BY DEF Promised
<1>5. PromiseInv'
  BY <1>0, <1>2, <1>4 DEF PromiseInv, RequestTypes
<1>6. RecordFirst'
  BY <1>0 DEF RecordFirst
<1> QED
  BY <1>1, <1>3, <1>5, <1>6 DEF IInv

\* What Nix has lost, or was refused, it may ask for again.
LEMMA NarOver ==
    ASSUME RequestTypes, PromiseInv, NEW c \in Conn, at[c] = "nar", NEW ok, End(c, ok),
           UNCHANGED <<mode, ask, mine, recents, lastId>>, log' \in Seq(Record),
           owed' = owed \/ owed' = [owed EXCEPT ![mine[c].nar] = @ + 1],
           \A m : Promised(m) => Promised(m)'
    PROVE  RequestTypes' /\ PromiseInv'
<1>1. at' = [at EXCEPT ![c] = at'[c]] /\ at'[c] \in {"free", "done"}
  BY EndAt
<1>2. mine[c].nar \in Nar /\ recents[mine[c].nar].nar = mine[c].nar /\ Promised(mine[c].nar)
  BY DEF PromiseInv, RequestTypes
<1>3. owed' \in [Nar -> Nat]
  BY <1>2 DEF RequestTypes
<1>4. RequestTypes'
  <2>1. at' \in [Conn -> {"free", "start", "sem", "info", "put", "nar", "done"}]
    BY <1>1 DEF RequestTypes
  <2> QED
    BY <1>3, <2>1 DEF RequestTypes
<1>5. PromiseInv'
  BY <1>1, <1>2 DEF PromiseInv, RequestTypes
<1> QED
  BY <1>4, <1>5

LEMMA SendNarStep == ASSUME IInv, NEW c \in Conn, SendNar(c) PROVE IInv'
<1>0. CatalogInv /\ RequestTypes /\ PromiseInv /\ RecordFirst
  BY DEF IInv
<1> USE DEF SendNar
<1>1. CatalogInv'
  BY <1>0 DEF CatalogInv
<1>2. /\ mine[c].id \in Nat /\ mine[c].nar \in Nar /\ DiffSize[mine[c].nar] \in Nat
      /\ log \in Seq(Record) /\ Promised(mine[c].nar)
  BY <1>0, Parameters DEF RequestTypes, PromiseInv
<1>3. log' = Append(log, DRecord(mine[c].id, mine[c].nar, DiffSize[mine[c].nar]))
  OBVIOUS
<1>4. log' \in Seq(Record) /\ RecordFirst' /\ \A m : Promised(m) => Promised(m)'
  BY <1>0, <1>2, <1>3, LogNar
<1>5. RequestTypes' /\ PromiseInv'
  BY <1>0, <1>4, NarOver
<1> QED
  BY <1>1, <1>4, <1>5 DEF IInv

LEMMA NarFailsStep == ASSUME IInv, NEW c \in Conn, NarFails(c) PROVE IInv'
<1>0. CatalogInv /\ RequestTypes /\ PromiseInv /\ RecordFirst
  BY DEF IInv
<1> USE DEF NarFails
<1>1. CatalogInv'
  BY <1>0 DEF CatalogInv
<1>2. \A m : Promised(m) => Promised(m)'
  BY DEF Promised
<1>3. log' \in Seq(Record)
  BY <1>0 DEF RequestTypes
<1>4. owed' = owed \/ owed' = [owed EXCEPT ![mine[c].nar] = @ + 1]
  OBVIOUS
<1>5. RequestTypes' /\ PromiseInv'
  BY <1>0, <1>2, <1>3, <1>4, NarOver
<1>6. RecordFirst'
  BY <1>0 DEF RecordFirst
<1> QED
  BY <1>1, <1>5, <1>6 DEF IInv

LEMMA RequestsUnchanged ==
    ASSUME IInv, CatalogInv', mode' = mode, UNCHANGED requestVars
    PROVE  IInv'
<1>0. CatalogInv /\ RequestTypes /\ PromiseInv /\ RecordFirst
  BY DEF IInv
<1> USE DEF requestVars
<1>1. RequestTypes'
  BY <1>0 DEF RequestTypes
<1>2. \A m : Promised(m)' <=> Promised(m)
  BY DEF Promised
<1>3. PromiseInv'
  BY <1>0, <1>2 DEF PromiseInv
<1>4. RecordFirst'
  BY <1>0 DEF RecordFirst
<1> QED
  BY <1>1, <1>3, <1>4 DEF IInv

LEMMA SurroundingsStep == ASSUME IInv, Surroundings PROVE IInv'
<1>1. CatalogInv'
  BY SurroundingsCatalog DEF IInv, Surroundings
<1> QED
  BY <1>1, RequestsUnchanged DEF Surroundings

LEMMA NothingStep == ASSUME IInv, UNCHANGED vars PROVE IInv'
<1>1. CatalogInv'
  BY DEF IInv, CatalogInv, vars, catalogVars
<1> QED
  BY <1>1, RequestsUnchanged DEF vars

LEMMA StepIInv == IInv /\ [Next]_vars => IInv'
<1> SUFFICES ASSUME IInv, [Next]_vars PROVE IInv'
  OBVIOUS
<1>1. ASSUME NEW c \in Conn, Line(c) PROVE IInv'
  BY <1>1, SimStartStep, SimRequestStep, UpstreamFailsStep, RefuseStep, PutRecentStep, ReplyStep,
     SendNarStep, NarFailsStep DEF Line
<1>2. ASSUME NEW c \in Conn, Client(c) PROVE IInv'
  BY <1>2, AskInfoStep, AskNarStep DEF Client
<1>3. CASE SimOver
  BY <1>3, NothingStep DEF SimOver
<1> QED
  BY <1>1, <1>2, <1>3, SurroundingsStep, NothingStep DEF Next
-----------------------------------------------------------------------------
\* The updater's copy, the types and the promises hold in every state.
THEOREM SpecIInv == Spec => []IInv
  BY InitIInv, StepIInv, PTL DEF Spec

\* subst.go:416-437: the record of a nar comes after one of a narinfo for it,
\* for any number of connections, nars and paths that share one.
THEOREM SpecRecordFirst == Spec => []RecordFirst
<1>1. IInv => RecordFirst
  BY DEF IInv
<1> QED
  BY <1>1, SpecIInv, PTL

\* Only the updater changes what is published, and only to more.
LEMMA StepForgetsNothing == IInv /\ [Next]_vars => [bt \subseteq bt']_bt
<1> SUFFICES ASSUME IInv, [Next]_vars PROVE bt \subseteq bt'
  OBVIOUS
<1>1. ASSUME NEW c \in Conn, Line(c) PROVE bt' = bt
  BY <1>1 DEF Line, SimStart, SimRequest, UpstreamFails, Refuse, PutRecent, Reply, SendNar, NarFails,
     catalogVars
<1>2. ASSUME NEW c \in Conn, Client(c) PROVE bt' = bt
  BY <1>2 DEF Client, AskInfo, AskNar, catalogVars
<1>3. CASE SimOver \/ UNCHANGED vars
  BY <1>3 DEF SimOver, vars, catalogVars
<1>4. CASE Surroundings
  BY <1>4, SurroundingsCatalog DEF Surroundings, IInv
<1> QED
  BY <1>1, <1>2, <1>3, <1>4 DEF Next

\* catalog.go:112-128: whatever fails and whenever, whatever the store holds and
\* however it is read, no update loses a path that an earlier one has published.
THEOREM SpecNothingForgotten == Spec => NothingForgotten
  BY SpecIInv, StepForgetsNothing, PTL DEF Spec, NothingForgotten
-----------------------------------------------------------------------------
(* The invariant of the log: its ids, what is counted, what was downloaded *)

\* What analyzeLog finds.
Sum == AnalyzeLog(log)

\* The record of a request.
RequestOf(id) == {i \in 1..Len(log) : log[i].kind = "R" /\ log[i].id = id}

\* The connections, or lines, that are there.
In(places) == {c \in Conn : at[c] \in places}

\* A simulation begins one request for each line, one at a time.
CountInv ==
    /\ mode = "serve" => lastId <= MaxRequests /\ In({"start", "sem"}) = {}
    /\ mode = "sim" => lastId = Cardinality(Conn \ In({"start", "sem"}))
    /\ trouble \in 0..MaxTrouble /\ ask \in [Conn -> Wishes]
    /\ success \in Nat /\ errors \in Nat /\ actual \in Nat /\ unseen \in Nat

\* What is found has its record, and no two requests have the same id.
LogInv ==
    /\ \A id \in DOMAIN Sum.reqmap : RequestOf(id) # {}
    /\ \A i \in 1..Len(log) : log[i].kind = "R" =>
        /\ log[i].id \in DOMAIN Sum.reqmap /\ Sum.reqmap[log[i].id].file = log[i].file
        /\ \A j \in 1..Len(log) : log[j].kind = "R" /\ log[j].id = log[i].id => j = i
    /\ \A k \in 1..Len(Sum.diffed) : Sum.diffed[k] \in DOMAIN Sum.reqmap

\* If the request with this id is recorded, it was a good one for nar n.
Good(id, n) ==
    id \in DOMAIN Sum.reqmap =>
        /\ Sum.reqmap[id].file = FileSize[n]
        /\ \A i \in RequestOf(id) : log[i].failed = ""

\* What connection c knows of its id, and nobody else may.
IdAt(c) ==
    /\ mine[c].id <= lastId
    /\ at[c] = "nar" => Good(mine[c].id, mine[c].nar)
    /\ at[c] \in {"info", "put"} =>
        /\ mine[c].id \notin DOMAIN Sum.reqmap
        /\ \A d \in Conn \ {c} : at[d] \in {"info", "put"} => mine[d].id # mine[c].id
    /\ at[c] = "info" =>
        /\ \A n \in Nar : recents[n].id # mine[c].id
        /\ \A d \in Conn : at[d] = "nar" => mine[d].id # mine[c].id
    /\ at[c] = "put" =>
        /\ \A n \in Nar : recents[n].id = mine[c].id => n = mine[c].nar
        /\ \A d \in Conn : at[d] = "nar" /\ mine[d].id = mine[c].id => mine[d].nar = mine[c].nar

IdInv ==
    /\ \A id \in DOMAIN Sum.reqmap : id <= lastId
    /\ \A n \in Nar : recents[n].id <= lastId /\ Good(recents[n].id, n)
    /\ \A c \in Conn : IdAt(c)

\* The bytes of nar n that one download of it, x, is counted for.
FileOf(x, n) == {x} \X (1..FileSize[n])

\* What Nix has yet to fetch, and what a connection is about to deliver: files as
\* far as the log knows.
OwedOf(o, n) == UNION {FileOf(<<n, k>>, n) : k \in 1..o[n]}
Owed(o) == UNION {OwedOf(o, n) : n \in Nar}
Delivering(a, m) == UNION {FileOf(c, m[c].nar) : c \in {c \in Conn : a[c] = "nar"}}

\* The files, and the deltas, of what was recorded before its request.
EarlyFiles == UNION {{i} \X (1..FileSize[log[i].nar]) : i \in Early}
EarlyDeltas == UNION {{i} \X (1..log[i].diff) : i \in Early}

\* What the log says was downloaded is what was, as far as it was told, and in the
\* right order, with what is still to come.
Told == actual - unseen + Cardinality(EarlyFiles) - Cardinality(EarlyDeltas)
Balanced == Sum.tActual = Told + Cardinality(Owed(owed)) + Cardinality(Delivering(at, mine))
LedgerInv ==
    IsFiniteSet(Owed(owed)) /\ IsFiniteSet(EarlyFiles) /\ IsFiniteSet(EarlyDeltas) /\ Balanced
-----------------------------------------------------------------------------
(* What analyzeLog makes of one record more *)

\* The recursion of the loop over the records.
Tally(g, l) == [i \in 0..Len(l) |-> IF i = 0 THEN NoRecords ELSE AddRecord(g[i - 1], l[i])]

LEMMA TallyExists == ASSUME NEW l \in Seq(Record) PROVE \E g : g = Tally(g, l)
<1> DEFINE N == Len(l)
           Upto(g, n) == g[0] = NoRecords /\ \A i \in 1..n : g[i] = AddRecord(g[i - 1], l[i])
           S == {n \in Nat : \E g : g = [i \in 0..n |-> g[i]] /\ Upto(g, n)}
<1>1. N \in Nat
  BY LenProperties
<1>2. 0 \in S
  <2> DEFINE g == [i \in 0..0 |-> NoRecords]
  <2>1. g = [i \in 0..0 |-> g[i]] /\ Upto(g, 0)
    OBVIOUS
  <2> HIDE DEF g, Upto
  <2> QED
    BY <2>1
<1>3. ASSUME NEW n \in 1..N, n - 1 \in S PROVE n \in S
  <2>1. PICK g : Upto(g, n - 1)
    BY <1>3
  <2> DEFINE h == [i \in 0..n |-> IF i = n THEN AddRecord(g[n - 1], l[n]) ELSE g[i]]
  <2>2. h = [i \in 0..n |-> h[i]]
    OBVIOUS
  <2>3. n \in Nat /\ n > 0
    BY <1>1
  <2>4. \A i \in 0..n - 1 : h[i] = g[i]
    BY <2>3
  <2>5. h[n] = AddRecord(g[n - 1], l[n])
    BY <2>3
  <2> HIDE DEF h
  <2>6. ASSUME NEW i \in 1..n PROVE h[i] = AddRecord(h[i - 1], l[i])
    <3>1. i - 1 \in 0..n - 1
      BY <2>3
    <3>2. CASE i = n
      BY <2>4, <2>5, <3>1, <3>2
    <3>3. CASE i # n
      <4>1. i \in 1..n - 1 /\ i \in 0..n - 1
        BY <2>3, <3>3
      <4> QED
        BY <2>1, <2>4, <3>1, <4>1
    <3> QED
      BY <3>2, <3>3
  <2>7. h[0] = NoRecords
    <3>1. 0 \in 0..n - 1
      BY <2>3
    <3> QED
      BY <2>1, <2>4, <3>1
  <2>8. Upto(h, n)
    BY <2>6, <2>7
  <2> HIDE DEF Upto
  <2> QED
    BY <2>2, <2>3, <2>8
<1> HIDE DEF S, N
<1>4. 0..N \subseteq S
  BY <1>1, <1>2, <1>3, UpTo
<1>5. PICK g : g = [i \in 0..N |-> g[i]] /\ Upto(g, N)
  <2>1. N \in S
    BY <1>1, <1>4
  <2> QED
    BY <2>1 DEF S
<1>6. [i \in 0..N |-> g[i]] = Tally(g, l)
  <2>1. \A i \in 0..N : g[i] = IF i = 0 THEN NoRecords ELSE AddRecord(g[i - 1], l[i])
    <3>1. \A i \in 0..N : i = 0 \/ i \in 1..N
      BY <1>1
    <3> QED
      BY <1>5, <3>1
  <2> QED
    BY <2>1 DEF Tally, N
<1> QED
  BY <1>5, <1>6

LEMMA TallyIs ==
    ASSUME NEW l \in Seq(Record)
    PROVE  \E g : /\ g[0] = NoRecords /\ AnalyzeLog(l) = g[Len(l)]
                  /\ \A i \in 1..Len(l) : g[i] = AddRecord(g[i - 1], l[i])
<1> DEFINE g == CHOOSE g : g = Tally(g, l)
<1>1. g = Tally(g, l)
  BY TallyExists
<1>2. AnalyzeLog(l) = g[Len(l)]
  BY DEF AnalyzeLog, Tally
<1>3. Len(l) \in Nat
  BY LenProperties
<1> HIDE DEF g
<1>4. g[0] = NoRecords /\ \A i \in 1..Len(l) : g[i] = AddRecord(g[i - 1], l[i])
  BY <1>1, <1>3 DEF Tally
<1> QED
  BY <1>2, <1>4

LEMMA AnalyzeEmpty == AnalyzeLog(<<>>) = NoRecords
<1>1. <<>> \in Seq(Record) /\ Len(<<>>) = 0
  OBVIOUS
<1> QED
  BY <1>1, TallyIs

LEMMA AnalyzeAppend ==
    ASSUME NEW l \in Seq(Record), NEW r \in Record
    PROVE  AnalyzeLog(Append(l, r)) = AddRecord(AnalyzeLog(l), r)
<1>1. PICK m : m = Append(l, r)
  OBVIOUS
<1>2. PICK n \in Nat : n = Len(l)
  BY LenProperties
<1>3. m \in Seq(Record) /\ Len(m) = n + 1 /\ m[n + 1] = r /\ \A i \in 1..n : m[i] = l[i]
  BY <1>1, <1>2, AppendProperties
<1>4. PICK g : /\ g[0] = NoRecords /\ AnalyzeLog(l) = g[n]
               /\ \A i \in 1..n : g[i] = AddRecord(g[i - 1], l[i])
  BY <1>2, TallyIs
<1>5. PICK h : /\ h[0] = NoRecords /\ AnalyzeLog(m) = h[n + 1]
               /\ \A i \in 1..n + 1 : h[i] = AddRecord(h[i - 1], m[i])
  <2>1. \E h : /\ h[0] = NoRecords /\ AnalyzeLog(m) = h[Len(m)]
               /\ \A i \in 1..Len(m) : h[i] = AddRecord(h[i - 1], m[i])
    <3>1. m \in Seq(Record)
      BY <1>3
    <3> QED
      BY <3>1, TallyIs, Zenon
  <2>2. Len(m) = n + 1
    BY <1>3
  <2> QED
    BY <2>1, <2>2, Zenon
<1> DEFINE S == {i \in 0..n : g[i] = h[i]}
<1>6. 0 \in S
  BY <1>4, <1>5
<1>7. ASSUME NEW i \in 1..n, i - 1 \in S PROVE i \in S
  <2>1. g[i] = AddRecord(g[i - 1], l[i]) /\ h[i] = AddRecord(h[i - 1], l[i]) /\ g[i - 1] = h[i - 1]
    <3>1. i \in 1..n + 1
      OBVIOUS
    <3> QED
      BY <1>3, <1>4, <1>5, <1>7, <3>1
  <2> QED
    BY <2>1
<1> HIDE DEF S
<1>8. 0..n \subseteq S
  BY <1>6, <1>7, UpTo
<1>9. g[n] = h[n]
  BY <1>8 DEF S
<1>10. h[n + 1] = AddRecord(h[n], r)
  <2>1. n + 1 \in 1..n + 1 /\ (n + 1) - 1 = n
    OBVIOUS
  <2> QED
    BY <1>3, <1>5, <2>1
<1> QED
  BY <1>1, <1>4, <1>5, <1>9, <1>10

\* What the loop may have found.
ReqMap == UNION {[D -> [file : Nat, diff : Nat]] : D \in SUBSET Nat}
Tallies == [fmap : [Failed -> Nat], reqmap : ReqMap, diffed : Seq(Nat), missing : Nat, tActual : Int]

LEMMA ReqMapIs ==
    ASSUME NEW m \in ReqMap
    PROVE  DOMAIN m \in SUBSET Nat /\ m \in [DOMAIN m -> [file : Nat, diff : Nat]]
  BY DEF ReqMap

LEMMA IsReqMap ==
    ASSUME NEW D \in SUBSET Nat, NEW m \in [D -> [file : Nat, diff : Nat]]
    PROVE  m \in ReqMap
  BY DEF ReqMap

LEMMA NoRecordsType == NoRecords \in Tallies
<1>1. <<>> \in [{} -> [file : Nat, diff : Nat]]
  OBVIOUS
<1>2. <<>> \in ReqMap
  BY <1>1, IsReqMap
<1>3. [f \in Failed |-> 0] \in [Failed -> Nat] /\ <<>> \in Seq(Nat)
  OBVIOUS
<1> QED
  BY <1>2, <1>3 DEF NoRecords, Tallies

LEMMA AddRequestIs ==
    ASSUME NEW s \in Tallies, NEW r \in Record, r.kind = "R", NEW t, t = AddRecord(s, r)
    PROVE  /\ t \in Tallies
           /\ t.fmap = [s.fmap EXCEPT ![r.failed] = @ + 1]
           /\ DOMAIN t.reqmap = DOMAIN s.reqmap \cup {r.id}
           /\ t.reqmap[r.id].file = r.file
           /\ \A id \in DOMAIN s.reqmap \ {r.id} : t.reqmap[id] = s.reqmap[id]
           /\ t.diffed = s.diffed /\ t.missing = s.missing
           /\ t.tActual = s.tActual + (IF r.failed = "identical" THEN 0 ELSE r.file)
<1>1. r.id \in Nat /\ r.file \in Nat /\ r.failed \in Failed
  BY DEF Record
<1>2. /\ s.fmap \in [Failed -> Nat] /\ s.reqmap \in ReqMap /\ s.diffed \in Seq(Nat)
      /\ s.missing \in Nat /\ s.tActual \in Int
      /\ s = [fmap |-> s.fmap, reqmap |-> s.reqmap, diffed |-> s.diffed,
              missing |-> s.missing, tActual |-> s.tActual]
  BY DEF Tallies
<1> DEFINE fmap == [s.fmap EXCEPT ![r.failed] = @ + 1]
           D == DOMAIN s.reqmap \cup {r.id}
           reqmap == [id \in D |-> IF id = r.id THEN [file |-> r.file, diff |-> 0] ELSE s.reqmap[id]]
           tActual == s.tActual + (IF r.failed = "identical" THEN 0 ELSE r.file)
<1>3. t = [fmap |-> fmap, reqmap |-> reqmap, diffed |-> s.diffed, missing |-> s.missing,
           tActual |-> tActual]
  <2>1. t = AddRequest(s, r)
    BY DEF AddRecord
  <2>2. t = [s EXCEPT !.fmap = fmap, !.reqmap = reqmap, !.tActual = tActual]
    BY <1>2, <2>1 DEF AddRequest
  <2> HIDE DEF fmap, reqmap, tActual
  <2> QED
    BY <1>2, <2>2
<1>4. fmap \in [Failed -> Nat]
  BY <1>1, <1>2
<1>5. reqmap \in ReqMap
  <2>1. D \in SUBSET Nat
    BY <1>1, <1>2, ReqMapIs
  <2>2. \A id \in DOMAIN s.reqmap : s.reqmap[id] \in [file : Nat, diff : Nat]
    BY <1>2, ReqMapIs
  <2>3. [file |-> r.file, diff |-> 0] \in [file : Nat, diff : Nat]
    BY <1>1
  <2>4. reqmap \in [D -> [file : Nat, diff : Nat]]
    BY <2>2, <2>3
  <2> HIDE DEF D, reqmap
  <2> QED
    BY <2>1, <2>4, IsReqMap
<1>6. tActual \in Int
  BY <1>1, <1>2
<1>7. /\ DOMAIN reqmap = DOMAIN s.reqmap \cup {r.id} /\ reqmap[r.id].file = r.file
      /\ \A id \in DOMAIN s.reqmap \ {r.id} : reqmap[id] = s.reqmap[id]
  OBVIOUS
<1> HIDE DEF fmap, reqmap, tActual
<1>8. t \in Tallies
  BY <1>2, <1>3, <1>4, <1>5, <1>6 DEF Tallies
<1> QED
  BY <1>3, <1>7, <1>8 DEF fmap, tActual

LEMMA AddDiffIs ==
    ASSUME NEW s \in Tallies, NEW r \in Record, r.kind = "D", r.id \in DOMAIN s.reqmap,
           NEW t, t = AddRecord(s, r)
    PROVE  /\ t \in Tallies /\ t.fmap = s.fmap /\ DOMAIN t.reqmap = DOMAIN s.reqmap
           /\ \A id \in DOMAIN s.reqmap : t.reqmap[id].file = s.reqmap[id].file
           /\ \A id \in DOMAIN s.reqmap \ {r.id} : t.reqmap[id] = s.reqmap[id]
           /\ t.reqmap[r.id].diff = r.diff
           /\ t.diffed = Append(s.diffed, r.id) /\ t.missing = s.missing
           /\ t.tActual = s.tActual - s.reqmap[r.id].file + r.diff
<1>1. r.id \in Nat /\ r.diff \in Nat
  BY DEF Record
<1>2. /\ s.fmap \in [Failed -> Nat] /\ s.reqmap \in ReqMap /\ s.diffed \in Seq(Nat)
      /\ s.missing \in Nat /\ s.tActual \in Int
      /\ s = [fmap |-> s.fmap, reqmap |-> s.reqmap, diffed |-> s.diffed,
              missing |-> s.missing, tActual |-> s.tActual]
  BY DEF Tallies
<1> DEFINE D == DOMAIN s.reqmap
           reqmap == [s.reqmap EXCEPT ![r.id].diff = r.diff]
           tActual == s.tActual - s.reqmap[r.id].file + r.diff
           diffed == Append(s.diffed, r.id)
<1>3. t = [fmap |-> s.fmap, reqmap |-> reqmap, diffed |-> diffed, missing |-> s.missing,
           tActual |-> tActual]
  <2>1. t = AddDiff(s, r)
    BY DEF AddRecord
  <2>2. t = [s EXCEPT !.tActual = tActual, !.reqmap = reqmap, !.diffed = diffed]
    BY <1>2, <2>1 DEF AddDiff
  <2> HIDE DEF reqmap, tActual, diffed
  <2> QED
    BY <1>2, <2>2
<1>4. D \in SUBSET Nat /\ s.reqmap \in [D -> [file : Nat, diff : Nat]]
  BY <1>2, ReqMapIs
<1>5. PICK q \in [file : Nat, diff : Nat] : q = s.reqmap[r.id]
  BY <1>4
<1>6. [q EXCEPT !.diff = r.diff] \in [file : Nat, diff : Nat]
  BY <1>1
<1>7. reqmap = [s.reqmap EXCEPT ![r.id] = [q EXCEPT !.diff = r.diff]]
  BY <1>5
<1>8. PICK u \in [file : Nat, diff : Nat] : u = [q EXCEPT !.diff = r.diff] /\ u.file = q.file /\ u.diff = r.diff
  BY <1>1, <1>6
<1>9. reqmap = [s.reqmap EXCEPT ![r.id] = u]
  BY <1>7, <1>8
<1> HIDE DEF reqmap
<1>10. /\ reqmap \in [D -> [file : Nat, diff : Nat]] /\ DOMAIN reqmap = D
       /\ \A id \in D \ {r.id} : reqmap[id] = s.reqmap[id]
       /\ reqmap[r.id].diff = r.diff /\ reqmap[r.id].file = s.reqmap[r.id].file
  BY <1>4, <1>5, <1>8, <1>9
<1>11. reqmap \in ReqMap
  <2> HIDE DEF D
  <2> QED
    BY <1>4, <1>10, IsReqMap
<1>12. tActual \in Int
  <2>1. s.reqmap[r.id].file \in Nat
    BY <1>5
  <2> QED
    BY <1>1, <1>2, <2>1
<1>13. diffed \in Seq(Nat)
  BY <1>1, <1>2, AppendProperties
<1> HIDE DEF tActual, diffed
<1>14. t \in Tallies
  BY <1>2, <1>3, <1>11, <1>12, <1>13 DEF Tallies
<1>15. /\ t.fmap = s.fmap /\ t.reqmap = reqmap /\ t.diffed = diffed /\ t.missing = s.missing
       /\ t.tActual = tActual
  BY <1>3
<1>16. \A id \in D : reqmap[id].file = s.reqmap[id].file
  BY <1>10
<1> QED
  BY <1>10, <1>14, <1>15, <1>16 DEF tActual, diffed, D

LEMMA AddMissingIs ==
    ASSUME NEW s \in Tallies, NEW r \in Record, r.kind = "D", r.id \notin DOMAIN s.reqmap,
           NEW t, t = AddRecord(s, r)
    PROVE  /\ t \in Tallies /\ t.fmap = s.fmap /\ t.reqmap = s.reqmap /\ t.diffed = s.diffed
           /\ t.missing = s.missing + 1 /\ t.tActual = s.tActual
<1>1. s.missing \in Nat /\ t = [s EXCEPT !.missing = s.missing + 1]
  BY DEF AddRecord, AddDiff, Tallies
<1>2. /\ s.fmap \in [Failed -> Nat] /\ s.reqmap \in ReqMap /\ s.diffed \in Seq(Nat) /\ s.tActual \in Int
      /\ s = [fmap |-> s.fmap, reqmap |-> s.reqmap, diffed |-> s.diffed,
              missing |-> s.missing, tActual |-> s.tActual]
  BY DEF Tallies
<1>3. t = [fmap |-> s.fmap, reqmap |-> s.reqmap, diffed |-> s.diffed,
           missing |-> s.missing + 1, tActual |-> s.tActual]
  BY <1>1, <1>2
<1>4. s.missing + 1 \in Nat
  BY <1>1
<1>5. t \in Tallies
  BY <1>2, <1>3, <1>4 DEF Tallies
<1>6. t.fmap = s.fmap /\ t.reqmap = s.reqmap /\ t.diffed = s.diffed
  BY <1>3
<1>7. t.missing = s.missing + 1 /\ t.tActual = s.tActual
  BY <1>3
<1> QED
  BY <1>5, <1>6, <1>7
-----------------------------------------------------------------------------
(* The log and what is found in it *)

RecordedInv == log \in Seq(Record) /\ Sum \in Tallies /\ LogInv

LEMMA SumSame == ASSUME UNCHANGED log PROVE Sum' = Sum
  BY DEF Sum

LEMMA LogAppend ==
    ASSUME log \in Seq(Record), NEW r \in Record, log' = Append(log, r)
    PROVE  /\ Sum' = AddRecord(Sum, r)
           /\ log' \in Seq(Record) /\ Len(log) \in Nat
           /\ Len(log') = Len(log) + 1 /\ log'[Len(log) + 1] = r
           /\ \A i \in 1..Len(log) : log'[i] = log[i]
           /\ 1..Len(log') = 1..Len(log) \cup {Len(log) + 1}
<1>1. Sum' = AddRecord(Sum, r)
  BY AnalyzeAppend DEF Sum
<1>2. Len(log') = Len(log) + 1 /\ Len(log) \in Nat
  BY LogGrows
<1>3. 1..Len(log') = 1..Len(log) \cup {Len(log) + 1}
  BY <1>2
<1> QED
  BY <1>1, <1>3, LogGrows

\* What a record more of a request, or of a delta, changes in what is found.
RequestCounted(id, file, failed) ==
    /\ \A f \in Failed : Sum'.fmap[f] = Sum.fmap[f] + (IF f = failed THEN 1 ELSE 0)
    /\ DOMAIN Sum'.reqmap = DOMAIN Sum.reqmap \cup {id}
    /\ Sum'.reqmap[id].file = file
    /\ \A x \in DOMAIN Sum.reqmap : Sum'.reqmap[x] = Sum.reqmap[x]
    /\ Sum'.diffed = Sum.diffed /\ Sum'.missing = Sum.missing
    /\ Sum'.tActual = Sum.tActual + (IF failed = "identical" THEN 0 ELSE file)

DeltaCounted(id, diff) ==
    /\ Sum'.fmap = Sum.fmap /\ DOMAIN Sum'.reqmap = DOMAIN Sum.reqmap
    /\ IF id \in DOMAIN Sum.reqmap
       THEN /\ Sum'.diffed = Append(Sum.diffed, id) /\ Sum'.missing = Sum.missing
            /\ Sum'.tActual = Sum.tActual - Sum.reqmap[id].file + diff
            /\ Sum'.reqmap[id].diff = diff
            /\ \A x \in DOMAIN Sum.reqmap \ {id} : Sum'.reqmap[x] = Sum.reqmap[x]
       ELSE Sum'.missing = Sum.missing + 1 /\ Sum'.tActual = Sum.tActual

\* A request with a new id is recorded.
LEMMA RequestLogged ==
    ASSUME RecordedInv, NEW id \in Nat, id \notin DOMAIN Sum.reqmap,
           NEW n \in Nar, NEW file \in Nat, NEW failed \in Failed,
           log' = Append(log, RRecord(id, n, file, failed))
    PROVE  /\ RecordedInv' /\ RequestCounted(id, file, failed)
           /\ \A x, m : x # id /\ Good(x, m) => Good(x, m)'
           /\ \A m : failed = "" /\ file = FileSize[m] => Good(id, m)'
<1> DEFINE r == RRecord(id, n, file, failed)
<1>1. r \in Record /\ r.kind = "R" /\ r.id = id /\ r.file = file /\ r.failed = failed
  BY DEF RRecord, Record
<1> HIDE DEF r
<1>2. /\ Sum' = AddRecord(Sum, r)
      /\ log' \in Seq(Record) /\ Len(log) \in Nat
      /\ Len(log') = Len(log) + 1 /\ log'[Len(log) + 1] = r
      /\ \A i \in 1..Len(log) : log'[i] = log[i]
      /\ 1..Len(log') = 1..Len(log) \cup {Len(log) + 1}
  BY <1>1, LogAppend DEF RecordedInv, r
<1>3. Sum \in Tallies
  BY DEF RecordedInv
<1>4. /\ Sum' \in Tallies
      /\ Sum'.fmap = [Sum.fmap EXCEPT ![failed] = @ + 1]
      /\ DOMAIN Sum'.reqmap = DOMAIN Sum.reqmap \cup {id}
      /\ Sum'.reqmap[id].file = file
      /\ \A x \in DOMAIN Sum.reqmap \ {id} : Sum'.reqmap[x] = Sum.reqmap[x]
      /\ Sum'.diffed = Sum.diffed /\ Sum'.missing = Sum.missing
      /\ Sum'.tActual = Sum.tActual + (IF failed = "identical" THEN 0 ELSE file)
  BY <1>1, <1>2, <1>3, AddRequestIs, SMTT(30)
<1>5. LogInv
  BY DEF RecordedInv
<1>6. \A x : x # id => RequestOf(x)' = RequestOf(x)
  BY <1>1, <1>2 DEF RequestOf
<1>7. RequestOf(id)' = {Len(log) + 1}
  <2>1. \A i \in 1..Len(log) : ~(log[i].kind = "R" /\ log[i].id = id)
    BY <1>5 DEF LogInv
  <2>2. \A i \in 1..Len(log') : log'[i].kind = "R" /\ log'[i].id = id <=> i = Len(log) + 1
    BY <1>1, <1>2, <2>1
  <2>3. Len(log) + 1 \in 1..Len(log')
    BY <1>2
  <2> QED
    BY <2>2, <2>3 DEF RequestOf
<1>8. LogInv'
  <2>1. ASSUME NEW x \in DOMAIN Sum'.reqmap PROVE RequestOf(x)' # {}
    <3>1. CASE x = id
      BY <1>7, <3>1
    <3>2. CASE x # id
      BY <1>4, <1>5, <1>6, <2>1, <3>2 DEF LogInv
    <3> QED
      BY <3>1, <3>2
  <2>2. ASSUME NEW i \in 1..Len(log'), log'[i].kind = "R"
        PROVE  /\ log'[i].id \in DOMAIN Sum'.reqmap /\ Sum'.reqmap[log'[i].id].file = log'[i].file
               /\ \A j \in 1..Len(log') : log'[j].kind = "R" /\ log'[j].id = log'[i].id => j = i
    <3>1. CASE i = Len(log) + 1
      <4>1. \A j \in 1..Len(log') : log'[j].kind = "R" /\ log'[j].id = id => j \in RequestOf(id)'
        BY DEF RequestOf
      <4> QED
        BY <1>1, <1>2, <1>4, <1>7, <3>1, <4>1
    <3>2. CASE i # Len(log) + 1
      <4>1. i \in 1..Len(log) /\ log'[i] = log[i] /\ log[i].kind = "R"
        BY <1>2, <2>2, <3>2
      <4>2. /\ log[i].id \in DOMAIN Sum.reqmap /\ Sum.reqmap[log[i].id].file = log[i].file
            /\ \A j \in 1..Len(log) : log[j].kind = "R" /\ log[j].id = log[i].id => j = i
        BY <1>5, <4>1 DEF LogInv
      <4>3. log[i].id # id
        BY <4>2
      <4>4. ASSUME NEW j \in 1..Len(log'), log'[j].kind = "R", log'[j].id = log'[i].id PROVE j = i
        <5>1. j # Len(log) + 1
          BY <1>1, <1>2, <4>1, <4>3, <4>4
        <5>2. j \in 1..Len(log) /\ log'[j] = log[j]
          BY <1>2, <5>1
        <5> QED
          BY <4>1, <4>2, <4>4, <5>2
      <4> QED
        BY <1>4, <4>1, <4>2, <4>3, <4>4
    <3> QED
      BY <3>1, <3>2
  <2>3. \A k \in 1..Len(Sum'.diffed) : Sum'.diffed[k] \in DOMAIN Sum'.reqmap
    BY <1>4, <1>5 DEF LogInv
  <2> QED
    BY <2>1, <2>2, <2>3 DEF LogInv
<1>9. ASSUME NEW x, NEW m, x # id, Good(x, m) PROVE Good(x, m)'
  <2>1. FileSize[m]' = FileSize[m]
    OBVIOUS
  <2> SUFFICES ASSUME x \in DOMAIN Sum'.reqmap
               PROVE  Sum'.reqmap[x].file = FileSize[m] /\ \A i \in RequestOf(x)' : log'[i].failed = ""
    BY DEF Good
  <2>2. x \in DOMAIN Sum.reqmap /\ Sum'.reqmap[x] = Sum.reqmap[x] /\ RequestOf(x)' = RequestOf(x)
    BY <1>4, <1>6, <1>9
  <2>3. Sum.reqmap[x].file = FileSize[m] /\ \A i \in RequestOf(x) : log[i].failed = ""
    BY <1>9, <2>2 DEF Good
  <2>4. \A i \in RequestOf(x) : i \in 1..Len(log)
    BY DEF RequestOf
  <2> QED
    BY <1>2, <2>2, <2>3, <2>4
<1>10. ASSUME NEW f \in Failed PROVE Sum'.fmap[f] = Sum.fmap[f] + (IF f = failed THEN 1 ELSE 0)
  <2>1. Sum.fmap \in [Failed -> Nat]
    BY <1>3 DEF Tallies
  <2> QED
    BY <1>4, <2>1
<1>11. ASSUME NEW m, failed = "", file = FileSize[m] PROVE Good(id, m)'
  BY <1>1, <1>2, <1>4, <1>7, <1>11 DEF Good
<1>12. RequestCounted(id, file, failed)
  BY <1>4, <1>10 DEF RequestCounted
<1> QED
  BY <1>2, <1>4, <1>8, <1>9, <1>11, <1>12 DEF RecordedInv

\* A delta is recorded, for a request that is in the log, or is not.
LEMMA DeltaLogged ==
    ASSUME RecordedInv, NEW id \in Nat, NEW n \in Nar, NEW diff \in Nat,
           log' = Append(log, DRecord(id, n, diff))
    PROVE  RecordedInv' /\ DeltaCounted(id, diff) /\ \A x, m : Good(x, m) => Good(x, m)'
<1> DEFINE r == DRecord(id, n, diff)
<1>1. r \in Record /\ r.kind = "D" /\ r.id = id /\ r.diff = diff
  BY DEF DRecord, Record
<1> HIDE DEF r
<1>2. /\ Sum' = AddRecord(Sum, r)
      /\ log' \in Seq(Record) /\ Len(log) \in Nat
      /\ Len(log') = Len(log) + 1 /\ log'[Len(log) + 1] = r
      /\ \A i \in 1..Len(log) : log'[i] = log[i]
      /\ 1..Len(log') = 1..Len(log) \cup {Len(log) + 1}
  BY <1>1, LogAppend DEF RecordedInv, r
<1>3. Sum \in Tallies /\ LogInv
  BY DEF RecordedInv
<1>4. \A x : RequestOf(x)' = RequestOf(x)
  BY <1>1, <1>2 DEF RequestOf
\* A delta changes no file of a request, and follows what was diffed.
<1>5. ASSUME Sum' \in Tallies, DOMAIN Sum'.reqmap = DOMAIN Sum.reqmap,
             \A x \in DOMAIN Sum.reqmap : Sum'.reqmap[x].file = Sum.reqmap[x].file,
             \A k \in 1..Len(Sum'.diffed) : Sum'.diffed[k] \in DOMAIN Sum.reqmap
      PROVE  RecordedInv' /\ \A x, m : Good(x, m) => Good(x, m)'
  <2>1. \A i \in 1..Len(log') : log'[i].kind = "R" => i \in 1..Len(log) /\ log'[i] = log[i]
    BY <1>1, <1>2
  <2>2. LogInv'
    <3>1. \A x \in DOMAIN Sum'.reqmap : RequestOf(x)' # {}
      BY <1>3, <1>4, <1>5 DEF LogInv
    <3>2. \A i \in 1..Len(log') : log'[i].kind = "R" =>
              /\ log'[i].id \in DOMAIN Sum'.reqmap /\ Sum'.reqmap[log'[i].id].file = log'[i].file
              /\ \A j \in 1..Len(log') : log'[j].kind = "R" /\ log'[j].id = log'[i].id => j = i
      BY <1>3, <1>5, <2>1 DEF LogInv
    <3> QED
      BY <1>5, <3>1, <3>2 DEF LogInv
  <2>3. ASSUME NEW x, NEW m, Good(x, m) PROVE Good(x, m)'
    <3>1. \A i \in RequestOf(x)' : log'[i] = log[i] /\ i \in RequestOf(x)
      BY <1>2, <1>4 DEF RequestOf
    <3> QED
      BY <1>5, <2>3, <3>1 DEF Good
  <2> QED
    BY <1>2, <1>5, <2>2, <2>3 DEF RecordedInv
<1>6. CASE id \in DOMAIN Sum.reqmap
  <2>1. /\ Sum' \in Tallies /\ Sum'.fmap = Sum.fmap /\ DOMAIN Sum'.reqmap = DOMAIN Sum.reqmap
        /\ \A x \in DOMAIN Sum.reqmap : Sum'.reqmap[x].file = Sum.reqmap[x].file
        /\ \A x \in DOMAIN Sum.reqmap \ {id} : Sum'.reqmap[x] = Sum.reqmap[x]
        /\ Sum'.reqmap[id].diff = diff
        /\ Sum'.diffed = Append(Sum.diffed, id) /\ Sum'.missing = Sum.missing
        /\ Sum'.tActual = Sum.tActual - Sum.reqmap[id].file + diff
    BY <1>1, <1>2, <1>3, <1>6, AddDiffIs
  <2>2. \A k \in 1..Len(Sum'.diffed) : Sum'.diffed[k] \in DOMAIN Sum.reqmap
    <3>1. PICK q \in Seq(Nat) : q = Sum.diffed
      BY <1>3 DEF Tallies
    <3>2. Len(q) \in Nat /\ \A k \in 1..Len(q) : q[k] \in DOMAIN Sum.reqmap
      BY <1>3, <3>1, LenProperties DEF LogInv
    <3>3. PICK s : s = Append(q, id)
      OBVIOUS
    <3>4. Len(s) = Len(q) + 1 /\ s[Len(q) + 1] = id /\ \A k \in 1..Len(q) : s[k] = q[k]
      BY <3>1, <3>3, AppendProperties
    <3>5. \A k \in 1..Len(s) : k \in 1..Len(q) \/ k = Len(q) + 1
      BY <3>2, <3>4
    <3>6. \A k \in 1..Len(s) : s[k] \in DOMAIN Sum.reqmap
      BY <1>6, <3>2, <3>4, <3>5
    <3> QED
      BY <2>1, <3>1, <3>3, <3>6
  <2>3. RecordedInv' /\ \A x, m : Good(x, m) => Good(x, m)'
    BY <1>5, <2>1, <2>2
  <2> QED
    BY <1>6, <2>1, <2>3 DEF DeltaCounted
<1>7. CASE id \notin DOMAIN Sum.reqmap
  <2>1. /\ Sum' \in Tallies /\ Sum'.fmap = Sum.fmap /\ Sum'.reqmap = Sum.reqmap
        /\ Sum'.diffed = Sum.diffed /\ Sum'.missing = Sum.missing + 1 /\ Sum'.tActual = Sum.tActual
    BY <1>1, <1>2, <1>3, <1>7, AddMissingIs
  <2>2. RecordedInv' /\ \A x, m : Good(x, m) => Good(x, m)'
    BY <1>3, <1>5, <2>1 DEF LogInv
  <2> QED
    BY <1>7, <2>1, <2>2 DEF DeltaCounted
<1> QED
  BY <1>6, <1>7
-----------------------------------------------------------------------------
(* Each step keeps what is known of the ids. *)

LEMMA SameIds ==
    ASSUME RecordedInv, UNCHANGED log
    PROVE  RecordedInv' /\ Sum' = Sum /\ \A x, m : Good(x, m) => Good(x, m)'
<1>1. Sum' = Sum
  BY SumSame
<1>2. \A x : RequestOf(x)' = RequestOf(x)
  BY DEF RequestOf
<1>3. LogInv'
  BY <1>1, <1>2 DEF LogInv, RecordedInv
<1> QED
  BY <1>1, <1>2, <1>3 DEF RecordedInv, Good

\* A request that is over has no part in it.
LEMMA IdOver ==
    ASSUME RequestTypes, IdInv, NEW c \in Conn,
           at' = [at EXCEPT ![c] = at'[c]], at'[c] \notin {"info", "put", "nar"},
           UNCHANGED <<mine, recents, lastId>>,
           DOMAIN Sum'.reqmap = DOMAIN Sum.reqmap, \A x, m : Good(x, m) => Good(x, m)'
    PROVE  IdInv'
<1>1. \A d \in Conn : at'[d] \in {"info", "put", "nar"} => at'[d] = at[d]
  BY DEF RequestTypes
<1> QED
  BY <1>1 DEF IdInv, IdAt

\* A request begins, with an id nobody has.
LEMMA IdBegin ==
    ASSUME RequestTypes, RecordedInv, IdInv, NEW c \in Conn,
           at' = [at EXCEPT ![c] = "info"], lastId' = lastId + 1,
           mine' = [mine EXCEPT ![c].id = lastId'], UNCHANGED <<recents, log>>
    PROVE  IdInv'
<1>1. Sum' = Sum /\ \A x, m : Good(x, m) => Good(x, m)'
  BY SameIds
<1>2. PICK id \in Nat : id = lastId + 1
  BY DEF RequestTypes
<1>3. lastId \in Nat /\ lastId < id /\ lastId' = id
  BY <1>2 DEF RequestTypes
<1>4. /\ at'[c] = "info" /\ \A d \in Conn \ {c} : at'[d] = at[d]
      /\ mine'[c].id = id /\ \A d \in Conn \ {c} : mine'[d] = mine[d]
  BY <1>3 DEF RequestTypes
<1>5. /\ \A x \in DOMAIN Sum.reqmap : x \in Nat /\ x <= lastId
      /\ \A n \in Nar : recents[n].id <= lastId /\ recents[n].id \in Nat
      /\ \A d \in Conn : mine[d].id <= lastId /\ mine[d].id \in Nat
  <2>1. DOMAIN Sum.reqmap \in SUBSET Nat
    BY ReqMapIs DEF RecordedInv, Tallies
  <2> QED
    BY <2>1 DEF IdInv, IdAt, RequestTypes
<1>6. /\ \A x \in DOMAIN Sum.reqmap : x # id /\ x <= id
      /\ \A n \in Nar : recents[n].id # id /\ recents[n].id <= id
      /\ \A d \in Conn : mine[d].id # id /\ mine[d].id <= id
  BY <1>3, <1>5
<1>7. id <= id
  BY <1>3
<1>8. \A d \in Conn : IF d = c THEN at'[d] = "info" /\ mine'[d].id = id
                      ELSE at'[d] = at[d] /\ mine'[d] = mine[d]
  BY <1>4
<1>9. /\ \A x \in DOMAIN Sum'.reqmap : x <= lastId'
      /\ \A n \in Nar : recents'[n].id <= lastId' /\ Good(recents[n].id, n)'
  BY <1>1, <1>3, <1>6 DEF IdInv
<1>10. ASSUME NEW d \in Conn PROVE IdAt(d)'
  <2>1. CASE d = c
    BY <1>1, <1>3, <1>6, <1>7, <1>8, <2>1 DEF IdAt
  <2>2. CASE d # c
    BY <1>1, <1>3, <1>6, <1>8, <2>2 DEF IdInv, IdAt
  <2> QED
    BY <2>1, <2>2
<1> QED
  BY <1>9, <1>10 DEF IdInv

\* A request is recorded, and goes on to its nar or is over.
LEMMA IdRecorded ==
    ASSUME RequestTypes, RecordedInv, IdInv, NEW c \in Conn, at[c] \in {"info", "put"},
           at' = [at EXCEPT ![c] = at'[c]], at'[c] \notin {"info", "put"},
           UNCHANGED <<mine, recents, lastId>>,
           NEW id \in Nat, id = mine[c].id, NEW n \in Nar, n = ask[c].nar \/ n = mine[c].nar,
           NEW file \in Nat, NEW failed \in Failed,
           log' = Append(log, RRecord(id, n, file, failed)),
           at[c] = "info" => at'[c] # "nar",
           at[c] = "put" => n = mine[c].nar /\ file = FileSize[n] /\ failed = ""
    PROVE  RecordedInv' /\ IdInv'
<1>1. IdAt(c) /\ id \notin DOMAIN Sum.reqmap /\ id <= lastId
  <2>1. IdAt(c)
    BY DEF IdInv
  <2> QED
    BY <2>1 DEF IdAt
<1>2. /\ RecordedInv'
      /\ DOMAIN Sum'.reqmap = DOMAIN Sum.reqmap \cup {id}
      /\ \A x, m : x # id /\ Good(x, m) => Good(x, m)'
      /\ \A m : failed = "" /\ file = FileSize[m] => Good(id, m)'
  <2>1. id \notin DOMAIN Sum.reqmap
    BY <1>1
  <2>2. RecordedInv'
    BY <2>1, RequestLogged
  <2>3. DOMAIN Sum'.reqmap = DOMAIN Sum.reqmap \cup {id}
    <3>1. RequestCounted(id, file, failed)
      BY <2>1, RequestLogged
    <3> QED
      BY <3>1 DEF RequestCounted
  <2>4. \A x, m : x # id /\ Good(x, m) => Good(x, m)'
    BY <2>1, RequestLogged
  <2>5. ASSUME NEW m, failed = "", file = FileSize[m] PROVE Good(id, m)'
    BY <2>1, <2>5, RequestLogged, Zenon
  <2> QED
    BY <2>2, <2>3, <2>4, <2>5
<1>3. \A d \in Conn \ {c} : at'[d] = at[d]
  BY DEF RequestTypes
<1>4. \A x \in DOMAIN Sum'.reqmap : x <= lastId'
  BY <1>1, <1>2 DEF IdInv
<1>5. ASSUME NEW m \in Nar PROVE recents'[m].id <= lastId' /\ Good(recents[m].id, m)'
  <2>1. CASE recents[m].id = id
    BY <1>1, <1>2, <2>1 DEF IdInv, IdAt
  <2>2. CASE recents[m].id # id
    BY <1>2, <2>2 DEF IdInv
  <2> QED
    BY <2>1, <2>2
<1>6. ASSUME NEW d \in Conn PROVE IdAt(d)'
  <2>0. IdAt(d)
    BY DEF IdInv
  <2>1. CASE d = c
    <3>1. CASE at'[c] = "nar"
      <4>1. at[c] = "put" /\ Good(id, mine[c].nar)'
        BY <1>2, <3>1
      <4> QED
        BY <2>0, <2>1, <3>1, <4>1 DEF IdAt
    <3>2. CASE at'[c] # "nar"
      BY <2>0, <2>1, <3>2 DEF IdAt
    <3> QED
      BY <3>1, <3>2
  <2>2. CASE d # c
    <3>1. at'[d] = "nar" => Good(mine[d].id, mine[d].nar)'
      <4>1. CASE mine[d].id = id
        BY <1>1, <1>2, <1>3, <2>2, <4>1 DEF IdAt
      <4>2. CASE mine[d].id # id
        BY <1>2, <1>3, <2>0, <2>2, <4>2 DEF IdAt
      <4> QED
        BY <4>1, <4>2
    <3>2. at'[d] \in {"info", "put"} => mine'[d].id \notin DOMAIN Sum'.reqmap
      BY <1>1, <1>2, <1>3, <2>0, <2>2 DEF IdAt
    <3>3. at'[d] = "info" /\ at'[c] = "nar" => mine'[c].id # mine'[d].id
      BY <1>1, <1>3, <2>2 DEF IdAt
    <3>4. at'[d] = "put" /\ at'[c] = "nar" => mine'[c].id # mine'[d].id
      BY <1>1, <1>3, <2>2 DEF IdAt
    <3> QED
      BY <1>3, <2>0, <2>2, <3>1, <3>2, <3>3, <3>4 DEF IdAt
  <2> QED
    BY <2>1, <2>2
<1> QED
  BY <1>2, <1>4, <1>5, <1>6 DEF IdInv

\* The recent is kept for the nar of the path that is asked for.
LEMMA IdKept ==
    ASSUME RequestTypes, RecordedInv, IdInv, NEW c \in Conn, at[c] = "info",
           at' = [at EXCEPT ![c] = "put"], UNCHANGED <<lastId, log>>,
           NEW n \in Nar, NEW recent, recent.id = mine[c].id, recent.nar = n,
           mine' = [mine EXCEPT ![c] = recent], recents' = [recents EXCEPT ![n] = recent]
    PROVE  IdInv'
<1>1. Sum' = Sum /\ \A x, m : Good(x, m) => Good(x, m)'
  BY SameIds
<1>2. PICK id : id = mine[c].id
  OBVIOUS
<1>3. \A x, m : x \notin DOMAIN Sum.reqmap => Good(x, m)'
  BY <1>1 DEF Good
<1>4. \A d \in Conn : IF d = c THEN at'[d] = "put" /\ mine'[d].id = id /\ mine'[d].nar = n
                      ELSE at'[d] = at[d] /\ mine'[d] = mine[d]
  BY <1>2 DEF RequestTypes
<1>5. \A m \in Nar : IF m = n THEN recents'[m].id = id ELSE recents'[m] = recents[m]
  BY <1>2 DEF RequestTypes
<1>6. /\ id <= lastId /\ id \notin DOMAIN Sum.reqmap
      /\ \A d \in Conn \ {c} : at[d] \in {"info", "put", "nar"} => mine[d].id # id
      /\ \A m \in Nar : recents[m].id # id
  BY <1>2 DEF IdInv, IdAt
<1>7. \A x \in DOMAIN Sum'.reqmap : x <= lastId'
  BY <1>1 DEF IdInv
<1>8. ASSUME NEW m \in Nar PROVE recents'[m].id <= lastId' /\ Good(recents[m].id, m)'
  <2>1. CASE m = n
    BY <1>3, <1>5, <1>6, <2>1
  <2>2. CASE m # n
    BY <1>1, <1>5, <2>2 DEF IdInv
  <2> QED
    BY <2>1, <2>2
<1>9. ASSUME NEW d \in Conn PROVE IdAt(d)'
  <2>1. CASE d = c
    BY <1>1, <1>4, <1>5, <1>6, <2>1 DEF IdAt
  <2>2. CASE d # c
    <3>1. IdAt(d)
      BY DEF IdInv
    <3> QED
      BY <1>1, <1>4, <1>5, <1>6, <2>2, <3>1 DEF IdAt
  <2> QED
    BY <2>1, <2>2
<1> QED
  BY <1>7, <1>8, <1>9 DEF IdInv

\* The recent of a nar is taken up.
LEMMA IdTaken ==
    ASSUME RequestTypes, RecordedInv, IdInv, NEW c \in Conn, NEW n \in Nar, recents[n].nar = n,
           at[c] = "free", at' = [at EXCEPT ![c] = "nar"], UNCHANGED <<lastId, log, recents>>,
           mine' = [mine EXCEPT ![c] = recents[n]]
    PROVE  IdInv'
<1>1. Sum' = Sum /\ \A x, m : Good(x, m) => Good(x, m)'
  BY SameIds
<1>2. \A d \in Conn : IF d = c THEN at'[d] = "nar" /\ mine'[d] = recents[n]
                      ELSE at'[d] = at[d] /\ mine'[d] = mine[d]
  BY DEF RequestTypes
<1>3. /\ \A x \in DOMAIN Sum'.reqmap : x <= lastId'
      /\ \A m \in Nar : recents'[m].id <= lastId' /\ Good(recents[m].id, m)'
  BY <1>1 DEF IdInv
<1>4. ASSUME NEW d \in Conn PROVE IdAt(d)'
  <2>1. CASE d = c
    BY <1>2, <1>3, <2>1 DEF IdAt
  <2>2. CASE d # c
    <3>1. IdAt(d)
      BY DEF IdInv
    <3> QED
      BY <1>1, <1>2, <2>2, <3>1 DEF IdAt
  <2> QED
    BY <2>1, <2>2
<1> QED
  BY <1>3, <1>4 DEF IdInv

\* A simulation ends a request with "done", a server with "free".
LEMMA EndPlaces ==
    ASSUME RequestTypes, NEW c \in Conn, NEW ok, End(c, ok)
    PROVE  /\ at' = [at EXCEPT ![c] = at'[c]] /\ at'[c] \notin {"info", "put", "nar"}
           /\ \A d \in Conn \ {c} : at'[d] = at[d]
<1>1. at' = [at EXCEPT ![c] = at'[c]] /\ at'[c] \in {"free", "done"}
  BY EndAt
<1> QED
  BY <1>1 DEF RequestTypes

LEMMA RefuseRecords ==
    ASSUME IInv, NEW c \in Conn, Refuse(c)
    PROVE  \E file \in Nat, failed \in Failed :
              /\ ask[c].nar \in Nar /\ failed = Outcome(ask[c], FindBase(bt, ask[c])) /\ failed # ""
              /\ file = (IF failed = "notfound" THEN 0 ELSE FileSize[ask[c].nar])
              /\ actual' = actual + FallBack(ask[c], failed)
              /\ unseen' = unseen + IF failed = "identical" THEN FallBack(ask[c], failed) ELSE 0
              /\ log' = Append(log, RRecord(mine[c].id, ask[c].nar, file, failed))
<1>1. ask[c].nar \in Nar
  BY Parameters DEF IInv, RequestTypes
<1>2. PICK failed \in Failed : failed = Outcome(ask[c], FindBase(bt, ask[c]))
  BY OutcomeType
<1>3. PICK file \in Nat : file = IF failed = "notfound" THEN 0 ELSE FileSize[ask[c].nar]
  BY <1>1, Parameters
<1> QED
  BY <1>1, <1>2, <1>3 DEF Refuse

LEMMA StepIds == IInv /\ RecordedInv /\ IdInv /\ [Next]_vars => RecordedInv' /\ IdInv'
<1> SUFFICES ASSUME IInv, RecordedInv, IdInv, [Next]_vars PROVE RecordedInv' /\ IdInv'
  OBVIOUS
<1>0. RequestTypes /\ PromiseInv
  BY DEF IInv
<1>1. ASSUME UNCHANGED <<at, mine, recents, lastId, log>> PROVE RecordedInv' /\ IdInv'
  <2>1. RecordedInv' /\ Sum' = Sum /\ \A x, m : Good(x, m) => Good(x, m)'
    BY <1>1, SameIds
  <2> QED
    BY <1>1, <2>1 DEF IdInv, IdAt
<1>2. ASSUME NEW c \in Conn, Line(c) PROVE RecordedInv' /\ IdInv'
  <2>1. CASE SimStart(c)
    <3>1. at' = [at EXCEPT ![c] = at'[c]] /\ at'[c] \notin {"info", "put", "nar"}
      BY <1>0, <2>1 DEF SimStart, RequestTypes
    <3>2. UNCHANGED <<mine, recents, lastId, log>>
      BY <2>1 DEF SimStart
    <3> QED
      BY <1>0, <3>1, <3>2, SameIds, IdOver
  <2>2. CASE SimRequest(c)
    <3>1. /\ at' = [at EXCEPT ![c] = "info"] /\ lastId' = lastId + 1
          /\ mine' = [mine EXCEPT ![c].id = lastId'] /\ UNCHANGED <<recents, log>>
      BY <2>2 DEF SimRequest
    <3> QED
      BY <1>0, <3>1, SameIds, IdBegin
  <2>3. CASE UpstreamFails(c)
    <3>1. UNCHANGED <<mine, recents, lastId, log>> /\ End(c, FALSE)
      BY <2>3 DEF UpstreamFails
    <3> QED
      BY <1>0, <3>1, EndPlaces, SameIds, IdOver
  <2>4. CASE Refuse(c)
    <3>1. PICK file \in Nat, failed \in Failed :
              /\ ask[c].nar \in Nar
              /\ log' = Append(log, RRecord(mine[c].id, ask[c].nar, file, failed))
      BY <2>4, RefuseRecords
    <3>2. PICK id \in Nat : id = mine[c].id
      BY <1>0 DEF RequestTypes
    <3>3. PICK n \in Nar : n = ask[c].nar
      BY <3>1
    <3>4. /\ at[c] = "info" /\ UNCHANGED <<mine, recents, lastId>>
          /\ at' = [at EXCEPT ![c] = at'[c]] /\ at'[c] \notin {"info", "put", "nar"}
      BY <1>0, <2>4, EndPlaces DEF Refuse
    <3>5. log' = Append(log, RRecord(id, n, file, failed))
      BY <3>1, <3>2, <3>3
    <3> QED
      BY <1>0, <3>2, <3>3, <3>4, <3>5, IdRecorded
  <2>5. CASE PutRecent(c)
    <3>1. PICK n \in Nar : n = ask[c].nar
      BY <1>0, Parameters DEF RequestTypes
    <3>2. PICK recent : recent = [id |-> mine[c].id, nar |-> n, base |-> FindBase(bt, ask[c])]
      OBVIOUS
    <3>4. recent.id = mine[c].id /\ recent.nar = n
      BY <3>2
    <3>3. /\ at[c] = "info" /\ at' = [at EXCEPT ![c] = "put"] /\ UNCHANGED <<lastId, log>>
          /\ mine' = [mine EXCEPT ![c] = recent] /\ recents' = [recents EXCEPT ![n] = recent]
      BY <2>5, <3>1, <3>2 DEF PutRecent
    <3> QED
      BY <1>0, <3>3, <3>4, SameIds, IdKept
  <2>6. CASE Reply(c)
    <3>1. PICK n \in Nar : n = mine[c].nar
      BY <1>0 DEF RequestTypes
    <3>2. PICK id \in Nat : id = mine[c].id
      BY <1>0 DEF RequestTypes
    <3>3. PICK file \in Nat : file = FileSize[n]
      BY Parameters
    <3>4. PICK failed \in Failed : failed = ""
      BY DEF Failed
    <3>5. log' = Append(log, RRecord(id, n, file, failed))
      BY <2>6, <3>1, <3>2, <3>3, <3>4 DEF Reply, OkRecord
    <3>6. /\ at[c] = "put" /\ UNCHANGED <<mine, recents, lastId>>
          /\ at' = [at EXCEPT ![c] = at'[c]] /\ at'[c] \notin {"info", "put"}
      <4>1. at[c] = "put" /\ UNCHANGED <<mine, recents, lastId>>
        BY <2>6 DEF Reply
      <4>2. End(c, TRUE) \/ at' = [at EXCEPT ![c] = "nar"]
        BY <2>6 DEF Reply
      <4> QED
        BY <1>0, <4>1, <4>2, EndPlaces DEF RequestTypes
    <3> QED
      BY <1>0, <3>1, <3>2, <3>3, <3>4, <3>5, <3>6, IdRecorded
  <2>7. CASE SendNar(c)
    <3>1. PICK n \in Nar : n = mine[c].nar
      BY <1>0 DEF RequestTypes
    <3>2. PICK id \in Nat : id = mine[c].id
      BY <1>0 DEF RequestTypes
    <3>3. PICK diff \in Nat : diff = DiffSize[n]
      BY Parameters
    <3>4. log' = Append(log, DRecord(id, n, diff)) /\ UNCHANGED <<mine, recents, lastId>> /\ End(c, TRUE)
      BY <2>7, <3>1, <3>2, <3>3 DEF SendNar
    <3> QED
      <4>1. RecordedInv' /\ DeltaCounted(id, diff) /\ \A x, m : Good(x, m) => Good(x, m)'
        BY <3>4, DeltaLogged
      <4>2. DOMAIN Sum'.reqmap = DOMAIN Sum.reqmap
        BY <4>1 DEF DeltaCounted
      <4> QED
        BY <1>0, <3>4, <4>1, <4>2, EndPlaces, IdOver
  <2>8. CASE NarFails(c)
    <3>1. UNCHANGED <<mine, recents, lastId, log>> /\ End(c, FALSE)
      BY <2>8 DEF NarFails
    <3> QED
      BY <1>0, <3>1, EndPlaces, SameIds, IdOver
  <2> QED
    BY <1>2, <2>1, <2>2, <2>3, <2>4, <2>5, <2>6, <2>7, <2>8 DEF Line
<1>3. ASSUME NEW c \in Conn, NEW p \in Wishes, AskInfo(c, p) PROVE RecordedInv' /\ IdInv'
  <2>1. /\ at' = [at EXCEPT ![c] = "info"] /\ lastId' = lastId + 1
        /\ mine' = [mine EXCEPT ![c].id = lastId'] /\ UNCHANGED <<recents, log>>
    BY <1>3 DEF AskInfo
  <2> QED
    BY <1>0, <2>1, SameIds, IdBegin
<1>4. ASSUME NEW c \in Conn, NEW n \in Nar, AskNar(c, n) PROVE RecordedInv' /\ IdInv'
  <2>1. recents[n].nar = n
    BY <1>0, <1>4 DEF PromiseInv, AskNar
  <2>2. /\ at[c] = "free" /\ at' = [at EXCEPT ![c] = "nar"] /\ UNCHANGED <<lastId, log, recents>>
        /\ mine' = [mine EXCEPT ![c] = recents[n]]
    BY <1>4 DEF AskNar
  <2> QED
    BY <1>0, <2>1, <2>2, SameIds, IdTaken
<1>5. CASE Surroundings \/ SimOver \/ UNCHANGED vars
  BY <1>1, <1>5 DEF Surroundings, SimOver, vars, requestVars
<1> QED
  BY <1>2, <1>3, <1>4, <1>5 DEF Next, Client

LEMMA InitIds == Init => RecordedInv /\ IdInv
<1> SUFFICES ASSUME Init PROVE RecordedInv /\ IdInv
  OBVIOUS
<1>1. RequestTypes
  BY InitIInv DEF IInv
<1>2. log = <<>> /\ log \in Seq(Record) /\ Len(log) = 0 /\ 1..Len(log) = {}
  BY <1>1 DEF Init, RequestTypes
<1>3. Sum = NoRecords /\ Sum \in Tallies
  BY <1>2, AnalyzeEmpty, NoRecordsType DEF Sum
<1>4. DOMAIN Sum.reqmap = {} /\ 1..Len(Sum.diffed) = {}
  BY <1>3 DEF NoRecords
<1>5. RecordedInv
  BY <1>2, <1>3, <1>4 DEF RecordedInv, LogInv
<1>6. /\ \A c \in Conn : at[c] \notin {"info", "put", "nar"} /\ mine[c].id = 0
      /\ \A n \in Nar : recents[n].id = 0
      /\ lastId = 0
  BY DEF Init, NoRecent
<1>7. IdInv
  BY <1>4, <1>6 DEF IdInv, IdAt, Good
<1> QED
  BY <1>5, <1>7

\* analytics.go:100-137: no two requests are recorded under the same id, so that none
\* replaces another in the loop over the log; and a nar is delivered under the id of a
\* request that was let through, for a file of its size, if that is recorded at all.
THEOREM SpecIds == Spec => [](IInv /\ RecordedInv /\ IdInv)
  BY InitIInv, StepIInv, InitIds, StepIds, PTL DEF Spec
-----------------------------------------------------------------------------
\* catalog.go:195-200,224: the base is similar to the path, nothing similar fits
\* better, and there is one if there is a similar path: for every catalog, of any
\* names, and whatever is asked for.
THEOREM SpecBaseFits == Spec => []BaseFits
<1>1. ASSUME IInv PROVE BaseFits
  <2>1. bt \in SUBSET Path /\ \A c \in Conn : ask[c] \in Path
    BY <1>1 DEF IInv, CatalogInv, RequestTypes
  <2>2. \A p \in {ask[c] : c \in {c \in Conn : at[c] = "info"}} : p \in Path
    BY <2>1
  <2> QED
    BY <2>1, <2>2, FindBaseFits DEF BaseFits
<1> QED
  BY <1>1, SpecIInv, PTL
-----------------------------------------------------------------------------
(* What is counted *)

LEMMA InitCounts == Init => CountInv
<1> SUFFICES ASSUME Init PROVE CountInv
  OBVIOUS
<1>1. Cardinality({}) = 0 /\ {MaxTrouble, MaxRequests} \subseteq Nat
  BY FS_EmptySet, CatalogAssumption, RequestsAssumption
<1>2. ask \in [Conn -> Wishes] /\ trouble = 0
  BY RequestsAssumption DEF Init, SetInit, CatalogInit
<1>3. mode = "serve" => In({"start", "sem"}) = {}
  BY DEF Init, In
<1>4. mode = "sim" => Conn \ In({"start", "sem"}) = {}
  BY DEF Init, In
<1>5. lastId = 0 /\ success = 0 /\ errors = 0 /\ actual = 0 /\ unseen = 0
  BY DEF Init
<1>6. trouble \in 0..MaxTrouble /\ lastId <= MaxRequests
  BY <1>1, <1>2, <1>5
<1>7. success \in Nat /\ errors \in Nat /\ actual \in Nat /\ unseen \in Nat
  BY <1>5
<1>8. lastId = Cardinality({})
  BY <1>1, <1>5
<1> QED
  BY <1>2, <1>3, <1>4, <1>6, <1>7, <1>8, Zenon DEF CountInv

\* A request that had begun goes on, or one begins.
LEMMA CountPlaces ==
    ASSUME RequestTypes, CountInv, NEW c \in Conn, NEW place, at' = [at EXCEPT ![c] = place],
           UNCHANGED mode,
           \/ /\ lastId' = lastId
              /\ \/ at[c] \notin {"start", "sem"} /\ place \notin {"start", "sem"}
                 \/ mode = "sim" /\ at[c] = "start" /\ place = "sem"
           \/ /\ lastId' = lastId + 1
              /\ \/ mode = "serve" /\ place = "info" /\ lastId < MaxRequests
                 \/ mode = "sim" /\ at[c] = "sem" /\ place = "info"
    PROVE  /\ mode' = "serve" => lastId' <= MaxRequests /\ In({"start", "sem"})' = {}
           /\ mode' = "sim" => lastId' = Cardinality(Conn \ In({"start", "sem"}))'
<1>1. \A d \in Conn : at'[d] = IF d = c THEN place ELSE at[d]
  BY DEF RequestTypes
<1>2. CASE mode = "serve"
  <2>1. In({"start", "sem"})' = {}
    BY <1>1, <1>2 DEF CountInv, In
  <2>2. lastId \in Nat /\ MaxRequests \in Nat /\ lastId <= MaxRequests
    BY <1>2, RequestsAssumption DEF RequestTypes, CountInv
  <2>3. lastId' <= MaxRequests
    BY <1>2, <2>2
  <2> QED
    BY <1>2, <2>1, <2>3
<1>3. CASE mode = "sim"
  <2>1. IsFiniteSet(Conn \ In({"start", "sem"}))
    BY FS_Difference, RequestsAssumption
  <2>2. lastId = Cardinality(Conn \ In({"start", "sem"}))
    BY <1>3 DEF CountInv
  <2>3. CASE lastId' = lastId
    <3>1. In({"start", "sem"})' = In({"start", "sem"})
      <4>1. at[c] \in {"start", "sem"} <=> place \in {"start", "sem"}
        BY <1>3, <2>3 DEF RequestTypes
      <4> QED
        BY <1>1, <4>1 DEF In
    <3> QED
      BY <1>3, <2>2, <2>3, <3>1
  <2>4. CASE lastId' # lastId
    <3>1. at[c] = "sem" /\ place = "info" /\ lastId' = lastId + 1
      BY <1>3, <2>4
    <3>2. c \notin Conn \ In({"start", "sem"})
      BY <3>1 DEF In
    <3>3. (Conn \ In({"start", "sem"}))' = (Conn \ In({"start", "sem"})) \cup {c}
      BY <1>1, <3>1 DEF In
    <3>4. Cardinality((Conn \ In({"start", "sem"})) \cup {c}) = lastId + 1
      BY <2>1, <2>2, <3>2, FS_AddElement
    <3> QED
      BY <1>3, <3>1, <3>3, <3>4
  <2> QED
    BY <2>3, <2>4
<1> QED
  BY <1>2, <1>3 DEF RequestTypes

\* Counters only grow.
LEMMA CountEnd ==
    ASSUME CountInv, NEW c \in Conn, NEW ok, End(c, ok)
    PROVE  success' \in Nat /\ errors' \in Nat
  BY DEF CountInv, End, counters

LEMMA StepCounts == IInv /\ CountInv /\ [Next]_vars => CountInv'
<1> SUFFICES ASSUME IInv, CountInv, [Next]_vars PROVE CountInv'
  OBVIOUS
<1>0. RequestTypes
  BY DEF IInv
<1>1. ASSUME UNCHANGED requestVars, mode' = mode, trouble' \in 0..MaxTrouble PROVE CountInv'
  BY <1>1 DEF CountInv, In, requestVars
<1>2. CASE Surroundings
  <2>1. trouble' \in 0..MaxTrouble
    <3>1. trouble' = trouble \/ (trouble < MaxTrouble /\ trouble' = trouble + 1)
      <4>1. CASE Update
        BY <4>1 DEF Update, Open, Readdirnames, AskPathInfo, Publish
      <4>2. CASE ReadFails
        BY <4>2 DEF ReadFails
      <4>3. ASSUME NEW p \in Moving, NEW x \in Presence, Change(p, x)
            PROVE  trouble < MaxTrouble /\ trouble' = trouble + 1
        BY <4>3 DEF Change
      <4> QED
        BY <1>2, <4>1, <4>2, <4>3 DEF Surroundings
    <3> QED
      BY <3>1, CatalogAssumption DEF CountInv
  <2> QED
    BY <1>1, <1>2, <2>1 DEF Surroundings
<1>3. CASE SimOver \/ UNCHANGED vars
  BY <1>1, <1>3 DEF SimOver, vars, requestVars, catalogVars, CountInv
<1>4. ASSUME NEW c \in Conn, Line(c) \/ Client(c) PROVE CountInv'
  <2>1. /\ mode' = "serve" => lastId' <= MaxRequests /\ In({"start", "sem"})' = {}
        /\ mode' = "sim" => lastId' = Cardinality(Conn \ In({"start", "sem"}))'
    <3>1. /\ mode = "serve" => at[c] \notin {"start", "sem"}
          /\ mode' = mode /\ mode \in {"serve", "sim"}
      BY <1>0, <1>4 DEF CountInv, In, RequestTypes, Line, SimStart, SimRequest, UpstreamFails, Refuse,
         PutRecent, Reply, SendNar, NarFails, Client, AskInfo, AskNar
    <3>2. CASE \/ UpstreamFails(c) \/ Refuse(c) \/ SendNar(c) \/ NarFails(c)
               \/ mode = "serve" /\ Reply(c)
      <4>1. \E ok : End(c, ok)
        BY <3>2 DEF UpstreamFails, Refuse, SendNar, NarFails, Reply
      <4>2. at' = [at EXCEPT ![c] = at'[c]] /\ at'[c] \in {"free", "done"}
        BY <1>0, <4>1, EndAt
      <4>3. lastId' = lastId /\ at[c] \notin {"start", "sem"}
        BY <3>2 DEF UpstreamFails, Refuse, SendNar, NarFails, Reply
      <4> QED
        BY <1>0, <3>1, <4>2, <4>3, CountPlaces
    <3>3. CASE PutRecent(c) \/ (mode = "sim" /\ Reply(c)) \/ \E n \in Nar : AskNar(c, n)
      <4>1. at[c] \notin {"start", "sem"} /\ lastId' = lastId
        BY <3>3 DEF PutRecent, Reply, AskNar
      <4>2. at' = [at EXCEPT ![c] = "put"] \/ at' = [at EXCEPT ![c] = "nar"]
        BY <3>3 DEF PutRecent, Reply, AskNar
      <4>3. PICK place \in {"put", "nar"} : at' = [at EXCEPT ![c] = place]
        BY <4>2
      <4> QED
        BY <1>0, <3>1, <4>1, <4>3, CountPlaces
    <3>4. CASE SimStart(c)
      <4>1. mode = "sim" /\ at[c] = "start" /\ at' = [at EXCEPT ![c] = "sem"] /\ lastId' = lastId
        BY <3>1, <3>4 DEF SimStart
      <4> QED
        BY <1>0, <3>1, <4>1, CountPlaces
    <3>5. CASE SimRequest(c)
      <4>1. mode = "sim" /\ at[c] = "sem" /\ at' = [at EXCEPT ![c] = "info"] /\ lastId' = lastId + 1
        BY <3>1, <3>5 DEF SimRequest
      <4> QED
        BY <1>0, <3>1, <4>1, CountPlaces
    <3>6. CASE \E p \in Wishes : AskInfo(c, p)
      <4>1. /\ mode = "serve" /\ at' = [at EXCEPT ![c] = "info"] /\ lastId' = lastId + 1
            /\ lastId < MaxRequests
        BY <3>6 DEF AskInfo
      <4> QED
        BY <1>0, <3>1, <4>1, CountPlaces
    <3> QED
      BY <1>4, <3>1, <3>2, <3>3, <3>4, <3>5, <3>6 DEF Line, Client
  <2>2. trouble' \in 0..MaxTrouble
    <3>1. trouble' = trouble \/ (trouble < MaxTrouble /\ trouble' = trouble + 1)
      <4>1. CASE SendNar(c)
        BY <4>1 DEF SendNar
      <4>2. CASE NarFails(c)
        BY <4>2 DEF NarFails
      <4> QED
        BY <1>4, <4>1, <4>2 DEF Line, SimStart, SimRequest, UpstreamFails, Refuse, PutRecent, Reply,
           Client, AskInfo, AskNar, catalogVars
    <3> QED
      BY <3>1, CatalogAssumption DEF CountInv
  <2>3. ask' \in [Conn -> Wishes]
    BY <1>4 DEF CountInv, Line, SimStart, SimRequest, UpstreamFails, Refuse, PutRecent, Reply, SendNar,
       NarFails, Client, AskInfo, AskNar
  <2>4. success' \in Nat /\ errors' \in Nat
    <3>1. (\E ok : End(c, ok)) \/ UNCHANGED counters
      BY <1>4 DEF Line, SimStart, SimRequest, UpstreamFails, Refuse, PutRecent, Reply, SendNar, NarFails,
         Client, AskInfo, AskNar, counters
    <3> QED
      BY <3>1, CountEnd DEF counters, CountInv
  <2>5. actual' \in Nat /\ unseen' \in Nat
    <3>1. ask[c].nar \in Nar /\ mine[c].nar \in Nar
      BY <1>0, Parameters DEF RequestTypes
    <3>2. FileSize[ask[c].nar] \in Nat /\ FileSize[mine[c].nar] \in Nat /\ DiffSize[mine[c].nar] \in Nat
      BY <3>1, Parameters
    <3>3. \E k, u \in Nat : actual' = actual + k /\ unseen' = unseen + u
      <4>1. actual = actual + 0 /\ unseen = unseen + 0 /\ 0 \in Nat
        BY DEF CountInv
      <4>2. CASE Refuse(c)
        <5>1. PICK o : /\ actual' = actual + FallBack(ask[c], o)
                       /\ unseen' = unseen + IF o = "identical" THEN FallBack(ask[c], o) ELSE 0
          BY <4>2 DEF Refuse
        <5>2. FallBack(ask[c], o) \in Nat
          BY <3>2 DEF FallBack
        <5> QED
          BY <4>1, <5>1, <5>2
      <4>3. CASE SendNar(c)
        BY <3>2, <4>1, <4>3 DEF SendNar
      <4>4. CASE NarFails(c)
        <5>1. PICK part \in 0..DiffSize[mine[c].nar] :
                  /\ unseen' = unseen + part
                  /\ actual' = actual + part + FileSize[mine[c].nar] \/ actual' = actual + part
          BY <4>4 DEF NarFails
        <5>2. PICK file \in Nat : file = FileSize[mine[c].nar]
          BY <3>2
        <5>3. part \in Nat /\ actual \in Nat /\ part + file \in Nat
          BY <3>2, <5>1, <5>2 DEF CountInv
        <5>4. unseen' = unseen + part /\ (actual' = actual + (part + file) \/ actual' = actual + part)
          BY <5>1, <5>2, <5>3
        <5> QED
          BY <5>3, <5>4
      <4>5. CASE UpstreamFails(c)
        BY <3>2, <4>1, <4>5 DEF UpstreamFails
      <4>6. CASE UNCHANGED downloads
        BY <4>1, <4>6 DEF downloads
      <4> QED
        BY <1>4, <4>2, <4>3, <4>4, <4>5, <4>6 DEF Line, SimStart, SimRequest, PutRecent, Reply,
           Client, AskInfo, AskNar
    <3> QED
      BY <3>3 DEF CountInv
  <2> QED
    BY <2>1, <2>2, <2>3, <2>4, <2>5 DEF CountInv
<1> QED
  BY <1>2, <1>3, <1>4 DEF Next
-----------------------------------------------------------------------------
(* What was downloaded *)

LEMMA PartAdded ==
    ASSUME NEW S, IsFiniteSet(S), NEW x, NEW k \in Nat, \A b : <<x, b>> \notin S
    PROVE  /\ IsFiniteSet(S \cup ({x} \X (1..k)))
           /\ Cardinality(S \cup ({x} \X (1..k))) = Cardinality(S) + k
<1>1. IsFiniteSet({x}) /\ Cardinality({x}) = 1 /\ IsFiniteSet(1..k) /\ Cardinality(1..k) = k
  <2>1. 1 \in Int /\ k \in Int /\ k >= 0
    OBVIOUS
  <2>2. IsFiniteSet(1..k) /\ Cardinality(1..k) = IF 1 > k THEN 0 ELSE k - 1 + 1
    BY <2>1, FS_Interval
  <2>3. Cardinality(1..k) = k
    BY <2>1, <2>2
  <2> QED
    BY <2>2, <2>3, FS_Singleton
<1>2. PICK T : T = {x} \X (1..k)
  OBVIOUS
<1>3. IsFiniteSet(T) /\ Cardinality(T) = k
  <2>1. PICK A : A = {x}
    OBVIOUS
  <2>2. PICK B : B = 1..k
    OBVIOUS
  <2>3. IsFiniteSet(A) /\ IsFiniteSet(B) /\ Cardinality(A) = 1 /\ Cardinality(B) = k
    BY <1>1, <2>1, <2>2
  <2>4. IsFiniteSet(A \X B) /\ Cardinality(A \X B) = Cardinality(A) * Cardinality(B)
    BY <2>3, FS_Product
  <2> QED
    BY <1>2, <2>1, <2>2, <2>3, <2>4
<1>4. S \cap T = {}
  BY <1>2
<1>5. Cardinality(S \cap T) = 0
  BY <1>4, FS_EmptySet
<1>6. IsFiniteSet(S \cup T) /\ Cardinality(S \cup T) = Cardinality(S) + k - 0
  BY <1>3, <1>5, FS_Union
<1>7. Cardinality(S) \in Nat
  BY FS_CardinalityType
<1> QED
  BY <1>2, <1>6, <1>7

LEMMA FileAdded ==
    ASSUME NEW S, IsFiniteSet(S), NEW x, NEW n \in Nar, \A b : <<x, b>> \notin S
    PROVE  /\ IsFiniteSet(S \cup FileOf(x, n))
           /\ Cardinality(S \cup FileOf(x, n)) = Cardinality(S) + FileSize[n]
<1>1. PICK k \in Nat : k = FileSize[n]
  BY Parameters
<1> QED
  BY <1>1, PartAdded DEF FileOf

LEMMA InOwed ==
    \A o, y : y \in Owed(o) <=> \E m \in Nar : \E k \in 1..o[m] : y \in FileOf(<<m, k>>, m)
<1>1. \A o, m, y : y \in OwedOf(o, m) <=> \E k \in 1..o[m] : y \in FileOf(<<m, k>>, m)
  BY DEF OwedOf
<1>2. \A o, y : y \in Owed(o) <=> \E m \in Nar : y \in OwedOf(o, m)
  BY DEF Owed
<1> QED
  BY <1>1, <1>2, Zenon

\* One nar more to be fetched.
LEMMA OwedMore ==
    ASSUME NEW o \in [Nar -> Nat], NEW n \in Nar, NEW q, q = [o EXCEPT ![n] = @ + 1]
    PROVE  /\ IsFiniteSet(Owed(o)) <=> IsFiniteSet(Owed(q))
           /\ IsFiniteSet(Owed(o)) => Cardinality(Owed(q)) = Cardinality(Owed(o)) + FileSize[n]
<1>1. PICK x : x = <<n, o[n] + 1>>
  OBVIOUS
<1>2. /\ \A m \in Nar \ {n} : q[m] = o[m]
      /\ q[n] = o[n] + 1 /\ o[n] \in Nat
  OBVIOUS
<1>3. 1..q[n] = 1..o[n] \cup {o[n] + 1} /\ o[n] + 1 \notin 1..o[n]
  BY <1>2
<1>4. Owed(q) = Owed(o) \cup FileOf(x, n)
  <2>1. \A y : y \in Owed(q) <=> \E m \in Nar : \E k \in 1..q[m] : y \in FileOf(<<m, k>>, m)
    BY InOwed
  <2>2. \A y : y \in Owed(o) <=> \E m \in Nar : \E k \in 1..o[m] : y \in FileOf(<<m, k>>, m)
    BY InOwed
  <2>3. \A m \in Nar : \A k : k \in 1..q[m] <=> k \in 1..o[m] \/ (m = n /\ k = o[n] + 1)
    BY <1>2, <1>3
  <2>4. \A y : y \in Owed(q) <=> y \in Owed(o) \/ y \in FileOf(<<n, o[n] + 1>>, n)
    BY <2>1, <2>2, <2>3, Zenon
  <2> QED
    BY <1>1, <2>4
<1>5. \A b : <<x, b>> \notin Owed(o)
  <2> SUFFICES ASSUME NEW b, <<x, b>> \in Owed(o) PROVE FALSE
    OBVIOUS
  <2>1. PICK m \in Nar : \E k \in 1..o[m] : <<x, b>> \in FileOf(<<m, k>>, m)
    BY InOwed
  <2>2. PICK k \in 1..o[m] : <<x, b>> \in FileOf(<<m, k>>, m)
    BY <2>1
  <2>3. x = <<m, k>>
    BY <2>2 DEF FileOf
  <2>4. m = n /\ k = o[n] + 1
    BY <1>1, <2>3
  <2> QED
    BY <1>3, <2>4
<1>6. ASSUME IsFiniteSet(Owed(o))
      PROVE  IsFiniteSet(Owed(q)) /\ Cardinality(Owed(q)) = Cardinality(Owed(o)) + FileSize[n]
  <2>1. PICK S : S = Owed(o)
    OBVIOUS
  <2>2. IsFiniteSet(S) /\ \A b : <<x, b>> \notin S
    BY <1>5, <1>6, <2>1
  <2>3. /\ IsFiniteSet(S \cup FileOf(x, n))
        /\ Cardinality(S \cup FileOf(x, n)) = Cardinality(S) + FileSize[n]
    BY <2>2, FileAdded
  <2> QED
    BY <1>4, <2>1, <2>3
<1>7. Owed(o) \subseteq Owed(q)
  BY <1>4
<1> QED
  BY <1>6, <1>7, FS_Subset

LEMMA DeliveringFinite ==
    ASSUME NEW a, NEW m, \A c \in Conn : m[c].nar \in Nar
    PROVE  IsFiniteSet(Delivering(a, m))
<1> DEFINE C == {c \in Conn : a[c] = "nar"}
           T == {FileOf(c, m[c].nar) : c \in C}
           f == [c \in C |-> FileOf(c, m[c].nar)]
<1>1. IsFiniteSet(C)
  BY FS_Subset, RequestsAssumption
<1>2. f \in Surjection(C, T)
  BY DEF Surjection
<1>3. IsFiniteSet(T)
  BY <1>1, <1>2, FS_Surjection
<1>4. ASSUME NEW c \in C PROVE IsFiniteSet(FileOf(c, m[c].nar))
  <2>1. PICK n \in Nar : n = m[c].nar
    OBVIOUS
  <2>2. \A b : <<c, b>> \notin {}
    OBVIOUS
  <2>3. IsFiniteSet({} \cup FileOf(c, n))
    BY <2>2, FileAdded, FS_EmptySet
  <2>4. {} \cup FileOf(c, n) = FileOf(c, n)
    OBVIOUS
  <2> QED
    BY <2>1, <2>3, <2>4
<1>5. \A t \in T : IsFiniteSet(t)
  BY <1>4
<1> HIDE DEF T
<1>6. IsFiniteSet(UNION T)
  BY <1>3, <1>5, FS_UNION
<1> QED
  BY <1>6 DEF Delivering, T

\* One connection more that delivers.
LEMMA DeliveringMore ==
    ASSUME NEW a, NEW m, \A d \in Conn : m[d].nar \in Nar,
           NEW c \in Conn, a[c] # "nar", NEW b, NEW k, b[c] = "nar", k[c].nar \in Nar,
           \A d \in Conn \ {c} : b[d] = a[d] /\ (a[d] = "nar" => k[d].nar = m[d].nar)
    PROVE  /\ Cardinality(Delivering(a, m)) \in Nat
           /\ Cardinality(Delivering(b, k)) = Cardinality(Delivering(a, m)) + FileSize[k[c].nar]
<1>1. IsFiniteSet(Delivering(a, m)) /\ Cardinality(Delivering(a, m)) \in Nat
  BY DeliveringFinite, FS_CardinalityType
<1>2. \A e, n, y : y \in Delivering(e, n) <=> \E d \in Conn : e[d] = "nar" /\ y \in FileOf(d, n[d].nar)
  BY DEF Delivering
<1>3. PICK n \in Nar : n = k[c].nar
  OBVIOUS
<1>4. Delivering(b, k) = Delivering(a, m) \cup FileOf(c, n)
  <2>1. \A y : y \in Delivering(b, k) <=> y \in Delivering(a, m) \/ y \in FileOf(c, n)
    BY <1>2, <1>3
  <2> QED
    BY <2>1
<1>5. \A x : <<c, x>> \notin Delivering(a, m)
  <2>1. \A d \in Conn \ {c} : \A x : <<c, x>> \notin FileOf(d, m[d].nar)
    BY DEF FileOf
  <2> QED
    BY <1>2, <2>1
<1>6. PICK S : S = Delivering(a, m)
  OBVIOUS
<1>7. Cardinality(S \cup FileOf(c, n)) = Cardinality(S) + FileSize[n]
  BY <1>1, <1>5, <1>6, FileAdded
<1> QED
  BY <1>1, <1>3, <1>4, <1>6, <1>7

\* The same connections deliver the same.
LEMMA DeliveringSame ==
    ASSUME NEW a, NEW m, NEW b, NEW k,
           \A d \in Conn : (b[d] = "nar" <=> a[d] = "nar") /\ (a[d] = "nar" => k[d].nar = m[d].nar)
    PROVE  Delivering(b, k) = Delivering(a, m)
<1>1. \A e, n, y : y \in Delivering(e, n) <=> \E d \in Conn : e[d] = "nar" /\ y \in FileOf(d, n[d].nar)
  BY DEF Delivering
<1>2. \A y : y \in Delivering(b, k) <=> y \in Delivering(a, m)
  BY <1>1
<1> QED
  BY <1>2

\* A delta is early if its id is not found yet; what was early stays so.
LEMMA EarlyGrows ==
    ASSUME RecordedInv, NEW r \in Record, log' = Append(log, r)
    PROVE  /\ Early' = Early \cup {i \in {Len(log) + 1} : r.kind = "D" /\ r.id \notin DOMAIN Sum.reqmap}
           /\ \A i \in Early : i \in 1..Len(log) /\ log'[i] = log[i]
           /\ log'[Len(log) + 1] = r /\ Len(log) \in Nat /\ Len(log) + 1 \notin Early
<1>1. /\ Len(log) \in Nat /\ Len(log') = Len(log) + 1 /\ log'[Len(log) + 1] = r
      /\ \A i \in 1..Len(log) : log'[i] = log[i]
      /\ 1..Len(log') = 1..Len(log) \cup {Len(log) + 1}
  BY LogAppend DEF RecordedInv
<1>2. \A id : id \in DOMAIN Sum.reqmap <=> \E j \in 1..Len(log) : log[j].kind = "R" /\ log[j].id = id
  BY DEF RecordedInv, LogInv, RequestOf
<1>3. ASSUME NEW i \in 1..Len(log) PROVE i \in Early' <=> i \in Early
  <2>1. \A j \in 1..i - 1 : j \in 1..Len(log)
    BY <1>1
  <2> QED
    BY <1>1, <1>3, <2>1 DEF Early
<1>4. Len(log) + 1 \in Early' <=> r.kind = "D" /\ r.id \notin DOMAIN Sum.reqmap
  <2>1. 1..(Len(log) + 1) - 1 = 1..Len(log)
    BY <1>1
  <2> QED
    BY <1>1, <1>2, <2>1 DEF Early
<1>5. Early \subseteq 1..Len(log) /\ Early' \subseteq 1..Len(log) \cup {Len(log) + 1}
  BY <1>1 DEF Early
<1>6. Len(log) + 1 \notin 1..Len(log)
  BY <1>1
<1> QED
  BY <1>1, <1>3, <1>4, <1>5, <1>6

\* A request, or a delta of a request that is recorded, is not early.
LEMMA InOrder ==
    ASSUME RecordedInv, NEW r \in Record, log' = Append(log, r),
           r.kind = "R" \/ r.id \in DOMAIN Sum.reqmap
    PROVE  EarlyFiles' = EarlyFiles /\ EarlyDeltas' = EarlyDeltas
<1>1. Early' = Early /\ \A i \in Early : log'[i] = log[i]
  <2>1. {i \in {Len(log) + 1} : r.kind = "D" /\ r.id \notin DOMAIN Sum.reqmap} = {}
    OBVIOUS
  <2> QED
    BY <2>1, EarlyGrows
<1>2. \A y : y \in EarlyFiles' <=> y \in EarlyFiles
  BY <1>1 DEF EarlyFiles
<1>3. \A y : y \in EarlyDeltas' <=> y \in EarlyDeltas
  BY <1>1 DEF EarlyDeltas
<1> QED
  BY <1>2, <1>3

LEMMA OutOfOrder ==
    ASSUME RecordedInv, IsFiniteSet(EarlyFiles), IsFiniteSet(EarlyDeltas),
           NEW id \in Nat, NEW n \in Nar, NEW diff \in Nat, NEW file \in Nat, file = FileSize[n],
           log' = Append(log, DRecord(id, n, diff)), id \notin DOMAIN Sum.reqmap
    PROVE  /\ IsFiniteSet(EarlyFiles') /\ Cardinality(EarlyFiles') = Cardinality(EarlyFiles) + file
           /\ IsFiniteSet(EarlyDeltas') /\ Cardinality(EarlyDeltas') = Cardinality(EarlyDeltas) + diff
<1> DEFINE r == DRecord(id, n, diff)
<1>1. r \in Record /\ r.kind = "D" /\ r.id = id /\ r.nar = n /\ r.diff = diff
  BY DEF DRecord, Record
<1> HIDE DEF r
<1>2. PICK x : x = Len(log) + 1
  OBVIOUS
<1>3. /\ Early' = Early \cup {x} /\ x \notin Early
      /\ log'[x] = r /\ \A i \in Early : log'[i] = log[i]
  <2>1. {i \in {x} : r.kind = "D" /\ r.id \notin DOMAIN Sum.reqmap} = {x}
    BY <1>1
  <2>2. log' = Append(log, r)
    BY DEF r
  <2> QED
    BY <1>1, <1>2, <2>1, <2>2, EarlyGrows
<1>4. PICK S : S = EarlyFiles
  OBVIOUS
<1>5. EarlyFiles' = S \cup ({x} \X (1..file)) /\ \A b : <<x, b>> \notin S
  <2>1. \A y : y \in EarlyFiles' <=> y \in S \/ y \in {x} \X (1..file)
    <3>1. FileSize[log'[x].nar] = file /\ \A i \in Early : log'[i] = log[i]
      BY <1>1, <1>3
    <3>2. EarlyFiles' = UNION {{i} \X (1..FileSize[log'[i].nar]) : i \in Early'}
      BY DEF EarlyFiles
    <3>3. S = UNION {{i} \X (1..FileSize[log[i].nar]) : i \in Early}
      BY <1>4 DEF EarlyFiles
    <3>4. Early' = Early \cup {x}
      BY <1>3
    <3> QED
      BY <3>1, <3>2, <3>3, <3>4, Zenon
  <2>2. \A b : <<x, b>> \notin S
    BY <1>3, <1>4 DEF EarlyFiles
  <2> QED
    BY <2>1, <2>2
<1>6. PICK T : T = EarlyDeltas
  OBVIOUS
<1>7. EarlyDeltas' = T \cup ({x} \X (1..diff)) /\ \A b : <<x, b>> \notin T
  <2>1. \A y : y \in EarlyDeltas' <=> y \in T \/ y \in {x} \X (1..diff)
    BY <1>1, <1>3, <1>6 DEF EarlyDeltas
  <2>2. \A b : <<x, b>> \notin T
    BY <1>3, <1>6 DEF EarlyDeltas
  <2> QED
    BY <2>1, <2>2
<1>8. IsFiniteSet(S \cup ({x} \X (1..file))) /\ Cardinality(S \cup ({x} \X (1..file))) = Cardinality(S) + file
  BY <1>4, <1>5, PartAdded
<1>9. IsFiniteSet(T \cup ({x} \X (1..diff))) /\ Cardinality(T \cup ({x} \X (1..diff))) = Cardinality(T) + diff
  BY <1>6, <1>7, PartAdded
<1> QED
  BY <1>4, <1>5, <1>6, <1>7, <1>8, <1>9

LEMMA LedgerTypes ==
    ASSUME IInv, RecordedInv, CountInv, LedgerInv
    PROVE  /\ Sum.tActual \in Int /\ Sum.missing \in Nat /\ Sum.fmap \in [Failed -> Nat]
           /\ actual \in Nat /\ unseen \in Nat /\ owed \in [Nar -> Nat] /\ mode \in {"serve", "sim"}
           /\ Cardinality(EarlyFiles) \in Nat /\ Cardinality(EarlyDeltas) \in Nat
           /\ IsFiniteSet(Owed(owed)) /\ Cardinality(Owed(owed)) \in Nat
           /\ IsFiniteSet(Delivering(at, mine)) /\ Cardinality(Delivering(at, mine)) \in Nat
           /\ \A c \in Conn : /\ mine[c].id \in Nat /\ mine[c].nar \in Nar /\ ask[c].nar \in Nar
                              /\ FileSize[mine[c].nar] \in Nat /\ DiffSize[mine[c].nar] \in Nat
                              /\ FileSize[ask[c].nar] \in Nat
<1>1. Sum.tActual \in Int /\ Sum.missing \in Nat /\ Sum.fmap \in [Failed -> Nat]
  BY DEF RecordedInv, Tallies
<1>2. actual \in Nat /\ unseen \in Nat
  BY DEF CountInv
<1>3. RequestTypes
  BY DEF IInv
<1>4. /\ owed \in [Nar -> Nat] /\ mode \in {"serve", "sim"}
      /\ \A c \in Conn : mine[c].id \in Nat /\ mine[c].nar \in Nar /\ ask[c].nar \in Nar
  BY <1>3, Parameters DEF RequestTypes
<1>5. IsFiniteSet(Owed(owed)) /\ Cardinality(Owed(owed)) \in Nat
  BY FS_CardinalityType DEF LedgerInv
<1>6. IsFiniteSet(Delivering(at, mine)) /\ Cardinality(Delivering(at, mine)) \in Nat
  BY <1>4, DeliveringFinite, FS_CardinalityType
<1>7. \A c \in Conn : /\ FileSize[mine[c].nar] \in Nat /\ DiffSize[mine[c].nar] \in Nat
                      /\ FileSize[ask[c].nar] \in Nat
  BY <1>4, Parameters
<1>8. Cardinality(EarlyFiles) \in Nat /\ Cardinality(EarlyDeltas) \in Nat
  BY FS_CardinalityType DEF LedgerInv
<1> QED
  BY <1>1, <1>2, <1>4, <1>5, <1>6, <1>7, <1>8

\* Nothing is recorded, and the log is not told of what is downloaded.
LEMMA LedgerSame ==
    ASSUME IInv, RecordedInv, CountInv, LedgerInv, UNCHANGED <<log, owed>>,
           NEW k \in Nat, actual' = actual + k, unseen' = unseen + k,
           \A d \in Conn : /\ at'[d] = "nar" <=> at[d] = "nar"
                           /\ at[d] = "nar" => mine'[d].nar = mine[d].nar
    PROVE  LedgerInv'
<1>1. Delivering(at', mine') = Delivering(at, mine)
  <2>1. PICK b : b = at'
    OBVIOUS
  <2>2. PICK m : m = mine'
    OBVIOUS
  <2>3. \A d \in Conn : (b[d] = "nar" <=> at[d] = "nar") /\ (at[d] = "nar" => m[d].nar = mine[d].nar)
    BY <2>1, <2>2
  <2>4. Delivering(b, m) = Delivering(at, mine)
    BY <2>3, DeliveringSame
  <2> QED
    BY <2>1, <2>2, <2>4
<1>2. Sum' = Sum /\ EarlyFiles' = EarlyFiles /\ EarlyDeltas' = EarlyDeltas
  BY SumSame DEF EarlyFiles, EarlyDeltas, Early
<1>3. Told' = Told
  BY <1>2, LedgerTypes DEF Told
<1> QED
  BY <1>1, <1>2, <1>3 DEF LedgerInv, Balanced

LEMMA LedgerStays ==
    ASSUME IInv, RecordedInv, CountInv, LedgerInv, UNCHANGED <<log, owed, actual, unseen>>,
           \A d \in Conn : /\ at'[d] = "nar" <=> at[d] = "nar"
                           /\ at[d] = "nar" => mine'[d].nar = mine[d].nar
    PROVE  LedgerInv'
<1>1. 0 \in Nat /\ actual' = actual + 0 /\ unseen' = unseen + 0
  BY LedgerTypes
<1> QED
  BY <1>1, LedgerSame

\* What is refused is downloaded from the upstream cache, or not at all.
LEMMA RefuseLedger ==
    ASSUME IInv, RecordedInv, IdInv, CountInv, LedgerInv, NEW c \in Conn, Refuse(c)
    PROVE  LedgerInv'
<1>1. PICK file \in Nat, failed \in Failed :
          /\ file = (IF failed = "notfound" THEN 0 ELSE FileSize[ask[c].nar])
          /\ actual' = actual + FallBack(ask[c], failed)
          /\ unseen' = unseen + IF failed = "identical" THEN FallBack(ask[c], failed) ELSE 0
          /\ log' = Append(log, RRecord(mine[c].id, ask[c].nar, file, failed))
  BY RefuseRecords
<1>2. PICK id \in Nat, n \in Nar : id = mine[c].id /\ n = ask[c].nar
  BY LedgerTypes
<1>3. id \notin DOMAIN Sum.reqmap
  BY <1>2 DEF IdInv, IdAt, Refuse
<1>4. log' = Append(log, RRecord(id, n, file, failed))
  BY <1>1, <1>2
<1>5. Sum'.tActual = Sum.tActual + (IF failed = "identical" THEN 0 ELSE file)
  <2>1. RequestCounted(id, file, failed)
    BY <1>3, <1>4, RequestLogged
  <2> QED
    BY <2>1 DEF RequestCounted
<1>6. EarlyFiles' = EarlyFiles /\ EarlyDeltas' = EarlyDeltas
  <2>1. RRecord(id, n, file, failed) \in Record /\ RRecord(id, n, file, failed).kind = "R"
    BY DEF RRecord, Record
  <2> QED
    BY <1>4, <2>1, InOrder
<1>7. Delivering(at', mine') = Delivering(at, mine) /\ owed' = owed
  <2>1. /\ \A d \in Conn \ {c} : at'[d] = at[d]
        /\ at'[c] # "nar" /\ at[c] = "info" /\ mine' = mine
    BY EndPlaces DEF Refuse, IInv, RequestTypes
  <2>2. Delivering(at', mine') = Delivering(at, mine)
    BY <2>1, DeliveringSame
  <2> QED
    BY <2>2 DEF Refuse
<1>8. PICK k \in Nat : k = FallBack(ask[c], failed)
  BY LedgerTypes DEF FallBack
<1>9. \/ failed = "identical" /\ Sum'.tActual = Sum.tActual + 0 /\ actual' = actual + k /\ unseen' = unseen + k
      \/ /\ failed # "identical" /\ k = file
         /\ Sum'.tActual = Sum.tActual + file /\ actual' = actual + file /\ unseen' = unseen + 0
  BY <1>1, <1>5, <1>8, LedgerTypes DEF FallBack
<1>10. PICK f \in Nat : Sum'.tActual = Sum.tActual + f /\ Told' = Told + f
  <2>1. CASE failed = "identical"
    BY <1>6, <1>9, <2>1, LedgerTypes DEF Told
  <2>2. CASE failed # "identical"
    BY <1>6, <1>9, <2>2, LedgerTypes DEF Told
  <2> QED
    BY <2>1, <2>2
<1>11. Told \in Int
  BY LedgerTypes DEF Told
<1>12. Balanced'
  BY <1>7, <1>10, <1>11, LedgerTypes DEF Balanced, LedgerInv
<1> QED
  BY <1>6, <1>7, <1>12 DEF LedgerInv

\* A file more is to come: to Nix, or in a simulation from here.
LEMMA ReplyLedger ==
    ASSUME IInv, RecordedInv, IdInv, CountInv, LedgerInv, NEW c \in Conn, Reply(c)
    PROVE  LedgerInv'
<1>1. PICK id \in Nat, n \in Nar : id = mine[c].id /\ n = mine[c].nar
  BY LedgerTypes
<1>2. PICK file \in Nat : file = FileSize[n]
  BY Parameters
<1>3. PICK failed \in Failed : failed = ""
  BY DEF Failed
<1>4. log' = Append(log, RRecord(id, n, file, failed)) /\ id \notin DOMAIN Sum.reqmap
  BY <1>1, <1>2, <1>3 DEF Reply, OkRecord, IdInv, IdAt
<1>5. Sum'.tActual = Sum.tActual + file
  <2>1. RequestCounted(id, file, failed)
    BY <1>4, RequestLogged
  <2> QED
    BY <1>3, <2>1 DEF RequestCounted
<1>6. EarlyFiles' = EarlyFiles /\ EarlyDeltas' = EarlyDeltas
  <2>1. RRecord(id, n, file, failed) \in Record /\ RRecord(id, n, file, failed).kind = "R"
    BY DEF RRecord, Record
  <2> QED
    BY <1>4, <2>1, InOrder
<1>7. /\ UNCHANGED <<mine, actual, unseen>> /\ at[c] = "put"
      /\ \A d \in Conn \ {c} : at'[d] = at[d]
      /\ \/ at'[c] # "nar" /\ owed' = [owed EXCEPT ![n] = @ + 1]
         \/ at'[c] = "nar" /\ owed' = owed
  <2>1. RequestTypes
    BY DEF IInv
  <2>2. /\ UNCHANGED <<mine, actual, unseen>> /\ at[c] = "put"
        /\ \/ End(c, TRUE) /\ owed' = [owed EXCEPT ![n] = @ + 1]
           \/ at' = [at EXCEPT ![c] = "nar"] /\ owed' = owed
    BY <1>1 DEF Reply, downloads
  <2>3. CASE End(c, TRUE) /\ owed' = [owed EXCEPT ![n] = @ + 1]
    BY <2>1, <2>2, <2>3, EndPlaces
  <2>4. CASE at' = [at EXCEPT ![c] = "nar"] /\ owed' = owed
    BY <2>1, <2>2, <2>4 DEF RequestTypes
  <2> QED
    BY <2>2, <2>3, <2>4
<1>8. /\ IsFiniteSet(Owed(owed'))
      /\ Cardinality(Owed(owed')) + Cardinality(Delivering(at', mine'))
            = Cardinality(Owed(owed)) + Cardinality(Delivering(at, mine)) + file
  <2>1. CASE at'[c] # "nar" /\ owed' = [owed EXCEPT ![n] = @ + 1]
    <3>1. IsFiniteSet(Owed(owed')) /\ Cardinality(Owed(owed')) = Cardinality(Owed(owed)) + FileSize[n]
      <4>1. PICK o \in [Nar -> Nat] : o = owed
        BY LedgerTypes
      <4>2. PICK q : q = owed'
        OBVIOUS
      <4>3. IsFiniteSet(Owed(o)) /\ q = [o EXCEPT ![n] = @ + 1]
        BY <2>1, <4>1, <4>2, LedgerTypes
      <4>4. IsFiniteSet(Owed(q)) /\ Cardinality(Owed(q)) = Cardinality(Owed(o)) + FileSize[n]
        BY <4>3, OwedMore
      <4> QED
        BY <4>1, <4>2, <4>4
    <3>2. Delivering(at', mine') = Delivering(at, mine)
      BY <1>7, <2>1, DeliveringSame
    <3> QED
      BY <1>2, <3>1, <3>2, LedgerTypes
  <2>2. CASE at'[c] = "nar" /\ owed' = owed
    <3>1. Cardinality(Delivering(at', mine')) = Cardinality(Delivering(at, mine)) + FileSize[mine[c].nar]
      <4>1. \A d \in Conn : mine[d].nar \in Nar
        BY LedgerTypes
      <4> QED
        BY <1>7, <2>2, <4>1, DeliveringMore
    <3> QED
      BY <1>1, <1>2, <2>2, <3>1, LedgerTypes
  <2> QED
    BY <1>7, <2>1, <2>2
<1>9. Told' = Told /\ Told \in Int
  BY <1>6, <1>7, LedgerTypes DEF Told
<1>10. Cardinality(Owed(owed')) \in Nat /\ Cardinality(Delivering(at', mine')) \in Nat
  <2>1. \A d \in Conn : mine'[d].nar \in Nar
    BY <1>7, LedgerTypes
  <2> QED
    BY <1>8, <2>1, DeliveringFinite, FS_CardinalityType
<1>11. Balanced'
  <2>1. Balanced
    BY DEF LedgerInv
  <2> QED
    BY <1>5, <1>8, <1>9, <1>10, <2>1, LedgerTypes DEF Balanced
<1> QED
  BY <1>6, <1>8, <1>11 DEF LedgerInv

\* What was to come to Nix is to come from here.
LEMMA AskNarLedger ==
    ASSUME IInv, RecordedInv, CountInv, LedgerInv, NEW c \in Conn, NEW n \in Nar, AskNar(c, n)
    PROVE  LedgerInv'
<1>1. /\ at[c] = "free" /\ at'[c] = "nar" /\ owed[n] > 0 /\ recents[n].nar = n
      /\ mine'[c] = recents[n] /\ owed' = [owed EXCEPT ![n] = @ - 1]
      /\ \A d \in Conn \ {c} : at'[d] = at[d] /\ mine'[d] = mine[d]
      /\ UNCHANGED <<log, actual, unseen>>
  BY DEF AskNar, IInv, PromiseInv, RequestTypes, downloads
<1>2. PICK o \in [Nar -> Nat] : o = owed'
  <2>1. owed \in [Nar -> Nat] /\ owed[n] \in Nat
    BY LedgerTypes
  <2>2. owed[n] - 1 \in Nat
    BY <1>1, <2>1
  <2>3. owed' \in [Nar -> Nat]
    BY <1>1, <2>1, <2>2
  <2> QED
    BY <2>3
<1>3. PICK q \in [Nar -> Nat] : q = owed
  BY LedgerTypes
<1>4. q = [o EXCEPT ![n] = @ + 1]
  <2>1. o = [q EXCEPT ![n] = @ - 1] /\ q[n] > 0
    BY <1>1, <1>2, <1>3
  <2>2. o[n] = q[n] - 1 /\ (q[n] - 1) + 1 = q[n] /\ \A m \in Nar \ {n} : o[m] = q[m]
    BY <2>1
  <2> QED
    BY <2>2
<1>5. IsFiniteSet(Owed(o)) /\ Cardinality(Owed(q)) = Cardinality(Owed(o)) + FileSize[n]
  BY <1>3, <1>4, OwedMore, LedgerTypes
<1>6. /\ Cardinality(Delivering(at, mine)) \in Nat
      /\ Cardinality(Delivering(at', mine')) = Cardinality(Delivering(at, mine)) + FileSize[n]
  <2>1. PICK b : b = at'
    OBVIOUS
  <2>2. PICK k : k = mine'
    OBVIOUS
  <2>3. /\ \A d \in Conn : mine[d].nar \in Nar
        /\ at[c] # "nar" /\ b[c] = "nar" /\ k[c].nar = n
        /\ \A d \in Conn \ {c} : b[d] = at[d] /\ (at[d] = "nar" => k[d].nar = mine[d].nar)
    BY <1>1, <2>1, <2>2, LedgerTypes
  <2>4. /\ Cardinality(Delivering(at, mine)) \in Nat
        /\ Cardinality(Delivering(b, k)) = Cardinality(Delivering(at, mine)) + FileSize[n]
    BY <2>3, DeliveringMore
  <2> QED
    BY <2>1, <2>2, <2>4
<1>7. Sum' = Sum /\ EarlyFiles' = EarlyFiles /\ EarlyDeltas' = EarlyDeltas
  BY <1>1, SumSame DEF EarlyFiles, EarlyDeltas, Early
<1>8. Cardinality(Owed(o)) \in Nat /\ FileSize[n] \in Nat
  BY <1>5, FS_CardinalityType, Parameters
<1>9. Cardinality(Owed(owed')) + Cardinality(Delivering(at', mine'))
          = Cardinality(Owed(owed)) + Cardinality(Delivering(at, mine))
  BY <1>2, <1>3, <1>5, <1>6, <1>8
<1>10. Told' = Told /\ Told \in Int
  BY <1>1, <1>7, LedgerTypes DEF Told
<1>11. Balanced'
  <2>1. Balanced
    BY DEF LedgerInv
  <2>2. Cardinality(Owed(owed')) \in Nat /\ Cardinality(Delivering(at', mine')) \in Nat
    BY <1>2, <1>6, <1>8
  <2> QED
    BY <1>7, <1>9, <1>10, <2>1, <2>2, LedgerTypes DEF Balanced
<1> QED
  BY <1>2, <1>5, <1>7, <1>11 DEF LedgerInv

\* A connection that is done with its nar has delivered it, as a delta or a file,
\* or Nix has yet to fetch it.
LEMMA NarOverLedger ==
    ASSUME IInv, RecordedInv, CountInv, NEW c \in Conn, at[c] = "nar", NEW ok, End(c, ok),
           mine' = mine
    PROVE  /\ Cardinality(Delivering(at', mine')) \in Nat
           /\ Cardinality(Delivering(at, mine))
                  = Cardinality(Delivering(at', mine')) + FileSize[mine[c].nar]
<1>1. RequestTypes
  BY DEF IInv
<1>2. at'[c] # "nar" /\ \A d \in Conn \ {c} : at'[d] = at[d]
  BY <1>1, EndPlaces
<1>3. \A d \in Conn : mine[d].nar \in Nar
  BY <1>1 DEF RequestTypes
<1>4. PICK a : a = at'
  OBVIOUS
<1>5. /\ a[c] # "nar" /\ at[c] = "nar" /\ mine[c].nar \in Nar
      /\ \A d \in Conn \ {c} : at[d] = a[d] /\ (a[d] = "nar" => mine[d].nar = mine[d].nar)
  BY <1>2, <1>3, <1>4
<1>6. /\ Cardinality(Delivering(a, mine)) \in Nat
      /\ Cardinality(Delivering(at, mine)) = Cardinality(Delivering(a, mine)) + FileSize[mine[c].nar]
  BY <1>3, <1>5, DeliveringMore
<1> QED
  BY <1>4, <1>6

\* What is owed to Nix afterwards: as much, or one file more.
LEMMA OwedAgain ==
    ASSUME IInv, RecordedInv, CountInv, LedgerInv, NEW n \in Nar, NEW file \in Nat, file = FileSize[n],
           owed' = owed \/ owed' = [owed EXCEPT ![n] = @ + 1]
    PROVE  /\ IsFiniteSet(Owed(owed')) /\ Cardinality(Owed(owed')) \in Nat
           /\ owed' = owed => Cardinality(Owed(owed')) = Cardinality(Owed(owed))
           /\ owed' # owed => Cardinality(Owed(owed')) = Cardinality(Owed(owed)) + file
<1>1. PICK o \in [Nar -> Nat] : o = owed
  BY LedgerTypes
<1>2. PICK q : q = owed'
  OBVIOUS
<1>3. IsFiniteSet(Owed(o)) /\ Cardinality(Owed(o)) \in Nat
  BY <1>1, LedgerTypes
<1>4. CASE q = o
  BY <1>1, <1>2, <1>3, <1>4
<1>5. CASE q = [o EXCEPT ![n] = @ + 1]
  <2>1. IsFiniteSet(Owed(q)) /\ Cardinality(Owed(q)) = Cardinality(Owed(o)) + file
    BY <1>3, <1>5, OwedMore
  <2>2. q # o
    <3>1. q[n] = o[n] + 1 /\ o[n] \in Nat
      BY <1>5
    <3> QED
      BY <3>1
  <2> QED
    BY <1>1, <1>2, <1>3, <2>1, <2>2
<1> QED
  BY <1>1, <1>2, <1>4, <1>5

LEMMA SendNarLedger ==
    ASSUME IInv, RecordedInv, IdInv, CountInv, LedgerInv, NEW c \in Conn, SendNar(c)
    PROVE  LedgerInv'
<1>1. PICK id \in Nat, n \in Nar : id = mine[c].id /\ n = mine[c].nar
  BY LedgerTypes
<1>2. PICK diff \in Nat : diff = DiffSize[n]
  BY Parameters
<1>3. PICK file \in Nat : file = FileSize[n]
  BY Parameters
<1>4. log' = Append(log, DRecord(id, n, diff))
  BY <1>1, <1>2 DEF SendNar
<1>5. DeltaCounted(id, diff)
  BY <1>4, DeltaLogged
<1>6. /\ at[c] = "nar" /\ End(c, TRUE) /\ actual' = actual + diff /\ UNCHANGED <<mode, mine>>
      /\ \/ owed' = owed /\ unseen' = unseen
         \/ owed' = [owed EXCEPT ![n] = @ + 1] /\ unseen' = unseen + file
  BY <1>1, <1>2, <1>3 DEF SendNar
<1>7. /\ Cardinality(Delivering(at', mine')) \in Nat
      /\ Cardinality(Delivering(at, mine)) = Cardinality(Delivering(at', mine')) + file
  BY <1>1, <1>3, <1>6, NarOverLedger
<1>8. PICK again \in Nat : /\ unseen' = unseen + again
                           /\ IsFiniteSet(Owed(owed')) /\ Cardinality(Owed(owed')) \in Nat
                           /\ Cardinality(Owed(owed')) = Cardinality(Owed(owed)) + again
  <2>1. \/ owed' = owed /\ unseen' = unseen + 0
        \/ owed' # owed /\ unseen' = unseen + file
    <3>1. owed \in [Nar -> Nat] /\ unseen \in Nat
      BY LedgerTypes
    <3>2. ASSUME owed' = [owed EXCEPT ![n] = @ + 1] PROVE owed' # owed
      <4>1. owed'[n] = owed[n] + 1 /\ owed[n] \in Nat
        BY <3>1, <3>2
      <4> QED
        BY <4>1
    <3> QED
      BY <1>6, <3>1, <3>2
  <2>2. /\ IsFiniteSet(Owed(owed')) /\ Cardinality(Owed(owed')) \in Nat
        /\ owed' = owed => Cardinality(Owed(owed')) = Cardinality(Owed(owed))
        /\ owed' # owed => Cardinality(Owed(owed')) = Cardinality(Owed(owed)) + file
    BY <1>3, <1>6, OwedAgain
  <2> QED
    BY <2>1, <2>2, LedgerTypes
<1>9. /\ IsFiniteSet(EarlyFiles') /\ IsFiniteSet(EarlyDeltas')
      /\ Sum'.tActual + file - diff - Cardinality(EarlyFiles') + Cardinality(EarlyDeltas')
             = Sum.tActual - Cardinality(EarlyFiles) + Cardinality(EarlyDeltas)
      /\ Sum'.tActual \in Int /\ Cardinality(EarlyFiles') \in Nat /\ Cardinality(EarlyDeltas') \in Nat
  <2>1. CASE id \in DOMAIN Sum.reqmap
    <3>1. Sum'.tActual = Sum.tActual - file + diff
      <4>1. Sum.reqmap[id].file = file
        BY <1>1, <1>3, <1>6, <2>1 DEF IdInv, IdAt, Good
      <4> QED
        BY <1>5, <2>1, <4>1 DEF DeltaCounted
    <3>2. EarlyFiles' = EarlyFiles /\ EarlyDeltas' = EarlyDeltas
      <4>1. DRecord(id, n, diff) \in Record /\ DRecord(id, n, diff).id = id
        BY DEF DRecord, Record
      <4> QED
        BY <1>4, <2>1, <4>1, InOrder
    <3> QED
      BY <3>1, <3>2, LedgerTypes DEF LedgerInv
  <2>2. CASE id \notin DOMAIN Sum.reqmap
    <3>1. Sum'.tActual = Sum.tActual
      BY <1>5, <2>2 DEF DeltaCounted
    <3>2. /\ IsFiniteSet(EarlyFiles') /\ Cardinality(EarlyFiles') = Cardinality(EarlyFiles) + file
          /\ IsFiniteSet(EarlyDeltas') /\ Cardinality(EarlyDeltas') = Cardinality(EarlyDeltas) + diff
      BY <1>3, <1>4, <2>2, OutOfOrder DEF LedgerInv
    <3> QED
      BY <3>1, <3>2, LedgerTypes
  <2> QED
    BY <2>1, <2>2
<1>10. Balanced'
  <2>1. Balanced
    BY DEF LedgerInv
  <2> QED
    BY <1>6, <1>7, <1>8, <1>9, <2>1, LedgerTypes DEF Balanced, Told
<1> QED
  BY <1>8, <1>9, <1>10 DEF LedgerInv

LEMMA NarFailsLedger ==
    ASSUME IInv, RecordedInv, IdInv, CountInv, LedgerInv, NEW c \in Conn, NarFails(c)
    PROVE  LedgerInv'
<1>1. PICK n \in Nar : n = mine[c].nar
  BY LedgerTypes
<1>2. PICK file \in Nat : file = FileSize[n]
  BY Parameters
<1>3. PICK part \in 0..DiffSize[n] :
          /\ unseen' = unseen + part
          /\ \/ actual' = actual + part + file /\ owed' = owed
             \/ actual' = actual + part /\ owed' = [owed EXCEPT ![n] = @ + 1]
  BY <1>1, <1>2 DEF NarFails
<1>4. part \in Nat
  BY Parameters
<1>5. at[c] = "nar" /\ End(c, FALSE) /\ UNCHANGED <<mode, mine, log>>
  BY DEF NarFails
<1>6. /\ Cardinality(Delivering(at', mine')) \in Nat
      /\ Cardinality(Delivering(at, mine)) = Cardinality(Delivering(at', mine')) + file
  BY <1>1, <1>2, <1>5, NarOverLedger
<1>7. /\ IsFiniteSet(Owed(owed')) /\ Cardinality(Owed(owed')) \in Nat
      /\ owed' = owed => Cardinality(Owed(owed')) = Cardinality(Owed(owed))
      /\ owed' # owed => Cardinality(Owed(owed')) = Cardinality(Owed(owed)) + file
  BY <1>2, <1>3, OwedAgain
<1>8. \/ actual' = actual + part + file /\ owed' = owed
      \/ actual' = actual + part /\ owed' # owed
  <2>1. owed \in [Nar -> Nat]
    BY LedgerTypes
  <2>2. ASSUME owed' = [owed EXCEPT ![n] = @ + 1] PROVE owed' # owed
    <3>1. owed'[n] = owed[n] + 1 /\ owed[n] \in Nat
      BY <2>1, <2>2
    <3> QED
      BY <3>1
  <2> QED
    BY <1>3, <2>2
<1>9. Sum' = Sum /\ EarlyFiles' = EarlyFiles /\ EarlyDeltas' = EarlyDeltas
  BY <1>5, SumSame DEF EarlyFiles, EarlyDeltas, Early
<1>10. Balanced'
  <2>1. Balanced
    BY DEF LedgerInv
  <2>2. CASE owed' = owed
    BY <1>3, <1>4, <1>6, <1>7, <1>8, <1>9, <2>1, <2>2, LedgerTypes DEF Balanced, Told
  <2>3. CASE owed' # owed
    BY <1>3, <1>4, <1>6, <1>7, <1>8, <1>9, <2>1, <2>3, LedgerTypes DEF Balanced, Told
  <2> QED
    BY <2>2, <2>3
<1> QED
  BY <1>7, <1>9, <1>10 DEF LedgerInv

LEMMA StepLedger == IInv /\ RecordedInv /\ IdInv /\ CountInv /\ LedgerInv /\ [Next]_vars => LedgerInv'
<1> SUFFICES ASSUME IInv, RecordedInv, IdInv, CountInv, LedgerInv, [Next]_vars PROVE LedgerInv'
  OBVIOUS
<1>0. RequestTypes
  BY DEF IInv
<1>1. CASE Surroundings \/ SimOver \/ UNCHANGED vars
  BY <1>1, LedgerStays DEF Surroundings, SimOver, vars, requestVars
<1>2. ASSUME NEW c \in Conn, Line(c) PROVE LedgerInv'
  <2>1. CASE SimStart(c) \/ SimRequest(c) \/ PutRecent(c)
    <3>1. UNCHANGED <<log, actual, unseen, owed>> /\ at[c] # "nar"
      BY <2>1 DEF SimStart, SimRequest, PutRecent, downloads
    <3>2. at'[c] # "nar" /\ \A d \in Conn \ {c} : at'[d] = at[d] /\ mine'[d] = mine[d]
      BY <1>0, <2>1 DEF SimStart, SimRequest, PutRecent, RequestTypes
    <3>3. \A d \in Conn : /\ at'[d] = "nar" <=> at[d] = "nar"
                          /\ at[d] = "nar" => mine'[d].nar = mine[d].nar
      BY <3>1, <3>2
    <3> QED
      BY <3>1, <3>3, LedgerStays
  <2>2. CASE UpstreamFails(c)
    <3>1. PICK k \in Nat : actual' = actual + k /\ unseen' = unseen + k
      BY <2>2, LedgerTypes DEF UpstreamFails
    <3>2. at[c] # "nar" /\ UNCHANGED <<log, owed, mine>>
      BY <2>2 DEF UpstreamFails
    <3>3. at'[c] # "nar" /\ \A d \in Conn \ {c} : at'[d] = at[d]
      BY <1>0, <2>2, EndPlaces DEF UpstreamFails
    <3>4. \A d \in Conn : /\ at'[d] = "nar" <=> at[d] = "nar"
                          /\ at[d] = "nar" => mine'[d].nar = mine[d].nar
      BY <3>2, <3>3
    <3> QED
      BY <3>1, <3>2, <3>4, LedgerSame
  <2> QED
    BY <1>2, <2>1, <2>2, RefuseLedger, ReplyLedger, SendNarLedger, NarFailsLedger DEF Line
<1>3. ASSUME NEW c \in Conn, NEW p \in Wishes, AskInfo(c, p) PROVE LedgerInv'
  <2>1. UNCHANGED <<log, actual, unseen, owed>>
    BY <1>3 DEF AskInfo, downloads
  <2>2. /\ at[c] # "nar" /\ at'[c] # "nar"
        /\ \A d \in Conn \ {c} : at'[d] = at[d] /\ mine'[d] = mine[d]
    BY <1>0, <1>3 DEF AskInfo, RequestTypes
  <2>3. \A d \in Conn : /\ at'[d] = "nar" <=> at[d] = "nar"
                        /\ at[d] = "nar" => mine'[d].nar = mine[d].nar
    BY <2>2
  <2> QED
    BY <2>1, <2>3, LedgerStays
<1> QED
  BY <1>1, <1>2, <1>3, AskNarLedger DEF Next, Client

LEMMA InitLedger == Init => LedgerInv
<1> SUFFICES ASSUME Init PROVE LedgerInv
  OBVIOUS
<1>1. \A n \in Nar : 1..owed[n] = {}
  BY DEF Init
<1>2. Owed(owed) = {}
  BY <1>1, InOwed
<1>3. \A c \in Conn : at[c] # "nar"
  BY DEF Init
<1>4. Delivering(at, mine) = {}
  BY <1>3 DEF Delivering
<1>5. Sum.tActual = 0 /\ actual = 0 /\ unseen = 0
  BY AnalyzeEmpty DEF Init, Sum, NoRecords
<1>6. EarlyFiles = {} /\ EarlyDeltas = {}
  <2>1. Early = {}
    BY DEF Init, Early
  <2> QED
    BY <2>1 DEF EarlyFiles, EarlyDeltas
<1> QED
  BY <1>2, <1>4, <1>5, <1>6, FS_EmptySet DEF LedgerInv, Balanced, Told

\* analytics.go:104-114: at any time what the log says was downloaded is what was, with
\* what is still owed to Nix or about to be delivered, less what the log is not told of,
\* and with the files instead of the deltas of what was recorded before its request.
THEOREM SpecLedger == Spec => [](CountInv /\ LedgerInv)
<1>1. Init => IInv /\ RecordedInv /\ IdInv /\ CountInv /\ LedgerInv
  BY InitIInv, InitIds, InitCounts, InitLedger
<1> QED
  BY <1>1, StepIInv, StepIds, StepCounts, StepLedger, PTL DEF Spec

\* analytics.go:104-114: when all is quiet, what the log says was downloaded is what
\* was, less what it is not told of (deltas of no use, files without a record, what
\* was fetched again), and with the files instead of the deltas of what was recorded
\* too early; also for different paths with the same nar.
THEOREM SpecActualExact == Spec => []ActualExact
<1>1. ASSUME LedgerInv, CountInv, IInv, RecordedInv PROVE ActualExact
  <2> SUFFICES ASSUME Quiet
               PROVE  Sum.tActual = actual - unseen + FilesFor(Early) - Deltas(Early)
    BY DEF ActualExact, Sum
  <2>1. \A n \in Nar : 1..owed[n] = {}
    BY DEF Quiet
  <2>2. Owed(owed) = {}
    BY <2>1, InOwed
  <2>3. Delivering(at, mine) = {}
    BY DEF Quiet, Delivering
  <2>4. Told \in Int /\ Balanced
    BY <1>1, LedgerTypes DEF LedgerInv, Told
  <2>5. Sum.tActual = Told
    BY <2>2, <2>3, <2>4, FS_EmptySet DEF Balanced
  <2> QED
    BY <2>5 DEF Told, FilesFor, Deltas, EarlyFiles, EarlyDeltas
<1> QED
  BY <1>1, SpecIds, SpecLedger, PTL
-----------------------------------------------------------------------------
(* The semaphore of a simulation *)

LEMMA ClientIs ==
    ASSUME RequestTypes, NEW c \in Conn
    PROVE  /\ at[c] = "sem" => ClientAt(c) = "waiting"
           /\ mode = "sim" /\ at[c] \in {"info", "put", "nar"} => ClientAt(c) = "holding"
           /\ at[c] # "sem" /\ mode # "sim" => ClientAt(c) = "idle"
           /\ at[c] \in {"free", "start", "done"} => ClientAt(c) = "idle"
  BY DEF ClientAt

LEMMA SlotParams == Sem!Params /\ Sem!Positive
<1>1. [c \in Conn |-> 1] \in [Conn -> Nat] /\ SimSlots \in Nat /\ IsFiniteSet(Conn)
  BY RequestsAssumption
<1>2. Sem!Params
  BY <1>1 DEF Sem!Params, Sem!IsFiniteSet, IsFiniteSet
<1> QED
  BY <1>2 DEF Sem!Positive

\* A line moves, and is the same client of the semaphore as before.
LEMMA SlotKept ==
    ASSUME sem' = sem, \A d \in Conn : ClientAt(d)' = ClientAt(d)
    PROVE  UNCHANGED Sem!vars
<1>1. [d \in Conn |-> ClientAt(d)'] = [d \in Conn |-> ClientAt(d)]
  OBVIOUS
<1> QED
  BY <1>1 DEF Sem!vars

LEMMA SlotMoved ==
    ASSUME RequestTypes, RequestTypes', mode' = mode, NEW c \in Conn, at' = [at EXCEPT ![c] = at'[c]]
    PROVE  /\ \A d \in Conn \ {c} : ClientAt(d)' = ClientAt(d)
           /\ [d \in Conn |-> ClientAt(d)]' = [[d \in Conn |-> ClientAt(d)] EXCEPT ![c] = ClientAt(c)']
<1>1. \A d \in Conn \ {c} : ClientAt(d)' = ClientAt(d)
  BY DEF ClientAt, RequestTypes
<1> HIDE DEF ClientAt
<1> QED
  BY <1>1

\* A request that is over leaves the semaphore, if it is in it.
LEMMA EndSlot ==
    ASSUME RequestTypes, RequestTypes', mode' = mode, NEW c \in Conn, at[c] \in {"info", "put", "nar"},
           NEW ok, End(c, ok)
    PROVE  [Sem!Next]_Sem!vars
<1>1. at' = [at EXCEPT ![c] = at'[c]] /\ at'[c] \in {"free", "done"}
  BY EndAt
<1>2. ClientAt(c)' = "idle"
  BY <1>1 DEF ClientAt
<1>3. CASE mode = "serve"
  <2>1. sem' = sem /\ ClientAt(c) = "idle"
    BY <1>3, ClientIs DEF End
  <2>2. \A d \in Conn : ClientAt(d)' = ClientAt(d)
    BY <1>1, <1>2, <2>1, SlotMoved
  <2> QED
    BY <2>1, <2>2, SlotKept
<1>4. CASE mode = "sim"
  <2>1. sem' = Sem!Release(sem, c) /\ ClientAt(c) = "holding"
    BY <1>4, ClientIs DEF End
  <2>2. [d \in Conn |-> ClientAt(d)]' = [[d \in Conn |-> ClientAt(d)] EXCEPT ![c] = "idle"]
    BY <1>1, <1>2, SlotMoved
  <2>3. Sem!Leave(c)
    BY <2>1, <2>2 DEF Sem!Leave
  <2> QED
    BY <2>3 DEF Sem!Next
<1> QED
  BY <1>3, <1>4 DEF RequestTypes

LEMMA StepSlots == IInv /\ CountInv /\ [Next]_vars => [Sem!Next]_Sem!vars
<1> SUFFICES ASSUME IInv, CountInv, [Next]_vars PROVE [Sem!Next]_Sem!vars
  OBVIOUS
<1>0. RequestTypes /\ RequestTypes'
  <2>1. IInv'
    BY StepIInv
  <2> QED
    BY <2>1 DEF IInv
<1>1. ASSUME UNCHANGED <<mode, at, sem>> PROVE [Sem!Next]_Sem!vars
  <2>1. \A d \in Conn : ClientAt(d)' = ClientAt(d)
    BY <1>1 DEF ClientAt
  <2> QED
    BY <1>1, <2>1, SlotKept
<1>2. ASSUME NEW c \in Conn, UNCHANGED <<mode, sem>>, at' = [at EXCEPT ![c] = at'[c]],
             ClientAt(c)' = ClientAt(c)
      PROVE  [Sem!Next]_Sem!vars
  <2>1. \A d \in Conn : ClientAt(d)' = ClientAt(d)
    BY <1>0, <1>2, SlotMoved
  <2> QED
    BY <1>2, <2>1, SlotKept
<1>3. ASSUME NEW c \in Conn, NEW place, at' = [at EXCEPT ![c] = place] PROVE at' = [at EXCEPT ![c] = at'[c]]
  BY <1>0, <1>3 DEF RequestTypes
<1>4. ASSUME NEW c \in Conn, Line(c) PROVE [Sem!Next]_Sem!vars
  <2>1. CASE SimStart(c)
    <3>1. /\ at[c] = "start" /\ at' = [at EXCEPT ![c] = "sem"] /\ at'[c] = "sem" /\ mode' = mode
          /\ sem' = Sem!Acquire(sem, c)
      BY <1>0, <2>1 DEF SimStart, RequestTypes
    <3>2. ClientAt(c) = "idle" /\ ClientAt(c)' = "waiting"
      <4>1. ClientAt(c)' = "waiting"
        BY <3>1 DEF ClientAt
      <4> QED
        BY <1>0, <3>1, <4>1, ClientIs
    <3>3. [d \in Conn |-> ClientAt(d)]' = [[d \in Conn |-> ClientAt(d)] EXCEPT ![c] = "waiting"]
      BY <1>0, <1>3, <3>1, <3>2, SlotMoved
    <3>4. Sem!Ask(c)
      BY <3>1, <3>2, <3>3 DEF Sem!Ask
    <3> QED
      BY <3>4 DEF Sem!Next
  <2>2. CASE SimRequest(c)
    <3>1. /\ at[c] = "sem" /\ at' = [at EXCEPT ![c] = "info"] /\ at'[c] = "info" /\ mode' = mode
          /\ c \in sem.held /\ sem' = sem
      BY <1>0, <2>2 DEF SimRequest, RequestTypes
    <3>2. mode = "sim"
      BY <1>0, <3>1 DEF CountInv, In, RequestTypes
    <3>3. ClientAt(c) = "waiting" /\ ClientAt(c)' = "holding"
      <4>1. ClientAt(c)' = "holding"
        BY <3>1, <3>2 DEF ClientAt
      <4> QED
        BY <1>0, <3>1, <4>1, ClientIs
    <3>4. [d \in Conn |-> ClientAt(d)]' = [[d \in Conn |-> ClientAt(d)] EXCEPT ![c] = "holding"]
      BY <1>0, <1>3, <3>1, <3>3, SlotMoved
    <3>5. Sem!Enter(c)
      BY <3>1, <3>3, <3>4 DEF Sem!Enter
    <3> QED
      BY <3>5 DEF Sem!Next
  <2>3. CASE UpstreamFails(c) \/ Refuse(c) \/ SendNar(c) \/ NarFails(c) \/ (mode = "serve" /\ Reply(c))
    <3>1. mode' = mode /\ at[c] \in {"info", "put", "nar"} /\ \E ok : End(c, ok)
      BY <2>3 DEF UpstreamFails, Refuse, SendNar, NarFails, Reply
    <3> QED
      BY <1>0, <3>1, EndSlot
  <2>4. CASE PutRecent(c) \/ (mode # "serve" /\ Reply(c))
    <3>1. /\ UNCHANGED <<mode, sem>> /\ at[c] \in {"info", "put"}
          /\ at' = [at EXCEPT ![c] = "put"] \/ at' = [at EXCEPT ![c] = "nar"]
      BY <2>4 DEF PutRecent, Reply
    <3>2. at'[c] \in {"put", "nar"} /\ at' = [at EXCEPT ![c] = at'[c]]
      BY <1>0, <3>1 DEF RequestTypes
    <3>3. ClientAt(c)' = ClientAt(c)
      BY <3>1, <3>2 DEF ClientAt
    <3> QED
      BY <1>2, <3>1, <3>2, <3>3
  <2> QED
    BY <1>4, <2>1, <2>2, <2>3, <2>4 DEF Line
<1>5. ASSUME NEW c \in Conn, Client(c) PROVE [Sem!Next]_Sem!vars
  <2>1. /\ mode = "serve" /\ UNCHANGED <<mode, sem>> /\ at[c] = "free"
        /\ at' = [at EXCEPT ![c] = "info"] \/ at' = [at EXCEPT ![c] = "nar"]
    BY <1>5 DEF Client, AskInfo, AskNar
  <2>2. at'[c] \in {"info", "nar"} /\ at' = [at EXCEPT ![c] = at'[c]]
    BY <1>0, <2>1 DEF RequestTypes
  <2>3. ClientAt(c)' = ClientAt(c)
    BY <2>1, <2>2 DEF ClientAt
  <2> QED
    BY <1>2, <2>1, <2>2, <2>3
<1>6. CASE Surroundings \/ SimOver \/ UNCHANGED vars
  BY <1>1, <1>6 DEF Surroundings, SimOver, vars, requestVars
<1> QED
  BY <1>4, <1>5, <1>6 DEF Next

\* simulate.go:33-46: each line of a simulation asks for the semaphore once, begins
\* only with it, and gives it back when it is over, however it ends.
THEOREM SpecUsesSemaphore == Spec => Sem!Spec
<1>1. Init => Sem!Init
  <2> SUFFICES ASSUME Init PROVE Sem!Init
    OBVIOUS
  <2>1. \A c \in Conn : ClientAt(c) = "idle"
    BY DEF Init, ClientAt
  <2> QED
    BY <2>1 DEF Init, Sem!Init
<1> QED
  BY <1>1, StepSlots, SpecIInv, SpecLedger, PTL DEF Spec, Sem!Spec

LEMMA IdsBounded ==
    ASSUME IInv, CountInv
    PROVE  lastId \in 0..Cardinality(Conn) + MaxRequests
<1>1. lastId \in Nat /\ mode \in {"serve", "sim"}
  BY DEF IInv, RequestTypes
<1>2. MaxRequests \in Nat /\ IsFiniteSet(Conn) /\ Cardinality(Conn) \in Nat
  BY FS_CardinalityType, RequestsAssumption
<1>3. CASE mode = "serve"
  <2>1. lastId <= MaxRequests
    BY <1>3 DEF CountInv
  <2> QED
    BY <1>1, <1>2, <2>1
<1>4. CASE mode = "sim"
  <2>1. PICK C \in SUBSET Conn : lastId = Cardinality(C)
    BY <1>4 DEF CountInv
  <2>2. lastId <= Cardinality(Conn)
    BY <1>2, <2>1, FS_Subset
  <2> QED
    BY <1>1, <1>2, <2>2
<1> QED
  BY <1>1, <1>3, <1>4

LEMMA RecentType ==
    ASSUME NEW last \in 0..Cardinality(Conn) + MaxRequests,
           NEW recent \in [id : Nat, nar : Nar, base : Base], recent.id <= last
    PROVE  recent \in Recent
<1>1. MaxRequests \in Nat /\ Cardinality(Conn) \in Nat
  BY FS_CardinalityType, RequestsAssumption
<1>2. recent.id \in 0..Cardinality(Conn) + MaxRequests
  BY <1>1
<1>3. /\ recent = [id |-> recent.id, nar |-> recent.nar, base |-> recent.base]
      /\ recent.nar \in Nar /\ recent.base \in Path \cup {NoBase}
  BY DEF Base
<1> QED
  BY <1>2, <1>3 DEF Recent

\* The state of the requests stays of its type: the ids and the failures of the log
\* are bounded, the recents keep what findBase gives.
THEOREM SpecTypeOK == Spec => []TypeOK
<1>1. ASSUME IInv, RecordedInv, IdInv, CountInv, Sem!ClientsTypeOK PROVE TypeOK
  <2>1. CatalogInv /\ RequestTypes
    BY <1>1 DEF IInv
  <2>2. /\ there \in [Path -> Presence] /\ bt \subseteq Path
        /\ upd.pc \in {"idle", "read", "info"} /\ upd.nt \cup upd.left \cup upd.batch \subseteq Path
    BY <2>1 DEF CatalogInv
  <2>3. PICK last \in 0..Cardinality(Conn) + MaxRequests : last = lastId
    BY <1>1, IdsBounded
  <2>4. mine \in [Conn -> Recent]
    <3>1. \A c \in Conn : mine[c] \in [id : Nat, nar : Nar, base : Base] /\ mine[c].id <= last
      BY <1>1, <2>1, <2>3 DEF RequestTypes, IdInv, IdAt
    <3>2. \A c \in Conn : mine[c] \in Recent
      BY <3>1, RecentType
    <3> QED
      BY <2>1, <3>2 DEF RequestTypes
  <2>5. recents \in [Nar -> Recent]
    <3>1. \A n \in Nar : recents[n] \in [id : Nat, nar : Nar, base : Base] /\ recents[n].id <= last
      BY <1>1, <2>1, <2>3 DEF RequestTypes, IdInv
    <3>2. \A n \in Nar : recents[n] \in Recent
      BY <3>1, RecentType
    <3> QED
      BY <2>1, <3>2 DEF RequestTypes
  <2>6. \A i \in 1..Len(log) : log[i].kind = "R" => log[i].failed \in Failed
    <3>1. \A i \in 1..Len(log) : log[i] \in Record
      BY <2>1, ElementOfSeq DEF RequestTypes
    <3> QED
      BY <3>1 DEF Record
  <2>7. Sem!TypeOK(sem)
    BY <1>1 DEF Sem!ClientsTypeOK
  <2>8. trouble \in 0..MaxTrouble /\ ask \in [Conn -> Wishes] /\ success \in Nat /\ errors \in Nat
    BY <1>1 DEF CountInv
  <2>9. actual \in Nat /\ unseen \in Nat
    BY <1>1 DEF CountInv
  <2>10. at \in [Conn -> {"free", "start", "sem", "info", "put", "nar", "done"}] /\ owed \in [Nar -> Nat]
    BY <2>1 DEF RequestTypes
  <2> QED
    BY <2>2, <2>4, <2>5, <2>6, <2>7, <2>8, <2>9, <2>10, Zenon DEF TypeOK
<1>2. Sem!Spec => []Sem!ClientsTypeOK
  BY SlotParams, Sem!SpecClientsTypeOK
<1> QED
  BY <1>1, <1>2, SpecIds, SpecLedger, SpecUsesSemaphore, PTL

\* At most SimSlots lines are between the semaphore and their end; while one waits
\* the next in line does not fit.
THEOREM SpecSlots == Spec => [](Sem!Bounded /\ Sem!HeadBlocked)
<1>1. Sem!Params /\ Sem!Positive
  BY SlotParams
<1>2. (Sem!Spec => []Sem!Bounded) /\ (Sem!Spec => []Sem!HeadBlocked)
  BY <1>1, Sem!SpecBounded, Sem!SpecHeadBlocked
<1> QED
  BY <1>2, SpecUsesSemaphore, PTL
-----------------------------------------------------------------------------
(* What a simulation counts *)

\* The records of requests whose file, as far as the log knows, was downloaded.
Undiffed ==
    {i \in 1..Len(log) : /\ log[i].kind = "R" /\ log[i].failed # "identical"
                         /\ \A k \in 1..Len(Sum.diffed) : Sum.diffed[k] # log[i].id}

\* The size of the files of some records of log l.
FilesOf(l, records) == Cardinality(UNION {{i} \X (1..l[i].file) : i \in records})

\* What simulate has counted is what it has recorded.
SimCounted ==
    /\ success + errors = Cardinality(In({"done"}))
    /\ success = Len(Sum.diffed) /\ Sum.missing = 0
    /\ success + Cardinality(In({"nar"})) <= Sum.fmap[""]
    /\ Requested(Sum) <= Cardinality(In({"nar"})) + Cardinality(In({"done"}))

\* A line that has begun a nar is recorded, alone under its id, and not yet diffed.
SimNars ==
    \A c \in Conn : at[c] = "nar" =>
        /\ mine[c].id \in DOMAIN Sum.reqmap
        /\ \A k \in 1..Len(Sum.diffed) : Sum.diffed[k] # mine[c].id
        /\ \A d \in Conn \ {c} : at[d] = "nar" => mine[d].id # mine[c].id

\* The total of the log is that of the deltas and of the files without one.
SimTotals == Sum.tActual = Compared(Sum).diff + FilesOf(log, Undiffed)

SimInv == mode = "sim" => SimCounted /\ SimNars /\ SimTotals

\* The recursion of the loop over what was diffed.
Comparison(g, sum) ==
    [i \in 0..Len(sum.diffed) |->
        IF i = 0 THEN [file |-> 0, diff |-> 0]
        ELSE AddCompared(g[i - 1], sum.reqmap[sum.diffed[i]])]

LEMMA ComparisonExists == ASSUME NEW sum \in Tallies PROVE \E g : g = Comparison(g, sum)
<1> DEFINE N == Len(sum.diffed)
           Zero == [file |-> 0, diff |-> 0]
           Entry(i) == sum.reqmap[sum.diffed[i]]
           Upto(g, n) == g[0] = Zero /\ \A i \in 1..n : g[i] = AddCompared(g[i - 1], Entry(i))
           S == {n \in Nat : \E g : g = [i \in 0..n |-> g[i]] /\ Upto(g, n)}
<1>1. N \in Nat
  BY LenProperties DEF Tallies
<1> HIDE DEF Zero, Entry
<1>2. 0 \in S
  <2> DEFINE g == [i \in 0..0 |-> Zero]
  <2>1. g = [i \in 0..0 |-> g[i]] /\ Upto(g, 0)
    OBVIOUS
  <2> HIDE DEF g, Upto
  <2> QED
    BY <2>1
<1>3. ASSUME NEW n \in 1..N, n - 1 \in S PROVE n \in S
  <2>1. PICK g : Upto(g, n - 1)
    BY <1>3
  <2> DEFINE h == [i \in 0..n |-> IF i = n THEN AddCompared(g[n - 1], Entry(n)) ELSE g[i]]
  <2>2. h = [i \in 0..n |-> h[i]]
    OBVIOUS
  <2>3. n \in Nat /\ n > 0
    BY <1>1
  <2>4. \A i \in 0..n - 1 : h[i] = g[i]
    BY <2>3
  <2>5. h[n] = AddCompared(g[n - 1], Entry(n))
    BY <2>3
  <2> HIDE DEF h
  <2>6. ASSUME NEW i \in 1..n PROVE h[i] = AddCompared(h[i - 1], Entry(i))
    <3>1. i - 1 \in 0..n - 1
      BY <2>3
    <3>2. CASE i = n
      BY <2>4, <2>5, <3>1, <3>2
    <3>3. CASE i # n
      <4>1. i \in 1..n - 1 /\ i \in 0..n - 1
        BY <2>3, <3>3
      <4> QED
        BY <2>1, <2>4, <3>1, <4>1
    <3> QED
      BY <3>2, <3>3
  <2>7. h[0] = Zero
    <3>1. 0 \in 0..n - 1
      BY <2>3
    <3> QED
      BY <2>1, <2>4, <3>1
  <2>8. Upto(h, n)
    BY <2>6, <2>7
  <2> HIDE DEF Upto
  <2> QED
    BY <2>2, <2>3, <2>8
<1> HIDE DEF S, N
<1>4. 0..N \subseteq S
  BY <1>1, <1>2, <1>3, UpTo
<1>5. PICK g : g = [i \in 0..N |-> g[i]] /\ Upto(g, N)
  <2>1. N \in S
    BY <1>1, <1>4
  <2> QED
    BY <2>1 DEF S
<1>6. [i \in 0..N |-> g[i]] = Comparison(g, sum)
  <2>1. \A i \in 0..N : g[i] = IF i = 0 THEN Zero ELSE AddCompared(g[i - 1], Entry(i))
    <3>1. \A i \in 0..N : i = 0 \/ i \in 1..N
      BY <1>1
    <3> QED
      BY <1>5, <3>1
  <2> QED
    BY <2>1 DEF Comparison, N, Zero, Entry
<1> QED
  BY <1>5, <1>6

LEMMA ComparedIs ==
    ASSUME NEW sum \in Tallies
    PROVE  \E g : /\ g[0] = [file |-> 0, diff |-> 0] /\ Compared(sum) = g[Len(sum.diffed)]
                  /\ \A i \in 1..Len(sum.diffed) : g[i] = AddCompared(g[i - 1], sum.reqmap[sum.diffed[i]])
<1> DEFINE g == CHOOSE g : g = Comparison(g, sum)
<1>1. g = Comparison(g, sum)
  BY ComparisonExists
<1>2. Compared(sum) = g[Len(sum.diffed)]
  BY DEF Compared, Comparison
<1>3. Len(sum.diffed) \in Nat
  BY LenProperties DEF Tallies
<1> HIDE DEF g
<1>4. g[0] = [file |-> 0, diff |-> 0]
  BY <1>1, <1>3 DEF Comparison
<1>5. \A i \in 1..Len(sum.diffed) : g[i] = AddCompared(g[i - 1], sum.reqmap[sum.diffed[i]])
  BY <1>1, <1>3 DEF Comparison
<1> QED
  BY <1>2, <1>4, <1>5

\* The loop goes the same way through what is the same.
LEMMA ComparedPrefix ==
    ASSUME NEW s \in Tallies, NEW t \in Tallies, NEW n \in Nat, n = Len(s.diffed), n <= Len(t.diffed),
           \A k \in 1..n : t.diffed[k] = s.diffed[k] /\ t.reqmap[s.diffed[k]] = s.reqmap[s.diffed[k]]
    PROVE  \E h : /\ h[n] = Compared(s) /\ Compared(t) = h[Len(t.diffed)]
                  /\ \A i \in 1..Len(t.diffed) : h[i] = AddCompared(h[i - 1], t.reqmap[t.diffed[i]])
<1>1. PICK g : /\ g[0] = [file |-> 0, diff |-> 0] /\ Compared(s) = g[n]
               /\ \A i \in 1..n : g[i] = AddCompared(g[i - 1], s.reqmap[s.diffed[i]])
  BY ComparedIs
<1>2. PICK h : /\ h[0] = [file |-> 0, diff |-> 0] /\ Compared(t) = h[Len(t.diffed)]
               /\ \A i \in 1..Len(t.diffed) : h[i] = AddCompared(h[i - 1], t.reqmap[t.diffed[i]])
  BY ComparedIs
<1>3. Len(t.diffed) \in Nat
  BY LenProperties DEF Tallies
<1> DEFINE S == {i \in 0..n : g[i] = h[i]}
<1>4. 0 \in S
  BY <1>1, <1>2
<1>5. ASSUME NEW i \in 1..n, i - 1 \in S PROVE i \in S
  <2>1. i \in 1..Len(t.diffed) /\ t.reqmap[t.diffed[i]] = s.reqmap[s.diffed[i]] /\ g[i - 1] = h[i - 1]
    BY <1>3, <1>5
  <2>2. g[i] = AddCompared(g[i - 1], s.reqmap[s.diffed[i]])
    BY <1>1
  <2>3. h[i] = AddCompared(h[i - 1], t.reqmap[t.diffed[i]])
    BY <1>2, <2>1
  <2>4. g[i] = h[i]
    BY <2>1, <2>2, <2>3
  <2> QED
    BY <2>4
<1> HIDE DEF S
<1>6. 0..n \subseteq S
  BY <1>4, <1>5, UpTo
<1>7. g[n] = h[n]
  BY <1>6 DEF S
<1> QED
  BY <1>1, <1>2, <1>7

LEMMA ComparedSame ==
    ASSUME NEW s \in Tallies, NEW t \in Tallies, t.diffed = s.diffed,
           \A k \in 1..Len(s.diffed) : t.reqmap[s.diffed[k]] = s.reqmap[s.diffed[k]]
    PROVE  Compared(t) = Compared(s)
<1>1. PICK n \in Nat : n = Len(s.diffed)
  BY LenProperties DEF Tallies
<1>2. PICK h : h[n] = Compared(s) /\ Compared(t) = h[Len(t.diffed)]
  BY <1>1, ComparedPrefix
<1> QED
  BY <1>1, <1>2

\* One delta more.
LEMMA ComparedMore ==
    ASSUME NEW s \in Tallies, NEW t \in Tallies, NEW id \in Nat, t.diffed = Append(s.diffed, id),
           \A k \in 1..Len(s.diffed) : t.reqmap[s.diffed[k]] = s.reqmap[s.diffed[k]]
    PROVE  Compared(t) = AddCompared(Compared(s), t.reqmap[id])
<1>1. PICK q \in Seq(Nat) : q = s.diffed
  BY DEF Tallies
<1>2. PICK n \in Nat : n = Len(q)
  BY LenProperties
<1>3. PICK d : d = t.diffed
  OBVIOUS
<1>4. Len(d) = n + 1 /\ d[n + 1] = id /\ \A k \in 1..n : d[k] = q[k]
  BY <1>1, <1>2, <1>3, AppendProperties
<1>5. PICK h : /\ h[n] = Compared(s) /\ Compared(t) = h[n + 1]
               /\ \A i \in 1..n + 1 : h[i] = AddCompared(h[i - 1], t.reqmap[d[i]])
  <2>1. n = Len(s.diffed) /\ n <= Len(t.diffed)
    BY <1>1, <1>2, <1>3, <1>4
  <2>2. \A k \in 1..n : t.diffed[k] = s.diffed[k] /\ t.reqmap[s.diffed[k]] = s.reqmap[s.diffed[k]]
    BY <1>1, <1>2, <1>3, <1>4
  <2>3. PICK h : /\ h[n] = Compared(s) /\ Compared(t) = h[Len(t.diffed)]
                 /\ \A i \in 1..Len(t.diffed) : h[i] = AddCompared(h[i - 1], t.reqmap[t.diffed[i]])
    BY <2>1, <2>2, ComparedPrefix
  <2> QED
    BY <1>3, <1>4, <2>3
<1>6. n + 1 \in 1..n + 1 /\ (n + 1) - 1 = n
  OBVIOUS
<1> QED
  BY <1>4, <1>5, <1>6

LEMMA ComparedType ==
    ASSUME NEW s \in Tallies, \A k \in 1..Len(s.diffed) : s.diffed[k] \in DOMAIN s.reqmap
    PROVE  Compared(s) \in [file : Nat, diff : Nat]
<1>1. PICK n \in Nat : n = Len(s.diffed)
  BY LenProperties DEF Tallies
<1>2. PICK g : /\ g[0] = [file |-> 0, diff |-> 0] /\ Compared(s) = g[n]
               /\ \A i \in 1..n : g[i] = AddCompared(g[i - 1], s.reqmap[s.diffed[i]])
  BY <1>1, ComparedIs
<1> DEFINE S == {i \in 0..n : g[i] \in [file : Nat, diff : Nat]}
<1>3. 0 \in S
  BY <1>2
<1>4. ASSUME NEW i \in 1..n, i - 1 \in S PROVE i \in S
  <2>1. PICK a \in [file : Nat, diff : Nat] : a = g[i - 1]
    BY <1>4
  <2>2. PICK b \in [file : Nat, diff : Nat] : b = s.reqmap[s.diffed[i]]
    <3>1. s.reqmap \in [DOMAIN s.reqmap -> [file : Nat, diff : Nat]]
      BY ReqMapIs DEF Tallies
    <3> QED
      BY <1>1, <3>1
  <2>3. AddCompared(a, b) \in [file : Nat, diff : Nat]
    BY DEF AddCompared
  <2>4. g[i] = AddCompared(a, b)
    BY <1>2, <2>1, <2>2
  <2> QED
    BY <2>3, <2>4
<1> HIDE DEF S
<1>5. 0..n \subseteq S
  BY <1>3, <1>4, UpTo
<1> QED
  BY <1>2, <1>5 DEF S

\* The size of the files of some records, and of one more.
LEMMA FilesSame ==
    ASSUME NEW l, NEW m, NEW S, \A i \in S : m[i] = l[i]
    PROVE  FilesOf(m, S) = FilesOf(l, S)
<1>1. {{i} \X (1..m[i].file) : i \in S} = {{i} \X (1..l[i].file) : i \in S}
  OBVIOUS
<1> QED
  BY <1>1 DEF FilesOf

LEMMA FilesMore ==
    ASSUME NEW l, NEW S, IsFiniteSet(S), \A i \in S : l[i].file \in Nat,
           NEW j, j \notin S, l[j].file \in Nat
    PROVE  FilesOf(l, S) \in Nat /\ FilesOf(l, S \cup {j}) = FilesOf(l, S) + l[j].file
<1> DEFINE F(i) == {i} \X (1..l[i].file)
           T == {F(i) : i \in S}
           f == [i \in S |-> F(i)]
<1>1. ASSUME NEW i \in S PROVE IsFiniteSet(F(i))
  <2>1. PICK k \in Nat : k = l[i].file
    OBVIOUS
  <2>2. \A b : <<i, b>> \notin {}
    OBVIOUS
  <2>3. IsFiniteSet({} \cup ({i} \X (1..k)))
    BY <2>2, PartAdded, FS_EmptySet
  <2>4. {} \cup ({i} \X (1..k)) = F(i)
    BY <2>1
  <2> QED
    BY <2>3, <2>4
<1>2. f \in Surjection(S, T)
  BY DEF Surjection
<1>3. IsFiniteSet(T)
  BY <1>2, FS_Surjection
<1>4. \A t \in T : IsFiniteSet(t)
  BY <1>1
<1> HIDE DEF T
<1>5. IsFiniteSet(UNION T)
  BY <1>3, <1>4, FS_UNION
<1>6. PICK U : U = UNION T
  OBVIOUS
<1>7. PICK k \in Nat : k = l[j].file
  OBVIOUS
<1>8. \A b : <<j, b>> \notin U
  BY <1>6 DEF T
<1>9. Cardinality(U \cup ({j} \X (1..k))) = Cardinality(U) + k
  BY <1>5, <1>6, <1>8, PartAdded
<1>10. UNION {F(i) : i \in S \cup {j}} = U \cup ({j} \X (1..k))
  BY <1>6, <1>7 DEF T
<1>11. FilesOf(l, S \cup {j}) = Cardinality(U \cup ({j} \X (1..k)))
  BY <1>10 DEF FilesOf
<1>12. FilesOf(l, S) = Cardinality(U) /\ Cardinality(U) \in Nat
  BY <1>5, <1>6, FS_CardinalityType DEF FilesOf, T
<1> QED
  BY <1>7, <1>9, <1>11, <1>12
-----------------------------------------------------------------------------
(* The totals of the log, with one record more *)

LEMMA UndiffedIs ==
    ASSUME RecordedInv
    PROVE  /\ IsFiniteSet(Undiffed) /\ Undiffed \subseteq 1..Len(log)
           /\ \A i \in Undiffed : log[i].kind = "R" /\ log[i].file \in Nat
<1>1. Len(log) \in Nat /\ \A i \in 1..Len(log) : log[i] \in Record
  BY LenProperties, ElementOfSeq DEF RecordedInv
<1>2. IsFiniteSet(1..Len(log))
  BY <1>1, FS_Interval
<1>3. Undiffed \subseteq 1..Len(log) /\ \A i \in Undiffed : log[i].kind = "R"
  BY DEF Undiffed
<1>4. \A i \in Undiffed : log[i].file \in Nat
  BY <1>1, <1>3 DEF Record
<1> QED
  BY <1>2, <1>3, <1>4, FS_Subset

\* What is diffed has the record of a request.
LEMMA DiffedIs ==
    ASSUME RecordedInv
    PROVE  /\ Sum \in Tallies /\ LogInv /\ Len(Sum.diffed) \in Nat
           /\ \A k \in 1..Len(Sum.diffed) : Sum.diffed[k] \in DOMAIN Sum.reqmap
           /\ Compared(Sum).diff \in Nat
<1>1. Sum \in Tallies /\ LogInv
  BY DEF RecordedInv
<1>2. \A k \in 1..Len(Sum.diffed) : Sum.diffed[k] \in DOMAIN Sum.reqmap
  BY <1>1 DEF LogInv
<1>3. Compared(Sum) \in [file : Nat, diff : Nat]
  BY <1>1, <1>2, ComparedType
<1> QED
  BY <1>1, <1>2, <1>3, LenProperties DEF Tallies

\* A request more: its file is counted, unless it was found identical.
LEMMA RequestTotals ==
    ASSUME RecordedInv, SimTotals, NEW id \in Nat, id \notin DOMAIN Sum.reqmap,
           NEW n \in Nar, NEW file \in Nat, NEW failed \in Failed,
           log' = Append(log, RRecord(id, n, file, failed))
    PROVE  SimTotals'
<1>1. RecordedInv' /\ RequestCounted(id, file, failed)
  BY RequestLogged
<1>2. PICK r \in Record : r = RRecord(id, n, file, failed)
  BY DEF RRecord, Record
<1>3. r.kind = "R" /\ r.id = id /\ r.file = file /\ r.failed = failed
  BY <1>2 DEF RRecord
<1>4. PICK j : j = Len(log) + 1
  OBVIOUS
<1>5. /\ Len(log) \in Nat /\ log'[j] = r
      /\ \A i \in 1..Len(log) : log'[i] = log[i]
      /\ 1..Len(log') = 1..Len(log) \cup {j}
  BY <1>2, <1>4, LogAppend DEF RecordedInv
<1>6. /\ Sum \in Tallies /\ Sum' \in Tallies /\ Len(Sum.diffed) \in Nat
      /\ \A k \in 1..Len(Sum.diffed) : Sum.diffed[k] \in DOMAIN Sum.reqmap
      /\ Compared(Sum).diff \in Nat
  BY <1>1, DiffedIs DEF RecordedInv
<1>7. /\ Sum'.diffed = Sum.diffed
      /\ \A k \in 1..Len(Sum.diffed) : Sum'.reqmap[Sum.diffed[k]] = Sum.reqmap[Sum.diffed[k]]
      /\ Sum'.tActual = Sum.tActual + (IF failed = "identical" THEN 0 ELSE file)
  BY <1>1, <1>6 DEF RequestCounted
<1>8. Compared(Sum') = Compared(Sum)
  BY <1>6, <1>7, ComparedSame
<1>9. /\ IsFiniteSet(Undiffed) /\ Undiffed \subseteq 1..Len(log)
      /\ \A i \in Undiffed : log[i].file \in Nat
  BY UndiffedIs
<1>10. PICK S : S = Undiffed
  OBVIOUS
<1>11. IsFiniteSet(S) /\ j \notin S /\ \A i \in S : log'[i] = log[i] /\ log'[i].file \in Nat
  BY <1>4, <1>5, <1>9, <1>10
<1>12. PICK l : l = log'
  OBVIOUS
<1>13. FilesOf(l, S) = FilesOf(log, S)
  BY <1>11, <1>12, FilesSame
<1>14. FilesOf(l, S) \in Nat /\ FilesOf(l, S \cup {j}) = FilesOf(l, S) + file
  <2>1. l[j].file = file /\ l[j].file \in Nat /\ \A i \in S : l[i].file \in Nat
    BY <1>3, <1>5, <1>11, <1>12
  <2> QED
    BY <1>11, <2>1, FilesMore
<1>15. Undiffed' = IF failed = "identical" THEN S ELSE S \cup {j}
  <2>1. \A k \in 1..Len(Sum.diffed) : Sum.diffed[k] # id
    BY <1>6
  <2>2. \A i \in 1..Len(log) : i \in Undiffed' <=> i \in S
    BY <1>5, <1>7, <1>10 DEF Undiffed
  <2>3. j \in Undiffed' <=> failed # "identical"
    BY <1>3, <1>5, <1>7, <2>1 DEF Undiffed
  <2>4. Undiffed' \subseteq 1..Len(log) \cup {j} /\ S \subseteq 1..Len(log)
    BY <1>5, <1>9, <1>10 DEF Undiffed
  <2>5. \A i : i \in Undiffed' <=> i \in S \/ (i = j /\ failed # "identical")
    BY <1>11, <2>2, <2>3, <2>4, Zenon
  <2>6. CASE failed = "identical"
    BY <2>5, <2>6
  <2>7. CASE failed # "identical"
    BY <2>5, <2>7
  <2> QED
    BY <2>6, <2>7
<1>16. Sum.tActual = Compared(Sum).diff + FilesOf(log, S)
  BY <1>10 DEF SimTotals
<1>17. FilesOf(log', Undiffed') = FilesOf(l, S) + (IF failed = "identical" THEN 0 ELSE file)
  <2>1. CASE failed = "identical"
    BY <1>12, <1>14, <1>15, <2>1
  <2>2. CASE failed # "identical"
    BY <1>12, <1>14, <1>15, <2>2
  <2> QED
    BY <2>1, <2>2
<1>18. PICK f \in Nat : f = IF failed = "identical" THEN 0 ELSE file
  OBVIOUS
<1>19. Sum'.tActual = Compared(Sum').diff + FilesOf(log', Undiffed')
  <2>1. PICK a \in Nat : a = Compared(Sum).diff
    BY <1>6
  <2>2. PICK b \in Nat : b = FilesOf(log, S)
    BY <1>13, <1>14
  <2>3. Sum'.tActual = (a + b) + f /\ Compared(Sum').diff = a /\ FilesOf(log', Undiffed') = b + f
    BY <1>7, <1>8, <1>13, <1>16, <1>17, <1>18, <2>1, <2>2
  <2> QED
    BY <2>3
<1> QED
  BY <1>19 DEF SimTotals

\* A delta more: it is counted, and the file of its request no longer.
LEMMA DeltaTotals ==
    ASSUME RecordedInv, SimTotals, NEW id \in DOMAIN Sum.reqmap, NEW m, Good(id, m),
           \A k \in 1..Len(Sum.diffed) : Sum.diffed[k] # id,
           id \in Nat, NEW n \in Nar, NEW diff \in Nat, log' = Append(log, DRecord(id, n, diff))
    PROVE  SimTotals'
<1>1. RecordedInv' /\ DeltaCounted(id, diff)
  BY DeltaLogged
<1>2. PICK r \in Record : r = DRecord(id, n, diff)
  BY DEF DRecord, Record
<1>3. r.kind = "D"
  BY <1>2 DEF DRecord
<1>4. /\ Len(log) \in Nat /\ log'[Len(log) + 1] = r
      /\ \A i \in 1..Len(log) : log'[i] = log[i]
      /\ 1..Len(log') = 1..Len(log) \cup {Len(log) + 1}
  BY <1>2, LogAppend DEF RecordedInv
<1>5. /\ Sum \in Tallies /\ Sum' \in Tallies /\ Len(Sum.diffed) \in Nat /\ LogInv
      /\ \A k \in 1..Len(Sum.diffed) : Sum.diffed[k] \in DOMAIN Sum.reqmap
      /\ Compared(Sum).diff \in Nat
  BY <1>1, DiffedIs DEF RecordedInv
<1>6. /\ Sum'.diffed = Append(Sum.diffed, id) /\ Sum'.reqmap[id].diff = diff
      /\ \A k \in 1..Len(Sum.diffed) : Sum'.reqmap[Sum.diffed[k]] = Sum.reqmap[Sum.diffed[k]]
      /\ Sum'.tActual = Sum.tActual - Sum.reqmap[id].file + diff
  BY <1>1, <1>5 DEF DeltaCounted
<1>7. Compared(Sum').diff = Compared(Sum).diff + diff
  <2>1. Compared(Sum') = AddCompared(Compared(Sum), Sum'.reqmap[id])
    BY <1>5, <1>6, ComparedMore
  <2>2. CASE diff = 0
    BY <1>5, <1>6, <2>1, <2>2 DEF AddCompared
  <2>3. CASE diff # 0
    BY <1>6, <2>1, <2>3 DEF AddCompared
  <2> QED
    BY <2>2, <2>3
\* The record of the request is no longer among those that are not diffed.
<1>8. PICK j \in 1..Len(log) : log[j].kind = "R" /\ log[j].id = id
  BY <1>5 DEF LogInv, RequestOf
<1>9. /\ log[j].file = Sum.reqmap[id].file /\ log[j].failed = ""
      /\ \A i \in 1..Len(log) : log[i].kind = "R" /\ log[i].id = id => i = j
  BY <1>5, <1>8 DEF LogInv, Good, RequestOf
<1>10. PICK S : S = Undiffed'
  OBVIOUS
<1>11. \A i \in 1..Len(log) : i \in S <=> i \in Undiffed /\ log[i].id # id
  <2>1. PICK q \in Seq(Nat) : q = Sum.diffed
    BY <1>5 DEF Tallies
  <2>2. PICK s : s = Append(q, id)
    OBVIOUS
  <2>3. Len(q) \in Nat /\ Len(s) = Len(q) + 1 /\ s[Len(q) + 1] = id /\ \A k \in 1..Len(q) : s[k] = q[k]
    BY <2>1, <2>2, LenProperties, AppendProperties
  <2>4. \A k : k \in 1..Len(s) <=> k \in 1..Len(q) \/ k = Len(q) + 1
    BY <2>3
  <2>5. \A x : (\A k \in 1..Len(s) : s[k] # x) <=> (\A k \in 1..Len(q) : q[k] # x) /\ x # id
    BY <2>3, <2>4
  <2>6. s = Sum'.diffed
    BY <1>6, <2>1, <2>2
  <2>7. \A i \in 1..Len(log) : i \in Undiffed' <=>
            /\ log[i].kind = "R" /\ log[i].failed # "identical"
            /\ \A k \in 1..Len(s) : s[k] # log[i].id
    BY <1>4, <2>6 DEF Undiffed
  <2>8. \A i \in 1..Len(log) : i \in Undiffed <=>
            /\ log[i].kind = "R" /\ log[i].failed # "identical"
            /\ \A k \in 1..Len(q) : q[k] # log[i].id
    BY <2>1 DEF Undiffed
  <2> QED
    BY <1>10, <2>5, <2>7, <2>8
<1>12. S \subseteq 1..Len(log)
  BY <1>3, <1>4, <1>10 DEF Undiffed
<1>13. j \in Undiffed /\ Undiffed \subseteq 1..Len(log) /\ \A i \in Undiffed : log[i].kind = "R"
  BY <1>8, <1>9 DEF Undiffed
<1>14. j \notin S /\ Undiffed = S \cup {j}
  BY <1>8, <1>9, <1>11, <1>12, <1>13
<1>15. IsFiniteSet(S) /\ log[j].file \in Nat /\ \A i \in S : log[i].file \in Nat
  <2>1. IsFiniteSet(Undiffed) /\ \A i \in Undiffed : log[i].file \in Nat
    BY UndiffedIs
  <2>2. S \subseteq Undiffed
    BY <1>14
  <2> QED
    BY <1>13, <2>1, <2>2, FS_Subset
<1>16. FilesOf(log, S) \in Nat /\ FilesOf(log, Undiffed) = FilesOf(log, S) + log[j].file
  BY <1>14, <1>15, FilesMore
<1>17. FilesOf(log', S) = FilesOf(log, S)
  <2>1. PICK l : l = log'
    OBVIOUS
  <2>2. \A i \in S : l[i] = log[i]
    BY <1>4, <1>12, <2>1
  <2>3. FilesOf(l, S) = FilesOf(log, S)
    BY <2>2, FilesSame
  <2> QED
    BY <2>1, <2>3
<1>18. PICK a \in Nat : a = Compared(Sum).diff
  BY <1>5
<1>19. PICK b \in Nat : b = FilesOf(log, S)
  BY <1>16
<1>20. PICK f \in Nat : f = log[j].file
  BY <1>15
<1>21. Sum.tActual = a + (b + f)
  BY <1>16, <1>18, <1>19, <1>20 DEF SimTotals
<1>22. Sum'.tActual = Sum.tActual - f + diff /\ Compared(Sum').diff = a + diff /\ FilesOf(log', Undiffed') = b
  BY <1>6, <1>7, <1>9, <1>10, <1>17, <1>18, <1>19, <1>20
<1> QED
  BY <1>21, <1>22 DEF SimTotals
-----------------------------------------------------------------------------
(* The lines of a simulation *)

\* A line goes from one place to another.
LEMMA LineMoved ==
    ASSUME at \in [Conn -> {"free", "start", "sem", "info", "put", "nar", "done"}],
           NEW c \in Conn, NEW place, at' = [at EXCEPT ![c] = place], place # at[c], NEW q
    PROVE  /\ Cardinality(In({q})) \in Nat /\ Cardinality(In({q})') \in Nat
           /\ q = place => Cardinality(In({q})') = Cardinality(In({q})) + 1
           /\ q = at[c] => Cardinality(In({q})) = Cardinality(In({q})') + 1
           /\ q \notin {place, at[c]} => Cardinality(In({q})') = Cardinality(In({q}))
<1>1. PICK S : S = In({q})
  OBVIOUS
<1>2. PICK T : T = In({q})'
  OBVIOUS
<1>3. S \subseteq Conn /\ T \subseteq Conn
  BY <1>1, <1>2 DEF In
<1>4. IsFiniteSet(S) /\ IsFiniteSet(T) /\ Cardinality(S) \in Nat /\ Cardinality(T) \in Nat
  BY <1>3, FS_Subset, FS_CardinalityType, RequestsAssumption
<1>5. \A d \in Conn \ {c} : d \in S <=> d \in T
  BY <1>1, <1>2 DEF In
<1>6. (c \in S <=> q = at[c]) /\ (c \in T <=> q = place)
  BY <1>1, <1>2 DEF In
<1>7. CASE q = place
  <2>1. c \notin S /\ T = S \cup {c}
    BY <1>3, <1>5, <1>6, <1>7
  <2>2. Cardinality(T) = Cardinality(S) + 1
    BY <1>4, <2>1, FS_AddElement
  <2> QED
    BY <1>1, <1>2, <1>4, <1>7, <2>2
<1>8. CASE q = at[c]
  <2>1. c \notin T /\ S = T \cup {c}
    BY <1>3, <1>5, <1>6, <1>8
  <2>2. Cardinality(S) = Cardinality(T) + 1
    BY <1>4, <2>1, FS_AddElement
  <2> QED
    BY <1>1, <1>2, <1>4, <1>8, <2>2
<1>9. CASE q # place /\ q # at[c]
  <2>1. S = T
    BY <1>3, <1>5, <1>6, <1>9
  <2> QED
    BY <1>1, <1>2, <1>4, <1>9, <2>1
<1> QED
  BY <1>7, <1>8, <1>9

\* A request recorded is one more.
LEMMA RequestedMore ==
    ASSUME Sum.fmap \in [Failed -> Nat], NEW id, NEW file, NEW failed \in Failed,
           RequestCounted(id, file, failed)
    PROVE  /\ Requested(Sum) \in Nat /\ Requested(Sum') = Requested(Sum) + 1
           /\ Sum.fmap[""] \in Nat
           /\ Sum'.fmap[""] = IF failed = "" THEN Sum.fmap[""] + 1 ELSE Sum.fmap[""]
<1>1. PICK f \in [Failed -> Nat] : f = Sum.fmap
  OBVIOUS
<1>2. PICK g : g = Sum'.fmap
  OBVIOUS
<1>3. \A x \in Failed : g[x] = IF x = failed THEN f[x] + 1 ELSE f[x]
  BY <1>1, <1>2 DEF RequestCounted
<1>4. PICK a \in Nat, b \in Nat, d \in Nat, e \in Nat, h \in Nat, k \in Nat :
          /\ a = f[""] /\ b = f["notfound"] /\ d = f["toosmall"] /\ e = f["toobig"]
          /\ h = f["nobase"] /\ k = f["identical"]
  BY DEF Failed
<1>5. Requested(Sum) = a + b + d + e + h + k
  BY <1>1, <1>4 DEF Requested
<1>6. Requested(Sum') = g[""] + g["notfound"] + g["toosmall"] + g["toobig"] + g["nobase"] + g["identical"]
  BY <1>2 DEF Requested
<1>7. /\ g[""] = IF failed = "" THEN a + 1 ELSE a
      /\ g["notfound"] = IF failed = "notfound" THEN b + 1 ELSE b
      /\ g["toosmall"] = IF failed = "toosmall" THEN d + 1 ELSE d
      /\ g["toobig"] = IF failed = "toobig" THEN e + 1 ELSE e
      /\ g["nobase"] = IF failed = "nobase" THEN h + 1 ELSE h
      /\ g["identical"] = IF failed = "identical" THEN k + 1 ELSE k
  <2>1. {"", "notfound", "toosmall", "toobig", "nobase", "identical"} = Failed
    BY DEF Failed
  <2> QED
    BY <1>3, <1>4, <2>1
<1>8. Requested(Sum') = a + b + d + e + h + k + 1
  <2>1. failed \in {"", "notfound", "toosmall", "toobig", "nobase", "identical"}
    BY DEF Failed
  <2>2. CASE failed = ""
    <3>1. Requested(Sum') = (a + 1) + b + d + e + h + k
      BY <1>6, <1>7, <2>2
    <3> QED
      BY <3>1
  <2>3. CASE failed = "notfound"
    <3>1. Requested(Sum') = a + (b + 1) + d + e + h + k
      BY <1>6, <1>7, <2>3
    <3> QED
      BY <3>1
  <2>4. CASE failed = "toosmall"
    <3>1. Requested(Sum') = a + b + (d + 1) + e + h + k
      BY <1>6, <1>7, <2>4
    <3> QED
      BY <3>1
  <2>5. CASE failed = "toobig"
    <3>1. Requested(Sum') = a + b + d + (e + 1) + h + k
      BY <1>6, <1>7, <2>5
    <3> QED
      BY <3>1
  <2>6. CASE failed = "nobase"
    <3>1. Requested(Sum') = a + b + d + e + (h + 1) + k
      BY <1>6, <1>7, <2>6
    <3> QED
      BY <3>1
  <2>7. CASE failed = "identical"
    <3>1. Requested(Sum') = a + b + d + e + h + (k + 1)
      BY <1>6, <1>7, <2>7
    <3> QED
      BY <3>1
  <2> QED
    BY <2>1, <2>2, <2>3, <2>4, <2>5, <2>6, <2>7
<1>9. Sum.fmap[""] = a /\ Sum'.fmap[""] = IF failed = "" THEN a + 1 ELSE a
  BY <1>1, <1>2, <1>4, <1>7
<1>10. a + b + d + e + h + k \in Nat
  OBVIOUS
<1> QED
  BY <1>5, <1>8, <1>9, <1>10

\* A line of a simulation is over, diffed or as an error.
LEMMA LineOver ==
    ASSUME RequestTypes, CountInv, mode = "sim", NEW c \in Conn, at[c] # "done"
    PROVE  /\ End(c, TRUE) => success' = success + 1 /\ errors' = errors
           /\ End(c, FALSE) => success' = success /\ errors' = errors + 1
           /\ \A ok : End(c, ok) =>
                  /\ at' = [at EXCEPT ![c] = "done"]
                  /\ Cardinality(In({"done"})) \in Nat /\ Cardinality(In({"nar"})) \in Nat
                  /\ Cardinality(In({"done"})') = Cardinality(In({"done"})) + 1
                  /\ Cardinality(In({"nar"})) =
                         IF at[c] = "nar" THEN Cardinality(In({"nar"})') + 1 ELSE Cardinality(In({"nar"})')
                  /\ Cardinality(In({"nar"})') \in Nat
<1>1. PICK s \in Nat, e \in Nat : s = success /\ e = errors
  BY DEF CountInv
<1>2. End(c, TRUE) => success' = success + 1 /\ errors' = errors
  BY <1>1 DEF End
<1>3. End(c, FALSE) => success' = success /\ errors' = errors + 1
  BY <1>1 DEF End
<1>4. ASSUME NEW ok, End(c, ok)
      PROVE  /\ at' = [at EXCEPT ![c] = "done"]
             /\ Cardinality(In({"done"})) \in Nat /\ Cardinality(In({"nar"})) \in Nat
             /\ Cardinality(In({"done"})') = Cardinality(In({"done"})) + 1
             /\ Cardinality(In({"nar"})) =
                    IF at[c] = "nar" THEN Cardinality(In({"nar"})') + 1 ELSE Cardinality(In({"nar"})')
             /\ Cardinality(In({"nar"})') \in Nat
  <2>1. at' = [at EXCEPT ![c] = "done"]
    BY <1>4 DEF End
  <2>2. /\ Cardinality(In({"done"})) \in Nat /\ Cardinality(In({"done"})') \in Nat
        /\ Cardinality(In({"done"})') = Cardinality(In({"done"})) + 1
    BY <2>1, LineMoved DEF RequestTypes
  <2>3. /\ Cardinality(In({"nar"})) \in Nat /\ Cardinality(In({"nar"})') \in Nat
        /\ at[c] = "nar" => Cardinality(In({"nar"})) = Cardinality(In({"nar"})') + 1
        /\ at[c] # "nar" => Cardinality(In({"nar"})) = Cardinality(In({"nar"})')
    <3>1. PICK q : q = "nar" /\ q # "done"
      OBVIOUS
    <3>2. /\ Cardinality(In({q})) \in Nat /\ Cardinality(In({q})') \in Nat
          /\ q = at[c] => Cardinality(In({q})) = Cardinality(In({q})') + 1
          /\ q \notin {"done", at[c]} => Cardinality(In({q})') = Cardinality(In({q}))
      BY <2>1, LineMoved DEF RequestTypes
    <3> QED
      BY <3>1, <3>2
  <2> QED
    BY <2>1, <2>2, <2>3
<1> QED
  BY <1>2, <1>3, <1>4

\* The numbers of a simulation are of their types.
LEMMA SimTypes ==
    ASSUME IInv, RecordedInv, CountInv
    PROVE  /\ Sum.fmap \in [Failed -> Nat] /\ Sum.fmap[""] \in Nat /\ Requested(Sum) \in Nat
           /\ Sum.missing \in Nat /\ Len(Sum.diffed) \in Nat
           /\ success \in Nat /\ errors \in Nat
           /\ Cardinality(In({"nar"})) \in Nat /\ Cardinality(In({"done"})) \in Nat
<1>1. Sum.fmap \in [Failed -> Nat] /\ Sum.missing \in Nat /\ Len(Sum.diffed) \in Nat
  BY LenProperties DEF RecordedInv, Tallies
<1>2. PICK f \in [Failed -> Nat] : f = Sum.fmap
  BY <1>1
<1>3. PICK a \in Nat, b \in Nat, d \in Nat, e \in Nat, h \in Nat, k \in Nat :
          /\ a = f[""] /\ b = f["notfound"] /\ d = f["toosmall"] /\ e = f["toobig"]
          /\ h = f["nobase"] /\ k = f["identical"]
  BY DEF Failed
<1>4. Requested(Sum) = a + b + d + e + h + k /\ Sum.fmap[""] = a
  BY <1>2, <1>3 DEF Requested
<1>5. Requested(Sum) \in Nat
  <2>1. a + b + d + e + h + k \in Nat
    OBVIOUS
  <2> QED
    BY <1>4, <2>1
<1>6. In({"nar"}) \subseteq Conn /\ In({"done"}) \subseteq Conn
  BY DEF In
<1>7. Cardinality(In({"nar"})) \in Nat /\ Cardinality(In({"done"})) \in Nat
  BY <1>6, FS_Subset, FS_CardinalityType, RequestsAssumption
<1> QED
  BY <1>1, <1>4, <1>5, <1>7 DEF CountInv
-----------------------------------------------------------------------------
(* Each step keeps what a simulation has counted. *)

\* Nothing is recorded, and no line begins or ends a nar.
LEMMA SimSame ==
    ASSUME IInv, SimCounted, SimNars, SimTotals, UNCHANGED <<log, success, errors>>,
           \A d \in Conn : /\ at'[d] = "nar" <=> at[d] = "nar"
                           /\ at'[d] = "done" <=> at[d] = "done"
                           /\ at[d] = "nar" => mine'[d] = mine[d]
    PROVE  SimCounted' /\ SimNars' /\ SimTotals'
<1>1. Sum' = Sum
  BY SumSame
<1>2. In({"nar"})' = In({"nar"}) /\ In({"done"})' = In({"done"})
  BY DEF In
<1>3. SimCounted'
  BY <1>1, <1>2 DEF SimCounted
<1>4. SimNars'
  BY <1>1 DEF SimNars
<1>5. Undiffed' = Undiffed
  BY <1>1 DEF Undiffed
<1>6. SimTotals'
  BY <1>1, <1>5 DEF SimTotals
<1> QED
  BY <1>3, <1>4, <1>6

\* A line ends without a record: it could not be asked for, or its nar not made.
LEMMA FailsSim ==
    ASSUME IInv, RecordedInv, CountInv, SimCounted, SimNars, SimTotals, mode = "sim",
           NEW c \in Conn, at[c] # "done", End(c, FALSE), UNCHANGED <<log, mine>>
    PROVE  SimCounted' /\ SimNars' /\ SimTotals'
<1>1. Sum' = Sum
  BY SumSame
<1>2. RequestTypes
  BY DEF IInv
<1>3. /\ success' = success /\ errors' = errors + 1
      /\ at' = [at EXCEPT ![c] = "done"]
      /\ Cardinality(In({"done"})') = Cardinality(In({"done"})) + 1
      /\ Cardinality(In({"nar"})) =
             IF at[c] = "nar" THEN Cardinality(In({"nar"})') + 1 ELSE Cardinality(In({"nar"})')
      /\ Cardinality(In({"nar"})') \in Nat
  BY <1>2, LineOver
<1>4. SimCounted'
  <2>1. PICK n \in Nat, m \in Nat, d \in Nat :
            /\ n = Cardinality(In({"nar"})) /\ m = Cardinality(In({"nar"})') /\ d = Cardinality(In({"done"}))
    BY <1>3, SimTypes
  <2>2. n = IF at[c] = "nar" THEN m + 1 ELSE m
    BY <1>3, <2>1
  <2>3. m <= n /\ n <= m + 1
    BY <2>2
  <2>4. /\ success + errors = d /\ success = Len(Sum.diffed) /\ Sum.missing = 0
        /\ success + n <= Sum.fmap[""] /\ Requested(Sum) <= n + d
    BY <2>1 DEF SimCounted
  <2>5. success' + errors' = d + 1 /\ success + m <= Sum.fmap[""] /\ Requested(Sum) <= m + (d + 1)
    <3>1. PICK s \in Nat, e \in Nat, f \in Nat, q \in Nat :
              s = success /\ e = errors /\ f = Sum.fmap[""] /\ q = Requested(Sum)
      BY SimTypes
    <3>2. s + e = d /\ s + n <= f /\ q <= n + d /\ success' = s /\ errors' = e + 1
      BY <1>3, <2>4, <3>1
    <3>3. s + (e + 1) = d + 1 /\ s + m <= f /\ q <= m + (d + 1)
      BY <2>3, <3>2
    <3> QED
      BY <3>1, <3>2, <3>3
  <2>6. Cardinality(In({"done"})') = d + 1
    BY <1>3, <2>1
  <2> QED
    BY <1>1, <1>3, <2>1, <2>4, <2>5, <2>6 DEF SimCounted
<1>5. SimNars'
  <2>1. \A d \in Conn : at'[d] = "nar" => at[d] = "nar"
    BY <1>2, <1>3 DEF RequestTypes
  <2> QED
    BY <1>1, <2>1 DEF SimNars
<1>6. Undiffed' = Undiffed
  BY <1>1 DEF Undiffed
<1>7. SimTotals'
  BY <1>1, <1>6 DEF SimTotals
<1> QED
  BY <1>4, <1>5, <1>7

\* A request is recorded by its failure, and its line is over.
LEMMA RefuseSim ==
    ASSUME IInv, RecordedInv, IdInv, CountInv, SimCounted, SimNars, SimTotals, mode = "sim",
           NEW c \in Conn, Refuse(c)
    PROVE  SimCounted' /\ SimNars' /\ SimTotals'
<1>0. RequestTypes
  BY DEF IInv
<1>1. PICK file \in Nat, failed \in Failed :
          /\ failed # ""
          /\ log' = Append(log, RRecord(mine[c].id, ask[c].nar, file, failed))
  BY RefuseRecords
<1>2. PICK id \in Nat, n \in Nar : id = mine[c].id /\ n = ask[c].nar
  BY <1>0, Parameters DEF RequestTypes
<1>3. id \notin DOMAIN Sum.reqmap
  BY <1>2 DEF IdInv, IdAt, Refuse
<1>4. log' = Append(log, RRecord(id, n, file, failed))
  BY <1>1, <1>2
<1>5. RequestCounted(id, file, failed) /\ SimTotals'
  BY <1>3, <1>4, RequestLogged, RequestTotals
<1>6. at[c] = "info" /\ End(c, FALSE) /\ mine' = mine
  BY DEF Refuse
<1>7. /\ success' = success /\ errors' = errors + 1
      /\ at' = [at EXCEPT ![c] = "done"]
      /\ Cardinality(In({"done"})') = Cardinality(In({"done"})) + 1
      /\ Cardinality(In({"nar"})') = Cardinality(In({"nar"}))
  BY <1>0, <1>6, LineOver
<1>8. SimCounted'
  <2>1. /\ Requested(Sum') = Requested(Sum) + 1 /\ Sum'.fmap[""] = Sum.fmap[""]
    <3>1. Sum.fmap \in [Failed -> Nat]
      BY SimTypes
    <3> QED
      BY <1>1, <1>5, <3>1, RequestedMore
  <2>2. Sum'.diffed = Sum.diffed /\ Sum'.missing = Sum.missing
    BY <1>5 DEF RequestCounted
  <2>3. PICK s \in Nat, e \in Nat, q \in Nat, n1 \in Nat, d \in Nat :
            /\ s = success /\ e = errors /\ q = Requested(Sum)
            /\ n1 = Cardinality(In({"nar"})) /\ d = Cardinality(In({"done"}))
    BY SimTypes
  <2>4. s + e = d /\ q <= n1 + d
    BY <2>3 DEF SimCounted
  <2>5. s + (e + 1) = d + 1 /\ q + 1 <= n1 + (d + 1)
    BY <2>4
  <2>6. success' = s /\ errors' = e + 1 /\ Requested(Sum') = q + 1
    BY <1>7, <2>1, <2>3
  <2>7. Cardinality(In({"nar"})') = n1 /\ Cardinality(In({"done"})') = d + 1
    BY <1>7, <2>3
  <2>8. s = Len(Sum'.diffed) /\ Sum'.missing = 0 /\ s + n1 <= Sum'.fmap[""]
    BY <2>1, <2>2, <2>3 DEF SimCounted
  <2> QED
    BY <2>5, <2>6, <2>7, <2>8 DEF SimCounted
<1>9. SimNars'
  <2>1. \A d \in Conn : at'[d] = "nar" => at[d] = "nar"
    BY <1>0, <1>7 DEF RequestTypes
  <2>2. DOMAIN Sum.reqmap \subseteq DOMAIN Sum'.reqmap /\ Sum'.diffed = Sum.diffed
    BY <1>5 DEF RequestCounted
  <2> QED
    BY <1>6, <2>1, <2>2 DEF SimNars
<1> QED
  BY <1>5, <1>8, <1>9

\* A request is recorded, and its line goes on to its nar.
LEMMA ReplySim ==
    ASSUME IInv, RecordedInv, IdInv, CountInv, SimCounted, SimNars, SimTotals, mode = "sim",
           NEW c \in Conn, Reply(c)
    PROVE  SimCounted' /\ SimNars' /\ SimTotals'
<1>0. RequestTypes
  BY DEF IInv
<1>1. PICK id \in Nat, n \in Nar : id = mine[c].id /\ n = mine[c].nar
  BY <1>0 DEF RequestTypes
<1>2. PICK file \in Nat : file = FileSize[n]
  BY Parameters
<1>3. PICK failed \in Failed : failed = ""
  BY DEF Failed
<1>4. id \notin DOMAIN Sum.reqmap
  BY <1>1 DEF IdInv, IdAt, Reply
<1>5. log' = Append(log, RRecord(id, n, file, failed))
  BY <1>1, <1>2, <1>3 DEF Reply, OkRecord
<1>6. RequestCounted(id, file, failed) /\ SimTotals'
  BY <1>4, <1>5, RequestLogged, RequestTotals
<1>7. at[c] = "put" /\ at' = [at EXCEPT ![c] = "nar"] /\ UNCHANGED <<mine, success, errors>>
  BY DEF Reply, counters
<1>8. /\ Cardinality(In({"done"})') = Cardinality(In({"done"}))
      /\ Cardinality(In({"nar"})') = Cardinality(In({"nar"})) + 1
  <2>1. PICK q : q = "done" /\ q # "nar"
    OBVIOUS
  <2>2. Cardinality(In({q})') = Cardinality(In({q}))
    BY <1>0, <1>7, <2>1, LineMoved DEF RequestTypes
  <2>3. Cardinality(In({"nar"})') = Cardinality(In({"nar"})) + 1
    BY <1>0, <1>7, LineMoved DEF RequestTypes
  <2> QED
    BY <2>1, <2>2, <2>3
<1>9. SimCounted'
  <2>1. /\ Requested(Sum') = Requested(Sum) + 1 /\ Sum'.fmap[""] = Sum.fmap[""] + 1
    <3>1. Sum.fmap \in [Failed -> Nat]
      BY SimTypes
    <3> QED
      BY <1>3, <1>6, <3>1, RequestedMore
  <2>2. Sum'.diffed = Sum.diffed /\ Sum'.missing = Sum.missing
    BY <1>6 DEF RequestCounted
  <2>3. PICK s \in Nat, f \in Nat, q \in Nat, n1 \in Nat, d \in Nat :
            /\ s = success /\ f = Sum.fmap[""] /\ q = Requested(Sum)
            /\ n1 = Cardinality(In({"nar"})) /\ d = Cardinality(In({"done"}))
    BY SimTypes
  <2>4. s + n1 <= f /\ q <= n1 + d
    BY <2>3 DEF SimCounted
  <2>5. s + (n1 + 1) <= f + 1 /\ q + 1 <= (n1 + 1) + d
    BY <2>4
  <2>6. /\ success' = s /\ errors' = errors /\ Requested(Sum') = q + 1 /\ Sum'.fmap[""] = f + 1
        /\ Cardinality(In({"nar"})') = n1 + 1 /\ Cardinality(In({"done"})') = d
    BY <1>7, <1>8, <2>1, <2>3
  <2>7. s + errors = d /\ s = Len(Sum'.diffed) /\ Sum'.missing = 0
    BY <2>2, <2>3 DEF SimCounted
  <2> QED
    BY <2>5, <2>6, <2>7 DEF SimCounted
<1>10. SimNars'
  <2>1. /\ DOMAIN Sum'.reqmap = DOMAIN Sum.reqmap \cup {id} /\ Sum'.diffed = Sum.diffed
        /\ \A k \in 1..Len(Sum.diffed) : Sum.diffed[k] # id
    BY <1>4, <1>6, DiffedIs DEF RequestCounted
  <2>2. \A d \in Conn : IF d = c THEN at'[d] = "nar" /\ mine'[d].id = id
                        ELSE at'[d] = at[d] /\ mine'[d] = mine[d]
    BY <1>0, <1>1, <1>7 DEF RequestTypes
  <2>3. \A d \in Conn \ {c} : at[d] = "nar" => mine[d].id # id
    BY <1>4 DEF SimNars
  <2> QED
    BY <2>1, <2>2, <2>3 DEF SimNars
<1> QED
  BY <1>6, <1>9, <1>10

\* A delta is recorded, and its line is over.
LEMMA SendNarSim ==
    ASSUME IInv, RecordedInv, IdInv, CountInv, SimCounted, SimNars, SimTotals, mode = "sim",
           NEW c \in Conn, SendNar(c)
    PROVE  SimCounted' /\ SimNars' /\ SimTotals'
<1>0. RequestTypes
  BY DEF IInv
<1>1. at[c] = "nar" /\ End(c, TRUE) /\ mine' = mine
  BY DEF SendNar
<1>2. PICK n \in Nar : n = mine[c].nar
  BY <1>0 DEF RequestTypes
<1>3. PICK id \in DOMAIN Sum.reqmap : id = mine[c].id
  BY <1>1 DEF SimNars
<1>4. id \in Nat
  BY <1>0, <1>3 DEF RequestTypes
<1>5. PICK diff \in Nat : diff = DiffSize[n]
  BY Parameters
<1>6. log' = Append(log, DRecord(id, n, diff))
  BY <1>2, <1>3, <1>5 DEF SendNar
<1>7. Good(id, n) /\ \A k \in 1..Len(Sum.diffed) : Sum.diffed[k] # id
  BY <1>1, <1>2, <1>3 DEF IdInv, IdAt, SimNars
<1>8. DeltaCounted(id, diff) /\ SimTotals'
  BY <1>4, <1>6, <1>7, DeltaLogged, DeltaTotals
<1>9. /\ success' = success + 1 /\ errors' = errors
      /\ at' = [at EXCEPT ![c] = "done"]
      /\ Cardinality(In({"done"})') = Cardinality(In({"done"})) + 1
      /\ Cardinality(In({"nar"})) = Cardinality(In({"nar"})') + 1
      /\ Cardinality(In({"nar"})') \in Nat
  BY <1>0, <1>1, LineOver
<1>10. /\ Sum'.diffed = Append(Sum.diffed, id) /\ Sum'.fmap = Sum.fmap /\ Sum'.missing = Sum.missing
       /\ DOMAIN Sum'.reqmap = DOMAIN Sum.reqmap
  BY <1>8 DEF DeltaCounted
<1>11. PICK x \in Seq(Nat) : x = Sum.diffed
  BY DEF RecordedInv, Tallies
<1>12. PICK y : y = Append(x, id)
  OBVIOUS
<1>13. /\ y = Sum'.diffed /\ Len(x) \in Nat /\ Len(y) = Len(x) + 1 /\ y[Len(x) + 1] = id
       /\ \A k \in 1..Len(x) : y[k] = x[k]
  BY <1>4, <1>10, <1>11, <1>12, LenProperties, AppendProperties
<1>14. SimCounted'
  <2>1. Requested(Sum') = Requested(Sum)
    BY <1>10 DEF Requested
  <2>2. PICK s \in Nat, e \in Nat, f \in Nat, q \in Nat, m \in Nat, d \in Nat :
            /\ s = success /\ e = errors /\ f = Sum.fmap[""] /\ q = Requested(Sum)
            /\ m = Cardinality(In({"nar"})') /\ d = Cardinality(In({"done"}))
    BY <1>9, SimTypes
  <2>3. /\ s + e = d /\ s = Len(x) /\ s + (m + 1) <= f /\ q <= (m + 1) + d
    BY <1>9, <1>11, <2>2 DEF SimCounted
  <2>4. (s + 1) + e = d + 1 /\ (s + 1) + m <= f /\ q <= m + (d + 1)
    BY <2>3
  <2>5. /\ success' = s + 1 /\ errors' = e /\ Len(Sum'.diffed) = s + 1
        /\ Cardinality(In({"done"})') = d + 1 /\ Cardinality(In({"nar"})') = m
        /\ Requested(Sum') = q /\ Sum'.fmap[""] = f
    BY <1>9, <1>10, <1>13, <2>1, <2>2, <2>3
  <2>6. Sum'.missing = 0
    BY <1>10 DEF SimCounted
  <2> QED
    BY <2>4, <2>5, <2>6 DEF SimCounted
<1>15. SimNars'
  <2>1. \A d \in Conn : at'[d] = "nar" => at[d] = "nar" /\ d # c
    BY <1>0, <1>9 DEF RequestTypes
  <2>2. ASSUME NEW d \in Conn, at'[d] = "nar"
        PROVE  \A k \in 1..Len(Sum'.diffed) : Sum'.diffed[k] # mine'[d].id
    <3>1. mine[d].id # id /\ \A k \in 1..Len(x) : x[k] # mine[d].id
      BY <1>1, <1>3, <1>11, <2>1, <2>2 DEF SimNars
    <3>2. \A k \in 1..Len(y) : k \in 1..Len(x) \/ k = Len(x) + 1
      BY <1>13
    <3>3. \A k \in 1..Len(y) : y[k] # mine[d].id
      BY <1>13, <3>1, <3>2
    <3> QED
      BY <1>1, <1>13, <3>3
  <2> QED
    BY <1>1, <1>10, <2>1, <2>2 DEF SimNars
<1> QED
  BY <1>8, <1>14, <1>15

LEMMA StepSim == IInv /\ RecordedInv /\ IdInv /\ CountInv /\ SimInv /\ [Next]_vars => SimInv'
<1> SUFFICES ASSUME IInv, RecordedInv, IdInv, CountInv, SimInv, [Next]_vars, mode' = "sim"
             PROVE  SimCounted' /\ SimNars' /\ SimTotals'
  BY DEF SimInv
<1>0. RequestTypes
  BY DEF IInv
<1>1. mode = "sim" /\ SimCounted /\ SimNars /\ SimTotals
  <2>1. mode' = mode
    BY DEF Next, Surroundings, SimOver, vars, Line, SimStart, SimRequest, UpstreamFails, Refuse, PutRecent,
       Reply, SendNar, NarFails, Client, AskInfo, AskNar
  <2> QED
    BY <2>1 DEF SimInv
<1>2. ASSUME NEW c \in Conn, Line(c) PROVE SimCounted' /\ SimNars' /\ SimTotals'
  <2>1. CASE SimStart(c) \/ SimRequest(c) \/ PutRecent(c)
    <3>1. /\ UNCHANGED <<log, success, errors>> /\ at[c] \notin {"nar", "done"}
          /\ at'[c] \notin {"nar", "done"} /\ \A d \in Conn \ {c} : at'[d] = at[d] /\ mine'[d] = mine[d]
      BY <1>0, <2>1 DEF SimStart, SimRequest, PutRecent, RequestTypes, counters
    <3>2. \A d \in Conn : /\ at'[d] = "nar" <=> at[d] = "nar"
                          /\ at'[d] = "done" <=> at[d] = "done"
                          /\ at[d] = "nar" => mine'[d] = mine[d]
      BY <3>1
    <3> QED
      BY <1>1, <3>1, <3>2, SimSame
  <2>2. CASE UpstreamFails(c) \/ NarFails(c)
    <3>1. at[c] # "done" /\ End(c, FALSE) /\ UNCHANGED <<log, mine>>
      BY <2>2 DEF UpstreamFails, NarFails
    <3> QED
      BY <1>1, <3>1, FailsSim
  <2> QED
    BY <1>1, <1>2, <2>1, <2>2, RefuseSim, ReplySim, SendNarSim DEF Line
<1>3. ASSUME NEW c \in Conn PROVE ~Client(c)
  BY <1>1 DEF Client, AskInfo, AskNar
<1>4. CASE Surroundings \/ SimOver \/ UNCHANGED vars
  <2>1. UNCHANGED requestVars
    BY <1>4 DEF Surroundings, SimOver, vars
  <2> QED
    BY <1>1, <2>1, SimSame DEF requestVars
<1> QED
  BY <1>2, <1>3, <1>4 DEF Next

LEMMA InitSim == Init => SimInv
<1> SUFFICES ASSUME Init PROVE SimCounted /\ SimNars /\ SimTotals
  BY DEF SimInv
<1>1. Sum = NoRecords /\ log = <<>>
  BY AnalyzeEmpty DEF Init, Sum
<1>2. In({"nar"}) = {} /\ In({"done"}) = {} /\ \A c \in Conn : at[c] # "nar"
  BY DEF Init, In
<1>3. SimCounted
  <2>1. Requested(Sum) = 0 /\ Sum.fmap[""] = 0 /\ Sum.missing = 0 /\ Len(Sum.diffed) = 0
    <3>1. PICK f : f = Sum.fmap /\ f = [x \in Failed |-> 0]
      BY <1>1 DEF NoRecords
    <3>2. /\ f[""] = 0 /\ f["notfound"] = 0 /\ f["toosmall"] = 0 /\ f["toobig"] = 0
          /\ f["nobase"] = 0 /\ f["identical"] = 0
      BY <3>1 DEF Failed
    <3>3. Requested(Sum) = 0 + 0 + 0 + 0 + 0 + 0
      BY <3>1, <3>2 DEF Requested
    <3>4. Sum.missing = 0 /\ Len(Sum.diffed) = 0
      BY <1>1 DEF NoRecords
    <3>5. 0 + 0 + 0 + 0 + 0 + 0 = 0
      OBVIOUS
    <3>6. Requested(Sum) = 0
      BY <3>3, <3>5
    <3> QED
      BY <3>1, <3>2, <3>4, <3>6
  <2>2. Cardinality(In({"nar"})) = 0 /\ Cardinality(In({"done"})) = 0
    BY <1>2, FS_EmptySet
  <2>3. success = 0 /\ errors = 0
    BY DEF Init
  <2>4. /\ success + errors = Cardinality(In({"done"}))
        /\ success + Cardinality(In({"nar"})) <= Sum.fmap[""]
        /\ Requested(Sum) <= Cardinality(In({"nar"})) + Cardinality(In({"done"}))
    <3>1. 0 + 0 = 0 /\ 0 <= 0
      OBVIOUS
    <3> QED
      BY <2>1, <2>2, <2>3, <3>1, Zenon
  <2> QED
    BY <2>1, <2>3, <2>4 DEF SimCounted
<1>4. SimTotals
  <2>1. Undiffed = {}
    BY <1>1 DEF Undiffed
  <2>2. FilesOf(log, Undiffed) = 0
    <3>1. UNION {{i} \X (1..log[i].file) : i \in Undiffed} = {}
      BY <2>1
    <3> QED
      BY <3>1, FS_EmptySet DEF FilesOf
  <2>3. Sum \in Tallies /\ Len(Sum.diffed) = 0 /\ Sum.tActual = 0
    BY <1>1, NoRecordsType DEF NoRecords
  <2>4. Compared(Sum) = [file |-> 0, diff |-> 0]
    BY <2>3, ComparedIs
  <2> QED
    BY <2>2, <2>3, <2>4 DEF SimTotals
<1> QED
  BY <1>2, <1>3, <1>4 DEF SimNars

\* simulate.go:67, analytics.go:104-158: at the end of a simulation, of any list and
\* with whatever failed, each line is an error or has a delta in the log, which counts no
\* request twice; and its total is that of the deltas and of the files without one.
THEOREM SpecSimCounts == Spec => []SimCounts
<1>1. ASSUME IInv, RecordedInv, CountInv, SimInv PROVE SimCounts
  <2> SUFFICES ASSUME Over
               PROVE  /\ success + errors = Cardinality(Conn)
                      /\ success = Len(Sum.diffed) /\ success <= Sum.fmap[""]
                      /\ Sum.missing = 0 /\ Requested(Sum) <= Cardinality(Conn)
                      /\ Sum.tActual = Compared(Sum).diff + Files(Undiffed)
    BY DEF SimCounts, Sum, Undiffed
  <2>1. SimCounted /\ SimTotals
    BY <1>1 DEF SimInv, Over
  <2>2. In({"nar"}) = {} /\ In({"done"}) = Conn
    BY DEF Over, In
  <2>3. Cardinality(In({"nar"})) = 0 /\ Cardinality(Conn) \in Nat
    BY <2>2, FS_EmptySet, FS_CardinalityType, RequestsAssumption
  <2>4. success + 0 <= Sum.fmap[""] /\ Requested(Sum) <= 0 + Cardinality(Conn)
    BY <2>1, <2>2, <2>3 DEF SimCounted
  <2>5. success <= Sum.fmap[""] /\ Requested(Sum) <= Cardinality(Conn)
    <3>1. PICK s \in Nat, f \in Nat, q \in Nat, k \in Nat :
              s = success /\ f = Sum.fmap[""] /\ q = Requested(Sum) /\ k = Cardinality(Conn)
      BY <1>1, <2>3, SimTypes
    <3>2. s + 0 <= f /\ q <= 0 + k
      BY <2>4, <3>1
    <3>3. s <= f /\ q <= k
      BY <3>2
    <3> QED
      BY <3>1, <3>3
  <2>6. Sum.tActual = Compared(Sum).diff + Files(Undiffed)
    BY <2>1 DEF SimTotals, Files, FilesOf
  <2> QED
    BY <2>1, <2>2, <2>5, <2>6 DEF SimCounted
<1>2. Init => IInv /\ RecordedInv /\ IdInv /\ CountInv /\ SimInv
  BY InitIInv, InitIds, InitCounts, InitSim
<1> QED
  BY <1>1, <1>2, StepIInv, StepIds, StepCounts, StepSim, PTL DEF Spec
=============================================================================
