-------------------------------- MODULE Lru --------------------------------
(***************************************************************************)
(* github.com/golang/groupcache/lru, the cache behind the substituter's     *)
(* recents (subst.go) and the system checker's results (syschecker.go).     *)
(* The library is not part of the repository; its operations are given as   *)
(* functions of a cache value, a sequence of entries, latest used last.     *)
(***************************************************************************)
EXTENDS Integers, Sequences, FiniteSets, FiniteSetTheorems, SequenceTheorems, TLAPS

CONSTANTS
    Key, Val,   \* what is cached
    MaxEntries  \* how much of it

Entry == [key : Key, val : Val]

TypeOK(c) == c \in Seq(Entry)

New == <<>>

At(c, k) == {i \in 1..Len(c) : c[i].key = k}
Has(c, k) == At(c, k) # {}
Index(c, k) == CHOOSE i \in At(c, k) : TRUE
Value(c, k) == c[Index(c, k)].val

\* The cache without key k.
Others(c, k) ==
    IF Has(c, k)
    THEN SubSeq(c, 1, Index(c, k) - 1) \o SubSeq(c, Index(c, k) + 1, Len(c))
    ELSE c

\* Get makes the entry it finds the latest.
Touch(c, k) == Append(Others(c, k), [key |-> k, val |-> Value(c, k)])

\* Mutants: an entry that is there is not replaced; nothing is ever evicted.
AddBeside(c, k, v) ==
    LET all == Append(c, [key |-> k, val |-> v]) IN
    IF Len(all) > MaxEntries THEN Tail(all) ELSE all
AddUnbounded(c, k, v) == Append(Others(c, k), [key |-> k, val |-> v])

\* Add replaces the key's entry, and evicts the one least recently used.
Add(c, k, v) ==
    LET all == Append(Others(c, k), [key |-> k, val |-> v]) IN
    IF Len(all) > MaxEntries THEN Tail(all) ELSE all

\* A key is cached once, and there are never too many.
Sound(c) ==
    /\ Len(c) <= MaxEntries
    /\ \A i, j \in 1..Len(c) : c[i].key = c[j].key => i = j

\* Since key k was used, only those of S have been.
Behind(c, k, S) == \A i, j \in 1..Len(c) : c[i].key = k /\ i < j => c[j].key \in S

\* The entries of d that are not in E come from c, in its order.
InOrder(d, c, E) ==
    \A i, j \in 1..Len(d) : i < j =>
        d[j] \in E \/ \E p, q \in 1..Len(c) : p < q /\ d[i] = c[p] /\ d[j] = c[q]

\* Every entry of c but that of key k is in d, too.
Keeps(d, c, k) == \A q \in 1..Len(c) : c[q].key # k => \E i \in 1..Len(d) : d[i] = c[q]
-----------------------------------------------------------------------------
(* What the operations keep, for every set of keys and values and every size. *)

\* Leaving a key out keeps the order of the others.
LEMMA OthersProperties ==
    ASSUME NEW c, TypeOK(c), NEW k \in Key,
           \A i, j \in 1..Len(c) : c[i].key = c[j].key => i = j
    PROVE  LET d == Others(c, k) IN
           /\ d \in Seq(Entry) /\ Len(d) <= Len(c)
           /\ \A i \in 1..Len(d) : d[i].key # k /\ \E j \in 1..Len(c) : d[i] = c[j]
           /\ \A i, j \in 1..Len(d) : d[i].key = d[j].key => i = j
           /\ Has(c, k) => Len(d) = Len(c) - 1
           /\ InOrder(d, c, {}) /\ Keeps(d, c, k)
<1> DEFINE n == Index(c, k)
           front == SubSeq(c, 1, n - 1)
           back == SubSeq(c, n + 1, Len(c))
           d == Others(c, k)
<1>1. c \in Seq(Entry) /\ Len(c) \in Nat /\ \A i \in 1..Len(c) : c[i] \in Entry
  BY LenProperties, ElementOfSeq DEF TypeOK
<1>2. CASE ~Has(c, k)
  BY <1>1, <1>2 DEF Others, Has, At, InOrder, Keeps
<1>3. CASE Has(c, k)
  <2>1. n \in 1..Len(c) /\ c[n].key = k
    BY <1>3 DEF Has, At, Index
  <2>2. /\ front \in Seq(Entry) /\ Len(front) = n - 1
        /\ \A i \in 1..n - 1 : front[i] = c[i]
    <3>1. /\ front \in Seq(Entry)
          /\ Len(front) = IF 1 <= n - 1 THEN (n - 1) - 1 + 1 ELSE 0
          /\ \A i \in 1..(n - 1) - 1 + 1 : front[i] = c[1 + i - 1]
      <4> HIDE DEF n
      <4> QED
        BY <1>1, <2>1, SubSeqProperties
    <3> HIDE DEF front, n
    <3> QED
      BY <1>1, <2>1, <3>1
  <2>3. /\ back \in Seq(Entry) /\ Len(back) = Len(c) - n
        /\ \A i \in 1..Len(c) - n : back[i] = c[n + i]
    <3>1. /\ back \in Seq(Entry)
          /\ Len(back) = IF n + 1 <= Len(c) THEN Len(c) - (n + 1) + 1 ELSE 0
          /\ \A i \in 1..Len(c) - (n + 1) + 1 : back[i] = c[(n + 1) + i - 1]
      <4> HIDE DEF n
      <4> QED
        BY <1>1, <2>1, SubSeqProperties
    <3> HIDE DEF back, n
    <3> QED
      BY <1>1, <2>1, <3>1
  <2>4. d = front \o back
    BY <1>3 DEF Others
  <2> HIDE DEF front, back, d, n
  <2>5. /\ d \in Seq(Entry) /\ Len(d) = Len(front) + Len(back)
        /\ \A i \in 1..Len(front) + Len(back) :
              d[i] = IF i <= Len(front) THEN front[i] ELSE back[i - Len(front)]
    BY <2>2, <2>3, <2>4, ConcatProperties
  <2>6. Len(d) = Len(c) - 1
    BY <1>1, <2>1, <2>2, <2>3, <2>5
  \* Where the i-th entry was before.
  <2> DEFINE from(i) == IF i < n THEN i ELSE i + 1
  <2>7. \A i \in 1..Len(d) : from(i) \in 1..Len(c) /\ from(i) # n /\ d[i] = c[from(i)]
    <3> SUFFICES ASSUME NEW i \in 1..Len(d)
                 PROVE  from(i) \in 1..Len(c) /\ from(i) # n /\ d[i] = c[from(i)]
      OBVIOUS
    <3>1. CASE i < n
      <4>1. i \in 1..n - 1 /\ i <= Len(front) /\ i \in 1..Len(front) + Len(back)
        BY <1>1, <2>1, <2>2, <2>3, <2>6, <3>1
      <4> QED
        BY <1>1, <2>1, <2>2, <2>5, <2>6, <3>1, <4>1
    <3>2. CASE ~(i < n)
      <4>1. /\ ~(i <= Len(front)) /\ i - Len(front) = i - n + 1
            /\ i - n + 1 \in 1..Len(c) - n /\ i \in 1..Len(front) + Len(back)
        BY <1>1, <2>1, <2>2, <2>3, <2>6, <3>2
      <4>2. back[i - n + 1] = c[n + (i - n + 1)] /\ n + (i - n + 1) = i + 1
        BY <1>1, <2>1, <2>3, <4>1
      <4> QED
        BY <1>1, <2>1, <2>5, <2>6, <3>2, <4>1, <4>2
    <3> QED
      BY <3>1, <3>2
  <2>8. \A i, j \in 1..Len(d) : from(i) = from(j) => i = j
    BY <1>1, <2>1, <2>6
  <2>9. \A i, j \in 1..Len(d) : i < j => from(i) < from(j)
    BY <1>1, <2>1, <2>6
  <2>10. ASSUME NEW q \in 1..Len(c), c[q].key # k PROVE \E i \in 1..Len(d) : d[i] = c[q]
    <3>1. CASE q < n
      <4>1. q \in 1..Len(d) /\ from(q) = q
        BY <1>1, <2>1, <2>6, <3>1
      <4> QED
        BY <2>7, <4>1
    <3>2. CASE q > n
      <4>1. q - 1 \in 1..Len(d) /\ from(q - 1) = q
        BY <1>1, <2>1, <2>6, <3>2
      <4> QED
        BY <2>7, <4>1
    <3> QED
      BY <1>1, <2>1, <2>10, <3>1, <3>2
  <2> HIDE DEF from
  <2>11. \A i, j \in 1..Len(d) : i < j =>
             \E p, q \in 1..Len(c) : p < q /\ d[i] = c[p] /\ d[j] = c[q]
    BY <2>7, <2>9
  <2>12. InOrder(d, c, {}) /\ Keeps(d, c, k)
    BY <2>10, <2>11 DEF InOrder, Keeps
  <2>13. Len(d) <= Len(c)
    BY <1>1, <2>6
  <2>14. \A i \in 1..Len(d) : d[i].key # k
    BY <2>1, <2>7, <1>3 DEF TypeOK
  <2>15. \A i, j \in 1..Len(d) : d[i].key = d[j].key => i = j
    BY <2>7, <2>8
  <2> QED
    BY <2>5, <2>6, <2>7, <2>12, <2>13, <2>14, <2>15 DEF d
<1> QED
  BY <1>2, <1>3

\* An entry appended to the others is the only one of its key.
LEMMA LatestProperties ==
    ASSUME NEW c, TypeOK(c), NEW k \in Key, NEW v \in Val,
           \A i, j \in 1..Len(c) : c[i].key = c[j].key => i = j
    PROVE  LET a == Append(Others(c, k), [key |-> k, val |-> v]) IN
           /\ a \in Seq(Entry) /\ Len(a) = Len(Others(c, k)) + 1
           /\ \A i \in 1..Len(a) :
                 a[i] = [key |-> k, val |-> v] \/ \E j \in 1..Len(c) : a[i] = c[j]
           /\ \A i, j \in 1..Len(a) : a[i].key = a[j].key => i = j
           /\ a[Len(a)] = [key |-> k, val |-> v]
           /\ InOrder(a, c, {[key |-> k, val |-> v]}) /\ Keeps(a, c, k)
<1> DEFINE d == Others(c, k)
           e == [key |-> k, val |-> v]
           a == Append(d, e)
<1>1. e \in Entry /\ e.key = k
  BY DEF Entry
<1>2. /\ d \in Seq(Entry) /\ Len(d) \in Nat
      /\ \A i \in 1..Len(d) : d[i].key # k /\ \E j \in 1..Len(c) : d[i] = c[j]
      /\ \A i, j \in 1..Len(d) : d[i].key = d[j].key => i = j
      /\ InOrder(d, c, {}) /\ Keeps(d, c, k)
  BY OthersProperties, LenProperties
<1> HIDE DEF d, e
<1>3. /\ a \in Seq(Entry) /\ Len(a) = Len(d) + 1 /\ a[Len(d) + 1] = e
      /\ \A i \in 1..Len(d) : a[i] = d[i]
  BY <1>1, <1>2, AppendProperties
<1>4. \A i \in 1..Len(a) : i \in 1..Len(d) \/ i = Len(d) + 1
  BY <1>2, <1>3
<1>5. \A i \in 1..Len(d) : i \in 1..Len(a)
  BY <1>2, <1>3
<1> HIDE DEF a
<1>6. \A i, j \in 1..Len(a) : a[i].key = a[j].key => i = j
  BY <1>1, <1>2, <1>3, <1>4
<1>7. \A i \in 1..Len(a) : a[i] = e \/ \E j \in 1..Len(c) : a[i] = c[j]
  BY <1>2, <1>3, <1>4
<1>8. InOrder(a, c, {e})
  <2> SUFFICES ASSUME NEW i \in 1..Len(a), NEW j \in 1..Len(a), i < j, a[j] # e
               PROVE  \E p, q \in 1..Len(c) : p < q /\ a[i] = c[p] /\ a[j] = c[q]
    BY DEF InOrder
  <2>1. i \in 1..Len(d) /\ j \in 1..Len(d)
    BY <1>2, <1>3, <1>4
  <2>2. a[i] = d[i] /\ a[j] = d[j]
    BY <1>3, <2>1
  <2>3. \E p, q \in 1..Len(c) : p < q /\ d[i] = c[p] /\ d[j] = c[q]
    BY <1>2, <2>1 DEF InOrder
  <2> QED
    BY <2>2, <2>3
<1>9. Keeps(a, c, k)
  BY <1>2, <1>3, <1>5 DEF Keeps
<1> QED
  BY <1>1, <1>3, <1>6, <1>7, <1>8, <1>9 DEF a, d, e

\* Add keeps a sound cache, puts nothing but its entry in it, and keeps the rest.
LEMMA AddSound ==
    ASSUME NEW c, TypeOK(c), Sound(c), NEW k \in Key, NEW v \in Val, MaxEntries \in Nat \ {0}
    PROVE  LET a == Add(c, k, v) IN
           /\ TypeOK(a) /\ Sound(a)
           /\ \A i \in 1..Len(a) :
                 a[i] = [key |-> k, val |-> v] \/ \E j \in 1..Len(c) : a[i] = c[j]
<1> DEFINE d == Others(c, k)
           b == Append(d, [key |-> k, val |-> v])
           a == Add(c, k, v)
<1>1. /\ b \in Seq(Entry) /\ Len(b) = Len(d) + 1
      /\ \A i \in 1..Len(b) :
            b[i] = [key |-> k, val |-> v] \/ \E j \in 1..Len(c) : b[i] = c[j]
      /\ \A i, j \in 1..Len(b) : b[i].key = b[j].key => i = j
  BY LatestProperties DEF Sound
<1>2. Len(d) \in Nat /\ Len(d) <= Len(c) /\ Len(c) \in Nat /\ Len(c) <= MaxEntries
  BY OthersProperties, LenProperties DEF Sound, TypeOK
<1>3. a = IF Len(b) > MaxEntries THEN Tail(b) ELSE b
  BY DEF Add
<1> HIDE DEF a, b, d
<1>4. CASE Len(b) > MaxEntries
  <2>1. b # <<>>
    BY <1>1, <1>2, EmptySeq
  <2>2. /\ Tail(b) \in Seq(Entry) /\ Len(Tail(b)) = Len(b) - 1
        /\ \A i \in 1..Len(Tail(b)) : Tail(b)[i] = b[i + 1]
    BY <1>1, <2>1, HeadTailProperties
  <2>3. \A i \in 1..Len(Tail(b)) : i + 1 \in 1..Len(b)
    BY <1>1, <1>2, <2>2
  <2>4. TypeOK(a) /\ Len(a) <= MaxEntries
    BY <1>1, <1>2, <1>3, <1>4, <2>2 DEF TypeOK
  <2>5. \A i, j \in 1..Len(a) : a[i].key = a[j].key => i = j
    <3> SUFFICES ASSUME NEW i \in 1..Len(a), NEW j \in 1..Len(a), a[i].key = a[j].key
                 PROVE  i = j
      OBVIOUS
    <3>1. b[i + 1].key = b[j + 1].key /\ i + 1 \in 1..Len(b) /\ j + 1 \in 1..Len(b)
      BY <1>3, <1>4, <2>2, <2>3
    <3>2. i + 1 = j + 1 /\ i \in Int /\ j \in Int
      BY <1>1, <3>1
    <3> QED
      BY <3>2
  <2>6. \A i \in 1..Len(a) :
            a[i] = [key |-> k, val |-> v] \/ \E j \in 1..Len(c) : a[i] = c[j]
    BY <1>1, <1>3, <1>4, <2>2, <2>3
  <2> QED
    BY <2>4, <2>5, <2>6 DEF Sound, a
<1>5. CASE ~(Len(b) > MaxEntries)
  <2>1. a = b /\ Len(b) <= MaxEntries
    BY <1>1, <1>2, <1>3, <1>5
  <2> QED
    BY <1>1, <2>1 DEF Sound, TypeOK, a
<1> QED
  BY <1>4, <1>5

\* Get keeps a sound cache and its entries.
LEMMA TouchSound ==
    ASSUME NEW c, TypeOK(c), Sound(c), NEW k \in Key, Has(c, k)
    PROVE  LET a == Touch(c, k) IN
           /\ TypeOK(a) /\ Sound(a)
           /\ \A i \in 1..Len(a) : \E j \in 1..Len(c) : a[i] = c[j]
           /\ \E j \in 1..Len(c) : c[j].key = k /\ c[j].val = Value(c, k)
<1> DEFINE n == Index(c, k)
           v == Value(c, k)
           a == Touch(c, k)
<1>1. n \in 1..Len(c) /\ c[n].key = k /\ c[n].val = v
  BY DEF Has, At, Index, Value
<1>2. c[n] \in Entry /\ Len(c) \in Nat
  BY <1>1, ElementOfSeq, LenProperties DEF TypeOK
<1>3. v \in Val /\ c[n] = [key |-> k, val |-> v]
  <2> HIDE DEF n, v
  <2> QED
    BY <1>1, <1>2 DEF Entry
<1>4. a = Append(Others(c, k), [key |-> k, val |-> v])
  BY DEF Touch
<1>5. Len(Others(c, k)) = Len(c) - 1
  BY OthersProperties DEF Sound
<1> HIDE DEF n, v, a
<1> DEFINE b == Append(Others(c, k), [key |-> k, val |-> v])
<1>6. /\ b \in Seq(Entry) /\ Len(b) = Len(Others(c, k)) + 1
      /\ \A i \in 1..Len(b) :
            b[i] = [key |-> k, val |-> v] \/ \E j \in 1..Len(c) : b[i] = c[j]
      /\ \A i, j \in 1..Len(b) : b[i].key = b[j].key => i = j
  BY <1>3, LatestProperties DEF Sound
<1> HIDE DEF b
<1>7. a = b /\ Len(b) = Len(c)
  BY <1>2, <1>4, <1>5, <1>6 DEF b
<1> QED
  BY <1>1, <1>3, <1>6, <1>7 DEF Sound, TypeOK, a, v

\* After a use of k only k has been used since k, and k beside the others since
\* any other key; what is evicted was followed by as many keys as fit the cache.
LEMMA AddRecency ==
    ASSUME NEW c, TypeOK(c), Sound(c), NEW k \in Key, NEW v \in Val, MaxEntries \in Nat \ {0},
           NEW n \in Key, NEW S, IsFiniteSet(S), Behind(c, n, S)
    PROVE  LET a == Add(c, k, v)
               T == IF n = k THEN {} ELSE S \cup {k}
           IN  /\ Behind(a, n, T)
               /\ n = k \/ Has(c, n) => Has(a, n) \/ Cardinality(T) >= MaxEntries
<1> DEFINE e == [key |-> k, val |-> v]
           b == Append(Others(c, k), e)
           a == Add(c, k, v)
           T == IF n = k THEN {} ELSE S \cup {k}
<1>1. /\ b \in Seq(Entry) /\ Len(b) = Len(Others(c, k)) + 1 /\ b[Len(b)] = e
      /\ \A i, j \in 1..Len(b) : b[i].key = b[j].key => i = j
      /\ InOrder(b, c, {e}) /\ Keeps(b, c, k)
  BY LatestProperties DEF Sound
<1>2. Len(b) \in Nat \ {0} /\ e.key = k
  <2>1. Len(Others(c, k)) \in Nat
    BY OthersProperties, LenProperties DEF Sound
  <2> QED
    BY <1>1, <2>1
<1>3. a = IF Len(b) > MaxEntries THEN Tail(b) ELSE b
  BY DEF Add
<1>4. IsFiniteSet(T)
  BY FS_EmptySet, FS_AddElement
<1> HIDE DEF a, b, e
<1>5. Behind(b, n, T)
  <2> SUFFICES ASSUME NEW i \in 1..Len(b), NEW j \in 1..Len(b), b[i].key = n, i < j
               PROVE  b[j].key \in T
    BY DEF Behind
  <2>1. CASE n = k
    <3>1. i = Len(b)
      BY <1>1, <1>2, <2>1
    <3> QED
      BY <1>2, <3>1
  <2>2. CASE n # k /\ b[j] = e
    BY <1>2, <2>2
  <2>3. CASE n # k /\ b[j] # e
    <3>1. PICK p, q \in 1..Len(c) : p < q /\ b[i] = c[p] /\ b[j] = c[q]
      BY <1>1, <2>3 DEF InOrder
    <3> QED
      BY <2>3, <3>1 DEF Behind
  <2> QED
    BY <2>1, <2>2, <2>3
<1>6. n = k \/ Has(c, n) => \E i \in 1..Len(b) : b[i].key = n
  <2>1. CASE n = k
    BY <1>1, <1>2, <2>1
  <2>2. CASE n # k /\ Has(c, n)
    <3>1. PICK q \in 1..Len(c) : c[q].key = n
      BY <2>2 DEF Has, At
    <3> QED
      BY <1>1, <2>2, <3>1 DEF Keeps
  <2> QED
    BY <2>1, <2>2
<1> HIDE DEF T
<1>7. CASE Len(b) > MaxEntries
  <2>1. b # <<>>
    BY <1>1, <1>2, EmptySeq
  <2>2. Len(a) = Len(b) - 1 /\ \A i \in 1..Len(a) : a[i] = b[i + 1] /\ i + 1 \in 1..Len(b)
    <3>1. Len(Tail(b)) = Len(b) - 1 /\ \A i \in 1..Len(Tail(b)) : Tail(b)[i] = b[i + 1]
      BY <1>1, <2>1, HeadTailProperties
    <3> QED
      BY <1>2, <1>3, <1>7, <3>1
  <2>3. Behind(a, n, T)
    <3> SUFFICES ASSUME NEW i \in 1..Len(a), NEW j \in 1..Len(a), a[i].key = n, i < j
                 PROVE  a[j].key \in T
      BY DEF Behind
    <3>1. /\ i + 1 \in 1..Len(b) /\ j + 1 \in 1..Len(b) /\ i + 1 < j + 1
          /\ b[i + 1].key = n /\ a[j] = b[j + 1]
      BY <1>2, <2>2
    <3> QED
      BY <1>5, <3>1 DEF Behind
  <2>4. ASSUME NEW i \in 1..Len(b), b[i].key = n
        PROVE  Has(a, n) \/ Cardinality(T) >= MaxEntries
    <3>1. CASE i # 1
      <4>1. i - 1 \in 1..Len(a) /\ a[i - 1].key = n
        BY <1>2, <2>2, <2>4, <3>1
      <4> QED
        BY <4>1 DEF Has, At
    <3>2. CASE i = 1
      <4> DEFINE f == [j \in 1..Len(a) |-> b[j + 1].key]
      <4>1. \A j \in 1..Len(a) : b[j + 1].key \in T
        BY <1>2, <1>5, <2>2, <2>4, <3>2 DEF Behind
      <4>2. \A j, m \in 1..Len(a) : b[j + 1].key = b[m + 1].key => j = m
        <5> SUFFICES ASSUME NEW j \in 1..Len(a), NEW m \in 1..Len(a), b[j + 1].key = b[m + 1].key
                     PROVE  j = m
          OBVIOUS
        <5>1. j + 1 = m + 1
          BY <1>1, <2>2
        <5> QED
          BY <5>1
      <4>3. f \in Injection(1..Len(a), T)
        <5>1. f \in [1..Len(a) -> T]
          BY <4>1
        <5>2. \A j, m \in 1..Len(a) : f[j] = f[m] => j = m
          BY <4>2
        <5> QED
          BY <5>1, <5>2 DEF Injection, IsInjective
      <4>4. Cardinality(1..Len(a)) <= Cardinality(T)
        BY <1>4, <4>3, FS_Injection
      <4>5. Cardinality(1..Len(a)) = Len(a) /\ Len(a) >= MaxEntries
        <5>1. 1 \in Int /\ Len(a) \in Int /\ Len(a) >= MaxEntries /\ Len(a) >= 1
          BY <1>2, <1>7, <2>2
        <5>2. Cardinality(1..Len(a)) = IF 1 > Len(a) THEN 0 ELSE Len(a) - 1 + 1
          BY <5>1, FS_Interval
        <5> QED
          BY <5>1, <5>2
      <4>6. Cardinality(T) \in Nat
        BY <1>4, FS_CardinalityType
      <4> QED
        BY <1>2, <2>2, <4>4, <4>5, <4>6
    <3> QED
      BY <3>1, <3>2
  <2> QED
    BY <1>6, <2>3, <2>4 DEF a, T
<1>8. CASE ~(Len(b) > MaxEntries)
  <2>1. a = b
    BY <1>3, <1>8
  <2>2. n = k \/ Has(c, n) => Has(a, n)
    BY <1>6, <2>1 DEF Has, At
  <2> QED
    BY <1>5, <2>1, <2>2 DEF a, T
<1> QED
  BY <1>7, <1>8

LEMMA TouchRecency ==
    ASSUME NEW c, TypeOK(c), Sound(c), NEW k \in Key, Has(c, k), NEW n \in Key, NEW S,
           Behind(c, n, S)
    PROVE  LET a == Touch(c, k) IN
           /\ Behind(a, n, IF n = k THEN {} ELSE S \cup {k})
           /\ Has(c, n) => Has(a, n)
<1>1. PICK v \in Val : v = Value(c, k)
  <2>1. Index(c, k) \in 1..Len(c)
    BY DEF Has, At, Index
  <2>2. c[Index(c, k)] \in Entry
    BY <2>1, ElementOfSeq DEF TypeOK
  <2> QED
    BY <2>2 DEF Value, Entry
<1> DEFINE e == [key |-> k, val |-> v]
           b == Append(Others(c, k), e)
           a == Touch(c, k)
<1>2. a = b
  BY <1>1 DEF Touch
<1>3. /\ b \in Seq(Entry) /\ Len(b) = Len(Others(c, k)) + 1 /\ b[Len(b)] = e
      /\ \A i, j \in 1..Len(b) : b[i].key = b[j].key => i = j
      /\ InOrder(b, c, {e}) /\ Keeps(b, c, k)
  BY LatestProperties DEF Sound
<1>4. Len(b) \in Nat \ {0} /\ e.key = k
  <2>1. Len(Others(c, k)) \in Nat
    BY OthersProperties, LenProperties DEF Sound
  <2> QED
    BY <1>3, <2>1
<1> HIDE DEF a, b, e
<1>5. Has(c, n) => Has(b, n)
  <2>1. CASE n = k
    BY <1>3, <1>4, <2>1 DEF Has, At
  <2>2. CASE n # k /\ Has(c, n)
    <3>1. PICK q \in 1..Len(c) : c[q].key = n
      BY <2>2 DEF Has, At
    <3>2. PICK i \in 1..Len(b) : b[i] = c[q]
      BY <1>3, <2>2, <3>1 DEF Keeps
    <3>3. b[i].key = n
      BY <3>1, <3>2
    <3> QED
      BY <3>3 DEF Has, At
  <2> QED
    BY <2>1, <2>2
<1>6. ASSUME NEW i \in 1..Len(b), NEW j \in 1..Len(b), b[i].key = n, i < j
      PROVE  b[j].key \in IF n = k THEN {} ELSE S \cup {k}
  <2>1. CASE n = k
    <3>1. i = Len(b)
      BY <1>3, <1>4, <1>6, <2>1
    <3> QED
      BY <1>4, <1>6, <3>1
  <2>2. CASE n # k /\ b[j] = e
    BY <1>4, <2>2
  <2>3. CASE n # k /\ b[j] # e
    <3>1. PICK p, q \in 1..Len(c) : p < q /\ b[i] = c[p] /\ b[j] = c[q]
      BY <1>3, <1>6, <2>3 DEF InOrder
    <3> QED
      BY <1>6, <2>3, <3>1 DEF Behind
  <2> QED
    BY <2>1, <2>2, <2>3
<1> QED
  BY <1>2, <1>5, <1>6 DEF Behind, a
=============================================================================
