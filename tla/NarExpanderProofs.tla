------------------------- MODULE NarExpanderProofs -------------------------
(***************************************************************************)
(* Proofs about NarExpander: for every set of nars and every size of the    *)
(* channel and of the buffer.                                               *)
(***************************************************************************)
EXTENDS NarExpander, SequenceTheorems, WellFoundedInduction, TLAPS

-----------------------------------------------------------------------------
(* Recursion up to n *)

LEMMA UpTo ==
    ASSUME NEW n \in Nat, NEW S, 0 \in S, \A i \in 1..n : i - 1 \in S => i \in S
    PROVE  0..n \subseteq S
<1> SUFFICES ASSUME ~(0..n \subseteq S) PROVE FALSE
  OBVIOUS
<1> DEFINE T == (0..n) \ S
           R == OpToRel(<, Nat)
<1>1. T # {} /\ T \subseteq Nat
  OBVIOUS
<1>2. IsWellFoundedOn(R, Nat)
  BY NatLessThanWellFounded
<1> HIDE DEF R
<1>3. PICK m \in T : \A i \in T : <<i, m>> \notin R
  BY <1>1, <1>2, WFMin
<1>4. ASSUME NEW i \in T PROVE ~(i < m)
  <2>1. i \in Nat /\ m \in Nat /\ <<i, m>> \notin R
    BY <1>1, <1>3
  <2> QED
    BY <2>1 DEF R, OpToRel
<1>5. m \in 1..n /\ m - 1 \in 0..n /\ m - 1 < m
  BY <1>3
<1>6. m - 1 \in S
  BY <1>4, <1>5
<1> QED
  BY <1>3, <1>5, <1>6

\* What steps lead to from a base.
Leads(g, base, step, n) == g[0] = base /\ \A i \in 1..n : g[i] = step[i][g[i - 1]]

LEMMA Iterates ==
    ASSUME NEW V, NEW base \in V, NEW n \in Nat, NEW step \in [1..n -> [V -> V]]
    PROVE  \E g \in [0..n -> V] : Leads(g, base, step, n)
<1> DEFINE S == {m \in 0..n : \E g \in [0..m -> V] : Leads(g, base, step, m)}
<1>1. 0 \in S
  <2>1. [i \in 0..0 |-> base] \in [0..0 -> V] /\ Leads([i \in 0..0 |-> base], base, step, 0)
    BY DEF Leads
  <2> QED
    BY <2>1
<1>2. ASSUME NEW m \in 1..n, m - 1 \in S PROVE m \in S
  <2>1. PICK g \in [0..m - 1 -> V] : Leads(g, base, step, m - 1)
    BY <1>2
  <2> DEFINE h == [i \in 0..m |-> IF i = m THEN step[m][g[m - 1]] ELSE g[i]]
  <2>2. g[m - 1] \in V /\ step[m] \in [V -> V]
    OBVIOUS
  <2>3. h \in [0..m -> V]
    BY <2>2
  <2>4. \A i \in 1..m : h[i] = step[i][h[i - 1]]
    <3> SUFFICES ASSUME NEW i \in 1..m PROVE h[i] = step[i][h[i - 1]]
      OBVIOUS
    <3>1. CASE i = m
      BY <3>1
    <3>2. CASE i # m
      <4>1. i \in 1..m - 1 /\ i - 1 \in 0..m /\ i - 1 # m /\ i \in 0..m
        BY <3>2
      <4> QED
        BY <2>1, <3>2, <4>1 DEF Leads
    <3> QED
      BY <3>1, <3>2
  <2>5. h[0] = base
    BY <2>1 DEF Leads
  <2>6. Leads(h, base, step, m)
    BY <2>4, <2>5 DEF Leads
  <2> HIDE DEF h
  <2> QED
    BY <2>3, <2>6
<1> HIDE DEF S
<1>3. 0..n \subseteq S
  BY <1>1, <1>2, UpTo
<1>4. n \in S
  BY <1>3
<1> QED
  BY <1>4 DEF S

LEMMA Unique ==
    ASSUME NEW n \in Nat, NEW f, NEW g, f[0] = g[0],
           \A i \in 1..n : f[i - 1] = g[i - 1] => f[i] = g[i]
    PROVE  \A i \in 0..n : f[i] = g[i]
<1> DEFINE S == {i \in 0..n : f[i] = g[i]}
<1>1. 0 \in S
  OBVIOUS
<1>2. \A i \in 1..n : i - 1 \in S => i \in S
  OBVIOUS
<1> HIDE DEF S
<1>3. 0..n \subseteq S
  BY <1>1, <1>2, UpTo
<1> QED
  BY <1>3 DEF S
-----------------------------------------------------------------------------
(* Sums *)

\* The sums of the first elements.
Adds(t, s, n) ==
    /\ t \in [0..n -> Nat] /\ t[0] = 0
    /\ \A i \in 1..n : t[i] = t[i - 1] + s[i] /\ s[i] \in Nat
Sums(t, s) == Adds(t, s, Len(s))

LEMMA SumsExist == ASSUME NEW s \in Seq(Nat) PROVE \E t : Sums(t, s)
<1> DEFINE n == Len(s)
           step == [i \in 1..n |-> [v \in Nat |-> v + s[i]]]
<1>1. n \in Nat /\ \A i \in 1..n : s[i] \in Nat
  BY LenProperties, ElementOfSeq
<1>2. step \in [1..n -> [Nat -> Nat]]
  BY <1>1
<1>3. 0 \in Nat
  OBVIOUS
<1> HIDE DEF n, step
<1>4. PICK t \in [0..n -> Nat] : Leads(t, 0, step, n)
  BY <1>1, <1>2, <1>3, Iterates
<1>5. ASSUME NEW i \in 1..n PROVE t[i] = t[i - 1] + s[i]
  <2>1. t[i - 1] \in Nat
    BY <1>1, <1>5
  <2> QED
    BY <1>4, <2>1 DEF Leads, step
<1> QED
  BY <1>1, <1>4, <1>5 DEF Sums, Adds, Leads, n

LEMMA TotalIs == ASSUME NEW s \in Seq(Nat), NEW t, Sums(t, s) PROVE Total(s) = t[Len(s)]
<1> DEFINE n == Len(s)
           D(g) == [i \in 0..n |-> IF i = 0 THEN 0 ELSE g[i - 1] + s[i]]
           total == CHOOSE g : g = D(g)
<1>1. n \in Nat
  BY LenProperties
<1>2. t = D(t)
  BY <1>1 DEF Sums, Adds
<1>3. total = D(total)
  BY <1>2
<1>4. Total(s) = total[n]
  BY DEF Total
<1> HIDE DEF total
<1>5. total[0] = t[0] /\ \A i \in 1..n : total[i - 1] = t[i - 1] => total[i] = t[i]
  <2>1. total[0] = 0 /\ \A i \in 1..n : total[i] = total[i - 1] + s[i]
    BY <1>1, <1>3
  <2>2. t[0] = 0 /\ \A i \in 1..n : t[i] = t[i - 1] + s[i]
    BY DEF Sums, Adds
  <2> QED
    BY <2>1, <2>2
<1>6. \A i \in 0..n : total[i] = t[i]
  BY <1>1, <1>5, Unique
<1> QED
  BY <1>1, <1>4, <1>6

LEMMA TotalEmpty == Total(<<>>) = 0
<1> DEFINE t == [i \in 0..0 |-> 0]
<1>1. Sums(t, <<>>) /\ <<>> \in Seq(Nat) /\ Len(<<>>) = 0
  BY DEF Sums, Adds
<1> QED
  BY <1>1, TotalIs

LEMMA TotalOne == ASSUME NEW x \in Nat PROVE Total(<<x>>) = x
<1> DEFINE t == [i \in 0..1 |-> IF i = 0 THEN 0 ELSE x]
<1>1. Sums(t, <<x>>) /\ <<x>> \in Seq(Nat) /\ Len(<<x>>) = 1
  BY DEF Sums, Adds
<1>2. t[1] = x
  OBVIOUS
<1> HIDE DEF t
<1> QED
  BY <1>1, <1>2, TotalIs

Joined(ab, a, b, m, n) == \A i \in 1..m + n : ab[i] = IF i <= m THEN a[i] ELSE b[i - m]

LEMMA JoinedAt ==
    ASSUME NEW m \in Nat, NEW n \in Nat, NEW a, NEW b, NEW ab, Joined(ab, a, b, m, n)
    PROVE  /\ \A i \in 1..m : i \in 1..m + n /\ ab[i] = a[i]
           /\ \A i \in 1..n : m + i \in 1..m + n /\ ab[m + i] = b[i]
           /\ \A i \in 1..m + n : i \in 1..m \/ \E j \in 1..n : i = m + j
<1>1. ASSUME NEW i \in 1..m PROVE i \in 1..m + n /\ ab[i] = a[i]
  BY DEF Joined
<1>2. ASSUME NEW i \in 1..n PROVE m + i \in 1..m + n /\ ab[m + i] = b[i]
  <2>1. m + i \in 1..m + n /\ ~(m + i <= m) /\ m + i - m = i
    OBVIOUS
  <2>2. ab[m + i] = IF m + i <= m THEN a[m + i] ELSE b[m + i - m]
    BY <2>1 DEF Joined
  <2> QED
    BY <2>1, <2>2
<1>3. ASSUME NEW i \in 1..m + n PROVE i \in 1..m \/ \E j \in 1..n : i = m + j
  <2>1. CASE i <= m
    BY <2>1
  <2>2. CASE ~(i <= m)
    <3>1. i - m \in 1..n /\ i = m + (i - m)
      BY <2>2
    <3> QED
      BY <3>1
  <2> QED
    BY <2>1, <2>2
<1> QED
  BY <1>1, <1>2, <1>3

LEMMA SumsConcat ==
    ASSUME NEW m \in Nat, NEW n \in Nat, NEW a, NEW b, NEW ab, NEW t, NEW u,
           Adds(t, a, m), Adds(u, b, n), Joined(ab, a, b, m, n)
    PROVE  \E v : Adds(v, ab, m + n) /\ v[m + n] = t[m] + u[n]
<1> DEFINE v == [i \in 0..m + n |-> IF i <= m THEN t[i] ELSE t[m] + u[i - m]]
<1> USE DEF Adds, Joined
<1>1. m \in 0..m /\ n \in 0..n /\ t[m] \in Nat /\ u[n] \in Nat
  OBVIOUS
<1>2. ASSUME NEW i \in 0..m PROVE i \in 0..m + n /\ v[i] = t[i]
  OBVIOUS
<1>3. ASSUME NEW i \in 0..n PROVE m + i \in 0..m + n /\ v[m + i] = t[m] + u[i]
  <2>1. m + i \in 0..m + n /\ m + i - m = i
    OBVIOUS
  <2>2. CASE i = 0
    <3>1. m + i = m
      BY <2>2
    <3> QED
      BY <1>1, <1>2, <2>1, <2>2, <3>1
  <2>3. CASE i # 0
    <3>1. ~(m + i <= m)
      BY <2>3
    <3>2. v[m + i] = IF m + i <= m THEN t[m + i] ELSE t[m] + u[m + i - m]
      BY <2>1
    <3> QED
      BY <2>1, <3>1, <3>2
  <2> QED
    BY <2>2, <2>3
<1>4. ASSUME NEW i \in 0..m + n PROVE v[i] \in Nat
  BY <1>1
<1>5. v \in [0..m + n -> Nat]
  BY <1>4
<1> HIDE DEF v
<1>6. ASSUME NEW i \in 1..m + n PROVE v[i] = v[i - 1] + ab[i] /\ ab[i] \in Nat
  <2>1. CASE i <= m
    <3>1. i \in 1..m /\ i \in 0..m /\ i - 1 \in 0..m
      BY <2>1
    <3> QED
      BY <1>2, <2>1, <3>1
  <2>2. CASE ~(i <= m)
    <3>1. PICK k \in 1..n : i = m + k
      <4>1. i - m \in 1..n /\ i = m + (i - m)
        BY <2>2
      <4> QED
        BY <4>1
    <3>2. k \in 0..n /\ k - 1 \in 0..n /\ i - 1 = m + (k - 1) /\ i - m = k
      BY <3>1
    <3>3. v[i] = t[m] + u[k] /\ v[i - 1] = t[m] + u[k - 1]
      BY <1>3, <3>1, <3>2
    <3>4. ab[i] = b[k]
      BY <2>2, <3>2
    <3>5. u[k] = u[k - 1] + b[k] /\ b[k] \in Nat /\ u[k - 1] \in Nat
      BY <3>2
    <3> QED
      BY <1>1, <3>3, <3>4, <3>5
  <2> QED
    BY <2>1, <2>2
<1>7. v[0] = 0 /\ v[m + n] = t[m] + u[n]
  BY <1>1, <1>2, <1>3
<1> QED
  BY <1>5, <1>6, <1>7

LEMMA TotalConcat ==
    ASSUME NEW a \in Seq(Nat), NEW b \in Seq(Nat)
    PROVE  /\ a \o b \in Seq(Nat)
           /\ Total(a) \in Nat /\ Total(b) \in Nat
           /\ Total(a \o b) = Total(a) + Total(b)
<1>1. PICK t : Sums(t, a)
  BY SumsExist
<1>2. PICK u : Sums(u, b)
  BY SumsExist
<1>3. Total(a) = t[Len(a)] /\ Total(b) = u[Len(b)]
  BY <1>1, <1>2, TotalIs
<1> DEFINE m == Len(a)
           n == Len(b)
           ab == a \o b
<1>4. m \in Nat /\ n \in Nat /\ Adds(t, a, m) /\ Adds(u, b, n)
  BY <1>1, <1>2, LenProperties DEF Sums
<1>5. ab \in Seq(Nat) /\ Len(ab) = m + n /\ Joined(ab, a, b, m, n)
  BY ConcatProperties DEF Joined
<1> HIDE DEF m, n, ab
<1>6. PICK v : Adds(v, ab, m + n) /\ v[m + n] = t[m] + u[n]
  BY <1>4, <1>5, SumsConcat
<1>7. Sums(v, ab)
  BY <1>5, <1>6 DEF Sums
<1>8. Total(ab) = t[m] + u[n]
  BY <1>5, <1>6, <1>7, TotalIs
<1>9. t[m] \in Nat /\ u[n] \in Nat
  BY <1>4 DEF Adds
<1> QED
  BY <1>3, <1>5, <1>8, <1>9 DEF m, n, ab

LEMMA SumsGrow ==
    ASSUME NEW n \in Nat, NEW s, NEW t, Adds(t, s, n)
    PROVE  \A m \in 0..n : \A i \in 0..m : t[i] <= t[m]
<1> DEFINE S == {m \in 0..n : \A i \in 0..m : t[i] <= t[m]}
<1> USE DEF Adds
<1>1. 0 \in S
  OBVIOUS
<1>2. ASSUME NEW m \in 1..n, m - 1 \in S PROVE m \in S
  <2>1. t[m] = t[m - 1] + s[m] /\ t[m - 1] \in Nat /\ s[m] \in Nat /\ t[m] \in Nat
    OBVIOUS
  <2> SUFFICES ASSUME NEW i \in 0..m PROVE t[i] <= t[m]
    OBVIOUS
  <2>2. CASE i = m
    BY <2>1, <2>2
  <2>3. CASE i # m
    <3>1. i \in 0..m - 1 /\ i \in 0..n
      BY <2>3
    <3>2. t[i] <= t[m - 1] /\ t[i] \in Nat
      BY <1>2, <3>1
    <3> QED
      BY <2>1, <3>2
  <2> QED
    BY <2>2, <2>3
<1> HIDE DEF S
<1>3. 0..n \subseteq S
  BY <1>1, <1>2, UpTo
<1> QED
  BY <1>3 DEF S

LEMMA SumsBounds ==
    ASSUME NEW n \in Nat, NEW s, NEW t, Adds(t, s, n), NEW j \in 1..n
    PROVE  s[j] <= t[n] /\ \A i \in 1..j - 1 : s[i] + s[j] <= t[n]
<1>1. \A m \in 0..n : \A i \in 0..m : t[i] <= t[m]
  BY SumsGrow
<1> USE DEF Adds
<1>2. /\ t[j] = t[j - 1] + s[j] /\ t[j] <= t[n]
      /\ t[j] \in Nat /\ t[n] \in Nat /\ t[j - 1] \in Nat /\ s[j] \in Nat
  BY <1>1
<1>3. ASSUME NEW i \in 1..j - 1 PROVE s[i] + s[j] <= t[n]
  <2>1. i \in 1..n /\ i \in 0..n /\ i - 1 \in 0..n /\ i \in 0..j - 1 /\ j - 1 \in 0..n
    OBVIOUS
  <2>2. t[i] <= t[j - 1]
    BY <1>1, <2>1
  <2>3. t[i] = t[i - 1] + s[i] /\ t[i] \in Nat /\ t[i - 1] \in Nat /\ s[i] \in Nat
    BY <2>1
  <2> HIDE DEF Adds
  <2>4. s[i] <= t[i]
    BY <2>3
  <2> QED
    BY <1>2, <2>2, <2>3, <2>4
<1> QED
  BY <1>2, <1>3

\* No more than all of them.
LEMMA TotalBounds ==
    ASSUME NEW s \in Seq(Nat), NEW j \in 1..Len(s)
    PROVE  s[j] <= Total(s) /\ \A i \in 1..j - 1 : s[i] + s[j] <= Total(s)
<1>1. PICK t : Sums(t, s)
  BY SumsExist
<1>2. Len(s) \in Nat /\ Total(s) = t[Len(s)] /\ Adds(t, s, Len(s))
  BY <1>1, TotalIs, LenProperties DEF Sums
<1> QED
  BY <1>2, SumsBounds
-----------------------------------------------------------------------------
(* Compressed files *)

LEMMA TotalNat == ASSUME NEW s \in Seq(Nat) PROVE Total(s) \in Nat
BY TotalConcat

LEMMA AnnouncedNat == ASSUME NEW f \in Packed PROVE Announced(f) \in Nat
<1>1. f.streams \in Seq(Seq(Nat)) /\ f.streams # <<>>
  BY DEF Packed
<1>2. Len(f.streams) \in 1..Len(f.streams)
  BY <1>1, LenProperties, EmptySeq
<1>3. Last(f.streams) \in Seq(Nat)
  BY <1>1, <1>2, ElementOfSeq DEF Last
<1>4. Total(Last(f.streams)) \in Nat
  BY <1>3, TotalNat
<1> QED
  BY <1>4, CompressedAssumption DEF Announced

\* A file that comes through announces what its contents are.
LEMMA PlainHonest == ASSUME NEW f \in Packed, Plain(f) PROVE Announced(f) = Contents(f)
<1>1. f.streams \in Seq(Seq(Nat)) /\ Len(f.streams) = 1
  BY DEF Packed, Plain
<1>2. f.streams[1] \in Seq(Nat) /\ DOMAIN f.streams = 1..1
  BY <1>1, ElementOfSeq, LenProperties
<1>3. PICK x \in Nat : x = Total(f.streams[1])
  BY <1>2, TotalNat
<1>4. [i \in DOMAIN f.streams |-> Total(f.streams[i])] = <<x>>
  BY <1>2, <1>3
<1>5. Contents(f) = x
  BY <1>4, TotalOne DEF Contents
<1>6. Total(Last(f.streams)) = x
  BY <1>1, <1>3 DEF Last
<1>7. f.algo = "gz" => x % GzModulus = x
  BY <1>5, CompressedAssumption DEF Plain
<1>8. f.algo \in {"xz", "gz"}
  BY DEF Packed
<1> QED
  BY <1>5, <1>6, <1>7, <1>8 DEF Announced

LEMMA FunctionIsSeq ==
    ASSUME NEW n \in Nat, NEW S, NEW g \in [1..n -> S]
    PROVE  g \in Seq(S) /\ Len(g) = n
OBVIOUS

LEMMA OptionsAre ==
    ASSUME NEW f \in Packed, \A i \in 1..Len(f.filters) : f.filters[i].id # "other"
    PROVE  Options(f) = [i \in 1..Len(f.filters) |-> Option(f.filters[i])]
<1> DEFINE fs == f.filters
           n == Len(fs)
           O == {Option(fs[j]) : j \in 1..n}
           g == [i \in 0..n |-> [j \in 1..i |-> Option(fs[j])]]
           D(h) == [i \in 0..n |-> IF i = 0 THEN <<>> ELSE h[i - 1] \o
                       IF fs[i].id = "other" THEN <<>> ELSE <<Option(fs[i])>>]
           options == CHOOSE h : h = D(h)
<1>1. fs \in Seq(Filter) /\ n \in Nat
  BY LenProperties DEF Packed
<1>11. \A i \in 1..n : fs[i].id # "other"
  OBVIOUS
<1> HIDE DEF fs
<1>2. ASSUME NEW i \in 1..n PROVE g[i] = g[i - 1] \o <<Option(fs[i])>>
  <2> DEFINE q == [j \in 1..i - 1 |-> Option(fs[j])]
             r == [j \in 1..i |-> Option(fs[j])]
  <2>1. i - 1 \in Nat /\ i \in Nat /\ g[i] = r /\ g[i - 1] = q
    BY <1>1
  <2>2. q \in Seq(O) /\ Len(q) = i - 1 /\ r \in Seq(O) /\ Len(r) = i
    <3>1. q \in [1..i - 1 -> O] /\ r \in [1..i -> O]
      BY <1>1
    <3> HIDE DEF q, r, O
    <3> QED
      BY <2>1, <3>1, FunctionIsSeq
  <2>3. <<Option(fs[i])>> \in Seq(O)
    OBVIOUS
  <2> DEFINE s == q \o <<Option(fs[i])>>
  <2>4. /\ s \in Seq(O) /\ Len(s) = i
        /\ \A j \in 1..i : s[j] = IF j <= i - 1 THEN q[j] ELSE <<Option(fs[i])>>[j - (i - 1)]
    BY <2>1, <2>2, <2>3, ConcatProperties
  <2> HIDE DEF s
  <2>5. ASSUME NEW j \in 1..i PROVE s[j] = r[j]
    <3>1. CASE j <= i - 1
      <4>1. j \in 1..i - 1
        BY <3>1
      <4> QED
        BY <2>4, <3>1, <4>1
    <3>2. CASE ~(j <= i - 1)
      <4>1. j = i /\ j - (i - 1) = 1
        BY <3>2
      <4> QED
        BY <2>4, <3>2, <4>1
    <3> QED
      BY <3>1, <3>2
  <2> HIDE DEF q, r
  <2>6. s = r
    BY <2>2, <2>4, <2>5, SeqEqual
  <2> QED
    BY <2>1, <2>6 DEF s
<1>3. g[0] = <<>> /\ g[n] = [i \in 1..n |-> Option(fs[i])]
  BY <1>1
<1>4. g = D(g)
  <2>1. g = [i \in 0..n |-> g[i]]
    OBVIOUS
  <2> HIDE DEF g
  <2>2. ASSUME NEW i \in 0..n PROVE g[i] = D(g)[i]
    <3>1. CASE i = 0
      BY <1>3, <3>1
    <3>2. CASE i # 0
      <4>1. i \in 1..n
        BY <1>1, <3>2
      <4>2. D(g)[i] = g[i - 1] \o <<Option(fs[i])>>
        BY <1>11, <3>2, <4>1
      <4> QED
        BY <1>2, <4>1, <4>2
    <3> QED
      BY <3>1, <3>2
  <2> QED
    BY <2>1, <2>2
<1> HIDE DEF g
<1>5. options = D(options)
  BY <1>4
<1>6. Options(f) = options[n]
  BY DEF Options, fs
<1> HIDE DEF options
<1>7. options[0] = g[0] /\ \A i \in 1..n : options[i - 1] = g[i - 1] => options[i] = g[i]
  <2>1. options[0] = <<>>
    BY <1>1, <1>5
  <2>2. ASSUME NEW i \in 1..n PROVE options[i] = options[i - 1] \o <<Option(fs[i])>>
    <3>1. i \in 0..n /\ i # 0 /\ fs[i].id # "other"
      BY <1>1, <1>11
    <3>2. options[i] = D(options)[i]
      BY <1>5
    <3> QED
      BY <3>1, <3>2
  <2> QED
    BY <1>2, <1>3, <2>1, <2>2
<1>8. \A i \in 0..n : options[i] = g[i]
  <2>1. n \in Nat
    BY <1>1
  <2>2. options[0] = g[0] /\ \A i \in 1..n : options[i - 1] = g[i - 1] => options[i] = g[i]
    BY <1>7
  <2> HIDE DEF n, D
  <2> QED
    BY <2>1, <2>2, Unique, SMTT(30)
<1> QED
  BY <1>1, <1>3, <1>6, <1>8 DEF fs

\* It is the same again.
LEMMA PlainSame == ASSUME NEW f \in Packed, Plain(f) PROVE SameAgain(f)
<1> DEFINE fs == f.filters
           n == Len(fs)
           os == Options(f)
<1>1. fs \in Seq(Filter) /\ n \in Nat
  BY LenProperties DEF Packed
<1>2. f.algo \in {"xz", "gz"}
  BY DEF Packed
<1>3. CASE f.algo = "gz"
  BY <1>3 DEF SameAgain, Plain
<1>4. CASE f.algo = "xz"
  <2>1. ASSUME NEW i \in 1..n
        PROVE  /\ fs[i] \in Filter
               /\ \/ fs[i].id = "lzma2" /\ fs[i].prop <= 40
                  \/ fs[i].id = "delta" /\ fs[i].prop < 255
                  \/ fs[i].id = "bcj" /\ fs[i].prop = 0
    BY <1>1, <1>4, ElementOfSeq, LenProperties DEF Plain
  <2>2. os = [i \in 1..n |-> Option(fs[i])]
    BY <2>1, OptionsAre
  <2> HIDE DEF os, fs
  <2>3. ASSUME NEW i \in 1..n
        PROVE  /\ os[i].id = fs[i].id
               /\ os[i].id = "delta" => os[i].arg = fs[i].prop + 1
               /\ os[i].id # "delta" => os[i].arg = fs[i].prop
               /\ fs[i].prop \in Nat
               /\ fs[i] = [id |-> fs[i].id, prop |-> fs[i].prop]
    <3>1. /\ fs[i].prop \in Byte /\ fs[i].prop \in Nat
          /\ fs[i] = [id |-> fs[i].id, prop |-> fs[i].prop]
      <4>1. fs[i] \in [id : {"lzma2", "delta", "bcj", "other"}, prop : Byte]
        BY <2>1 DEF Filter
      <4>2. fs[i].prop \in Byte /\ fs[i] = [id |-> fs[i].id, prop |-> fs[i].prop]
        BY <4>1
      <4>3. \A b \in Byte : b \in Nat
        BY DEF Byte
      <4> QED
        BY <4>2, <4>3
    <3>2. os[i] = Option(fs[i])
      BY <2>2
    <3>3. CASE fs[i].id = "lzma2" /\ fs[i].prop <= 40
      <4>1. fs[i].prop % 64 = fs[i].prop
        BY <3>1, <3>3
      <4> QED
        BY <3>1, <3>2, <3>3, <4>1 DEF Option, Dict
    <3>4. CASE fs[i].id = "delta" /\ fs[i].prop < 255
      <4>1. (fs[i].prop + 1) % 256 = fs[i].prop + 1
        BY <3>1, <3>4
      <4> QED
        BY <3>1, <3>2, <3>4, <4>1 DEF Option
    <3>5. CASE fs[i].id = "bcj" /\ fs[i].prop = 0
      BY <3>1, <3>2, <3>5 DEF Option
    <3> QED
      BY <2>1, <3>3, <3>4, <3>5
  <2>4. DOMAIN os = 1..n /\ fs = [i \in 1..n |-> fs[i]]
    BY <1>1, <2>2, LenProperties
  <2>5. ~Refused(os)
    BY <2>3, <2>4 DEF Refused
  <2>6. ASSUME NEW i \in 1..n
        PROVE  [id |-> os[i].id, prop |-> os[i].arg - IF os[i].id = "delta" THEN 1 ELSE 0] = fs[i]
    <3>1. os[i].arg - (IF os[i].id = "delta" THEN 1 ELSE 0) = fs[i].prop
      <4>1. CASE os[i].id = "delta"
        <5>1. os[i].arg = fs[i].prop + 1 /\ fs[i].prop \in Nat
          BY <2>3, <4>1
        <5> QED
          BY <4>1, <5>1
      <4>2. CASE os[i].id # "delta"
        <5>1. os[i].arg = fs[i].prop /\ fs[i].prop \in Nat
          BY <2>3, <4>2
        <5> QED
          BY <4>2, <5>1
      <4> QED
        BY <4>1, <4>2
    <3> QED
      BY <2>3, <3>1
  <2>7. Filters(os) = fs
    BY <2>4, <2>6 DEF Filters
  <2> QED
    BY <1>4, <2>5, <2>7 DEF SameAgain, Plain, os, fs
<1> QED
  BY <1>2, <1>3, <1>4
-----------------------------------------------------------------------------
(* The entries of a nar *)

Part == [of : Nat, form : {"whole", "meta", "data"}]
Parts(f, i) == IF Splits(f) THEN <<Meta(i), Data(i)>> ELSE <<Whole(i)>>

\* File k's parts end in e where L says.
Shape(L, e, files) ==
    /\ e \in Seq(Part) /\ L \in [0..Len(files) -> Nat]
    /\ L[0] = 0 /\ L[Len(files)] = Len(e)
    /\ \A k \in 1..Len(files) :
        IF Splits(files[k])
        THEN L[k] = L[k - 1] + 2 /\ e[L[k - 1] + 1] = Meta(k) /\ e[L[k]] = Data(k)
        ELSE L[k] = L[k - 1] + 1 /\ e[L[k]] = Whole(k)
    /\ \A j, k \in 0..Len(files) : j < k => L[j] < L[k]

LEMMA PartsProperties ==
    ASSUME NEW f, NEW i \in Nat
    PROVE  /\ Parts(f, i) \in Seq(Part)
           /\ Splits(f) => /\ Len(Parts(f, i)) = 2
                           /\ Parts(f, i)[1] = Meta(i) /\ Parts(f, i)[2] = Data(i)
           /\ ~Splits(f) => Len(Parts(f, i)) = 1 /\ Parts(f, i)[1] = Whole(i)
<1>1. Meta(i) \in Part /\ Data(i) \in Part /\ Whole(i) \in Part
  BY DEF Meta, Data, Whole, Part
<1> QED
  BY <1>1 DEF Parts

\* The files up to k, expanded.
Grows(E, files) ==
    /\ E \in [0..Len(files) -> Seq(Part)] /\ E[0] = <<>>
    /\ \A k \in 1..Len(files) : E[k] = E[k - 1] \o Parts(files[k], k)

LEMMA ExpandedIs ==
    ASSUME NEW files, Len(files) \in Nat
    PROVE  \E E : Grows(E, files) /\ Expanded(files) = E[Len(files)]
<1> DEFINE n == Len(files)
           V == Seq(Part)
           step == [k \in 1..n |-> [q \in V |-> q \o Parts(files[k], k)]]
           D(g) == [i \in 0..n |-> IF i = 0 THEN <<>> ELSE g[i - 1] \o
                       IF Splits(files[i]) THEN <<Meta(i), Data(i)>> ELSE <<Whole(i)>>]
           expanded == CHOOSE g : g = D(g)
<1>1. \A q \in V, k \in 1..n : q \o Parts(files[k], k) \in V
  BY PartsProperties, ConcatProperties
<1>2. step \in [1..n -> [V -> V]] /\ <<>> \in V
  BY <1>1
<1>3. PICK E \in [0..n -> V] : Leads(E, <<>>, step, n)
  <2> HIDE DEF V, step, n
  <2> QED
    BY <1>2, Iterates DEF n
<1>4. E[0] = <<>> /\ \A k \in 1..n : E[k] = E[k - 1] \o Parts(files[k], k)
  <2>1. ASSUME NEW k \in 1..n PROVE E[k - 1] \in V /\ E[k] = step[k][E[k - 1]]
    <3>1. k - 1 \in 0..n
      OBVIOUS
    <3> HIDE DEF V, step
    <3> QED
      BY <1>3, <3>1 DEF Leads
  <2>2. ASSUME NEW k \in 1..n PROVE E[k] = E[k - 1] \o Parts(files[k], k)
    <3> HIDE DEF V
    <3> QED
      BY <2>1
  <2> QED
    BY <1>3, <2>2 DEF Leads
<1>5. E = D(E)
  <2>1. E = [i \in 0..n |-> E[i]]
    BY <1>3
  <2>2. ASSUME NEW i \in 0..n PROVE E[i] = D(E)[i]
    <3>1. CASE i = 0
      BY <1>4, <3>1
    <3>2. CASE i # 0
      <4>1. i \in 1..n
        BY <3>2
      <4> QED
        BY <1>4, <3>2, <4>1 DEF Parts
    <3> QED
      BY <3>1, <3>2
  <2> QED
    BY <2>1, <2>2
<1>6. expanded = D(expanded)
  BY <1>5
<1>7. Expanded(files) = expanded[n]
  BY DEF Expanded
<1> HIDE DEF expanded
<1>8. expanded[0] = E[0] /\ \A i \in 1..n : expanded[i - 1] = E[i - 1] => expanded[i] = E[i]
  <2>1. expanded[0] = <<>>
    BY <1>6
  <2>2. ASSUME NEW i \in 1..n PROVE expanded[i] = expanded[i - 1] \o Parts(files[i], i)
    <3>1. i \in 0..n /\ i # 0
      OBVIOUS
    <3>2. expanded[i] = D(expanded)[i]
      BY <1>6
    <3> QED
      BY <3>1, <3>2 DEF Parts
  <2> QED
    BY <1>4, <2>1, <2>2
<1>9. \A i \in 0..n : expanded[i] = E[i]
  BY <1>8, Unique
<1>10. Expanded(files) = E[n]
  BY <1>7, <1>9
<1>11. Grows(E, files)
  BY <1>3, <1>4 DEF Grows
<1> QED
  BY <1>10, <1>11

LEMMA ExpandedShape ==
    ASSUME NEW files, Len(files) \in Nat
    PROVE  \E L : Shape(L, Expanded(files), files)
<1> DEFINE n == Len(files)
<1>1. PICK E : Grows(E, files) /\ Expanded(files) = E[n]
  BY ExpandedIs
<1> DEFINE L == [k \in 0..n |-> Len(E[k])]
           S == {m \in 0..n : \A k \in 0..m : Len(E[k]) <= Len(E[m]) /\
                                  \A p \in 1..Len(E[k]) : E[m][p] = E[k][p]}
<1>2. ASSUME NEW k \in 0..n PROVE E[k] \in Seq(Part) /\ Len(E[k]) \in Nat /\ L[k] = Len(E[k])
  <2>1. E[k] \in Seq(Part)
    BY <1>1 DEF Grows
  <2> QED
    BY <2>1, LenProperties
<1>3. ASSUME NEW k \in 1..n
      PROVE  /\ Splits(files[k]) => /\ Len(E[k]) = Len(E[k - 1]) + 2
                                    /\ E[k][Len(E[k - 1]) + 1] = Meta(k)
                                    /\ E[k][Len(E[k])] = Data(k)
             /\ ~Splits(files[k]) => /\ Len(E[k]) = Len(E[k - 1]) + 1
                                     /\ E[k][Len(E[k])] = Whole(k)
             /\ Len(E[k - 1]) < Len(E[k])
             /\ \A p \in 1..Len(E[k - 1]) : E[k][p] = E[k - 1][p]
  <2> DEFINE a == E[k - 1]
             b == Parts(files[k], k)
             c == E[k]
  <2>1. a \in Seq(Part) /\ Len(a) \in Nat /\ k \in Nat /\ c = a \o b
    <3>1. k - 1 \in 0..n /\ k \in Nat
      OBVIOUS
    <3>2. a \in Seq(Part) /\ Len(a) \in Nat
      BY <1>2, <3>1
    <3>3. c = a \o b
      BY <1>1 DEF Grows
    <3> QED
      BY <3>1, <3>2, <3>3
  <2>2. /\ b \in Seq(Part)
        /\ Splits(files[k]) => Len(b) = 2 /\ b[1] = Meta(k) /\ b[2] = Data(k)
        /\ ~Splits(files[k]) => Len(b) = 1 /\ b[1] = Whole(k)
    BY <2>1, PartsProperties
  <2> HIDE DEF a, b, c
  <2>3. /\ Len(c) = Len(a) + Len(b)
        /\ \A i \in 1..Len(a) + Len(b) : c[i] = IF i <= Len(a) THEN a[i] ELSE b[i - Len(a)]
    BY <2>1, <2>2, ConcatProperties
  <2>4. Len(b) \in {1, 2}
    BY <2>2
  <2>5. ASSUME NEW i \in 1..Len(b) PROVE c[Len(a) + i] = b[i]
    <3>1. /\ Len(a) + i \in 1..Len(a) + Len(b) /\ ~(Len(a) + i <= Len(a))
          /\ Len(a) + i - Len(a) = i
      BY <2>1, <2>4
    <3>2. c[Len(a) + i] = IF Len(a) + i <= Len(a) THEN a[Len(a) + i] ELSE b[Len(a) + i - Len(a)]
      BY <2>3, <3>1
    <3> QED
      BY <3>1, <3>2
  <2>6. ASSUME NEW p \in 1..Len(a) PROVE c[p] = a[p]
    BY <2>1, <2>3, <2>4
  <2>7. CASE Splits(files[k])
    <3>0. Len(b) = 2
      BY <2>2, <2>7
    <3>1. Len(b) = 2 /\ 1 \in 1..2 /\ 2 \in 1..2 /\ Len(a) < Len(c)
      BY <2>1, <2>3, <3>0
    <3>2. c[Len(a) + 1] = Meta(k) /\ c[Len(a) + 2] = Data(k) /\ Len(c) = Len(a) + 2
      BY <2>2, <2>3, <2>5, <2>7, <3>1
    <3> QED
      BY <2>6, <2>7, <3>1, <3>2 DEF a, c
  <2>8. CASE ~Splits(files[k])
    <3>0. Len(b) = 1
      BY <2>2, <2>8
    <3>1. Len(b) = 1 /\ 1 \in 1..1 /\ Len(a) < Len(c)
      BY <2>1, <2>3, <3>0
    <3>2. c[Len(a) + 1] = Whole(k) /\ Len(c) = Len(a) + 1
      BY <2>2, <2>3, <2>5, <2>8, <3>1
    <3> QED
      BY <2>6, <2>8, <3>1, <3>2 DEF a, c
  <2> QED
    BY <2>7, <2>8
<1>4. 0 \in S
  BY <1>2
<1>5. ASSUME NEW m \in 1..n, m - 1 \in S PROVE m \in S
  <2> SUFFICES ASSUME NEW k \in 0..m
               PROVE  Len(E[k]) <= Len(E[m]) /\ \A p \in 1..Len(E[k]) : E[m][p] = E[k][p]
    OBVIOUS
  <2>1. CASE k = m
    BY <1>2, <2>1
  <2>2. CASE k # m
    <3>1. k \in 0..m - 1 /\ k \in 0..n /\ m - 1 \in 0..n /\ m \in 0..n
      BY <2>2
    <3>2. /\ Len(E[k]) <= Len(E[m - 1])
          /\ \A p \in 1..Len(E[k]) : E[m - 1][p] = E[k][p]
      BY <1>5, <3>1
    <3>3. /\ Len(E[m - 1]) < Len(E[m])
          /\ \A p \in 1..Len(E[m - 1]) : E[m][p] = E[m - 1][p]
      BY <1>3
    <3>4. Len(E[k]) \in Nat /\ Len(E[m - 1]) \in Nat /\ Len(E[m]) \in Nat
      BY <1>2, <3>1
    <3>5. \A p \in 1..Len(E[k]) : p \in 1..Len(E[m - 1])
      BY <3>2, <3>4
    <3> QED
      BY <3>2, <3>3, <3>4, <3>5
  <2> QED
    BY <2>1, <2>2
<1> HIDE DEF S
<1>6. 0..n \subseteq S
  BY <1>4, <1>5, UpTo
<1>7. \A m \in 0..n : \A k \in 0..m : Len(E[k]) <= Len(E[m]) /\
                                      \A p \in 1..Len(E[k]) : E[m][p] = E[k][p]
  BY <1>6 DEF S
<1> DEFINE e == Expanded(files)
<1>8. \A k \in 0..n : \A p \in 1..Len(E[k]) : e[p] = E[k][p]
  BY <1>1, <1>7
<1>9. e \in Seq(Part) /\ L \in [0..n -> Nat] /\ L[0] = 0 /\ L[n] = Len(e)
  <2>1. E[0] = <<>>
    BY <1>1 DEF Grows
  <2>2. e = E[n] /\ 0 \in 0..n /\ n \in 0..n
    BY <1>1
  <2>3. Len(<<>>) = 0
    OBVIOUS
  <2>4. L \in [0..n -> Nat]
    BY <1>2
  <2> HIDE DEF L, e
  <2> QED
    BY <1>2, <2>1, <2>2, <2>3, <2>4
<1> HIDE DEF e
<1>10. ASSUME NEW k \in 1..n
       PROVE  IF Splits(files[k])
              THEN L[k] = L[k - 1] + 2 /\ e[L[k - 1] + 1] = Meta(k) /\ e[L[k]] = Data(k)
              ELSE L[k] = L[k - 1] + 1 /\ e[L[k]] = Whole(k)
  <2>1. k \in 0..n /\ k - 1 \in 0..n
    OBVIOUS
  <2>2. L[k] = Len(E[k]) /\ L[k - 1] = Len(E[k - 1]) /\ Len(E[k]) \in Nat /\ Len(E[k - 1]) \in Nat
    BY <1>2, <2>1
  <2> HIDE DEF L
  <2>3. L[k - 1] < L[k] /\ L[k - 1] + 1 \in 1..Len(E[k]) /\ L[k] \in 1..Len(E[k])
    BY <1>3, <2>2
  <2>4. e[L[k - 1] + 1] = E[k][L[k - 1] + 1] /\ e[L[k]] = E[k][L[k]]
    BY <1>8, <2>1, <2>3
  <2> QED
    BY <1>3, <2>2, <2>4
<1>11. ASSUME NEW j \in 0..n, NEW k \in 0..n, j < k PROVE L[j] < L[k]
  <2>1. j \in 0..k - 1 /\ k \in 1..n /\ k - 1 \in 0..n
    BY <1>11
  <2>2. Len(E[j]) <= Len(E[k - 1])
    BY <1>7, <2>1
  <2>3. Len(E[k - 1]) < Len(E[k])
    BY <1>3, <2>1
  <2>4. /\ Len(E[j]) \in Nat /\ Len(E[k - 1]) \in Nat /\ Len(E[k]) \in Nat
        /\ L[j] = Len(E[j]) /\ L[k] = Len(E[k])
    BY <1>2, <2>1
  <2> HIDE DEF L
  <2> QED
    BY <2>2, <2>3, <2>4
<1> HIDE DEF L
<1>12. Shape(L, e, files)
  BY <1>9, <1>10, <1>11 DEF Shape
<1> QED
  BY <1>12 DEF e
-----------------------------------------------------------------------------
(* The inductive invariant *)

\* The entries of the first k files, read and to be written.
Upto == CHOOSE L : Shape(L, Expanded(nar), nar)
Taken(k) == IF mode = "expand" THEN k ELSE Upto[k]
Due(k) == IF mode = "expand" THEN Upto[k] ELSE k

\* What the filter may hold: an error, or a part that it makes of a file, with
\* its permits.
Fits(e) ==
    /\ e.of \in 1..Len(nar)
    /\ IF mode = "expand" /\ Splits(nar[e.of]) THEN e.form \in {"meta", "data"} ELSE e.form = "whole"
Buffer == [ent : Part \cup {Error}, size : Nat, permits : Nat]
Buffered ==
    {e \in Buffer :
        e.permits = Least(BufferBytes, e.size) /\ (e.ent = Error \/ Fits(e.ent))}

TypeInv ==
    /\ mode \in {"expand", "collapse"} /\ nar \in Seq(File)
    /\ rpc \in {"next", "acquire", "read", "send", "closed"}
    /\ wpc \in {"recv", "write", "release", "done"}
    /\ end \in {"open", "ok", "err"} /\ (end = "open" <=> wpc # "done")
    /\ closed \in BOOLEAN /\ left \in BOOLEAN /\ hurt \in BOOLEAN /\ (closed <=> rpc = "closed")
    /\ pend \in Seq(Buffered) /\ ents \in Seq(Buffered) /\ cur \in Seq(Buffered)
    /\ Len(pend) <= 2 /\ (pend # <<>> <=> rpc = "send")
    /\ Len(ents) <= BufferEntries
    /\ Len(cur) <= 1 /\ (wpc = "recv" => cur = <<>>)
    /\ wpc \in {"write", "release"} => cur # <<>> /\ cur[1].ent # Error
    /\ out \in Seq(Part) /\ (wpc = "release" => out # <<>>)
    /\ used \in 0..BufferBytes

\* An error is the last that is sent.
HasError(line) == \E i \in 1..Len(line) : line[i].ent = Error
ErrorLast(line) == \A i \in 1..Len(line) : line[i].ent = Error => i = Len(line)
Failing == HasError(InFlight)
FailInv == Failing => hurt /\ rpc \in {"send", "closed"} /\ ErrorLast(InFlight)

\* The reader is between two files, or in the one after the first k; all parts
\* of those are written or held.
Gone == IF wpc = "release" THEN Len(out) - 1 ELSE Len(out)
Complete == end = "open" /\ ~Failing
ReadInv ==
    /\ \E k \in 0..Len(nar) :
        /\ IF rpc \in {"acquire", "read"} THEN k # Len(nar) /\ pos = Taken(k + 1) ELSE pos = Taken(k)
        /\ Complete => Gone + Len(InFlight) = Due(k)
    /\ Complete /\ rpc = "closed" => pos = Len(Input)

\* What is written is what is wanted, and what is held is what comes next.
Follows(line, gone, wanted) ==
    \A i \in 1..Len(line) :
        line[i].ent # Error => gone + i <= Len(wanted) /\ line[i].ent = wanted[gone + i]
FlowInv ==
    end = "open" =>
        /\ Follows(InFlight, Gone, Wanted)
        /\ Len(out) <= Len(Wanted) /\ \A i \in 1..Len(out) : out[i] = Wanted[i]

\* The permits of all that is held are taken, and no others unless it failed.
PermitsOf(line) == Total([i \in 1..Len(line) |-> line[i].permits])
InHand == IF rpc = "read" THEN Permits ELSE 0
PermitInv ==
    /\ PermitsOf(InFlight) + InHand <= used
    /\ Complete => used = PermitsOf(InFlight) + InHand

IInv ==
    TypeInv /\ FailInv /\ ReadInv /\ FlowInv /\ PermitInv /\ NoFalseAlarm /\ CleanEnd
-----------------------------------------------------------------------------
(* What is held, as a sequence *)

LEMMA HeadFirst ==
    ASSUME NEW S, NEW s \in Seq(S), s # <<>>
    PROVE  /\ Head(s) = s[1] /\ Head(s) \in S /\ Tail(s) \in Seq(S) /\ <<Head(s)>> \in Seq(S)
           /\ s = <<Head(s)>> \o Tail(s) /\ Len(Tail(s)) = Len(s) - 1
           /\ Len(s) \in Nat \ {0}
<1>1. /\ Head(s) \in S /\ Tail(s) \in Seq(S) /\ Len(Tail(s)) = Len(s) - 1
      /\ \A i \in 1..Len(Tail(s)) : Tail(s)[i] = s[i + 1]
  BY HeadTailProperties
<1>2. Len(s) \in Nat \ {0} /\ Head(s) = s[1]
  BY EmptySeq
<1>3. <<Head(s)>> \in Seq(S) /\ Len(<<Head(s)>>) = 1
  BY <1>1
<1> DEFINE t == <<Head(s)>> \o Tail(s)
<1>4. /\ t \in Seq(S) /\ Len(t) = Len(s)
      /\ \A i \in 1..Len(s) : t[i] = IF i <= 1 THEN <<Head(s)>>[i] ELSE Tail(s)[i - 1]
  <2>1. /\ t \in Seq(S) /\ Len(t) = Len(<<Head(s)>>) + Len(Tail(s))
        /\ \A i \in 1..Len(<<Head(s)>>) + Len(Tail(s)) :
              t[i] = IF i <= Len(<<Head(s)>>) THEN <<Head(s)>>[i] ELSE Tail(s)[i - Len(<<Head(s)>>)]
    BY <1>1, <1>3, ConcatProperties
  <2>2. Len(<<Head(s)>>) + Len(Tail(s)) = Len(s)
    BY <1>1, <1>2, <1>3
  <2> HIDE DEF t
  <2> QED
    BY <1>3, <2>1, <2>2
<1> HIDE DEF t
<1>5. ASSUME NEW i \in 1..Len(s) PROVE t[i] = s[i]
  <2>1. CASE i = 1
    BY <1>2, <1>4, <2>1
  <2>2. CASE i # 1
    <3>1. ~(i <= 1) /\ i - 1 \in 1..Len(Tail(s)) /\ i - 1 + 1 = i
      BY <1>1, <1>2, <2>2
    <3>2. Tail(s)[i - 1] = s[i - 1 + 1]
      BY <1>1, <3>1
    <3> QED
      BY <1>4, <3>1, <3>2
  <2> QED
    BY <2>1, <2>2
<1>6. t = s
  BY <1>4, <1>5, SeqEqual
<1> QED
  BY <1>1, <1>2, <1>3, <1>6 DEF t

\* What is sent and what is received is held as before.
LEMMA LineSend ==
    ASSUME NEW c \in Seq(Buffer), NEW e \in Seq(Buffer), NEW p \in Seq(Buffer), p # <<>>
    PROVE  (c \o Append(e, Head(p))) \o Tail(p) = (c \o e) \o p
<1>1. PICK h \in Buffer, t \in Seq(Buffer) : h = Head(p) /\ t = Tail(p) /\ p = <<h>> \o t /\ <<h>> \in Seq(Buffer)
  BY HeadFirst
<1>2. Append(e, h) = e \o <<h>> /\ c \o e \in Seq(Buffer)
  BY AppendIsConcat, ConcatProperties
<1>3. c \o (e \o <<h>>) = (c \o e) \o <<h>>
  BY <1>1, ConcatAssociative
<1>4. ((c \o e) \o <<h>>) \o t = (c \o e) \o (<<h>> \o t)
  BY <1>1, <1>2, ConcatAssociative
<1> QED
  BY <1>1, <1>2, <1>3, <1>4

LEMMA LineReceive ==
    ASSUME NEW e \in Seq(Buffer), NEW p \in Seq(Buffer), e # <<>>
    PROVE  /\ (<<Head(e)>> \o Tail(e)) \o p = (<<>> \o e) \o p
           /\ (<<>> \o e) \o p = <<Head(e)>> \o ((<<>> \o Tail(e)) \o p)
<1>1. PICK h \in Buffer, t \in Seq(Buffer) : h = Head(e) /\ t = Tail(e) /\ e = <<h>> \o t /\ <<h>> \in Seq(Buffer)
  BY HeadFirst
<1>2. <<>> \o e = e /\ <<>> \o t = t
  BY ConcatEmptySeq
<1>3. (<<h>> \o t) \o p = <<h>> \o (t \o p)
  BY <1>1, ConcatAssociative
<1> QED
  BY <1>1, <1>2, <1>3

LEMMA LineRelease ==
    ASSUME NEW c \in Seq(Buffer), NEW e \in Seq(Buffer), NEW p \in Seq(Buffer), Len(c) = 1
    PROVE  (c \o e) \o p = <<c[1]>> \o ((<<>> \o e) \o p)
<1>1. PICK h \in Buffer : h = c[1] /\ <<h>> \in Seq(Buffer) /\ Len(<<h>>) = 1 /\ <<h>>[1] = h
  <2>1. 1 \in 1..Len(c)
    OBVIOUS
  <2>2. c[1] \in Buffer
    BY <2>1, ElementOfSeq
  <2> QED
    BY <2>2
<1>2. c = <<h>>
  <2>1. \A i \in 1..Len(c) : c[i] = <<h>>[i]
    BY <1>1
  <2> QED
    BY <1>1, <2>1, SeqEqual
<1>3. <<>> \o e = e
  BY ConcatEmptySeq
<1>4. (<<h>> \o e) \o p = <<h>> \o (e \o p)
  BY <1>1, ConcatAssociative
<1> QED
  BY <1>1, <1>2, <1>3, <1>4

LEMMA LineConcat ==
    ASSUME NEW a \in Seq(Buffer), NEW b \in Seq(Buffer)
    PROVE  /\ a \o b \in Seq(Buffer) /\ Len(a) \in Nat /\ Len(b) \in Nat
           /\ Len(a \o b) = Len(a) + Len(b)
           /\ \A i \in 1..Len(a) : i \in 1..Len(a \o b) /\ (a \o b)[i] = a[i]
           /\ \A i \in 1..Len(b) : Len(a) + i \in 1..Len(a \o b) /\ (a \o b)[Len(a) + i] = b[i]
           /\ \A i \in 1..Len(a \o b) :
                 i \in 1..Len(a) \/ \E j \in 1..Len(b) : i = Len(a) + j
<1> DEFINE m == Len(a)
           n == Len(b)
           ab == a \o b
<1>1. m \in Nat /\ n \in Nat
  BY LenProperties
<1>2. ab \in Seq(Buffer) /\ Len(ab) = m + n /\ Joined(ab, a, b, m, n)
  BY ConcatProperties DEF Joined
<1> HIDE DEF m, n, ab
<1>3. /\ \A i \in 1..m : i \in 1..m + n /\ ab[i] = a[i]
      /\ \A i \in 1..n : m + i \in 1..m + n /\ ab[m + i] = b[i]
      /\ \A i \in 1..m + n : i \in 1..m \/ \E j \in 1..n : i = m + j
  BY <1>1, <1>2, JoinedAt
<1> QED
  BY <1>1, <1>2, <1>3 DEF m, n, ab

LEMMA LineOne ==
    ASSUME NEW e \in Buffer
    PROVE  /\ <<e>> \in Seq(Buffer) /\ Len(<<e>>) = 1 /\ <<e>>[1] = e
           /\ \A i \in 1..Len(<<e>>) : i = 1
OBVIOUS

LEMMA LinePair ==
    ASSUME NEW e \in Buffer, NEW f \in Buffer
    PROVE  <<e, f>> = <<e>> \o <<f>>
<1>1. <<e>> \in Seq(Buffer) /\ <<e, f>> = Append(<<e>>, f)
  OBVIOUS
<1> QED
  BY <1>1, AppendIsConcat

LEMMA ErrorConcat ==
    ASSUME NEW a \in Seq(Buffer), NEW b \in Seq(Buffer)
    PROVE  /\ HasError(a \o b) <=> HasError(a) \/ HasError(b)
           /\ ErrorLast(a \o b) => ErrorLast(b) /\ (b # <<>> => ~HasError(a))
           /\ ~HasError(a) /\ ErrorLast(b) => ErrorLast(a \o b)
<1> DEFINE ab == a \o b
<1>1. /\ Len(a) \in Nat /\ Len(b) \in Nat /\ Len(ab) = Len(a) + Len(b)
      /\ \A i \in 1..Len(a) : i \in 1..Len(ab) /\ ab[i] = a[i]
      /\ \A i \in 1..Len(b) : Len(a) + i \in 1..Len(ab) /\ ab[Len(a) + i] = b[i]
      /\ \A i \in 1..Len(ab) : i \in 1..Len(a) \/ \E j \in 1..Len(b) : i = Len(a) + j
  BY LineConcat
<1> HIDE DEF ab
<1>2. HasError(ab) <=> HasError(a) \/ HasError(b)
  <2>1. ASSUME HasError(ab) PROVE HasError(a) \/ HasError(b)
    <3>1. PICK i \in 1..Len(ab) : ab[i].ent = Error
      BY <2>1 DEF HasError
    <3>2. CASE i \in 1..Len(a)
      BY <1>1, <3>1, <3>2 DEF HasError
    <3>3. CASE \E j \in 1..Len(b) : i = Len(a) + j
      <4>1. PICK j \in 1..Len(b) : i = Len(a) + j
        BY <3>3
      <4>2. b[j].ent = Error
        BY <1>1, <3>1, <4>1
      <4> QED
        BY <4>2 DEF HasError
    <3> QED
      BY <1>1, <3>2, <3>3
  <2>2. ASSUME HasError(a) PROVE HasError(ab)
    <3>1. PICK i \in 1..Len(a) : a[i].ent = Error
      BY <2>2 DEF HasError
    <3>2. i \in 1..Len(ab) /\ ab[i].ent = Error
      BY <1>1, <3>1
    <3> QED
      BY <3>2 DEF HasError
  <2>3. ASSUME HasError(b) PROVE HasError(ab)
    <3>1. PICK i \in 1..Len(b) : b[i].ent = Error
      BY <2>3 DEF HasError
    <3>2. Len(a) + i \in 1..Len(ab) /\ ab[Len(a) + i].ent = Error
      BY <1>1, <3>1
    <3> QED
      BY <3>2 DEF HasError
  <2> QED
    BY <2>1, <2>2, <2>3
<1>3. ASSUME ErrorLast(ab) PROVE ErrorLast(b) /\ (b # <<>> => ~HasError(a))
  <2>1. ASSUME NEW i \in 1..Len(b), b[i].ent = Error PROVE i = Len(b)
    <3>1. Len(a) + i = Len(a) + Len(b)
      BY <1>1, <1>3, <2>1 DEF ErrorLast
    <3> QED
      BY <1>1, <3>1
  <2>2. ASSUME b # <<>>, NEW i \in 1..Len(a), a[i].ent = Error PROVE FALSE
    <3>1. i \in 1..Len(ab) /\ ab[i].ent = Error
      BY <1>1, <2>2
    <3>2. i = Len(a) + Len(b)
      BY <1>1, <1>3, <3>1 DEF ErrorLast
    <3>3. Len(b) # 0
      BY <2>2, EmptySeq
    <3> QED
      BY <1>1, <3>2, <3>3
  <2> QED
    BY <2>1, <2>2 DEF ErrorLast, HasError
<1>4. ASSUME ~HasError(a), ErrorLast(b) PROVE ErrorLast(ab)
  <2> SUFFICES ASSUME NEW i \in 1..Len(ab), ab[i].ent = Error PROVE i = Len(ab)
    BY DEF ErrorLast
  <2>1. CASE i \in 1..Len(a)
    BY <1>1, <1>4, <2>1 DEF HasError
  <2>2. CASE \E j \in 1..Len(b) : i = Len(a) + j
    <3>1. PICK j \in 1..Len(b) : i = Len(a) + j
      BY <2>2
    <3>2. b[j].ent = Error
      BY <1>1, <3>1
    <3>3. j = Len(b)
      BY <1>4, <3>2 DEF ErrorLast
    <3> QED
      BY <1>1, <3>1, <3>3
  <2> QED
    BY <1>1, <2>1, <2>2
<1> QED
  BY <1>2, <1>3, <1>4 DEF ab

LEMMA FollowsConcat ==
    ASSUME NEW a \in Seq(Buffer), NEW b \in Seq(Buffer), NEW gone \in Nat, NEW wanted
    PROVE  Follows(a \o b, gone, wanted) <=>
               Follows(a, gone, wanted) /\ Follows(b, gone + Len(a), wanted)
<1> DEFINE ab == a \o b
           Right(e, i) == e.ent # Error => i <= Len(wanted) /\ e.ent = wanted[i]
<1>1. /\ Len(a) \in Nat /\ Len(b) \in Nat /\ Len(ab) = Len(a) + Len(b)
      /\ \A i \in 1..Len(a) : i \in 1..Len(ab) /\ ab[i] = a[i]
      /\ \A i \in 1..Len(b) : Len(a) + i \in 1..Len(ab) /\ ab[Len(a) + i] = b[i]
      /\ \A i \in 1..Len(ab) : i \in 1..Len(a) \/ \E j \in 1..Len(b) : i = Len(a) + j
  BY LineConcat
<1>2. \A line, g : Follows(line, g, wanted) <=> \A i \in 1..Len(line) : Right(line[i], g + i)
  BY DEF Follows
<1> HIDE DEF ab, Right
<1>3. ASSUME NEW j \in 1..Len(b) PROVE gone + (Len(a) + j) = gone + Len(a) + j
  BY <1>1
<1>4. ASSUME Follows(ab, gone, wanted)
      PROVE  Follows(a, gone, wanted) /\ Follows(b, gone + Len(a), wanted)
  <2>1. ASSUME NEW i \in 1..Len(a) PROVE Right(a[i], gone + i)
    BY <1>1, <1>2, <1>4
  <2>2. ASSUME NEW j \in 1..Len(b) PROVE Right(b[j], gone + Len(a) + j)
    <3>1. Right(ab[Len(a) + j], gone + (Len(a) + j))
      BY <1>1, <1>2, <1>4
    <3> QED
      BY <1>1, <1>3, <3>1
  <2> QED
    BY <1>2, <2>1, <2>2
<1>5. ASSUME Follows(a, gone, wanted), Follows(b, gone + Len(a), wanted)
      PROVE  Follows(ab, gone, wanted)
  <2>1. ASSUME NEW i \in 1..Len(ab) PROVE Right(ab[i], gone + i)
    <3>1. CASE i \in 1..Len(a)
      BY <1>1, <1>2, <1>5, <3>1
    <3>2. CASE \E j \in 1..Len(b) : i = Len(a) + j
      <4>1. PICK j \in 1..Len(b) : i = Len(a) + j
        BY <3>2
      <4>2. Right(b[j], gone + Len(a) + j)
        BY <1>2, <1>5
      <4> QED
        BY <1>1, <1>3, <4>1, <4>2
    <3> QED
      BY <1>1, <3>1, <3>2
  <2> QED
    BY <1>2, <2>1
<1> QED
  BY <1>4, <1>5 DEF ab

LEMMA PermitsConcat ==
    ASSUME NEW a \in Seq(Buffer), NEW b \in Seq(Buffer)
    PROVE  /\ PermitsOf(a) \in Nat /\ PermitsOf(b) \in Nat
           /\ PermitsOf(a \o b) = PermitsOf(a) + PermitsOf(b)
<1> DEFINE P(line) == [i \in 1..Len(line) |-> line[i].permits]
<1>1. ASSUME NEW s \in Seq(Buffer) PROVE P(s) \in Seq(Nat) /\ Len(P(s)) = Len(s)
  <2>1. Len(s) \in Nat
    BY LenProperties
  <2>2. \A i \in 1..Len(s) : s[i] \in Buffer
    BY ElementOfSeq
  <2>3. P(s) \in [1..Len(s) -> Nat]
    BY <2>2 DEF Buffer
  <2> HIDE DEF P
  <2> QED
    BY <2>1, <2>3, FunctionIsSeq
<1> DEFINE ab == a \o b
<1>2. /\ ab \in Seq(Buffer)
      /\ Len(a) \in Nat /\ Len(b) \in Nat /\ Len(ab) = Len(a) + Len(b)
      /\ \A i \in 1..Len(a) : i \in 1..Len(ab) /\ ab[i] = a[i]
      /\ \A i \in 1..Len(b) : Len(a) + i \in 1..Len(ab) /\ ab[Len(a) + i] = b[i]
      /\ \A i \in 1..Len(ab) : i \in 1..Len(a) \/ \E j \in 1..Len(b) : i = Len(a) + j
  BY LineConcat
<1> HIDE DEF ab
<1>3. \A line : \A i \in 1..Len(line) : P(line)[i] = line[i].permits
  OBVIOUS
<1>4. P(a) \in Seq(Nat) /\ P(b) \in Seq(Nat) /\ P(ab) \in Seq(Nat)
      /\ Len(P(a)) = Len(a) /\ Len(P(b)) = Len(b) /\ Len(P(ab)) = Len(ab)
  BY <1>1, <1>2
<1>5. P(ab) = P(a) \o P(b)
  <2> HIDE DEF P
  <2>1. PICK p \in Seq(Nat), q \in Seq(Nat) : p = P(a) /\ q = P(b)
    BY <1>4
  <2> DEFINE pq == p \o q
  <2>2. pq \in Seq(Nat) /\ Len(pq) = Len(p) + Len(q) /\ Joined(pq, p, q, Len(p), Len(q))
    BY ConcatProperties DEF Joined
  <2>3. Len(p) = Len(a) /\ Len(q) = Len(b)
    BY <1>4, <2>1
  <2> HIDE DEF pq
  <2>4. /\ \A i \in 1..Len(a) : pq[i] = p[i]
        /\ \A i \in 1..Len(b) : pq[Len(a) + i] = q[i]
    <3>1. Joined(pq, p, q, Len(a), Len(b)) /\ Len(a) \in Nat /\ Len(b) \in Nat
      BY <1>2, <2>2, <2>3
    <3> QED
      BY <3>1, JoinedAt
  <2>5. ASSUME NEW i \in 1..Len(ab) PROVE P(ab)[i] = pq[i]
    <3>1. P(ab)[i] = ab[i].permits
      BY <1>3
    <3>2. CASE i \in 1..Len(a)
      <4>1. pq[i] = p[i] /\ p[i] = a[i].permits /\ ab[i] = a[i]
        BY <1>2, <1>3, <2>1, <2>4, <3>2
      <4> QED
        BY <3>1, <4>1
    <3>3. CASE \E j \in 1..Len(b) : i = Len(a) + j
      <4>1. PICK j \in 1..Len(b) : i = Len(a) + j
        BY <3>3
      <4>2. pq[i] = q[j] /\ q[j] = b[j].permits /\ ab[i] = b[j]
        BY <1>2, <1>3, <2>1, <2>4, <4>1
      <4> QED
        BY <3>1, <4>2
    <3> QED
      BY <1>2, <3>2, <3>3
  <2>6. Len(pq) = Len(P(ab)) /\ P(ab) \in Seq(Nat) /\ Len(P(ab)) = Len(ab)
    BY <1>2, <1>4, <2>2, <2>3
  <2>7. P(ab) = pq
    BY <2>2, <2>5, <2>6, SeqEqual
  <2> QED
    BY <2>1, <2>7 DEF pq
<1>6. PermitsOf(a) = Total(P(a)) /\ PermitsOf(b) = Total(P(b)) /\ PermitsOf(ab) = Total(P(ab))
  BY DEF PermitsOf
<1> HIDE DEF P
<1> QED
  BY <1>4, <1>5, <1>6, TotalConcat DEF ab

LEMMA PermitsOne == ASSUME NEW e \in Buffer PROVE PermitsOf(<<e>>) = e.permits
<1>1. e.permits \in Nat
  BY DEF Buffer
<1>2. [i \in 1..Len(<<e>>) |-> <<e>>[i].permits] = <<e.permits>>
  OBVIOUS
<1> QED
  BY <1>1, <1>2, TotalOne DEF PermitsOf

LEMMA PermitsNone == PermitsOf(<<>>) = 0
<1>1. [i \in 1..Len(<<>>) |-> <<>>[i].permits] = <<>>
  OBVIOUS
<1> QED
  BY <1>1, TotalEmpty DEF PermitsOf
-----------------------------------------------------------------------------
(* The entries of a nar, in its states *)

\* File k's parts come after the first n of e, and m are as many as come then.
FileAt(e, n, m, k, split) ==
    IF split THEN m = n + 2 /\ e[n + 1] = Meta(k) /\ e[n + 2] = Data(k)
    ELSE m = n + 1 /\ e[n + 1] = Whole(k)

NarFacts ==
    /\ Len(nar) \in Nat /\ Input \in Seq(Part) /\ Wanted \in Seq(Part)
    /\ Len(Input) \in Nat /\ Len(Wanted) \in Nat
    /\ \A k \in 0..Len(nar) : Taken(k) \in Nat /\ Due(k) \in Nat
    /\ Taken(0) = 0 /\ Due(0) = 0
    /\ Taken(Len(nar)) = Len(Input) /\ Due(Len(nar)) = Len(Wanted)
    /\ \A j, k \in 0..Len(nar) : j < k => Taken(j) < Taken(k) /\ Due(j) < Due(k)
    /\ \A k \in 0..Len(nar) - 1 :
        /\ nar[k + 1] \in File
        /\ FileAt(Input, Taken(k), Taken(k + 1), k + 1, mode = "collapse" /\ Splits(nar[k + 1]))
        /\ FileAt(Wanted, Due(k), Due(k + 1), k + 1, mode = "expand" /\ Splits(nar[k + 1]))

LEMMA NarShape == ASSUME mode \in {"expand", "collapse"}, nar \in Seq(File) PROVE NarFacts
<1> DEFINE n == Len(nar)
           c == Collapsed(nar)
           e == Expanded(nar)
<1>1. n \in Nat
  BY LenProperties
<1>2. Shape(Upto, e, nar)
  <2>1. \E L : Shape(L, e, nar)
    BY <1>1, ExpandedShape
  <2> QED
    BY <2>1 DEF Upto
<1>3. c \in Seq(Part) /\ Len(c) = n /\ \A i \in 1..n : c[i] = Whole(i)
  <2>1. DOMAIN nar = 1..n
    BY LenProperties
  <2>2. \A i \in 1..n : Whole(i) \in Part
    BY DEF Whole, Part
  <2>3. c \in [1..n -> Part]
    BY <2>1, <2>2 DEF Collapsed
  <2>4. \A i \in 1..n : c[i] = Whole(i)
    BY <2>1 DEF Collapsed
  <2> HIDE DEF c, n
  <2> QED
    BY <1>1, <2>3, <2>4, FunctionIsSeq
<1>4. /\ e \in Seq(Part) /\ Upto \in [0..n -> Nat] /\ Upto[0] = 0 /\ Upto[n] = Len(e)
      /\ \A j, k \in 0..n : j < k => Upto[j] < Upto[k]
  BY <1>2 DEF Shape
<1>5. ASSUME NEW k \in 0..n - 1
      PROVE  /\ nar[k + 1] \in File
             /\ FileAt(e, Upto[k], Upto[k + 1], k + 1, Splits(nar[k + 1]))
             /\ FileAt(c, k, k + 1, k + 1, FALSE)
  <2>1. k + 1 \in 1..n /\ k + 1 - 1 = k /\ k \in 0..n /\ k \in Nat
    BY <1>1
  <2>2. nar[k + 1] \in File
    BY <2>1, ElementOfSeq
  <2>3. IF Splits(nar[k + 1])
        THEN Upto[k + 1] = Upto[k] + 2 /\ e[Upto[k] + 1] = Meta(k + 1) /\ e[Upto[k + 1]] = Data(k + 1)
        ELSE Upto[k + 1] = Upto[k] + 1 /\ e[Upto[k + 1]] = Whole(k + 1)
    <3> DEFINE f == k + 1
    <3>1. f \in 1..n /\ f - 1 = k
      BY <2>1
    <3> HIDE DEF f
    <3>2. IF Splits(nar[f])
          THEN Upto[f] = Upto[f - 1] + 2 /\ e[Upto[f - 1] + 1] = Meta(f) /\ e[Upto[f]] = Data(f)
          ELSE Upto[f] = Upto[f - 1] + 1 /\ e[Upto[f]] = Whole(f)
      BY <1>2, <3>1 DEF Shape
    <3> QED
      BY <3>1, <3>2 DEF f
  <2>4. FileAt(e, Upto[k], Upto[k + 1], k + 1, Splits(nar[k + 1]))
    BY <2>3 DEF FileAt
  <2>5. FileAt(c, k, k + 1, k + 1, FALSE)
    BY <1>3, <2>1 DEF FileAt
  <2> QED
    BY <2>2, <2>4, <2>5
<1>6. CASE mode = "expand"
  <2>1. Input = c /\ Wanted = e
    BY <1>6 DEF Input, Wanted
  <2>2. \A k : Taken(k) = k /\ Due(k) = Upto[k]
    BY <1>6 DEF Taken, Due
  <2> HIDE DEF c, e, n
  <2>3. /\ Len(Input) \in Nat /\ Len(Wanted) \in Nat
        /\ \A k \in 0..n : Taken(k) \in Nat /\ Due(k) \in Nat
        /\ \A j, k \in 0..n : j < k => Taken(j) < Taken(k) /\ Due(j) < Due(k)
    <3>1. Len(Input) \in Nat /\ Len(Wanted) \in Nat
      BY <1>3, <1>4, <2>1, LenProperties
    <3>2. ASSUME NEW k \in 0..n PROVE Upto[k] \in Nat /\ k \in Nat
      BY <1>1, <1>4
    <3>3. ASSUME NEW j \in 0..n, NEW k \in 0..n, j < k PROVE Upto[j] < Upto[k]
      BY <1>4, <3>3
    <3> QED
      BY <2>2, <3>1, <3>2, <3>3
  <2>4. ASSUME NEW k \in 0..n - 1
        PROVE  /\ FileAt(Input, Taken(k), Taken(k + 1), k + 1, mode = "collapse" /\ Splits(nar[k + 1]))
               /\ FileAt(Wanted, Due(k), Due(k + 1), k + 1, mode = "expand" /\ Splits(nar[k + 1]))
    BY <1>5, <1>6, <2>1, <2>2 DEF FileAt
  <2> QED
    BY <1>1, <1>3, <1>4, <1>5, <2>1, <2>2, <2>3, <2>4 DEF NarFacts, n
<1>7. CASE mode = "collapse"
  <2>1. Input = e /\ Wanted = c
    BY <1>7 DEF Input, Wanted
  <2>2. \A k : Taken(k) = Upto[k] /\ Due(k) = k
    BY <1>7 DEF Taken, Due
  <2> HIDE DEF c, e, n
  <2>3. /\ Len(Input) \in Nat /\ Len(Wanted) \in Nat
        /\ \A k \in 0..n : Taken(k) \in Nat /\ Due(k) \in Nat
        /\ \A j, k \in 0..n : j < k => Taken(j) < Taken(k) /\ Due(j) < Due(k)
    <3>1. Len(Input) \in Nat /\ Len(Wanted) \in Nat
      BY <1>3, <1>4, <2>1, LenProperties
    <3>2. ASSUME NEW k \in 0..n PROVE Upto[k] \in Nat /\ k \in Nat
      BY <1>1, <1>4
    <3>3. ASSUME NEW j \in 0..n, NEW k \in 0..n, j < k PROVE Upto[j] < Upto[k]
      BY <1>4, <3>3
    <3> QED
      BY <2>2, <3>1, <3>2, <3>3
  <2>4. ASSUME NEW k \in 0..n - 1
        PROVE  /\ FileAt(Input, Taken(k), Taken(k + 1), k + 1, mode = "collapse" /\ Splits(nar[k + 1]))
               /\ FileAt(Wanted, Due(k), Due(k + 1), k + 1, mode = "expand" /\ Splits(nar[k + 1]))
    BY <1>5, <1>7, <2>1, <2>2 DEF FileAt
  <2> QED
    BY <1>1, <1>3, <1>4, <1>5, <2>1, <2>2, <2>3, <2>4 DEF NarFacts, n
<1> QED
  BY <1>6, <1>7

\* Which filter it is and its nar never change, and what depends on these alone.
Frozen ==
    /\ mode' = mode /\ nar' = nar /\ Input' = Input /\ Wanted' = Wanted
    /\ Buffered' = Buffered
    /\ \A k : Taken(k)' = Taken(k) /\ Due(k)' = Due(k)

LEMMA StaysFrozen == ASSUME mode' = mode, nar' = nar PROVE Frozen
<1>1. Upto' = Upto
  BY DEF Upto
<1>2. Input' = Input /\ Wanted' = Wanted
  BY DEF Input, Wanted
<1>3. Buffered' = Buffered
  BY DEF Buffered, Fits
<1>4. ASSUME NEW k PROVE Taken(k)' = Taken(k) /\ Due(k)' = Due(k)
  BY <1>1 DEF Taken, Due
<1> QED
  BY <1>1, <1>2, <1>3, <1>4 DEF Frozen
-----------------------------------------------------------------------------
(* What the states of the invariant have in common *)

LEMMA LeastProperties ==
    ASSUME NEW a \in Nat, NEW b \in Nat
    PROVE  Least(a, b) \in Nat /\ Least(a, b) <= a /\ Least(a, b) <= b
BY DEF Least

LEMMA LineFacts ==
    ASSUME TypeInv
    PROVE  /\ cur \in Seq(Buffer) /\ ents \in Seq(Buffer) /\ pend \in Seq(Buffer)
           /\ cur \o ents \in Seq(Buffer) /\ InFlight \in Seq(Buffer)
           /\ Len(InFlight) \in Nat /\ Len(out) \in Nat /\ Gone \in Nat
<1>1. \A s \in Seq(Buffered) : s \in Seq(Buffer)
  <2>1. Buffered \subseteq Buffer
    BY DEF Buffered
  <2> QED
    BY <2>1, SeqMonotonic
<1>2. cur \in Seq(Buffer) /\ ents \in Seq(Buffer) /\ pend \in Seq(Buffer)
  BY <1>1 DEF TypeInv
<1>3. cur \o ents \in Seq(Buffer)
  BY <1>2, LineConcat
<1>4. InFlight \in Seq(Buffer)
  BY <1>2, <1>3, LineConcat DEF InFlight
<1>5. Len(InFlight) \in Nat
  BY <1>4, LenProperties
<1>6. Len(out) \in Nat /\ (wpc = "release" => Len(out) # 0)
  BY EmptySeq, LenProperties DEF TypeInv
<1> QED
  BY <1>2, <1>3, <1>4, <1>5, <1>6 DEF Gone

LEMMA TypeFacts == ASSUME TypeInv PROVE NarFacts /\ BufferBytes \in Nat \ {0}
BY NarShape, NarExpanderAssumption DEF TypeInv

\* The file that is read.
LEMMA HereFile ==
    ASSUME TypeInv, NEW k \in 0..Len(nar) - 1, pos = Taken(k + 1)
    PROVE  /\ nar[k + 1] \in File
           /\ Here = IF mode = "collapse" /\ Splits(nar[k + 1]) THEN Data(k + 1) ELSE Whole(k + 1)
           /\ Here.of = k + 1
           /\ Size \in Nat /\ Permits \in Nat /\ Permits <= BufferBytes
           /\ pos \in 1..Len(Input)
<1>1. NarFacts /\ BufferBytes \in Nat \ {0}
  BY TypeFacts
<1>2. /\ nar[k + 1] \in File
      /\ FileAt(Input, Taken(k), Taken(k + 1), k + 1, mode = "collapse" /\ Splits(nar[k + 1]))
      /\ Len(nar) \in Nat /\ Len(Input) \in Nat
      /\ Taken(k) \in Nat /\ Taken(k + 1) \in Nat
      /\ Taken(k) < Taken(k + 1) /\ Taken(k + 1) <= Len(Input)
  <2>1. Len(nar) \in Nat /\ k \in 0..Len(nar) /\ k + 1 \in 0..Len(nar) /\ k < k + 1 /\ Len(nar) \in 0..Len(nar)
    BY <1>1 DEF NarFacts
  <2>2. \A i, j \in 0..Len(nar) : i < j => Taken(i) < Taken(j)
    BY <1>1 DEF NarFacts
  <2>3. Taken(k) < Taken(k + 1)
    BY <2>1, <2>2
  <2>4. k + 1 < Len(nar) => Taken(k + 1) < Taken(Len(nar))
    BY <2>1, <2>2
  <2>5. Taken(Len(nar)) = Len(Input) /\ Len(Input) \in Nat
    BY <1>1 DEF NarFacts
  <2>6. Taken(k) \in Nat /\ Taken(k + 1) \in Nat
    BY <1>1, <2>1 DEF NarFacts
  <2>7. k + 1 = Len(nar) => Taken(k + 1) = Taken(Len(nar))
    OBVIOUS
  <2>8. Taken(k + 1) <= Len(Input)
    BY <2>1, <2>4, <2>5, <2>6, <2>7
  <2>9. /\ nar[k + 1] \in File
        /\ FileAt(Input, Taken(k), Taken(k + 1), k + 1, mode = "collapse" /\ Splits(nar[k + 1]))
    BY <1>1 DEF NarFacts
  <2> QED
    BY <2>1, <2>3, <2>5, <2>6, <2>8, <2>9
<1>3. Here = IF mode = "collapse" /\ Splits(nar[k + 1]) THEN Data(k + 1) ELSE Whole(k + 1)
  BY <1>2 DEF FileAt, Here
<1>4. Here.of = k + 1 /\ Here.form = IF mode = "collapse" /\ Splits(nar[k + 1]) THEN "data" ELSE "whole"
  BY <1>3 DEF Whole, Data
<1>5. nar[k + 1].size \in Nat
  BY <1>2 DEF File
<1>6. Size \in Nat
  <2>1. CASE Here.form = "data"
    <3>1. nar[k + 1].kind = "xz"
      BY <1>4, <2>1 DEF Splits
    <3>2. nar[k + 1].packed \in Packed
      BY <1>2, <3>1 DEF File
    <3>3. Announced(nar[k + 1].packed) \in Nat
      BY <3>2, AnnouncedNat
    <3> QED
      BY <1>4, <1>5, <2>1, <3>3 DEF Size
  <2>2. CASE Here.form # "data"
    BY <1>4, <1>5, <2>2 DEF Size
  <2> QED
    BY <2>1, <2>2
<1>7. Permits \in Nat /\ Permits <= BufferBytes
  BY <1>1, <1>6, LeastProperties DEF Permits
<1>8. pos \in 1..Len(Input)
  BY <1>2
<1> QED
  BY <1>2, <1>3, <1>4, <1>6, <1>7, <1>8

\* What goes on while nothing is made, lost or written.
LEMMA SameLine ==
    ASSUME IInv, Frozen, InFlight' = InFlight, UNCHANGED <<out, end, hurt>>, Gone' = Gone
    PROVE  /\ FlowInv' /\ NoFalseAlarm'
           /\ (Failing' <=> Failing) /\ (Complete' <=> Complete)
           /\ PermitsOf(InFlight)' = PermitsOf(InFlight)
           /\ ErrorLast(InFlight)' <=> ErrorLast(InFlight)
<1>1. Failing' <=> Failing
  BY DEF Failing, HasError
<1>2. Complete' <=> Complete
  BY <1>1 DEF Complete
<1>3. PermitsOf(InFlight)' = PermitsOf(InFlight)
  BY DEF PermitsOf
<1>4. ErrorLast(InFlight)' <=> ErrorLast(InFlight)
  BY DEF ErrorLast
<1>5. FlowInv'
  BY DEF IInv, FlowInv, Follows, Frozen
<1>6. NoFalseAlarm'
  BY DEF IInv, NoFalseAlarm, Frozen
<1> QED
  BY <1>1, <1>2, <1>3, <1>4, <1>5, <1>6

LEMMA HereSame ==
    ASSUME mode' = mode, nar' = nar, pos' = pos
    PROVE  Here' = Here /\ Size' = Size /\ Permits' = Permits
<1>1. Here' = Here
  BY DEF Here, Input
<1>2. Size' = Size
  BY <1>1 DEF Size
<1> QED
  BY <1>1, <1>2 DEF Permits

\* The file the reader is in, or the next one.
LEMMA ReaderIn ==
    ASSUME IInv, rpc \in {"acquire", "read"}
    PROVE  \E k \in 0..Len(nar) - 1 :
              pos = Taken(k + 1) /\ (Complete => Gone + Len(InFlight) = Due(k))
<1>1. PICK k \in 0..Len(nar) : /\ k # Len(nar) /\ pos = Taken(k + 1)
                               /\ Complete => Gone + Len(InFlight) = Due(k)
  BY DEF IInv, ReadInv
<1>2. Len(nar) \in Nat
  BY LenProperties DEF IInv, TypeInv
<1>3. k \in 0..Len(nar) - 1
  BY <1>1, <1>2
<1> QED
  BY <1>1, <1>3

LEMMA ReaderBetween ==
    ASSUME IInv, rpc \notin {"acquire", "read"}
    PROVE  \E k \in 0..Len(nar) :
              pos = Taken(k) /\ (Complete => Gone + Len(InFlight) = Due(k))
BY DEF IInv, ReadInv

LEMMA NothingPends ==
    ASSUME TypeInv, rpc # "send"
    PROVE  pend = <<>> /\ InFlight = cur \o ents
<1>1. pend = <<>>
  BY DEF TypeInv
<1>2. cur \o ents \in Seq(Buffer)
  BY LineFacts
<1> QED
  BY <1>1, <1>2, ConcatEmptySeq DEF InFlight

LEMMA DueBounds ==
    ASSUME NarFacts, NEW k \in 0..Len(nar) - 1
    PROVE  Due(k) \in Nat /\ Due(k + 1) \in Nat /\ Due(k + 1) <= Len(Wanted)
<1>1. Len(nar) \in Nat /\ k \in 0..Len(nar) /\ k + 1 \in 0..Len(nar) /\ Len(nar) \in 0..Len(nar)
  BY DEF NarFacts
<1>2. /\ Due(k) \in Nat /\ Due(k + 1) \in Nat
      /\ Len(Wanted) \in Nat /\ Due(Len(nar)) = Len(Wanted)
  BY <1>1 DEF NarFacts
<1>3. k + 1 < Len(nar) => Due(k + 1) < Due(Len(nar))
  BY <1>1 DEF NarFacts
<1>4. k + 1 = Len(nar) => Due(k + 1) = Due(Len(nar))
  OBVIOUS
<1> QED
  BY <1>1, <1>2, <1>3, <1>4

\* What goes on when the parts of a file are made.
LEMMA MoreLine ==
    ASSUME IInv, Frozen, rpc \in {"next", "read"}, UNCHANGED <<out, end, hurt>>, Gone' = Gone,
           NEW made \in Seq(Buffer), InFlight' = InFlight \o made, ~HasError(made),
           NEW k \in 0..Len(nar) - 1, Complete => Gone + Len(InFlight) = Due(k),
           Follows(made, Due(k), Wanted), Due(k) + Len(made) = Due(k + 1)
    PROVE  /\ FlowInv' /\ NoFalseAlarm' /\ ~Failing' /\ (Complete' <=> Complete)
           /\ Complete' => Gone' + Len(InFlight)' = Due(k + 1)'
           /\ PermitsOf(InFlight)' = PermitsOf(InFlight) + PermitsOf(made)
<1>0. TypeInv /\ FailInv /\ FlowInv /\ NoFalseAlarm
  BY DEF IInv
<1>1. /\ InFlight \in Seq(Buffer) /\ Len(InFlight) \in Nat /\ Len(made) \in Nat /\ Gone \in Nat
      /\ Len(InFlight)' = Len(InFlight) + Len(made)
  BY <1>0, LineFacts, LineConcat
<1>2. Due(k) \in Nat /\ Due(k + 1)' = Due(k + 1)
  <2>1. NarFacts
    BY <1>0, TypeFacts
  <2>2. k \in 0..Len(nar)
    BY <2>1 DEF NarFacts
  <2> QED
    BY <2>1, <2>2 DEF NarFacts, Frozen
<1>3. ~Failing /\ ~Failing'
  <2>1. ~HasError(InFlight)
    BY <1>0 DEF FailInv, Failing
  <2>2. ~HasError(InFlight')
    BY <1>1, <2>1, ErrorConcat
  <2> QED
    BY <2>1, <2>2 DEF Failing, HasError
<1>4. Complete' <=> Complete
  BY <1>3 DEF Complete
<1>5. Complete' => Gone' + Len(InFlight)' = Due(k + 1)'
  BY <1>1, <1>2, <1>4
<1>6. PermitsOf(InFlight)' = PermitsOf(InFlight) + PermitsOf(made)
  <2>1. PermitsOf(InFlight') = PermitsOf(InFlight) + PermitsOf(made)
    BY <1>1, PermitsConcat
  <2> QED
    BY <2>1 DEF PermitsOf
<1>7. FlowInv'
  <2>1. CASE end = "open"
    <3>1. Complete
      BY <1>3, <2>1 DEF Complete
    <3>2. Follows(InFlight, Gone, Wanted) /\ Follows(made, Gone + Len(InFlight), Wanted)
      BY <1>0, <2>1, <3>1 DEF FlowInv
    <3>3. Follows(InFlight', Gone, Wanted)
      BY <1>1, <3>2, FollowsConcat
    <3>4. Follows(InFlight, Gone, Wanted)'
      BY <3>3 DEF Follows, Frozen
    <3> QED
      BY <1>0, <2>1, <3>4 DEF FlowInv, Frozen
  <2>2. CASE end # "open"
    BY <2>2 DEF FlowInv
  <2> QED
    BY <2>1, <2>2
<1>8. NoFalseAlarm'
  BY <1>0 DEF NoFalseAlarm, Frozen
<1> QED
  BY <1>3, <1>4, <1>5, <1>6, <1>7, <1>8
-----------------------------------------------------------------------------
(* Every step keeps the invariant *)

LEMMA AcquireKeeps == ASSUME IInv, Acquire PROVE IInv'
<1>0. TypeInv /\ FailInv /\ PermitInv /\ CleanEnd
  BY DEF IInv
<1>1. Frozen
  BY StaysFrozen DEF Acquire
<1>2. PICK k \in 0..Len(nar) - 1 : pos = Taken(k + 1) /\ (Complete => Gone + Len(InFlight) = Due(k))
  BY ReaderIn DEF Acquire
<1>3. Permits \in Nat /\ Permits' = Permits
  BY <1>0, <1>2, HereFile, HereSame DEF Acquire
<1>4. TypeInv'
  <2>1. used' \in 0..BufferBytes
    BY <1>0, <1>3, NarExpanderAssumption DEF Acquire, TypeInv
  <2> QED
    BY <1>0, <1>1, <2>1 DEF Acquire, TypeInv, Frozen, writer
<1>5. InFlight' = InFlight /\ Gone' = Gone /\ UNCHANGED <<out, end, hurt>>
  BY DEF Acquire, InFlight, Gone, writer
<1>6. /\ FlowInv' /\ NoFalseAlarm' /\ (Failing' <=> Failing) /\ (Complete' <=> Complete)
      /\ PermitsOf(InFlight)' = PermitsOf(InFlight)
  BY <1>1, <1>5, SameLine
<1>7. FailInv'
  BY <1>0, <1>6 DEF FailInv, Acquire
<1>8. ReadInv'
  <2>1. k \in 0..Len(nar) /\ k # Len(nar)
    BY <1>0, LenProperties DEF TypeInv
  <2>2. rpc' = "read" /\ pos' = Taken(k + 1)' /\ (Complete' => (Gone + Len(InFlight) = Due(k))') /\ nar' = nar
    BY <1>1, <1>2, <1>5, <1>6 DEF Acquire, Frozen
  <2> QED
    BY <2>1, <2>2 DEF ReadInv
<1>9. PermitInv'
  <2>1. InHand = 0 /\ InHand' = Permits /\ used' = used + Permits
    BY <1>3 DEF Acquire, InHand
  <2>2. PermitsOf(InFlight) \in Nat /\ used \in Nat
    BY <1>0, LineFacts, PermitsConcat DEF TypeInv
  <2> QED
    BY <1>0, <1>3, <1>6, <2>1, <2>2 DEF PermitInv
<1>10. CleanEnd'
  BY <1>0, <1>5 DEF Acquire, CleanEnd
<1> QED
  BY <1>4, <1>6, <1>7, <1>8, <1>9, <1>10 DEF IInv

\* The reader finds a file, or the end.
LEMMA NextFile ==
    ASSUME IInv, rpc = "next", pos < Len(Input)
    PROVE  \E k \in 0..Len(nar) - 1 :
              /\ pos = Taken(k) /\ (Complete => Gone + Len(InFlight) = Due(k))
              /\ IF Input[pos + 1].form = "meta" THEN Taken(k + 1) = pos + 2
                 ELSE Taken(k + 1) = pos + 1 /\ Input[pos + 1] = Whole(k + 1)
<1>0. TypeInv
  BY DEF IInv
<1>1. PICK k \in 0..Len(nar) : pos = Taken(k) /\ (Complete => Gone + Len(InFlight) = Due(k))
  BY ReaderBetween
<1>2. NarFacts
  BY <1>0, TypeFacts
<1>3. k \in 0..Len(nar) - 1 /\ k + 1 \in Nat
  <2>1. k # Len(nar)
    BY <1>1, <1>2 DEF NarFacts
  <2> QED
    BY <1>2, <2>1 DEF NarFacts
<1>4. FileAt(Input, Taken(k), Taken(k + 1), k + 1, mode = "collapse" /\ Splits(nar[k + 1]))
  BY <1>2, <1>3 DEF NarFacts
<1>5. Meta(k + 1).form = "meta" /\ Whole(k + 1).form = "whole"
  BY DEF Meta, Whole
<1>6. IF Input[pos + 1].form = "meta" THEN Taken(k + 1) = pos + 2
      ELSE Taken(k + 1) = pos + 1 /\ Input[pos + 1] = Whole(k + 1)
  BY <1>1, <1>4, <1>5 DEF FileAt
<1> QED
  BY <1>1, <1>3, <1>6

LEMMA ReadNextKeeps == ASSUME IInv, ReadNext PROVE IInv'
<1>0. TypeInv /\ FailInv /\ PermitInv /\ CleanEnd
  BY DEF IInv
<1>1. Frozen
  BY StaysFrozen DEF ReadNext
<1>2. PICK k \in 0..Len(nar) - 1 :
         /\ pos = Taken(k) /\ (Complete => Gone + Len(InFlight) = Due(k))
         /\ IF Input[pos + 1].form = "meta" THEN Taken(k + 1) = pos + 2
            ELSE Taken(k + 1) = pos + 1 /\ Input[pos + 1] = Whole(k + 1)
  BY NextFile DEF ReadNext
<1>3. /\ Gone' = Gone /\ UNCHANGED <<out, end, hurt>>
      /\ pend = <<>> /\ InFlight = cur \o ents
      /\ Len(nar) \in Nat /\ k \in 0..Len(nar) /\ k + 1 \in 0..Len(nar) /\ k + 1 \in 1..Len(nar) /\ k # Len(nar)
  BY <1>0, NothingPends, LenProperties DEF ReadNext, Gone, writer, TypeInv
<1>4. CleanEnd'
  BY <1>0 DEF ReadNext, CleanEnd, writer
<1>5. PermitsOf(InFlight) \in Nat /\ used \in Nat /\ used' = used /\ InHand = 0 /\ InHand' = 0
  <2>1. rpc' # "read"
    BY DEF ReadNext
  <2> QED
    BY <1>0, <2>1, LineFacts, PermitsConcat DEF TypeInv, ReadNext, InHand
<1>6. CASE rpc' = "acquire" /\ UNCHANGED pend /\ pos' = Taken(k + 1)
  <2>1. TypeInv'
    BY <1>0, <1>1, <1>3, <1>6 DEF ReadNext, TypeInv, Frozen, writer
  <2>2. InFlight' = InFlight
    BY <1>6 DEF ReadNext, InFlight, writer
  <2>3. /\ FlowInv' /\ NoFalseAlarm' /\ (Failing' <=> Failing) /\ (Complete' <=> Complete)
        /\ PermitsOf(InFlight)' = PermitsOf(InFlight)
    BY <1>1, <1>3, <2>2, SameLine
  <2>4. FailInv'
    BY <1>0, <2>3 DEF FailInv, ReadNext
  <2>5. ReadInv'
    <3>1. /\ rpc' = "acquire" /\ pos' = Taken(k + 1)' /\ nar' = nar
          /\ Complete' => (Gone + Len(InFlight) = Due(k))'
      BY <1>1, <1>2, <1>3, <1>6, <2>2, <2>3 DEF Frozen
    <3> QED
      BY <1>3, <3>1 DEF ReadInv
  <2>6. PermitInv'
    BY <1>0, <1>5, <2>3 DEF PermitInv
  <2> QED
    BY <1>4, <2>1, <2>3, <2>4, <2>5, <2>6 DEF IInv
<1>7. CASE /\ rpc' = "send" /\ pend' = <<Sent(Input[pos + 1], 0, 0)>> /\ pos' = Taken(k + 1)
           /\ Input[pos + 1] = Whole(k + 1) /\ nar[k + 1].kind = "dir"
  <2> DEFINE e == Sent(Whole(k + 1), 0, 0)
  <2>1. ~Splits(nar[k + 1])
    BY <1>7 DEF Splits
  <2>2. e \in Buffer /\ e \in Buffered /\ e.ent = Whole(k + 1) /\ e.ent # Error /\ e.permits = 0
    <3>1. Whole(k + 1) \in Part /\ Whole(k + 1).of = k + 1 /\ Whole(k + 1).form = "whole"
      BY <1>3 DEF Whole, Part
    <3>2. Fits(Whole(k + 1))
      BY <1>3, <2>1, <3>1 DEF Fits
    <3>3. Least(BufferBytes, 0) = 0
      BY NarExpanderAssumption DEF Least
    <3>4. e \in Buffer /\ e.ent = Whole(k + 1) /\ e.size = 0 /\ e.permits = 0
      BY <3>1 DEF Sent, Buffer
    <3>5. Whole(k + 1) # Error
      BY DEF Whole, Error
    <3> HIDE DEF e
    <3> QED
      BY <3>2, <3>3, <3>4, <3>5 DEF Buffered
  <2>3. pend' = <<e>>
    BY <1>7
  <2> HIDE DEF e
  <2>4. pend' \in Seq(Buffered) /\ Len(pend') = 1 /\ pend' # <<>>
    BY <2>2, <2>3
  <2>5. TypeInv'
    BY <1>0, <1>1, <1>7, <2>4 DEF ReadNext, TypeInv, Frozen, writer
  <2>6. InFlight' = InFlight \o <<e>>
    BY <1>3, <2>3 DEF ReadNext, InFlight, writer
  <2>7. <<e>> \in Seq(Buffer) /\ Len(<<e>>) = 1 /\ ~HasError(<<e>>)
    BY <2>2, LineOne DEF HasError
  <2>8. Follows(<<e>>, Due(k), Wanted) /\ Due(k) + Len(<<e>>) = Due(k + 1)
    <3>1. NarFacts
      BY <1>0, TypeFacts
    <3>2. FileAt(Wanted, Due(k), Due(k + 1), k + 1, mode = "expand" /\ Splits(nar[k + 1]))
      BY <3>1 DEF NarFacts
    <3>3. Due(k + 1) = Due(k) + 1 /\ Wanted[Due(k) + 1] = Whole(k + 1)
      BY <2>1, <3>2 DEF FileAt
    <3>4. Due(k + 1) <= Len(Wanted)
      BY <3>1, DueBounds
    <3> QED
      BY <2>2, <2>7, <3>3, <3>4, LineOne DEF Follows
  <2>9. /\ FlowInv' /\ NoFalseAlarm' /\ ~Failing' /\ (Complete' <=> Complete)
        /\ Complete' => Gone' + Len(InFlight)' = Due(k + 1)'
        /\ PermitsOf(InFlight)' = PermitsOf(InFlight) + PermitsOf(<<e>>)
    <3>1. rpc \in {"next", "read"}
      BY DEF ReadNext
    <3> QED
      BY <1>1, <1>2, <1>3, <2>6, <2>7, <2>8, <3>1, MoreLine
  <2>10. FailInv'
    BY <2>9 DEF FailInv
  <2>11. ReadInv'
    <3>1. rpc' = "send" /\ pos' = Taken(k + 1)' /\ nar' = nar
      BY <1>1, <1>7 DEF Frozen
    <3> QED
      BY <1>3, <2>9, <3>1 DEF ReadInv
  <2>12. PermitInv'
    <3>1. PermitsOf(<<e>>) = 0
      BY <2>2, PermitsOne
    <3> QED
      BY <1>0, <1>5, <2>9, <3>1 DEF PermitInv
  <2> QED
    BY <1>4, <2>5, <2>9, <2>10, <2>11, <2>12 DEF IInv
<1>8. \/ rpc' = "acquire" /\ UNCHANGED pend /\ pos' = Taken(k + 1)
      \/ /\ rpc' = "send" /\ pend' = <<Sent(Input[pos + 1], 0, 0)>> /\ pos' = Taken(k + 1)
         /\ Input[pos + 1] = Whole(k + 1) /\ nar[k + 1].kind = "dir"
  <2>1. Whole(k + 1).of = k + 1
    BY DEF Whole
  <2> QED
    BY <1>2, <2>1 DEF ReadNext
<1> QED
  BY <1>6, <1>7, <1>8

\* What is made of the file.
LEMMA MadeOfFile ==
    ASSUME TypeInv, ReadFile, NEW k \in 0..Len(nar) - 1, pos = Taken(k + 1)
    PROVE  /\ pend' \in Seq(Buffered) /\ pend' \in Seq(Buffer)
           /\ pend' # <<>> /\ Len(pend') <= 2 /\ ~HasError(pend')
           /\ Follows(pend', Due(k), Wanted) /\ Due(k) + Len(pend') = Due(k + 1)
           /\ PermitsOf(pend') = Permits
<1>1. NarFacts /\ BufferBytes \in Nat
  BY TypeFacts
<1>2. /\ Due(k) \in Nat /\ Due(k + 1) <= Len(Wanted) /\ Len(Wanted) \in Nat
      /\ k + 1 \in Nat /\ k + 1 \in 1..Len(nar)
      /\ FileAt(Wanted, Due(k), Due(k + 1), k + 1, mode = "expand" /\ Splits(nar[k + 1]))
  BY <1>1, DueBounds DEF NarFacts
<1>3. /\ Here = IF mode = "collapse" /\ Splits(nar[k + 1]) THEN Data(k + 1) ELSE Whole(k + 1)
      /\ Here.of = k + 1 /\ Size \in Nat /\ Permits \in Nat /\ Permits = Least(BufferBytes, Size)
  BY HereFile DEF Permits
<1> DEFINE w == Sent(Whole(k + 1), Size, Permits)
           m == Sent(Meta(k + 1), 0, 0)
           d == Sent(Data(k + 1), Size, Permits)
<1>4. /\ Whole(k + 1) \in Part /\ Meta(k + 1) \in Part /\ Data(k + 1) \in Part
      /\ Whole(k + 1) # Error /\ Meta(k + 1) # Error /\ Data(k + 1) # Error
      /\ Whole(k + 1).of = k + 1 /\ Whole(k + 1).form = "whole"
      /\ Meta(k + 1).of = k + 1 /\ Meta(k + 1).form = "meta"
      /\ Data(k + 1).of = k + 1 /\ Data(k + 1).form = "data"
  BY <1>2 DEF Whole, Meta, Data, Part, Error
<1>5. /\ w \in Buffer /\ w.ent = Whole(k + 1) /\ w.size = Size /\ w.permits = Permits
      /\ m \in Buffer /\ m.ent = Meta(k + 1) /\ m.size = 0 /\ m.permits = 0
      /\ d \in Buffer /\ d.ent = Data(k + 1) /\ d.size = Size /\ d.permits = Permits
  BY <1>3, <1>4 DEF Sent, Buffer
<1> HIDE DEF w, m, d
<1>6. CASE mode = "expand" /\ Splits(nar[k + 1])
  <2>1. pend' = <<m, d>>
    BY <1>3, <1>6 DEF ReadFile, m, d
  <2>2. m \in Buffered /\ d \in Buffered
    <3>1. Fits(Meta(k + 1)) /\ Fits(Data(k + 1))
      BY <1>2, <1>4, <1>6 DEF Fits
    <3>2. Least(BufferBytes, 0) = 0
      BY <1>1 DEF Least
    <3> QED
      BY <1>3, <1>5, <3>1, <3>2 DEF Buffered
  <2>3. pend' \in Seq(Buffered) /\ pend' \in Seq(Buffer) /\ pend' # <<>> /\ Len(pend') = 2
        /\ pend'[1] = m /\ pend'[2] = d
    BY <1>5, <2>1, <2>2
  <2>4. ~HasError(pend')
    <3>1. \A i \in 1..2 : pend'[i].ent # Error
      BY <1>4, <1>5, <2>3
    <3> QED
      BY <2>3, <3>1 DEF HasError
  <2>5. Due(k + 1) = Due(k) + 2 /\ Wanted[Due(k) + 1] = Meta(k + 1) /\ Wanted[Due(k) + 2] = Data(k + 1)
    BY <1>2, <1>6 DEF FileAt
  <2>6. \A i \in 1..2 : Due(k) + i <= Len(Wanted) /\ pend'[i].ent = Wanted[Due(k) + i]
    BY <1>2, <1>5, <2>3, <2>5
  <2>7. Follows(pend', Due(k), Wanted)
    BY <2>3, <2>6 DEF Follows
  <2>8. PermitsOf(pend') = Permits
    <3>1. <<m>> \in Seq(Buffer) /\ <<d>> \in Seq(Buffer) /\ <<m, d>> = <<m>> \o <<d>>
      BY <1>5, LinePair, LineOne
    <3>3. PermitsOf(<<m>> \o <<d>>) = PermitsOf(<<m>>) + PermitsOf(<<d>>)
      BY <3>1, PermitsConcat
    <3>2. PermitsOf(<<m>>) = 0 /\ PermitsOf(<<d>>) = Permits
      BY <1>5, PermitsOne
    <3> QED
      <4>1. PermitsOf(pend') = PermitsOf(<<m>>) + PermitsOf(<<d>>)
        BY <2>1, <3>1, <3>3
      <4> QED
        BY <1>3, <3>2, <4>1
  <2> QED
    BY <2>3, <2>4, <2>5, <2>7, <2>8
<1>7. CASE ~(mode = "expand" /\ Splits(nar[k + 1]))
  <2>1. pend' = <<w>>
    <3>1. CASE ~Splits(nar[k + 1])
      <4>1. Here = Whole(k + 1)
        BY <1>3, <3>1
      <4>2. pend' = <<Sent(Here, Size, Permits)>>
        BY <1>3, <3>1 DEF ReadFile
      <4> QED
        BY <4>1, <4>2 DEF w
    <3>2. CASE Splits(nar[k + 1]) /\ mode # "expand"
      BY <1>3, <3>2 DEF ReadFile, w
    <3> QED
      BY <1>7, <3>1, <3>2
  <2>2. w \in Buffered
    <3>1. Fits(Whole(k + 1))
      BY <1>2, <1>4, <1>7 DEF Fits
    <3> QED
      BY <1>3, <1>5, <3>1 DEF Buffered
  <2>3. pend' \in Seq(Buffered) /\ pend' \in Seq(Buffer) /\ pend' # <<>> /\ Len(pend') = 1
        /\ pend'[1] = w
    BY <1>5, <2>1, <2>2
  <2>4. ~HasError(pend')
    <3>1. \A i \in 1..1 : pend'[i].ent # Error
      BY <1>4, <1>5, <2>3
    <3> QED
      BY <2>3, <3>1 DEF HasError
  <2>5. Due(k + 1) = Due(k) + 1 /\ Wanted[Due(k) + 1] = Whole(k + 1)
    BY <1>2, <1>7 DEF FileAt
  <2>6. \A i \in 1..1 : Due(k) + i <= Len(Wanted) /\ pend'[i].ent = Wanted[Due(k) + i]
    BY <1>2, <1>5, <2>3, <2>5
  <2>7. Follows(pend', Due(k), Wanted)
    BY <2>3, <2>6 DEF Follows
  <2>8. PermitsOf(pend') = Permits
    BY <1>5, <2>1, PermitsOne
  <2> QED
    BY <2>3, <2>4, <2>5, <2>7, <2>8
<1> QED
  BY <1>6, <1>7

LEMMA ReadFileKeeps == ASSUME IInv, ReadFile PROVE IInv'
<1>0. TypeInv /\ FailInv /\ PermitInv /\ CleanEnd
  BY DEF IInv
<1>1. Frozen
  BY StaysFrozen DEF ReadFile
<1>2. PICK k \in 0..Len(nar) - 1 : pos = Taken(k + 1) /\ (Complete => Gone + Len(InFlight) = Due(k))
  BY ReaderIn DEF ReadFile
<1>3. /\ Gone' = Gone /\ UNCHANGED <<out, end, hurt>>
      /\ pend = <<>> /\ InFlight = cur \o ents
      /\ k + 1 \in 0..Len(nar)
  BY <1>0, NothingPends, LenProperties DEF ReadFile, Gone, writer, TypeInv
<1>4. PICK p \in Seq(Buffer) :
         /\ p = pend' /\ pend' \in Seq(Buffered) /\ pend' # <<>> /\ Len(pend') <= 2 /\ ~HasError(p)
         /\ Follows(p, Due(k), Wanted) /\ Due(k) + Len(p) = Due(k + 1)
         /\ PermitsOf(p) = Permits
  BY <1>0, <1>2, MadeOfFile
<1>5. TypeInv'
  BY <1>0, <1>1, <1>4 DEF ReadFile, TypeInv, Frozen, writer
<1>6. InFlight' = InFlight \o p
  BY <1>3, <1>4 DEF ReadFile, InFlight, writer
<1>7. /\ FlowInv' /\ NoFalseAlarm' /\ ~Failing' /\ (Complete' <=> Complete)
      /\ Complete' => Gone' + Len(InFlight)' = Due(k + 1)'
      /\ PermitsOf(InFlight)' = PermitsOf(InFlight) + PermitsOf(p)
  <2>1. rpc \in {"next", "read"}
    BY DEF ReadFile
  <2> QED
    BY <1>1, <1>2, <1>3, <1>4, <1>6, <2>1, MoreLine
<1>8. FailInv'
  BY <1>7 DEF FailInv
<1>9. ReadInv'
  <2>1. rpc' = "send" /\ pos' = Taken(k + 1)' /\ nar' = nar
    BY <1>1, <1>2 DEF Frozen, ReadFile
  <2> QED
    BY <1>3, <1>7, <2>1 DEF ReadInv
<1>10. PermitInv'
  <2>1. InHand = Permits /\ InHand' = 0 /\ used' = used
    BY DEF ReadFile, InHand
  <2>2. PermitsOf(InFlight) \in Nat /\ Permits \in Nat
    BY <1>0, <1>2, LineFacts, PermitsConcat, HereFile
  <2> QED
    BY <1>0, <1>4, <1>7, <2>1, <2>2 DEF PermitInv
<1>11. CleanEnd'
  BY <1>0 DEF ReadFile, CleanEnd, writer
<1> QED
  BY <1>5, <1>7, <1>8, <1>9, <1>10, <1>11 DEF IInv

\* The error that ends what is sent.
LEMMA ErrorEntry ==
    LET e == Sent(Error, 0, 0) IN
    /\ e \in Buffer /\ e \in Buffered /\ <<e>> \in Seq(Buffered) /\ <<e>> \in Seq(Buffer)
    /\ HasError(<<e>>) /\ ErrorLast(<<e>>) /\ PermitsOf(<<e>>) = 0
    /\ \A gone, wanted : Follows(<<e>>, gone, wanted)
<1> DEFINE e == Sent(Error, 0, 0)
<1>1. e \in Buffer /\ e.ent = Error /\ e.size = 0 /\ e.permits = 0
  BY DEF Sent, Buffer
<1> HIDE DEF e
<1>2. e \in Buffered
  <2>1. Least(BufferBytes, 0) = 0
    BY NarExpanderAssumption DEF Least
  <2> QED
    BY <1>1, <2>1 DEF Buffered
<1>3. <<e>> \in Seq(Buffered)
  BY <1>2
<1>4. <<e>> \in Seq(Buffer) /\ Len(<<e>>) = 1 /\ \A i \in 1..Len(<<e>>) : i = 1 /\ <<e>>[i] = e
  BY <1>1, LineOne
<1>5. HasError(<<e>>) /\ ErrorLast(<<e>>)
  <2>1. 1 \in 1..Len(<<e>>)
    BY <1>4
  <2> QED
    BY <1>1, <1>4, <2>1 DEF HasError, ErrorLast
<1>6. \A gone, wanted : Follows(<<e>>, gone, wanted)
  BY <1>1, <1>4 DEF Follows
<1>7. PermitsOf(<<e>>) = 0
  BY <1>1, PermitsOne
<1> QED
  BY <1>1, <1>2, <1>3, <1>4, <1>5, <1>6, <1>7 DEF e

LEMMA ReadFailsKeeps == ASSUME IInv, ReadFails PROVE IInv'
<1>0. TypeInv /\ FailInv /\ FlowInv /\ PermitInv /\ CleanEnd
  BY DEF IInv
<1>1. Frozen
  BY StaysFrozen DEF ReadFails
<1> DEFINE base == cur \o ents
           e == Sent(Error, 0, 0)
<1>2. /\ e \in Buffer /\ <<e>> \in Seq(Buffered) /\ <<e>> \in Seq(Buffer)
      /\ HasError(<<e>>) /\ ErrorLast(<<e>>) /\ PermitsOf(<<e>>) = 0
      /\ Follows(<<e>>, Gone + Len(base), Wanted)
  BY ErrorEntry
<1>3. base \in Seq(Buffer) /\ pend \in Seq(Buffer) /\ InFlight = base \o pend /\ Gone \in Nat
  BY <1>0, LineFacts DEF InFlight
<1>4. pend' = <<e>> /\ InFlight' = base \o <<e>> /\ Gone' = Gone
  BY DEF ReadFails, InFlight, Gone, writer
<1>5. <<e>> # <<>> /\ Len(<<e>>) = 1
  OBVIOUS
<1> HIDE DEF base, e
<1>6. ~HasError(base)
  <2>1. HasError(base) => Failing /\ (pend # <<>> => ~ErrorLast(InFlight))
    BY <1>3, ErrorConcat DEF Failing
  <2>2. rpc = "send" => pend # <<>>
    BY <1>0 DEF TypeInv
  <2>3. rpc \in {"next", "read", "send"}
    BY DEF ReadFails
  <2> QED
    BY <1>0, <2>1, <2>2, <2>3 DEF FailInv
<1>7. HasError(InFlight') /\ ErrorLast(InFlight')
  BY <1>2, <1>3, <1>4, <1>6, ErrorConcat
<1>8. Failing' /\ ErrorLast(InFlight)'
  BY <1>7 DEF Failing, HasError, ErrorLast
<1>9. TypeInv'
  BY <1>0, <1>1, <1>2, <1>4, <1>5 DEF ReadFails, TypeInv, Frozen, writer
<1>10. FailInv'
  BY <1>8 DEF FailInv, ReadFails
<1>11. ReadInv'
  <2>1. ~Complete'
    BY <1>8 DEF Complete
  <2>2. rpc' = "send" /\ pos' = pos /\ nar' = nar
    BY DEF ReadFails
  <2>3. \E k \in 0..Len(nar) : pos = Taken(k)
    <3>1. CASE rpc = "read"
      <4>1. PICK k \in 0..Len(nar) - 1 : pos = Taken(k + 1)
        BY <3>1, ReaderIn
      <4>2. k + 1 \in 0..Len(nar)
        BY <1>0, LenProperties DEF TypeInv
      <4> QED
        BY <4>1, <4>2
    <3>2. CASE rpc # "read"
      <4>1. rpc \notin {"acquire", "read"}
        BY <3>2 DEF ReadFails
      <4> QED
        BY <4>1, ReaderBetween
    <3> QED
      BY <3>1, <3>2
  <2>4. \E k \in 0..Len(nar) : pos' = Taken(k)'
    BY <1>1, <2>2, <2>3 DEF Frozen
  <2> QED
    BY <2>1, <2>2, <2>4 DEF ReadInv
<1>12. FlowInv'
  <2>1. end' = end /\ out' = out
    BY DEF ReadFails, writer
  <2>2. CASE end = "open"
    <3>1. Follows(InFlight, Gone, Wanted)
      BY <1>0, <2>2 DEF FlowInv
    <3>2. Follows(base, Gone, Wanted)
      BY <1>3, <3>1, FollowsConcat
    <3>3. Follows(InFlight', Gone, Wanted)
      BY <1>2, <1>3, <1>4, <3>2, FollowsConcat
    <3>4. Follows(InFlight, Gone, Wanted)'
      BY <1>1, <1>4, <3>3 DEF Follows, Frozen
    <3> QED
      BY <1>0, <1>1, <2>1, <2>2, <3>4 DEF FlowInv, Frozen
  <2>3. CASE end # "open"
    BY <2>1, <2>3 DEF FlowInv
  <2> QED
    BY <2>2, <2>3
<1>13. PermitInv'
  <2>1. /\ PermitsOf(InFlight) = PermitsOf(base) + PermitsOf(pend)
        /\ PermitsOf(base) \in Nat /\ PermitsOf(pend) \in Nat
    BY <1>3, PermitsConcat
  <2>2. PermitsOf(InFlight') = PermitsOf(base)
    <3>1. PermitsOf(InFlight') = PermitsOf(base) + PermitsOf(<<e>>)
      BY <1>2, <1>3, <1>4, PermitsConcat
    <3> QED
      BY <1>2, <2>1, <3>1
  <2>3. PermitsOf(InFlight)' = PermitsOf(InFlight')
    BY DEF PermitsOf
  <2>4. InHand' = 0 /\ used' = used /\ used \in Nat
    BY <1>0 DEF ReadFails, InHand, TypeInv
  <2>5. InHand \in Nat
    <3>1. CASE rpc = "read"
      <4>1. PICK k \in 0..Len(nar) - 1 : pos = Taken(k + 1)
        BY <3>1, ReaderIn
      <4> QED
        BY <1>0, <3>1, <4>1, HereFile DEF InHand
    <3>2. CASE rpc # "read"
      BY <3>2 DEF InHand
    <3> QED
      BY <3>1, <3>2
  <2>6. ~Complete'
    BY <1>8 DEF Complete
  <2> QED
    BY <1>0, <2>1, <2>2, <2>3, <2>4, <2>5, <2>6 DEF PermitInv
<1>14. NoFalseAlarm'
  BY DEF ReadFails, NoFalseAlarm
<1>15. CleanEnd'
  BY <1>0 DEF ReadFails, CleanEnd, writer
<1> QED
  BY <1>9, <1>10, <1>11, <1>12, <1>13, <1>14, <1>15 DEF IInv

LEMMA SendKeeps == ASSUME IInv, Send PROVE IInv'
<1>0. TypeInv /\ FailInv /\ ReadInv /\ PermitInv /\ CleanEnd
  BY DEF IInv
<1>1. Frozen
  BY StaysFrozen DEF Send
<1>2. /\ pend \in Seq(Buffered) /\ ents \in Seq(Buffered) /\ cur \in Seq(Buffered) /\ pend # <<>>
      /\ pend \in Seq(Buffer) /\ cur \o ents \in Seq(Buffer) /\ InFlight = (cur \o ents) \o pend
  BY <1>0, LineFacts DEF TypeInv, Send, InFlight
<1>3. PICK h \in Buffered, t \in Seq(Buffered) :
         /\ h = Head(pend) /\ t = Tail(pend) /\ h = pend[1] /\ Len(t) = Len(pend) - 1
         /\ Len(pend) \in Nat \ {0}
  BY <1>2, HeadFirst
<1>4. /\ ents' = Append(ents, h) /\ pend' = t
      /\ rpc' = IF t # <<>> THEN "send" ELSE IF h.ent = Error THEN "closed" ELSE "next"
      /\ closed' = (rpc' = "closed")
  BY <1>3 DEF Send
<1>5. InFlight' = InFlight /\ Gone' = Gone /\ UNCHANGED <<out, end, hurt>>
  <2>1. (cur \o Append(ents, Head(pend))) \o Tail(pend) = (cur \o ents) \o pend
    <3>1. PICK c \in Seq(Buffer), e \in Seq(Buffer), p \in Seq(Buffer) :
             c = cur /\ e = ents /\ p = pend /\ p # <<>>
      BY <1>0, <1>2, LineFacts
    <3>2. (c \o Append(e, Head(p))) \o Tail(p) = (c \o e) \o p
      BY <3>1, LineSend
    <3> QED
      BY <3>1, <3>2
  <2> QED
    BY <2>1 DEF Send, InFlight, Gone, writer
<1>6. /\ FlowInv' /\ NoFalseAlarm' /\ (Failing' <=> Failing) /\ (Complete' <=> Complete)
      /\ PermitsOf(InFlight)' = PermitsOf(InFlight)
      /\ ErrorLast(InFlight)' <=> ErrorLast(InFlight)
  BY <1>1, <1>5, SameLine
<1>7. Failing /\ t = <<>> => h.ent = Error
  <2>1. SUFFICES ASSUME Failing, t = <<>> PROVE h.ent = Error
    OBVIOUS
  <2>2. HasError(pend)
    BY <1>0, <1>2, <2>1, ErrorConcat DEF FailInv, Failing
  <2>3. Len(pend) = 1
    <3>1. Len(t) = 0
      BY <2>1
    <3> QED
      BY <1>3, <3>1
  <2> QED
    BY <1>3, <2>2, <2>3 DEF HasError
<1>8. h.ent = Error => Failing
  <2>1. h.ent = Error => HasError(pend)
    BY <1>3 DEF HasError
  <2> QED
    BY <1>2, <2>1, ErrorConcat DEF Failing
<1>9. TypeInv'
  <2>1. ents' \in Seq(Buffered) /\ Len(ents') = Len(ents) + 1 /\ Len(ents) \in Nat
    BY <1>2, <1>3, <1>4, AppendProperties, LenProperties
  <2>2. Len(ents') <= BufferEntries
    BY <2>1, NarExpanderAssumption DEF Send
  <2>3. Len(t) <= 2
    BY <1>0, <1>3 DEF TypeInv
  <2> QED
    BY <1>0, <1>1, <1>3, <1>4, <2>1, <2>2, <2>3 DEF Send, TypeInv, Frozen, writer
<1>10. FailInv'
  BY <1>0, <1>4, <1>5, <1>6, <1>7 DEF FailInv
<1>11. ReadInv'
  <2>1. rpc' \notin {"acquire", "read"} /\ pos' = pos /\ nar' = nar
    BY <1>4 DEF Send
  <2>2. PICK k \in 0..Len(nar) : pos = Taken(k) /\ (Complete => Gone + Len(InFlight) = Due(k))
    BY ReaderBetween DEF Send
  <2>3. pos' = Taken(k)' /\ (Complete' => (Gone + Len(InFlight) = Due(k))')
    BY <1>1, <1>5, <1>6, <2>1, <2>2 DEF Frozen
  <2>4. ~(Complete' /\ rpc' = "closed")
    BY <1>4, <1>6, <1>8 DEF Complete
  <2> QED
    BY <2>1, <2>3, <2>4 DEF ReadInv
<1>12. PermitInv'
  <2>1. InHand = 0 /\ InHand' = 0 /\ used' = used
    BY <1>4 DEF Send, InHand
  <2> QED
    BY <1>0, <1>6, <2>1 DEF PermitInv
<1>13. CleanEnd'
  BY <1>0 DEF Send, CleanEnd, writer
<1> QED
  BY <1>6, <1>9, <1>10, <1>11, <1>12, <1>13 DEF IInv

LEMMA ReadEndKeeps == ASSUME IInv, ReadEnd PROVE IInv'
<1>0. TypeInv /\ FailInv /\ PermitInv /\ CleanEnd
  BY DEF IInv
<1>1. Frozen
  BY StaysFrozen DEF ReadEnd
<1>2. InFlight' = InFlight /\ Gone' = Gone /\ UNCHANGED <<out, end, hurt>>
  BY DEF ReadEnd, InFlight, Gone, writer
<1>3. /\ FlowInv' /\ NoFalseAlarm' /\ (Failing' <=> Failing) /\ (Complete' <=> Complete)
      /\ PermitsOf(InFlight)' = PermitsOf(InFlight)
  BY <1>1, <1>2, SameLine
<1>4. TypeInv'
  BY <1>0, <1>1 DEF ReadEnd, TypeInv, Frozen, writer
<1>5. FailInv'
  BY <1>0, <1>3 DEF FailInv, ReadEnd
<1>6. ReadInv'
  <2>1. PICK k \in 0..Len(nar) : pos = Taken(k) /\ (Complete => Gone + Len(InFlight) = Due(k))
    BY ReaderBetween DEF ReadEnd
  <2>2. rpc' \notin {"acquire", "read"} /\ pos' = pos /\ nar' = nar /\ pos' = Len(Input)'
    BY <1>1 DEF ReadEnd, Frozen
  <2>3. pos' = Taken(k)' /\ (Complete' => (Gone + Len(InFlight) = Due(k))')
    BY <1>1, <1>2, <1>3, <2>1, <2>2 DEF Frozen
  <2> QED
    BY <2>2, <2>3 DEF ReadInv
<1>7. PermitInv'
  <2>1. InHand = 0 /\ InHand' = 0 /\ used' = used
    BY DEF ReadEnd, InHand
  <2> QED
    BY <1>0, <1>3, <2>1 DEF PermitInv
<1>8. CleanEnd'
  BY <1>0 DEF ReadEnd, CleanEnd, writer
<1> QED
  BY <1>3, <1>4, <1>5, <1>6, <1>7, <1>8 DEF IInv

LEMMA HandNat == ASSUME IInv PROVE InHand \in Nat
<1>1. CASE rpc = "read"
  <2>1. PICK k \in 0..Len(nar) - 1 : pos = Taken(k + 1)
    BY <1>1, ReaderIn
  <2>2. TypeInv
    BY DEF IInv
  <2> QED
    BY <1>1, <2>1, <2>2, HereFile DEF InHand
<1>2. CASE rpc # "read"
  BY <1>2 DEF InHand
<1> QED
  BY <1>1, <1>2

\* The writer moves: nothing changes for the reader.
LEMMA ReaderStays ==
    ASSUME IInv, Frozen, UNCHANGED reader,
           Complete' => Complete /\ Gone' + Len(InFlight)' = Gone + Len(InFlight)
    PROVE  ReadInv' /\ InHand' = InHand /\ InHand \in Nat
<1>1. ReadInv /\ rpc' = rpc /\ pos' = pos /\ nar' = nar /\ Input' = Input
  BY DEF IInv, Frozen, reader
<1>2. PICK k \in 0..Len(nar) :
         /\ IF rpc \in {"acquire", "read"} THEN k # Len(nar) /\ pos = Taken(k + 1) ELSE pos = Taken(k)
         /\ Complete => Gone + Len(InFlight) = Due(k)
  BY <1>1 DEF ReadInv
<1>3. /\ Taken(k)' = Taken(k) /\ Taken(k + 1)' = Taken(k + 1) /\ Due(k)' = Due(k)
      /\ k \in (0..Len(nar))'
  BY <1>1 DEF Frozen
<1>4. /\ (IF rpc \in {"acquire", "read"} THEN k # Len(nar) /\ pos = Taken(k + 1) ELSE pos = Taken(k))'
      /\ (Complete => Gone + Len(InFlight) = Due(k))'
  BY <1>1, <1>2, <1>3
<1>5. (Complete /\ rpc = "closed" => pos = Len(Input))'
  BY <1>1 DEF ReadInv
<1>6. ReadInv'
  BY <1>3, <1>4, <1>5 DEF ReadInv
<1>7. InHand' = InHand
  <2>1. Permits' = Permits
    BY <1>1, HereSame DEF Frozen
  <2> QED
    BY <1>1, <2>1 DEF InHand
<1>8. InHand \in Nat
  BY HandNat
<1> QED
  BY <1>6, <1>7, <1>8

\* The writer fails, with or without the entry it had.
LEMMA WriterStops ==
    ASSUME IInv, Frozen, UNCHANGED reader, end' = "err", hurt => hurt', NoFalseAlarm',
           NEW a \in Seq(Buffer), NEW b \in Seq(Buffer), InFlight = a \o b, InFlight' = b,
           NEW n \in Nat, n <= PermitsOf(a), used' = used - n
    PROVE  FailInv' /\ ReadInv' /\ FlowInv' /\ PermitInv' /\ CleanEnd'
<1>0. TypeInv /\ FailInv /\ PermitInv
  BY DEF IInv
<1>1. ~Complete'
  BY DEF Complete
<1>2. ReadInv' /\ InHand' = InHand /\ InHand \in Nat
  BY <1>1, ReaderStays
<1>3. FailInv'
  <2>1. Failing' => HasError(b)
    BY DEF Failing, HasError
  <2>2. HasError(b) => Failing /\ (ErrorLast(InFlight) => ErrorLast(b))
    BY ErrorConcat DEF Failing
  <2>3. ErrorLast(b) => ErrorLast(InFlight)'
    BY DEF ErrorLast
  <2> QED
    BY <1>0, <2>1, <2>2, <2>3 DEF FailInv, reader
<1>4. FlowInv'
  BY DEF FlowInv
<1>5. PermitInv'
  <2>1. PermitsOf(InFlight)' = PermitsOf(b)
    BY DEF PermitsOf
  <2>2. /\ PermitsOf(a) \in Nat /\ PermitsOf(b) \in Nat
        /\ PermitsOf(InFlight) = PermitsOf(a) + PermitsOf(b)
    BY PermitsConcat
  <2>3. PermitsOf(InFlight) + InHand <= used /\ used \in Nat
    BY <1>0 DEF PermitInv, TypeInv
  <2>4. PermitsOf(b) + InHand <= used - n
    BY <1>2, <2>2, <2>3
  <2> QED
    BY <1>1, <1>2, <2>1, <2>4 DEF PermitInv
<1>6. CleanEnd'
  BY DEF CleanEnd
<1> QED
  BY <1>2, <1>3, <1>4, <1>5, <1>6

LEMMA ReceiveKeeps == ASSUME IInv, Receive PROVE IInv'
<1>0. TypeInv /\ FailInv /\ PermitInv /\ CleanEnd
  BY DEF IInv
<1>1. Frozen
  BY StaysFrozen DEF Receive
<1>2. /\ ents \in Seq(Buffered) /\ ents # <<>> /\ cur = <<>> /\ end = "open" /\ wpc = "recv"
      /\ ents \in Seq(Buffer) /\ pend \in Seq(Buffer)
  BY <1>0, LineFacts DEF TypeInv, Receive
<1>3. PICK h \in Buffered, t \in Seq(Buffered) :
         /\ h = Head(ents) /\ t = Tail(ents) /\ Len(t) = Len(ents) - 1 /\ Len(ents) \in Nat \ {0}
         /\ h \in Buffer /\ t \in Seq(Buffer)
  <2>1. /\ Head(ents) \in Buffered /\ Tail(ents) \in Seq(Buffered)
        /\ Len(Tail(ents)) = Len(ents) - 1 /\ Len(ents) \in Nat \ {0}
    BY <1>2, HeadFirst
  <2>2. Head(ents) \in Buffer /\ Tail(ents) \in Seq(Buffer)
    BY <1>2, HeadFirst
  <2> QED
    BY <2>1, <2>2
<1>4. /\ (<<h>> \o t) \o pend = InFlight
      /\ InFlight = <<h>> \o ((<<>> \o t) \o pend)
  <2>1. PICK e \in Seq(Buffer), p \in Seq(Buffer) : e = ents /\ p = pend /\ e # <<>>
    BY <1>2
  <2>2. /\ (<<Head(e)>> \o Tail(e)) \o p = (<<>> \o e) \o p
        /\ (<<>> \o e) \o p = <<Head(e)>> \o ((<<>> \o Tail(e)) \o p)
    BY <2>1, LineReceive
  <2> QED
    BY <1>2, <1>3, <2>1, <2>2 DEF InFlight
<1>5. ents' = t /\ UNCHANGED reader /\ pend' = pend /\ used' = used /\ hurt' = hurt /\ out' = out
  BY <1>3 DEF Receive, reader
<1>6. Gone' = Gone
  BY <1>2 DEF Receive, WriterFails, Gone
<1>7. CASE h.ent # Error
  <2>1. wpc' = "write" /\ cur' = <<h>> /\ end' = end
    BY <1>3, <1>7 DEF Receive
  <2>2. TypeInv'
    <3>1. cur' \in Seq(Buffered) /\ Len(cur') = 1 /\ cur' # <<>> /\ cur'[1].ent # Error
      BY <1>3, <1>7, <2>1
    <3>2. Len(t) <= BufferEntries
      BY <1>0, <1>3, NarExpanderAssumption DEF TypeInv
    <3> QED
      BY <1>0, <1>1, <1>2, <1>3, <1>5, <2>1, <3>1, <3>2 DEF Receive, TypeInv, Frozen, reader
  <2>3. InFlight' = InFlight
    BY <1>4, <1>5, <2>1 DEF InFlight
  <2>4. /\ FlowInv' /\ NoFalseAlarm' /\ (Failing' <=> Failing) /\ (Complete' <=> Complete)
        /\ PermitsOf(InFlight)' = PermitsOf(InFlight)
        /\ ErrorLast(InFlight)' <=> ErrorLast(InFlight)
    BY <1>1, <1>5, <1>6, <2>1, <2>3, SameLine
  <2>5. FailInv'
    BY <1>0, <1>5, <2>4 DEF FailInv, reader
  <2>6. ReadInv' /\ InHand' = InHand
    BY <1>1, <1>5, <1>6, <2>3, <2>4, ReaderStays
  <2>7. PermitInv'
    BY <1>0, <1>5, <2>4, <2>6 DEF PermitInv
  <2>8. CleanEnd'
    BY <1>2, <2>1 DEF CleanEnd
  <2> QED
    BY <2>2, <2>4, <2>5, <2>6, <2>7, <2>8 DEF IInv
<1>8. CASE h.ent = Error
  <2>1. wpc' = "done" /\ end' = "err" /\ cur' = <<>>
    BY <1>2, <1>3, <1>8 DEF Receive, WriterFails
  <2>2. TypeInv'
    <3>1. Len(t) <= BufferEntries
      BY <1>0, <1>3, NarExpanderAssumption DEF TypeInv
    <3> QED
      BY <1>0, <1>1, <1>2, <1>3, <1>5, <2>1, <3>1 DEF Receive, TypeInv, Frozen, reader
  <2>3. PICK a \in Seq(Buffer), b \in Seq(Buffer) :
           /\ a = <<h>> /\ InFlight = a \o b /\ InFlight' = b
    <3>1. <<h>> \in Seq(Buffer)
      BY <1>3, LineOne
    <3>2. InFlight' = (<<>> \o t) \o pend
      BY <1>5, <2>1 DEF InFlight
    <3>3. (<<>> \o t) \in Seq(Buffer)
      BY <1>3, ConcatEmptySeq
    <3>4. (<<>> \o t) \o pend \in Seq(Buffer)
      BY <1>2, <3>3, LineConcat
    <3> QED
      BY <1>4, <3>1, <3>2, <3>4
  <2>4. hurt
    <3>1. HasError(a)
      BY <1>3, <1>8, <2>3, LineOne DEF HasError
    <3>2. Failing
      BY <2>3, <3>1, ErrorConcat DEF Failing
    <3> QED
      BY <1>0, <3>2 DEF FailInv
  <2>5. NoFalseAlarm'
    BY <1>5, <2>4 DEF NoFalseAlarm
  <2>6. FailInv' /\ ReadInv' /\ FlowInv' /\ PermitInv' /\ CleanEnd'
    <3>1. PermitsOf(a) \in Nat /\ 0 \in Nat /\ 0 <= PermitsOf(a)
      BY PermitsConcat
    <3>2. used' = used - 0
      BY <1>0, <1>5 DEF TypeInv
    <3> QED
      BY <1>1, <1>5, <2>1, <2>3, <2>5, <3>1, <3>2, WriterStops
  <2> QED
    BY <2>2, <2>5, <2>6 DEF IInv
<1> QED
  BY <1>7, <1>8

\* What is made of a file is of another size than its header says only when the
\* options cannot tell of that file.
LEMMA WrongSize ==
    ASSUME TypeInv, NEW e \in Part, Fits(e), NEW n \in Given(e), n # Header(e)
    PROVE  \E i \in DOMAIN nar : Splits(nar[i]) /\ ~Plain(nar[i].packed)
<1>1. e.of \in 1..Len(nar) /\ e.of \in DOMAIN nar /\ nar[e.of] \in File /\ mode \in {"expand", "collapse"}
  BY ElementOfSeq, LenProperties DEF TypeInv, Fits
<1> DEFINE f == nar[e.of]
<1>2. ~(~Splits(f) \/ e.form = "meta")
  <2>1. ~Splits(f) => e.form = "whole"
    BY DEF Fits
  <2> QED
    BY <2>1 DEF Given, Header
<1>3. f.packed \in Packed
  <2>1. f.kind = "xz"
    BY <1>2 DEF Splits
  <2> QED
    BY <1>1, <2>1 DEF File
<1>4. ~Plain(f.packed)
  <2>1. SUFFICES ASSUME Plain(f.packed) PROVE FALSE
    OBVIOUS
  <2>2. CASE mode = "expand"
    <3>1. e.form = "data"
      BY <1>2, <2>2 DEF Fits
    <3>2. n = Contents(f.packed) /\ Header(e) = Announced(f.packed)
      BY <1>2, <2>2, <3>1 DEF Given, Header
    <3> QED
      BY <1>3, <2>1, <3>2, PlainHonest
  <2>3. CASE mode # "expand"
    <3>1. e.form = "whole"
      BY <2>3 DEF Fits
    <3>2. n \in Recompressed(f.packed, f.size) /\ Header(e) = f.size
      BY <1>2, <2>3, <3>1 DEF Given, Header
    <3>3. SameAgain(f.packed)
      BY <1>3, <2>1, PlainSame
    <3>4. Recompressed(f.packed, f.size) = {f.size}
      BY <3>3 DEF Recompressed, SameAgain
    <3> QED
      BY <3>2, <3>4
  <2> QED
    BY <2>2, <2>3
<1> QED
  BY <1>1, <1>2, <1>4

\* The entry that is written is the first of those held.
LEMMA EntryFacts ==
    ASSUME TypeInv, wpc \in {"write", "release"}
    PROVE  \E c \in Buffered, b \in Seq(Buffer) :
              /\ cur = <<c>> /\ c = cur[1] /\ c \in Buffer /\ <<c>> \in Seq(Buffer)
              /\ c.ent \in Part /\ c.ent # Error /\ Fits(c.ent)
              /\ b = (<<>> \o ents) \o pend /\ InFlight = <<c>> \o b
              /\ InFlight[1] = c /\ 1 \in 1..Len(InFlight) /\ Len(InFlight) = 1 + Len(b)
              /\ PermitsOf(<<c>>) = c.permits /\ c.permits \in Nat /\ ~HasError(<<c>>)
<1>1. /\ cur \in Seq(Buffered) /\ cur # <<>> /\ Len(cur) <= 1 /\ cur[1].ent # Error
      /\ cur \in Seq(Buffer) /\ ents \in Seq(Buffer) /\ pend \in Seq(Buffer)
  BY LineFacts DEF TypeInv
<1>2. Len(cur) = 1
  <2>1. cur \in Seq(Buffer) /\ cur # <<>>
    BY <1>1
  <2>2. Len(cur) \in Nat /\ Len(cur) # 0
    BY <2>1, EmptySeq, LenProperties
  <2>3. PICK n \in Nat : n = Len(cur) /\ n # 0 /\ n <= 1
    BY <2>2 DEF TypeInv
  <2>4. n = 1
    BY <2>3
  <2> QED
    BY <2>3, <2>4
<1>3. PICK c \in Buffered : c = cur[1]
  <2>1. 1 \in 1..Len(cur)
    BY <1>2
  <2>2. cur[1] \in Buffered
    BY <1>1, <2>1, ElementOfSeq
  <2> QED
    BY <2>2
<1>4. c \in Buffer /\ (c.ent = Error \/ Fits(c.ent)) /\ c.ent \in Part \cup {Error} /\ c.permits \in Nat
  BY DEF Buffered, Buffer
<1>5. <<c>> \in Seq(Buffer) /\ Len(<<c>>) = 1 /\ <<c>>[1] = c /\ \A i \in 1..Len(<<c>>) : i = 1
  BY <1>4, LineOne
<1>6. cur = <<c>>
  <2>1. \A i \in 1..Len(cur) : cur[i] = <<c>>[i]
    BY <1>2, <1>3, <1>5
  <2> QED
    BY <1>1, <1>2, <1>5, <2>1, SeqEqual
<1>7. PICK b \in Seq(Buffer) : b = (<<>> \o ents) \o pend
  <2>1. <<>> \o ents \in Seq(Buffer)
    BY <1>1, ConcatEmptySeq
  <2>2. (<<>> \o ents) \o pend \in Seq(Buffer)
    BY <1>1, <2>1, LineConcat
  <2> QED
    BY <2>2
<1>8. InFlight = <<c>> \o b
  BY <1>1, <1>2, <1>3, <1>7, LineRelease DEF InFlight
<1>9. InFlight[1] = c /\ 1 \in 1..Len(InFlight) /\ Len(InFlight) = 1 + Len(b)
  <2>1. 1 \in 1..Len(<<c>>)
    BY <1>5
  <2> QED
    BY <1>5, <1>8, <2>1, LineConcat
<1>10. PermitsOf(<<c>>) = c.permits /\ ~HasError(<<c>>)
  <2>1. ~HasError(<<c>>)
    BY <1>1, <1>3, <1>5 DEF HasError
  <2> QED
    BY <1>4, <2>1, PermitsOne
<1> QED
  BY <1>1, <1>3, <1>4, <1>5, <1>6, <1>7, <1>8, <1>9, <1>10

LEMMA WriteKeeps == ASSUME IInv, Write PROVE IInv'
<1>0. TypeInv /\ FailInv /\ FlowInv /\ PermitInv /\ end = "open" /\ wpc = "write"
  BY DEF IInv, TypeInv, Write
<1>1. Frozen
  BY StaysFrozen DEF Write
<1>2. PICK c \in Buffered :
         /\ c = cur[1] /\ c.ent \in Part /\ c.ent # Error /\ Fits(c.ent)
         /\ InFlight[1] = c /\ 1 \in 1..Len(InFlight) /\ cur # <<>>
  <2>1. cur # <<>>
    BY <1>0 DEF TypeInv
  <2> QED
    BY <1>0, <2>1, EntryFacts
<1>3. InFlight' = InFlight /\ UNCHANGED reader /\ used' = used /\ cur' = cur /\ ents' = ents /\ pend' = pend
  BY DEF Write, InFlight, reader
<1>4. InFlight \in Seq(Buffer) /\ Len(out) \in Nat /\ out \in Seq(Part)
  BY <1>0, LineFacts DEF TypeInv
<1>5. CASE wpc' = "release" /\ out' = Append(out, c.ent) /\ UNCHANGED <<end, hurt>>
  <2>1. /\ out' \in Seq(Part) /\ Len(out') = Len(out) + 1 /\ out' # <<>>
        /\ \A i \in 1..Len(out) : out'[i] = out[i]
        /\ out'[Len(out) + 1] = c.ent
    <3>1. /\ Append(out, c.ent) \in Seq(Part) /\ Len(Append(out, c.ent)) = Len(out) + 1
          /\ \A i \in 1..Len(out) : Append(out, c.ent)[i] = out[i]
          /\ Append(out, c.ent)[Len(out) + 1] = c.ent
      BY <1>2, <1>4, AppendProperties
    <3>2. Append(out, c.ent) # <<>>
      BY <1>4, <3>1
    <3> QED
      BY <1>5, <3>1, <3>2
  <2>2. TypeInv'
    BY <1>0, <1>1, <1>2, <1>3, <1>5, <2>1 DEF Write, TypeInv, Frozen, reader
  <2>3. Gone = Len(out) /\ Gone' = Len(out)
    <3>1. Gone' = Len(out') - 1
      BY <1>5 DEF Gone
    <3> QED
      BY <1>0, <1>4, <2>1, <3>1 DEF Gone
  <2>4. (Failing' <=> Failing) /\ (ErrorLast(InFlight)' <=> ErrorLast(InFlight))
    BY <1>3 DEF Failing, HasError, ErrorLast
  <2>5. Complete' <=> Complete
    BY <1>5, <2>4 DEF Complete
  <2>6. FailInv'
    BY <1>0, <1>3, <1>5, <2>4 DEF FailInv, reader
  <2>7. ReadInv' /\ InHand' = InHand
    BY <1>1, <1>3, <2>3, <2>5, ReaderStays
  <2>8. FlowInv'
    <3>1. /\ Follows(InFlight, Gone, Wanted) /\ Len(out) <= Len(Wanted)
          /\ \A i \in 1..Len(out) : out[i] = Wanted[i]
      BY <1>0 DEF FlowInv
    <3>2. Len(out) + 1 <= Len(Wanted) /\ c.ent = Wanted[Len(out) + 1]
      BY <1>2, <2>3, <3>1 DEF Follows
    <3>3. \A i \in 1..Len(out') : out'[i] = Wanted[i]
      <4>1. SUFFICES ASSUME NEW i \in 1..Len(out) + 1 PROVE out'[i] = Wanted[i]
        BY <2>1
      <4>2. i \in 1..Len(out) \/ i = Len(out) + 1
        BY <1>4
      <4> QED
        BY <2>1, <3>1, <3>2, <4>2
    <3>4. Follows(InFlight, Gone, Wanted)'
      BY <1>1, <1>3, <2>3, <3>1 DEF Follows, Frozen
    <3> QED
      BY <1>1, <2>1, <3>2, <3>3, <3>4 DEF FlowInv, Frozen
  <2>9. PermitInv'
    <3>1. PermitsOf(InFlight)' = PermitsOf(InFlight)
      BY <1>3 DEF PermitsOf
    <3> QED
      BY <1>0, <1>3, <2>5, <2>7, <3>1 DEF PermitInv
  <2>10. NoFalseAlarm' /\ CleanEnd'
    BY <1>0, <1>5 DEF NoFalseAlarm, CleanEnd
  <2> QED
    BY <2>2, <2>6, <2>7, <2>8, <2>9, <2>10 DEF IInv
<1>6. CASE /\ WriterFails /\ UNCHANGED out /\ (hurt => hurt')
           /\ hurt' \in BOOLEAN
           /\ hurt' \/ \E i \in DOMAIN nar : Splits(nar[i]) /\ ~Plain(nar[i].packed)
  <2>1. wpc' = "done" /\ end' = "err"
    BY <1>6 DEF WriterFails
  <2>2. TypeInv'
    BY <1>0, <1>1, <1>2, <1>3, <1>6, <2>1 DEF Write, TypeInv, Frozen, reader
  <2>3. NoFalseAlarm'
    BY <1>1, <1>6 DEF NoFalseAlarm, Frozen
  <2>4. PICK a \in Seq(Buffer), b \in Seq(Buffer) : a = <<>> /\ InFlight = a \o b /\ InFlight' = b
    <3>1. <<>> \in Seq(Buffer) /\ <<>> \o InFlight = InFlight
      BY <1>4, ConcatEmptySeq
    <3> QED
      BY <1>3, <1>4, <3>1
  <2>5. FailInv' /\ ReadInv' /\ FlowInv' /\ PermitInv' /\ CleanEnd'
    <3>1. PermitsOf(a) \in Nat /\ 0 \in Nat /\ 0 <= PermitsOf(a)
      BY PermitsConcat
    <3>2. used' = used - 0
      BY <1>0, <1>3 DEF TypeInv
    <3> QED
      BY <1>1, <1>3, <1>6, <2>1, <2>3, <2>4, <3>1, <3>2, WriterStops
  <2> QED
    BY <2>2, <2>3, <2>5 DEF IInv
<1>7. \/ wpc' = "release" /\ out' = Append(out, c.ent) /\ UNCHANGED <<end, hurt>>
      \/ /\ WriterFails /\ UNCHANGED out /\ (hurt => hurt')
         /\ hurt' \in BOOLEAN
         /\ hurt' \/ \E i \in DOMAIN nar : Splits(nar[i]) /\ ~Plain(nar[i].packed)
  <2>1. hurt \in BOOLEAN
    BY <1>0 DEF TypeInv
  <2>2. CASE \E n \in Given(c.ent) :
                /\ IF n = Header(c.ent)
                   THEN wpc' = "release" /\ out' = Append(out, c.ent) /\ UNCHANGED end
                   ELSE WriterFails /\ UNCHANGED out
                /\ UNCHANGED hurt
    <3>1. PICK n \in Given(c.ent) :
             /\ IF n = Header(c.ent)
                THEN wpc' = "release" /\ out' = Append(out, c.ent) /\ UNCHANGED end
                ELSE WriterFails /\ UNCHANGED out
             /\ UNCHANGED hurt
      BY <2>2
    <3>2. CASE n = Header(c.ent)
      BY <3>1, <3>2
    <3>3. CASE n # Header(c.ent)
      <4>1. \E i \in DOMAIN nar : Splits(nar[i]) /\ ~Plain(nar[i].packed)
        BY <1>0, <1>2, <3>3, WrongSize
      <4> QED
        BY <2>1, <3>1, <3>3, <4>1
    <3> QED
      BY <3>2, <3>3
  <2>3. CASE WriterFails /\ hurt' = TRUE /\ UNCHANGED out
    BY <2>3
  <2> QED
    BY <1>2, <2>2, <2>3 DEF Write
<1> QED
  BY <1>5, <1>6, <1>7

LEMMA ReleaseKeeps == ASSUME IInv, Release PROVE IInv'
<1>0. TypeInv /\ FailInv /\ FlowInv /\ PermitInv /\ NoFalseAlarm /\ end = "open" /\ wpc = "release"
  BY DEF IInv, TypeInv, Release
<1>1. Frozen
  BY StaysFrozen DEF Release
<1>2. PICK c \in Buffered, b \in Seq(Buffer) :
         /\ c = cur[1] /\ <<c>> \in Seq(Buffer) /\ InFlight = <<c>> \o b /\ b = (<<>> \o ents) \o pend
         /\ Len(InFlight) = 1 + Len(b) /\ PermitsOf(<<c>>) = c.permits /\ c.permits \in Nat
         /\ ~HasError(<<c>>)
  BY <1>0, EntryFacts
<1>3. InFlight' = b
  BY <1>2 DEF Release, InFlight, reader
<1>4. UNCHANGED reader /\ cur' = <<>> /\ ents' = ents /\ pend' = pend /\ used' = used - c.permits /\ out' = out
  BY <1>2 DEF Release, reader
<1>5. /\ PermitsOf(b) \in Nat /\ PermitsOf(InFlight) = c.permits + PermitsOf(b)
      /\ PermitsOf(InFlight)' = PermitsOf(b)
  BY <1>2, <1>3, PermitsConcat DEF PermitsOf
<1>6. InHand \in Nat /\ used \in 0..BufferBytes /\ BufferBytes \in Nat
  BY <1>0, HandNat, NarExpanderAssumption DEF TypeInv
<1>7. used' \in 0..BufferBytes /\ PermitsOf(b) + InHand <= used'
  <2>1. c.permits + PermitsOf(b) + InHand <= used
    BY <1>0, <1>5 DEF PermitInv
  <2>2. used - c.permits \in 0..BufferBytes /\ PermitsOf(b) + InHand <= used - c.permits
    BY <1>2, <1>5, <1>6, <2>1, SMTT(30)
  <2> QED
    BY <1>4, <2>2
<1>8. CASE wpc' = "recv" /\ UNCHANGED <<end, hurt>>
  <2>1. TypeInv'
    BY <1>0, <1>1, <1>4, <1>7, <1>8 DEF TypeInv, Frozen, Release, reader
  <2>2. Len(out) \in Nat /\ Len(b) \in Nat /\ Gone = Len(out) - 1 /\ Gone' = Gone + 1 /\ Gone \in Nat
    BY <1>0, <1>2, <1>4, <1>8, LineFacts, LenProperties DEF Gone
  <2>3. (Failing' <=> Failing) /\ (ErrorLast(InFlight) => ErrorLast(InFlight)')
    <3>1. (HasError(InFlight) <=> HasError(b)) /\ (ErrorLast(InFlight) => ErrorLast(b))
      <4>1. PICK a \in Seq(Buffer) : a = <<c>> /\ ~HasError(a) /\ InFlight = a \o b
        BY <1>2
      <4> QED
        BY <4>1, ErrorConcat
    <3> QED
      BY <1>3, <3>1 DEF Failing, HasError, ErrorLast
  <2>4. Complete' <=> Complete
    BY <1>8, <2>3 DEF Complete
  <2>5. FailInv'
    BY <1>0, <1>4, <1>8, <2>3 DEF FailInv, reader
  <2>6. ReadInv' /\ InHand' = InHand
    <3>1. Gone' + Len(InFlight)' = Gone + Len(InFlight)
      BY <1>2, <1>3, <2>2
    <3> QED
      BY <1>1, <1>4, <2>4, <3>1, ReaderStays
  <2>7. FlowInv'
    <3>1. Follows(InFlight, Gone, Wanted)
      BY <1>0 DEF FlowInv
    <3>2. PICK a \in Seq(Buffer) : a = <<c>> /\ Len(a) = 1 /\ InFlight = a \o b
      BY <1>2
    <3>5. Follows(b, Gone + Len(a), Wanted)
      BY <2>2, <3>1, <3>2, FollowsConcat
    <3>3. Gone' = Gone + Len(a)
      BY <2>2, <3>2
    <3>4. Follows(InFlight, Gone, Wanted)'
      BY <1>1, <1>3, <3>3, <3>5 DEF Follows, Frozen
    <3> QED
      BY <1>0, <1>1, <1>4, <3>4 DEF FlowInv, Frozen
  <2>8. PermitInv'
    <3>1. Complete => used - c.permits = PermitsOf(b) + InHand
      <4>1. Complete => used = c.permits + PermitsOf(b) + InHand
        BY <1>0, <1>5 DEF PermitInv
      <4> QED
        BY <1>2, <1>5, <1>6, <4>1
    <3> QED
      BY <1>4, <1>5, <1>7, <2>4, <2>6, <3>1 DEF PermitInv
  <2>9. NoFalseAlarm' /\ CleanEnd'
    BY <1>0, <1>8 DEF NoFalseAlarm, CleanEnd
  <2> QED
    BY <2>1, <2>5, <2>6, <2>7, <2>8, <2>9 DEF IInv
<1>9. CASE WriterFails /\ hurt' = TRUE
  <2>1. wpc' = "done" /\ end' = "err"
    BY <1>9 DEF WriterFails
  <2>2. TypeInv'
    BY <1>0, <1>1, <1>4, <1>7, <1>9, <2>1 DEF TypeInv, Frozen, Release, reader
  <2>3. NoFalseAlarm'
    BY <1>9 DEF NoFalseAlarm
  <2>4. PICK a \in Seq(Buffer) : a = <<c>>
    BY <1>2
  <2>5. FailInv' /\ ReadInv' /\ FlowInv' /\ PermitInv' /\ CleanEnd'
    <3>1. InFlight = a \o b /\ c.permits <= PermitsOf(a)
      BY <1>2, <2>4
    <3> QED
      BY <1>1, <1>2, <1>3, <1>4, <1>9, <2>1, <2>3, <3>1, WriterStops
  <2> QED
    BY <2>2, <2>3, <2>5 DEF IInv
<1> QED
  BY <1>8, <1>9 DEF Release

\* Both goroutines are through, and so is the nar.
LEMMA FinishFacts ==
    ASSUME IInv, Finish
    PROVE  InFlight = <<>> /\ used = 0 /\ rpc = "closed" /\ end = "open" /\ ~Failing /\ out = Wanted
<1>0. TypeInv /\ ReadInv /\ FlowInv /\ PermitInv /\ NarFacts
  BY TypeFacts DEF IInv
<1>1. rpc = "closed" /\ end = "open" /\ wpc = "recv" /\ InFlight = <<>> /\ Len(InFlight) = 0
  BY <1>0, EmptySeq, ConcatEmptySeq DEF TypeInv, Finish, InFlight
<1>2. ~Failing /\ Complete
  BY <1>1 DEF Failing, HasError, Complete
<1>3. used = 0
  <2>1. PermitsOf(InFlight) = 0 /\ InHand = 0
    BY <1>1, PermitsNone DEF InHand
  <2> QED
    BY <1>0, <1>2, <2>1 DEF PermitInv
<1>4. Len(out) = Len(Wanted)
  <2>1. PICK k \in 0..Len(nar) : pos = Taken(k) /\ Gone + Len(InFlight) = Due(k)
    BY <1>0, <1>1, <1>2 DEF ReadInv
  <2>2. pos = Len(Input)
    BY <1>0, <1>1, <1>2 DEF ReadInv
  <2>3. /\ Len(nar) \in Nat /\ Taken(Len(nar)) = Len(Input) /\ Due(Len(nar)) = Len(Wanted)
        /\ Taken(k) \in Nat /\ Taken(Len(nar)) \in Nat
        /\ k < Len(nar) => Taken(k) < Taken(Len(nar))
    BY <1>0 DEF NarFacts
  <2>4. k = Len(nar)
    BY <2>1, <2>2, <2>3
  <2>5. Gone = Len(out) /\ Len(out) \in Nat
    BY <1>0, <1>1, LineFacts DEF Gone
  <2> QED
    BY <1>1, <2>1, <2>3, <2>4, <2>5
<1>5. out = Wanted
  <2>1. out \in Seq(Part) /\ Wanted \in Seq(Part) /\ \A i \in 1..Len(out) : out[i] = Wanted[i]
    BY <1>0, <1>1 DEF TypeInv, NarFacts, FlowInv
  <2> QED
    BY <1>4, <2>1, SeqEqual
<1> QED
  BY <1>1, <1>2, <1>3, <1>5

LEMMA FinishKeeps == ASSUME IInv, Finish PROVE IInv'
<1>0. TypeInv /\ PermitInv
  BY DEF IInv
<1>1. Frozen
  BY StaysFrozen DEF Finish
<1>2. InFlight = <<>> /\ used = 0 /\ rpc = "closed" /\ ~Failing
  BY FinishFacts
<1>3. InFlight' = <<>> /\ used' = 0 /\ UNCHANGED reader /\ rpc' = "closed" /\ end' = "ok"
  BY <1>2 DEF Finish, InFlight, reader
<1>4. TypeInv'
  BY <1>0, <1>1 DEF Finish, TypeInv, Frozen, reader
<1>5. ~Failing' /\ ~Complete'
  BY <1>3 DEF Failing, HasError, Complete
<1>6. FailInv' /\ FlowInv'
  BY <1>3, <1>5 DEF FailInv, FlowInv
<1>7. ReadInv' /\ InHand' = InHand
  BY <1>1, <1>3, <1>5, ReaderStays
<1>8. PermitInv'
  <2>1. PermitsOf(InFlight)' = PermitsOf(InFlight)
    BY <1>2, <1>3 DEF PermitsOf
  <2> QED
    BY <1>0, <1>2, <1>3, <1>5, <1>7, <2>1 DEF PermitInv
<1>9. NoFalseAlarm' /\ CleanEnd'
  BY <1>3 DEF NoFalseAlarm, CleanEnd
<1> QED
  BY <1>4, <1>6, <1>7, <1>8, <1>9 DEF IInv

\* Nobody moves, whether or not anybody reads any more.
LEMMA LeaveKeeps ==
    ASSUME IInv, left' \in BOOLEAN, UNCHANGED <<mode, nar, ents, used, hurt, reader, writer>>
    PROVE  IInv'
<1>0. TypeInv /\ FailInv /\ PermitInv /\ CleanEnd
  BY DEF IInv
<1>1. Frozen
  BY StaysFrozen
<1>2. InFlight' = InFlight /\ Gone' = Gone /\ UNCHANGED <<out, end, hurt>> /\ UNCHANGED reader
  BY DEF InFlight, Gone, reader, writer
<1>3. /\ FlowInv' /\ NoFalseAlarm' /\ (Failing' <=> Failing) /\ (Complete' <=> Complete)
      /\ PermitsOf(InFlight)' = PermitsOf(InFlight)
      /\ ErrorLast(InFlight)' <=> ErrorLast(InFlight)
  BY <1>1, <1>2, SameLine
<1>4. TypeInv'
  BY <1>0, <1>1 DEF TypeInv, Frozen, reader, writer
<1>5. FailInv'
  BY <1>0, <1>2, <1>3 DEF FailInv, reader
<1>6. ReadInv' /\ InHand' = InHand
  BY <1>1, <1>2, <1>3, ReaderStays
<1>7. PermitInv'
  BY <1>0, <1>3, <1>6 DEF PermitInv
<1>8. CleanEnd'
  BY <1>0, <1>2 DEF CleanEnd, reader
<1> QED
  BY <1>3, <1>4, <1>5, <1>6, <1>7, <1>8 DEF IInv

LEMMA NextKeeps == ASSUME IInv, [Next]_vars PROVE IInv'
<1>1. CASE Reader
  BY <1>1, ReadNextKeeps, AcquireKeeps, ReadFileKeeps, ReadFailsKeeps, SendKeeps, ReadEndKeeps DEF Reader
<1>2. CASE Writer
  BY <1>2, ReceiveKeeps, WriteKeeps, ReleaseKeeps, FinishKeeps DEF Writer
<1>3. CASE Leave
  <2>1. left' \in BOOLEAN /\ UNCHANGED <<mode, nar, ents, used, hurt, reader, writer>>
    BY <1>3 DEF Leave
  <2> QED
    BY <2>1, LeaveKeeps
<1>4. CASE UNCHANGED vars
  <2>1. left' \in BOOLEAN /\ UNCHANGED <<mode, nar, ents, used, hurt, reader, writer>>
    BY <1>4 DEF vars, IInv, TypeInv, reader, writer
  <2> QED
    BY <2>1, LeaveKeeps
<1> QED
  BY <1>1, <1>2, <1>3, <1>4 DEF Next

LEMMA InitHolds == ASSUME Init PROVE IInv
<1>1. mode \in {"expand", "collapse"} /\ nar \in Seq(File)
  BY NarExpanderAssumption DEF Init
<1>2. /\ rpc = "next" /\ pos = 0 /\ pend = <<>> /\ ents = <<>> /\ closed = FALSE /\ used = 0
      /\ wpc = "recv" /\ cur = <<>> /\ out = <<>> /\ end = "open" /\ left = FALSE /\ hurt = FALSE
  BY DEF Init
<1>3. /\ <<>> \in Seq(Buffered) /\ <<>> \in Seq(Part) /\ <<>> \in Seq(Buffer) /\ Len(<<>>) = 0
      /\ BufferEntries \in Nat /\ BufferBytes \in Nat
  BY NarExpanderAssumption
<1>4. TypeInv
  <2>1. /\ pend \in Seq(Buffered) /\ ents \in Seq(Buffered) /\ cur \in Seq(Buffered) /\ out \in Seq(Part)
        /\ Len(pend) = 0 /\ Len(ents) = 0 /\ Len(cur) = 0
    BY <1>2, <1>3
  <2>2. Len(pend) <= 2 /\ Len(ents) <= BufferEntries /\ Len(cur) <= 1 /\ used \in 0..BufferBytes
    BY <1>2, <1>3, <2>1
  <2>3. /\ pend # <<>> <=> rpc = "send"
        /\ wpc = "recv" => cur = <<>>
        /\ wpc \in {"write", "release"} => cur # <<>> /\ cur[1].ent # Error
        /\ wpc = "release" => out # <<>>
    BY <1>2
  <2> QED
    BY <1>1, <1>2, <2>1, <2>2, <2>3 DEF TypeInv
<1>5. InFlight = <<>> /\ Len(InFlight) = 0 /\ Gone = 0 /\ Len(out) = 0
  BY <1>2, <1>3, ConcatEmptySeq DEF InFlight, Gone
<1>6. ~Failing
  BY <1>5 DEF Failing, HasError
<1>7. NarFacts
  BY <1>4, TypeFacts
<1>8. ReadInv
  <2>1. 0 \in 0..Len(nar) /\ Taken(0) = 0 /\ Due(0) = 0
    BY <1>7 DEF NarFacts
  <2>2. rpc \notin {"acquire", "read", "closed"} /\ pos = Taken(0) /\ Gone + Len(InFlight) = Due(0)
    BY <1>2, <1>5, <2>1
  <2> QED
    BY <2>1, <2>2 DEF ReadInv
<1>9. FlowInv
  BY <1>5, <1>7 DEF FlowInv, Follows, NarFacts
<1>10. PermitInv
  <2>1. PermitsOf(InFlight) = 0 /\ InHand = 0
    BY <1>2, <1>5, PermitsNone DEF InHand
  <2> QED
    BY <1>2, <2>1 DEF PermitInv
<1>11. FailInv /\ NoFalseAlarm /\ CleanEnd
  BY <1>2, <1>6 DEF FailInv, NoFalseAlarm, CleanEnd
<1> QED
  BY <1>4, <1>8, <1>9, <1>10, <1>11 DEF IInv

-----------------------------------------------------------------------------
(* The theorems *)

THEOREM SpecIInv == Spec => []IInv
<1>1. Init => IInv
  BY InitHolds
<1>2. IInv /\ [Next]_vars => IInv'
  BY NextKeeps
<1> QED
  BY <1>1, <1>2, PTL DEF Spec

\* How far the reader may have got.
LEMMA TakenBounds ==
    ASSUME NarFacts, NEW k \in 0..Len(nar) PROVE Taken(k) \in 0..Len(Input)
<1>1. /\ Len(nar) \in Nat /\ Taken(Len(nar)) = Len(Input) /\ Len(Input) \in Nat
      /\ Taken(k) \in Nat /\ (k < Len(nar) => Taken(k) < Taken(Len(nar)))
  BY DEF NarFacts
<1>2. k = Len(nar) => Taken(k) = Taken(Len(nar))
  OBVIOUS
<1> QED
  BY <1>1, <1>2

\* The variables have their types, and no more permits are taken than there are,
\* nor entries sent than the channel holds.
THEOREM SpecTypeOK == Spec => []TypeOK
<1>1. IInv => TypeOK
  <2> SUFFICES ASSUME IInv PROVE TypeOK
    OBVIOUS
  <2>1. TypeInv /\ NarFacts
    BY TypeFacts DEF IInv
  <2>2. pos \in 0..Len(Input)
    <3>1. CASE rpc \in {"acquire", "read"}
      <4>1. PICK k \in 0..Len(nar) - 1 : pos = Taken(k + 1)
        BY <3>1, ReaderIn
      <4>2. k + 1 \in 0..Len(nar)
        BY <2>1 DEF NarFacts
      <4> QED
        BY <2>1, <4>1, <4>2, TakenBounds
    <3>2. CASE rpc \notin {"acquire", "read"}
      <4>1. PICK k \in 0..Len(nar) : pos = Taken(k)
        BY <3>2, ReaderBetween
      <4> QED
        BY <2>1, <4>1, TakenBounds
    <3> QED
      BY <3>1, <3>2
  <2> QED
    BY <2>1, <2>2 DEF TypeInv, TypeOK
<1> QED
  BY <1>1, SpecIInv, PTL

\* A writer that closed its pipe without an error left no entry, no permit and no
\* reader behind.
THEOREM SpecCleanEnd == Spec => []CleanEnd
<1>1. IInv => CleanEnd
  BY DEF IInv
<1> QED
  BY <1>1, SpecIInv, PTL

\* A filter that nothing happened to fails only over a nar with a file that the
\* options cannot tell of.
THEOREM SpecNoFalseAlarm == Spec => []NoFalseAlarm
<1>1. IInv => NoFalseAlarm
  BY DEF IInv
<1> QED
  BY <1>1, SpecIInv, PTL

\* An entry takes as many permits as it has bytes, or all there are.
Kept(line) == \A i \in 1..Len(line) : line[i].permits = Least(BufferBytes, line[i].size)

LEMMA KeptConcat ==
    ASSUME NEW a \in Seq(Buffer), NEW b \in Seq(Buffer), Kept(a), Kept(b)
    PROVE  Kept(a \o b)
<1> DEFINE ab == a \o b
<1>1. /\ Len(a) \in Nat /\ Len(b) \in Nat
      /\ \A i \in 1..Len(a) : i \in 1..Len(ab) /\ ab[i] = a[i]
      /\ \A i \in 1..Len(b) : Len(a) + i \in 1..Len(ab) /\ ab[Len(a) + i] = b[i]
      /\ \A i \in 1..Len(ab) : i \in 1..Len(a) \/ \E j \in 1..Len(b) : i = Len(a) + j
  BY LineConcat
<1> HIDE DEF ab
<1>2. ASSUME NEW i \in 1..Len(ab) PROVE ab[i].permits = Least(BufferBytes, ab[i].size)
  <2>1. CASE i \in 1..Len(a)
    BY <1>1, <2>1 DEF Kept
  <2>2. CASE \E j \in 1..Len(b) : i = Len(a) + j
    <3>1. PICK j \in 1..Len(b) : i = Len(a) + j
      BY <2>2
    <3>2. ab[i] = b[j]
      BY <1>1, <3>1
    <3> QED
      BY <3>2 DEF Kept
  <2> QED
    BY <1>1, <2>1, <2>2
<1> QED
  BY <1>2 DEF Kept, ab

\* When two of those held have bytes, none has taken all permits, and so each as
\* many as it has bytes.
LEMMA KeptSizes ==
    ASSUME NEW line \in Seq(Buffer), Kept(line), PermitsOf(line) <= BufferBytes,
           NEW i \in 1..Len(line), NEW j \in 1..Len(line), i < j, line[i].size > 0, line[j].size > 0
    PROVE  Total([k \in 1..Len(line) |-> line[k].size]) <= BufferBytes
<1> DEFINE s == [k \in 1..Len(line) |-> line[k].permits]
<1>1. ASSUME NEW k \in 1..Len(line)
      PROVE  line[k].size \in Nat /\ line[k].permits \in Nat /\ s[k] = line[k].permits
  <2>1. line[k] \in Buffer
    BY ElementOfSeq
  <2> QED
    BY <2>1 DEF Buffer
<1>2. Len(line) \in Nat
  BY LenProperties
<1>3. s \in Seq(Nat) /\ Len(s) = Len(line) /\ Total(s) = PermitsOf(line)
  BY <1>1, <1>2, FunctionIsSeq DEF PermitsOf
<1> HIDE DEF s
<1>4. Total(s) \in Nat /\ BufferBytes \in Nat \ {0} /\ Total(s) <= BufferBytes
  BY <1>3, TotalNat, NarExpanderAssumption
<1>5. \A k \in 1..Len(line) : line[k].size > 0 => s[k] > 0
  BY <1>1, <1>4 DEF Kept, Least
<1>6. ASSUME NEW k \in 1..Len(line) PROVE s[k] = line[k].size
  <2>1. PICK m \in 1..Len(line) : m # k /\ s[m] > 0
    BY <1>5
  <2>2. s[k] + s[m] <= Total(s)
    BY <1>3, <2>1, TotalBounds
  <2>3. s[k] \in Nat /\ s[m] \in Nat
    BY <1>1
  <2>4. s[k] < BufferBytes
    BY <1>4, <2>1, <2>2, <2>3
  <2> QED
    BY <1>1, <1>4, <2>4 DEF Kept, Least
<1>7. s = [k \in 1..Len(line) |-> line[k].size]
  BY <1>6 DEF s
<1> QED
  BY <1>4, <1>7

LEMMA BufferHolds == ASSUME IInv PROVE BufferKept
<1> DEFINE h == Sent(Here, Size, Permits)
           here == IF rpc = "read" THEN <<h>> ELSE <<>>
           held == InFlight \o here
<1>0. TypeInv /\ PermitInv /\ NarFacts /\ BufferBytes \in Nat \ {0}
  BY TypeFacts DEF IInv
<1>1. here \in Seq(Buffer) /\ Kept(here) /\ PermitsOf(here) = InHand
  <2>1. CASE rpc = "read"
    <3>1. PICK k \in 0..Len(nar) - 1 : pos = Taken(k + 1)
      BY <2>1, ReaderIn
    <3>2. Size \in Nat /\ Permits \in Nat /\ pos \in 1..Len(Input)
      BY <1>0, <3>1, HereFile
    <3>3. Here \in Part
      BY <1>0, <3>2, ElementOfSeq DEF Here, NarFacts
    <3>4. h \in Buffer /\ h.permits = Permits /\ h.size = Size
      BY <3>2, <3>3 DEF Sent, Buffer
    <3> HIDE DEF h
    <3>5. <<h>> \in Seq(Buffer) /\ <<h>>[1] = h /\ (\A i \in 1..Len(<<h>>) : i = 1)
      BY <3>4, LineOne
    <3>6. Kept(<<h>>)
      BY <3>4, <3>5 DEF Kept, Permits
    <3>7. PermitsOf(<<h>>) = Permits
      BY <3>4, PermitsOne
    <3> QED
      BY <2>1, <3>5, <3>6, <3>7 DEF InHand
  <2>2. CASE rpc # "read"
    <3>1. here = <<>> /\ <<>> \in Seq(Buffer) /\ Len(<<>>) = 0
      BY <2>2
    <3>2. Kept(<<>>)
      BY <3>1 DEF Kept
    <3> QED
      BY <2>2, <3>1, <3>2, PermitsNone DEF InHand
  <2> QED
    BY <2>1, <2>2
<1>2. /\ cur \in Seq(Buffer) /\ ents \in Seq(Buffer) /\ pend \in Seq(Buffer)
      /\ cur \o ents \in Seq(Buffer) /\ InFlight \in Seq(Buffer) /\ InFlight = (cur \o ents) \o pend
  BY <1>0, LineFacts DEF InFlight
<1>3. Kept(InFlight)
  <2>1. ASSUME NEW s \in Seq(Buffered) PROVE Kept(s)
    <3>1. \A i \in 1..Len(s) : s[i] \in Buffered
      BY ElementOfSeq
    <3> QED
      BY <3>1 DEF Kept, Buffered
  <2>2. Kept(cur) /\ Kept(ents) /\ Kept(pend)
    BY <1>0, <2>1 DEF TypeInv
  <2>3. Kept(cur \o ents)
    BY <1>2, <2>2, KeptConcat
  <2> QED
    BY <1>2, <2>2, <2>3, KeptConcat
<1>4. PICK line \in Seq(Buffer) : line = InFlight \o here /\ Kept(line) /\ PermitsOf(line) <= BufferBytes
  <2> HIDE DEF here
  <2>1. PICK a \in Seq(Buffer), b \in Seq(Buffer) :
           /\ a = InFlight /\ b = here /\ Kept(a) /\ Kept(b)
           /\ PermitsOf(a) + PermitsOf(b) <= used /\ used \in 0..BufferBytes
    BY <1>0, <1>1, <1>2, <1>3 DEF PermitInv, TypeInv
  <2>2. a \o b \in Seq(Buffer) /\ Kept(a \o b) /\ PermitsOf(a \o b) = PermitsOf(a) + PermitsOf(b)
    BY <2>1, LineConcat, KeptConcat, PermitsConcat
  <2>3. PermitsOf(a \o b) <= BufferBytes
    <3>1. PermitsOf(a) \in Nat /\ PermitsOf(b) \in Nat
      BY PermitsConcat
    <3> QED
      BY <1>0, <2>1, <2>2, <3>1
  <2> QED
    BY <2>1, <2>2, <2>3
<1>5. DOMAIN line = 1..Len(line)
  BY LenProperties
<1>6. ASSUME NEW i \in DOMAIN line, NEW j \in DOMAIN line, i < j, line[i].size > 0, line[j].size > 0
      PROVE  Total([k \in DOMAIN line |-> line[k].size]) <= BufferBytes
  BY <1>4, <1>5, <1>6, KeptSizes
<1>7. held = line
  BY <1>4
<1> HIDE DEF held
<1>8. (\E i, j \in DOMAIN held : i < j /\ held[i].size > 0 /\ held[j].size > 0)
          => Total([i \in DOMAIN held |-> held[i].size]) <= BufferBytes
  BY <1>6, <1>7
<1> QED
  BY <1>8 DEF BufferKept, held

\* All buffered files fit the buffer, unless one alone is larger than it.
THEOREM SpecBufferKept == Spec => []BufferKept
<1>1. IInv => BufferKept
  BY BufferHolds
<1> QED
  BY <1>1, SpecIInv, PTL

\* A step of the writer gives the next entry, ends, fails, or is none of the
\* promise's; one of the reader is none.
LEMMA StepIsPromised ==
    ASSUME IInv, [Next]_vars
    PROVE  [Promise!Next]_(Promise!vars)
<1>0. TypeInv /\ FlowInv
  BY DEF IInv
<1>1. mode' = mode /\ nar' = nar
  BY DEF Next, Reader, Writer, ReadNext, Acquire, ReadFile, ReadFails, Send, ReadEnd,
         Receive, Write, Release, Finish, Leave, vars
<1>2. Wanted' = Wanted
  BY <1>1, StaysFrozen DEF Frozen
<1>3. CASE UNCHANGED <<out, end>>
  BY <1>2, <1>3 DEF Promise!vars
<1>4. CASE end = "open" /\ end' = "err" /\ UNCHANGED out
  BY <1>2, <1>4 DEF Promise!Next, Promise!Fail
<1>5. CASE Write
  <2>1. end = "open" /\ wpc = "write"
    BY <1>0, <1>5 DEF Write, TypeInv
  <2>2. PICK c \in Buffered :
           c = cur[1] /\ c.ent # Error /\ InFlight[1] = c /\ 1 \in 1..Len(InFlight)
    BY <1>0, <2>1, EntryFacts
  <2>3. \/ out' = Append(out, c.ent) /\ UNCHANGED end
        \/ end' = "err" /\ UNCHANGED out
    BY <1>5, <2>2 DEF Write, WriterFails
  <2>4. CASE out' = Append(out, c.ent) /\ UNCHANGED end
    <3>1. Gone = Len(out) /\ Len(out) \in Nat /\ Len(Wanted) \in Nat
      BY <1>0, <2>1, LineFacts, TypeFacts DEF Gone, NarFacts
    <3>2. Len(out) + 1 <= Len(Wanted) /\ c.ent = Wanted[Len(out) + 1]
      BY <1>0, <2>1, <2>2, <3>1 DEF FlowInv, Follows
    <3>3. Promise!Give
      BY <1>2, <2>1, <2>4, <3>1, <3>2 DEF Promise!Give
    <3> QED
      BY <3>3 DEF Promise!Next
  <2> QED
    BY <1>4, <2>1, <2>3, <2>4
<1>6. CASE Finish
  <2>1. end = "open" /\ out = Wanted /\ end' = "ok" /\ out' = out
    BY <1>6, FinishFacts DEF Finish
  <2>2. Promise!Finish
    BY <1>2, <2>1 DEF Promise!Finish
  <2> QED
    BY <2>2 DEF Promise!Next
<1>7. CASE Receive \/ Release
  <2>1. end = "open"
    BY <1>0, <1>7 DEF Receive, Release, TypeInv
  <2>2. UNCHANGED out /\ (UNCHANGED end \/ end' = "err")
    BY <1>7 DEF Receive, Release, WriterFails
  <2> QED
    BY <1>3, <1>4, <2>1, <2>2
<1>8. CASE Reader \/ Leave \/ UNCHANGED vars
  <2>1. UNCHANGED <<out, end>>
    BY <1>8 DEF Reader, ReadNext, Acquire, ReadFile, ReadFails, Send, ReadEnd, Leave, writer, vars
  <2> QED
    BY <1>3, <2>1
<1> QED
  BY <1>5, <1>6, <1>7, <1>8 DEF Next, Writer

\* The expander gives the entries of the nar there should be, in their order, and
\* ends without an error only after the last one.
THEOREM SpecKeepsPromise == Spec => KeepsPromise
<1>1. Init => Promise!Init
  BY DEF Init, Promise!Init
<1>2. IInv /\ [Next]_vars => [Promise!Next]_(Promise!vars)
  BY StepIsPromised
<1> QED
  BY <1>1, <1>2, SpecIInv, PTL DEF Spec, KeepsPromise, Promise!Spec
=============================================================================
