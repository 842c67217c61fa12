------------------------------ MODULE Weighted ------------------------------
(***************************************************************************)
(* golang.org/x/sync/semaphore.Weighted v0.3.0, the lock every component of *)
(* nix-sandwich uses: differ.go takes disk space, download slots and delta  *)
(* slots from three of them, subst.go narinfo and nar slots from two,       *)
(* syschecker.go listing requests from one.  The library is not part of the *)
(* repository; its operations are given here as functions of a semaphore    *)
(* value, each one a critical section of the library's mutex.               *)
(*                                                                          *)
(* A semaphore is a record: "held" are the clients that hold their weight   *)
(* (granted waiters that have not woken up yet included), "queue" are the   *)
(* waiters, first come first served.  A client whose weight exceeds the     *)
(* size waits too, but outside the queue: only its context ends its wait.   *)
(*                                                                          *)
(* And the goroutines around one: every use has the same shape, Acquire     *)
(* under the request's context, give up when it is done, and a deferred     *)
(* Release.  An instance says which variable its semaphore is, and where    *)
(* each of its clients is.                                                  *)
(***************************************************************************)
EXTENDS Integers, Sequences, FiniteSets, FiniteSetTheorems, SequenceTheorems, TLAPS

CONSTANTS
    Client,     \* who may ask; each asks for its weight once at a time
    W,          \* W[c]: the weight client c asks for
    Size        \* the weight there is

VARIABLES
    sem,    \* the semaphore
    at      \* at[c]: outside, in Acquire, or past it

\* The units of weight the clients in S take, one pair per unit.
Units(S) == UNION {{c} \X (1..W[c]) : c \in S}

Weight(S) == Cardinality(Units(S))

TypeOK(s) == s \in [held : SUBSET Client, queue : Seq(Client)]

New == [held |-> {}, queue |-> <<>>]

\* The first k waiters.
Prefix(s, k) == {s.queue[i] : i \in 1..k}

\* The lengths of the prefixes of the queue that fit beside the holders.
Grantable(s) == {k \in 1..Len(s.queue) : Weight(s.held \cup Prefix(s, k)) <= Size}

Elems(q) == {q[i] : i \in 1..Len(q)}

\* Mutants: waiters are woken whether they fit or not; one that does not fit is
\* passed over.
WakeAll(s) == [held |-> s.held \cup Elems(s.queue), queue |-> <<>>]
WakeAround(s) ==
    LET fits == {i \in 1..Len(s.queue) : Weight(s.held \cup {s.queue[i]}) <= Size} IN
    IF fits = {} THEN s
    ELSE LET i == CHOOSE i \in fits : \A j \in fits : i <= j IN
         [held  |-> s.held \cup {s.queue[i]},
          queue |-> SubSeq(s.queue, 1, i - 1) \o SubSeq(s.queue, i + 1, Len(s.queue))]

\* notifyWaiters: wake waiters in order, and stop at the first that does not fit.
NotifyWaiters(s) ==
    LET n == Cardinality(Grantable(s)) IN
    [held  |-> s.held \cup Prefix(s, n),
     queue |-> SubSeq(s.queue, n + 1, Len(s.queue))]

\* Mutant: a request that fits does not line up.
Barge(s, c) ==
    IF Weight(s.held \cup {c}) <= Size
    THEN [held |-> s.held \cup {c}, queue |-> s.queue]
    ELSE IF W[c] > Size
    THEN s
    ELSE [held |-> s.held, queue |-> Append(s.queue, c)]

\* Acquire up to the point where it holds or waits.
Acquire(s, c) ==
    IF s.queue = <<>> /\ Weight(s.held \cup {c}) <= Size
    THEN [held |-> s.held \cup {c}, queue |-> s.queue]
    ELSE IF W[c] > Size
    THEN s
    ELSE [held |-> s.held, queue |-> Append(s.queue, c)]

Release(s, c) == NotifyWaiters([held |-> s.held \ {c}, queue |-> s.queue])

\* The queue without its i-th waiter.
Without(q, i) == SubSeq(q, 1, i - 1) \o SubSeq(q, i + 1, Len(q))

\* Mutant: a head that gives up does not let the ones behind it move up.
AbandonQuietly(s, c) ==
    LET here == {i \in 1..Len(s.queue) : s.queue[i] = c} IN
    IF here = {} THEN s
    ELSE [held |-> s.held, queue |-> Without(s.queue, CHOOSE i \in here : TRUE)]

\* Acquire's ctx.Done branch, for a client that was not granted: leave the
\* queue, and if it stood at the head let the ones behind it move up.
Abandon(s, c) ==
    LET here == {i \in 1..Len(s.queue) : s.queue[i] = c}
        rest == [held |-> s.held, queue |-> Without(s.queue, CHOOSE i \in here : TRUE)]
    IN
    IF here = {} THEN s
    ELSE IF Head(s.queue) = c /\ Weight(s.held) < Size
    THEN NotifyWaiters(rest)
    ELSE rest

\* What the semaphore promises in every state: the holders fit, and nobody
\* holds and waits, or waits twice.
Sound(s) ==
    /\ Weight(s.held) <= Size
    /\ \A i \in 1..Len(s.queue) : s.queue[i] \notin s.held
    /\ \A i, j \in 1..Len(s.queue) : s.queue[i] = s.queue[j] => i = j

\* And no wake-up is lost: the first in line does not fit.
Blocked(s) == s.queue # <<>> => Weight(s.held \cup {Head(s.queue)}) > Size
-----------------------------------------------------------------------------
(* The clients *)

vars == <<sem, at>>

Init ==
    /\ sem = New
    /\ at = [c \in Client |-> "idle"]

Ask(c) ==
    /\ at[c] = "idle"
    /\ at' = [at EXCEPT ![c] = "waiting"]
    /\ sem' = Acquire(sem, c)

\* Acquire returns nil; also when the context ended after the grant.
Enter(c) ==
    /\ at[c] = "waiting" /\ c \in sem.held
    /\ at' = [at EXCEPT ![c] = "holding"]
    /\ UNCHANGED sem

\* Mutant: the error of a canceled Acquire is not looked at.
CancelProceeds(c) ==
    /\ at[c] = "waiting" /\ c \notin sem.held
    /\ at' = [at EXCEPT ![c] = "canceled"]
    /\ sem' = Abandon(sem, c)

Cancel(c) ==
    /\ at[c] = "waiting" /\ c \notin sem.held
    /\ at' = [at EXCEPT ![c] = "idle"]
    /\ sem' = Abandon(sem, c)

Leave(c) ==
    /\ at[c] = "holding"
    /\ at' = [at EXCEPT ![c] = "idle"]
    /\ sem' = Release(sem, c)

Next == \E c \in Client : Ask(c) \/ Enter(c) \/ Cancel(c) \/ Leave(c)

Spec == Init /\ [][Next]_vars

\* Holders come back from what they do; nobody has to ask or to give up.
FairSpec == Spec /\ \A c \in Client : WF_vars(Enter(c) \/ Leave(c))
-----------------------------------------------------------------------------
ClientsTypeOK == TypeOK(sem) /\ at \in [Client -> {"idle", "waiting", "holding"}]

\* The holders never exceed the semaphore, nobody holds twice, and the permits
\* out are those of the clients that hold or are about to.
Bounded ==
    /\ Sound(sem)
    /\ \A c \in Client :
        /\ at[c] = "holding" => c \in sem.held
        /\ c \in sem.held => at[c] # "idle"
    /\ \A i \in 1..Len(sem.queue) : at[sem.queue[i]] = "waiting"

\* No wake-up is lost: while somebody queues, the first in line does not fit.
HeadBlocked == Blocked(sem)

\* The queue is served in order: a step that grants a waiter leaves nobody
\* queueing who was ahead of it.
InOrder ==
    [][\A i, j \in 1..Len(sem.queue) :
        i < j /\ sem.queue[j] \in sem'.held =>
            \A k \in 1..Len(sem'.queue) : sem'.queue[k] # sem.queue[i]]_vars

\* However many small requests keep coming, a large one that fits gets in.
NoStarvation ==
    \A c \in Client : W[c] <= Size => (at[c] = "waiting" ~> at[c] # "waiting")
-----------------------------------------------------------------------------
(***************************************************************************)
(* What the operations preserve and do, for every set of clients, weights   *)
(* and size.  Components cite these lemmas under their own instance.        *)
(***************************************************************************)
Params == IsFiniteSet(Client) /\ W \in [Client -> Nat] /\ Size \in Nat

\* A set of clients takes finitely many units.
LEMMA UnitsFinite ==
    ASSUME Params, NEW S \in SUBSET Client
    PROVE  IsFiniteSet(Units(S))
<1> DEFINE f == [c \in S |-> {c} \X (1..W[c])]
           T == {{c} \X (1..W[c]) : c \in S}
<1>1. IsFiniteSet(S)
  BY FS_Subset DEF Params
<1>2. f \in Surjection(S, T)
  BY DEF Surjection
<1>3. IsFiniteSet(T)
  BY <1>1, <1>2, FS_Surjection
<1>4. ASSUME NEW c \in S PROVE IsFiniteSet({c} \X (1..W[c]))
  <2>1. IsFiniteSet({c})
    BY FS_Singleton
  <2>2. IsFiniteSet(1..W[c])
    BY FS_Interval DEF Params
  <2> QED
    BY <2>1, <2>2, FS_Product
<1>5. IsFiniteSet(UNION T)
  BY <1>3, <1>4, FS_UNION
<1> QED
  BY <1>5 DEF Units

\* More clients weigh no less.
LEMMA WeightMonotone ==
    ASSUME Params, NEW T \in SUBSET Client, NEW S \in SUBSET T
    PROVE  Weight(S) \in Nat /\ Weight(T) \in Nat /\ Weight(S) <= Weight(T)
<1>1. IsFiniteSet(Units(T))
  BY UnitsFinite
<1>2. Units(S) \subseteq Units(T)
  BY DEF Units
<1>3. IsFiniteSet(Units(S))
  BY <1>1, <1>2, FS_Subset
<1> QED
  BY <1>1, <1>2, <1>3, FS_Subset, FS_CardinalityType DEF Weight

\* Clients queue, and nobody who queues holds.
LEMMA ElemsClients ==
    ASSUME NEW s, TypeOK(s), Sound(s)
    PROVE  Elems(s.queue) \subseteq Client /\ \A c \in Elems(s.queue) : c \notin s.held
  BY ElementOfSeq DEF TypeOK, Sound, Elems

\* A new semaphore is sound.
LEMMA NewSound ==
    ASSUME Params
    PROVE  TypeOK(New) /\ Sound(New) /\ New.held = {} /\ Elems(New.queue) = {}
<1>1. Weight({}) = 0
  BY FS_EmptySet DEF Weight, Units
<1> QED
  BY <1>1, EmptySeq DEF Params, New, TypeOK, Sound, Elems

\* The grantable prefixes are the n shortest ones, for some n.
LEMMA GrantableInterval ==
    ASSUME Params, NEW s, TypeOK(s)
    PROVE  /\ Cardinality(Grantable(s)) \in 0..Len(s.queue)
           /\ Grantable(s) = 1..Cardinality(Grantable(s))
<1> DEFINE G == Grantable(s)
           n == Cardinality(G)
<1>1. Len(s.queue) \in Nat /\ s.queue \in Seq(Client)
  BY LenProperties DEF TypeOK
<1>2. IsFiniteSet(1..Len(s.queue)) /\ Cardinality(1..Len(s.queue)) = Len(s.queue)
  BY <1>1, FS_Interval
<1>3. G \subseteq 1..Len(s.queue)
  BY DEF Grantable
<1>4. IsFiniteSet(G) /\ n \in Nat /\ n <= Len(s.queue)
  BY <1>2, <1>3, FS_Subset, FS_CardinalityType
<1>5. ASSUME NEW k \in G, NEW j \in 1..k PROVE j \in G
  <2>1. Prefix(s, k) \in SUBSET Client
    BY <1>1, <1>3, ElementOfSeq DEF Prefix
  <2>2. Prefix(s, j) \subseteq Prefix(s, k)
    BY <1>1, <1>3 DEF Prefix
  <2>3. s.held \cup Prefix(s, k) \in SUBSET Client
    BY <2>1 DEF TypeOK
  <2>4. Weight(s.held \cup Prefix(s, j)) <= Weight(s.held \cup Prefix(s, k))
        /\ Weight(s.held \cup Prefix(s, j)) \in Nat
        /\ Weight(s.held \cup Prefix(s, k)) \in Nat
    <3>1. s.held \cup Prefix(s, j) \in SUBSET (s.held \cup Prefix(s, k))
      BY <2>2
    <3> QED
      BY <2>3, <3>1, WeightMonotone
  <2> QED
    BY <1>1, <1>3, <2>4 DEF Grantable, Params
<1>6. ASSUME NEW k \in G PROVE k <= n
  <2>1. 1..k \subseteq G
    BY <1>5
  <2>2. k \in Nat /\ Cardinality(1..k) = k
    BY <1>1, <1>3, FS_Interval
  <2> QED
    BY <1>4, <2>1, <2>2, FS_Subset
<1>7. G \subseteq 1..n
  BY <1>1, <1>3, <1>4, <1>6
<1>8. IsFiniteSet(1..n) /\ Cardinality(1..n) = n
  BY <1>4, FS_Interval
<1>9. G = 1..n
  BY <1>7, <1>8, FS_Subset
<1> QED
  BY <1>1, <1>4, <1>9

\* Waking waiters keeps the promise, only adds holders, takes them from the
\* head of the queue, and leaves a head that does not fit.
LEMMA NotifySound ==
    ASSUME Params, NEW s, TypeOK(s), Sound(s)
    PROVE  LET u == NotifyWaiters(s) IN
           /\ TypeOK(u) /\ Sound(u) /\ Blocked(u)
           /\ s.held \subseteq u.held
           /\ u.held \subseteq s.held \cup Elems(s.queue)
           /\ Elems(u.queue) \subseteq Elems(s.queue)
<1> DEFINE n == Cardinality(Grantable(s))
           u == NotifyWaiters(s)
           len == Len(s.queue)
<1>1. len \in Nat /\ s.queue \in Seq(Client) /\ s.held \in SUBSET Client
      /\ \A i \in 1..len : s.queue[i] \in Client
  BY LenProperties, ElementOfSeq DEF TypeOK
<1>2. n \in 0..len /\ Grantable(s) = 1..n
  BY GrantableInterval
<1>3. u = [held |-> s.held \cup Prefix(s, n), queue |-> SubSeq(s.queue, n + 1, len)]
  BY DEF NotifyWaiters
<1> HIDE DEF n, u
<1>4. /\ u.queue \in Seq(Client)
      /\ Len(u.queue) = len - n
      /\ \A i \in 1..(len - n) : u.queue[i] = s.queue[n + i]
  <2>1. /\ SubSeq(s.queue, n + 1, len) \in Seq(Client)
        /\ Len(SubSeq(s.queue, n + 1, len)) = IF n + 1 <= len THEN len - (n + 1) + 1 ELSE 0
        /\ \A i \in 1..(len - (n + 1) + 1) : SubSeq(s.queue, n + 1, len)[i] = s.queue[(n + 1) + i - 1]
    BY <1>1, <1>2, SubSeqProperties
  <2> QED
    BY <1>1, <1>2, <1>3, <2>1
<1>5. u.held = s.held \cup Prefix(s, n) /\ Prefix(s, n) \subseteq Client
  BY <1>1, <1>2, <1>3 DEF Prefix
<1>6. TypeOK(u)
  BY <1>1, <1>3, <1>4, <1>5 DEF TypeOK
<1>7. Weight(u.held) <= Size
  <2>1. CASE n = 0
    <3>1. Prefix(s, n) = {}
      BY <2>1 DEF Prefix
    <3> QED
      BY <1>5, <3>1 DEF Sound
  <2>2. CASE n # 0
    <3>1. n \in Grantable(s)
      BY <1>1, <1>2, <2>2
    <3> QED
      BY <1>5, <3>1 DEF Grantable
  <2> QED
    BY <2>1, <2>2
<1>8. ASSUME NEW i \in 1..Len(u.queue) PROVE u.queue[i] \notin u.held
  <2>1. n + i \in 1..len /\ u.queue[i] = s.queue[n + i]
    BY <1>1, <1>2, <1>4
  <2>2. s.queue[n + i] \notin s.held
    BY <2>1 DEF Sound
  <2>3. s.queue[n + i] \notin Prefix(s, n)
    BY <1>1, <1>2, <2>1 DEF Sound, Prefix
  <2> QED
    BY <1>5, <2>1, <2>2, <2>3
<1>9. ASSUME NEW i \in 1..Len(u.queue), NEW j \in 1..Len(u.queue), u.queue[i] = u.queue[j]
      PROVE  i = j
  <2>1. /\ n + i \in 1..len /\ u.queue[i] = s.queue[n + i]
        /\ n + j \in 1..len /\ u.queue[j] = s.queue[n + j]
    BY <1>1, <1>2, <1>4
  <2>2. n + i = n + j
    BY <1>9, <2>1 DEF Sound
  <2> QED
    BY <1>1, <1>2, <1>4, <2>2
<1>10. Sound(u)
  BY <1>7, <1>8, <1>9 DEF Sound
<1>11. u.held \subseteq s.held \cup Elems(s.queue)
  BY <1>1, <1>2, <1>5 DEF Prefix, Elems
<1>12. Elems(u.queue) \subseteq Elems(s.queue)
  <2> SUFFICES ASSUME NEW j \in 1..Len(u.queue)
               PROVE  \E i \in 1..len : s.queue[i] = u.queue[j]
    BY DEF Elems
  <2>1. n + j \in 1..len /\ u.queue[j] = s.queue[n + j]
    BY <1>1, <1>2, <1>4
  <2> QED
    BY <2>1
<1>13. ASSUME u.queue # <<>> PROVE Weight(u.held \cup {Head(u.queue)}) > Size
  <2>1. Len(u.queue) # 0
    BY <1>4, <1>13, EmptySeq
  <2>2. n + 1 \in 1..len /\ Head(u.queue) = s.queue[n + 1]
    BY <1>1, <1>2, <1>4, <1>13, <2>1
  <2>3. Weight(s.held \cup Prefix(s, n + 1)) \in Nat
    <3>1. s.held \cup Prefix(s, n + 1) \in SUBSET Client
      BY <1>1, <2>2 DEF Prefix
    <3> QED
      BY <3>1, WeightMonotone
  <2>4. ~(Weight(s.held \cup Prefix(s, n + 1)) <= Size)
    <3>1. n + 1 \notin Grantable(s)
      BY <1>2
    <3> QED
      BY <2>2, <3>1 DEF Grantable
  <2>5. u.held \cup {Head(u.queue)} = s.held \cup Prefix(s, n + 1)
    BY <1>1, <1>2, <1>5, <2>2 DEF Prefix
  <2>6. Weight(s.held \cup Prefix(s, n + 1)) > Size
    BY <2>3, <2>4 DEF Params
  <2> QED
    BY <2>5, <2>6, Zenon
<1> QED
  BY <1>5, <1>6, <1>10, <1>11, <1>12, <1>13 DEF u, Blocked

\* Acquire adds only the client, to the holders or to the queue.
LEMMA AcquireSound ==
    ASSUME Params, NEW s, TypeOK(s), Sound(s),
           NEW c \in Client, c \notin s.held, c \notin Elems(s.queue)
    PROVE  LET u == Acquire(s, c) IN
           /\ TypeOK(u) /\ Sound(u)
           /\ Blocked(s) => Blocked(u)
           /\ s.held \subseteq u.held /\ u.held \subseteq s.held \cup {c}
           /\ Elems(u.queue) \subseteq Elems(s.queue) \cup {c}
<1> DEFINE u == Acquire(s, c)
<1>1. /\ s.queue \in Seq(Client) /\ Len(s.queue) \in Nat /\ s.held \in SUBSET Client
      /\ s = [held |-> s.held, queue |-> s.queue]
  BY LenProperties DEF TypeOK
<1>2. Weight(s.held \cup {c}) \in Nat
  BY <1>1, WeightMonotone
<1>3. CASE s.queue = <<>> /\ Weight(s.held \cup {c}) <= Size
  <2>1. u = [held |-> s.held \cup {c}, queue |-> s.queue]
    BY <1>1, <1>3 DEF Acquire
  <2>2. Len(s.queue) = 0
    BY <1>3, EmptySeq
  <2>3. TypeOK(u)
    BY <1>1, <2>1 DEF TypeOK
  <2>4. Sound(u) /\ (Blocked(s) => Blocked(u))
    BY <1>3, <2>1, <2>2 DEF Sound, Blocked
  <2> QED
    BY <2>1, <2>3, <2>4
<1>4. CASE ~(s.queue = <<>> /\ Weight(s.held \cup {c}) <= Size) /\ W[c] > Size
  <2>1. u = s
    BY <1>4 DEF Acquire
  <2> QED
    BY <2>1
<1>5. CASE ~(s.queue = <<>> /\ Weight(s.held \cup {c}) <= Size) /\ ~(W[c] > Size)
  <2> DEFINE q == Append(s.queue, c)
  <2>1. u = [held |-> s.held, queue |-> q]
    BY <1>1, <1>5 DEF Acquire
  <2>2. /\ q \in Seq(Client) /\ q # <<>> /\ Len(q) = Len(s.queue) + 1
        /\ \A i \in 1..Len(s.queue) : q[i] = s.queue[i]
        /\ q[Len(s.queue) + 1] = c
        /\ Head(q) = IF s.queue = <<>> THEN c ELSE Head(s.queue)
    BY <1>1, AppendProperties, HeadTailAppend
  <2> HIDE DEF q, u
  <2>3. TypeOK(u)
    BY <1>1, <2>1, <2>2 DEF TypeOK
  <2>4. ASSUME NEW i \in 1..Len(q) PROVE q[i] \notin s.held
    BY <1>1, <2>2 DEF Sound
  <2>5. ASSUME NEW i \in 1..Len(q), NEW j \in 1..Len(q), q[i] = q[j] PROVE i = j
    BY <1>1, <2>2, <2>5 DEF Sound, Elems
  <2>6. Sound(u)
    BY <2>1, <2>4, <2>5 DEF Sound
  <2>7. ASSUME Blocked(s) PROVE Blocked(u)
    <3>1. CASE s.queue = <<>>
      <4>1. Weight(s.held \cup {c}) > Size
        BY <1>2, <1>5, <3>1 DEF Params
      <4> QED
        BY <2>1, <2>2, <3>1, <4>1 DEF Blocked
    <3>2. CASE s.queue # <<>>
      BY <2>1, <2>2, <2>7, <3>2 DEF Blocked
    <3> QED
      BY <3>1, <3>2
  <2>8. Elems(q) \subseteq Elems(s.queue) \cup {c}
    BY <1>1, <2>2 DEF Elems
  <2> QED
    BY <2>1, <2>3, <2>6, <2>7, <2>8 DEF u
<1> QED
  BY <1>3, <1>4, <1>5

\* Release takes the client from the holders and lets waiters in.
LEMMA ReleaseSound ==
    ASSUME Params, NEW s, TypeOK(s), Sound(s), NEW c \in s.held
    PROVE  LET u == Release(s, c) IN
           /\ TypeOK(u) /\ Sound(u) /\ Blocked(u)
           /\ s.held \ {c} \subseteq u.held /\ c \notin u.held
           /\ u.held \subseteq (s.held \ {c}) \cup Elems(s.queue)
           /\ Elems(u.queue) \subseteq Elems(s.queue)
<1> DEFINE f == [held |-> s.held \ {c}, queue |-> s.queue]
           u == Release(s, c)
<1>1. f = [held |-> s.held \ {c}, queue |-> s.queue] /\ u = NotifyWaiters(f)
  BY DEF Release
<1> HIDE DEF f, u
<1>2. TypeOK(f)
  BY <1>1 DEF TypeOK
<1>3. Sound(f)
  <2>1. s.held \in SUBSET Client /\ s.held \ {c} \in SUBSET s.held
    BY DEF TypeOK
  <2>2. Weight(s.held \ {c}) <= Size
    BY <2>1, WeightMonotone DEF Sound, Params
  <2> QED
    BY <1>1, <2>2 DEF Sound
<1>4. /\ TypeOK(u) /\ Sound(u) /\ Blocked(u)
      /\ f.held \subseteq u.held
      /\ u.held \subseteq f.held \cup Elems(f.queue)
      /\ Elems(u.queue) \subseteq Elems(f.queue)
  BY <1>1, <1>2, <1>3, NotifySound
<1>5. c \notin Elems(s.queue)
  BY DEF Sound, Elems
<1> QED
  BY <1>1, <1>4, <1>5 DEF u

\* The queue without its i-th waiter keeps the others in their order.
LEMMA WithoutProperties ==
    ASSUME NEW q \in Seq(Client), NEW i \in 1..Len(q)
    PROVE  /\ Without(q, i) \in Seq(Client)
           /\ Len(Without(q, i)) = Len(q) - 1
           /\ \A k \in 1..Len(q) - 1 : Without(q, i)[k] = q[IF k < i THEN k ELSE k + 1]
<1> DEFINE front == SubSeq(q, 1, i - 1)
           back == SubSeq(q, i + 1, Len(q))
<1>1. Len(q) \in Nat /\ \A k \in 1..Len(q) : q[k] \in Client
  BY LenProperties, ElementOfSeq
<1>2. /\ front \in Seq(Client) /\ Len(front) = i - 1
      /\ \A k \in 1..i - 1 : front[k] = q[k]
  <2>1. /\ front \in Seq(Client)
        /\ Len(front) = IF 1 <= i - 1 THEN (i - 1) - 1 + 1 ELSE 0
        /\ \A k \in 1..(i - 1) - 1 + 1 : front[k] = q[1 + k - 1]
    BY <1>1, SubSeqProperties
  <2> HIDE DEF front
  <2> QED
    BY <1>1, <2>1
<1>3. /\ back \in Seq(Client) /\ Len(back) = Len(q) - i
      /\ \A k \in 1..Len(q) - i : back[k] = q[i + k]
  <2>1. /\ back \in Seq(Client)
        /\ Len(back) = IF i + 1 <= Len(q) THEN Len(q) - (i + 1) + 1 ELSE 0
        /\ \A k \in 1..Len(q) - (i + 1) + 1 : back[k] = q[(i + 1) + k - 1]
    BY <1>1, SubSeqProperties
  <2> HIDE DEF back
  <2> QED
    BY <1>1, <2>1
<1> HIDE DEF front, back
<1>4. /\ front \o back \in Seq(Client)
      /\ Len(front \o back) = Len(front) + Len(back)
      /\ \A k \in 1..Len(front) + Len(back) : (front \o back)[k] =
            IF k <= Len(front) THEN front[k] ELSE back[k - Len(front)]
  BY <1>2, <1>3, ConcatProperties
<1>5. ASSUME NEW k \in 1..Len(q) - 1
      PROVE  (front \o back)[k] = q[IF k < i THEN k ELSE k + 1]
  <2>1. k \in 1..Len(front) + Len(back)
    BY <1>1, <1>2, <1>3
  <2>2. CASE k < i
    <3>1. k \in 1..i - 1 /\ k <= Len(front)
      BY <1>1, <1>2, <2>2
    <3> QED
      BY <1>2, <1>4, <2>1, <2>2, <3>1
  <2>3. CASE ~(k < i)
    <3>1. ~(k <= Len(front)) /\ k - Len(front) = k - i + 1 /\ k - i + 1 \in 1..Len(q) - i
      BY <1>1, <1>2, <2>3
    <3>2. back[k - i + 1] = q[i + (k - i + 1)] /\ i + (k - i + 1) = k + 1
      BY <1>1, <1>3, <3>1
    <3> QED
      BY <1>4, <2>1, <2>3, <3>1, <3>2
  <2> QED
    BY <2>2, <2>3
<1>6. Without(q, i) = front \o back
  BY DEF Without, front, back
<1>7. Len(front \o back) = Len(q) - 1
  BY <1>1, <1>2, <1>3, <1>4
<1> QED
  BY <1>4, <1>5, <1>6, <1>7

\* A semaphore whose i-th waiter leaves the queue is sound, and rid of it.
LEMMA WithoutSound ==
    ASSUME NEW s, TypeOK(s), Sound(s), NEW i \in 1..Len(s.queue)
    PROVE  LET rest == [held |-> s.held, queue |-> Without(s.queue, i)] IN
           /\ TypeOK(rest) /\ Sound(rest)
           /\ Elems(rest.queue) \subseteq Elems(s.queue)
           /\ s.queue[i] \notin Elems(rest.queue)
           /\ i # 1 /\ rest.queue # <<>> => Head(rest.queue) = Head(s.queue)
<1> DEFINE rest == [held |-> s.held, queue |-> Without(s.queue, i)]
           At(k) == IF k < i THEN k ELSE k + 1
<1>1. s.queue \in Seq(Client) /\ Len(s.queue) \in Nat /\ s.held \in SUBSET Client
  BY LenProperties DEF TypeOK
<1>2. /\ rest.queue \in Seq(Client)
      /\ Len(rest.queue) = Len(s.queue) - 1
      /\ \A k \in 1..Len(s.queue) - 1 : rest.queue[k] = s.queue[At(k)]
  BY <1>1, WithoutProperties
<1>3. rest = [held |-> s.held, queue |-> rest.queue] /\ rest.held = s.held
  OBVIOUS
<1> HIDE DEF rest
<1>4. ASSUME NEW k \in 1..Len(rest.queue)
      PROVE  At(k) \in 1..Len(s.queue) /\ At(k) # i /\ rest.queue[k] = s.queue[At(k)]
  <2>1. k \in 1..Len(s.queue) - 1
    BY <1>2
  <2>2. rest.queue[k] = s.queue[At(k)]
    BY <1>2, <2>1
  <2> QED
    BY <1>1, <2>1, <2>2
<1>5. TypeOK(rest)
  BY <1>1, <1>2, <1>3 DEF TypeOK
<1>6. Sound(rest)
  <2>1. ASSUME NEW k \in 1..Len(rest.queue) PROVE rest.queue[k] \notin rest.held
    BY <1>3, <1>4 DEF Sound
  <2>2. ASSUME NEW k \in 1..Len(rest.queue), NEW j \in 1..Len(rest.queue),
               rest.queue[k] = rest.queue[j]
        PROVE  k = j
    <3>1. At(k) = At(j)
      BY <1>4, <2>2 DEF Sound
    <3> QED
      BY <1>1, <1>2, <3>1
  <2> QED
    BY <1>3, <2>1, <2>2 DEF Sound
<1>7. Elems(rest.queue) \subseteq Elems(s.queue)
  BY <1>4 DEF Elems
<1>8. s.queue[i] \notin Elems(rest.queue)
  <2> SUFFICES ASSUME NEW k \in 1..Len(rest.queue) PROVE rest.queue[k] # s.queue[i]
    BY DEF Elems
  <2> QED
    BY <1>4 DEF Sound
<1>9. ASSUME i # 1, rest.queue # <<>> PROVE Head(rest.queue) = Head(s.queue)
  <2>1. 1 \in 1..Len(rest.queue) /\ At(1) = 1
    BY <1>1, <1>2, <1>9, EmptySeq
  <2> QED
    BY <1>1, <1>2, <1>4, <1>9, <2>1
<1> QED
  BY <1>5, <1>6, <1>7, <1>8, <1>9 DEF rest

\* A client that gives up is in the semaphore no more, and nobody else loses.
LEMMA AbandonSound ==
    ASSUME Params, NEW s, TypeOK(s), Sound(s), NEW c \in Client, c \notin s.held
    PROVE  LET u == Abandon(s, c) IN
           /\ TypeOK(u) /\ Sound(u)
           /\ s.held \subseteq u.held /\ c \notin u.held
           /\ u.held \subseteq s.held \cup Elems(s.queue)
           /\ Elems(u.queue) \subseteq Elems(s.queue) /\ c \notin Elems(u.queue)
<1> DEFINE here == {i \in 1..Len(s.queue) : s.queue[i] = c}
           i == CHOOSE k \in here : TRUE
           rest == [held |-> s.held, queue |-> Without(s.queue, i)]
           u == Abandon(s, c)
<1>1. CASE here = {}
  <2>1. u = s /\ c \notin Elems(s.queue)
    BY <1>1 DEF Abandon, Elems
  <2> QED
    BY <2>1
<1>2. CASE here # {}
  <2>1. i \in 1..Len(s.queue) /\ s.queue[i] = c
    BY <1>2
  <2>2. u = rest \/ u = NotifyWaiters(rest)
    BY <1>2 DEF Abandon
  <2> HIDE DEF i, here
  <2>3. /\ TypeOK(rest) /\ Sound(rest) /\ rest.held = s.held
        /\ Elems(rest.queue) \subseteq Elems(s.queue) /\ c \notin Elems(rest.queue)
    BY <2>1, WithoutSound
  <2> HIDE DEF rest, u
  <2>4. CASE u = NotifyWaiters(rest)
    <3>1. /\ TypeOK(u) /\ Sound(u)
          /\ rest.held \subseteq u.held
          /\ u.held \subseteq rest.held \cup Elems(rest.queue)
          /\ Elems(u.queue) \subseteq Elems(rest.queue)
      BY <2>3, <2>4, NotifySound
    <3> QED
      BY <2>3, <3>1 DEF u
  <2> QED
    BY <2>2, <2>3, <2>4 DEF u
<1> QED
  BY <1>1, <1>2

\* A client of some weight adds to the weight of those it joins.
LEMMA WeightAdded ==
    ASSUME Params, NEW S \in SUBSET Client, NEW c \in Client \ S, W[c] # 0
    PROVE  Weight(S \cup {c}) > Weight(S)
<1>1. Weight(S) \in Nat /\ Weight(S \cup {c}) \in Nat /\ Weight(S) <= Weight(S \cup {c})
  BY WeightMonotone
<1>2. IsFiniteSet(Units(S \cup {c})) /\ Units(S) \subseteq Units(S \cup {c})
  BY UnitsFinite DEF Units
<1>3. <<c, 1>> \in Units(S \cup {c}) /\ <<c, 1>> \notin Units(S)
  BY DEF Units, Params
<1>4. Weight(S) # Weight(S \cup {c})
  BY <1>2, <1>3, FS_Subset DEF Weight
<1> QED
  BY <1>1, <1>4

\* With weights above zero, a client that gives up loses no wake-up either.  (A
\* waiter of weight zero at the head of a full semaphore would miss one.)
LEMMA AbandonBlocked ==
    ASSUME Params, \A d \in Client : W[d] # 0,
           NEW s, TypeOK(s), Sound(s), Blocked(s), NEW c \in Client, c \notin s.held
    PROVE  Blocked(Abandon(s, c))
<1> DEFINE here == {i \in 1..Len(s.queue) : s.queue[i] = c}
           i == CHOOSE k \in here : TRUE
           rest == [held |-> s.held, queue |-> Without(s.queue, i)]
           u == Abandon(s, c)
<1>1. s.queue \in Seq(Client) /\ Len(s.queue) \in Nat /\ s.held \in SUBSET Client
  BY LenProperties DEF TypeOK
<1>2. CASE here = {}
  BY <1>2 DEF Abandon
<1>3. CASE here # {}
  <2>1. i \in 1..Len(s.queue) /\ s.queue[i] = c
    BY <1>3
  <2>2. \/ u = NotifyWaiters(rest)
        \/ u = rest /\ ~(Head(s.queue) = c /\ Weight(s.held) < Size)
    BY <1>3 DEF Abandon
  <2> HIDE DEF i, here
  <2>3. /\ TypeOK(rest) /\ Sound(rest) /\ rest.held = s.held
        /\ Elems(rest.queue) \subseteq Elems(s.queue)
        /\ i # 1 /\ rest.queue # <<>> => Head(rest.queue) = Head(s.queue)
    BY <2>1, WithoutSound
  <2>4. s.queue # <<>> /\ Head(s.queue) = s.queue[1]
    BY <1>1, <2>1, EmptySeq
  <2> HIDE DEF rest, u
  <2>5. CASE u = NotifyWaiters(rest)
    BY <2>3, <2>5, NotifySound DEF u
  <2>6. CASE u = rest /\ ~(Head(s.queue) = c)
    BY <2>1, <2>3, <2>4, <2>6 DEF Blocked, u
  <2>7. CASE u = rest /\ ~(Weight(s.held) < Size)
    <3> SUFFICES ASSUME rest.queue # <<>>
                 PROVE  Weight(rest.held \cup {Head(rest.queue)}) > Size
      BY <2>7 DEF Blocked, u
    <3> DEFINE h == Head(rest.queue)
    <3>1. h \in Client /\ h \notin rest.held
      <4>1. rest.queue \in Seq(Client) /\ Len(rest.queue) \in Nat
        BY <2>3, LenProperties DEF TypeOK
      <4>2. 1 \in 1..Len(rest.queue) /\ h = rest.queue[1]
        BY <4>1, EmptySeq
      <4> QED
        BY <2>3, <4>1, <4>2, ElementOfSeq DEF Sound
    <3>2. Weight(s.held \cup {h}) > Weight(s.held)
      BY <1>1, <2>3, <3>1, WeightAdded
    <3>3. Weight(s.held) \in Nat /\ Weight(s.held \cup {h}) \in Nat
      BY <1>1, <3>1, WeightMonotone
    <3>4. Weight(s.held \cup {h}) > Size
      BY <2>7, <3>2, <3>3 DEF Params
    <3> QED
      BY <2>3, <3>4
  <2> QED
    BY <2>2, <2>5, <2>6, <2>7
<1> QED
  BY <1>2, <1>3
\* Nobody is let in while somebody who was ahead stays in the queue.
Served(s, u) ==
    \A i, j \in 1..Len(s.queue) :
        i < j /\ s.queue[j] \in u.held =>
            \A k \in 1..Len(u.queue) : u.queue[k] # s.queue[i]

LEMMA NotifyServes ==
    ASSUME Params, NEW s, TypeOK(s), Sound(s)
    PROVE  Served(s, NotifyWaiters(s))
<1> DEFINE n == Cardinality(Grantable(s))
           u == NotifyWaiters(s)
           len == Len(s.queue)
<1>1. len \in Nat /\ s.queue \in Seq(Client)
  BY LenProperties DEF TypeOK
<1>2. n \in 0..len
  BY GrantableInterval
<1>3. u = [held |-> s.held \cup Prefix(s, n), queue |-> SubSeq(s.queue, n + 1, len)]
  BY DEF NotifyWaiters
<1> HIDE DEF n, u
<1>4. /\ Len(u.queue) = len - n
      /\ \A k \in 1..(len - n) : u.queue[k] = s.queue[n + k]
  <2>1. /\ Len(SubSeq(s.queue, n + 1, len)) = IF n + 1 <= len THEN len - (n + 1) + 1 ELSE 0
        /\ \A k \in 1..(len - (n + 1) + 1) : SubSeq(s.queue, n + 1, len)[k] = s.queue[(n + 1) + k - 1]
    BY <1>1, <1>2, SubSeqProperties
  <2> QED
    BY <1>1, <1>2, <1>3, <2>1
<1>5. ASSUME NEW i \in 1..len, NEW j \in 1..len, i < j, s.queue[j] \in u.held,
             NEW k \in 1..Len(u.queue)
      PROVE  u.queue[k] # s.queue[i]
  <2>1. j \in 1..n
    <3>1. s.queue[j] \notin s.held
      BY DEF Sound
    <3>2. PICK m \in 1..n : s.queue[j] = s.queue[m]
      BY <1>3, <1>5, <3>1 DEF Prefix
    <3> QED
      BY <1>1, <1>2, <3>2 DEF Sound
  <2>2. n + k \in 1..len /\ u.queue[k] = s.queue[n + k] /\ n + k # i
    BY <1>1, <1>2, <1>4, <1>5, <2>1
  <2> QED
    BY <2>2 DEF Sound
<1> QED
  BY <1>5 DEF Served, u

LEMMA AcquireServes ==
    ASSUME Params, NEW s, TypeOK(s), Sound(s),
           NEW c \in Client, c \notin s.held, c \notin Elems(s.queue)
    PROVE  Served(s, Acquire(s, c))
<1>1. Acquire(s, c).held \subseteq s.held \cup {c}
  BY AcquireSound
<1> QED
  BY <1>1 DEF Served, Sound, Elems

LEMMA ReleaseServes ==
    ASSUME Params, NEW s, TypeOK(s), Sound(s), NEW c \in s.held
    PROVE  Served(s, Release(s, c))
<1> DEFINE f == [held |-> s.held \ {c}, queue |-> s.queue]
<1>1. TypeOK(f) /\ Sound(f)
  <2>1. s.held \in SUBSET Client /\ s.held \ {c} \in SUBSET s.held
    BY DEF TypeOK
  <2>2. Weight(s.held \ {c}) <= Size
    BY <2>1, WeightMonotone DEF Sound, Params
  <2> QED
    BY <2>2 DEF Sound, TypeOK
<1>2. Served(f, NotifyWaiters(f))
  BY <1>1, NotifyServes
<1> QED
  BY <1>2 DEF Served, Release

LEMMA AbandonServes ==
    ASSUME Params, NEW s, TypeOK(s), Sound(s), NEW c \in Client, c \notin s.held
    PROVE  Served(s, Abandon(s, c))
<1> DEFINE here == {i \in 1..Len(s.queue) : s.queue[i] = c}
           h == CHOOSE k \in here : TRUE
           rest == [held |-> s.held, queue |-> Without(s.queue, h)]
           u == Abandon(s, c)
<1>1. ASSUME u.held = s.held PROVE Served(s, u)
  BY <1>1 DEF Served, Sound
<1>2. CASE here # {} /\ u = NotifyWaiters(rest)
  <2>1. h \in 1..Len(s.queue) /\ s.queue[h] = c
    BY <1>2
  <2>2. u = NotifyWaiters(rest)
    BY <1>2
  <2> HIDE DEF h, here
  <2>3. s.queue \in Seq(Client) /\ Len(s.queue) \in Nat
    BY LenProperties DEF TypeOK
  <2>4. /\ TypeOK(rest) /\ Sound(rest) /\ rest.held = s.held
        /\ c \notin Elems(rest.queue)
    BY <2>1, WithoutSound
  <2>5. /\ Len(rest.queue) = Len(s.queue) - 1
        /\ \A k \in 1..Len(s.queue) - 1 : rest.queue[k] = s.queue[IF k < h THEN k ELSE k + 1]
    BY <2>1, <2>3, WithoutProperties
  <2> HIDE DEF rest, u
  <2>6. Served(rest, u) /\ u.held \subseteq rest.held \cup Elems(rest.queue)
        /\ Elems(u.queue) \subseteq Elems(rest.queue)
    BY <2>2, <2>4, NotifyServes, NotifySound
  <2>7. ASSUME NEW i \in 1..Len(s.queue), NEW j \in 1..Len(s.queue), i < j, s.queue[j] \in u.held,
               NEW k \in 1..Len(u.queue)
        PROVE  u.queue[k] # s.queue[i]
    <3>1. PICK m \in 1..Len(rest.queue) : s.queue[j] = rest.queue[m]
      BY <2>4, <2>6, <2>7 DEF Sound, Elems
    <3>2. j = IF m < h THEN m ELSE m + 1
      <4>1. rest.queue[m] = s.queue[IF m < h THEN m ELSE m + 1]
        BY <2>5
      <4>2. (IF m < h THEN m ELSE m + 1) \in 1..Len(s.queue)
        BY <2>1, <2>3, <2>5
      <4> QED
        BY <3>1, <4>1, <4>2 DEF Sound
    <3>3. CASE i = h
      <4>1. u.queue[k] \in Elems(rest.queue)
        BY <2>6 DEF Elems
      <4> QED
        BY <2>1, <2>4, <3>3, <4>1
    <3>4. CASE i # h
      <4> DEFINE l == IF i < h THEN i ELSE i - 1
      <4>1. l \in 1..Len(rest.queue) /\ l < m /\ i = IF l < h THEN l ELSE l + 1
        BY <2>1, <2>3, <2>5, <2>7, <3>2, <3>4
      <4> HIDE DEF l
      <4>2. rest.queue[l] = s.queue[i]
        BY <2>5, <4>1
      <4> QED
        BY <2>6, <2>7, <3>1, <4>1, <4>2 DEF Served
    <3> QED
      BY <3>3, <3>4
  <2> QED
    BY <2>7 DEF Served, u
<1>3. u.held = s.held \/ (here # {} /\ u = NotifyWaiters(rest))
  BY DEF Abandon
<1> QED
  BY <1>1, <1>2, <1>3
-----------------------------------------------------------------------------
(***************************************************************************)
(* The clients are safe: by induction over the steps, from these lemmas.    *)
(***************************************************************************)
Positive == \A c \in Client : W[c] # 0

\* Bounded needs to know that only waiting clients queue, which it says itself,
\* and Release and Abandon need a sound semaphore: together they are inductive.
IInv == ClientsTypeOK /\ Bounded /\ (Positive => HeadBlocked)

LEMMA InitIInv == ASSUME Params PROVE Init => IInv
<1> SUFFICES ASSUME Init PROVE IInv
  OBVIOUS
<1>1. TypeOK(New) /\ Sound(New) /\ New.held = {} /\ New.queue = <<>>
  BY NewSound DEF New
<1>2. Len(<<>>) = 0
  OBVIOUS
<1> QED
  BY <1>1, <1>2 DEF Init, IInv, ClientsTypeOK, Bounded, HeadBlocked, Blocked

LEMMA StepIInv == ASSUME Params PROVE IInv /\ [Next]_vars => IInv'
<1> SUFFICES ASSUME IInv, [Next]_vars PROVE IInv'
  OBVIOUS
<1> USE DEF IInv
<1>1. /\ TypeOK(sem) /\ Sound(sem) /\ (Positive => Blocked(sem))
      /\ at \in [Client -> {"idle", "waiting", "holding"}]
      /\ \A c \in Client : at[c] = "holding" => c \in sem.held
      /\ \A c \in Client : c \in sem.held => at[c] # "idle"
      /\ \A d \in Elems(sem.queue) : at[d] = "waiting" /\ d \notin sem.held /\ d \in Client
  BY LenProperties, ElementOfSeq DEF ClientsTypeOK, Bounded, HeadBlocked, Elems, Sound, TypeOK
\* It is enough to show the parts of the invariant for the new semaphore.
<1>2. SUFFICES /\ TypeOK(sem') /\ Sound(sem') /\ (Positive => Blocked(sem'))
               /\ at' \in [Client -> {"idle", "waiting", "holding"}]
               /\ \A c \in Client : at'[c] = "holding" => c \in sem'.held
               /\ \A c \in Client : c \in sem'.held => at'[c] # "idle"
               /\ \A d \in Elems(sem'.queue) : at'[d] = "waiting"
  BY DEF ClientsTypeOK, Bounded, HeadBlocked, Elems, Sound, Blocked, TypeOK, Positive
<1>3. ASSUME NEW c \in Client, Ask(c) PROVE <1>2!1
  <2>1. c \notin sem.held /\ c \notin Elems(sem.queue)
    BY <1>1, <1>3 DEF Ask
  <2>2. /\ TypeOK(sem') /\ Sound(sem') /\ (Positive => Blocked(sem'))
        /\ sem.held \subseteq sem'.held /\ sem'.held \subseteq sem.held \cup {c}
        /\ Elems(sem'.queue) \subseteq Elems(sem.queue) \cup {c}
    BY <1>1, <1>3, <2>1, AcquireSound DEF Ask
  <2> QED
    BY <1>1, <1>3, <2>2 DEF Ask
<1>4. ASSUME NEW c \in Client, Enter(c) PROVE <1>2!1
  BY <1>1, <1>4 DEF Enter
<1>5. ASSUME NEW c \in Client, Cancel(c) PROVE <1>2!1
  <2>1. /\ TypeOK(sem') /\ Sound(sem')
        /\ sem.held \subseteq sem'.held /\ c \notin sem'.held
        /\ sem'.held \subseteq sem.held \cup Elems(sem.queue)
        /\ Elems(sem'.queue) \subseteq Elems(sem.queue) /\ c \notin Elems(sem'.queue)
    BY <1>1, <1>5, AbandonSound DEF Cancel
  <2>2. Positive => Blocked(sem')
    BY <1>1, <1>5, AbandonBlocked DEF Cancel, Positive
  <2> QED
    BY <1>1, <1>5, <2>1, <2>2 DEF Cancel
<1>6. ASSUME NEW c \in Client, Leave(c) PROVE <1>2!1
  <2>1. c \in sem.held
    BY <1>1, <1>6 DEF Leave
  <2>2. /\ TypeOK(sem') /\ Sound(sem') /\ Blocked(sem')
        /\ sem.held \ {c} \subseteq sem'.held /\ c \notin sem'.held
        /\ sem'.held \subseteq (sem.held \ {c}) \cup Elems(sem.queue)
        /\ Elems(sem'.queue) \subseteq Elems(sem.queue)
    BY <1>1, <1>6, <2>1, ReleaseSound DEF Leave
  <2> QED
    BY <1>1, <1>6, <2>1, <2>2 DEF Leave
<1>7. CASE UNCHANGED vars
  BY <1>1, <1>7 DEF vars
<1> QED
  BY <1>3, <1>4, <1>5, <1>6, <1>7 DEF Next

\* The types of a semaphore and of its clients, whatever they do.
THEOREM SpecClientsTypeOK == ASSUME Params PROVE Spec => []ClientsTypeOK
<1>1. Init => IInv
  BY InitIInv
<1>2. IInv /\ [Next]_vars => IInv'
  BY StepIInv
<1>3. IInv => ClientsTypeOK
  BY DEF IInv
<1> QED
  BY <1>1, <1>2, <1>3, PTL DEF Spec

\* x/sync semaphore: whatever the clients do, the holders fit the size, and
\* each permit out belongs to a client that will return it.
THEOREM SpecBounded == ASSUME Params PROVE Spec => []Bounded
<1>1. Init => IInv
  BY InitIInv
<1>2. IInv /\ [Next]_vars => IInv'
  BY StepIInv
<1>3. IInv => Bounded
  BY DEF IInv
<1> QED
  BY <1>1, <1>2, <1>3, PTL DEF Spec

\* x/sync semaphore: no wake-up is lost when every weight is positive.
THEOREM SpecHeadBlocked == ASSUME Params, Positive PROVE Spec => []HeadBlocked
<1>1. Init => IInv
  BY InitIInv
<1>2. IInv /\ [Next]_vars => IInv'
  BY StepIInv
<1>3. IInv => HeadBlocked
  BY DEF IInv
<1> QED
  BY <1>1, <1>2, <1>3, PTL DEF Spec

\* x/sync semaphore: first come, first served, whatever the sizes: nobody is
\* granted while somebody who was ahead of them still waits.
THEOREM SpecInOrder == ASSUME Params PROVE Spec => InOrder
<1>1. Init => IInv
  BY InitIInv
<1>2. IInv /\ [Next]_vars => IInv'
  BY StepIInv
<1>3. ASSUME IInv, [Next]_vars PROVE [Served(sem, sem')]_vars
  <2> SUFFICES ASSUME Next PROVE Served(sem, sem')
    BY <1>3
  <2>1. TypeOK(sem) /\ Sound(sem)
    BY <1>3 DEF IInv, ClientsTypeOK, Bounded
  <2>2. ASSUME NEW c \in Client, Ask(c) PROVE Served(sem, sem')
    <3>1. c \notin sem.held /\ c \notin Elems(sem.queue)
      BY <1>3, <2>2 DEF IInv, Bounded, Ask, Elems
    <3> QED
      BY <2>1, <2>2, <3>1, AcquireServes DEF Ask
  <2>3. ASSUME NEW c \in Client, Enter(c) PROVE Served(sem, sem')
    BY <2>1, <2>3 DEF Enter, Served, Sound
  <2>4. ASSUME NEW c \in Client, Cancel(c) PROVE Served(sem, sem')
    BY <2>1, <2>4, AbandonServes DEF Cancel
  <2>5. ASSUME NEW c \in Client, Leave(c) PROVE Served(sem, sem')
    <3>1. c \in sem.held
      BY <1>3, <2>5 DEF IInv, Bounded, Leave
    <3> QED
      BY <2>1, <2>5, <3>1, ReleaseServes DEF Leave
  <2> QED
    BY <2>2, <2>3, <2>4, <2>5 DEF Next
<1> QED
  BY <1>1, <1>2, <1>3, PTL DEF Spec, InOrder, Served

=============================================================================
