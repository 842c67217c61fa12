--------------------------- MODULE SysCheckerProofs ---------------------------
(***************************************************************************)
(* The system checker is right for any requests, any libcs and systems, any *)
(* size of its cache and its semaphore: what it says of a libc is the libc's *)
(* system or "unknown", through the cache, joined flights and the catalog;  *)
(* and there is one flight for each libc.                                   *)
(***************************************************************************)
EXTENDS SysChecker, FiniteSetTheorems, SequenceTheorems, TLAPS

\* The callers that ask about a libc that is not in the cache.
MissPC == {"miss", "join"} \cup InFlight

\* What is told of libc l.
Tells(l, s) == s # Unknown => l \in Libc /\ s = System[l]

StateTypes ==
    /\ pc \in [Caller -> PC]
    /\ key \in [Caller -> Lib]
    /\ res \in [Caller -> Sys]
    /\ flight \in [Libc -> Caller \cup {None}]
    /\ items \in SUBSET [libc : Lib, sys : Sys]
    /\ base \in [Caller -> SUBSET Lib]

CacheInv ==
    /\ Cache!TypeOK(cache) /\ Cache!Sound(cache)
    /\ \A i \in 1..Len(cache) : cache[i].val \in {System[cache[i].key], Unknown}

\* Permits are held and awaited at one point only.
SemInv ==
    /\ Sem!TypeOK(sem) /\ Sem!Sound(sem)
    /\ \A c \in Caller : c \in sem.held => pc[c] = "list"
    /\ \A c \in Sem!Elems(sem.queue) : pc[c] = "list"

\* From the moment it has a result, and until it asks again, a caller has one
\* that is true of the libc it asked about.
ResultInv ==
    \A c \in Caller :
        /\ pc[c] \in MissPC => key[c] \in Libc
        /\ pc[c] \in {"add", "land", "told", "idle"} => Tells(key[c], res[c])

ItemInv == \A i \in items : Tells(i.libc, i.sys)

IInv == StateTypes /\ CacheInv /\ SemInv /\ ResultInv /\ ItemInv /\ OneFlight /\ KnownSameSystem

\* What the library needs to know of the semaphore and of the cache.
LEMMA LibraryParams ==
    /\ Sem!Params /\ CacheSize \in Nat \ {0}
    /\ None \notin Caller /\ Updater \in Caller /\ Request \subseteq Caller
<1>1. IsFiniteSet(Caller)
  <2>1. IsFiniteSet(Request \cup {Updater})
    BY SysCheckerAssumption, FS_AddElement
  <2> QED
    BY <2>1 DEF Caller
<1>2. Sem!Params
  BY <1>1, SysCheckerAssumption DEF Sem!Params, Sem!IsFiniteSet, IsFiniteSet
<1> QED
  BY <1>2, SysCheckerAssumption DEF None, Caller, Updater

LEMMA InitIInv == Init => IInv
<1> SUFFICES ASSUME Init PROVE IInv
  OBVIOUS
<1>1. SemInv
  BY LibraryParams, Sem!NewSound DEF Init, SemInv
<1>2. CacheInv
  <2>1. cache = <<>> /\ Len(cache) = 0 /\ cache \in Seq(Cache!Entry)
    BY DEF Init, Cache!New
  <2>2. CacheSize \in Nat
    BY LibraryParams
  <2> QED
    BY <2>1, <2>2 DEF CacheInv, Cache!TypeOK, Cache!Sound
<1>3. StateTypes /\ ResultInv /\ ItemInv /\ KnownSameSystem
  BY DEF Init, StateTypes, ResultInv, ItemInv, KnownSameSystem, Tells, PC, MissPC, InFlight, Lib,
         Sys, Caller
<1>4. OneFlight
  BY DEF Init, OneFlight, InFlight
<1> QED
  BY <1>1, <1>2, <1>3, <1>4 DEF IInv

\* A path without a libc and one whose libc is cached are answered at once.
LEMMA AskStep ==
    ASSUME IInv, NEW c \in Caller, NEW l \in Libc \cup {NoLibc}, Ask(c, l) PROVE IInv'
<1> USE DEF IInv, Ask, Tell
<1>1. CacheInv' /\ (pc'[c] = "told" => res'[c] \in Sys /\ Tells(l, res'[c]))
  <2>1. CASE l = NoLibc
    BY <2>1, SysCheckerAssumption DEF CacheInv, StateTypes, Tells, Sys
  <2>2. CASE l \in Libc /\ Cache!Has(cache, l)
    <3> DEFINE s == Cache!Value(cache, l)
    <3>1. cache' = Cache!Touch(cache, l) /\ res'[c] = s /\ l # NoLibc
      BY <2>2, SysCheckerAssumption DEF StateTypes
    <3>2. /\ Cache!TypeOK(cache') /\ Cache!Sound(cache')
          /\ \A i \in 1..Len(cache') : \E j \in 1..Len(cache) : cache'[i] = cache[j]
          /\ \E j \in 1..Len(cache) : cache[j].key = l /\ cache[j].val = s
      BY <2>2, <3>1, Cache!TouchSound DEF CacheInv
    <3> HIDE DEF s
    <3>3. s \in {System[l], Unknown}
      BY <3>2 DEF CacheInv
    <3>4. CacheInv'
      BY <3>2 DEF CacheInv
    <3> QED
      BY <2>2, <3>1, <3>3, <3>4 DEF Sys, Tells
  <2>3. CASE l \in Libc /\ ~Cache!Has(cache, l)
    BY <2>3, SysCheckerAssumption DEF CacheInv, StateTypes
  <2> QED
    BY <2>1, <2>2, <2>3
<1>2. pc[c] = "idle" /\ pc' = [pc EXCEPT ![c] = pc'[c]] /\ pc'[c] \in {"told", "miss"}
      /\ (pc'[c] = "miss" => l \in Libc /\ res' = res)
      /\ (res' = res \/ (res' = [res EXCEPT ![c] = res'[c]] /\ pc'[c] = "told"))
  BY DEF StateTypes
<1>3. StateTypes'
  BY <1>1, <1>2 DEF StateTypes, PC, Lib
<1>4. SemInv'
  BY <1>2, Sem!ElemsClients DEF SemInv, StateTypes
<1>5. ResultInv'
  BY <1>1, <1>2, <1>3 DEF ResultInv, StateTypes, MissPC, InFlight
<1>6. OneFlight'
  BY <1>2 DEF OneFlight, StateTypes, InFlight
<1>7. KnownSameSystem'
  BY <1>2, LibraryParams DEF KnownSameSystem, StateTypes
<1> QED
  BY <1>1, <1>3, <1>4, <1>5, <1>6, <1>7 DEF ItemInv

\* The first caller for a libc begins its flight, the others join it.
LEMMA DoStep == ASSUME IInv, NEW c \in Caller, Do(c) PROVE IInv'
<1> USE DEF IInv, Do
<1>1. StateTypes'
  BY DEF StateTypes, ResultInv, PC, MissPC
<1>2. SemInv'
  BY Sem!ElemsClients DEF SemInv, StateTypes
<1>3. ResultInv'
  BY DEF ResultInv, StateTypes, MissPC, InFlight
<1>4. OneFlight'
  <2>1. key[c] \in Libc /\ None \notin Caller
    BY LibraryParams DEF ResultInv, MissPC
  <2>2. \A l \in Libc : flight[l] # c
    BY <2>1 DEF OneFlight, InFlight
  <2>3. CASE flight[key[c]] = None
    <3>1. /\ flight' = [flight EXCEPT ![key[c]] = c] /\ flight \in [Libc -> Caller \cup {None}]
          /\ pc \in [Caller -> PC] /\ key' = key
          /\ pc' = [pc EXCEPT ![c] = pc'[c]] /\ pc'[c] \in InFlight /\ pc'[c] # "join"
      BY <2>3 DEF StateTypes, InFlight
    <3>2. \A d \in Caller : pc[d] \in InFlight => key[d] # key[c]
      BY <2>1, <2>3 DEF OneFlight
    <3>3. \A d \in Caller : pc[d] \in MissPC => key[d] \in Libc
      BY DEF ResultInv
    <3> QED
      BY <2>1, <2>2, <3>1, <3>2, <3>3 DEF OneFlight, MissPC
  <2>4. CASE flight[key[c]] # None
    BY <2>1, <2>2, <2>4 DEF OneFlight, StateTypes, InFlight
  <2> QED
    BY <2>3, <2>4
<1>5. KnownSameSystem'
  BY LibraryParams DEF KnownSameSystem, StateTypes
<1> QED
  BY <1>1, <1>2, <1>3, <1>4, <1>5 DEF CacheInv, ItemInv

LEMMA AcquireStep == ASSUME IInv, NEW c \in Caller, Acquire(c) PROVE IInv'
<1> USE DEF IInv, Acquire
<1>1. StateTypes'
  BY DEF StateTypes, PC
<1>2. SemInv'
  <2>1. Sem!Elems(sem.queue) \subseteq Caller /\ \A d \in Sem!Elems(sem.queue) : d \notin sem.held
    BY Sem!ElemsClients DEF SemInv
  <2>2. c \notin sem.held /\ c \notin Sem!Elems(sem.queue)
    BY DEF SemInv
  <2>3. /\ Sem!TypeOK(sem') /\ Sem!Sound(sem')
        /\ sem.held \subseteq sem'.held /\ sem'.held \subseteq sem.held \cup {c}
        /\ Sem!Elems(sem'.queue) \subseteq Sem!Elems(sem.queue) \cup {c}
    BY <2>2, LibraryParams, Sem!AcquireSound DEF SemInv
  <2> QED
    BY <2>1, <2>2, <2>3 DEF SemInv, StateTypes
<1>3. ResultInv'
  BY DEF ResultInv, StateTypes, MissPC, InFlight
<1>4. OneFlight'
  BY DEF OneFlight, StateTypes, InFlight
<1>5. KnownSameSystem'
  BY LibraryParams DEF KnownSameSystem, StateTypes
<1> QED
  BY <1>1, <1>2, <1>3, <1>4, <1>5 DEF CacheInv, ItemInv

LEMMA ListStep == ASSUME IInv, NEW c \in Caller, List(c) PROVE IInv'
<1> USE DEF IInv, List
<1>1. key[c] \in Libc /\ res'[c] \in {System[key[c]], Unknown} /\ res' = [res EXCEPT ![c] = res'[c]]
  BY DEF ResultInv, MissPC, InFlight, StateTypes
<1>2. StateTypes'
  BY <1>1 DEF StateTypes, PC, Sys
<1>3. SemInv'
  <2>1. Sem!Elems(sem.queue) \subseteq Caller /\ \A d \in Sem!Elems(sem.queue) : d \notin sem.held
    BY Sem!ElemsClients DEF SemInv
  <2>2. /\ Sem!TypeOK(sem') /\ Sem!Sound(sem')
        /\ sem.held \ {c} \subseteq sem'.held /\ c \notin sem'.held
        /\ sem'.held \subseteq (sem.held \ {c}) \cup Sem!Elems(sem.queue)
        /\ Sem!Elems(sem'.queue) \subseteq Sem!Elems(sem.queue)
    BY LibraryParams, Sem!ReleaseSound DEF SemInv
  <2> QED
    BY <2>1, <2>2 DEF SemInv, StateTypes
<1>4. ResultInv'
  BY <1>1 DEF ResultInv, StateTypes, MissPC, InFlight, Tells
<1>5. OneFlight'
  BY DEF OneFlight, StateTypes, InFlight
<1>6. KnownSameSystem'
  BY <1>1, LibraryParams DEF KnownSameSystem, StateTypes
<1> QED
  BY <1>2, <1>3, <1>4, <1>5, <1>6 DEF CacheInv, ItemInv

LEMMA LookStep == ASSUME IInv, NEW c \in Caller, Look(c) PROVE IInv'
<1> USE DEF IInv, Look
<1>1. key[c] \in Libc /\ res'[c] \in {System[key[c]], Unknown} /\ res' = [res EXCEPT ![c] = res'[c]]
  BY DEF ResultInv, MissPC, InFlight, StateTypes
<1>2. StateTypes'
  BY <1>1 DEF StateTypes, PC, Sys
<1>3. SemInv'
  BY Sem!ElemsClients DEF SemInv, StateTypes
<1>4. ResultInv'
  BY <1>1 DEF ResultInv, StateTypes, MissPC, InFlight, Tells
<1>5. OneFlight'
  BY DEF OneFlight, StateTypes, InFlight
<1>6. KnownSameSystem'
  BY <1>1, LibraryParams DEF KnownSameSystem, StateTypes
<1> QED
  BY <1>2, <1>3, <1>4, <1>5, <1>6 DEF CacheInv, ItemInv

LEMMA AddToCacheStep == ASSUME IInv, NEW c \in Caller, AddToCache(c) PROVE IInv'
<1> USE DEF IInv, AddToCache
<1>1. StateTypes'
  BY DEF StateTypes, PC
<1>2. CacheInv'
  <2>1. key[c] \in Libc /\ res[c] \in Sys /\ res[c] \in {System[key[c]], Unknown}
    BY DEF ResultInv, MissPC, InFlight, StateTypes, Tells
  <2>2. /\ Cache!TypeOK(cache') /\ Cache!Sound(cache')
        /\ \A i \in 1..Len(cache') :
              \/ cache'[i] = [key |-> key[c], val |-> res[c]]
              \/ \E j \in 1..Len(cache) : cache'[i] = cache[j]
    BY <2>1, LibraryParams, Cache!AddSound DEF CacheInv
  <2> QED
    BY <2>1, <2>2 DEF CacheInv
<1>3. SemInv'
  BY Sem!ElemsClients DEF SemInv, StateTypes
<1>4. ResultInv'
  BY DEF ResultInv, StateTypes, MissPC, InFlight
<1>5. OneFlight'
  BY DEF OneFlight, StateTypes, InFlight
<1>6. KnownSameSystem'
  BY LibraryParams DEF KnownSameSystem, StateTypes
<1> QED
  BY <1>1, <1>2, <1>3, <1>4, <1>5, <1>6 DEF ItemInv

\* All that joined have the key of the caller that lands.
LEMMA LandStep == ASSUME IInv, NEW c \in Caller, Land(c) PROVE IInv'
<1> USE DEF IInv, Land
<1> DEFINE joined == {d \in Caller : pc[d] = "join" /\ key[d] = key[c]} \cup {c}
<1>1. /\ pc[c] = "land" /\ key[c] \in Libc /\ Tells(key[c], res[c]) /\ flight[key[c]] = c
      /\ \A d \in Caller : pc'[d] = IF d \in joined THEN "told" ELSE pc[d]
      /\ \A d \in Caller : res'[d] = IF d \in joined THEN res[c] ELSE res[d]
      /\ \A d \in joined : key[d] = key[c]
      /\ \A d \in joined : pc[d] \in {"join", "land"}
  BY DEF ResultInv, MissPC, InFlight, OneFlight
<1>2. StateTypes'
  BY DEF StateTypes, PC
<1> HIDE DEF joined
<1>3. SemInv'
  BY <1>1, Sem!ElemsClients DEF SemInv, StateTypes
<1>4. ResultInv'
  BY <1>1 DEF ResultInv, MissPC, InFlight
<1>5. OneFlight'
  <2>1. None \notin Caller
    BY LibraryParams
  <2>2. \A d \in Caller : d \notin joined => pc[d] # "join" \/ key[d] # key[c]
    BY DEF joined
  <2>3. \A d \in Caller : pc[d] \in InFlight /\ d # c => key[d] # key[c]
    BY <1>1 DEF OneFlight
  <2>4. \A d \in Caller : pc'[d] \in InFlight => pc[d] \in InFlight /\ d # c
    BY <1>1 DEF InFlight, joined
  <2>5. \A l \in Libc : flight'[l] = IF l = key[c] THEN None ELSE flight[l]
    BY DEF StateTypes
  <2>6. \A l \in Libc : l # key[c] /\ flight[l] # None =>
            flight[l] \in Caller /\ flight[l] \notin joined
    BY <1>1 DEF OneFlight, StateTypes
  <2>7. key' = key
    OBVIOUS
  <2>8. \A d \in Caller : pc[d] \in MissPC => key[d] \in Libc
    BY DEF ResultInv
  <2> QED
    BY <1>1, <2>1, <2>2, <2>3, <2>4, <2>5, <2>6, <2>7, <2>8 DEF OneFlight, MissPC
<1>6. KnownSameSystem'
  BY <1>1, LibraryParams DEF KnownSameSystem
<1> QED
  BY <1>2, <1>3, <1>4, <1>5, <1>6 DEF CacheInv, ItemInv

LEMMA AddItemStep == ASSUME IInv, AddItem PROVE IInv'
<1> USE DEF IInv, AddItem
<1>1. StateTypes'
  BY LibraryParams DEF StateTypes, PC
<1>2. SemInv'
  BY LibraryParams, Sem!ElemsClients DEF SemInv, StateTypes
<1>3. ResultInv'
  BY LibraryParams DEF ResultInv, StateTypes, MissPC, InFlight
<1>4. ItemInv'
  BY LibraryParams DEF ItemInv, ResultInv
<1>5. OneFlight'
  BY LibraryParams DEF OneFlight, StateTypes, InFlight
<1>6. KnownSameSystem'
  BY LibraryParams, SysCheckerAssumption DEF KnownSameSystem, StateTypes
<1> QED
  BY <1>1, <1>2, <1>3, <1>4, <1>5, <1>6 DEF CacheInv

\* A known system is the requested libc's and the item's.
LEMMA FindBaseStep == ASSUME IInv, NEW c \in Request, FindBase(c) PROVE IInv'
<1> USE DEF IInv, FindBase
<1>0. c \in Caller
  BY LibraryParams
<1>1. StateTypes'
  BY <1>0 DEF StateTypes, PC
<1>2. SemInv'
  BY <1>0, Sem!ElemsClients DEF SemInv, StateTypes
<1>3. ResultInv'
  BY <1>0 DEF ResultInv, StateTypes, MissPC, InFlight
<1>4. OneFlight'
  BY <1>0 DEF OneFlight, StateTypes, InFlight
<1>5. KnownSameSystem'
  <2>1. \A l \in base'[c] : \E i \in items : l = i.libc /\ i.sys = res[c]
    BY <1>0 DEF StateTypes
  <2>2. res[c] # Unknown => \A l \in base'[c] : l \in Libc /\ System[l] = System[key[c]]
    BY <1>0, <2>1 DEF ItemInv, ResultInv, Tells
  <2> QED
    BY <1>0, <2>2, LibraryParams DEF KnownSameSystem, StateTypes
<1> QED
  BY <1>1, <1>2, <1>3, <1>4, <1>5 DEF CacheInv, ItemInv

LEMMA StutterStep == ASSUME IInv, UNCHANGED vars PROVE IInv'
  BY DEF IInv, vars, StateTypes, CacheInv, SemInv, ResultInv, ItemInv, OneFlight, KnownSameSystem

\* Every step keeps the inductive invariant.
LEMMA StepIInv == ASSUME IInv, [Next]_vars PROVE IInv'
<1>1. ASSUME NEW c \in Caller, Check(c) PROVE IInv'
  BY <1>1, DoStep, AcquireStep, ListStep, LookStep, AddToCacheStep, LandStep, Zenon DEF Check
<1>2. ASSUME NEW c \in Caller, NEW l \in Libc \cup {NoLibc}, Ask(c, l) PROVE IInv'
  BY <1>2, AskStep
<1>3. /\ \A l \in Asked \cup {NoLibc} : l \in Libc \cup {NoLibc}
      /\ \A l \in Stored \cup {NoLibc} : l \in Libc \cup {NoLibc}
  BY SysCheckerAssumption
<1> QED
  BY <1>1, <1>2, <1>3, LibraryParams, FindBaseStep, AddItemStep, StutterStep, Zenon DEF Next

LEMMA SpecIInv == Spec => []IInv
<1>1. IInv /\ [Next]_vars => IInv'
  BY StepIInv
<1> QED
  BY InitIInv, <1>1, PTL DEF Spec

\* Type correctness: where callers are, what they ask and are told, and the
\* shape of the cache and the semaphore.
THEOREM SpecTypeOK == Spec => []TypeOK
<1>1. IInv => TypeOK
  BY DEF IInv, StateTypes, CacheInv, SemInv, TypeOK
<1> QED
  BY <1>1, SpecIInv, PTL

\* syschecker.go:131-233, catalog.go:225: whatever fails, is evicted or joined,
\* nobody is told the system of another libc, and the catalog records none.
THEOREM SpecNoFalseSystem == Spec => []NoFalseSystem
<1>1. IInv => NoFalseSystem
  BY DEF IInv, CacheInv, ResultInv, ItemInv, Tells, NoFalseSystem
<1> QED
  BY <1>1, SpecIInv, PTL

\* syschecker.go:166: there is one call for a libc at a time, and none is joined
\* that has ended.
THEOREM SpecOneFlight == Spec => []OneFlight
<1>1. IInv => OneFlight
  BY DEF IInv
<1> QED
  BY <1>1, SpecIInv, PTL

\* syschecker.go:169: the cache keeps its size, with one entry for each libc,
\* although two callers may have missed the same.
THEOREM SpecCacheBound == Spec => []CacheBound
<1>1. IInv => CacheBound
  BY DEF IInv, CacheInv, CacheBound
<1> QED
  BY <1>1, SpecIInv, PTL

\* catalog.go:225: where the system asked for is known, all bases are of it.
THEOREM SpecKnownSameSystem == Spec => []KnownSameSystem
<1>1. IInv => KnownSameSystem
  BY DEF IInv
<1> QED
  BY <1>1, SpecIInv, PTL
=============================================================================
