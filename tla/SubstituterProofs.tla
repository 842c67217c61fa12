------------------------- MODULE SubstituterProofs -------------------------
(***************************************************************************)
(* The substituter keeps its promise for any connections, paths and nars,   *)
(* any sizes of its semaphores and of recents, and any times with a TTL a   *)
(* second below the idle time: a nar Nix may ask for is in recents, or      *)
(* RecentsSize others were used since it was, unless its narinfo was sent   *)
(* between the idle check and the exit.  Besides, slots are kept, and an    *)
(* idle exit cuts off no young request that had begun before the check.     *)
(***************************************************************************)
EXTENDS Substituter, FiniteSetTheorems, SequenceTheorems, TLAPS

StateTypes ==
    /\ up \in BOOLEAN /\ exiting \in BOOLEAN
    /\ phase \in 0..Second - 1 /\ idle \in 0..MaxIdle
    /\ at \in [Conn -> At] /\ path \in [Conn -> Path] /\ age \in [Conn -> 0..MaxAge]
    /\ status \in Status /\ info \in [Path -> 0..Stale]
    /\ begun \subseteq Conn /\ told \subseteq Path

\* Recents are in the order of their last use, which "since" is the record of.
CacheInv ==
    /\ Lru!TypeOK(recents) /\ Lru!Sound(recents)
    /\ since \in [Nar -> SUBSET Nar]
    /\ \A n \in Nar : IsFiniteSet(since[n]) /\ Lru!Behind(recents, n, since[n])

\* Slots are held and awaited where SlotsKept says.
NiInv ==
    /\ Ni!TypeOK(nisem) /\ Ni!Sound(nisem)
    /\ \A c \in Conn : c \in nisem.held => at[c] \in {"infoq", "info", "reply"}
    /\ \A c \in Conn : at[c] \in {"info", "reply"} => c \in nisem.held
    /\ \A c \in Ni!Elems(nisem.queue) : at[c] = "infoq"

NsInv ==
    /\ Ns!TypeOK(nsem) /\ Ns!Sound(nsem)
    /\ \A c \in Conn : c \in nsem.held => at[c] \in {"narq", "nar"}
    /\ \A c \in Conn : at[c] = "nar" => c \in nsem.held
    /\ \A c \in Ns!Elems(nsem.queue) : at[c] = "narq"

\* The process has been idle less than a second longer than a request is under
\* way, or than Nix has had the narinfo of one.  When it is about to exit, the
\* only young requests are those begun since it looked, and the only narinfos
\* Nix may use those told since.
TimeInv ==
    /\ \A c \in Conn : at[c] # "free" => up /\ idle < age[c] + Second
    /\ \A p \in Path \ told : info[p] # Stale => up /\ idle < info[p] + Second
    /\ exiting =>
        /\ up
        /\ \A c \in Conn \ begun : at[c] # "free" => age[c] + Second > IdleTime
        /\ \A p \in Path \ told : info[p] = Stale

\* A nar that can be served, or that was pushed out of recents.
Known(n) == Lru!Has(recents, n) \/ Cardinality(since[n]) >= RecentsSize

\* What Nix may ask for is known, and what it is about to be sent.
KnownInv ==
    /\ \A p \in Path \ told : info[p] # Stale => Known(NarOf[p])
    /\ \A c \in Conn : at[c] = "reply" => Known(NarOf[path[c]])

IInv == StateTypes /\ CacheInv /\ NiInv /\ NsInv /\ TimeInv /\ KnownInv

\* What the library needs to know of the semaphores and of the cache, and the
\* clocks of their bounds.
LEMMA Parameters ==
    /\ Ni!Params /\ Ns!Params /\ RecentsSize \in Nat \ {0}
    /\ NarOf \in [Path -> Nar]
    /\ TTL \in Nat /\ IdleTime \in Nat /\ Second \in Nat \ {0} /\ TTL + Second <= IdleTime
<1>1. One \in [Conn -> Nat]
  BY DEF One
<1> QED
  BY <1>1, SubstituterAssumption, TTLAssumption
  DEF Ni!Params, Ni!IsFiniteSet, Ns!Params, Ns!IsFiniteSet, IsFiniteSet

\* A use of nar m keeps the order of recents, and no nar is unknown that was known.
Used(m) == CacheInv' /\ Known(m)' /\ \A n \in Nar : Known(n) => Known(n)'

\* A use of m adds m to what was used since any other nar.
LEMMA SinceGrows ==
    ASSUME CacheInv, NEW m \in Nar, Use(m), NEW n \in Nar
    PROVE  /\ since' \in [Nar -> SUBSET Nar]
           /\ since'[n] = IF n = m THEN {} ELSE since[n] \cup {m}
           /\ IsFiniteSet(since'[n])
           /\ n # m /\ Cardinality(since[n]) >= RecentsSize => Cardinality(since'[n]) >= RecentsSize
<1>1. since \in [Nar -> SUBSET Nar] /\ IsFiniteSet(since[n])
  BY DEF CacheInv
<1>2. since' \in [Nar -> SUBSET Nar] /\ since'[n] = IF n = m THEN {} ELSE since[n] \cup {m}
  BY <1>1 DEF Use
<1>3. IsFiniteSet(since'[n])
  <2>1. IsFiniteSet(since[n] \cup {m}) /\ IsFiniteSet({})
    BY <1>1, FS_EmptySet, FS_AddElement
  <2> QED
    BY <1>2, <2>1
<1>4. ASSUME n # m, Cardinality(since[n]) >= RecentsSize PROVE Cardinality(since'[n]) >= RecentsSize
  <2>1. /\ Cardinality(since'[n]) >= Cardinality(since[n])
        /\ Cardinality(since'[n]) \in Nat /\ Cardinality(since[n]) \in Nat
    BY <1>1, <1>2, <1>3, <1>4, FS_Subset, FS_CardinalityType
  <2> QED
    BY <1>4, <2>1, Parameters
<1> QED
  BY <1>2, <1>3, <1>4

LEMMA AddUses ==
    ASSUME CacheInv, NEW m \in Nar, NEW p \in Path, recents' = Lru!Add(recents, m, p), Use(m)
    PROVE  Used(m)
<1>1. Lru!TypeOK(recents') /\ Lru!Sound(recents')
  BY Parameters, Lru!AddSound DEF CacheInv
<1>2. ASSUME NEW n \in Nar
      PROVE  /\ Lru!Behind(recents', n, since'[n])
             /\ n = m \/ Lru!Has(recents, n) =>
                   Lru!Has(recents', n) \/ Cardinality(since'[n]) >= RecentsSize
  <2> DEFINE S == since[n]
             T == IF n = m THEN {} ELSE S \cup {m}
  <2>1. Lru!TypeOK(recents) /\ Lru!Sound(recents) /\ IsFiniteSet(S) /\ Lru!Behind(recents, n, S)
    BY DEF CacheInv
  <2>2. since'[n] = T
    BY SinceGrows
  <2> HIDE DEF S
  <2>3. Lru!IsFiniteSet(S) /\ Lru!Cardinality(T) = Cardinality(T)
    BY <2>1 DEF Lru!IsFiniteSet, IsFiniteSet, Lru!Cardinality, Cardinality
  <2>4. /\ Lru!Behind(recents', n, T)
        /\ n = m \/ Lru!Has(recents, n) =>
              Lru!Has(recents', n) \/ Lru!Cardinality(T) >= RecentsSize
    BY <2>1, <2>3, Parameters, Lru!AddRecency
  <2> QED
    BY <2>2, <2>3, <2>4
<1>3. CacheInv'
  BY <1>1, <1>2, SinceGrows DEF CacheInv
<1>4. Known(m)'
  BY <1>2 DEF Known
<1>5. ASSUME NEW n \in Nar, Known(n) PROVE Known(n)'
  <2>1. CASE n = m \/ Lru!Has(recents, n)
    BY <1>2, <2>1 DEF Known
  <2>2. CASE n # m /\ Cardinality(since[n]) >= RecentsSize
    BY <2>2, SinceGrows DEF Known
  <2> QED
    BY <1>5, <2>1, <2>2 DEF Known
<1> QED
  BY <1>3, <1>4, <1>5 DEF Used

LEMMA TouchUses ==
    ASSUME CacheInv, NEW m \in Nar, Lru!Has(recents, m),
           recents' = Lru!Touch(recents, m), Use(m)
    PROVE  Used(m)
<1>1. Lru!TypeOK(recents') /\ Lru!Sound(recents')
  BY Lru!TouchSound DEF CacheInv
<1>2. ASSUME NEW n \in Nar
      PROVE  /\ Lru!Behind(recents', n, since'[n])
             /\ Lru!Has(recents, n) => Lru!Has(recents', n)
  <2> DEFINE S == since[n]
             T == IF n = m THEN {} ELSE S \cup {m}
  <2>1. Lru!TypeOK(recents) /\ Lru!Sound(recents) /\ Lru!Behind(recents, n, S)
    BY DEF CacheInv
  <2>2. since'[n] = T
    BY SinceGrows
  <2> HIDE DEF S
  <2>3. Lru!Behind(recents', n, T) /\ (Lru!Has(recents, n) => Lru!Has(recents', n))
    BY <2>1, Lru!TouchRecency
  <2> QED
    BY <2>2, <2>3
<1>3. CacheInv'
  BY <1>1, <1>2, SinceGrows DEF CacheInv
<1>4. Known(m)'
  BY <1>2 DEF Known
<1>5. ASSUME NEW n \in Nar, Known(n) PROVE Known(n)'
  <2>1. CASE n = m \/ Lru!Has(recents, n)
    BY <1>2, <2>1 DEF Known
  <2>2. CASE n # m /\ Cardinality(since[n]) >= RecentsSize
    BY <2>2, SinceGrows DEF Known
  <2> QED
    BY <1>5, <2>1, <2>2 DEF Known
<1> QED
  BY <1>3, <1>4, <1>5 DEF Used
-----------------------------------------------------------------------------
(* Each step keeps the inductive invariant. *)

LEMMA InitIInv == Init => IInv
<1> SUFFICES ASSUME Init PROVE IInv
  OBVIOUS
<1>1. NiInv /\ NsInv
  BY Parameters, Ni!NewSound, Ns!NewSound DEF Init, NiInv, NsInv
<1>2. CacheInv
  <2>1. recents = <<>> /\ Len(recents) = 0 /\ recents \in Seq(Lru!Entry)
    BY DEF Init, Lru!New
  <2>2. since \in [Nar -> SUBSET Nar] /\ \A n \in Nar : IsFiniteSet(since[n])
    BY FS_EmptySet DEF Init
  <2> QED
    BY <2>1, <2>2, Parameters DEF CacheInv, Lru!TypeOK, Lru!Sound, Lru!Behind
<1>3. StateTypes
  <2>1. 0 \in 0..MaxAge /\ Stale \in 0..Stale /\ MaxIdle \in 0..MaxIdle /\ 0 \in 0..Second - 1
    BY Parameters DEF MaxIdle, MaxAge, Stale
  <2> QED
    BY <2>1 DEF Init, StateTypes, At, Status
<1>4. TimeInv /\ KnownInv
  BY DEF Init, TimeInv, KnownInv
<1> QED
  BY <1>1, <1>2, <1>3, <1>4 DEF IInv

\* A request that starts finds the process up, and has not waited yet.
LEMMA BeginTimes ==
    ASSUME StateTypes, TimeInv, NEW c \in Conn, NEW p \in Path, Begin(c, p), info' = info,
           NEW w \in At, at' = [at EXCEPT ![c] = w]
    PROVE  StateTypes' /\ TimeInv'
<1>1. /\ up' = TRUE /\ exiting' = exiting /\ told' = told /\ phase' = phase
      /\ idle' \in 0..Second - 1 /\ idle' \in 0..MaxIdle /\ status' \in Status
      /\ path' \in [Conn -> Path] /\ age' \in [Conn -> 0..MaxAge] /\ at' \in [Conn -> At]
      /\ age' = [age EXCEPT ![c] = 0]
      /\ begun' \subseteq Conn /\ begun \subseteq begun' /\ (exiting => c \in begun')
  BY Parameters DEF StateTypes, Begin, Alive, MaxIdle, MaxAge, Status
<1>2. StateTypes'
  BY <1>1 DEF StateTypes
<1>3. \A d \in Conn : age'[d] \in Nat
  BY <1>1, Parameters DEF MaxAge
<1>4. \A q \in Path : info'[q] \in Nat
  BY Parameters DEF StateTypes, Stale
<1>5. \A d \in Conn \ begun' : exiting => at'[d] = at[d] /\ age'[d] = age[d] /\ d \in Conn \ begun
  BY <1>1 DEF StateTypes
<1> QED
  BY <1>1, <1>2, <1>3, <1>4, <1>5, Parameters DEF TimeInv

\* A request that ends has just been alive; the narinfo it may have sent is new,
\* and told of when the process is about to exit.
LEMMA EndTimes ==
    ASSUME StateTypes, TimeInv, NEW c \in Conn, at[c] # "free", End(c), status' \in Status,
           \/ info' = info /\ told' = told
           \/ \E p \in Path : /\ info' = [info EXCEPT ![p] = 0]
                             /\ told' = IF exiting THEN told \cup {p} ELSE told \ {p}
    PROVE  StateTypes' /\ TimeInv'
<1>1. /\ up' = TRUE /\ exiting' = exiting /\ phase' = phase
      /\ idle' \in 0..Second - 1 /\ idle' \in 0..MaxIdle
      /\ path' = path /\ age' \in [Conn -> 0..MaxAge] /\ at' \in [Conn -> At]
      /\ age' = [age EXCEPT ![c] = 0] /\ at' = [at EXCEPT ![c] = "free"]
      /\ begun' = begun \ {c}
  BY Parameters DEF StateTypes, TimeInv, End, Alive, MaxIdle, MaxAge, At
<1>2. /\ info' \in [Path -> 0..Stale] /\ told' \subseteq Path
      /\ exiting => \A q \in Path \ told' : q \notin told /\ info'[q] = info[q]
  BY Parameters DEF StateTypes, Stale
<1>3. StateTypes'
  BY <1>1, <1>2 DEF StateTypes
<1>4. \A d \in Conn : age'[d] \in Nat
  BY <1>1, Parameters DEF MaxAge
<1>5. \A q \in Path : info'[q] \in Nat
  BY <1>2, Parameters DEF Stale
<1>6. \A d \in Conn \ begun' : at'[d] # "free" => d # c /\ at'[d] = at[d] /\ age'[d] = age[d] /\ d \notin begun
  BY <1>1 DEF StateTypes
<1>7. \A d \in Conn : at'[d] # "free" => idle' < age'[d] + Second
  BY <1>1, <1>4, Parameters
<1>8. \A q \in Path : idle' < info'[q] + Second
  BY <1>1, <1>5, Parameters
<1>9. exiting => /\ \A d \in Conn \ begun' : at'[d] # "free" => age'[d] + Second > IdleTime
                 /\ \A q \in Path \ told' : info'[q] = Stale
  BY <1>2, <1>6 DEF TimeInv
<1> QED
  BY <1>1, <1>3, <1>7, <1>8, <1>9 DEF TimeInv, Stale

\* A request under way that moves on takes no time.
LEMMA MoveTimes ==
    ASSUME StateTypes, TimeInv, NEW c \in Conn, at[c] # "free", NEW w \in At, Continue(c, w)
    PROVE  StateTypes' /\ TimeInv'
  BY DEF StateTypes, TimeInv, Continue, Status

LEMMA AskInfoStep == ASSUME IInv, NEW c \in Conn, NEW p \in Path, AskInfo(c, p) PROVE IInv'
<1>0. StateTypes /\ CacheInv /\ NiInv /\ NsInv /\ TimeInv /\ KnownInv
  BY DEF IInv
<1> USE DEF AskInfo
<1>1. /\ at[c] = "free" /\ at' = [at EXCEPT ![c] = "infoq"] /\ path' = [path EXCEPT ![c] = p]
      /\ told' = told
  BY DEF Begin
<1>2. StateTypes' /\ TimeInv'
  BY <1>0, BeginTimes DEF At
<1>3. NiInv'
  <2>1. Ni!Elems(nisem.queue) \subseteq Conn
    BY <1>0, Ni!ElemsClients DEF NiInv
  <2>2. c \notin nisem.held /\ c \notin Ni!Elems(nisem.queue)
    BY <1>0, <1>1 DEF NiInv
  <2>3. /\ Ni!TypeOK(nisem') /\ Ni!Sound(nisem')
        /\ nisem.held \subseteq nisem'.held /\ nisem'.held \subseteq nisem.held \cup {c}
        /\ Ni!Elems(nisem'.queue) \subseteq Ni!Elems(nisem.queue) \cup {c}
    BY <1>0, <2>2, Parameters, Ni!AcquireSound DEF NiInv
  <2> QED
    BY <1>0, <1>1, <2>1, <2>2, <2>3 DEF NiInv, StateTypes
<1>4. NsInv'
  BY <1>0, <1>1, Ns!ElemsClients DEF NsInv, StateTypes
<1>5. KnownInv'
  BY <1>0, <1>1 DEF KnownInv, Known, StateTypes
<1> QED
  BY <1>0, <1>2, <1>3, <1>4, <1>5 DEF IInv, CacheInv

LEMMA InfoCanceledStep == ASSUME IInv, NEW c \in Conn, InfoCanceled(c) PROVE IInv'
<1>0. StateTypes /\ CacheInv /\ NiInv /\ NsInv /\ TimeInv /\ KnownInv
  BY DEF IInv
<1> USE DEF InfoCanceled
<1>1. at[c] = "infoq" /\ at' = [at EXCEPT ![c] = "free"] /\ path' = path
  BY DEF End
<1>2. StateTypes' /\ TimeInv'
  BY <1>0, EndTimes DEF Status, StateTypes
<1>3. NiInv'
  <2>1. Ni!Elems(nisem.queue) \subseteq Conn
    BY <1>0, Ni!ElemsClients DEF NiInv
  <2>2. /\ Ni!TypeOK(nisem') /\ Ni!Sound(nisem')
        /\ nisem.held \subseteq nisem'.held /\ c \notin nisem'.held
        /\ nisem'.held \subseteq nisem.held \cup Ni!Elems(nisem.queue)
        /\ Ni!Elems(nisem'.queue) \subseteq Ni!Elems(nisem.queue) /\ c \notin Ni!Elems(nisem'.queue)
    BY <1>0, Parameters, Ni!AbandonSound DEF NiInv
  <2> QED
    BY <1>0, <1>1, <2>1, <2>2 DEF NiInv, StateTypes
<1>4. NsInv'
  BY <1>0, <1>1, Ns!ElemsClients DEF NsInv, StateTypes
<1>5. KnownInv'
  BY <1>0, <1>1 DEF KnownInv, Known, StateTypes
<1> QED
  BY <1>0, <1>2, <1>3, <1>4, <1>5 DEF IInv, CacheInv

LEMMA InfoSlotStep == ASSUME IInv, NEW c \in Conn, InfoSlot(c) PROVE IInv'
<1>0. StateTypes /\ CacheInv /\ NiInv /\ NsInv /\ TimeInv /\ KnownInv
  BY DEF IInv
<1> USE DEF InfoSlot, Continue
<1>1. StateTypes' /\ TimeInv'
  BY <1>0, MoveTimes DEF At
<1>2. NiInv'
  BY <1>0, Ni!ElemsClients DEF NiInv, StateTypes
<1>3. NsInv'
  BY <1>0, Ns!ElemsClients DEF NsInv, StateTypes
<1>4. KnownInv'
  BY <1>0 DEF KnownInv, Known, StateTypes
<1> QED
  BY <1>0, <1>1, <1>2, <1>3, <1>4 DEF IInv, CacheInv

\* The holder of a narinfo slot that gives it back, for whatever reply.
LEMMA ReleaseInfo ==
    ASSUME StateTypes, NiInv, NEW c \in Conn, at[c] \in {"info", "reply"},
           at' = [at EXCEPT ![c] = "free"], nisem' = Ni!Release(nisem, c)
    PROVE  NiInv'
<1>1. Ni!Elems(nisem.queue) \subseteq Conn /\ \A d \in Ni!Elems(nisem.queue) : d \notin nisem.held
  BY Ni!ElemsClients DEF NiInv
<1>2. /\ Ni!TypeOK(nisem') /\ Ni!Sound(nisem')
      /\ nisem.held \ {c} \subseteq nisem'.held /\ c \notin nisem'.held
      /\ nisem'.held \subseteq (nisem.held \ {c}) \cup Ni!Elems(nisem.queue)
      /\ Ni!Elems(nisem'.queue) \subseteq Ni!Elems(nisem.queue)
  BY Parameters, Ni!ReleaseSound DEF NiInv
<1> QED
  BY <1>1, <1>2 DEF NiInv, StateTypes

LEMMA InfoFailsStep == ASSUME IInv, NEW c \in Conn, InfoFails(c) PROVE IInv'
<1>0. StateTypes /\ CacheInv /\ NiInv /\ NsInv /\ TimeInv /\ KnownInv
  BY DEF IInv
<1> USE DEF InfoFails
<1>1. at[c] = "info" /\ at' = [at EXCEPT ![c] = "free"] /\ path' = path
  BY DEF End
<1>2. StateTypes' /\ TimeInv'
  BY <1>0, EndTimes DEF Status, StateTypes
<1>3. NiInv'
  BY <1>0, <1>1, ReleaseInfo
<1>4. NsInv'
  BY <1>0, <1>1, Ns!ElemsClients DEF NsInv, StateTypes
<1>5. KnownInv'
  BY <1>0, <1>1 DEF KnownInv, Known, StateTypes
<1> QED
  BY <1>0, <1>2, <1>3, <1>4, <1>5 DEF IInv, CacheInv

LEMMA PutRecentStep == ASSUME IInv, NEW c \in Conn, PutRecent(c) PROVE IInv'
<1>0. StateTypes /\ CacheInv /\ NiInv /\ NsInv /\ TimeInv /\ KnownInv
  BY DEF IInv
<1> USE DEF PutRecent, Continue
<1>1. path[c] \in Path /\ NarOf[path[c]] \in Nar
  BY <1>0, Parameters DEF StateTypes
<1>2. Used(NarOf[path[c]])
  BY <1>0, <1>1, AddUses
<1>3. StateTypes' /\ TimeInv'
  BY <1>0, MoveTimes DEF At
<1>4. NiInv'
  BY <1>0, Ni!ElemsClients DEF NiInv, StateTypes
<1>5. NsInv'
  BY <1>0, Ns!ElemsClients DEF NsInv, StateTypes
<1>6. KnownInv'
  <2>1. \A d \in Conn : at'[d] = "reply" => d = c \/ at[d] = "reply"
    BY <1>0 DEF StateTypes
  <2>2. \A d \in Conn : NarOf[path[d]] \in Nar
    BY <1>0, Parameters DEF StateTypes
  <2>3. \A q \in Path : NarOf[q] \in Nar
    BY Parameters
  <2>4. path' = path /\ info' = info
    OBVIOUS
  <2> QED
    BY <1>0, <1>2, <2>1, <2>2, <2>3, <2>4 DEF KnownInv, Used, Known
<1> QED
  BY <1>0, <1>2, <1>3, <1>4, <1>5, <1>6 DEF IInv, Used

LEMMA ReplyInfoStep == ASSUME IInv, NEW c \in Conn, ReplyInfo(c) PROVE IInv'
<1>0. StateTypes /\ CacheInv /\ NiInv /\ NsInv /\ TimeInv /\ KnownInv
  BY DEF IInv
<1> USE DEF ReplyInfo
<1>1. /\ at[c] = "reply" /\ at' = [at EXCEPT ![c] = "free"] /\ path' = path
      /\ path[c] \in Path /\ 0 \in 0..Stale
  BY <1>0, Parameters DEF End, StateTypes, Stale
<1>2. StateTypes' /\ TimeInv'
  BY <1>0, <1>1, EndTimes DEF Status, StateTypes
<1>3. NiInv'
  BY <1>0, <1>1, ReleaseInfo
<1>4. NsInv'
  BY <1>0, <1>1, Ns!ElemsClients DEF NsInv, StateTypes
<1>5. KnownInv'
  BY <1>0, <1>1 DEF KnownInv, Known, StateTypes
<1> QED
  BY <1>0, <1>2, <1>3, <1>4, <1>5 DEF IInv, CacheInv

LEMMA AskNarStep == ASSUME IInv, NEW c \in Conn, NEW p \in Path, AskNar(c, p) PROVE IInv'
<1>0. StateTypes /\ CacheInv /\ NiInv /\ NsInv /\ TimeInv /\ KnownInv
  BY DEF IInv
<1> USE DEF AskNar
<1>1. /\ at[c] = "free" /\ path' = [path EXCEPT ![c] = p] /\ NarOf[p] \in Nar /\ told' = told
      /\ \A d \in Conn : NarOf[path[d]] \in Nar
      /\ \A q \in Path : NarOf[q] \in Nar
  BY <1>0, Parameters DEF Begin, StateTypes
<1>2. NiInv' /\ StateTypes' /\ TimeInv' /\ NsInv' /\ CacheInv' /\ KnownInv'
  <2>1. CASE Lru!Has(recents, NarOf[p])
    <3> DEFINE m == NarOf[p]
    <3>1. /\ at' = [at EXCEPT ![c] = "narq"] /\ nisem' = nisem /\ info' = info
          /\ nsem' = Ns!Acquire(nsem, c)
      BY <2>1
    <3>2. StateTypes' /\ TimeInv'
      BY <1>0, <3>1, BeginTimes DEF At
    <3>3. NiInv'
      BY <1>0, <1>1, <3>1, Ni!ElemsClients DEF NiInv, StateTypes
    <3>4. NsInv'
      <4>1. Ns!Elems(nsem.queue) \subseteq Conn
        BY <1>0, Ns!ElemsClients DEF NsInv
      <4>2. c \notin nsem.held /\ c \notin Ns!Elems(nsem.queue)
        BY <1>0, <1>1 DEF NsInv
      <4>3. /\ Ns!TypeOK(nsem') /\ Ns!Sound(nsem')
            /\ nsem.held \subseteq nsem'.held /\ nsem'.held \subseteq nsem.held \cup {c}
            /\ Ns!Elems(nsem'.queue) \subseteq Ns!Elems(nsem.queue) \cup {c}
        BY <1>0, <3>1, <4>2, Parameters, Ns!AcquireSound DEF NsInv
      <4> QED
        BY <1>0, <1>1, <3>1, <4>1, <4>2, <4>3 DEF NsInv, StateTypes
    <3>5. Used(m)
      BY <1>0, <1>1, <2>1, TouchUses
    <3>6. KnownInv'
      <4>1. \A d \in Conn : at'[d] = "reply" => at[d] = "reply" /\ path'[d] = path[d]
        BY <1>0, <1>1, <3>1 DEF StateTypes
      <4> QED
        BY <1>0, <1>1, <3>1, <3>5, <4>1 DEF KnownInv, Used, Known
    <3> QED
      BY <3>2, <3>3, <3>4, <3>5, <3>6 DEF Used
  <2>2. CASE ~Lru!Has(recents, NarOf[p])
    <3>1. /\ UNCHANGED <<at, recents, since, nsem, nisem, info>>
          /\ at' = [at EXCEPT ![c] = "free"]
      BY <1>0, <1>1, <2>2 DEF StateTypes
    <3>2. StateTypes' /\ TimeInv'
      BY <1>0, <3>1, BeginTimes DEF At
    <3>3. KnownInv'
      BY <1>0, <1>1, <3>1 DEF KnownInv, Known, StateTypes
    <3> QED
      BY <1>0, <3>1, <3>2, <3>3 DEF NiInv, NsInv, CacheInv
  <2> QED
    BY <2>1, <2>2
<1> QED
  BY <1>2 DEF IInv

LEMMA NarCanceledStep == ASSUME IInv, NEW c \in Conn, NarCanceled(c) PROVE IInv'
<1>0. StateTypes /\ CacheInv /\ NiInv /\ NsInv /\ TimeInv /\ KnownInv
  BY DEF IInv
<1> USE DEF NarCanceled
<1>1. at[c] = "narq" /\ at' = [at EXCEPT ![c] = "free"] /\ path' = path
  BY DEF End
<1>2. StateTypes' /\ TimeInv'
  BY <1>0, EndTimes DEF StateTypes, Status
<1>3. NiInv'
  BY <1>0, <1>1, Ni!ElemsClients DEF NiInv, StateTypes
<1>4. NsInv'
  <2>1. Ns!Elems(nsem.queue) \subseteq Conn
    BY <1>0, Ns!ElemsClients DEF NsInv
  <2>2. /\ Ns!TypeOK(nsem') /\ Ns!Sound(nsem')
        /\ nsem.held \subseteq nsem'.held /\ c \notin nsem'.held
        /\ nsem'.held \subseteq nsem.held \cup Ns!Elems(nsem.queue)
        /\ Ns!Elems(nsem'.queue) \subseteq Ns!Elems(nsem.queue) /\ c \notin Ns!Elems(nsem'.queue)
    BY <1>0, Parameters, Ns!AbandonSound DEF NsInv
  <2> QED
    BY <1>0, <1>1, <2>1, <2>2 DEF NsInv, StateTypes
<1>5. KnownInv'
  BY <1>0, <1>1 DEF KnownInv, Known, StateTypes
<1> QED
  BY <1>0, <1>2, <1>3, <1>4, <1>5 DEF IInv, CacheInv

LEMMA NarSlotStep == ASSUME IInv, NEW c \in Conn, NarSlot(c) PROVE IInv'
<1>0. StateTypes /\ CacheInv /\ NiInv /\ NsInv /\ TimeInv /\ KnownInv
  BY DEF IInv
<1> USE DEF NarSlot, Continue
<1>1. StateTypes' /\ TimeInv'
  BY <1>0, MoveTimes DEF At
<1>2. NiInv'
  BY <1>0, Ni!ElemsClients DEF NiInv, StateTypes
<1>3. NsInv'
  BY <1>0, Ns!ElemsClients DEF NsInv, StateTypes
<1>4. KnownInv'
  BY <1>0 DEF KnownInv, Known, StateTypes
<1> QED
  BY <1>0, <1>1, <1>2, <1>3, <1>4 DEF IInv, CacheInv

LEMMA EndNarStep == ASSUME IInv, NEW c \in Conn, EndNar(c) PROVE IInv'
<1>0. StateTypes /\ CacheInv /\ NiInv /\ NsInv /\ TimeInv /\ KnownInv
  BY DEF IInv
<1> USE DEF EndNar
<1>1. at[c] = "nar" /\ at' = [at EXCEPT ![c] = "free"] /\ path' = path
  BY DEF End
<1>2. StateTypes' /\ TimeInv'
  BY <1>0, EndTimes DEF StateTypes, Status
<1>3. NiInv'
  BY <1>0, <1>1, Ni!ElemsClients DEF NiInv, StateTypes
<1>4. NsInv'
  <2>1. Ns!Elems(nsem.queue) \subseteq Conn /\ \A d \in Ns!Elems(nsem.queue) : d \notin nsem.held
    BY <1>0, Ns!ElemsClients DEF NsInv
  <2>2. /\ Ns!TypeOK(nsem') /\ Ns!Sound(nsem')
        /\ nsem.held \ {c} \subseteq nsem'.held /\ c \notin nsem'.held
        /\ nsem'.held \subseteq (nsem.held \ {c}) \cup Ns!Elems(nsem.queue)
        /\ Ns!Elems(nsem'.queue) \subseteq Ns!Elems(nsem.queue)
    BY <1>0, Parameters, Ns!ReleaseSound DEF NsInv
  <2> QED
    BY <1>0, <1>1, <2>1, <2>2 DEF NsInv, StateTypes
<1>5. KnownInv'
  BY <1>0, <1>1 DEF KnownInv, Known, StateTypes
<1> QED
  BY <1>0, <1>2, <1>3, <1>4, <1>5 DEF IInv, CacheInv

\* A clock that is not at its bound yet, and one that is.
LEMMA LaterTime ==
    ASSUME NEW max \in Nat, NEW t \in 0..max
    PROVE  Later(t, max) \in 0..max /\ Later(t, max) >= t /\ Later(t, max) <= t + 1
           /\ (t < max => Later(t, max) = t + 1) /\ (t = max => Later(t, max) = max)
  BY DEF Later

\* A tick makes nothing young, and brings back no narinfo.
LEMMA PassTimes == ASSUME StateTypes, TimeInv, Pass PROVE StateTypes' /\ TimeInv'
<1>1. /\ MaxIdle \in Nat /\ MaxAge = MaxIdle /\ Stale \in Nat /\ MaxIdle = IdleTime + 1
      /\ Stale = TTL + 1 /\ Second \in Nat \ {0} /\ TTL + Second <= IdleTime
      /\ TTL \in Nat /\ IdleTime \in Nat
      /\ idle \in 0..MaxIdle /\ \A c \in Conn : age[c] \in 0..MaxAge
      /\ \A p \in Path : info[p] \in 0..Stale
  BY Parameters DEF StateTypes, MaxIdle, MaxAge, Stale
<1>2. /\ idle' = Later(idle, MaxIdle)
      /\ age' = [c \in Conn |-> IF at[c] = "free" THEN 0 ELSE Later(age[c], MaxAge)]
      /\ info' = [p \in Path |-> Later(info[p], Stale)]
      /\ told' = {p \in told : info'[p] # Stale}
      /\ UNCHANGED <<up, exiting, at, begun>>
  BY DEF Pass
<1>3. idle' \in 0..MaxIdle /\ idle' <= idle + 1
  BY <1>1, <1>2, LaterTime
<1>4. /\ \A c \in Conn : Later(age[c], MaxAge) \in 0..MaxAge
      /\ \A p \in Path : Later(info[p], Stale) \in 0..Stale
  BY <1>1, LaterTime
<1>5. phase' \in 0..Second - 1
  <2>1. phase + 1 \in Int /\ Second \in Nat \ {0} /\ phase' = (phase + 1) % Second
    BY <1>1 DEF StateTypes, Pass
  <2> QED
    BY <2>1
<1>6. StateTypes'
  <2>1. age' \in [Conn -> 0..MaxAge] /\ info' \in [Path -> 0..Stale]
    BY <1>1, <1>2, <1>4
  <2>2. told' \subseteq Path /\ path' = path /\ status' \in Status
    BY <1>2 DEF StateTypes, Status, Pass
  <2> QED
    BY <1>2, <1>3, <1>5, <2>1, <2>2 DEF StateTypes
<1>7. ASSUME NEW c \in Conn, at[c] # "free"
      PROVE  up /\ idle' < age'[c] + Second /\ age'[c] >= age[c]
  <2>1. up /\ idle < age[c] + Second /\ age'[c] = Later(age[c], MaxAge) /\ age[c] \in 0..MaxAge
    BY <1>1, <1>2, <1>7 DEF TimeInv
  <2>2. \/ age[c] < MaxAge /\ age'[c] = age[c] + 1
        \/ age[c] = MaxAge /\ age'[c] = MaxAge
    <3>1. age[c] \in 0..MaxAge /\ MaxAge \in Nat
      BY <1>1
    <3>2. age'[c] = Later(age[c], MaxAge)
      BY <2>1
    <3> QED
      BY <3>1, <3>2 DEF Later
  <2> QED
    BY <1>1, <1>3, <2>1, <2>2
<1>8. ASSUME NEW p \in Path \ told', info'[p] # Stale
      PROVE  p \notin told /\ info[p] # Stale /\ up /\ idle' < info'[p] + Second
  <2>1. info'[p] = Later(info[p], Stale) /\ info[p] \in 0..Stale /\ p \notin told
    BY <1>1, <1>2, <1>8
  <2>2. info[p] # Stale /\ info'[p] = info[p] + 1
    BY <1>1, <1>8, <2>1, LaterTime
  <2>3. up /\ idle < info[p] + Second
    BY <2>1, <2>2 DEF TimeInv
  <2> QED
    BY <1>1, <1>3, <2>1, <2>2, <2>3
<1>9. ASSUME exiting
      PROVE  /\ up
             /\ \A c \in Conn \ begun : at[c] # "free" => age'[c] + Second > IdleTime
             /\ \A p \in Path \ told' : info'[p] = Stale
  <2>1. up /\ \A p \in Path \ told' : info'[p] = Stale
    BY <1>8, <1>9 DEF TimeInv
  <2>2. ASSUME NEW c \in Conn \ begun, at[c] # "free" PROVE age'[c] + Second > IdleTime
    <3>1. age[c] + Second > IdleTime /\ age'[c] >= age[c]
      BY <1>7, <1>9, <2>2 DEF TimeInv
    <3>2. age[c] \in Int /\ age'[c] \in Int
      BY <1>1, <1>2, <1>4, <2>2
    <3> QED
      BY <1>1, <3>1, <3>2
  <2> QED
    BY <2>1, <2>2
<1> QED
  BY <1>2, <1>6, <1>7, <1>8, <1>9 DEF TimeInv, Stale

LEMMA PassStep == ASSUME IInv, Pass PROVE IInv'
<1>0. StateTypes /\ CacheInv /\ NiInv /\ NsInv /\ TimeInv /\ KnownInv
  BY DEF IInv
<1>1. StateTypes' /\ TimeInv'
  BY <1>0, PassTimes
<1>2. UNCHANGED <<recents, since, nisem, nsem, at, path>>
  BY DEF Pass
<1>3. NiInv' /\ NsInv' /\ CacheInv'
  BY <1>0, <1>2 DEF NiInv, NsInv, CacheInv
<1>4. ASSUME NEW p \in Path \ told', info'[p] # Stale PROVE p \notin told /\ info[p] # Stale
  <2>1. Stale \in Nat /\ info[p] \in 0..Stale
    BY <1>0, Parameters DEF StateTypes, Stale
  <2>2. info'[p] = Later(info[p], Stale) /\ p \notin told
    BY <1>4 DEF Pass
  <2> QED
    BY <1>4, <2>1, <2>2, LaterTime
<1>5. KnownInv'
  BY <1>0, <1>2, <1>4 DEF KnownInv, Known, Stale
<1> QED
  BY <1>1, <1>3, <1>5 DEF IInv

\* A process that has found itself idle has promised nothing that Nix may use.
LEMMA LookStep == ASSUME IInv, Look PROVE IInv'
<1>0. StateTypes /\ CacheInv /\ NiInv /\ NsInv /\ TimeInv /\ KnownInv
  BY DEF IInv
<1>1. /\ up /\ idle > IdleTime /\ exiting' = TRUE /\ status' = 0
      /\ UNCHANGED <<up, phase, idle, recents, since, nisem, nsem, at, path, age, info, begun, told>>
  BY DEF Look
<1>2. /\ idle \in Int /\ IdleTime \in Nat /\ TTL \in Nat /\ Second \in Nat
      /\ TTL + Second <= IdleTime /\ Stale = TTL + 1
      /\ \A c \in Conn : age[c] \in Int
      /\ \A p \in Path : info[p] \in 0..Stale
  BY <1>0, Parameters DEF StateTypes, MaxIdle, MaxAge, Stale
<1>3. \A c \in Conn : at[c] # "free" => age[c] + Second > IdleTime
  BY <1>0, <1>1, <1>2 DEF TimeInv
<1>4. \A p \in Path \ told : info[p] = Stale
  <2> SUFFICES ASSUME NEW p \in Path \ told, info[p] # Stale PROVE FALSE
    OBVIOUS
  <2>1. idle < info[p] + Second /\ info[p] \in 0..Stale
    BY <1>0, <1>2 DEF TimeInv
  <2> QED
    BY <1>1, <1>2, <2>1
<1>5. StateTypes'
  BY <1>0, <1>1 DEF StateTypes, Status
<1>6. TimeInv'
  BY <1>0, <1>1, <1>3, <1>4 DEF TimeInv, Stale
<1>7. NiInv' /\ NsInv' /\ CacheInv' /\ KnownInv'
  BY <1>0, <1>1 DEF NiInv, NsInv, CacheInv, KnownInv, Known, Stale
<1> QED
  BY <1>5, <1>6, <1>7 DEF IInv

\* What the exit loses of what Nix may use was told after the look.
LEMMA ExitStep == ASSUME IInv, Exit PROVE IInv'
<1>0. StateTypes /\ CacheInv /\ NiInv /\ NsInv /\ TimeInv /\ KnownInv
  BY DEF IInv
<1>1. /\ exiting /\ up' = FALSE /\ exiting' = FALSE /\ status' = 0 /\ begun' = {}
      /\ recents' = <<>> /\ since' = [n \in Nar |-> {}]
      /\ nisem' = Ni!New /\ nsem' = Ns!New
      /\ at' = [c \in Conn |-> "free"] /\ age' = [c \in Conn |-> 0]
      /\ UNCHANGED <<phase, idle, path, info, told>>
  BY DEF Exit, Lru!New
<1>2. \A p \in Path \ told : info[p] = Stale
  BY <1>0, <1>1 DEF TimeInv
<1>3. NiInv' /\ NsInv'
  BY <1>1, Parameters, Ni!NewSound, Ns!NewSound DEF NiInv, NsInv
<1>4. CacheInv'
  <2>1. recents' = <<>> /\ Len(recents') = 0 /\ recents' \in Seq(Lru!Entry)
    BY <1>1
  <2>2. since' \in [Nar -> SUBSET Nar] /\ \A n \in Nar : IsFiniteSet(since'[n])
    BY <1>1, FS_EmptySet
  <2> QED
    BY <2>1, <2>2, Parameters DEF CacheInv, Lru!TypeOK, Lru!Sound, Lru!Behind
<1>5. StateTypes'
  <2>1. 0 \in 0..MaxAge
    BY Parameters DEF MaxAge
  <2> QED
    BY <1>0, <1>1, <2>1 DEF StateTypes, At, Status
<1>6. TimeInv' /\ KnownInv'
  BY <1>1, <1>2 DEF TimeInv, KnownInv, Stale
<1> QED
  BY <1>3, <1>4, <1>5, <1>6 DEF IInv

LEMMA StutterStep == ASSUME IInv, UNCHANGED vars PROVE IInv'
  BY DEF IInv, vars, StateTypes, CacheInv, NiInv, NsInv, TimeInv, KnownInv, Known

LEMMA StepIInv == ASSUME IInv, [Next]_vars PROVE IInv'
<1>1. ASSUME NEW c \in Conn, Request(c) PROVE IInv'
  BY <1>1, AskInfoStep, AskNarStep, InfoCanceledStep, InfoSlotStep, InfoFailsStep, PutRecentStep,
     ReplyInfoStep, NarCanceledStep, NarSlotStep, EndNarStep, Zenon DEF Request
<1> QED
  BY <1>1, PassStep, LookStep, ExitStep, StutterStep, Zenon DEF Next

LEMMA SpecIInv == Spec => []IInv
<1>1. IInv /\ [Next]_vars => IInv'
  BY StepIInv
<1> QED
  BY InitIInv, <1>1, PTL DEF Spec

\* Type correctness: the process's clocks, caches and semaphores, and the requests.
THEOREM SpecTypeOK == Spec => []TypeOK
<1>1. IInv => TypeOK
  BY DEF IInv, StateTypes, CacheInv, NiInv, NsInv, Lru!Sound, TypeOK
<1> QED
  BY <1>1, SpecIInv, PTL

\* module.nix:31-33, subst.go:64: whatever exits, restarts and requests lie
\* between, a nar that Nix may ask for can be served, unless RecentsSize others
\* were asked for since it was, or the narinfo was sent between the idle check
\* and the exit.
THEOREM SpecPromiseKept == Spec => []PromiseKept
<1>1. IInv => PromiseKept
  BY DEF IInv, TimeInv, KnownInv, Known, PromiseKept
<1> QED
  BY <1>1, SpecIInv, PTL

\* subst.go:149,310: slots belong to requests past their queue or granted in it.
THEOREM SpecSlotsKept == Spec => []SlotsKept
<1>1. IInv => SlotsKept
  BY DEF IInv, NiInv, NsInv, SlotsKept
<1> QED
  BY <1>1, SpecIInv, PTL

\* subst.go:93-98, fw.go:16: a request that the idle exit cuts off has been
\* under way for the idle time but for less than a second, or began after the
\* check.
THEOREM SpecExitSparesYoung == Spec => ExitSparesYoung
<1> DEFINE Spares == up /\ ~up' => \A c \in Conn \ begun : at[c] # "free" => age[c] + Second > IdleTime
<1>1. ASSUME IInv, [Next]_vars PROVE [Spares]_vars
  <2> SUFFICES ASSUME up, ~up', NEW c \in Conn \ begun, at[c] # "free"
               PROVE  age[c] + Second > IdleTime
    OBVIOUS
  <2>1. ASSUME NEW d \in Conn, Request(d) PROVE FALSE
    BY <2>1 DEF Request, AskInfo, AskNar, InfoCanceled, InfoSlot, InfoFails, PutRecent, ReplyInfo,
                NarCanceled, NarSlot, EndNar, Begin, End, Continue
  <2>2. Exit
    BY <1>1, <2>1 DEF Next, vars, Pass, Look
  <2> QED
    BY <1>1, <2>2 DEF Exit, IInv, TimeInv
<1> QED
  BY <1>1, SpecIInv, PTL DEF Spec, ExitSparesYoung
=============================================================================
