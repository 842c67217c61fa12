----------------------------- MODULE SysChecker -----------------------------
(***************************************************************************)
(* The system checker (syschecker.go) and what the catalog makes of its     *)
(* results.  The system of a store path is that of its libc, found in a     *)
(* cache, in a call that is already under way for the same libc, or by      *)
(* looking: on the disk for the paths of the catalog, in a listing of the   *)
(* upstream cache for the paths Nix asks for.  Nothing found is "unknown",  *)
(* and is cached like a result.                                             *)
(***************************************************************************)
EXTENDS Naturals, Sequences, FiniteSets

CONSTANTS
    Request,    \* the requests, each one after the other
    Libc,       \* the libcs, by the hash of their store path
    System,     \* System[l]: the system libc l is for
    Asked,      \* the libcs that requests ask about: listings
    Stored,     \* the libcs of the paths the catalog adds: local
    NoLibc,     \* stands for the libc of a path without one
    LocalSure,  \* is a libc in the store always found there?
    ReqSem,     \* the size of reqSem
    CacheSize   \* the size of the cache

Unknown == "unknown"

\* The callers of getCached: requests, and the goroutine that updates the catalog.
Updater == "updater"
Caller == Request \cup {Updater}

ASSUME SysCheckerAssumption ==
    /\ IsFiniteSet(Request) /\ Updater \notin Request /\ "none" \notin Request
    /\ Asked \subseteq Libc /\ Stored \subseteq Libc /\ NoLibc \notin Libc
    /\ DOMAIN System = Libc /\ Unknown \notin {System[l] : l \in Libc}
    /\ LocalSure \in BOOLEAN
    /\ ReqSem \in Nat \ {0} /\ CacheSize \in Nat \ {0}

VARIABLES
    pc,     \* pc[c]: where caller c is
    key,    \* key[c]: the libc it asks about
    res,    \* res[c]: the system it was told
    cache,  \* the LRU cache, from libcs to systems
    flight, \* flight[l]: the caller that runs the call for l, if there is one
    sem,    \* reqSem
    items,  \* the catalog's paths: records of a libc and the system recorded
    base    \* base[c]: the libcs of the paths findBase chose among for request c

vars == <<pc, key, res, cache, flight, sem, items, base>>

Sem == INSTANCE Weighted WITH Client <- Caller, W <- [c \in Caller |-> 1], Size <- ReqSem,
           sem <- sem, at <- [c \in Caller |-> IF pc[c] = "list" THEN "waiting" ELSE "idle"]

Lib == Libc \cup {NoLibc}
Sys == {System[l] : l \in Libc} \cup {Unknown}
Cache == INSTANCE Lru WITH Key <- Libc, Val <- Sys, MaxEntries <- CacheSize

None == "none"

Init ==
    /\ pc = [c \in Caller |-> "idle"]
    /\ key = [c \in Caller |-> NoLibc]
    /\ res = [c \in Caller |-> Unknown]
    /\ cache = Cache!New
    /\ flight = [l \in Libc |-> None]
    /\ sem = Sem!New
    /\ items = {}
    /\ base = [c \in Caller |-> {}]
-----------------------------------------------------------------------------
(* getSysFromPathDeps and getCached *)

Tell(c, s) ==
    /\ pc' = [pc EXCEPT ![c] = "told"]
    /\ res' = [res EXCEPT ![c] = s]

\* A path without a libc is of an unknown system; for others look in the cache.
Ask(c, l) ==
    /\ pc[c] = "idle"
    /\ base' = [base EXCEPT ![c] = {}]
    /\ key' = [key EXCEPT ![c] = l]
    /\ \/ l = NoLibc /\ Tell(c, Unknown) /\ UNCHANGED cache
       \/ /\ l \in Libc /\ Cache!Has(cache, l)
          /\ Tell(c, Cache!Value(cache, l))
          /\ cache' = Cache!Touch(cache, l)
       \/ /\ l \in Libc /\ ~Cache!Has(cache, l)
          /\ pc' = [pc EXCEPT ![c] = "miss"]
          /\ UNCHANGED <<res, cache>>
    /\ UNCHANGED <<flight, sem, items>>

\* Mutant: every caller that misses runs the call.
DoAlways(c) ==
    /\ pc[c] = "miss"
    /\ flight' = [flight EXCEPT ![key[c]] = c]
    /\ pc' = [pc EXCEPT ![c] = IF c = Updater THEN "look" ELSE "acquire"]
    /\ UNCHANGED <<key, res, cache, sem, items, base>>

\* singleflight: the first caller for a libc runs the call, others join it.
Do(c) ==
    /\ pc[c] = "miss"
    /\ IF flight[key[c]] = None
       THEN /\ flight' = [flight EXCEPT ![key[c]] = c]
            /\ pc' = [pc EXCEPT ![c] = IF c = Updater THEN "look" ELSE "acquire"]
       ELSE /\ pc' = [pc EXCEPT ![c] = "join"]
            /\ UNCHANGED flight
    /\ UNCHANGED <<key, res, cache, sem, items, base>>

\* listingPresence: acquire reqSem, under no context...
Acquire(c) ==
    /\ pc[c] = "acquire"
    /\ pc' = [pc EXCEPT ![c] = "list"]
    /\ sem' = Sem!Acquire(sem, c)
    /\ UNCHANGED <<key, res, cache, flight, items, base>>

\* Mutants: a failed request is a result of its own; its error returns without
\* the release.
ListError(c) ==
    /\ pc[c] = "list" /\ c \in sem.held
    /\ pc' = [pc EXCEPT ![c] = "add"]
    /\ \E s \in {System[key[c]], None} : res' = [res EXCEPT ![c] = s]
    /\ sem' = Sem!Release(sem, c)
    /\ UNCHANGED <<key, cache, flight, items, base>>

ListKeeps(c) ==
    /\ pc[c] = "list" /\ c \in sem.held
    /\ pc' = [pc EXCEPT ![c] = "add"]
    /\ \/ res' = [res EXCEPT ![c] = System[key[c]]] /\ sem' = Sem!Release(sem, c)
       \/ res' = [res EXCEPT ![c] = Unknown] /\ UNCHANGED sem
    /\ UNCHANGED <<key, cache, flight, items, base>>

\* ...and ask for the listing.  Any error makes the system unknown.
List(c) ==
    /\ pc[c] = "list" /\ c \in sem.held
    /\ pc' = [pc EXCEPT ![c] = "add"]
    /\ \E s \in {System[key[c]], Unknown} : res' = [res EXCEPT ![c] = s]
    /\ sem' = Sem!Release(sem, c)
    /\ UNCHANGED <<key, cache, flight, items, base>>

\* localPresence: the libc of a path in the store is in the store, unless the
\* garbage collector was faster.
Look(c) ==
    /\ pc[c] = "look"
    /\ pc' = [pc EXCEPT ![c] = "add"]
    /\ \/ res' = [res EXCEPT ![c] = System[key[c]]]
       \/ ~LocalSure /\ res' = [res EXCEPT ![c] = Unknown]
    /\ UNCHANGED <<key, cache, flight, sem, items, base>>

AddToCache(c) ==
    /\ pc[c] = "add"
    /\ pc' = [pc EXCEPT ![c] = "land"]
    /\ cache' = Cache!Add(cache, key[c], res[c])
    /\ UNCHANGED <<key, res, flight, sem, items, base>>

\* Mutant: the flights of all libcs are one.
LandAll(c) ==
    /\ pc[c] = "land"
    /\ flight' = [flight EXCEPT ![key[c]] = None]
    /\ pc' = [d \in Caller |-> IF d = c \/ pc[d] = "join" THEN "told" ELSE pc[d]]
    /\ res' = [d \in Caller |-> IF d = c \/ pc[d] = "join" THEN res[c] ELSE res[d]]
    /\ UNCHANGED <<key, cache, sem, items, base>>

\* The flight ends, for the caller that ran it and for those that joined.
Land(c) ==
    LET joined == {d \in Caller : pc[d] = "join" /\ key[d] = key[c]} \cup {c} IN
    /\ pc[c] = "land"
    /\ flight' = [flight EXCEPT ![key[c]] = None]
    /\ pc' = [d \in Caller |-> IF d \in joined THEN "told" ELSE pc[d]]
    /\ res' = [d \in Caller |-> IF d \in joined THEN res[c] ELSE res[d]]
    /\ UNCHANGED <<key, cache, sem, items, base>>
-----------------------------------------------------------------------------
(* The catalog *)

\* addBatch: the item is recorded with the system, once and for all, unless it
\* is too large or not signed.
AddItem ==
    /\ pc[Updater] = "told"
    /\ pc' = [pc EXCEPT ![Updater] = "idle"]
    /\ \/ items' = items \cup {[libc |-> key[Updater], sys |-> res[Updater]]}
       \/ UNCHANGED items
    /\ UNCHANGED <<key, res, cache, flight, sem, base>>

\* Mutant: an unknown system goes with any.
FindBaseLoosely(c) ==
    /\ pc[c] = "told"
    /\ pc' = [pc EXCEPT ![c] = "idle"]
    /\ base' = [base EXCEPT ![c] = {i.libc : i \in {i \in items : i.sys \in {res[c], Unknown}}}]
    /\ UNCHANGED <<key, res, cache, flight, sem, items>>

\* findBase: among the paths with a similar name, those of the same system.
FindBase(c) ==
    /\ pc[c] = "told"
    /\ pc' = [pc EXCEPT ![c] = "idle"]
    /\ base' = [base EXCEPT ![c] = {i.libc : i \in {i \in items : i.sys = res[c]}}]
    /\ UNCHANGED <<key, res, cache, flight, sem, items>>
-----------------------------------------------------------------------------
Check(c) == Do(c) \/ Acquire(c) \/ List(c) \/ Look(c) \/ AddToCache(c) \/ Land(c)

Next ==
    \/ \E c \in Caller : Check(c)
    \/ \E c \in Request : FindBase(c) \/ \E l \in Asked \cup {NoLibc} : Ask(c, l)
    \/ AddItem \/ \E l \in Stored \cup {NoLibc} : Ask(Updater, l)

Spec == Init /\ [][Next]_vars

\* Callers go on, and the upstream answers every listing request.
FairSpec == Spec /\ \A c \in Caller : WF_vars(Check(c))
-----------------------------------------------------------------------------
PC == {"idle", "miss", "acquire", "list", "look", "join", "add", "land", "told"}
InFlight == {"acquire", "list", "look", "add", "land"}

TypeOK ==
    /\ pc \in [Caller -> PC]
    /\ key \in [Caller -> Lib]
    /\ res \in [Caller -> Sys]
    /\ Cache!TypeOK(cache)
    /\ flight \in [Libc -> Caller \cup {None}]
    /\ Sem!TypeOK(sem)
    /\ items \in SUBSET [libc : Lib, sys : Sys]
    /\ base \in [Caller -> SUBSET Lib]

\* The system of a libc may be unknown, but is never another's: not in the
\* cache, not for a caller that joined a flight, not in the catalog.
NoFalseSystem ==
    /\ \A i \in 1..Len(cache) : cache[i].val \in {System[cache[i].key], Unknown}
    /\ \A c \in Caller : pc[c] = "told" /\ res[c] # Unknown =>
        key[c] \in Libc /\ res[c] = System[key[c]]
    /\ \A i \in items : i.sys # Unknown => i.libc \in Libc /\ i.sys = System[i.libc]

\* syschecker.go:166: one call at a time for each libc, and whoever joined has
\* one to wait for.
OneFlight ==
    /\ \A c \in Caller : pc[c] \in InFlight => flight[key[c]] = c
    /\ \A c \in Caller : pc[c] = "join" => flight[key[c]] # None
    /\ \A l \in Libc : flight[l] # None =>
        key[flight[l]] = l /\ pc[flight[l]] \in InFlight

\* syschecker.go:169: a libc is cached once, and the cache keeps its size.
CacheBound == Cache!Sound(cache)

\* catalog.go:225: when the system asked for is known, no base is of another.
KnownSameSystem ==
    \A c \in Request : pc[c] = "idle" /\ res[c] # Unknown =>
        \A l \in base[c] : l \in Libc /\ System[l] = System[key[c]]

\* syschecker.go:34: "we need to check the "system" of similar-named store paths
\* so we don't try to e.g. substitute a 32-bit build with a 64-bit build".
SameSystem ==
    \A c \in Request : pc[c] = "idle" /\ key[c] \in Libc =>
        \A l \in base[c] : l \in Libc => System[l] = System[key[c]]

\* Every caller is told in the end, behind a flight or a full reqSem.
Told == \A c \in Caller : pc[c] = "miss" ~> pc[c] = "told"
=============================================================================
