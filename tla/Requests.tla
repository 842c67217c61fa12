------------------------------ MODULE Requests ------------------------------
(***************************************************************************)
(* Requests from end to end: a narinfo whose path gets a base from the      *)
(* catalog, its nar, and the records of both in the log that is analyzed    *)
(* later (subst.go, analytics.go).  Either Nix asks ("serve"), for what is  *)
(* not in its store, while the catalog's updater is at work and the store   *)
(* changes; or a list of paths is tried against a list of bases ("sim",     *)
(* simulate.go), which is measured by the same log.                         *)
(***************************************************************************)
EXTENDS Catalog, Analytics

CONSTANTS
    Modes,      \* of "serve" and "sim"
    Conn,       \* Nix's connections, or the lines of the simulation's list
    Wishes,     \* the paths that are asked for
    Upstream,   \* the paths of the upstream cache
    FileSize,   \* FileSize[n]: the size of nar n in the upstream cache, compressed
    DiffSize,   \* DiffSize[n]: the size of a delta for it
    MinFileSize, MaxFileSize, MaxNarSize,
    SimSlots,   \* how many simulated requests run at a time, 40
    MaxRequests \* bound on the requests of Nix for narinfos

Nar == DOMAIN NarSize

ASSUME RequestsAssumption ==
    /\ Modes \subseteq {"serve", "sim"}
    /\ IsFiniteSet(Conn) /\ Wishes \cup Upstream \subseteq Path /\ Wishes # {}
    /\ \A p \in Path : p.nar \in Nar
    /\ FileSize \in [Nar -> Nat] /\ DiffSize \in [Nar -> Nat]
    /\ {MinFileSize, MaxFileSize, MaxNarSize, MaxRequests} \subseteq Nat
    /\ SimSlots \in Nat \ {0}

VARIABLES
    mode,
    at,         \* at[c]: where the request on connection or line c is
    ask,        \* ask[c]: the path it is for
    mine,       \* mine[c]: its recent: the id of a narinfo request, its nar, its base
    recents,    \* recents[n]: the recent for nar n (an LRU cache, see Substituter)
    lastId,     \* ids are random in the code, here they are counted
    log,        \* the analytics log
    sem, success, errors,   \* simulate's semaphore and counters
    actual,     \* what really was downloaded, in deltas and files
    unseen,     \* how much of it the log says nothing of
    owed        \* owed[n]: how often Nix has yet to fetch nar n

requestVars == <<at, ask, mine, recents, lastId, log, sem, success, errors, actual, unseen, owed>>
vars == <<mode, catalogVars, requestVars>>

\* Where line c is as a client of simulate's semaphore; Nix's requests take none.
ClientAt(c) ==
    CASE at[c] = "sem" -> "waiting"
      [] mode = "sim" /\ at[c] \in {"info", "put", "nar"} -> "holding"
      [] OTHER -> "idle"

Sem == INSTANCE Weighted WITH Client <- Conn, W <- [c \in Conn |-> 1], Size <- SimSlots,
           sem <- sem, at <- [c \in Conn |-> ClientAt(c)]

\* catalog.set, with any list of bases: one batch, and no updater.
SetInit ==
    /\ there \in Stores["sim"] /\ upd = Resting /\ trouble = 0
    /\ \E baseLines \in SUBSET Path : bt = AddBatch({}, baseLines)

NoRecent == [id |-> 0, nar |-> CHOOSE n \in Nar : TRUE, base |-> NoBase]

Init ==
    /\ mode \in Modes
    /\ IF mode = "sim" THEN SetInit ELSE CatalogInit
    /\ IF mode = "sim" THEN ask \in [Conn -> Wishes]
       ELSE ask = [c \in Conn |-> CHOOSE p \in Wishes : TRUE]
    /\ at = [c \in Conn |-> IF mode = "sim" THEN "start" ELSE "free"]
    /\ mine = [c \in Conn |-> NoRecent]
    /\ recents = [n \in Nar |-> NoRecent]
    /\ lastId = 0 /\ log = <<>>
    /\ sem = Sem!New /\ success = 0 /\ errors = 0
    /\ actual = 0 /\ unseen = 0 /\ owed = [n \in Nar |-> 0]
-----------------------------------------------------------------------------
(* The ways in and out: fw's handlers, or simulate *)

counters == <<success, errors>>
downloads == <<actual, unseen>>

\* Nix asks for the narinfo of a path that is not in its store.
AskInfo(c, p) ==
    /\ mode = "serve" /\ at[c] = "free" /\ there[p] = "no" /\ lastId < MaxRequests
    /\ at' = [at EXCEPT ![c] = "info"]
    /\ ask' = [ask EXCEPT ![c] = p]
    /\ lastId' = lastId + 1
    /\ mine' = [mine EXCEPT ![c].id = lastId']
    /\ UNCHANGED <<mode, catalogVars, recents, log, sem, counters, downloads, owed>>

\* simulate: a goroutine for each line lines up at the semaphore...
SimStart(c) ==
    /\ at[c] = "start"
    /\ at' = [at EXCEPT ![c] = "sem"]
    /\ sem' = Sem!Acquire(sem, c)
    /\ UNCHANGED <<mode, catalogVars, ask, mine, recents, lastId, log, counters, downloads, owed>>

\* ...and begins the request.
SimRequest(c) ==
    /\ at[c] = "sem" /\ c \in sem.held
    /\ at' = [at EXCEPT ![c] = "info"]
    /\ lastId' = lastId + 1
    /\ mine' = [mine EXCEPT ![c].id = lastId']
    /\ UNCHANGED <<mode, catalogVars, ask, recents, log, sem, counters, downloads, owed>>

\* The request is over; in a simulation it has all of its delta, or counts as
\* an error, whatever the reason.
End(c, ok) ==
    IF mode = "serve"
    THEN at' = [at EXCEPT ![c] = "free"] /\ UNCHANGED <<sem, counters>>
    ELSE /\ at' = [at EXCEPT ![c] = "done"]
         /\ sem' = Sem!Release(sem, c)
         /\ success' = success + (IF ok THEN 1 ELSE 0)
         /\ errors' = errors + (IF ok THEN 0 ELSE 1)
-----------------------------------------------------------------------------
(* getNarInfoCommon *)

\* Mutant: a path that is not there is recorded by its status.
OutcomeStatus(p, b) ==
    IF p \notin Upstream THEN "404"
    ELSE IF FileSize[p.nar] > MaxFileSize \/ NarSize[p.nar] > MaxNarSize THEN "toobig"
    ELSE IF FileSize[p.nar] < MinFileSize THEN "toosmall"
    ELSE IF b = NoBase THEN "nobase"
    ELSE IF b.hash = p.hash THEN "identical"
    ELSE ""

\* What becomes of a request for path p with base b: the code of its failure.
Outcome(p, b) ==
    IF p \notin Upstream THEN "notfound"
    ELSE IF FileSize[p.nar] > MaxFileSize \/ NarSize[p.nar] > MaxNarSize THEN "toobig"
    ELSE IF FileSize[p.nar] < MinFileSize THEN "toosmall"
    ELSE IF b = NoBase THEN "nobase"
    ELSE IF b.hash = p.hash THEN "identical"
    ELSE ""

\* Nix then takes what there is from the upstream cache; a simulation only
\* would, and not what it has.
FallBack(p, outcome) ==
    IF outcome = "notfound" \/ (outcome = "identical" /\ mode = "sim") THEN 0 ELSE FileSize[p.nar]

\* The upstream cache cannot be reached, or is not understood: there is no
\* record, and Nix takes what there is from the next cache.
UpstreamFails(c) ==
    LET file == IF ask[c] \in Upstream THEN FileSize[ask[c].nar] ELSE 0 IN
    /\ at[c] = "info"
    /\ End(c, FALSE)
    /\ actual' = actual + file /\ unseen' = unseen + file
    /\ UNCHANGED <<mode, catalogVars, ask, mine, recents, lastId, log, owed>>

\* Mutant: the simulation looks at the error, not at the status.
RefuseQuietly(c) ==
    LET p == ask[c]
        outcome == Outcome(p, FindBase(bt, p))
    IN  /\ at[c] = "info" /\ outcome # ""
        /\ log' = Append(log, RRecord(mine[c].id, p.nar,
                       IF outcome = "notfound" THEN 0 ELSE FileSize[p.nar], outcome))
        /\ actual' = actual + FallBack(p, outcome)
        /\ unseen' = unseen + IF outcome = "identical" THEN FallBack(p, outcome) ELSE 0
        /\ End(c, outcome \in {"toosmall", "toobig"})
        /\ UNCHANGED <<mode, catalogVars, ask, mine, recents, lastId, owed>>

\* The path is not there, or not for us: that is recorded.  What is identical
\* counts as nothing.
Refuse(c) ==
    LET p == ask[c]
        outcome == Outcome(p, FindBase(bt, p))
    IN  /\ at[c] = "info" /\ outcome # ""
        /\ log' = Append(log, RRecord(mine[c].id, p.nar,
                       IF outcome = "notfound" THEN 0 ELSE FileSize[p.nar], outcome))
        /\ actual' = actual + FallBack(p, outcome)
        /\ unseen' = unseen + IF outcome = "identical" THEN FallBack(p, outcome) ELSE 0
        /\ End(c, FALSE)
        /\ UNCHANGED <<mode, catalogVars, ask, mine, recents, lastId, owed>>

\* There is a base: remember how to make the nar...
PutRecent(c) ==
    LET p == ask[c]
        base == FindBase(bt, p)
        recent == [id |-> mine[c].id, nar |-> p.nar, base |-> base]
    IN  /\ at[c] = "info" /\ Outcome(p, base) = ""
        /\ at' = [at EXCEPT ![c] = "put"]
        /\ mine' = [mine EXCEPT ![c] = recent]
        /\ recents' = [recents EXCEPT ![p.nar] = recent]
        /\ UNCHANGED <<mode, catalogVars, ask, lastId, log, sem, counters, downloads, owed>>

OkRecord(c) == RRecord(mine[c].id, mine[c].nar, FileSize[mine[c].nar], "")

\* Mutant: the narinfo is complete before it is recorded.
ReplyFirst(c) ==
    /\ at[c] = "put"
    /\ \/ /\ owed[mine[c].nar] = 0 /\ mode = "serve"
          /\ owed' = [owed EXCEPT ![mine[c].nar] = 1]
          /\ UNCHANGED <<at, log, sem, counters>>
       \/ /\ owed[mine[c].nar] = 1 \/ mode = "sim"
          /\ log' = Append(log, OkRecord(c))
          /\ IF mode = "serve" THEN End(c, TRUE) ELSE
                /\ at' = [at EXCEPT ![c] = "nar"] /\ UNCHANGED <<sem, counters>>
          /\ UNCHANGED owed
    /\ UNCHANGED <<mode, catalogVars, ask, mine, recents, lastId, downloads>>

\* ...record the request, and go on: to the nar in a simulation, or back to Nix,
\* for which the narinfo is complete when the handler has returned.
Reply(c) ==
    /\ at[c] = "put"
    /\ log' = Append(log, OkRecord(c))
    /\ IF mode = "serve"
       THEN End(c, TRUE) /\ owed' = [owed EXCEPT ![mine[c].nar] = @ + 1]
       ELSE at' = [at EXCEPT ![c] = "nar"] /\ UNCHANGED <<owed, sem, counters>>
    /\ UNCHANGED <<mode, catalogVars, ask, mine, recents, lastId, downloads>>
-----------------------------------------------------------------------------
(* getNar and getNarCommon, whose inside is NarFetch *)

\* Nix asks for a nar it has a narinfo of.
AskNar(c, n) ==
    /\ mode = "serve" /\ at[c] = "free" /\ owed[n] > 0
    /\ at' = [at EXCEPT ![c] = "nar"]
    /\ mine' = [mine EXCEPT ![c] = recents[n]]
    /\ owed' = [owed EXCEPT ![n] = @ - 1]
    /\ UNCHANGED <<mode, catalogVars, ask, recents, lastId, log, sem, counters, downloads>>

\* The nar is made of the base, if that is still in the store, and recorded.
\* Bound: Nix may have lost it on the way, and ask again, as long as there is
\* trouble left.  The log then counts another download instead of the file, which
\* it had counted once.
SendNar(c) ==
    LET n == mine[c].nar IN
    /\ at[c] = "nar" /\ there[mine[c].base] # "no"
    /\ log' = Append(log, DRecord(mine[c].id, n, DiffSize[n]))
    /\ actual' = actual + DiffSize[n]
    /\ End(c, TRUE)
    /\ \/ UNCHANGED <<unseen, owed, trouble>>
       \/ /\ mode = "serve" /\ trouble < MaxTrouble /\ trouble' = trouble + 1
          /\ owed' = [owed EXCEPT ![n] = @ + 1] /\ unseen' = unseen + FileSize[n]
    /\ UNCHANGED <<mode, there, bt, upd, ask, mine, recents, lastId>>

\* It cannot be made, which shows before or after the delta has come, or part of
\* it: Nix asks again, or takes it from the upstream cache.
NarFails(c) ==
    LET n == mine[c].nar IN
    /\ at[c] = "nar"
    /\ End(c, FALSE)
    /\ \E part \in 0..DiffSize[n] :
        /\ unseen' = unseen + part
        /\ \/ actual' = actual + part + FileSize[n] /\ UNCHANGED <<owed, trouble>>
           \/ /\ mode = "serve" /\ trouble < MaxTrouble /\ trouble' = trouble + 1
              /\ owed' = [owed EXCEPT ![n] = @ + 1] /\ actual' = actual + part
    /\ UNCHANGED <<mode, there, bt, upd, ask, mine, recents, lastId, log>>
-----------------------------------------------------------------------------
Line(c) ==
    \/ SimStart(c) \/ SimRequest(c) \/ UpstreamFails(c) \/ Refuse(c) \/ PutRecent(c)
    \/ Reply(c) \/ SendNar(c) \/ NarFails(c)

Client(c) == (\E p \in Wishes : AskInfo(c, p)) \/ (\E n \in Nar : AskNar(c, n))

Surroundings ==
    /\ mode = "serve"
    /\ Update \/ ReadFails \/ \E p \in Moving, x \in Presence : Change(p, x)
    /\ UNCHANGED <<mode, requestVars>>

\* wg.Wait: a simulation ends with its last line.
Over == mode = "sim" /\ \A c \in Conn : at[c] = "done"
SimOver == Over /\ UNCHANGED vars

Next == Surroundings \/ SimOver \/ \E c \in Conn : Line(c) \/ Client(c)

Spec == Init /\ [][Next]_vars

\* The updater goes on, one ticker after the other; nobody needs to ask for
\* anything.
FairSpec == Spec /\ WF_vars(mode = "serve" /\ Update /\ UNCHANGED <<mode, requestVars>>)
-----------------------------------------------------------------------------
Recent == [id : 0..Cardinality(Conn) + MaxRequests, nar : Nar, base : Path \cup {NoBase}]

TypeOK ==
    /\ there \in [Path -> Presence] /\ bt \subseteq Path
    /\ upd.pc \in {"idle", "read", "info"} /\ upd.nt \cup upd.left \cup upd.batch \subseteq Path
    /\ trouble \in 0..MaxTrouble
    /\ at \in [Conn -> {"free", "start", "sem", "info", "put", "nar", "done"}]
    /\ ask \in [Conn -> Wishes] /\ mine \in [Conn -> Recent] /\ recents \in [Nar -> Recent]
    /\ \A i \in 1..Len(log) : log[i].kind = "R" => log[i].failed \in Failed
    /\ Sem!TypeOK(sem) /\ success \in Nat /\ errors \in Nat
    /\ actual \in Nat /\ unseen \in Nat /\ owed \in [Nar -> Nat]

\* Of the system and signer asked for, with as many segments, the first the same
\* (of a name of one segment, all of it).
Similar(i, p) ==
    /\ i.sys = p.sys /\ p.signer \in {Unsigned, i.signer}
    /\ Cardinality(Segments(i.name)) = Cardinality(Segments(p.name))
    /\ IF Cardinality(Segments(p.name)) = 1 THEN IsPrefix(p.name, i.name)
       ELSE FirstSegment(i.name) = FirstSegment(p.name)

\* catalog.go:195-200,224: the base findBase takes is similar to the requested
\* path, and no other path that is has a longer common prefix, or as long a one
\* and a later name; and there is a base if there is a similar path, but none for
\* a name that says nothing.
BaseFits ==
    \A p \in {ask[c] : c \in {c \in Conn : at[c] = "info"}} :
        LET base == FindBase(bt, p) IN
        IF Len(p.name) < 3 \/ p.name = Source THEN base = NoBase
        ELSE IF base = NoBase THEN \A i \in bt : ~Similar(i, p)
        ELSE /\ base \in bt /\ Similar(base, p)
             /\ \A i \in bt \ {base} : Similar(i, p) =>
                    \/ MatchLen(p.name, i.name) < MatchLen(p.name, base.name)
                    \/ /\ MatchLen(p.name, i.name) = MatchLen(p.name, base.name)
                       /\ ItemLess(i, base)

\* catalog.go:112-128: whatever fails and whenever, no update loses a path that
\* an earlier one has published.
NothingForgotten == [][bt \subseteq bt']_bt

\* catalog.go:135-172: when the store has come to rest, with nothing in it that
\* path-info does not know, what is valid, signed and of a size is found.
Found ==
    mode = "serve" => <>[](
        (\A p \in Path \ Skipped : there[p] # "unregistered") =>
            {p \in Path \ Skipped : there[p] = "valid" /\ Recordable(p)} \subseteq bt)

\* subst.go:416-437: the record of a nar comes after one of a narinfo for it.
\* (Not always that of the same request: of two paths with the same nar, the
\* later replaces the recent of the earlier before it is recorded.)
RecordFirst ==
    \A i \in 1..Len(log) : log[i].kind = "D" =>
        \E j \in 1..i - 1 : log[j].kind = "R" /\ log[j].nar = log[i].nar /\ log[j].failed = ""

Quiet ==
    /\ \A c \in Conn : at[c] \in {"free", "done"}
    /\ \A n \in Nar : owed[n] = 0

\* The deltas recorded before their requests, for which the files count.
Early ==
    {i \in 1..Len(log) : /\ log[i].kind = "D"
                         /\ \A j \in 1..i - 1 : ~(log[j].kind = "R" /\ log[j].id = log[i].id)}

\* The size of the files, and of the deltas, of some records of deltas.
FilesFor(records) == Cardinality(UNION {{i} \X (1..FileSize[log[i].nar]) : i \in records})
Deltas(records) == Cardinality(UNION {{i} \X (1..log[i].diff) : i \in records})

\* analytics.go:104-114: when all is quiet, the "actual dl" is what was downloaded,
\* deltas and files, but for two things: what the log is not told of (a delta that
\* was of no use, the file of a narinfo that failed or of an identical path, what
\* Nix fetched again) is missing from it, and of a delta whose record came before
\* its request's the file counts.  Also for different paths with the same nar,
\* which share a recent.
ActualExact ==
    Quiet => AnalyzeLog(log).tActual = actual - unseen + FilesFor(Early) - Deltas(Early)

\* The size of the files of some records of the log.
Files(records) == Cardinality(UNION {{i} \X (1..log[i].file) : i \in records})

\* simulate.go:67, analytics.go:129: at the end of a simulation the paths diffed
\* and the errors are all paths, and the log says the same of the diffed; the
\* total of the log is that of the deltas and of the files without one.
SimCounts ==
    LET sum == AnalyzeLog(log) IN
    Over => /\ success + errors = Cardinality(Conn)
            /\ success = Len(sum.diffed) /\ success <= sum.fmap[""]
            /\ sum.missing = 0 /\ Requested(sum) <= Cardinality(Conn)
            /\ sum.tActual = Compared(sum).diff
                   + Files({i \in 1..Len(log) :
                               /\ log[i].kind = "R" /\ log[i].failed # "identical"
                               /\ \A k \in 1..Len(sum.diffed) : sum.diffed[k] # log[i].id})

\* subst.go:380 "only would happen in simulation, real nix wouldn't request
\* this": no request of Nix ends as identical to its base.
IdenticalSimulated == mode = "serve" => AnalyzeLog(log).fmap["identical"] = 0
=============================================================================
