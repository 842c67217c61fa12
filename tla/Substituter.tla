---------------------------- MODULE Substituter ----------------------------
(***************************************************************************)
(* The substituter's promise to Nix (subst.go, fw.go): a narinfo it sends   *)
(* names a nar that it serves from memory alone, the "recents".  Requests   *)
(* take turns under two semaphores; the process is started by a socket when *)
(* a request arrives, and exits when it has been idle.                      *)
(*                                                                          *)
(* Time goes by in ticks, of which a second has several: lastReq is in      *)
(* whole seconds, what it is compared with is not.                          *)
(***************************************************************************)
EXTENDS Naturals, Sequences, FiniteSets

CONSTANTS
    Conn,           \* the connections of the Nix client, one request at a time
    Path, Nar,      \* store paths, and nars by their hash
    NarOf,          \* NarOf[p]: the nar of path p; two paths may have the same
    NarInfoSlots,   \* the size of nisem
    NarSlots,       \* the size of nsem
    RecentsSize,    \* the size of recents
    UpstreamStatus, \* what the upstream cache answers other than 200
    Second,         \* a second, in ticks
    TTL,            \* how long Nix keeps a narinfo, in ticks
    IdleTime        \* SubstIdleTime, in ticks

ASSUME SubstituterAssumption ==
    /\ IsFiniteSet(Conn) /\ IsFiniteSet(Path) /\ NarOf \in [Path -> Nar]
    /\ {NarInfoSlots, NarSlots, RecentsSize, Second} \subseteq Nat \ {0}
    /\ {TTL, IdleTime} \subseteq Nat
    /\ UpstreamStatus \subseteq Nat \ {0, 200}

\* module.nix:33 and 51: Nix keeps a narinfo for 15 seconds, and the process
\* lives for 15 minutes without a request.
ASSUME TTLAssumption == TTL + Second <= IdleTime

VARIABLES
    up,         \* is the process running?
    exiting,    \* has exitOnIdle found the process idle?
    phase,      \* the time since the last full second
    idle,       \* the time since lastReq
    recents,    \* the LRU cache of recents
    nisem, nsem,
    at,         \* at[c]: where the request on connection c is
    path,       \* path[c]: what it asks for
    age,        \* age[c]: for how long it has been under way
    status,     \* what the last step answered to a narinfo request, 0 for nothing
    info,       \* info[p]: the age of the narinfo Nix has of p
    since,      \* since[n]: the other nars used in recents since n was (history)
    begun,      \* the requests that began while exiting (history)
    told        \* the paths whose narinfo was last sent while exiting (history)

vars == <<up, exiting, phase, idle, recents, nisem, nsem, at, path, age, status,
          info, since, begun, told>>

One == [c \in Conn |-> 1]

\* A request as a client of a semaphore.
ClientAt(c, waiting, past) ==
    CASE at[c] = waiting -> "waiting" [] at[c] \in past -> "holding" [] OTHER -> "idle"

Ni == INSTANCE Weighted WITH Client <- Conn, W <- One, Size <- NarInfoSlots,
          sem <- nisem, at <- [c \in Conn |-> ClientAt(c, "infoq", {"info", "reply"})]
Ns == INSTANCE Weighted WITH Client <- Conn, W <- One, Size <- NarSlots,
          sem <- nsem, at <- [c \in Conn |-> ClientAt(c, "narq", {"nar"})]

Lru == INSTANCE Lru WITH Key <- Nar, Val <- Path, MaxEntries <- RecentsSize

At == {"free", "infoq", "info", "reply", "narq", "nar"}
Status == {0, 200, 404, 500} \cup UpstreamStatus

\* The bounds of the clocks: what is older makes no difference.
MaxIdle == IdleTime + 1
Stale == TTL + 1
MaxAge == IdleTime + 1

Init ==
    /\ up = FALSE
    /\ exiting = FALSE
    /\ phase = 0
    /\ idle = MaxIdle
    /\ recents = Lru!New
    /\ nisem = Ni!New
    /\ nsem = Ns!New
    /\ at = [c \in Conn |-> "free"]
    /\ path \in [Conn -> Path]
    /\ age = [c \in Conn |-> 0]
    /\ status = 0
    /\ info = [p \in Path |-> Stale]
    /\ since = [n \in Nar |-> {}]
    /\ begun = {}
    /\ told = {}

Use(n) == since' = [m \in Nar |-> IF m = n THEN {} ELSE since[m] \cup {n}]
-----------------------------------------------------------------------------
(* fw: alive before and after every handler *)

\* lastReq is cut to seconds: the rest of the current one counts as idle.
Alive == idle' = phase

\* Mutant: alive is only deferred.
BeginQuietly(c, p) ==
    /\ at[c] = "free"
    /\ path' = [path EXCEPT ![c] = p]
    /\ age' = [age EXCEPT ![c] = 0]
    /\ up' = TRUE
    /\ begun' = IF exiting THEN begun \cup {c} ELSE begun
    /\ status' = 0
    /\ UNCHANGED <<exiting, phase, idle, told>>

\* A request arrives; systemd starts the process for it when there is none.
Begin(c, p) ==
    /\ at[c] = "free"
    /\ path' = [path EXCEPT ![c] = p]
    /\ age' = [age EXCEPT ![c] = 0]
    /\ up' = TRUE
    /\ begun' = IF exiting THEN begun \cup {c} ELSE begun
    /\ status' = 0
    /\ Alive
    /\ UNCHANGED <<exiting, phase, told>>

\* Mutant: nothing is deferred.
EndQuietly(c) ==
    /\ at' = [at EXCEPT ![c] = "free"]
    /\ age' = [age EXCEPT ![c] = 0]
    /\ begun' = begun \ {c}
    /\ UNCHANGED <<up, exiting, phase, idle, path>>

End(c) ==
    /\ at' = [at EXCEPT ![c] = "free"]
    /\ age' = [age EXCEPT ![c] = 0]
    /\ begun' = begun \ {c}
    /\ Alive
    /\ UNCHANGED <<up, exiting, phase, path>>

\* A request moves on.
Continue(c, p) ==
    /\ at' = [at EXCEPT ![c] = p]
    /\ status' = 0
    /\ UNCHANGED <<up, exiting, phase, idle, path, age, info, begun, told>>
-----------------------------------------------------------------------------
(* getNarInfo *)

AskInfo(c, p) ==
    /\ Begin(c, p)
    /\ at' = [at EXCEPT ![c] = "infoq"]
    /\ nisem' = Ni!Acquire(nisem, c)
    /\ UNCHANGED <<recents, nsem, info, since>>

\* The client leaves the queue.
InfoCanceled(c) ==
    /\ at[c] = "infoq" /\ c \notin nisem.held
    /\ End(c)
    /\ nisem' = Ni!Abandon(nisem, c)
    /\ status' = 500
    /\ UNCHANGED <<recents, nsem, info, since, told>>

InfoSlot(c) ==
    /\ at[c] = "infoq" /\ c \in nisem.held
    /\ Continue(c, "info")
    /\ UNCHANGED <<recents, nisem, nsem, since>>

\* Mutant: the slot of a failed request is not released.
InfoFailsHolding(c) ==
    /\ at[c] = "info"
    /\ End(c)
    /\ status' \in {404, 500} \cup UpstreamStatus
    /\ UNCHANGED <<recents, nisem, nsem, info, since, told>>

\* Too small, too big, no base: a 404.  The upstream cannot be reached or
\* understood: 500.  What it answers other than 200 is passed on as it is.
InfoFails(c) ==
    /\ at[c] = "info"
    /\ End(c)
    /\ status' \in {404, 500} \cup UpstreamStatus
    /\ nisem' = Ni!Release(nisem, c)
    /\ UNCHANGED <<recents, nsem, info, since, told>>

\* There is a base: remember how to make the nar...
PutRecent(c) ==
    /\ at[c] = "info"
    /\ Continue(c, "reply")
    /\ recents' = Lru!Add(recents, NarOf[path[c]], path[c])
    /\ Use(NarOf[path[c]])
    /\ UNCHANGED <<nisem, nsem>>

\* ...and send the narinfo.
ReplyInfo(c) ==
    /\ at[c] = "reply"
    /\ End(c)
    /\ nisem' = Ni!Release(nisem, c)
    /\ status' = 200
    /\ info' = [info EXCEPT ![path[c]] = 0]
    /\ told' = IF exiting THEN told \cup {path[c]} ELSE told \ {path[c]}
    /\ UNCHANGED <<recents, nsem, since>>
-----------------------------------------------------------------------------
(* getNar *)

\* Nix asks for the nar of a narinfo it has.  It is looked up at once; a nar
\* that is not there is answered with a 404.
AskNar(c, p) ==
    /\ info[p] # Stale
    /\ Begin(c, p)
    /\ IF Lru!Has(recents, NarOf[p])
       THEN /\ at' = [at EXCEPT ![c] = "narq"]
            /\ recents' = Lru!Touch(recents, NarOf[p])
            /\ Use(NarOf[p])
            /\ nsem' = Ns!Acquire(nsem, c)
       ELSE UNCHANGED <<at, recents, since, nsem>>
    /\ UNCHANGED <<nisem, info>>

NarCanceled(c) ==
    /\ at[c] = "narq" /\ c \notin nsem.held
    /\ End(c)
    /\ status' = 0
    /\ nsem' = Ns!Abandon(nsem, c)
    /\ UNCHANGED <<recents, nisem, info, since, told>>

NarSlot(c) ==
    /\ at[c] = "narq" /\ c \in nsem.held
    /\ Continue(c, "nar")
    /\ UNCHANGED <<recents, nisem, nsem, since>>

\* getNarCommon, see NarFetch, takes its time.
EndNar(c) ==
    /\ at[c] = "nar"
    /\ End(c)
    /\ status' = 0
    /\ nsem' = Ns!Release(nsem, c)
    /\ UNCHANGED <<recents, nisem, info, since, told>>
-----------------------------------------------------------------------------
(* Time and exitOnIdle *)

Later(t, max) == IF t < max THEN t + 1 ELSE max

\* A tick.
Pass ==
    /\ phase' = (phase + 1) % Second
    /\ idle' = Later(idle, MaxIdle)
    /\ age' = [c \in Conn |-> IF at[c] = "free" THEN 0 ELSE Later(age[c], MaxAge)]
    /\ info' = [p \in Path |-> Later(info[p], Stale)]
    /\ told' = {p \in told : info'[p] # Stale}
    /\ status' = 0
    /\ UNCHANGED <<up, exiting, recents, since, nisem, nsem, at, path, begun>>

\* exitOnIdle looks, once a minute: at any time, here...
Look ==
    /\ up /\ ~exiting /\ idle > IdleTime
    /\ exiting' = TRUE
    /\ status' = 0
    /\ UNCHANGED <<up, phase, idle, recents, since, nisem, nsem, at, path, age, info, begun, told>>

\* ...and calls os.Exit, whatever has happened since it looked.  What is under
\* way is cut off, and forgotten.
Exit ==
    /\ exiting
    /\ up' = FALSE /\ exiting' = FALSE
    /\ recents' = Lru!New
    /\ since' = [n \in Nar |-> {}]
    /\ nisem' = Ni!New
    /\ nsem' = Ns!New
    /\ at' = [c \in Conn |-> "free"]
    /\ age' = [c \in Conn |-> 0]
    /\ begun' = {}
    /\ status' = 0
    /\ UNCHANGED <<phase, idle, path, info, told>>
-----------------------------------------------------------------------------
Request(c) ==
    \/ \E p \in Path : AskInfo(c, p) \/ AskNar(c, p)
    \/ InfoCanceled(c) \/ InfoSlot(c) \/ InfoFails(c) \/ PutRecent(c) \/ ReplyInfo(c)
    \/ NarCanceled(c) \/ NarSlot(c) \/ EndNar(c)

Next == Pass \/ Look \/ Exit \/ \E c \in Conn : Request(c)

Spec == Init /\ [][Next]_vars
-----------------------------------------------------------------------------
TypeOK ==
    /\ {up, exiting} \subseteq BOOLEAN /\ phase \in 0..Second - 1 /\ idle \in 0..MaxIdle
    /\ Lru!TypeOK(recents) /\ Len(recents) <= RecentsSize
    /\ Ni!TypeOK(nisem) /\ Ns!TypeOK(nsem)
    /\ at \in [Conn -> At] /\ path \in [Conn -> Path] /\ age \in [Conn -> 0..MaxAge]
    /\ status \in Status /\ info \in [Path -> 0..Stale] /\ since \in [Nar -> SUBSET Nar]
    /\ begun \subseteq Conn /\ told \subseteq Path

\* module.nix:31-33, subst.go:64: recents are not kept across restarts, so
\* narinfos live shortly.  While Nix may use a narinfo, its nar can be served,
\* whatever exits, restarts and requests lie between, unless that many others
\* were asked for since it was; or the narinfo was sent by a process that had
\* already found itself idle (subst.go:95-96).
PromiseKept ==
    \A p \in Path \ told : info[p] # Stale =>
        LET n == NarOf[p] IN
        up /\ (Lru!Has(recents, n) \/ Cardinality(since[n]) >= RecentsSize)

\* subst.go:149,310: slots are held by the requests that are past their queue
\* and by those granted in it, and by nobody else, over exits too.
SlotsKept ==
    /\ \A c \in Conn :
        /\ c \in nisem.held => at[c] \in {"infoq", "info", "reply"}
        /\ at[c] \in {"info", "reply"} => c \in nisem.held
        /\ c \in nsem.held => at[c] \in {"narq", "nar"}
        /\ at[c] = "nar" => c \in nsem.held
    /\ Ni!Sound(nisem) /\ Ns!Sound(nsem)

\* subst.go:93-98, fw.go:16: what the idle process cuts off when it exits has
\* been under way for the idle time, but for the second that lastReq may be cut
\* by, or began after exitOnIdle had looked.
ExitSparesYoung ==
    [][up /\ ~up' => \A c \in Conn \ begun : at[c] # "free" => age[c] + Second > IdleTime]_vars
=============================================================================
