------------------------------ MODULE Catalog ------------------------------
(***************************************************************************)
(* The catalog (catalog.go): the store paths of this machine that may serve *)
(* as bases.  A goroutine reads the store directory now and then, batch by  *)
(* batch, asks nix path-info about what is new, and publishes the result    *)
(* when it has read everything; requests choose bases from what was         *)
(* published last.  Meanwhile Nix builds, registers and deletes paths.      *)
(***************************************************************************)
EXTENDS StoreName

CONSTANTS
    Path,       \* store paths: records with the fields below, and others
    Skipped,    \* those whose names skipREs matches, or that have no hash or name
    NarSize,    \* NarSize[n]: the size of nar n
    Stores,     \* the states of the store to begin with, of a machine that serves,
                \* and of one that simulates
    Batch,      \* how many names are read at a time, 2048
    MaxUint32,  \* what a catalog item holds of a size
    Moving,     \* bound: the paths that Nix builds, registers or deletes
    MaxTrouble  \* bound on the changes of the store and the failures

Unsigned == "unsigned"
Source == <<115, 111, 117>>

\* A store path is not there, there but not (or no longer) registered, or valid.
Presence == {"no", "unregistered", "valid"}

ASSUME CatalogAssumption ==
    /\ IsFiniteSet(Path) /\ Skipped \cup Moving \subseteq Path
    /\ \A p \in Path :
        /\ {"name", "hash", "sys", "signer", "nar"} \subseteq DOMAIN p
        /\ p.name \in Seq(1..Top - 1) /\ p.hash \in Nat /\ NarSize[p.nar] \in Nat
        /\ \A q \in Path : q.name = p.name /\ q.hash = p.hash => q = p
    /\ \A m \in {"serve", "sim"} : Stores[m] \subseteq [Path -> Presence]
    /\ Batch \in Nat \ {0} /\ MaxUint32 \in Nat /\ MaxTrouble \in Nat

VARIABLES
    there,      \* the store
    bt,         \* what was published: a set of paths, with what is recorded of them
    upd,        \* the updater: where it is, its clone of the tree, the names it has
                \* not read, and the paths it asks path-info about
    trouble     \* how much has changed or failed

catalogVars == <<there, bt, upd, trouble>>
-----------------------------------------------------------------------------
(* findBase *)

ItemLess(a, b) == Less(a.name, b.name) \/ (a.name = b.name /\ a.hash < b.hash)

\* btree's AscendRange, from a name to the end of those that begin with it.
AscendRange(items, start) ==
    {i \in items : ~Less(i.name, start) /\ Less(i.name, Append(start, Top))}

LastItem(items) == CHOOSE i \in items : \A j \in items \ {i} : ItemLess(j, i)

NoBase == [name |-> <<>>]

\* The same system, as far as known (see SysChecker); the same signer, if the
\* requested path has one; as many dashes.
Eligible(i, p) ==
    /\ i.sys = p.sys
    /\ p.signer \in {Unsigned, i.signer}
    /\ Cardinality(FindDashes(i.name)) = Cardinality(FindDashes(p.name))

\* Mutant: the first best is kept.
BetterFirst(p, best, i) ==
    IF Eligible(i, p) /\ MatchLen(p.name, i.name) > MatchLen(p.name, best.name) THEN i ELSE best

\* The name with the longest common prefix, and the last of them.
Better(p, best, i) ==
    IF Eligible(i, p) /\ MatchLen(p.name, i.name) >= MatchLen(p.name, best.name) THEN i ELSE best

FindBase(items, p) ==
    IF Len(p.name) < 3 \/ p.name = Source THEN NoBase
    ELSE LET range == AscendRange(items, Start(p.name))
             best[seen \in SUBSET range] ==
                 IF seen = {} THEN NoBase
                 ELSE LET i == LastItem(seen) IN Better(p, best[seen \ {i}], i)
         IN  best[range]
-----------------------------------------------------------------------------
(* addBatch *)

\* The names path-info is asked about, all of them in one call...
NewNames(nt, names) == names \ (Skipped \cup nt)

\* ...and those of them that become items.
Recordable(p) == NarSize[p.nar] <= MaxUint32 /\ p.signer # Unsigned

\* One path that it does not know fails the call, and with it the batch.
PathInfo(nt, batch) ==
    IF \A p \in batch : there[p] = "valid" THEN nt \cup {p \in batch : Recordable(p)} ELSE nt

AddBatch(nt, names) == PathInfo(nt, NewNames(nt, names))
-----------------------------------------------------------------------------
(* update *)

Resting == [pc |-> "idle", nt |-> {}, left |-> {}, batch |-> {}]

CatalogInit ==
    /\ there \in Stores["serve"]
    /\ bt = {}
    /\ upd = Resting
    /\ trouble = 0

\* Mutant: the tree is made anew.
OpenAnew ==
    /\ upd.pc = "idle"
    /\ upd' = [Resting EXCEPT !.pc = "read", !.left = {p \in Path : there[p] # "no"}]
    /\ UNCHANGED <<there, bt, trouble>>

\* The ticker; a directory that cannot be opened waits for the next one.
Open ==
    /\ upd.pc = "idle"
    /\ upd' = [pc |-> "read", nt |-> bt, left |-> {p \in Path : there[p] # "no"}, batch |-> {}]
    /\ UNCHANGED <<there, bt, trouble>>

\* The next names, in any order, among them those of paths deleted meanwhile.
Readdirnames ==
    /\ upd.pc = "read" /\ upd.left # {}
    /\ \E names \in kSubset(Min({Batch, Cardinality(upd.left)}), upd.left) :
        LET batch == NewNames(upd.nt, names) IN
        upd' = [upd EXCEPT !.left = @ \ names, !.batch = batch,
                           !.pc = IF batch = {} THEN "read" ELSE "info"]
    /\ UNCHANGED <<there, bt, trouble>>

\* path-info answers, or fails for a reason of its own.
AskPathInfo ==
    /\ upd.pc = "info"
    /\ \/ /\ upd' = [upd EXCEPT !.pc = "read", !.batch = {}, !.nt = PathInfo(@, upd.batch)]
          /\ UNCHANGED trouble
       \/ /\ trouble < MaxTrouble /\ trouble' = trouble + 1
          /\ upd' = [upd EXCEPT !.pc = "read", !.batch = {}]
    /\ UNCHANGED <<there, bt>>

\* Reading fails: what was found so far is dropped.
ReadFails ==
    /\ upd.pc = "read" /\ trouble < MaxTrouble
    /\ upd' = Resting
    /\ trouble' = trouble + 1
    /\ UNCHANGED <<there, bt>>

\* Mutant: the clone is not stored.
PublishNot ==
    /\ upd.pc = "read" /\ upd.left = {}
    /\ upd' = Resting
    /\ UNCHANGED <<there, bt, trouble>>

Publish ==
    /\ upd.pc = "read" /\ upd.left = {}
    /\ bt' = upd.nt
    /\ upd' = Resting
    /\ UNCHANGED <<there, trouble>>

Update == Open \/ Readdirnames \/ AskPathInfo \/ Publish

\* Nix: a path is built or unpacked, registered, invalidated, deleted.  A
\* directory that is being read may give a new name, or not.
Change(p, x) ==
    /\ trouble < MaxTrouble /\ trouble' = trouble + 1
    /\ x # there[p] /\ "unregistered" \in {x, there[p]}
    /\ there' = [there EXCEPT ![p] = x]
    /\ \/ UNCHANGED upd
       \/ upd.pc # "idle" /\ there[p] = "no" /\ upd' = [upd EXCEPT !.left = @ \cup {p}]
    /\ UNCHANGED bt
=============================================================================
