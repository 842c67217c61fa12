# nix-sandwich in TLA+

This directory holds a formal model of nix-sandwich: TLA+ modules translated
from the Go source, TLC configurations that check them on small instances, and
TLAPS proofs of the properties that matter most for every instance. Paths such
as `differ.go:116` are files of the repository.

## 1. The system

nix-sandwich is a binary cache for Nix that sends deltas. The *substituter*
runs beside Nix: it proxies narinfo requests to an upstream cache, picks a
store path on the machine as a base, and rewrites the narinfo so that Nix asks
it for the nar. For the nar it asks the *differ*, which runs beside the
upstream cache, downloads base and requested nar and streams a delta back; the
substituter expands the delta against its local base and streams the nar to
Nix.

    Nix --narinfo--> subst.getNarInfo --> upstream cache
                       |-> catalog.findBase -> sysChecker
                       '-> recents (put)
    Nix --nar------> subst.getNar -> recents (get)
                       '-> getNarCommon --POST--> differ -> upstream (2 nars)
                              |-- nix-store --dump (base) -> [expand filter]
                              '-- algo.Expand -> [collapse filter] -> Nix

### Inventory

| component | code | state | operations | what makes it hard | what makes it correct |
|---|---|---|---|---|---|
| diff server | `differ.go` | three weighted semaphores, temp files, per request an errgroup and a multipart reply | `differ`, `downloadNar`, `downloadNarFromInfo` | three nested semaphores under concurrent requests, cancellation anywhere, deferred calls in reverse order, a status line sent before the work | files lie in reserved space and exceed the disk only by what they are larger than announced; permits are neither lost nor leaked; an Ok trailer means a delta of whole files; no deadlock |
| semaphores | `golang.org/x/sync/semaphore` (external) | holders and a queue | `Acquire`, `Release` | lost wake-ups, starvation, a grant racing a cancellation | the size bounds the holders; first come first served; the head never waits needlessly |
| delta algorithms | `algo.go` | processes, pipes, a temp file | `Create`, `Expand`, `pickAlgo` | pipes between processes that may fail, close or block in any order | an error in any stage is reported; every process is reaped |
| nar serving | `subst.go:134-292` | nar semaphore, the dump process, pipes, the differ's multipart | `getNar`, `getNarCommon` | a pipeline of processes and goroutines unwound by deferred calls | an Ok status means a whole nar; the pipeline ends and the permit returns |
| narinfo serving | `subst.go:294-440` | narinfo semaphore, upstream request | `getNarInfo`, `getNarInfoCommon` | the reply promises a nar served later by another request | a narinfo is sent only when its nar can be asked for |
| recents | `subst.go:114-128` | an LRU of 10000 | `getRecent`, `putRecent` | eviction and restarts between the narinfo and the nar | what Nix has been promised is there when it comes |
| idle exit | `subst.go:93-103`, `fw.go` | `lastReq` | `alive`, `exitOnIdle` | a request in flight longer than the idle time; socket activation restarts | no exit while a promise is fresh, or over a young request |
| catalog | `catalog.go` | a B-tree behind an atomic pointer | `update`, `addBatch`, `findBase` | readers during updates, store paths that are gone, one bad batch | the best base by name, system and signer; nothing known is forgotten, everything valid is found |
| system checker | `syschecker.go` | an LRU cache, a singleflight group, a semaphore | `getCached`, `listingPresence`, `localPresence` | cached results of failed requests, two sources for one key | never a base of another system |
| nar expander | `narexpander.go` | buffers, xz/gz processes, a pipe | `ExpandNar`, `CollapseNar` | processes in order behind a bounded buffer; sizes announced before they are known | only odd files or failures stop it; the order of entries is kept |
| analytics | `analytics.go` | a log | `writeAnalytics`, `analyzeLog` | records out of order, repeated, missing | totals count every download once |
| simulation | `simulate.go`, `subst.request` | two counters, a semaphore | `simulate` | forty requests at once against one catalog | the counters and the log agree |
| main, config | `main.go`, `config.go` | - | - | sequential glue | - |
| deployment | `module.nix`, `tf/`, `scripts/` | disk size, idle time, cache ttl | - | constants that the code's limits must agree with | limits that the code admits can be served |

`PROJECT.json` lists the same components with what is modelled of each, and the
hazards of the code, line by line, with the properties that watch over them.

## 2. The modules

| module | models | composes | checked by | proved by |
|---|---|---|---|---|
| `Weighted` | `semaphore.Weighted` (external): functions of a semaphore value, and its clients: Acquire under a context, deferred Release | - | `Weighted`, its users | itself |
| `Differ` | `differ.go`: a handler and two downloads per request | three `Weighted`, implements `DiffService` | `DifferSafety`, `DifferLive`, `DifferLeak` | `DifferProofs` |
| `DiffReply`, `DiffService` | what the differ promises a client: a refusal, or all parts of a reply (abstract) | - | - | - |
| `NarFetch` | `getNarCommon` with `Expand`: one nar, its processes and pipes | `DiffReply` | `NarFetch`, `NarFetchDump` | `NarFetchProofs` |
| `NarFilter` | what a nar filter promises its reader (abstract) | - | - | - |
| `Compressed` | `parseXz` and the end of a gz file; xz and gzip (external) by sizes and options | - | its user | `NarExpanderProofs` |
| `NarExpander` | `narexpander.go`: both filters | `Compressed`, implements `NarFilter` | `NarExpander` | `NarExpanderProofs` |
| `Lru` | `groupcache/lru` (external), functions of a cache value | - | its users | itself |
| `SysChecker` | `syschecker.go`, and what the catalog makes of its results | `Weighted`, `Lru` | `SysChecker`, `SysCheckerSame` | `SysCheckerProofs` |
| `Substituter` | `getNarInfo`, `getNar`, recents, `fw`, `exitOnIdle` | two `Weighted`, `Lru` | `Substituter` | `SubstituterProofs` |
| `StoreName` | names of store paths as `catalog.go` compares them | - | its users | `RequestsProofs` |
| `Catalog` | `catalog.go`: `findBase`, `addBatch`, the updater beside a changing store | `StoreName` | its user | `RequestsProofs` |
| `Analytics` | the records, and `analyzeLog`'s loop over them | - | its user | `RequestsProofs` |
| `Requests` | narinfo, base, nar and their records, from Nix or from `simulate.go` | `Catalog`, `Analytics`, `Weighted` | `Requests`, `RequestsIdentical` | `RequestsProofs` |

`MC*` modules give the constants of these modules values for TLC. Operators marked
"Mutant" are plausible mistakes in the definition that follows them; replacing
the definition by one must break a property. They are part of no specification.

### How state and actions correspond to the code

*Goroutines* are program counters: `pc[r]` of `Differ` is where the handler of a
request is, `task[t]` where one of its download goroutines is. An action is what
a goroutine does between two points where another can see a difference: an
`Acquire` and the return from it, an answer from outside, the end of a process,
a deferred call. Deferred calls are actions of their own, in the order in which
Go runs them: `Close`, `RemoveFiles`, `ReleaseDisk` of `Differ`, `Unwind` of
`NarFetch`.

*Semaphores and caches* are values: `Weighted` and `Lru` define a function for
each operation of the library, and a user applies them to a variable. An instance
of `Weighted` says which variable is the semaphore, and by the places of its
clients who waits and who holds. A waiter
that has been granted but has not woken up is among the holders, as in the
library, so that a cancellation can meet a grant in either order.

*Contexts* are flags. `gone[r]` is the end of a request's context. What listens
to it (`Acquire(r.Context())`, `exec.CommandContext`) has an action guarded by
it; what does not (`http.Get` in `downloadNar`, `reqSem` under
`context.Background()`) has none.

*Errors*. Every error return of the source is a disjunct of an action or an
action of its own. Returns that lead to the same state are one disjunct.

*Data* are abstracted to what a property tells apart: a file on the differ's
disk is partial, whole, or lost (there, with a name that nobody knows any
more), and has a number of bytes, which need not be what was announced; a delta is a body or junk; the decoder's output is part of the nar or all
of it; a store path is its libc for the system checker, its nar for the
substituter, and for the catalog a record of its name (a sequence of bytes, for
`findBase` compares bytes), hash, system, signer and nar; an entry of a nar is all
of a file, or one of the two parts into which the expander splits it; a compressed
file is the sizes of the blocks of its streams and its filters with their
properties, which is what `parseXz` takes from it and what decides whether xz
makes the same file again.

*The same request, seen twice.* `Substituter` follows a request through queues,
time and exits, and leaves open which base it finds; `Requests` follows it through
the catalog, the log and a simulation, and leaves out queues and exits. `NarFetch`
is the inside of `EndNar` of the one and of `SendNar` and `NarFails` of the other.

`PROJECT.json` maps each definition to its lines.

## 3. What the runs show

| run | instance | result |
|---|---|---|
| `Weighted` | five clients of weights 1, 1, 2, 3, 4 on a semaphore of 3 | `Bounded`, `HeadBlocked`, `InOrder`, `NoStarvation` hold |
| `DifferSafety` | three requests (2, 4, 2 units of a disk of 4), one CPU, one filtered, two with a file larger than announced, any failure | `DiskBudget`, `PermitsKept`, `OkMeansDelta`, `ServesReplies` (refinement of `DiffService`) hold |
| `DifferLive` | four requests: two that share the disk, and a CPU, one that needs all of the disk, one too large for it (18 units of 4); no filter fails | `AdmissibleServed`, `GoneUnwound` hold, no deadlock |
| `DifferLeak` | two requests, one filtered | `DiskCovered` fails: see findings |
| `NarFetch` | one nar of each of 16 kinds | `OkMeansServed`, `Reaped`, `GoneReturns`, `ZstdReturns` hold |
| `NarFetchDump` | the same | `DumpDone` fails: see findings |
| `NarExpander` | all nars of up to three entries, and of up to two with odd compressed files; both filters | `BufferKept`, `CleanEnd`, `NoFalseAlarm`, `KeepsPromise` (refinement of `NarFilter`), `Ends` hold |
| `SysChecker` | two requests and the updater, two libcs, a cache of one | `NoFalseSystem`, `OneFlight`, `CacheBound`, `KnownSameSystem`, `Told` hold |
| `SysCheckerSame` | one request and the updater | `SameSystem` fails: see findings |
| `Substituter` | two connections, three paths and nars, room for two | `PromiseKept`, `SlotsKept`, `ExitSparesYoung` hold |
| `Requests` | ten paths, two connections and two requests of Nix beside the updater; simulations of two lines against any bases | `BaseFits`, `NothingForgotten`, `Found`, `RecordFirst`, `ActualExact`, `SimCounts` hold |
| `RequestsIdentical` | the same, Nix only | `IdenticalSimulated` fails: see findings |

Every property that holds is broken by a mutant of the code (`PROJECT.json`,
"mutants").

### Bounds, and why they are enough

- *Requests.* Two actors show a race, the third is the one that waits behind two
  or overtakes. `DifferSafety` has three requests because a queue of the disk
  semaphore with a holder in front and somebody behind needs three. `DifferLive` has
  four: two that hold disk space together and contend for slots, one that waits for
  theirs and they for its, and one that waits for ever. There `Leaving` has one of the
  two, whose client may leave in any of the three queues, and the one that can do
  nothing else; and `Refusals` is empty, for who is refused takes part in nothing.
- *Sizes.* Disk, semaphore and buffer are small numbers such that some requests
  fit together, some do not, and one fits alone or never. `NarBytes`: a base is one
  byte larger than the nar, and so is a nar that was expanded. `MaxInt64` is 31:
  twice an announced size is below it, for the substituter asks for no nar larger
  than `MaxNarSize` (`subst.go:356`).
- *Semaphores* of one slot (20 and 40 in the code): what matters is that
  somebody waits. The proofs cover every size.
- *Caches.* `SysChecker` has a cache of one for two libcs, so that it evicts all
  the time. `Substituter` has room for two of three nars, so that promises are
  evicted while others are kept; `since` remembers what was used since a nar was.
- *Time* (`Substituter`) passes in ticks. A second has two (`Second`): enough for
  `lastReq`, in whole seconds, to lose a fraction, while `time.Since` has it. `TTL` = 1
  stands for the 15 seconds of `narinfo-cache-positive-ttl` (`module.nix:33`),
  `IdleTime` = 3 for `SubstIdleTime` (15 minutes); only `TTL` + `Second` <= `IdleTime`
  matters. exitOnIdle looks at any moment (in the code once a minute), and exits at
  any later one. Clocks stop at the value from which on nothing changes (`MaxIdle`,
  `Stale`, `MaxAge`).
- *Requests again.* Connections carry any number of requests, one after the
  other (`Again` in `Differ`). Bound: not after a request that lost a file, so
  that the loss stays visible.
- *Nars* of up to three entries (`NarExpander`): one that is written, one in the
  channel, one that is read. With a channel of two and a buffer of four bytes,
  the reader gets ahead of the writer and waits for it, on both. What is odd about a
  compressed file concerns that file only, so that odd ones come in nars of up to
  two. `GzModulus` is 8 for 2^32.
- *The store* (`Requests`). Ten paths: an older and a newer version, one of the same
  name and contents, one whose name is longer, one with more dashes, of another
  system, unsigned, too small, too big, and one whose name is `Source`, which stands for
  "source" in three bytes. `Moving`: two of them are built, registered or deleted, one a
  base, the other what stands in its batch's way. `MaxTrouble` = 2
  changes and failures, enough to delete a path that is known, or to register one
  whose batch has failed. `Batch` = 2 (2048 in the code), so that a reading of the
  directory takes several. `MaxRequests` = 2 narinfos.

### Fairness

Goroutines go on (weak fairness per handler, per download, per reader and
writer), for the Go scheduler is fair and processes end when their input has
been read. An answer from the upstream or the differ comes in the end, as an
error if need be. A client need not do anything: disconnecting, asking and reading
are not fair. The steps for which this matters: `GoneUnwound` holds although the
differ's `http.Get` listens to no context because the upstream answers.
`NarFetch` is fair to a dump that ends well only while somebody reads it, which
is why `DumpDone` fails. `Ends` of `NarExpander` says "or nobody reads any more". In
`Requests` only the updater is fair: its ticker goes on and `nix path-info` ends; a
failure of it costs trouble, which is bounded, so that in the end it answers.

### Deadlocks

TLC checks for them except in `DifferSafety` (a decompressor whose filter failed
keeps its slot, and everyone else may end up waiting for it), `NarFetch` (a nar
with a filter, or from xdelta, may hang), and `NarExpander` (a filter nobody reads
from stops; so does one that has ended). In these the properties say what must
not stop. A simulation that is over stops: `SimOver` of `Requests` tells it from a
deadlock.

## 4. Findings

1. `differ.go:281`, run `DifferLeak`. A filter that fails while the decompressor
   succeeds makes `downloadNar` return the decompressor's nil error with an empty
   name. Nobody removes the file, and the disk space it was reserved under is
   freed. (`PermitsKept` and `OkMeansDelta` hold: the delta of a file without a
   name fails.)
2. `subst.go:256`, run `NarFetchDump`. When xdelta does not read its base to the
   end, the wait for the dump ends only when the client leaves.
3. `syschecker.go:206`, run `SysCheckerSame`. A failed listing makes a libc
   unknown for the life of the process, the catalog records unknown systems for
   the paths it adds meanwhile, and unknown equals unknown in `findBase`: a base
   may be of another system than the path asked for.

4. `catalog.go:126`, run `RequestsIdentical`. The catalog forgets nothing, so a path
   that the garbage collector took and Nix asks for again is its own base. The request
   is answered with a 404, which is harmless, and recorded as "identical", a case
   that `subst.go:380` says only a simulation has, and that `analyzeLog` therefore
   takes for nothing downloaded.

Observations without a run:

- `README.md:133` says that whatever fails, Nix is told that the path is not there; an
  upstream cache that cannot be reached or understood is answered with a 500
  (`subst.go:330`, 350, 354), and any other status of its is passed on (`subst.go:346`;
  `UpstreamStatus` of `Substituter`).
- `subst.go:284`: a fetch that fails after its delta has come, in whole or in part, has no
  record, and Nix downloads the file as well. The "actual dl" of the log, of which
  `README.md:57` says "What was actually downloaded", is then the file only.
  `ActualExact` says what the number is.
- `differ.go:116`: an `Acquire` of more than the disk semaphore's size waits until its
  context ends. A nar of `MaxNarSize`, 1 GiB (`config.go:20`), needs 2 GiB on the
  lambda, whose 2 GiB of disk (`tf/lambda.tf`) give a semaphore of 9/10 of that.
  `AdmissibleServed` is about the others.
- `catalog.go:196-199` speaks of segments in common, the code compares bytes, and the
  last of equals wins: for `foo-1.2`, `foo-1.2.3` is as good as `foo-1.2`, and later.
  `BaseFits` states what the code does.
- `narexpander.go:472`: a delta filter's distance of 256 becomes 0 in a byte, and
  xz refuses it when the nar is collapsed; a file of several streams announces the
  size of the last. Such a file fails the whole nar, on the differ (which is how
  `FilterMayFail` of `Differ` happens) or in the substituter. `NoFalseAlarm` says that
  no other file does.
- `narexpander.go:334` "we know it'll be smaller than buf": contents that do not compress make
  a larger file, and other options a larger one than the original, by which the
  buffer was reserved.
- A nar that Nix fetches twice is subtracted twice by `analyzeLog` (109), and a delta whose
  record comes before that of its request is dropped (114): two of the terms of
  `ActualExact`.
- `subst.go:95-102`: `lastReq` is cut to seconds, so the idle exit may come up to a second
  early, and a request that begins between the test and `os.Exit` is cut off at any age.
  `ExitSparesYoung` and `PromiseKept` say that nothing else is.
- `differ.go:114` "we expect them to be about the same size": nothing bounds a base, or an
  expanded nar, by what was reserved. `DiskBudget` says how far the disk may be exceeded.
- `recent.stats` is written without a lock (`subst.go:279`) by every request for the
  same nar; only the log reads it.

## 5. What is proved

TLAPS checks every proof, for all values of the constants that the named
assumptions admit. These are types and sizes (`Params`, `DifferAssumption`,
`NarFetchAssumption`, `SysCheckerAssumption`, `SubstituterAssumption`,
`CatalogAssumption`, `RequestsAssumption`, `NarExpanderAssumption`: finite sets,
sizes that are numbers, at least one permit, slot or entry), and four that say more:
`TTLAssumption`, that Nix keeps narinfos for less than the idle time, by a second or
more (`module.nix:33`, 51), without which promises would be broken; `CompressedAssumption`,
that sizes in gz files are modulo something; `CatalogAssumption`, that a store path is
known by its name and hash, which are the order of the B-tree (`catalog.go:75`); and
`Positive` in `Weighted`, that no client asks for nothing (in `Differ`: that no nar is
empty), for only then is the head of the queue too large when it waits. Each invariant
(`IInv`, and `IdInv`, `CountInv`, `LedgerInv` and `SimInv` of `RequestsProofs`) was checked
by TLC on the instance of its run before it was proved.

- **Semaphore** (`Weighted`). The library functions keep `Sound` (the holders'
  weight is within the size, nobody is held or queued twice) for every set of
  clients, weights and size: `AcquireSound`, `ReleaseSound`, `AbandonSound`, with
  what each leaves held and queued. `AbandonBlocked` and `NotifySound` add that
  the head of the queue does not fit. A weight is the cardinality of a set of
  units, so that facts about sums are facts of the library on finite sets. From these
  `SpecBounded` and `SpecHeadBlocked`, for clients that use it as the code does, and
  `SpecInOrder`: no call grants a waiter past one ahead of it that still waits.
- **LRU cache** (`Lru`). `Add` and `Touch` keep a cache within its size and each
  key at most once (`AddSound`, `TouchSound`), and its order is that of use: if only
  keys of a set S were used since k, all that is behind k is in S, and k is evicted
  only once S has as many as the cache holds (`AddRecency`, `TouchRecency`).
- **Diff server** (`DifferProofs`): `TypeOK`, `PermitsKept`, `OkMeansDelta` and
  `DiskBudget`, for every set of requests, sizes, disk and number of CPUs, and with
  filters that fail or not. The invariant that carries them says, beside the
  types, who may be held and queued by each semaphore (`DiskInv`, `DeltaInv`,
  `SlotInv`: without the queue's part a grant by somebody else's release could go
  to a request that has left), where downloads can be while the handler is at a
  given point (`TaskInv`), what has been written by then (`PartsInv`), and that a
  file that is not lost belongs to a download that writes it or returned its name
  (`FileInv`). From it follows that who stores anything holds disk space, the first
  part of `DiskBudget`; the second, that all files together exceed the disk by no more
  than single files exceed what was announced of them, with the soundness of the
  semaphore and a count of bytes, one by one.
  One lemma per action, one step per part.
- **What the differ promises** (`SpecServesReplies`): every step of `Differ` is one of
  `DiffService` or none. `RetInv` adds that a handler that unwinds has
  failed or sent all parts.
- **The differ as a client of semaphores** (`SpecUsesSemaphores`): under the mappings
  of `Disk`, `Delta` and `Dl`, every behaviour of `Differ` is one of `Weighted`'s
  clients, three times. What is proved of `Weighted` then holds of the server without
  another look at it: `SpecNoLostWakeup`.
- **Nar serving** (`NarFetchProofs`): `TypeOK`, `OkMeansServed`, `Reaped`, for
  every set of kinds of nars. The invariant says what runs at which point
  (`Started`), that the decoder's success on a good delta and a good base is the
  nar (`Decoded`), and which stage has been waited for (`Awaited`).
- **System checker** (`SysCheckerProofs`): `TypeOK`, `NoFalseSystem`, `OneFlight`,
  `CacheBound`, `KnownSameSystem`, for any number of callers and libcs and every size
  of the cache. The invariant: what is in the cache, and what a caller has found,
  is the libc's system or unknown (`CacheInv`, `ResultInv`), so that it does not matter
  which of two sources won, or what was evicted in between.
- **Substituter** (`SubstituterProofs`): `TypeOK`, `PromiseKept`, `SlotsKept`,
  `ExitSparesYoung`. `PromiseKept` has two halves. The process: `idle`, the time since
  `lastReq`, is at most the age of any narinfo that Nix has, or of any request, and the
  fraction of a second that `lastReq` lost (`TimeInv`), so by `TTLAssumption` it does not
  find itself idle while one may be used, but for what begins or is sent while it is
  about to exit (`begun`, `told`). The cache: `CacheInv` ties the ghost `since`
  to the order in the cache, and `KnownInv` says that a nar that may be asked for is
  in it, or that as many others were used since as it holds.
- **Catalog** (`RequestsProofs`): `NothingForgotten`, for the updater's copy holds
  what is published in every state in which it may be published (`CatalogInv`); and
  `BaseFits`, for every catalog and whatever is asked for. The loop of `findBase` has
  the best of what it has seen (`Best`), by induction over the set of it: the last of
  the items seen, which exists for the order of names and hashes is total
  (`ItemLess`), is as good as any before it when it is eligible and matches as much.
  That range, dashes and common prefix mean what the comment says, as many segments and
  the same first one, is a matter of strings: where two of them part (`Parts`), what
  comes between a name and the end of those that begin with it, and that a name has one
  segment more than dashes (`SegmentsCount`).
- **Requests** (`RequestsProofs`): `RecordFirst`, for a recent stays under its nar, and
  a nar is asked for, or begun, only when a narinfo for it is in the log (`PromiseInv`),
  also when two paths share a nar and so a recent. `TypeOK`, with ids that are as many
  as requests (`CountInv`).
- **What the log says** (`RequestsProofs`): `ActualExact`, from `LedgerInv`, which holds in
  every state: what the log says was downloaded, and what it is not told of (`unseen`: a
  delta of which no nar was made, the file of a narinfo request that failed or was
  "identical", what Nix fetches again), is what was downloaded, and the files of what Nix
  has yet to fetch and of what connections are delivering; except that for a delta
  recorded before its request (`Early`) the file counts. (A sum over nars is the
  cardinality of a set of bytes, tagged by whom they are counted for.) A delta
  takes the place of a file in the total only if it is recorded under the id of a
  request with a file of that size. This is `IdInv`, the part that has to be found:
  an id is recorded once, one that is not yet recorded is known to one connection only,
  or to the recent of its nar and those who took that up; so that a path that replaces
  the recent of another before it is recorded does no harm. What
  `analyzeLog` makes of a log and one record more (`AnalyzeAppend`, `RequestLogged`,
  `DeltaLogged`) is proved of its recursion first.
- **Simulation** (`RequestsProofs`): `SimCounts`, for any list, any bases and any failures.
  The invariant counts lines by where they are (`SimCounted`), says that a line that has
  begun a nar has its record and no delta (`SimNars`), and that the log's total is that of
  its deltas and of the files without one (`SimTotals`). `SpecUsesSemaphore`: the lines
  are clients of `Weighted`, under the mapping of `ClientAt`, so that what is proved of
  the semaphore holds of them (`SpecSlots`).
- **Nar expander** (`NarExpanderProofs`): `TypeOK`, `BufferKept`, `CleanEnd`,
  `NoFalseAlarm` and `KeepsPromise`, for any nars, any channel and any buffer. All
  is said of one sequence, the line of what is held (`InFlight`: being written, in
  the channel, made and not sent): sending and receiving leave it as it is, making
  adds to its end, and the writer takes its first. It holds what comes next
  (`FlowInv`), as much of it as the reader has read (`ReadInv`), with an error
  only as its last (`FailInv`); the permits taken are the sum of its permits
  (`PermitInv`). The lemmas this needs are about data: what the sum of a sequence
  is, that sums add up and bound their parts (`TotalConcat`, `TotalBounds`), what the
  expansion of a nar looks like at each file (`ExpandedShape`), and that options
  made from the filters of a plain file give the same filters again (`PlainSame`).
  Their inductions go through the library's well-founded minimum (`UpTo`), which
  needs no operator as a parameter.

Only model-checked:

- Liveness: `AdmissibleServed`, `GoneUnwound`, `GoneReturns`, `ZstdReturns`, `Told`,
  `Ends`, `Found` and `NoStarvation` (out of the prover's reach).
- That `SysChecker` and `Substituter` are clients of `Weighted` as `Differ` and `Requests`
  are: a listing of `SysChecker` enters and leaves in one step, and an exit of the
  substituter drops its semaphores with their clients. Their own invariants use the
  semaphore's lemmas instead.

Every invariant and every safety property that a passing run checks is stated by a theorem.

## 6. What is not modelled

- HEAD requests, `nix-cache-info`, logs: they change no state.
- The bytes of narinfos, multipart, deltas and nars, of xz and gz files (`readVarint`),
  and whether recompressing gives the same bytes beyond what the options tell: a
  collapsed file of the same length and other bytes passes the code's checks, and is
  left to Nix's check of the nar hash. "The whole nar" in `NarFetch` is the nar that
  the entries name.
- The regular expressions of `catalog.go`, and the choice of an algorithm and its level
  (`pickAlgo`).
- Requests to the differ that the substituter does not make: with negative sizes, or such
  that twice one overflows (`differ.go:36`, 115).
- Files in the temp directory of other programs, and of requests that lost them
  (finding 1): `DiskBudget` counts neither.
- `alive` reads the clock and stores it in one step (`subst.go:102`).
- A panic: `CreateTemp`'s error is not looked at (`differ.go:235`).
- `main.go`, `config.go`, `const.go`, `util.go`, the stub without
  cgo, and the deployment files: sequential or declarative; their constants are used
  where a property depends on them.

## 7. Plan

Done, in the order of importance: the semaphores; the diff server with its proofs;
nar serving with its proofs; the system checker; the substituter; the nar
expander with its formats; the catalog, requests from end to end and the analytics;
the differ's promise (`DiffService`); and proofs of all of these.

Left, and in need of another view of the code:

1. `SysChecker` with a listing in two steps, to be a client of `Weighted` like the others.
2. The inside of `pickAlgo`, and the filters of nars that the catalog chooses, which are
   now left open.
