------------------------------- MODULE Differ -------------------------------
(***************************************************************************)
(* The diff server (differ.go): any number of concurrent requests, each a   *)
(* handler goroutine with two download goroutines under an errgroup, that   *)
(* share three weighted semaphores and the temp directory.                  *)
(*                                                                          *)
(* A handler reserves disk space for both nars, downloads them in parallel, *)
(* each under a download slot, takes a delta slot, streams a multipart      *)
(* reply while the delta is made, and unwinds its deferred calls: close the *)
(* multipart, free the delta slot, remove the files, free the disk space.   *)
(***************************************************************************)
EXTENDS Naturals, Sequences, FiniteSets

CONSTANTS
    Req,            \* the requests, one connection each
    ReqNarSize,     \* ReqNarSize[r]: size of the nar, as request r announces it
    NarBytes,       \* NarBytes[t]: the bytes download t puts on the disk
    MaxInt64,       \* the largest int64
    DiskFree,       \* getTempDirFreeBytes: the disk semaphore's size
    NumCPU,         \* size of the download and the delta semaphore
    Filtered,       \* the requests with a nar filter ("expv2")
    FilterMayFail,  \* can the filter fail on a nar the decompressor accepts?
    Refusals,       \* bound: the statuses that requests are refused with
    Leaving         \* bound: the requests whose client may leave

Task == Req \X {"req", "base"}      \* a request's two downloads

\* The sizes the substituter asks with are those of nars it did not find too
\* big (subst.go:356), so that twice one is an int64.  What is downloaded is
\* the upstream's: a base may be larger than the requested nar, and a filter
\* expands what is compressed in either.
ASSUME DifferAssumption ==
    /\ IsFiniteSet(Req)
    /\ ReqNarSize \in [Req -> Nat]
    /\ \A r \in Req : 2 * ReqNarSize[r] <= MaxInt64
    /\ NarBytes \in [Task -> Nat]
    /\ DiskFree \in Nat
    /\ NumCPU \in Nat \ {0}
    /\ Filtered \subseteq Req
    /\ FilterMayFail \in BOOLEAN
    /\ Refusals \subseteq {400, 405}
    /\ Leaving \subseteq Req

Tasks(r) == {r} \X {"req", "base"}

VARIABLES
    pc,         \* pc[r]: where the handler of r is
    task,       \* task[t]: where the download goroutine t is
    path,       \* path[t]: did download t return the name of its file?
    file,       \* file[t]: what download t has on disk
    gerr,       \* gerr[r]: the errgroup's first error
    gone,       \* gone[r]: the client left, the request's context is done
    parts,      \* parts[r]: the multipart parts written to the client
    ret,        \* ret[r]: the status the handler returned, 0 for none
    disk, dl, delta     \* diskSem, dlSem, deltaSem

vars == <<pc, task, path, file, gerr, gone, parts, ret, disk, dl, delta>>

\* Twice the requested nar: the base should be about as large.
DiskNeed == [r \in Req |-> 2 * ReqNarSize[r]]

PC == {"new", "disk", "wait", "delta", "create", "ok", "failed", "close",
       "cleanup", "release", "done"}
TaskPC == {"off", "start", "slot", "info", "get", "body", "stuck", "end"}

\* Where a handler holds its disk space, where its delta slot, and where a
\* download its slot.
DiskPC == PC \ {"new", "disk", "done"}
DeltaPC == {"create", "ok", "failed", "close"}
SlotPC == {"info", "get", "body", "stuck"}

\* A goroutine at p as a client of a semaphore.
ClientAt(p, waiting, past) ==
    CASE p = waiting -> "waiting" [] p \in past -> "holding" [] OTHER -> "idle"

Disk == INSTANCE Weighted WITH Client <- Req, W <- DiskNeed, Size <- DiskFree,
            sem <- disk, at <- [r \in Req |-> ClientAt(pc[r], "disk", DiskPC)]
Dl == INSTANCE Weighted WITH Client <- Task, W <- [t \in Task |-> 1], Size <- NumCPU,
            sem <- dl, at <- [t \in Task |-> ClientAt(task[t], "slot", SlotPC)]
Delta == INSTANCE Weighted WITH Client <- Req, W <- [r \in Req |-> 1], Size <- NumCPU,
            sem <- delta, at <- [r \in Req |-> ClientAt(pc[r], "delta", DeltaPC)]

Part == {"header", "body", "junk", "ok", "failed"}
Status == {0, 400, 404, 405, 500, 507}

Init ==
    /\ pc = [r \in Req |-> "new"]
    /\ task = [t \in Task |-> "off"]
    /\ path = [t \in Task |-> FALSE]
    /\ file = [t \in Task |-> "none"]
    /\ gerr = [r \in Req |-> "nil"]
    /\ gone = [r \in Req |-> FALSE]
    /\ parts = [r \in Req |-> <<>>]
    /\ ret = [r \in Req |-> 0]
    /\ disk = Disk!New
    /\ dl = Dl!New
    /\ delta = Delta!New
-----------------------------------------------------------------------------
(* The handler: differ *)

\* The request is refused for its method, or for its JSON or algorithms...
Refuse(r) ==
    /\ pc[r] = "new"
    /\ pc' = [pc EXCEPT ![r] = "done"]
    /\ \E status \in Refusals : ret' = [ret EXCEPT ![r] = status]
    /\ UNCHANGED <<task, path, file, gerr, gone, parts, disk, dl, delta>>

\* ...or asks for its disk space.
AcquireDisk(r) ==
    /\ pc[r] = "new"
    /\ pc' = [pc EXCEPT ![r] = "disk"]
    /\ disk' = Disk!Acquire(disk, r)
    /\ UNCHANGED <<task, path, file, gerr, gone, parts, ret, dl, delta>>

\* Mutant: the disk wait does not listen to the request's context.
DiskWaitsOn(r) == FALSE /\ pc' = pc

DiskCanceled(r) ==
    /\ pc[r] = "disk" /\ r \notin disk.held /\ gone[r]
    /\ pc' = [pc EXCEPT ![r] = "done"]
    /\ ret' = [ret EXCEPT ![r] = 507]
    /\ disk' = Disk!Abandon(disk, r)
    /\ UNCHANGED <<task, path, file, gerr, gone, parts, dl, delta>>

\* With the space, start both downloads and wait for them.
StartDownloads(r) ==
    /\ pc[r] = "disk" /\ r \in disk.held
    /\ pc' = [pc EXCEPT ![r] = "wait"]
    /\ task' = [t \in Task |-> IF t[1] = r THEN "start" ELSE task[t]]
    /\ UNCHANGED <<path, file, gerr, gone, parts, ret, disk, dl, delta>>

\* g.Wait returns once both downloads are over.
\* Mutant: the upstream's failure is passed on as a 502.
DownloadsBadGateway(r) ==
    /\ pc[r] = "wait" /\ \A t \in Tasks(r) : task[t] = "end"
    /\ gerr[r] # "nil"
    /\ pc' = [pc EXCEPT ![r] = "cleanup"]
    /\ ret' = [ret EXCEPT ![r] = 502]
    /\ UNCHANGED <<task, path, file, gerr, gone, parts, disk, dl, delta>>

DownloadsFailed(r) ==
    /\ pc[r] = "wait" /\ \A t \in Tasks(r) : task[t] = "end"
    /\ gerr[r] # "nil"
    /\ pc' = [pc EXCEPT ![r] = "cleanup"]
    /\ ret' = [ret EXCEPT ![r] = IF gerr[r] = "notfound" THEN 404 ELSE 500]
    /\ UNCHANGED <<task, path, file, gerr, gone, parts, disk, dl, delta>>

AcquireDelta(r) ==
    /\ pc[r] = "wait" /\ \A t \in Tasks(r) : task[t] = "end"
    /\ gerr[r] = "nil"
    /\ pc' = [pc EXCEPT ![r] = "delta"]
    /\ delta' = Delta!Acquire(delta, r)
    /\ UNCHANGED <<task, path, file, gerr, gone, parts, ret, disk, dl>>

\* Mutant: a canceled delta wait returns without the deferred calls.
DeltaCanceledBare(r) ==
    /\ pc[r] = "delta" /\ r \notin delta.held /\ gone[r]
    /\ pc' = [pc EXCEPT ![r] = "done"]
    /\ ret' = [ret EXCEPT ![r] = 500]
    /\ delta' = Delta!Abandon(delta, r)
    /\ UNCHANGED <<task, path, file, gerr, gone, parts, disk, dl>>

DeltaCanceled(r) ==
    /\ pc[r] = "delta" /\ r \notin delta.held /\ gone[r]
    /\ pc' = [pc EXCEPT ![r] = "cleanup"]
    /\ ret' = [ret EXCEPT ![r] = 500]
    /\ delta' = Delta!Abandon(delta, r)
    /\ UNCHANGED <<task, path, file, gerr, gone, parts, disk, dl>>

\* The reply begins; only a client that left makes a write to it fail.
WriteHeader(r) ==
    /\ pc[r] = "delta" /\ r \in delta.held
    /\ \/ /\ pc' = [pc EXCEPT ![r] = "create"]
          /\ parts' = [parts EXCEPT ![r] = Append(@, "header")]
          /\ UNCHANGED ret
       \/ /\ gone[r]
          /\ pc' = [pc EXCEPT ![r] = "close"]
          /\ ret' = [ret EXCEPT ![r] = 500]
          /\ UNCHANGED parts
    /\ UNCHANGED <<task, path, file, gerr, gone, disk, dl, delta>>

\* Mutant: the handler returns when Create has failed, without a trailer.
CreateFailsBare(r) ==
    /\ pc[r] = "create"
    /\ pc' = [pc EXCEPT ![r] = "close"]
    /\ parts' = [parts EXCEPT ![r] = Append(@, "junk")]
    /\ ret' = [ret EXCEPT ![r] = 500]
    /\ UNCHANGED <<task, path, file, gerr, gone, disk, dl, delta>>

\* algo.Create streams the delta of the two files into the body.  It fails
\* when a file has no name, and may fail on the way, as when the request's
\* context kills its process.  From files that are not whole it makes the delta
\* of something else.
Create(r) ==
    /\ pc[r] = "create"
    /\ \/ /\ \A t \in Tasks(r) : path[t]
          /\ pc' = [pc EXCEPT ![r] = "ok"]
          /\ parts' = [parts EXCEPT ![r] = Append(@,
                 IF \A t \in Tasks(r) : file[t] = "whole" THEN "body" ELSE "junk")]
       \/ /\ pc' = [pc EXCEPT ![r] = "failed"]
          /\ parts' = [parts EXCEPT ![r] = Append(@, "junk")]
    /\ UNCHANGED <<task, path, file, gerr, gone, ret, disk, dl, delta>>

\* The trailer tells the client how Create ended.
WriteTrailer(r) ==
    /\ pc[r] \in {"ok", "failed"}
    /\ pc' = [pc EXCEPT ![r] = "close"]
    /\ \/ /\ parts' = [parts EXCEPT ![r] = Append(@, pc[r])]
          /\ UNCHANGED ret
       \/ /\ gone[r]
          /\ ret' = [ret EXCEPT ![r] = 500]
          /\ UNCHANGED parts
    /\ UNCHANGED <<task, path, file, gerr, gone, disk, dl, delta>>

\* The deferred calls, last deferred first: end the multipart, free the delta
\* slot...
Close(r) ==
    /\ pc[r] = "close"
    /\ pc' = [pc EXCEPT ![r] = "cleanup"]
    /\ delta' = Delta!Release(delta, r)
    /\ UNCHANGED <<task, path, file, gerr, gone, parts, ret, disk, dl>>

\* ...remove the files whose names were returned...
RemoveFiles(r) ==
    /\ pc[r] = "cleanup"
    /\ pc' = [pc EXCEPT ![r] = "release"]
    /\ file' = [t \in Task |-> IF t[1] = r /\ path[t] THEN "none" ELSE file[t]]
    /\ UNCHANGED <<task, path, gerr, gone, parts, ret, disk, dl, delta>>

\* ...and free the disk space.  The handler is over.
ReleaseDisk(r) ==
    /\ pc[r] = "release"
    /\ pc' = [pc EXCEPT ![r] = "done"]
    /\ disk' = Disk!Release(disk, r)
    /\ UNCHANGED <<task, path, file, gerr, gone, parts, ret, dl, delta>>
-----------------------------------------------------------------------------
(* The download goroutines *)

AcquireSlot(t) ==
    /\ task[t] = "start"
    /\ task' = [task EXCEPT ![t] = "slot"]
    /\ dl' = Dl!Acquire(dl, t)
    /\ UNCHANGED <<pc, path, file, gerr, gone, parts, ret, disk, delta>>

\* The errgroup keeps the first error only.
GroupError(r, err) == IF gerr[r] = "nil" THEN err ELSE gerr[r]

SlotCanceled(t) ==
    /\ task[t] = "slot" /\ t \notin dl.held /\ gone[t[1]]
    /\ task' = [task EXCEPT ![t] = "end"]
    /\ gerr' = [gerr EXCEPT ![t[1]] = GroupError(t[1], "other")]
    /\ dl' = Dl!Abandon(dl, t)
    /\ UNCHANGED <<pc, path, file, gone, parts, ret, disk, delta>>

\* downloadNar starts at once for the requested nar, and for the base after
\* its narinfo: only there an upstream 404 is told apart.
HasSlot(t) ==
    /\ task[t] = "slot" /\ t \in dl.held
    /\ task' = [task EXCEPT ![t] = IF t[2] = "base" THEN "info" ELSE "get"]
    /\ UNCHANGED <<pc, path, file, gerr, gone, parts, ret, disk, dl, delta>>

\* Download t is over: its slot is free and its error goes to the errgroup.
EndTask(t, err) ==
    /\ task' = [task EXCEPT ![t] = "end"]
    /\ gerr' = [gerr EXCEPT ![t[1]] = GroupError(t[1], err)]
    /\ dl' = Dl!Release(dl, t)

\* Mutant: the slot of a base without a narinfo is not released.
GetInfoKeepsSlot(t) ==
    /\ task[t] = "info"
    /\ \/ task' = [task EXCEPT ![t] = "get"] /\ UNCHANGED gerr
       \/ \E err \in {"notfound", "other"} :
            /\ task' = [task EXCEPT ![t] = "end"]
            /\ gerr' = [gerr EXCEPT ![t[1]] = GroupError(t[1], err)]
    /\ UNCHANGED <<pc, path, file, gone, parts, ret, disk, dl, delta>>

GetInfo(t) ==
    /\ task[t] = "info"
    /\ \/ /\ task' = [task EXCEPT ![t] = "get"]
          /\ UNCHANGED <<gerr, dl>>
       \/ \E err \in {"notfound", "other"} : EndTask(t, err)
    /\ UNCHANGED <<pc, path, file, gone, parts, ret, disk, delta>>

\* The nar's response arrives and a temporary file is made for it.
GetNar(t) ==
    /\ task[t] = "get"
    /\ \/ /\ task' = [task EXCEPT ![t] = "body"]
          /\ file' = [file EXCEPT ![t] = "partial"]
          /\ UNCHANGED <<gerr, dl>>
       \/ EndTask(t, "other") /\ UNCHANGED file
    /\ UNCHANGED <<pc, path, gone, parts, ret, disk, delta>>

\* The nar is in the file, and its name is returned.
NarWhole(t) ==
    /\ path' = [path EXCEPT ![t] = TRUE]
    /\ file' = [file EXCEPT ![t] = "whole"]
    /\ EndTask(t, "nil")

\* Mutants: the file of a failed download is not removed; the decompressor's
\* exit status is not looked at.
NarBrokenKept(t) == EndTask(t, "other") /\ UNCHANGED <<path, file>>
NarBrokenReturned(t) ==
    /\ path' = [path EXCEPT ![t] = TRUE]
    /\ EndTask(t, "nil")
    /\ UNCHANGED file

\* The body or its decompressor fails: the deferred Remove takes the file.
NarBroken(t) ==
    /\ file' = [file EXCEPT ![t] = "none"]
    /\ EndTask(t, "other")
    /\ UNCHANGED path

\* The filter failed, the decompressor did not: "return "", err" returns the
\* decompressor's nil, so that nothing is reported, and the file stays, lost.
FilterSwallowed(t) ==
    /\ FilterMayFail /\ t[1] \in Filtered
    /\ file' = [file EXCEPT ![t] = "lost"]
    /\ EndTask(t, "nil")
    /\ UNCHANGED path

\* Or the failed filter leaves more than a pipe holds to the decompressor, and
\* Wait waits for a process that nobody reads.
FilterStuck(t) ==
    /\ FilterMayFail /\ t[1] \in Filtered
    /\ task' = [task EXCEPT ![t] = "stuck"]
    /\ UNCHANGED <<path, file, gerr, dl>>

FinishNar(t) ==
    /\ task[t] = "body"
    /\ NarWhole(t) \/ NarBroken(t) \/ FilterSwallowed(t) \/ FilterStuck(t)
    /\ UNCHANGED <<pc, gone, parts, ret, disk, delta>>
-----------------------------------------------------------------------------
(* The clients *)

Disconnect(r) ==
    /\ r \in Leaving /\ pc[r] \notin {"new", "done"} /\ ~gone[r]
    /\ gone' = [gone EXCEPT ![r] = TRUE]
    /\ UNCHANGED <<pc, task, path, file, gerr, parts, ret, disk, dl, delta>>

\* The connection carries another request.  Bound: not one whose predecessor
\* left a file behind, so that "file" keeps telling of it.
Again(r) ==
    /\ pc[r] = "done" /\ \A t \in Tasks(r) : file[t] = "none"
    /\ pc' = [pc EXCEPT ![r] = "new"]
    /\ task' = [t \in Task |-> IF t[1] = r THEN "off" ELSE task[t]]
    /\ path' = [t \in Task |-> IF t[1] = r THEN FALSE ELSE path[t]]
    /\ gerr' = [gerr EXCEPT ![r] = "nil"]
    /\ gone' = [gone EXCEPT ![r] = FALSE]
    /\ parts' = [parts EXCEPT ![r] = <<>>]
    /\ ret' = [ret EXCEPT ![r] = 0]
    /\ UNCHANGED <<file, disk, dl, delta>>
-----------------------------------------------------------------------------
Handler(r) ==
    \/ DiskCanceled(r) \/ StartDownloads(r) \/ DownloadsFailed(r)
    \/ AcquireDelta(r) \/ DeltaCanceled(r) \/ WriteHeader(r) \/ Create(r)
    \/ WriteTrailer(r) \/ Close(r) \/ RemoveFiles(r) \/ ReleaseDisk(r)

Download(t) ==
    \/ AcquireSlot(t) \/ SlotCanceled(t) \/ HasSlot(t)
    \/ GetInfo(t) \/ GetNar(t) \/ FinishNar(t)

Client(r) == Refuse(r) \/ AcquireDisk(r) \/ Disconnect(r) \/ Again(r)

Next ==
    \/ \E r \in Req : Handler(r) \/ Client(r)
    \/ \E t \in Task : Download(t)

Spec == Init /\ [][Next]_vars

\* The goroutines run on, and the upstream answers; a client need not.
FairSpec ==
    /\ Spec
    /\ \A r \in Req : WF_vars(Handler(r))
    /\ \A t \in Task : WF_vars(Download(t))
-----------------------------------------------------------------------------
TypeOK ==
    /\ pc \in [Req -> PC]
    /\ task \in [Task -> TaskPC]
    /\ path \in [Task -> BOOLEAN]
    /\ file \in [Task -> {"none", "partial", "whole", "lost"}]
    /\ gerr \in [Req -> {"nil", "notfound", "other"}]
    /\ gone \in [Req -> BOOLEAN]
    /\ parts \in [Req -> Seq(Part)]
    /\ ret \in [Req -> Status]
    /\ Disk!TypeOK(disk) /\ Dl!TypeOK(dl) /\ Delta!TypeOK(delta)

\* The requests that have a file in the temp directory, but for the lost ones.
Storing == {r \in Req : \E t \in Tasks(r) : file[t] \notin {"none", "lost"}}

\* The bytes on the disk for r, at most: a partial file counts as a whole one,
\* a lost one not at all.
OnDisk(t) == IF file[t] \in {"partial", "whole"} THEN NarBytes[t] ELSE 0
Stored(r) == OnDisk(<<r, "req">>) + OnDisk(<<r, "base">>)

\* Those bytes one by one, and the ones beyond what their request announced.
Bytes == UNION {{r} \X (1..Stored(r)) : r \in Req}
Beyond == {x \in Bytes : x[2] > DiskNeed[x[1]]}

\* differ.go:114-119, "we expect them to be about the same size": whoever has
\* files on the disk holds the space it announced, so that the files of all
\* requests together exceed the disk by no more than nars turned out larger
\* than announced.
DiskBudget ==
    /\ Storing \subseteq disk.held
    /\ Cardinality(Bytes) <= DiskFree + Cardinality(Beyond)

\* differ.go:114 "times two because we need base + requested": all files in the
\* temp directory are those of requests that hold their disk space.
DiskCovered == \A t \in Task : file[t] # "none" => t[1] \in disk.held

\* Permits are neither lost nor used without being held: whoever holds one is
\* at a point of the code that will give it back, and a goroutine past its
\* Acquire holds it.
PermitsKept ==
    /\ \A r \in Req :
        /\ r \in disk.held => pc[r] \notin {"new", "done"}
        /\ pc[r] \in DiskPC => r \in disk.held
        /\ r \in delta.held => pc[r] \in {"delta"} \cup DeltaPC
        /\ pc[r] \in DeltaPC => r \in delta.held
    /\ \A t \in Task :
        /\ t \in dl.held => task[t] \notin {"off", "start", "end"}
        /\ task[t] \in SlotPC => t \in dl.held
    /\ Disk!Sound(disk) /\ Dl!Sound(dl) /\ Delta!Sound(delta)

\* differ.go:198-213: a client that reads a trailer with Ok got, before it,
\* the header and a delta of two files that were whole.
OkMeansDelta ==
    \A r \in Req :
        (\E i \in 1..Len(parts[r]) : parts[r][i] = "ok") =>
            parts[r] = <<"header", "body", "ok">>

\* The differ keeps its promise to the clients (differ.go:81-215 behind the
\* wrapper fw): what a client sees of a request is always a refusal, or a reply
\* with all its parts, unless it left; and a trailer says what the body is.
Service == INSTANCE DiffService WITH over <- [r \in Req |-> pc[r] = "done"]
ServesReplies == Service!Spec

\* differ.go:116-168: no request whose space fits the disk at all stays for ever,
\* waiting for that or for a slot: it is served or refused in the end, however
\* the permits of the others interleave with its own and whether or not others
\* ask for more than there is.
AdmissibleServed ==
    \A r \in Req : DiskNeed[r] <= DiskFree => ~<>[](pc[r] \notin {"new", "done"})

\* differ.go:116,127,165: and no request stays whose client has left, whatever
\* it waits for.
GoneUnwound == \A r \in Req : ~<>[](gone[r] /\ pc[r] # "done")
=============================================================================
