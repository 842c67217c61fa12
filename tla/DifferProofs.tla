----------------------------- MODULE DifferProofs -----------------------------
(***************************************************************************)
(* The diff server is safe for every set of requests, every nar sizes and   *)
(* every number of CPUs: its permits are kept, an Ok trailer follows a      *)
(* delta, and the files, but for those a filter's failure loses, overrun    *)
(* the disk by no more than nars overrun what was announced.  And it        *)
(* implements DiffService: clients get what they are promised.              *)
(***************************************************************************)
EXTENDS Differ, FiniteSetTheorems, SequenceTheorems, TLAPS

DiskInv ==
    /\ Disk!TypeOK(disk) /\ Disk!Sound(disk)
    /\ \A r \in Req : r \in disk.held => pc[r] \notin {"new", "done"}
    /\ \A r \in Req : pc[r] \in DiskPC => r \in disk.held
    /\ \A r \in Disk!Elems(disk.queue) : pc[r] = "disk"

DeltaInv ==
    /\ Delta!TypeOK(delta) /\ Delta!Sound(delta)
    /\ \A r \in Req : r \in delta.held => pc[r] \in {"delta"} \cup DeltaPC
    /\ \A r \in Req : pc[r] \in DeltaPC => r \in delta.held
    /\ \A r \in Delta!Elems(delta.queue) : pc[r] = "delta"

SlotInv ==
    /\ Dl!TypeOK(dl) /\ Dl!Sound(dl)
    /\ \A t \in Task : t \in dl.held => task[t] \notin {"off", "start", "end"}
    /\ \A t \in Task : task[t] \in SlotPC => t \in dl.held
    /\ \A t \in Dl!Elems(dl.queue) : task[t] = "slot"

Ended ==
    {<<>>, <<"header", "body">>, <<"header", "junk">>,
     <<"header", "body", "ok">>, <<"header", "junk", "failed">>}
Replies == Ended \cup {<<"header">>}

StateTypes ==
    /\ pc \in [Req -> PC]
    /\ task \in [Task -> TaskPC]
    /\ path \in [Task -> BOOLEAN]
    /\ file \in [Task -> {"none", "partial", "whole", "lost"}]
    /\ gerr \in [Req -> {"nil", "notfound", "other"}]
    /\ gone \in [Req -> BOOLEAN]
    /\ parts \in [Req -> Replies]
    /\ ret \in [Req -> Status]

\* Downloads run only while the handler waits for them, and a name that was
\* returned is that of a whole file until the handler removes it.
TaskInv ==
    \A t \in Task :
        /\ pc[t[1]] \in {"new", "disk"} => task[t] = "off"
        /\ pc[t[1]] \in PC \ {"new", "disk", "wait", "done"} => task[t] = "end"
        /\ pc[t[1]] = "done" => task[t] \in {"off", "end"}
        /\ pc[t[1]] = "wait" => task[t] # "off"
        /\ path[t] => task[t] = "end"
        /\ path[t] /\ pc[t[1]] \notin {"release", "done"} => file[t] = "whole"

\* What has been written, from where the handler is.
PartsInv ==
    \A r \in Req :
        /\ pc[r] \in {"new", "disk", "wait", "delta"} => parts[r] = <<>>
        /\ pc[r] = "create" => parts[r] = <<"header">>
        /\ pc[r] = "ok" => parts[r] = <<"header", "body">>
        /\ pc[r] = "failed" => parts[r] = <<"header", "junk">>
        /\ pc[r] \in {"close", "cleanup", "release", "done"} => parts[r] \in Ended

\* A file that is not lost is being written, or has been returned and waits for
\* the handler to remove it.
FileInv ==
    \A t \in Task : file[t] \notin {"none", "lost"} =>
        /\ task[t] \in {"body", "stuck"} \/ (task[t] = "end" /\ path[t])
        /\ pc[t[1]] \in DiskPC \ {"release"}

IInv == StateTypes /\ DiskInv /\ DeltaInv /\ SlotInv /\ TaskInv /\ PartsInv /\ FileInv

\* What the library needs to know of the three semaphores' constants.
LEMMA SemaphoreParams == Disk!Params /\ Dl!Params /\ Delta!Params
<1>1. IsFiniteSet({"req", "base"})
  <2>1. IsFiniteSet({"req"} \cup {"base"})
    BY FS_Singleton, FS_AddElement
  <2>2. {"req", "base"} = {"req"} \cup {"base"}
    OBVIOUS
  <2> QED
    BY <2>1, <2>2
<1>2. IsFiniteSet(Task)
  BY <1>1, DifferAssumption, FS_Product DEF Task
<1>3. Disk!Params
  <2>1. DiskNeed \in [Req -> Nat]
    BY DifferAssumption DEF DiskNeed
  <2> QED
    BY <2>1, DifferAssumption DEF Disk!Params, Disk!IsFiniteSet, IsFiniteSet
<1>4. Dl!Params
  BY <1>2, DifferAssumption DEF Dl!Params, Dl!IsFiniteSet, IsFiniteSet
<1>5. Delta!Params
  BY DifferAssumption DEF Delta!Params, Delta!IsFiniteSet, IsFiniteSet
<1> QED
  BY <1>3, <1>4, <1>5

\* The parts of a reply, one after the other.
LEMMA ReplySteps ==
    /\ \A x : Append(<<>>, x) = <<x>>
    /\ \A x, y : Append(<<x>>, y) = <<x, y>>
    /\ \A x, y, z : Append(<<x, y>>, z) = <<x, y, z>>
<1>1. ASSUME NEW x PROVE Append(<<>>, x) = <<x>>
  OBVIOUS
<1>2. ASSUME NEW x, NEW y PROVE Append(<<x>>, y) = <<x, y>>
  <2> DEFINE s == Append(<<x>>, y)
             u == <<x, y>>
  <2>1. <<x>> \in Seq({x, y}) /\ Len(<<x>>) = 1
    OBVIOUS
  <2>2. u \in Seq({x, y}) /\ Len(u) = 2 /\ u[1] = x /\ u[2] = y
    OBVIOUS
  <2>3. s \in Seq({x, y}) /\ Len(s) = 2 /\ s[1] = x /\ s[2] = y
    BY <2>1, AppendProperties
  <2> HIDE DEF s, u
  <2>4. \A i \in 1..2 : s[i] = u[i]
    BY <2>2, <2>3
  <2> QED
    BY <2>2, <2>3, <2>4, SeqEqual DEF s, u
<1>3. ASSUME NEW x, NEW y, NEW z PROVE Append(<<x, y>>, z) = <<x, y, z>>
  <2> DEFINE s == Append(<<x, y>>, z)
             u == <<x, y, z>>
  <2>1. <<x, y>> \in Seq({x, y, z}) /\ Len(<<x, y>>) = 2
    OBVIOUS
  <2>2. u \in Seq({x, y, z}) /\ Len(u) = 3 /\ u[1] = x /\ u[2] = y /\ u[3] = z
    OBVIOUS
  <2>3. s \in Seq({x, y, z}) /\ Len(s) = 3 /\ s[1] = x /\ s[2] = y /\ s[3] = z
    BY <2>1, AppendProperties
  <2> HIDE DEF s, u
  <2>4. \A i \in 1..3 : s[i] = u[i]
    BY <2>2, <2>3
  <2> QED
    BY <2>2, <2>3, <2>4, SeqEqual DEF s, u
<1> QED
  BY <1>1, <1>2, <1>3

LEMMA InitIInv == Init => IInv
<1> SUFFICES ASSUME Init PROVE IInv
  OBVIOUS
<1>1. DiskInv
  BY SemaphoreParams, Disk!NewSound DEF Init, DiskInv, DiskPC
<1>2. DeltaInv
  BY SemaphoreParams, Delta!NewSound DEF Init, DeltaInv, DeltaPC
<1>3. SlotInv
  BY SemaphoreParams, Dl!NewSound DEF Init, SlotInv, SlotPC
<1> QED
  BY <1>1, <1>2, <1>3 DEF Init, IInv, StateTypes, TaskInv, PartsInv, FileInv, PC, TaskPC, Status, Task, Replies, Ended

LEMMA RefuseStep == ASSUME IInv, NEW r \in Req, Refuse(r) PROVE IInv'
<1> USE DEF IInv, Refuse
<1>1. StateTypes'
  BY ReplySteps, DifferAssumption DEF StateTypes, PartsInv, PC, TaskPC, Status, GroupError, Task, Replies, Ended
<1>2. DiskInv'
  BY Disk!ElemsClients DEF DiskInv, DiskPC, PC, StateTypes
<1>3. DeltaInv'
  BY Delta!ElemsClients DEF DeltaInv, DeltaPC, PC, StateTypes
<1>4. SlotInv'
  BY Dl!ElemsClients DEF SlotInv, SlotPC, TaskInv, StateTypes, Task, PC
<1>5. TaskInv'
  BY DEF TaskInv, StateTypes, PC, Task, Tasks
<1>6. PartsInv'
  BY ReplySteps DEF PartsInv, StateTypes, PC, Replies, Ended
<1>7. FileInv'
  BY DEF FileInv, TaskInv, StateTypes, DiskPC, PC, Task
<1> QED
  BY <1>1, <1>2, <1>3, <1>4, <1>5, <1>6, <1>7

LEMMA AcquireDiskStep == ASSUME IInv, NEW r \in Req, AcquireDisk(r) PROVE IInv'
<1> USE DEF IInv, AcquireDisk
<1>1. StateTypes'
  BY ReplySteps DEF StateTypes, PartsInv, PC, TaskPC, Status, GroupError, Task, Replies, Ended
<1>2. DiskInv'
  <2>1. Disk!Elems(disk.queue) \subseteq Req /\ \A z \in Disk!Elems(disk.queue) : z \notin disk.held
    BY Disk!ElemsClients DEF DiskInv
  <2>2. r \notin disk.held /\ r \notin Disk!Elems(disk.queue)
    BY DEF DiskInv, DiskPC, PC, StateTypes
  <2>3. /\ Disk!TypeOK(disk') /\ Disk!Sound(disk')
        /\ disk.held \subseteq disk'.held /\ disk'.held \subseteq disk.held \cup {r}
        /\ Disk!Elems(disk'.queue) \subseteq Disk!Elems(disk.queue) \cup {r}
    BY <2>2, SemaphoreParams, Disk!AcquireSound DEF DiskInv
  <2> QED
    BY <2>1, <2>2, <2>3 DEF DiskInv, DiskPC, PC, StateTypes
<1>3. DeltaInv'
  BY Delta!ElemsClients DEF DeltaInv, DeltaPC, PC, StateTypes
<1>4. SlotInv'
  BY Dl!ElemsClients DEF SlotInv, SlotPC, TaskInv, StateTypes, Task, PC
<1>5. TaskInv'
  BY DEF TaskInv, StateTypes, PC, Task, Tasks
<1>6. PartsInv'
  BY ReplySteps DEF PartsInv, StateTypes, PC, Replies, Ended
<1>7. FileInv'
  BY DEF FileInv, TaskInv, StateTypes, DiskPC, PC, Task
<1> QED
  BY <1>1, <1>2, <1>3, <1>4, <1>5, <1>6, <1>7

LEMMA DiskCanceledStep == ASSUME IInv, NEW r \in Req, DiskCanceled(r) PROVE IInv'
<1> USE DEF IInv, DiskCanceled
<1>1. StateTypes'
  BY ReplySteps DEF StateTypes, PartsInv, PC, TaskPC, Status, GroupError, Task, Replies, Ended
<1>2. DiskInv'
  <2>1. Disk!Elems(disk.queue) \subseteq Req /\ \A z \in Disk!Elems(disk.queue) : z \notin disk.held
    BY Disk!ElemsClients DEF DiskInv
  <2>2. r \notin disk.held
    OBVIOUS
  <2>3. /\ Disk!TypeOK(disk') /\ Disk!Sound(disk')
        /\ disk.held \subseteq disk'.held /\ r \notin disk'.held
        /\ disk'.held \subseteq disk.held \cup Disk!Elems(disk.queue)
        /\ Disk!Elems(disk'.queue) \subseteq Disk!Elems(disk.queue) /\ r \notin Disk!Elems(disk'.queue)
    BY <2>2, SemaphoreParams, Disk!AbandonSound DEF DiskInv
  <2> QED
    BY <2>1, <2>2, <2>3 DEF DiskInv, DiskPC, PC, StateTypes
<1>3. DeltaInv'
  BY Delta!ElemsClients DEF DeltaInv, DeltaPC, PC, StateTypes
<1>4. SlotInv'
  BY Dl!ElemsClients DEF SlotInv, SlotPC, TaskInv, StateTypes, Task, PC
<1>5. TaskInv'
  BY DEF TaskInv, StateTypes, PC, Task, Tasks
<1>6. PartsInv'
  BY ReplySteps DEF PartsInv, StateTypes, PC, Replies, Ended
<1>7. FileInv'
  BY DEF FileInv, TaskInv, StateTypes, DiskPC, PC, Task
<1> QED
  BY <1>1, <1>2, <1>3, <1>4, <1>5, <1>6, <1>7

LEMMA StartDownloadsStep == ASSUME IInv, NEW r \in Req, StartDownloads(r) PROVE IInv'
<1> USE DEF IInv, StartDownloads
<1>1. StateTypes'
  BY ReplySteps DEF StateTypes, PartsInv, PC, TaskPC, Status, GroupError, Task, Replies, Ended
<1>2. DiskInv'
  BY Disk!ElemsClients DEF DiskInv, DiskPC, PC, StateTypes
<1>3. DeltaInv'
  BY Delta!ElemsClients DEF DeltaInv, DeltaPC, PC, StateTypes
<1>4. SlotInv'
  BY Dl!ElemsClients DEF SlotInv, SlotPC, TaskInv, StateTypes, Task, PC
<1>5. TaskInv'
  BY DEF TaskInv, StateTypes, PC, Task, Tasks
<1>6. PartsInv'
  BY ReplySteps DEF PartsInv, StateTypes, PC, Replies, Ended
<1>7. FileInv'
  BY DEF FileInv, TaskInv, StateTypes, DiskPC, PC, Task
<1> QED
  BY <1>1, <1>2, <1>3, <1>4, <1>5, <1>6, <1>7

LEMMA DownloadsFailedStep == ASSUME IInv, NEW r \in Req, DownloadsFailed(r) PROVE IInv'
<1> USE DEF IInv, DownloadsFailed
<1>1. StateTypes'
  BY ReplySteps DEF StateTypes, PartsInv, PC, TaskPC, Status, GroupError, Task, Replies, Ended
<1>2. DiskInv'
  BY Disk!ElemsClients DEF DiskInv, DiskPC, PC, StateTypes
<1>3. DeltaInv'
  BY Delta!ElemsClients DEF DeltaInv, DeltaPC, PC, StateTypes
<1>4. SlotInv'
  BY Dl!ElemsClients DEF SlotInv, SlotPC, TaskInv, StateTypes, Task, PC
<1>5. TaskInv'
  BY DEF TaskInv, StateTypes, PC, Task, Tasks
<1>6. PartsInv'
  BY ReplySteps DEF PartsInv, StateTypes, PC, Replies, Ended
<1>7. FileInv'
  BY DEF FileInv, TaskInv, StateTypes, DiskPC, PC, Task
<1> QED
  BY <1>1, <1>2, <1>3, <1>4, <1>5, <1>6, <1>7

LEMMA AcquireDeltaStep == ASSUME IInv, NEW r \in Req, AcquireDelta(r) PROVE IInv'
<1> USE DEF IInv, AcquireDelta
<1>1. StateTypes'
  BY ReplySteps DEF StateTypes, PartsInv, PC, TaskPC, Status, GroupError, Task, Replies, Ended
<1>2. DiskInv'
  BY Disk!ElemsClients DEF DiskInv, DiskPC, PC, StateTypes
<1>3. DeltaInv'
  <2>1. Delta!Elems(delta.queue) \subseteq Req /\ \A z \in Delta!Elems(delta.queue) : z \notin delta.held
    BY Delta!ElemsClients DEF DeltaInv
  <2>2. r \notin delta.held /\ r \notin Delta!Elems(delta.queue)
    BY DEF DeltaInv, DeltaPC, PC, StateTypes
  <2>3. /\ Delta!TypeOK(delta') /\ Delta!Sound(delta')
        /\ delta.held \subseteq delta'.held /\ delta'.held \subseteq delta.held \cup {r}
        /\ Delta!Elems(delta'.queue) \subseteq Delta!Elems(delta.queue) \cup {r}
    BY <2>2, SemaphoreParams, Delta!AcquireSound DEF DeltaInv
  <2> QED
    BY <2>1, <2>2, <2>3 DEF DeltaInv, DeltaPC, PC, StateTypes
<1>4. SlotInv'
  BY Dl!ElemsClients DEF SlotInv, SlotPC, TaskInv, StateTypes, Task, PC
<1>5. TaskInv'
  BY DEF TaskInv, StateTypes, PC, Task, Tasks
<1>6. PartsInv'
  BY ReplySteps DEF PartsInv, StateTypes, PC, Replies, Ended
<1>7. FileInv'
  BY DEF FileInv, TaskInv, StateTypes, DiskPC, PC, Task
<1> QED
  BY <1>1, <1>2, <1>3, <1>4, <1>5, <1>6, <1>7

LEMMA DeltaCanceledStep == ASSUME IInv, NEW r \in Req, DeltaCanceled(r) PROVE IInv'
<1> USE DEF IInv, DeltaCanceled
<1>1. StateTypes'
  BY ReplySteps DEF StateTypes, PartsInv, PC, TaskPC, Status, GroupError, Task, Replies, Ended
<1>2. DiskInv'
  BY Disk!ElemsClients DEF DiskInv, DiskPC, PC, StateTypes
<1>3. DeltaInv'
  <2>1. Delta!Elems(delta.queue) \subseteq Req /\ \A z \in Delta!Elems(delta.queue) : z \notin delta.held
    BY Delta!ElemsClients DEF DeltaInv
  <2>2. r \notin delta.held
    OBVIOUS
  <2>3. /\ Delta!TypeOK(delta') /\ Delta!Sound(delta')
        /\ delta.held \subseteq delta'.held /\ r \notin delta'.held
        /\ delta'.held \subseteq delta.held \cup Delta!Elems(delta.queue)
        /\ Delta!Elems(delta'.queue) \subseteq Delta!Elems(delta.queue) /\ r \notin Delta!Elems(delta'.queue)
    BY <2>2, SemaphoreParams, Delta!AbandonSound DEF DeltaInv
  <2> QED
    BY <2>1, <2>2, <2>3 DEF DeltaInv, DeltaPC, PC, StateTypes
<1>4. SlotInv'
  BY Dl!ElemsClients DEF SlotInv, SlotPC, TaskInv, StateTypes, Task, PC
<1>5. TaskInv'
  BY DEF TaskInv, StateTypes, PC, Task, Tasks
<1>6. PartsInv'
  BY ReplySteps DEF PartsInv, StateTypes, PC, Replies, Ended
<1>7. FileInv'
  BY DEF FileInv, TaskInv, StateTypes, DiskPC, PC, Task
<1> QED
  BY <1>1, <1>2, <1>3, <1>4, <1>5, <1>6, <1>7

LEMMA WriteHeaderStep == ASSUME IInv, NEW r \in Req, WriteHeader(r) PROVE IInv'
<1> USE DEF IInv, WriteHeader
\* Either the header is written or nothing is.
<1>0. /\ r \in Req /\ parts[r] = <<>>
      /\ parts' = parts \/ parts' = [parts EXCEPT ![r] = <<"header">>]
      /\ pc' \in {[pc EXCEPT ![r] = "create"], [pc EXCEPT ![r] = "close"]}
      /\ pc'[r] = "create" => parts'[r] = <<"header">>
      /\ pc'[r] = "close" => parts' = parts
  BY ReplySteps DEF PartsInv, StateTypes
<1>1. StateTypes'
  <2>1. pc' \in [Req -> PC]
    BY <1>0 DEF StateTypes, PC
  <2>2. <<"header">> \in Replies
    BY DEF Replies
  <2>3. parts' \in [Req -> Replies]
    BY <1>0, <2>2 DEF StateTypes
  <2>4. ret' \in [Req -> Status]
    BY DEF StateTypes, Status
  <2> QED
    BY <2>1, <2>3, <2>4 DEF StateTypes
<1>2. DiskInv'
  BY Disk!ElemsClients DEF DiskInv, DiskPC, PC, StateTypes
<1>3. DeltaInv'
  BY Delta!ElemsClients DEF DeltaInv, DeltaPC, PC, StateTypes
<1>4. SlotInv'
  BY Dl!ElemsClients DEF SlotInv, SlotPC, TaskInv, StateTypes, Task, PC
<1>5. TaskInv'
  BY DEF TaskInv, StateTypes, PC, Task, Tasks
<1>6. PartsInv'
  BY <1>0 DEF PartsInv, StateTypes, Ended
<1>7. FileInv'
  BY DEF FileInv, TaskInv, StateTypes, DiskPC, PC, Task
<1> QED
  BY <1>1, <1>2, <1>3, <1>4, <1>5, <1>6, <1>7

LEMMA CreateStep == ASSUME IInv, NEW r \in Req, Create(r) PROVE IInv'
<1> USE DEF IInv, Create
\* Only files that are whole have names, so that the body is theirs.
<1>0. /\ \/ /\ pc' = [pc EXCEPT ![r] = "ok"]
            /\ parts' = [parts EXCEPT ![r] = <<"header", "body">>]
         \/ /\ pc' = [pc EXCEPT ![r] = "failed"]
            /\ parts' = [parts EXCEPT ![r] = <<"header", "junk">>]
  <2>1. parts[r] = <<"header">>
    BY DEF PartsInv
  <2>2. Append(parts[r], "body") = <<"header", "body">> /\ Append(parts[r], "junk") = <<"header", "junk">>
    BY <2>1, ReplySteps
  <2>3. (\A t \in Tasks(r) : path[t]) => \A t \in Tasks(r) : file[t] = "whole"
    BY DEF TaskInv, Tasks, Task
  <2> QED
    BY <2>2, <2>3
<1>1. StateTypes'
  <2>1. pc' \in [Req -> PC]
    BY <1>0 DEF StateTypes, PC
  <2>2. <<"header", "body">> \in Replies /\ <<"header", "junk">> \in Replies
    BY DEF Replies, Ended
  <2>3. parts' \in [Req -> Replies]
    BY <1>0, <2>2 DEF StateTypes
  <2> QED
    BY <2>1, <2>3 DEF StateTypes
<1>2. DiskInv'
  BY Disk!ElemsClients DEF DiskInv, DiskPC, PC, StateTypes
<1>3. DeltaInv'
  BY Delta!ElemsClients DEF DeltaInv, DeltaPC, PC, StateTypes
<1>4. SlotInv'
  BY Dl!ElemsClients DEF SlotInv, SlotPC, TaskInv, StateTypes, Task, PC
<1>5. TaskInv'
  BY DEF TaskInv, StateTypes, PC, Task, Tasks
<1>6. PartsInv'
  BY <1>0 DEF PartsInv, StateTypes, Ended
<1>7. FileInv'
  BY DEF FileInv, TaskInv, StateTypes, DiskPC, PC, Task
<1> QED
  BY <1>1, <1>2, <1>3, <1>4, <1>5, <1>6, <1>7

LEMMA WriteTrailerStep == ASSUME IInv, NEW r \in Req, WriteTrailer(r) PROVE IInv'
<1> USE DEF IInv, WriteTrailer
\* The trailer that is written is the one Create asked for.
<1>0. /\ pc' = [pc EXCEPT ![r] = "close"]
      /\ \/ parts' = parts /\ parts[r] \in Ended
         \/ \E p \in Ended : parts' = [parts EXCEPT ![r] = p]
      /\ ret' \in {ret, [ret EXCEPT ![r] = 500]}
  <2>1. CASE pc[r] = "ok"
    <3>1. parts[r] = <<"header", "body">>
      BY <2>1 DEF PartsInv
    <3>2. Append(parts[r], "ok") = <<"header", "body", "ok">>
      BY <3>1, ReplySteps
    <3>3. /\ <<"header", "body">> \in Ended /\ <<"header", "body", "ok">> \in Ended
      BY DEF Ended
    <3> QED
      BY <2>1, <3>1, <3>2, <3>3
  <2>2. CASE pc[r] = "failed"
    <3>1. parts[r] = <<"header", "junk">>
      BY <2>2 DEF PartsInv
    <3>2. Append(parts[r], "failed") = <<"header", "junk", "failed">>
      BY <3>1, ReplySteps
    <3>3. /\ <<"header", "junk">> \in Ended /\ <<"header", "junk", "failed">> \in Ended
      BY DEF Ended
    <3> QED
      BY <2>2, <3>1, <3>2, <3>3
  <2> QED
    BY <2>1, <2>2
<1>1. StateTypes'
  <2>1. parts' \in [Req -> Replies]
    BY <1>0 DEF StateTypes, Replies
  <2>2. pc' \in [Req -> PC] /\ ret' \in [Req -> Status]
    BY <1>0 DEF StateTypes, PC, Status
  <2> QED
    BY <2>1, <2>2 DEF StateTypes
<1>2. DiskInv'
  BY Disk!ElemsClients DEF DiskInv, DiskPC, PC, StateTypes
<1>3. DeltaInv'
  BY Delta!ElemsClients DEF DeltaInv, DeltaPC, PC, StateTypes
<1>4. SlotInv'
  BY Dl!ElemsClients DEF SlotInv, SlotPC, TaskInv, StateTypes, Task, PC
<1>5. TaskInv'
  BY DEF TaskInv, StateTypes, PC, Task, Tasks
<1>6. PartsInv'
  BY <1>0 DEF PartsInv, StateTypes
<1>7. FileInv'
  BY DEF FileInv, TaskInv, StateTypes, DiskPC, PC, Task
<1> QED
  BY <1>1, <1>2, <1>3, <1>4, <1>5, <1>6, <1>7

LEMMA CloseStep == ASSUME IInv, NEW r \in Req, Close(r) PROVE IInv'
<1> USE DEF IInv, Close
<1>1. StateTypes'
  BY ReplySteps DEF StateTypes, PartsInv, PC, TaskPC, Status, GroupError, Task, Replies, Ended
<1>2. DiskInv'
  BY Disk!ElemsClients DEF DiskInv, DiskPC, PC, StateTypes
<1>3. DeltaInv'
  <2>1. Delta!Elems(delta.queue) \subseteq Req /\ \A z \in Delta!Elems(delta.queue) : z \notin delta.held
    BY Delta!ElemsClients DEF DeltaInv
  <2>2. r \in delta.held
    BY DEF DeltaInv, DeltaPC, PC, StateTypes
  <2>3. /\ Delta!TypeOK(delta') /\ Delta!Sound(delta')
        /\ delta.held \ {r} \subseteq delta'.held /\ r \notin delta'.held
        /\ delta'.held \subseteq (delta.held \ {r}) \cup Delta!Elems(delta.queue)
        /\ Delta!Elems(delta'.queue) \subseteq Delta!Elems(delta.queue)
    BY <2>2, SemaphoreParams, Delta!ReleaseSound DEF DeltaInv
  <2> QED
    BY <2>1, <2>2, <2>3 DEF DeltaInv, DeltaPC, PC, StateTypes
<1>4. SlotInv'
  BY Dl!ElemsClients DEF SlotInv, SlotPC, TaskInv, StateTypes, Task, PC
<1>5. TaskInv'
  BY DEF TaskInv, StateTypes, PC, Task, Tasks
<1>6. PartsInv'
  BY ReplySteps DEF PartsInv, StateTypes, PC, Replies, Ended
<1>7. FileInv'
  BY DEF FileInv, TaskInv, StateTypes, DiskPC, PC, Task
<1> QED
  BY <1>1, <1>2, <1>3, <1>4, <1>5, <1>6, <1>7

LEMMA RemoveFilesStep == ASSUME IInv, NEW r \in Req, RemoveFiles(r) PROVE IInv'
<1> USE DEF IInv, RemoveFiles
<1>1. StateTypes'
  BY ReplySteps DEF StateTypes, PartsInv, PC, TaskPC, Status, GroupError, Task, Replies, Ended
<1>2. DiskInv'
  BY Disk!ElemsClients DEF DiskInv, DiskPC, PC, StateTypes
<1>3. DeltaInv'
  BY Delta!ElemsClients DEF DeltaInv, DeltaPC, PC, StateTypes
<1>4. SlotInv'
  BY Dl!ElemsClients DEF SlotInv, SlotPC, TaskInv, StateTypes, Task, PC
<1>5. TaskInv'
  BY DEF TaskInv, StateTypes, PC, Task, Tasks
<1>6. PartsInv'
  BY ReplySteps DEF PartsInv, StateTypes, PC, Replies, Ended
<1>7. FileInv'
  BY DEF FileInv, TaskInv, StateTypes, DiskPC, PC, Task
<1> QED
  BY <1>1, <1>2, <1>3, <1>4, <1>5, <1>6, <1>7

LEMMA ReleaseDiskStep == ASSUME IInv, NEW r \in Req, ReleaseDisk(r) PROVE IInv'
<1> USE DEF IInv, ReleaseDisk
<1>1. StateTypes'
  BY ReplySteps DEF StateTypes, PartsInv, PC, TaskPC, Status, GroupError, Task, Replies, Ended
<1>2. DiskInv'
  <2>1. Disk!Elems(disk.queue) \subseteq Req /\ \A z \in Disk!Elems(disk.queue) : z \notin disk.held
    BY Disk!ElemsClients DEF DiskInv
  <2>2. r \in disk.held
    BY DEF DiskInv, DiskPC, PC, StateTypes
  <2>3. /\ Disk!TypeOK(disk') /\ Disk!Sound(disk')
        /\ disk.held \ {r} \subseteq disk'.held /\ r \notin disk'.held
        /\ disk'.held \subseteq (disk.held \ {r}) \cup Disk!Elems(disk.queue)
        /\ Disk!Elems(disk'.queue) \subseteq Disk!Elems(disk.queue)
    BY <2>2, SemaphoreParams, Disk!ReleaseSound DEF DiskInv
  <2> QED
    BY <2>1, <2>2, <2>3 DEF DiskInv, DiskPC, PC, StateTypes
<1>3. DeltaInv'
  BY Delta!ElemsClients DEF DeltaInv, DeltaPC, PC, StateTypes
<1>4. SlotInv'
  BY Dl!ElemsClients DEF SlotInv, SlotPC, TaskInv, StateTypes, Task, PC
<1>5. TaskInv'
  BY DEF TaskInv, StateTypes, PC, Task, Tasks
<1>6. PartsInv'
  BY ReplySteps DEF PartsInv, StateTypes, PC, Replies, Ended
<1>7. FileInv'
  BY DEF FileInv, TaskInv, StateTypes, DiskPC, PC, Task
<1> QED
  BY <1>1, <1>2, <1>3, <1>4, <1>5, <1>6, <1>7

LEMMA AcquireSlotStep == ASSUME IInv, NEW t \in Task, AcquireSlot(t) PROVE IInv'
<1> USE DEF IInv, AcquireSlot
<1>1. StateTypes'
  BY ReplySteps DEF StateTypes, PartsInv, PC, TaskPC, Status, GroupError, Task, Replies, Ended
<1>2. DiskInv'
  BY Disk!ElemsClients DEF DiskInv, DiskPC, PC, StateTypes
<1>3. DeltaInv'
  BY Delta!ElemsClients DEF DeltaInv, DeltaPC, PC, StateTypes
<1>4. SlotInv'
  <2>1. Dl!Elems(dl.queue) \subseteq Task /\ \A z \in Dl!Elems(dl.queue) : z \notin dl.held
    BY Dl!ElemsClients DEF SlotInv
  <2>2. t \notin dl.held /\ t \notin Dl!Elems(dl.queue)
    BY DEF SlotInv, SlotPC, StateTypes
  <2>3. /\ Dl!TypeOK(dl') /\ Dl!Sound(dl')
        /\ dl.held \subseteq dl'.held /\ dl'.held \subseteq dl.held \cup {t}
        /\ Dl!Elems(dl'.queue) \subseteq Dl!Elems(dl.queue) \cup {t}
    BY <2>2, SemaphoreParams, Dl!AcquireSound DEF SlotInv
  <2> QED
    BY <2>1, <2>2, <2>3 DEF SlotInv, SlotPC, StateTypes
<1>5. TaskInv'
  BY DEF TaskInv, StateTypes, PC, Task, Tasks
<1>6. PartsInv'
  BY ReplySteps DEF PartsInv, StateTypes, PC, Replies, Ended
<1>7. FileInv'
  BY DEF FileInv, TaskInv, StateTypes, DiskPC, PC, Task
<1> QED
  BY <1>1, <1>2, <1>3, <1>4, <1>5, <1>6, <1>7

LEMMA SlotCanceledStep == ASSUME IInv, NEW t \in Task, SlotCanceled(t) PROVE IInv'
<1> USE DEF IInv, SlotCanceled
<1>1. StateTypes'
  BY ReplySteps DEF StateTypes, PartsInv, PC, TaskPC, Status, GroupError, Task, Replies, Ended
<1>2. DiskInv'
  BY Disk!ElemsClients DEF DiskInv, DiskPC, PC, StateTypes
<1>3. DeltaInv'
  BY Delta!ElemsClients DEF DeltaInv, DeltaPC, PC, StateTypes
<1>4. SlotInv'
  <2>1. Dl!Elems(dl.queue) \subseteq Task /\ \A z \in Dl!Elems(dl.queue) : z \notin dl.held
    BY Dl!ElemsClients DEF SlotInv
  <2>2. t \notin dl.held
    OBVIOUS
  <2>3. /\ Dl!TypeOK(dl') /\ Dl!Sound(dl')
        /\ dl.held \subseteq dl'.held /\ t \notin dl'.held
        /\ dl'.held \subseteq dl.held \cup Dl!Elems(dl.queue)
        /\ Dl!Elems(dl'.queue) \subseteq Dl!Elems(dl.queue) /\ t \notin Dl!Elems(dl'.queue)
    BY <2>2, SemaphoreParams, Dl!AbandonSound DEF SlotInv
  <2> QED
    BY <2>1, <2>2, <2>3 DEF SlotInv, SlotPC, StateTypes
<1>5. TaskInv'
  BY DEF TaskInv, StateTypes, PC, Task, Tasks
<1>6. PartsInv'
  BY ReplySteps DEF PartsInv, StateTypes, PC, Replies, Ended
<1>7. FileInv'
  BY DEF FileInv, TaskInv, StateTypes, DiskPC, PC, Task
<1> QED
  BY <1>1, <1>2, <1>3, <1>4, <1>5, <1>6, <1>7

LEMMA HasSlotStep == ASSUME IInv, NEW t \in Task, HasSlot(t) PROVE IInv'
<1> USE DEF IInv, HasSlot
<1>1. StateTypes'
  BY ReplySteps DEF StateTypes, PartsInv, PC, TaskPC, Status, GroupError, Task, Replies, Ended
<1>2. DiskInv'
  BY Disk!ElemsClients DEF DiskInv, DiskPC, PC, StateTypes
<1>3. DeltaInv'
  BY Delta!ElemsClients DEF DeltaInv, DeltaPC, PC, StateTypes
<1>4. SlotInv'
  BY Dl!ElemsClients DEF SlotInv, SlotPC, TaskInv, StateTypes, Task, PC
<1>5. TaskInv'
  BY DEF TaskInv, StateTypes, PC, Task, Tasks
<1>6. PartsInv'
  BY ReplySteps DEF PartsInv, StateTypes, PC, Replies, Ended
<1>7. FileInv'
  BY DEF FileInv, TaskInv, StateTypes, DiskPC, PC, Task
<1> QED
  BY <1>1, <1>2, <1>3, <1>4, <1>5, <1>6, <1>7

LEMMA DisconnectStep == ASSUME IInv, NEW r \in Req, Disconnect(r) PROVE IInv'
<1> USE DEF IInv, Disconnect
<1>1. StateTypes'
  BY ReplySteps DEF StateTypes, PartsInv, PC, TaskPC, Status, GroupError, Task, Replies, Ended
<1>2. DiskInv'
  BY Disk!ElemsClients DEF DiskInv, DiskPC, PC, StateTypes
<1>3. DeltaInv'
  BY Delta!ElemsClients DEF DeltaInv, DeltaPC, PC, StateTypes
<1>4. SlotInv'
  BY Dl!ElemsClients DEF SlotInv, SlotPC, TaskInv, StateTypes, Task, PC
<1>5. TaskInv'
  BY DEF TaskInv, StateTypes, PC, Task, Tasks
<1>6. PartsInv'
  BY ReplySteps DEF PartsInv, StateTypes, PC, Replies, Ended
<1>7. FileInv'
  BY DEF FileInv, TaskInv, StateTypes, DiskPC, PC, Task
<1> QED
  BY <1>1, <1>2, <1>3, <1>4, <1>5, <1>6, <1>7

LEMMA AgainStep == ASSUME IInv, NEW r \in Req, Again(r) PROVE IInv'
<1> USE DEF IInv, Again
<1>1. StateTypes'
  <2>1. path' \in [Task -> BOOLEAN]
    BY Zenon DEF StateTypes
  <2>2. task' \in [Task -> TaskPC]
    BY DEF StateTypes, TaskPC
  <2> QED
    BY <2>1, <2>2 DEF StateTypes, PC, Status, Replies, Ended
<1>2. DiskInv'
  BY Disk!ElemsClients DEF DiskInv, DiskPC, PC, StateTypes
<1>3. DeltaInv'
  BY Delta!ElemsClients DEF DeltaInv, DeltaPC, PC, StateTypes
<1>4. SlotInv'
  BY Dl!ElemsClients DEF SlotInv, SlotPC, TaskInv, StateTypes, Task, PC
<1>5. TaskInv'
  BY DEF TaskInv, StateTypes, PC, Task, Tasks
<1>6. PartsInv'
  BY ReplySteps DEF PartsInv, StateTypes, PC, Replies, Ended
<1>7. FileInv'
  BY DEF FileInv, TaskInv, StateTypes, DiskPC, PC, Task
<1> QED
  BY <1>1, <1>2, <1>3, <1>4, <1>5, <1>6, <1>7


\* A download that ends gives its slot back and goes on holding nothing.
LEMMA EndTaskSlot ==
    ASSUME IInv, NEW t \in Task, t \in dl.held, dl' = Dl!Release(dl, t),
           task' = [task EXCEPT ![t] = "end"]
    PROVE  SlotInv'
<1> USE DEF IInv
<1>1. Dl!Elems(dl.queue) \subseteq Task /\ \A z \in Dl!Elems(dl.queue) : z \notin dl.held
  BY Dl!ElemsClients DEF SlotInv
<1>2. /\ Dl!TypeOK(dl') /\ Dl!Sound(dl')
      /\ dl.held \ {t} \subseteq dl'.held /\ t \notin dl'.held
      /\ dl'.held \subseteq (dl.held \ {t}) \cup Dl!Elems(dl.queue)
      /\ Dl!Elems(dl'.queue) \subseteq Dl!Elems(dl.queue)
  BY SemaphoreParams, Dl!ReleaseSound DEF SlotInv
<1> QED
  BY <1>1, <1>2 DEF SlotInv, SlotPC, StateTypes

\* What the download's own steps have in common: they leave the handlers alone.
LEMMA DownloadKeeps ==
    ASSUME IInv, UNCHANGED <<pc, gone, parts, ret, disk, delta>>
    PROVE  DiskInv' /\ DeltaInv' /\ PartsInv'
  BY DEF IInv, DiskInv, DeltaInv, PartsInv

LEMMA GetInfoStep == ASSUME IInv, NEW t \in Task, GetInfo(t) PROVE IInv'
<1> USE DEF IInv, GetInfo
<1>1. StateTypes'
  BY DEF StateTypes, TaskPC, EndTask, GroupError, Task
<1>2. DiskInv' /\ DeltaInv' /\ PartsInv'
  BY DownloadKeeps
<1>3. SlotInv'
  <2>1. CASE task' = [task EXCEPT ![t] = "get"] /\ UNCHANGED <<gerr, dl>>
    BY <2>1, Dl!ElemsClients DEF SlotInv, SlotPC, StateTypes
  <2>2. CASE \E err \in {"notfound", "other"} : EndTask(t, err)
    <3>1. t \in dl.held
      BY DEF SlotInv, SlotPC
    <3> QED
      BY <2>2, <3>1, EndTaskSlot DEF EndTask
  <2> QED
    BY <2>1, <2>2
<1>4. TaskInv'
  BY DEF TaskInv, StateTypes, EndTask, PC, Task
<1>5. FileInv'
  BY DEF FileInv, TaskInv, StateTypes, EndTask
<1> QED
  BY <1>1, <1>2, <1>3, <1>4, <1>5

LEMMA GetNarStep == ASSUME IInv, NEW t \in Task, GetNar(t) PROVE IInv'
<1> USE DEF IInv, GetNar
<1>1. StateTypes'
  <2>1. t[1] \in Req
    BY DEF Task
  <2>2. gerr' \in [Req -> {"nil", "notfound", "other"}]
    BY <2>1 DEF StateTypes, EndTask, GroupError
  <2>3. task' \in [Task -> TaskPC]
    BY DEF StateTypes, TaskPC, EndTask
  <2>4. /\ path' \in [Task -> BOOLEAN]
        /\ file' \in [Task -> {"none", "partial", "whole", "lost"}]
    BY DEF StateTypes, EndTask
  <2> QED
    BY <2>2, <2>3, <2>4 DEF StateTypes
<1>2. DiskInv' /\ DeltaInv' /\ PartsInv'
  BY DownloadKeeps
<1>3. SlotInv'
  <2>1. CASE task' = [task EXCEPT ![t] = "body"] /\ UNCHANGED <<gerr, dl>>
    BY <2>1, Dl!ElemsClients DEF SlotInv, SlotPC, StateTypes
  <2>2. CASE EndTask(t, "other")
    <3>1. t \in dl.held
      BY DEF SlotInv, SlotPC
    <3> QED
      BY <2>2, <3>1, EndTaskSlot DEF EndTask
  <2> QED
    BY <2>1, <2>2
<1>4. TaskInv'
  BY DEF TaskInv, StateTypes, EndTask, PC, Task
\* A handler with a download under way is waiting for it.
<1>5. pc[t[1]] = "wait" /\ ~path[t]
  BY DEF TaskInv, StateTypes, PC, Task
<1>6. FileInv'
  BY <1>5 DEF FileInv, StateTypes, EndTask, DiskPC, PC
<1> QED
  BY <1>1, <1>2, <1>3, <1>4, <1>6

LEMMA FinishNarStep == ASSUME IInv, NEW t \in Task, FinishNar(t) PROVE IInv'
<1> USE DEF IInv, FinishNar
<1> USE DEF NarWhole, NarBroken, FilterSwallowed, FilterStuck
<1>1. StateTypes'
  <2>1. t[1] \in Req
    BY DEF Task
  <2>2. gerr' \in [Req -> {"nil", "notfound", "other"}]
    BY <2>1 DEF StateTypes, EndTask, GroupError
  <2>3. task' \in [Task -> TaskPC]
    BY DEF StateTypes, TaskPC, EndTask
  <2>4. /\ path' \in [Task -> BOOLEAN]
        /\ file' \in [Task -> {"none", "partial", "whole", "lost"}]
    BY DEF StateTypes, EndTask
  <2> QED
    BY <2>2, <2>3, <2>4 DEF StateTypes
<1>2. DiskInv' /\ DeltaInv' /\ PartsInv'
  BY DownloadKeeps
<1>3. SlotInv'
  <2>1. t \in dl.held
    BY DEF SlotInv, SlotPC
  <2>2. CASE FilterStuck(t)
    BY <2>2, Dl!ElemsClients DEF SlotInv, SlotPC, StateTypes
  <2>3. CASE task' = [task EXCEPT ![t] = "end"] /\ dl' = Dl!Release(dl, t)
    BY <2>1, <2>3, EndTaskSlot
  <2> QED
    BY <2>2, <2>3 DEF EndTask
<1>4. pc[t[1]] = "wait" /\ ~path[t]
  BY DEF TaskInv, StateTypes, PC, Task
<1>5. TaskInv'
  BY <1>4 DEF TaskInv, StateTypes, EndTask, PC, Task
<1>6. FileInv'
  BY <1>4 DEF FileInv, StateTypes, EndTask, DiskPC, PC
<1> QED
  BY <1>1, <1>2, <1>3, <1>5, <1>6

LEMMA StutterStep == ASSUME IInv, UNCHANGED vars PROVE IInv'
  BY DEF IInv, vars, StateTypes, DiskInv, DeltaInv, SlotInv, TaskInv, PartsInv, FileInv

\* Every step keeps the inductive invariant.
LEMMA StepIInv == ASSUME IInv, [Next]_vars PROVE IInv'
<1>1. ASSUME NEW r \in Req, Handler(r) PROVE IInv'
  BY <1>1, DiskCanceledStep, StartDownloadsStep, DownloadsFailedStep, AcquireDeltaStep,
     DeltaCanceledStep, WriteHeaderStep, CreateStep, WriteTrailerStep, CloseStep,
     RemoveFilesStep, ReleaseDiskStep, Zenon DEF Handler
<1>2. ASSUME NEW r \in Req, Client(r) PROVE IInv'
  BY <1>2, RefuseStep, AcquireDiskStep, DisconnectStep, AgainStep, Zenon DEF Client
<1>3. ASSUME NEW t \in Task, Download(t) PROVE IInv'
  BY <1>3, AcquireSlotStep, SlotCanceledStep, HasSlotStep, GetInfoStep, GetNarStep,
     FinishNarStep, Zenon DEF Download
<1> QED
  BY <1>1, <1>2, <1>3, StutterStep, Zenon DEF Next

LEMMA SpecIInv == Spec => []IInv
<1>1. IInv /\ [Next]_vars => IInv'
  BY StepIInv
<1> QED
  BY InitIInv, <1>1, PTL DEF Spec

\* Type correctness: every status, part, and place in the code is one of those
\* named, and the semaphores keep their shape.
THEOREM SpecTypeOK == Spec => []TypeOK
<1>1. IInv => TypeOK
  <2> SUFFICES ASSUME IInv PROVE TypeOK
    OBVIOUS
  <2>1. Replies \subseteq Seq(Part)
    BY DEF Replies, Ended, Part
  <2> QED
    BY <2>1 DEF IInv, StateTypes, DiskInv, DeltaInv, SlotInv, TypeOK
<1> QED
  BY <1>1, SpecIInv, PTL

\* differ.go:116-171: for any number of requests and CPUs, with filters that
\* fail or not, permits are neither lost nor used without being held.
THEOREM SpecPermitsKept == Spec => []PermitsKept
<1>1. IInv => PermitsKept
  BY DEF IInv, StateTypes, DiskInv, DiskPC, DeltaInv, DeltaPC, SlotInv, SlotPC, PC, PermitsKept
<1> QED
  BY <1>1, SpecIInv, PTL

\* differ.go:198-213: an Ok trailer follows the header and a delta of two files
\* that were whole, in every reply.
THEOREM SpecOkMeansDelta == Spec => []OkMeansDelta
<1>1. IInv => OkMeansDelta
  <2> SUFFICES ASSUME IInv, NEW r \in Req, NEW i \in 1..Len(parts[r]), parts[r][i] = "ok"
               PROVE  parts[r] = <<"header", "body", "ok">>
    BY DEF OkMeansDelta
  <2>1. parts[r] \in Replies
    BY DEF IInv, StateTypes
  <2> QED
    BY <2>1 DEF Replies, Ended
<1> QED
  BY <1>1, SpecIInv, PTL

\* A download has on the disk what its nar has, or nothing; a request with bytes
\* on the disk has files there; and its bytes are finitely many.
LEMMA StoredBytes ==
    ASSUME IInv
    PROVE  /\ \A r \in Req : Stored(r) \in Nat /\ (Stored(r) > 0 => r \in Storing)
           /\ IsFiniteSet(Bytes)
<1>1. ASSUME NEW r \in Req PROVE Stored(r) \in Nat /\ (Stored(r) > 0 => r \in Storing)
  <2>1. /\ <<r, "req">> \in Task /\ <<r, "base">> \in Task
        /\ <<r, "req">> \in Tasks(r) /\ <<r, "base">> \in Tasks(r)
    BY DEF Task, Tasks
  <2>2. NarBytes[<<r, "req">>] \in Nat /\ NarBytes[<<r, "base">>] \in Nat
    BY <2>1, DifferAssumption
  <2>3. Stored(r) \in Nat
    BY <2>2 DEF Stored, OnDisk
  <2>4. ASSUME Stored(r) > 0 PROVE r \in Storing
    <3>1. PICK t \in {<<r, "req">>, <<r, "base">>} : file[t] \in {"partial", "whole"}
      BY <2>4 DEF Stored, OnDisk
    <3>2. t \in Tasks(r) /\ file[t] \notin {"none", "lost"}
      BY <2>1, <3>1
    <3> QED
      BY <3>2 DEF Storing
  <2> QED
    BY <2>3, <2>4
<1> DEFINE f == [r \in Req |-> {r} \X (1..Stored(r))]
           T == {{r} \X (1..Stored(r)) : r \in Req}
<1>2. f \in Surjection(Req, T)
  BY DEF Surjection
<1>3. IsFiniteSet(T)
  BY <1>2, DifferAssumption, FS_Surjection
<1>4. ASSUME NEW r \in Req PROVE IsFiniteSet({r} \X (1..Stored(r)))
  <2>1. IsFiniteSet({r})
    BY FS_Singleton
  <2>2. IsFiniteSet(1..Stored(r))
    BY <1>1, FS_Interval
  <2> QED
    BY <2>1, <2>2, FS_Product
<1>5. IsFiniteSet(UNION T)
  BY <1>3, <1>4, FS_UNION
<1> QED
  BY <1>1, <1>5 DEF Bytes

\* differ.go:114-119: whoever has files on the disk holds the space it announced,
\* and all files together, but for those lost by a filter's failure, exceed the
\* disk by no more bytes than nars turned out larger than announced; for any
\* sizes of nars, announced or real, and any disk.
THEOREM SpecDiskBudget == Spec => []DiskBudget
<1>1. ASSUME IInv PROVE DiskBudget
  <2>1. Storing \subseteq disk.held
    <3> SUFFICES ASSUME NEW r \in Req, NEW t \in Tasks(r), file[t] \notin {"none", "lost"}
                 PROVE  r \in disk.held
      BY DEF Storing
    <3>1. t \in Task /\ t[1] = r
      BY DEF Tasks, Task
    <3> QED
      BY <1>1, <3>1 DEF IInv, FileInv, DiskInv, DiskPC
  <2>2. disk.held \in SUBSET Req /\ Disk!Weight(disk.held) <= DiskFree
    BY <1>1 DEF IInv, DiskInv, Disk!TypeOK, Disk!Sound
  <2>3. /\ Disk!Weight(Storing) \in Nat /\ Disk!Weight(disk.held) \in Nat
        /\ Disk!Weight(Storing) <= Disk!Weight(disk.held)
    BY <2>1, <2>2, SemaphoreParams, Disk!WeightMonotone
  <2>4. DiskFree \in Nat
    BY DifferAssumption
  <2>5. IsFiniteSet(Disk!Units(Storing)) /\ IsFiniteSet(Bytes) /\ IsFiniteSet(Beyond)
    <3>1. IsFiniteSet(Disk!Units(Storing))
      BY SemaphoreParams, Disk!UnitsFinite DEF Storing, Disk!IsFiniteSet, IsFiniteSet
    <3>2. IsFiniteSet(Bytes) /\ Beyond \subseteq Bytes
      BY <1>1, StoredBytes DEF Beyond
    <3> QED
      BY <3>1, <3>2, FS_Subset
  <2>6. Bytes \subseteq Disk!Units(Storing) \cup Beyond
    <3> SUFFICES ASSUME NEW r \in Req, NEW i \in 1..Stored(r), i <= DiskNeed[r]
                 PROVE  <<r, i>> \in Disk!Units(Storing)
      <4>1. \A x \in Bytes : \E r \in Req : \E i \in 1..Stored(r) : x = <<r, i>>
        BY DEF Bytes
      <4>2. \A r \in Req : Stored(r) \in Nat /\ DiskNeed[r] \in Nat
        BY <1>1, StoredBytes, DifferAssumption DEF DiskNeed
      <4> QED
        BY <4>1, <4>2 DEF Beyond
    <3>1. Stored(r) \in Nat /\ r \in Storing /\ i \in 1..DiskNeed[r]
      BY <1>1, StoredBytes, DifferAssumption DEF DiskNeed
    <3> QED
      BY <3>1 DEF Disk!Units
  <2>7. Cardinality(Bytes) <= Disk!Weight(Storing) + Cardinality(Beyond)
    <3> DEFINE U == Disk!Units(Storing)
    <3>1. /\ IsFiniteSet(U \cup Beyond)
          /\ Cardinality(U \cup Beyond) = Cardinality(U) + Cardinality(Beyond) - Cardinality(U \cap Beyond)
      BY <2>5, FS_Union
    <3>2. IsFiniteSet(U \cap Beyond) /\ Cardinality(U \cap Beyond) \in Nat
      BY <2>5, FS_Subset, FS_CardinalityType
    <3>3. Cardinality(Bytes) <= Cardinality(U \cup Beyond)
      BY <2>6, <3>1, FS_Subset
    <3>4. /\ Cardinality(U) \in Nat /\ Cardinality(Beyond) \in Nat
          /\ Cardinality(Bytes) \in Nat /\ Cardinality(U \cup Beyond) \in Nat
      BY <2>5, <3>1, FS_CardinalityType
    <3>5. Disk!Weight(Storing) = Cardinality(U)
      BY DEF Disk!Weight, Disk!Cardinality, Cardinality
    <3> HIDE DEF U
    <3> QED
      BY <3>1, <3>2, <3>3, <3>4, <3>5
  <2>8. Cardinality(Bytes) \in Nat /\ Cardinality(Beyond) \in Nat
    BY <2>5, FS_CardinalityType
  <2> QED
    BY <2>1, <2>2, <2>3, <2>4, <2>7, <2>8 DEF DiskBudget
<1>2. IInv => DiskBudget
  BY <1>1
<1> QED
  BY <1>2, SpecIInv, PTL
-----------------------------------------------------------------------------
(* The differ keeps its promise: every step is one of DiffService, or none. *)

\* While the handler works it has not failed; when it unwinds, it has, or the
\* reply is complete.  Together with IInv, inductive.
RetInv ==
    \A r \in Req :
        /\ pc[r] \in {"new", "disk", "wait", "delta", "create", "ok", "failed"} => ret[r] = 0
        /\ pc[r] \in {"close", "cleanup", "release", "done"} => ret[r] # 0 \/ Len(parts[r]) = 3

\* A handler that goes from one point to another and tells nobody.
LEMMA QuietStep ==
    ASSUME IInv, RetInv, NEW r \in Req, NEW x \in PC \ {"done"}, pc[r] # "done",
           pc' = [pc EXCEPT ![r] = x], UNCHANGED <<gone, parts, ret>>,
           x \in {"close", "cleanup", "release"} => pc[r] \in {"close", "cleanup", "release"},
           pc[r] \in {"close", "cleanup", "release"} => x \in {"close", "cleanup", "release"}
    PROVE  RetInv' /\ UNCHANGED Service!vars
<1>1. RetInv'
  BY DEF RetInv, IInv, StateTypes, PC
<1>2. [q \in Req |-> pc'[q] = "done"] = [q \in Req |-> pc[q] = "done"]
  BY DEF IInv, StateTypes
<1> QED
  BY <1>1, <1>2 DEF Service!vars

\* The next part is written.
LEMMA WriteStep ==
    ASSUME IInv, RetInv, NEW r \in Req, pc[r] \in {"delta", "create", "ok", "failed"},
           NEW x \in {"create", "ok", "failed", "close"}, pc' = [pc EXCEPT ![r] = x],
           NEW part \in Part, Append(parts[r], part) \in Replies,
           parts' = [parts EXCEPT ![r] = Append(@, part)], UNCHANGED <<gone, ret>>,
           x = "close" <=> pc[r] \in {"ok", "failed"}
    PROVE  RetInv' /\ Service!Write(r)
<1>1. ret[r] = 0 /\ pc \in [Req -> PC] /\ parts \in [Req -> Replies]
  BY DEF RetInv, IInv, StateTypes
<1>2. pc[r] \in {"ok", "failed"} => parts[r] \in {<<"header", "body">>, <<"header", "junk">>}
  BY DEF IInv, PartsInv
<1>3. ASSUME x = "close" PROVE Len(parts'[r]) = 3
  <2>1. PICK body \in {"body", "junk"} : parts[r] = <<"header", body>>
    BY <1>2, <1>3
  <2>2. parts'[r] = <<"header", body, part>>
    BY <1>1, <2>1, ReplySteps
  <2> QED
    BY <2>2
<1>4. RetInv'
  BY <1>1, <1>3 DEF RetInv, PC
<1>5. [q \in Req |-> pc'[q] = "done"] = [q \in Req |-> pc[q] = "done"]
  BY <1>1
<1>6. Append(parts[r], part) \in Service!Replies
  BY DEF Replies, Ended, Service!Replies
<1> QED
  BY <1>1, <1>4, <1>5, <1>6 DEF Service!Write, Part

\* A handler that is done is over.
LEMMA OverStep ==
    ASSUME NEW r \in Req, pc \in [Req -> PC], pc' = [pc EXCEPT ![r] = "done"]
    PROVE  [q \in Req |-> pc'[q] = "done"] = [[q \in Req |-> pc[q] = "done"] EXCEPT ![r] = TRUE]
  OBVIOUS

\* The handler gives up with a status, and is over if it has nothing to unwind.
GivesUp(r) ==
    /\ pc[r] \in {"new", "disk", "wait", "delta", "create", "ok", "failed"}
    /\ pc'[r] \in {"close", "cleanup", "done"} /\ pc' = [pc EXCEPT ![r] = pc'[r]]
    /\ ret'[r] \in {400, 404, 405, 500, 507} /\ ret' = [ret EXCEPT ![r] = ret'[r]]
    /\ parts[r] = <<>> \/ (gone[r] /\ ret'[r] = 500)
    /\ UNCHANGED <<gone, parts>>

LEMMA FailStep ==
    ASSUME IInv, RetInv, NEW r \in Req, GivesUp(r)
    PROVE  RetInv' /\ Service!Fail(r)
<1> USE DEF GivesUp
<1>1. ret[r] = 0 /\ pc \in [Req -> PC] /\ ret \in [Req -> Status]
  BY DEF RetInv, IInv, StateTypes
<1>2. RetInv'
  BY <1>1 DEF RetInv, PC
<1>3. ~[q \in Req |-> pc[q] = "done"][r]
  <2>1. pc[r] # "done"
    OBVIOUS
  <2> QED
    BY <2>1
<1>4. \/ parts[r] = <<>> /\ \E st \in {400, 404, 405, 500, 507} : ret' = [ret EXCEPT ![r] = st]
      \/ gone[r] /\ ret' = [ret EXCEPT ![r] = 500]
  <2>1. \E st \in {400, 404, 405, 500, 507} : ret' = [ret EXCEPT ![r] = st]
    <3> WITNESS ret'[r] \in {400, 404, 405, 500, 507}
    <3> QED
      OBVIOUS
  <2>2. ret'[r] = 500 => ret' = [ret EXCEPT ![r] = 500]
    OBVIOUS
  <2> QED
    BY <2>1, <2>2
<1>5. \/ [q \in Req |-> pc'[q] = "done"] = [q \in Req |-> pc[q] = "done"]
      \/ [q \in Req |-> pc'[q] = "done"] = [[q \in Req |-> pc[q] = "done"] EXCEPT ![r] = TRUE]
  <2>1. CASE pc'[r] = "done"
    BY <1>1, <2>1, OverStep
  <2>2. CASE pc'[r] # "done"
    <3>1. \A q \in Req : pc'[q] = "done" <=> pc[q] = "done"
      BY <1>1, <2>2
    <3> QED
      BY <3>1
  <2> QED
    BY <2>1, <2>2
<1> QED
  BY <1>1, <1>2, <1>3, <1>4, <1>5, Zenon DEF Service!Fail

LEMMA HandlerServes ==
    ASSUME IInv, RetInv, NEW r \in Req, Handler(r)
    PROVE  RetInv' /\ [Service!Next]_Service!vars
<1>0. /\ pc \in [Req -> PC] /\ ret \in [Req -> Status]
      /\ pc[r] \in {"new", "disk", "wait", "delta"} => parts[r] = <<>>
      /\ pc[r] = "create" => parts[r] = <<"header">>
      /\ pc[r] = "ok" => parts[r] = <<"header", "body">>
      /\ pc[r] = "failed" => parts[r] = <<"header", "junk">>
  BY DEF IInv, StateTypes, PartsInv
<1>1. CASE DiskCanceled(r)
  <2>1. GivesUp(r)
    BY <1>0, <1>1 DEF DiskCanceled, GivesUp
  <2> QED
    BY <2>1, FailStep DEF Service!Next
<1>2. CASE StartDownloads(r)
  BY <1>0, <1>2, QuietStep DEF StartDownloads, PC
<1>3. CASE DownloadsFailed(r)
  <2>1. GivesUp(r)
    BY <1>0, <1>3 DEF DownloadsFailed, GivesUp
  <2> QED
    BY <2>1, FailStep DEF Service!Next
<1>4. CASE AcquireDelta(r)
  BY <1>0, <1>4, QuietStep DEF AcquireDelta, PC
<1>5. CASE DeltaCanceled(r)
  <2>1. GivesUp(r)
    BY <1>0, <1>5 DEF DeltaCanceled, GivesUp
  <2> QED
    BY <2>1, FailStep DEF Service!Next
<1>6. CASE WriteHeader(r)
  <2>1. parts[r] = <<>> /\ Append(parts[r], "header") \in Replies
    BY <1>0, <1>6, ReplySteps DEF WriteHeader, Replies
  <2> QED
    <3>1. CASE pc' = [pc EXCEPT ![r] = "create"]
      <4>1. RetInv' /\ Service!Write(r)
        BY <1>0, <1>6, <2>1, <3>1, WriteStep DEF WriteHeader, Part
      <4> QED
        BY <4>1 DEF Service!Next
    <3>2. CASE pc' = [pc EXCEPT ![r] = "close"]
      <4>1. GivesUp(r)
        BY <1>0, <1>6, <2>1, <3>2 DEF WriteHeader, GivesUp
      <4> QED
        BY <4>1, FailStep DEF Service!Next
    <3> QED
      BY <1>0, <1>6, <3>1, <3>2 DEF WriteHeader
<1>7. CASE Create(r)
  <2>1. parts[r] = <<"header">>
    BY <1>0, <1>7 DEF Create
  <2>2. Append(parts[r], "body") \in Replies /\ Append(parts[r], "junk") \in Replies
    BY <2>1, ReplySteps DEF Replies, Ended
  <2>3. PICK part \in {"body", "junk"}, x \in {"ok", "failed"} :
            parts' = [parts EXCEPT ![r] = Append(@, part)] /\ pc' = [pc EXCEPT ![r] = x]
    BY <1>0, <1>7 DEF Create
  <2>4. RetInv' /\ Service!Write(r)
    BY <1>0, <1>7, <2>2, <2>3, WriteStep DEF Create, Part
  <2> QED
    BY <2>4 DEF Service!Next
<1>8. CASE WriteTrailer(r)
  <2>1. \/ pc[r] = "ok" /\ parts[r] = <<"header", "body">>
        \/ pc[r] = "failed" /\ parts[r] = <<"header", "junk">>
    BY <1>0, <1>8 DEF WriteTrailer
  <2>2. /\ Append(<<"header", "body">>, "ok") = <<"header", "body", "ok">>
        /\ Append(<<"header", "junk">>, "failed") = <<"header", "junk", "failed">>
    BY ReplySteps, Zenon
  <2>3. Append(parts[r], pc[r]) \in Replies /\ pc[r] \in Part
    BY <2>1, <2>2 DEF Replies, Ended, Part
  <2>4. CASE parts' = [parts EXCEPT ![r] = Append(@, pc[r])] /\ UNCHANGED ret
    <3>1. RetInv' /\ Service!Write(r)
      BY <1>0, <1>8, <2>3, <2>4, WriteStep DEF WriteTrailer
    <3> QED
      BY <3>1 DEF Service!Next
  <2>5. CASE gone[r] /\ ret' = [ret EXCEPT ![r] = 500] /\ UNCHANGED parts
    <3>1. GivesUp(r)
      BY <1>0, <1>8, <2>5 DEF WriteTrailer, GivesUp
    <3> QED
      BY <3>1, FailStep DEF Service!Next
  <2> QED
    BY <1>0, <1>8, <2>4, <2>5 DEF WriteTrailer
<1>9. CASE Close(r)
  BY <1>0, <1>9, QuietStep DEF Close, PC
<1>10. CASE RemoveFiles(r)
  BY <1>0, <1>10, QuietStep DEF RemoveFiles, PC
<1>11. CASE ReleaseDisk(r)
  <2>1. [q \in Req |-> pc'[q] = "done"] = [[q \in Req |-> pc[q] = "done"] EXCEPT ![r] = TRUE]
    BY <1>0, <1>11 DEF ReleaseDisk
  <2>2. Service!End(r)
    BY <1>0, <1>11, <2>1 DEF ReleaseDisk, RetInv, Service!End
  <2>3. RetInv'
    BY <1>0, <1>11 DEF ReleaseDisk, RetInv, PC
  <2> QED
    BY <2>2, <2>3 DEF Service!Next
<1> QED
  BY <1>1, <1>2, <1>3, <1>4, <1>5, <1>6, <1>7, <1>8, <1>9, <1>10, <1>11 DEF Handler

LEMMA ClientServes ==
    ASSUME IInv, RetInv, NEW r \in Req, Client(r)
    PROVE  RetInv' /\ [Service!Next]_Service!vars
<1>0. /\ pc \in [Req -> PC] /\ ret \in [Req -> Status]
      /\ pc[r] \in {"new", "disk", "wait", "delta"} => parts[r] = <<>>
      /\ pc[r] = "create" => parts[r] = <<"header">>
      /\ pc[r] = "ok" => parts[r] = <<"header", "body">>
      /\ pc[r] = "failed" => parts[r] = <<"header", "junk">>
  BY DEF IInv, StateTypes, PartsInv
<1>1. CASE Refuse(r)
  <2>1. GivesUp(r)
    BY <1>0, <1>1, DifferAssumption DEF Refuse, GivesUp
  <2> QED
    BY <2>1, FailStep DEF Service!Next
<1>2. CASE AcquireDisk(r)
  BY <1>0, <1>2, QuietStep DEF AcquireDisk, PC
<1>3. CASE Disconnect(r)
  <2>1. Service!Leave(r) /\ RetInv'
    BY <1>0, <1>3 DEF Disconnect, RetInv, Service!Leave
  <2> QED
    BY <2>1 DEF Service!Next
<1>4. CASE Again(r)
  <2>1. [q \in Req |-> pc'[q] = "done"] = [[q \in Req |-> pc[q] = "done"] EXCEPT ![r] = FALSE]
    BY <1>0, <1>4 DEF Again
  <2>2. Service!Again(r)
    BY <1>0, <1>4, <2>1 DEF Again, Service!Again
  <2>3. RetInv'
    BY <1>0, <1>4 DEF Again, RetInv, PC
  <2> QED
    BY <2>2, <2>3 DEF Service!Next
<1> QED
  BY <1>1, <1>2, <1>3, <1>4 DEF Client

LEMMA DownloadServes ==
    ASSUME IInv, RetInv, NEW t \in Task, Download(t)
    PROVE  RetInv' /\ [Service!Next]_Service!vars
<1>1. UNCHANGED <<pc, gone, parts, ret>>
  BY DEF Download, AcquireSlot, SlotCanceled, HasSlot, GetInfo, GetNar, FinishNar
<1> QED
  BY <1>1 DEF RetInv, Service!vars

\* differ.go:81-215: whatever the others do, a request is refused with a status
\* and no part, or gets all parts of its reply in their order, unless its client
\* left; the differ implements DiffService for any requests, disk and CPUs.
THEOREM SpecServesReplies == Spec => ServesReplies
<1>1. Init => Service!Init /\ RetInv
  BY DEF Init, Service!Init, RetInv, PC
<1>2. ASSUME IInv, RetInv, [Next]_vars PROVE RetInv' /\ [Service!Next]_Service!vars
  <2>1. CASE UNCHANGED vars
    BY <1>2, <2>1 DEF vars, RetInv, Service!vars
  <2> QED
    BY <1>2, <2>1, HandlerServes, ClientServes, DownloadServes, Zenon DEF Next
<1>3. IInv /\ RetInv /\ [Next]_vars => RetInv' /\ [Service!Next]_Service!vars
  BY <1>2
<1> QED
  BY <1>1, <1>3, SpecIInv, PTL DEF Spec, ServesReplies, Service!Spec
-----------------------------------------------------------------------------
(* Every step is one of a client of each semaphore, or none. *)

LEMMA ClientMoves ==
    ASSUME NEW S, NEW from, NEW to, DOMAIN from = S, NEW c \in S, NEW x, to = [from EXCEPT ![c] = x],
           NEW waiting, NEW past
    PROVE  [s \in S |-> ClientAt(to[s], waiting, past)]
             = [[s \in S |-> ClientAt(from[s], waiting, past)] EXCEPT ![c] = ClientAt(x, waiting, past)]
<1>1. to[c] = x /\ \A s \in S \ {c} : to[s] = from[s]
  OBVIOUS
<1> QED
  BY <1>1

LEMMA ClientStays ==
    ASSUME NEW S, NEW from, NEW to, DOMAIN from = S, NEW c \in S, NEW x, to = [from EXCEPT ![c] = x],
           NEW waiting, NEW past, ClientAt(x, waiting, past) = ClientAt(from[c], waiting, past)
    PROVE  [s \in S |-> ClientAt(to[s], waiting, past)] = [s \in S |-> ClientAt(from[s], waiting, past)]
<1>1. to[c] = x /\ \A s \in S \ {c} : to[s] = from[s]
  OBVIOUS
<1>2. \A s \in S : ClientAt(to[s], waiting, past) = ClientAt(from[s], waiting, past)
  BY <1>1
<1> QED
  BY <1>2

\* Where a handler is as a client of the disk and of the deltas.
LEMMA HandlerAt ==
    /\ \A x \in {"new", "done"} : ClientAt(x, "disk", DiskPC) = "idle"
    /\ ClientAt("disk", "disk", DiskPC) = "waiting"
    /\ \A x \in PC \ {"new", "disk", "done"} : ClientAt(x, "disk", DiskPC) = "holding"
    /\ \A x \in PC \ (DeltaPC \cup {"delta"}) : ClientAt(x, "delta", DeltaPC) = "idle"
    /\ ClientAt("delta", "delta", DeltaPC) = "waiting"
    /\ \A x \in DeltaPC : ClientAt(x, "delta", DeltaPC) = "holding"
  BY DEF ClientAt, DiskPC, DeltaPC, PC

\* A handler goes from one point to another.
Goes(r, x) == pc' = [pc EXCEPT ![r] = x]

DiskStep(r, x) ==
    \/ disk' = disk /\ ClientAt(x, "disk", DiskPC) = ClientAt(pc[r], "disk", DiskPC)
    \/ disk' = Disk!Acquire(disk, r) /\ pc[r] = "new" /\ x = "disk"
    \/ disk' = disk /\ r \in disk.held /\ pc[r] = "disk" /\ x = "wait"
    \/ disk' = Disk!Abandon(disk, r) /\ r \notin disk.held /\ pc[r] = "disk" /\ x = "done"
    \/ disk' = Disk!Release(disk, r) /\ pc[r] = "release" /\ x = "done"

LEMMA DiskUse ==
    ASSUME pc \in [Req -> PC], NEW r \in Req, NEW x \in PC, Goes(r, x), DiskStep(r, x)
    PROVE  [Disk!Next]_Disk!vars
<1> DEFINE before == [q \in Req |-> ClientAt(pc[q], "disk", DiskPC)]
           after == [q \in Req |-> ClientAt(pc'[q], "disk", DiskPC)]
<1>1. DOMAIN pc = Req /\ pc' = [pc EXCEPT ![r] = x]
  BY DEF Goes
<1>2. after = [before EXCEPT ![r] = ClientAt(x, "disk", DiskPC)]
  BY <1>1, ClientMoves
<1>3. before[r] = ClientAt(pc[r], "disk", DiskPC)
  OBVIOUS
<1>4. CASE disk' = disk /\ ClientAt(x, "disk", DiskPC) = ClientAt(pc[r], "disk", DiskPC)
  <2>1. after = before
    BY <1>1, <1>4, ClientStays
  <2> QED
    BY <1>4, <2>1 DEF Disk!vars
<1>5. CASE disk' = Disk!Acquire(disk, r) /\ pc[r] = "new" /\ x = "disk"
  <2>1. Disk!Ask(r)
    BY <1>2, <1>3, <1>5, HandlerAt DEF Disk!Ask
  <2> QED
    BY <2>1 DEF Disk!Next
<1>6. CASE disk' = disk /\ r \in disk.held /\ pc[r] = "disk" /\ x = "wait"
  <2>1. Disk!Enter(r)
    BY <1>2, <1>3, <1>6, HandlerAt DEF Disk!Enter
  <2> QED
    BY <2>1 DEF Disk!Next
<1>7. CASE disk' = Disk!Abandon(disk, r) /\ r \notin disk.held /\ pc[r] = "disk" /\ x = "done"
  <2>1. Disk!Cancel(r)
    BY <1>2, <1>3, <1>7, HandlerAt DEF Disk!Cancel
  <2> QED
    BY <2>1 DEF Disk!Next
<1>8. CASE disk' = Disk!Release(disk, r) /\ pc[r] = "release" /\ x = "done"
  <2>1. Disk!Leave(r)
    BY <1>2, <1>3, <1>8, HandlerAt DEF Disk!Leave, PC
  <2> QED
    BY <2>1 DEF Disk!Next
<1> QED
  BY <1>4, <1>5, <1>6, <1>7, <1>8 DEF DiskStep

DeltaStep(r, x) ==
    \/ delta' = delta /\ ClientAt(x, "delta", DeltaPC) = ClientAt(pc[r], "delta", DeltaPC)
    \/ delta' = Delta!Acquire(delta, r) /\ pc[r] = "wait" /\ x = "delta"
    \/ delta' = delta /\ r \in delta.held /\ pc[r] = "delta" /\ x \in DeltaPC
    \/ delta' = Delta!Abandon(delta, r) /\ r \notin delta.held /\ pc[r] = "delta" /\ x = "cleanup"
    \/ delta' = Delta!Release(delta, r) /\ pc[r] = "close" /\ x = "cleanup"

LEMMA DeltaUse ==
    ASSUME pc \in [Req -> PC], NEW r \in Req, NEW x \in PC, Goes(r, x), DeltaStep(r, x)
    PROVE  [Delta!Next]_Delta!vars
<1> DEFINE before == [q \in Req |-> ClientAt(pc[q], "delta", DeltaPC)]
           after == [q \in Req |-> ClientAt(pc'[q], "delta", DeltaPC)]
<1>1. DOMAIN pc = Req /\ pc' = [pc EXCEPT ![r] = x]
  BY DEF Goes
<1>2. after = [before EXCEPT ![r] = ClientAt(x, "delta", DeltaPC)]
  BY <1>1, ClientMoves
<1>3. before[r] = ClientAt(pc[r], "delta", DeltaPC)
  OBVIOUS
<1>4. CASE delta' = delta /\ ClientAt(x, "delta", DeltaPC) = ClientAt(pc[r], "delta", DeltaPC)
  <2>1. after = before
    BY <1>1, <1>4, ClientStays
  <2> QED
    BY <1>4, <2>1 DEF Delta!vars
<1>5. CASE delta' = Delta!Acquire(delta, r) /\ pc[r] = "wait" /\ x = "delta"
  <2>1. Delta!Ask(r)
    BY <1>2, <1>3, <1>5, HandlerAt DEF Delta!Ask, PC, DeltaPC
  <2> QED
    BY <2>1 DEF Delta!Next
<1>6. CASE delta' = delta /\ r \in delta.held /\ pc[r] = "delta" /\ x \in DeltaPC
  <2>1. Delta!Enter(r)
    BY <1>2, <1>3, <1>6, HandlerAt DEF Delta!Enter, PC, DeltaPC
  <2> QED
    BY <2>1 DEF Delta!Next
<1>7. CASE delta' = Delta!Abandon(delta, r) /\ r \notin delta.held /\ pc[r] = "delta" /\ x = "cleanup"
  <2>1. Delta!Cancel(r)
    BY <1>2, <1>3, <1>7, HandlerAt DEF Delta!Cancel, PC, DeltaPC
  <2> QED
    BY <2>1 DEF Delta!Next
<1>8. CASE delta' = Delta!Release(delta, r) /\ pc[r] = "close" /\ x = "cleanup"
  <2>1. Delta!Leave(r)
    BY <1>2, <1>3, <1>8, HandlerAt DEF Delta!Leave, PC, DeltaPC
  <2> QED
    BY <2>1 DEF Delta!Next
<1> QED
  BY <1>4, <1>5, <1>6, <1>7, <1>8 DEF DeltaStep

\* Where a download is as a client of the slots.
LEMMA DownloadAt ==
    /\ \A x \in {"off", "start", "end"} : ClientAt(x, "slot", SlotPC) = "idle"
    /\ ClientAt("slot", "slot", SlotPC) = "waiting"
    /\ \A x \in SlotPC : ClientAt(x, "slot", SlotPC) = "holding"
  BY DEF ClientAt, SlotPC

SlotStep(t, x) ==
    \/ dl' = dl /\ ClientAt(x, "slot", SlotPC) = ClientAt(task[t], "slot", SlotPC)
    \/ dl' = Dl!Acquire(dl, t) /\ task[t] = "start" /\ x = "slot"
    \/ dl' = dl /\ t \in dl.held /\ task[t] = "slot" /\ x \in SlotPC
    \/ dl' = Dl!Abandon(dl, t) /\ t \notin dl.held /\ task[t] = "slot" /\ x = "end"
    \/ dl' = Dl!Release(dl, t) /\ task[t] \in SlotPC /\ x = "end"

LEMMA SlotUse ==
    ASSUME task \in [Task -> TaskPC], NEW t \in Task, NEW x \in TaskPC, task' = [task EXCEPT ![t] = x], SlotStep(t, x)
    PROVE  [Dl!Next]_Dl!vars
<1> DEFINE before == [q \in Task |-> ClientAt(task[q], "slot", SlotPC)]
           after == [q \in Task |-> ClientAt(task'[q], "slot", SlotPC)]
<1>1. DOMAIN task = Task /\ task' = [task EXCEPT ![t] = x]
  OBVIOUS
<1>2. after = [before EXCEPT ![t] = ClientAt(x, "slot", SlotPC)]
  BY <1>1, ClientMoves
<1>3. before[t] = ClientAt(task[t], "slot", SlotPC)
  OBVIOUS
<1>4. CASE dl' = dl /\ ClientAt(x, "slot", SlotPC) = ClientAt(task[t], "slot", SlotPC)
  <2>1. after = before
    BY <1>1, <1>4, ClientStays
  <2> QED
    BY <1>4, <2>1 DEF Dl!vars
<1>5. CASE dl' = Dl!Acquire(dl, t) /\ task[t] = "start" /\ x = "slot"
  <2>1. Dl!Ask(t)
    BY <1>2, <1>3, <1>5, DownloadAt DEF Dl!Ask
  <2> QED
    BY <2>1 DEF Dl!Next
<1>6. CASE dl' = dl /\ t \in dl.held /\ task[t] = "slot" /\ x \in SlotPC
  <2>1. Dl!Enter(t)
    BY <1>2, <1>3, <1>6, DownloadAt DEF Dl!Enter
  <2> QED
    BY <2>1 DEF Dl!Next
<1>7. CASE dl' = Dl!Abandon(dl, t) /\ t \notin dl.held /\ task[t] = "slot" /\ x = "end"
  <2>1. Dl!Cancel(t)
    BY <1>2, <1>3, <1>7, DownloadAt DEF Dl!Cancel
  <2> QED
    BY <2>1 DEF Dl!Next
<1>8. CASE dl' = Dl!Release(dl, t) /\ task[t] \in SlotPC /\ x = "end"
  <2>1. Dl!Leave(t)
    BY <1>2, <1>3, <1>8, DownloadAt DEF Dl!Leave
  <2> QED
    BY <2>1 DEF Dl!Next
<1> QED
  BY <1>4, <1>5, <1>6, <1>7, <1>8 DEF SlotStep

SemaphoresUsed == [Disk!Next]_Disk!vars /\ [Delta!Next]_Delta!vars /\ [Dl!Next]_Dl!vars

\* The slots when none of their clients moves.
LEMMA SlotsRest ==
    ASSUME dl' = dl, \A t \in Task : ClientAt(task'[t], "slot", SlotPC) = ClientAt(task[t], "slot", SlotPC)
    PROVE  UNCHANGED Dl!vars
<1>1. [t \in Task |-> ClientAt(task'[t], "slot", SlotPC)] = [t \in Task |-> ClientAt(task[t], "slot", SlotPC)]
  OBVIOUS
<1> QED
  BY <1>1 DEF Dl!vars

\* The point a handler goes to, and what it does to its semaphores on the way.
HandlerMove(r, x) == x \in PC /\ Goes(r, x) /\ DiskStep(r, x) /\ DeltaStep(r, x)

LEMMA MoveUses ==
    ASSUME pc \in [Req -> PC], NEW r \in Req, NEW x, HandlerMove(r, x), UNCHANGED Dl!vars
    PROVE  SemaphoresUsed
<1>1. [Disk!Next]_Disk!vars
  BY DiskUse DEF HandlerMove
<1>2. [Delta!Next]_Delta!vars
  BY DeltaUse DEF HandlerMove
<1> QED
  BY <1>1, <1>2 DEF SemaphoresUsed

LEMMA HandlerUses == ASSUME IInv, NEW r \in Req, Handler(r) \/ Client(r) PROVE SemaphoresUsed
<1>0. pc \in [Req -> PC] /\ TaskInv /\ task \in [Task -> TaskPC]
  BY DEF IInv, StateTypes
<1>1. ASSUME UNCHANGED <<task, dl>>, NEW x, HandlerMove(r, x) PROVE SemaphoresUsed
  <2>1. UNCHANGED Dl!vars
    BY <1>1, SlotsRest
  <2> QED
    BY <1>0, <1>1, <2>1, MoveUses
<1> USE HandlerAt DEF HandlerMove, Goes, DiskStep, DeltaStep, PC, DeltaPC
<1>2. CASE Refuse(r)
  <2>1. UNCHANGED <<task, dl>> /\ HandlerMove(r, "done")
    BY <1>2 DEF Refuse
  <2> QED
    BY <1>1, <2>1
<1>3. CASE AcquireDisk(r)
  <2>1. UNCHANGED <<task, dl>> /\ HandlerMove(r, "disk")
    BY <1>3 DEF AcquireDisk
  <2> QED
    BY <1>1, <2>1
<1>4. CASE DiskCanceled(r)
  <2>1. UNCHANGED <<task, dl>> /\ HandlerMove(r, "done")
    BY <1>4 DEF DiskCanceled
  <2> QED
    BY <1>1, <2>1
<1>5. CASE DownloadsFailed(r)
  <2>1. UNCHANGED <<task, dl>> /\ HandlerMove(r, "cleanup")
    BY <1>5 DEF DownloadsFailed
  <2> QED
    BY <1>1, <2>1
<1>6. CASE AcquireDelta(r)
  <2>1. UNCHANGED <<task, dl>> /\ HandlerMove(r, "delta")
    BY <1>6 DEF AcquireDelta
  <2> QED
    BY <1>1, <2>1
<1>7. CASE DeltaCanceled(r)
  <2>1. UNCHANGED <<task, dl>> /\ HandlerMove(r, "cleanup")
    BY <1>7 DEF DeltaCanceled
  <2> QED
    BY <1>1, <2>1
<1>8. CASE WriteHeader(r)
  <2>1. UNCHANGED <<task, dl>> /\ (HandlerMove(r, "create") \/ HandlerMove(r, "close"))
    BY <1>8 DEF WriteHeader
  <2> QED
    BY <1>1, <2>1
<1>9. CASE Create(r)
  <2>1. UNCHANGED <<task, dl>> /\ (HandlerMove(r, "ok") \/ HandlerMove(r, "failed"))
    BY <1>9 DEF Create
  <2> QED
    BY <1>1, <2>1
<1>10. CASE WriteTrailer(r)
  <2>1. UNCHANGED <<task, dl>> /\ HandlerMove(r, "close")
    BY <1>10 DEF WriteTrailer
  <2> QED
    BY <1>1, <2>1
<1>11. CASE Close(r)
  <2>1. UNCHANGED <<task, dl>> /\ HandlerMove(r, "cleanup")
    BY <1>11 DEF Close
  <2> QED
    BY <1>1, <2>1
<1>12. CASE RemoveFiles(r)
  <2>1. UNCHANGED <<task, dl>> /\ HandlerMove(r, "release")
    BY <1>12 DEF RemoveFiles
  <2> QED
    BY <1>1, <2>1
<1>13. CASE ReleaseDisk(r)
  <2>1. UNCHANGED <<task, dl>> /\ HandlerMove(r, "done")
    BY <1>13 DEF ReleaseDisk
  <2> QED
    BY <1>1, <2>1
<1>14. CASE StartDownloads(r)
  <2>1. HandlerMove(r, "wait")
    BY <1>14 DEF StartDownloads
  <2>2. dl' = dl /\ \A t \in Task : task'[t] = task[t] \/ (task[t] = "off" /\ task'[t] = "start")
    BY <1>0, <1>14 DEF StartDownloads, TaskInv
  <2>3. UNCHANGED Dl!vars
    BY <2>2, SlotsRest, DownloadAt
  <2> QED
    BY <1>0, <2>1, <2>3, MoveUses
<1>15. CASE Again(r)
  <2>1. HandlerMove(r, "new")
    BY <1>15 DEF Again
  <2>2. dl' = dl /\ \A t \in Task : task'[t] = task[t] \/ (task[t] \in {"off", "end"} /\ task'[t] = "off")
    BY <1>0, <1>15 DEF Again, TaskInv
  <2>3. UNCHANGED Dl!vars
    BY <2>2, SlotsRest, DownloadAt
  <2> QED
    BY <1>0, <2>1, <2>3, MoveUses
<1>16. CASE Disconnect(r)
  BY <1>16 DEF Disconnect, SemaphoresUsed, Disk!vars, Delta!vars, Dl!vars
<1> QED
  BY <1>2, <1>3, <1>4, <1>5, <1>6, <1>7, <1>8, <1>9, <1>10, <1>11, <1>12, <1>13, <1>14, <1>15, <1>16 DEF Handler, Client

LEMMA DownloadUses == ASSUME IInv, NEW t \in Task, Download(t) PROVE SemaphoresUsed
<1>0. task \in [Task -> TaskPC] /\ SlotInv
  BY DEF IInv, StateTypes
<1>1. UNCHANGED Disk!vars /\ UNCHANGED Delta!vars
  BY DEF Download, AcquireSlot, SlotCanceled, HasSlot, GetInfo, GetNar, FinishNar, Disk!vars, Delta!vars
<1>2. ASSUME NEW x \in TaskPC, task' = [task EXCEPT ![t] = x], SlotStep(t, x) PROVE SemaphoresUsed
  BY <1>0, <1>1, <1>2, SlotUse DEF SemaphoresUsed
<1> USE DownloadAt DEF SlotStep, TaskPC, SlotPC
<1>3. CASE AcquireSlot(t)
  <2>1. task' = [task EXCEPT ![t] = "slot"] /\ SlotStep(t, "slot")
    BY <1>3 DEF AcquireSlot
  <2> QED
    BY <1>2, <2>1
<1>4. CASE SlotCanceled(t)
  <2>1. task' = [task EXCEPT ![t] = "end"] /\ SlotStep(t, "end")
    BY <1>4 DEF SlotCanceled
  <2> QED
    BY <1>2, <2>1
<1>5. CASE HasSlot(t)
  <2>1. PICK x \in {"info", "get"} : task' = [task EXCEPT ![t] = x]
    BY <1>5 DEF HasSlot
  <2>2. SlotStep(t, x)
    BY <1>5, <2>1 DEF HasSlot
  <2> QED
    BY <1>2, <2>1, <2>2
\* A download with a slot keeps it, or is over and gives it back.
<1>6. ASSUME task[t] \in SlotPC,
             \/ dl' = dl /\ \E x \in {"get", "body", "stuck"} : task' = [task EXCEPT ![t] = x]
             \/ \E err \in {"nil", "notfound", "other"} : EndTask(t, err)
      PROVE  SemaphoresUsed
  <2>1. CASE dl' = dl /\ \E x \in {"get", "body", "stuck"} : task' = [task EXCEPT ![t] = x]
    <3>1. PICK x \in {"get", "body", "stuck"} : task' = [task EXCEPT ![t] = x]
      BY <2>1
    <3>2. SlotStep(t, x)
      BY <1>6, <2>1
    <3> QED
      BY <1>2, <3>1, <3>2
  <2>2. CASE \E err \in {"nil", "notfound", "other"} : EndTask(t, err)
    <3>1. task' = [task EXCEPT ![t] = "end"] /\ SlotStep(t, "end")
      BY <1>6, <2>2 DEF EndTask
    <3> QED
      BY <1>2, <3>1
  <2> QED
    BY <1>6, <2>1, <2>2
<1>7. CASE GetInfo(t) \/ GetNar(t)
  BY <1>6, <1>7 DEF GetInfo, GetNar
<1>8. CASE FinishNar(t)
  BY <1>6, <1>8 DEF FinishNar, NarWhole, NarBroken, FilterSwallowed, FilterStuck
<1> QED
  BY <1>3, <1>4, <1>5, <1>7, <1>8 DEF Download

\* differ.go:114-171, 231: the server asks each of its semaphores only for what
\* it does not hold, goes on only with it, gives it back once, and leaves the
\* queue when it gives up, whatever fails in between: in all its behaviours,
\* handlers and downloads are clients as Weighted has them.
THEOREM SpecUsesSemaphores == Spec => Disk!Spec /\ Delta!Spec /\ Dl!Spec
<1>1. Init => Disk!Init /\ Delta!Init /\ Dl!Init
  BY HandlerAt, DownloadAt DEF Init, Disk!Init, Delta!Init, Dl!Init, PC, DeltaPC
<1>2. ASSUME IInv, [Next]_vars PROVE SemaphoresUsed
  <2>1. CASE UNCHANGED vars
    BY <2>1 DEF vars, SemaphoresUsed, Disk!vars, Delta!vars, Dl!vars
  <2> QED
    BY <1>2, <2>1, HandlerUses, DownloadUses, Zenon DEF Next
<1>3. IInv /\ [Next]_vars => [Disk!Next]_Disk!vars /\ [Delta!Next]_Delta!vars /\ [Dl!Next]_Dl!vars
  BY <1>2 DEF SemaphoresUsed
<1> QED
  BY <1>1, <1>3, SpecIInv, PTL DEF Spec, Disk!Spec, Delta!Spec, Dl!Spec

\* So what Weighted proves of its clients holds of the server: while somebody
\* waits for disk space, a delta slot or a download slot, the first in line does
\* not fit, whatever was canceled and released before it (if no nar is empty).
THEOREM SpecNoLostWakeup ==
    ASSUME \A r \in Req : ReqNarSize[r] # 0
    PROVE  Spec => [](Disk!HeadBlocked /\ Delta!HeadBlocked /\ Dl!HeadBlocked)
<1>1. Disk!Params /\ Delta!Params /\ Dl!Params
  BY SemaphoreParams
<1>2. Disk!Positive /\ Delta!Positive /\ Dl!Positive
  BY DifferAssumption DEF Disk!Positive, Delta!Positive, Dl!Positive, DiskNeed
<1>3. Disk!Spec => []Disk!HeadBlocked
  BY <1>1, <1>2, Disk!SpecHeadBlocked
<1>4. Delta!Spec => []Delta!HeadBlocked
  BY <1>1, <1>2, Delta!SpecHeadBlocked
<1>5. Dl!Spec => []Dl!HeadBlocked
  BY <1>1, <1>2, Dl!SpecHeadBlocked
<1> QED
  BY <1>3, <1>4, <1>5, SpecUsesSemaphores, PTL
=============================================================================
