---------------------------- MODULE NarExpander ----------------------------
(***************************************************************************)
(* The nar expander (narexpander.go).  ExpandNar replaces each compressed   *)
(* file of a nar by two, what is to know for compressing it again and its   *)
(* contents; CollapseNar makes one file of the two.  Each is a goroutine    *)
(* that reads the nar, one that writes the result, a bounded channel of     *)
(* entries between them, and a semaphore for the bytes that are buffered.   *)
(***************************************************************************)
EXTENDS Integers, Compressed

CONSTANTS
    Nars,           \* the nars: sequences of files
    Modes,          \* of "expand" and "collapse"
    BufferEntries,  \* the size of the channel
    BufferBytes     \* the size of the semaphore

\* A file is a directory or a symlink ("dir"), compressed by its name ("xz",
\* that is .xz or .gz), or any other; it has a size in the nar.
File == [kind : {"dir", "file"}, size : Nat] \cup [kind : {"xz"}, size : Nat, packed : Packed]

Splits(f) == f.kind = "xz" /\ Understood(f.packed)

ASSUME NarExpanderAssumption ==
    /\ Nars \subseteq Seq(File)
    /\ Modes \subseteq {"expand", "collapse"}
    /\ BufferEntries \in Nat \ {0} /\ BufferBytes \in Nat \ {0}

VARIABLES
    mode, nar,  \* which filter this is, and for which nar
    rpc,        \* where the reader is
    pos,        \* how many entries it has read
    pend,       \* the entries it has made and not sent
    ents,       \* the channel
    closed,     \* has it been closed?
    used,       \* the permits taken
    wpc,        \* where the writer is
    cur,        \* the entry it writes, in a sequence
    out,        \* the entries written
    end,        \* how the writer closed its pipe
    left,       \* nobody reads from the pipe any more
    hurt        \* has anything failed that the files are not to blame for?

vars == <<mode, nar, rpc, pos, pend, ents, closed, used, wpc, cur, out, end, left, hurt>>

\* An entry is a part of the nar's i-th file: all of it, what is to know of it
\* ("meta", which goes before "data"), or its contents.
Whole(i) == [of |-> i, form |-> "whole"]
Meta(i)  == [of |-> i, form |-> "meta"]
Data(i)  == [of |-> i, form |-> "data"]

Expanded(files) ==
    LET expanded[i \in 0..Len(files)] ==
            IF i = 0 THEN <<>>
            ELSE expanded[i - 1] \o
                 IF Splits(files[i]) THEN <<Meta(i), Data(i)>> ELSE <<Whole(i)>>
    IN  expanded[Len(files)]
Collapsed(files) == [i \in DOMAIN files |-> Whole(i)]

Input  == IF mode = "expand" THEN Collapsed(nar) ELSE Expanded(nar)
Wanted == IF mode = "expand" THEN Expanded(nar) ELSE Collapsed(nar)

\* The entry that was read last.
Here == Input[pos]

\* What is buffered for it: the file as it is, and for one to compress again its
\* contents and the result.
Size ==
    LET f == nar[Here.of] IN
    IF Here.form = "data" THEN Announced(f.packed) + f.size ELSE f.size

Least(a, b) == IF a < b THEN a ELSE b
Permits == Least(BufferBytes, Size)

\* What goes through the channel: an entry, or an error, that comes with the
\* bytes buffered for it and the permits its release returns.
Error == [of |-> 0, form |-> "error"]
Sent(e, size, permits) == [ent |-> e, size |-> size, permits |-> permits]

\* What is collapsed was expanded before.
Init ==
    /\ mode \in Modes /\ nar \in Nars
    /\ mode = "collapse" => \A i \in DOMAIN nar : Splits(nar[i]) => Honest(nar[i].packed)
    /\ rpc = "next" /\ pos = 0 /\ pend = <<>>
    /\ ents = <<>> /\ closed = FALSE /\ used = 0
    /\ wpc = "recv" /\ cur = <<>> /\ out = <<>> /\ end = "open"
    /\ left = FALSE /\ hurt = FALSE

writer == <<wpc, cur, out, end>>
-----------------------------------------------------------------------------
(* The reader: readAndExpand, readAndCollapse *)

\* The next entry.  What has contents needs permits first; collapsing, what is
\* to know of a file is read together with the header of its contents.
ReadNext ==
    /\ rpc = "next" /\ pos < Len(Input)
    /\ IF Input[pos + 1].form = "meta"
       THEN pos' = pos + 2 /\ rpc' = "acquire" /\ UNCHANGED pend
       ELSE /\ pos' = pos + 1
            /\ IF nar[Input[pos + 1].of].kind = "dir"
               THEN rpc' = "send" /\ pend' = <<Sent(Input[pos + 1], 0, 0)>>
               ELSE rpc' = "acquire" /\ UNCHANGED pend
    /\ UNCHANGED <<mode, nar, ents, closed, used, left, hurt, writer>>

\* Mutants: a file larger than the buffer asks for all of its size; nobody
\* asks.
AcquireAll ==
    /\ rpc = "acquire" /\ used + Size <= BufferBytes
    /\ used' = used + Size
    /\ rpc' = "read"
    /\ UNCHANGED <<mode, nar, pos, pend, ents, closed, left, hurt, writer>>
AcquireNone ==
    /\ rpc = "acquire"
    /\ used' = used + Permits
    /\ rpc' = "read"
    /\ UNCHANGED <<mode, nar, pos, pend, ents, closed, left, hurt, writer>>

\* The semaphore, whose only client is the reader, and under no context.
Acquire ==
    /\ rpc = "acquire" /\ used + Permits <= BufferBytes
    /\ used' = used + Permits
    /\ rpc' = "read"
    /\ UNCHANGED <<mode, nar, pos, pend, ents, closed, left, hurt, writer>>

\* The contents are read, and a process is started that will compress or
\* uncompress them, unless the file is not one that is understood.
ReadFile ==
    /\ rpc = "read"
    /\ rpc' = "send"
    /\ LET i == Here.of IN
       pend' = IF ~Splits(nar[i]) THEN <<Sent(Here, Size, Permits)>>
               ELSE IF mode = "expand" THEN <<Sent(Meta(i), 0, 0), Sent(Data(i), Size, Permits)>>
               ELSE <<Sent(Whole(i), Size, Permits)>>
    /\ UNCHANGED <<mode, nar, pos, ents, closed, used, left, hurt, writer>>

\* Mutant: a failed reader only closes the channel.
ReadFailsQuietly ==
    /\ rpc \in {"next", "read"} \/ (rpc = "send" /\ pend[1].ent.form = "data")
    /\ rpc' = "closed" /\ closed' = TRUE
    /\ hurt' = TRUE
    /\ UNCHANGED <<mode, nar, pos, pend, ents, used, left, writer>>

\* The nar is broken, or the process cannot be started, which is found out
\* between the two entries: an error is sent, and nothing after it.
ReadFails ==
    /\ rpc \in {"next", "read"} \/ (rpc = "send" /\ pend[1].ent.form = "data")
    /\ rpc' = "send" /\ pend' = <<Sent(Error, 0, 0)>>
    /\ hurt' = TRUE
    /\ UNCHANGED <<mode, nar, pos, ents, closed, used, left, writer>>

Send ==
    /\ rpc = "send" /\ Len(ents) < BufferEntries
    /\ ents' = Append(ents, Head(pend))
    /\ pend' = Tail(pend)
    /\ rpc' = IF pend' # <<>> THEN "send"
              ELSE IF Head(pend).ent = Error THEN "closed" ELSE "next"
    /\ closed' = (rpc' = "closed")
    /\ UNCHANGED <<mode, nar, pos, used, left, hurt, writer>>

ReadEnd ==
    /\ rpc = "next" /\ pos = Len(Input)
    /\ rpc' = "closed" /\ closed' = TRUE
    /\ UNCHANGED <<mode, nar, pos, pend, ents, used, left, hurt, writer>>
-----------------------------------------------------------------------------
(* The writer: writeEnts *)

reader == <<rpc, pos, pend, closed>>

WriterFails == wpc' = "done" /\ end' = "err"

Receive ==
    /\ wpc = "recv" /\ ents # <<>>
    /\ ents' = Tail(ents)
    /\ IF Head(ents).ent = Error
       THEN WriterFails /\ UNCHANGED cur
       ELSE wpc' = "write" /\ cur' = <<Head(ents)>> /\ UNCHANGED end
    /\ UNCHANGED <<mode, nar, used, out, left, hurt, reader>>

\* The bytes the header of an entry announces, and those there are for it: what
\* a process makes of the contents.
Header(e) == IF e.form = "data" THEN Announced(nar[e.of].packed) ELSE nar[e.of].size
Given(e) ==
    LET f == nar[e.of] IN
    IF ~Splits(f) \/ e.form = "meta" THEN {f.size}
    ELSE IF mode = "expand" THEN {Contents(f.packed)}
    ELSE Recompressed(f.packed, f.size)

\* Header and contents; the process may fail, or make more or less of the
\* contents than the header says.
Write ==
    /\ wpc = "write" /\ ~left
    /\ LET e == cur[1].ent IN
       \/ \E n \in Given(e) :
            /\ IF n = Header(e)
               THEN wpc' = "release" /\ out' = Append(out, e) /\ UNCHANGED end
               ELSE WriterFails /\ UNCHANGED out
            /\ UNCHANGED hurt
       \/ Splits(nar[e.of]) /\ e.form # "meta" /\ WriterFails /\ hurt' = TRUE /\ UNCHANGED out
    /\ UNCHANGED <<mode, nar, ents, used, cur, left, reader>>

\* Mutants: a process that failed is only noted; only the process is waited for.
ReleaseContinues ==
    /\ wpc = "release"
    /\ wpc' = "recv" /\ cur' = <<>>
    /\ used' = used - cur[1].permits
    /\ end' \in {"open", "err"}
    /\ UNCHANGED <<mode, nar, ents, out, left, hurt, reader>>
ReleaseNone ==
    /\ wpc = "release"
    /\ wpc' = "recv" /\ cur' = <<>>
    /\ UNCHANGED <<mode, nar, ents, used, out, end, left, hurt, reader>>

\* The permits are returned, whether or not the process that uncompressed was
\* content.
Release ==
    /\ wpc = "release"
    /\ used' = used - cur[1].permits
    /\ cur' = <<>>
    /\ \/ wpc' = "recv" /\ UNCHANGED <<end, hurt>>
       \/ mode = "expand" /\ cur[1].ent.form = "data" /\ WriterFails /\ hurt' = TRUE
    /\ UNCHANGED <<mode, nar, ents, out, left, reader>>

Finish ==
    /\ wpc = "recv" /\ ents = <<>> /\ closed
    /\ wpc' = "done" /\ end' = "ok"
    /\ UNCHANGED <<mode, nar, ents, used, cur, out, left, hurt, reader>>

\* Whoever read from the pipe stops; the pipe is not closed.
Leave ==
    /\ ~left /\ left' = TRUE
    /\ UNCHANGED <<mode, nar, ents, used, hurt, reader, writer>>
-----------------------------------------------------------------------------
Reader == ReadNext \/ Acquire \/ ReadFile \/ ReadFails \/ Send \/ ReadEnd
Writer == Receive \/ Write \/ Release \/ Finish

Next == Reader \/ Writer \/ Leave

Spec == Init /\ [][Next]_vars

\* Both goroutines go on, and the nar comes to an end.
FairSpec == Spec /\ WF_vars(Reader) /\ WF_vars(Writer)
-----------------------------------------------------------------------------
\* What is buffered: being written, sent and not received, or made and not sent.
InFlight == cur \o ents \o pend

TypeOK ==
    /\ rpc \in {"next", "acquire", "read", "send", "closed"}
    /\ wpc \in {"recv", "write", "release", "done"}
    /\ pos \in 0..Len(Input) /\ used \in 0..BufferBytes
    /\ Len(pend) <= 2 /\ Len(ents) <= BufferEntries /\ Len(cur) <= 1
    /\ {closed, left, hurt} \subseteq BOOLEAN
    /\ end \in {"open", "ok", "err"} /\ (end = "open") = (wpc # "done")

\* narexpander.go:139,195,319,380: the bytes of all buffered files fit the buffer,
\* unless a single file is larger than it, which is then the only one.
BufferKept ==
    LET here == IF rpc = "read" THEN <<Sent(Here, Size, Permits)>> ELSE <<>>
        held == InFlight \o here
    IN  (\E i, j \in DOMAIN held : i < j /\ held[i].size > 0 /\ held[j].size > 0)
            => Total([i \in DOMAIN held |-> held[i].size]) <= BufferBytes

\* narexpander.go:382-420: a writer that is content leaves nothing behind: no
\* entry, no permit, no goroutine.
CleanEnd == end = "ok" => InFlight = <<>> /\ used = 0 /\ rpc = "closed"

\* README.md:186-192: compressing again gives the file there was: a filter fails
\* when a read or a process does, or over a file the options cannot tell of.
NoFalseAlarm ==
    end = "err" => hurt \/ \E i \in DOMAIN nar : Splits(nar[i]) /\ ~Plain(nar[i].packed)

\* The promise of a nar filter.
Promise == INSTANCE NarFilter WITH wanted <- Wanted
KeepsPromise == Promise!Spec

\* As long as somebody reads from it, a filter comes to an end, whatever the
\* sizes of its files, of its buffer and of its channel.
Ends == <>(left \/ end # "open")
=============================================================================
