------------------------------ MODULE NarFetch ------------------------------
(***************************************************************************)
(* One nar served by the substituter (getNarCommon in subst.go): the reply  *)
(* of the differ, the dump of the local base, the decoder that makes the    *)
(* nar of the two, and for a filtered nar the goroutines that expand the    *)
(* base before the decoder and collapse its output behind it.  Processes    *)
(* and goroutines are joined by pipes, which hold little: a writer goes on  *)
(* only while somebody reads.                                               *)
(***************************************************************************)
EXTENDS Naturals, DiffReply

CONSTANTS
    Jobs    \* the kinds of nars to serve

\* The decoder, whether there is a nar filter, whether the base fits a pipe, and
\* whether it fits the temp directory.
ASSUME NarFetchAssumption ==
    Jobs \subseteq [algo : {"zstd", "xdelta"}, filter : BOOLEAN, fits : BOOLEAN, room : BOOLEAN]

VARIABLES
    job,    \* the kind of this nar
    reply,  \* the parts the differ sends, as far as they arrive (DiffReply)
    pc,     \* where getNarCommon is
    ret,    \* what it returns: the status, 0 for a nar that was served
    gone,   \* the client left: the request's context is done
    dump,   \* nix-store --dump: running, or how it exited
    reaped, \* has writeNar.Wait returned?
    expand, \* the goroutines of the expand filter
    dec,    \* the decoder and its output pipe
    out,    \* what the decoder wrote
    col     \* the goroutines of the collapse filter

vars == <<job, reply, pc, ret, gone, dump, reaped, expand, dec, out, col>>

PC == {"post", "reply", "copy", "decode", "filter", "dump", "trailer", "unwind", "done"}

Init ==
    /\ job \in Jobs
    /\ reply = <<>>
    /\ pc = "post"
    /\ ret = 0
    /\ gone = FALSE
    /\ dump = "off"
    /\ reaped = FALSE
    /\ expand = "off"
    /\ dec = "off"
    /\ out = "none"
    /\ col = "off"

\* The handler goes to "to", or returns with a status through "via".
Goto(to) == pc' = to /\ UNCHANGED ret
Fail(via, status) == pc' = via /\ ret' = status
-----------------------------------------------------------------------------
(* The handler, getNarCommon *)

\* Mutant: the differ's status is returned whatever it is.
PostPassesAll ==
    /\ pc = "post"
    /\ \/ Goto("reply") /\ reply' \in Replies
       \/ /\ \E status \in {200, 400, 404, 500, 507} : Fail("done", status)
          /\ UNCHANGED reply
    /\ UNCHANGED <<job, gone, dump, reaped, expand, dec, out, col>>

\* The differ answers as it promises (DiffService), and its connection may end
\* after any part.  Its status is passed on when it is not 200.
Post ==
    /\ pc = "post"
    /\ \/ Goto("reply") /\ reply' \in Replies
       \/ /\ \E status \in {400, 404, 500, 507} : Fail("done", status)
          /\ UNCHANGED reply
    /\ UNCHANGED <<job, gone, dump, reaped, expand, dec, out, col>>

\* The header names the algorithm, the body begins: start the dump and, behind
\* the filters, the decoder.  zstd wants the whole base first.
Start ==
    /\ pc = "reply"
    /\ Len(reply) >= 2
    /\ Goto(IF job.algo = "zstd" THEN "copy" ELSE "decode")
    /\ dump' = "run"
    /\ expand' = IF job.filter THEN "run" ELSE "off"
    /\ col' = IF job.filter THEN "run" ELSE "off"
    /\ dec' = IF job.algo = "zstd" THEN "off" ELSE "run"
    /\ UNCHANGED <<job, reply, gone, reaped, out>>

\* A part is missing or unknown, or the dump cannot be started.
StartFails ==
    /\ pc = "reply"
    /\ Fail("done", 500)
    /\ UNCHANGED <<job, reply, gone, dump, reaped, expand, dec, out, col>>

\* Mutant: zstd's base is not copied to its end.
CopyPart ==
    /\ pc = "copy"
    /\ Goto("decode") /\ dec' = "run"
    /\ UNCHANGED <<job, reply, gone, dump, reaped, expand, out, col>>

\* The base has ended, in a good dump or a broken one; only the filter tells.
\* Or it cannot be written to the temp directory.
Copy ==
    /\ pc = "copy"
    /\ \/ /\ IF job.filter THEN expand = "ok" ELSE dump \in {"ok", "bad"}
          /\ Goto("decode") /\ dec' = "run"
       \/ /\ expand = "bad" \/ ~job.room
          /\ Fail("unwind", 500) /\ UNCHANGED dec
    /\ UNCHANGED <<job, reply, gone, dump, reaped, expand, out, col>>

\* Expand returns when the decoder has ended.  For xdelta an expanded base that
\* was not read to its end is an error.
Decode ==
    /\ pc = "decode" /\ dec \in {"ok", "bad"}
    /\ IF dec = "ok" /\ (job.filter => expand = "ok")
       THEN Goto("filter")
       ELSE Fail("unwind", 500)
    /\ UNCHANGED <<job, reply, gone, dump, reaped, expand, dec, out, col>>

\* Mutant: the collapse filter is not waited for.
FilterNotAwaited ==
    /\ pc = "filter"
    /\ Goto("dump")
    /\ UNCHANGED <<job, reply, gone, dump, reaped, expand, dec, out, col>>

\* filterErrCh: nil at once without a filter.
Filter ==
    /\ pc = "filter" /\ col # "run"
    /\ Goto("dump")
    /\ UNCHANGED <<job, reply, gone, dump, reaped, expand, dec, out, col>>

\* writeNar.Wait, then the two errors.
WaitDump ==
    /\ pc = "dump" /\ dump \in {"ok", "bad"}
    /\ reaped' = TRUE
    /\ IF dump = "ok" /\ col # "bad" THEN Goto("trailer") ELSE Fail("unwind", 500)
    /\ UNCHANGED <<job, reply, gone, dump, expand, dec, out, col>>

\* The trailer must come, must be the last part, and must be ok.
Trailer ==
    /\ pc = "trailer"
    /\ \/ reply = <<"header", "body", "ok">> /\ Goto("unwind")
       \/ (reply # <<"header", "body", "ok">> \/ gone) /\ Fail("unwind", 500)
    /\ UNCHANGED <<job, reply, gone, dump, reaped, expand, dec, out, col>>

\* Mutant: the deferred Wait is left out.
UnwindNoWait ==
    /\ pc = "unwind"
    /\ Goto("done")
    /\ UNCHANGED <<job, reply, gone, dump, reaped, expand, dec, out, col>>

\* The deferred calls, last deferred first: Wait for the dump, and only then
\* cancel what would have killed it.
Unwind ==
    /\ pc = "unwind" /\ dump \in {"ok", "bad"}
    /\ reaped' = TRUE
    /\ Goto("done")
    /\ UNCHANGED <<job, reply, gone, dump, expand, dec, out, col>>
-----------------------------------------------------------------------------
(* The processes and goroutines *)

\* Does anybody take what comes of the base, and so of the dump?
BaseWanted == pc = "copy" \/ dec = "run"
DumpRead == IF job.filter THEN expand = "run" /\ BaseWanted ELSE BaseWanted

\* The dump ends when it has written everything.  The base may also be gone
\* from the store.
DumpExit ==
    /\ dump = "run"
    /\ dump' \in {"ok", "bad"}
    /\ dump' = "ok" => DumpRead \/ job.fits
    /\ UNCHANGED <<job, reply, pc, ret, gone, reaped, expand, dec, out, col>>

\* Mutant: the processes are started without the request's context.
KillNothing == FALSE /\ pc' = pc

\* The request's context is done: exec kills the dump and the decoder.
Kill ==
    /\ gone
    /\ \/ dump = "run" /\ dump' = "bad" /\ UNCHANGED <<dec, out>>
       \/ /\ dec = "run" /\ (job.filter => col = "run")
          /\ dec' = "bad" /\ out' = "part"
          /\ UNCHANGED dump
    /\ UNCHANGED <<job, reply, pc, ret, gone, reaped, expand, col>>

\* The filter ends behind the dump, while somebody reads it, or fails on the
\* way.
ExpandEnd ==
    /\ expand = "run"
    /\ \/ dump = "ok" /\ BaseWanted /\ expand' = "ok"
       \/ expand' = "bad"
    /\ UNCHANGED <<job, reply, pc, ret, gone, dump, reaped, dec, out, col>>

\* The decoder ends when its output has been taken.  What it makes of a delta
\* that is not whole, or of a base that broke off, is not the nar.  xdelta
\* reads only as much of its base as the delta names.
DecoderExit ==
    /\ dec = "run" /\ (job.filter => col = "run")
    /\ dec' \in {"ok", "bad"}
    /\ out' = IF dec' = "ok" /\ reply[2] = "body" /\ dump # "bad" /\ expand # "bad"
              THEN "whole" ELSE "part"
    /\ UNCHANGED <<job, reply, pc, ret, gone, dump, reaped, expand, col>>

\* The collapse filter ends with the nar: a part of one leaves it waiting.  It
\* may fail on the way, as when the client cannot be written to; nobody reads
\* the decoder's output then.  What it compresses again is taken to be the
\* member's bytes; Nix, which compares the nar's hash, is outside the model.
CollapseEnd ==
    /\ col = "run"
    /\ \/ out = "whole" /\ col' = "ok"
       \/ col' = "bad"
    /\ UNCHANGED <<job, reply, pc, ret, gone, dump, reaped, expand, dec, out>>

Disconnect ==
    /\ pc # "done" /\ ~gone
    /\ gone' = TRUE
    /\ UNCHANGED <<job, reply, pc, ret, dump, reaped, expand, dec, out, col>>
-----------------------------------------------------------------------------
Handler ==
    \/ Post \/ Start \/ StartFails \/ Copy \/ Decode \/ Filter \/ WaitDump \/ Trailer \/ Unwind

Next ==
    \/ Handler \/ DumpExit \/ Kill \/ ExpandEnd \/ DecoderExit \/ CollapseEnd
    \/ Disconnect

Spec == Init /\ [][Next]_vars

\* The differ answers, and whatever can go on does; the client need not leave.
FairSpec ==
    /\ Spec
    /\ WF_vars(Handler) /\ WF_vars(DumpExit /\ dump' = "ok") /\ WF_vars(Kill)
    /\ WF_vars(DecoderExit) /\ WF_vars(ExpandEnd) /\ WF_vars(CollapseEnd)
-----------------------------------------------------------------------------
TypeOK ==
    /\ job \in Jobs /\ reply \in Replies /\ pc \in PC /\ ret \in {0, 400, 404, 500, 507}
    /\ gone \in BOOLEAN /\ reaped \in BOOLEAN
    /\ {dump, expand, dec, col} \subseteq {"off", "run", "ok", "bad"}
    /\ out \in {"none", "part", "whole"}

\* The client has the whole nar.
Served == out = "whole" /\ (job.filter => col = "ok")

\* subst.go:249-291: getNarCommon reports success only when the client has the
\* whole nar, the base was dumped to its end, and the differ vouched for the
\* delta.
OkMeansServed ==
    pc = "done" /\ ret = 0 =>
        Served /\ dump = "ok" /\ reply = <<"header", "body", "ok">>

\* subst.go:227, algo.go:140,239: when the handler has returned, it has waited
\* for every process it started.
Reaped == pc = "done" => dec # "run" /\ (dump = "off" \/ reaped)

\* subst.go:213-227: an unfiltered nar ends when its client leaves, wherever
\* the processes are, so that its permit returns.
GoneReturns == (gone /\ ~job.filter) ~> pc = "done"

\* algo.go:210: zstd reads its base to the end before anything but the temp
\* directory can fail, so that an unfiltered nar ends without its client's help.
ZstdReturns ==
    (pc = "reply" /\ job.algo = "zstd" /\ ~job.filter /\ job.room) ~> pc = "done"

\* subst.go:255 "this should also be done now": when the decoder and the filter
\* are done, the wait for the dump ends by itself.
DumpDone == pc = "dump" ~> pc # "dump"
=============================================================================
