----------------------------- MODULE Analytics -----------------------------
(***************************************************************************)
(* What analyzeLog (analytics.go) makes of the log of a substituter: how    *)
(* many requests ended how, and how much was downloaded for them.           *)
(***************************************************************************)
EXTENDS Integers, Sequences

Failed == {"", "notfound", "toosmall", "toobig", "nobase", "identical"}

\* An R record is of a request for a narinfo; a D record of a delta for the nar.
RRecord(id, nar, file, failed) ==
    [kind |-> "R", id |-> id, nar |-> nar, file |-> file, failed |-> failed]
DRecord(id, nar, diff) == [kind |-> "D", id |-> id, nar |-> nar, diff |-> diff]

NoRecords ==
    [fmap |-> [f \in Failed |-> 0], reqmap |-> <<>>, diffed |-> <<>>, missing |-> 0, tActual |-> 0]

\* Of what was found identical nothing is downloaded.
AddRequest(sum, r) ==
    [sum EXCEPT !.fmap[r.failed] = @ + 1,
                !.reqmap = [id \in DOMAIN @ \cup {r.id} |->
                               IF id = r.id THEN [file |-> r.file, diff |-> 0] ELSE @[id]],
                !.tActual = @ + IF r.failed = "identical" THEN 0 ELSE r.file]

\* Mutant: the delta is counted beside the file.
AddDiffBeside(sum, d) ==
    IF d.id \in DOMAIN sum.reqmap
    THEN [sum EXCEPT !.tActual = @ + d.diff,
                     !.reqmap[d.id].diff = d.diff, !.diffed = Append(@, d.id)]
    ELSE [sum EXCEPT !.missing = @ + 1]

\* The delta was downloaded instead of the file.
AddDiff(sum, d) ==
    IF d.id \in DOMAIN sum.reqmap
    THEN [sum EXCEPT !.tActual = @ - sum.reqmap[d.id].file + d.diff,
                     !.reqmap[d.id].diff = d.diff, !.diffed = Append(@, d.id)]
    ELSE [sum EXCEPT !.missing = @ + 1]

AddRecord(sum, r) == IF r.kind = "R" THEN AddRequest(sum, r) ELSE AddDiff(sum, r)

AnalyzeLog(log) ==
    LET sum[i \in 0..Len(log)] == IF i = 0 THEN NoRecords ELSE AddRecord(sum[i - 1], log[i])
    IN  sum[Len(log)]

Requested(sum) ==
    LET fmap == sum.fmap IN
    fmap[""] + fmap["notfound"] + fmap["toosmall"] + fmap["toobig"] + fmap["nobase"] + fmap["identical"]

\* The sizes of the files and of the deltas of what was diffed; a delta without
\* statistics does not count.
AddCompared(t, r) ==
    IF r.diff = 0 THEN t ELSE [file |-> t.file + r.file, diff |-> t.diff + r.diff]

Compared(sum) ==
    LET t[i \in 0..Len(sum.diffed)] ==
            IF i = 0 THEN [file |-> 0, diff |-> 0]
            ELSE AddCompared(t[i - 1], sum.reqmap[sum.diffed[i]])
    IN  t[Len(sum.diffed)]
=============================================================================
