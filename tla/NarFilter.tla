----------------------------- MODULE NarFilter -----------------------------
(***************************************************************************)
(* What a nar filter (ExpandNar, CollapseNar) promises to whoever reads     *)
(* from it: the entries it should give, in their order, and after the last  *)
(* one a clean end.  It may fail at any point, but then it says so.         *)
(***************************************************************************)
EXTENDS Naturals, Sequences

VARIABLES
    wanted, \* the entries to give
    out,    \* those given so far
    end     \* how the stream ended: "open" when it has not

vars == <<wanted, out, end>>

Init == out = <<>> /\ end = "open"

Give ==
    /\ end = "open" /\ Len(out) < Len(wanted)
    /\ out' = Append(out, wanted[Len(out) + 1])
    /\ UNCHANGED <<wanted, end>>

Finish ==
    /\ end = "open" /\ out = wanted
    /\ end' = "ok"
    /\ UNCHANGED <<wanted, out>>

Fail ==
    /\ end = "open"
    /\ end' = "err"
    /\ UNCHANGED <<wanted, out>>

Next == Give \/ Finish \/ Fail

Spec == Init /\ [][Next]_vars
=============================================================================
