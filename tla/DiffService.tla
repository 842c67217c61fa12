---------------------------- MODULE DiffService ----------------------------
(***************************************************************************)
(* What the differ promises to its clients, whatever happens behind it: a   *)
(* request is refused with a status and nothing else, or gets the parts of  *)
(* a reply in their order and all of them; only who left gets less.  "Ok"   *)
(* is said of a good delta only.                                            *)
(***************************************************************************)
EXTENDS Naturals, DiffReply

CONSTANT Req    \* the requests, one connection each

VARIABLES
    parts,  \* parts[r]: what was written for r
    ret,    \* ret[r]: the status r was refused or given up with, 0 for none
    gone,   \* gone[r]: has the client left?
    over    \* over[r]: is the request over?

vars == <<parts, ret, gone, over>>

Init ==
    /\ parts = [r \in Req |-> <<>>]
    /\ ret = [r \in Req |-> 0]
    /\ gone = [r \in Req |-> FALSE]
    /\ over = [r \in Req |-> FALSE]

\* The next part; a client reads it or is gone.
Write(r) ==
    /\ ~over[r] /\ ret[r] = 0
    /\ \E part \in {"header", "body", "junk", "ok", "failed"} :
        /\ Append(parts[r], part) \in Replies
        /\ parts' = [parts EXCEPT ![r] = Append(@, part)]
    /\ UNCHANGED <<ret, gone, over>>

\* A status can be given before there is a part, and to nobody.
Fail(r) ==
    /\ ~over[r] /\ ret[r] = 0
    /\ \/ parts[r] = <<>> /\ \E status \in {400, 404, 405, 500, 507} : ret' = [ret EXCEPT ![r] = status]
       \/ gone[r] /\ ret' = [ret EXCEPT ![r] = 500]
    /\ \/ UNCHANGED over
       \/ over' = [over EXCEPT ![r] = TRUE]
    /\ UNCHANGED <<parts, gone>>

\* All was said.
End(r) ==
    /\ ~over[r] /\ (ret[r] # 0 \/ Len(parts[r]) = 3)
    /\ over' = [over EXCEPT ![r] = TRUE]
    /\ UNCHANGED <<parts, ret, gone>>

Leave(r) ==
    /\ ~over[r] /\ ~gone[r]
    /\ gone' = [gone EXCEPT ![r] = TRUE]
    /\ UNCHANGED <<parts, ret, over>>

\* Another request on the connection.
Again(r) ==
    /\ over[r]
    /\ parts' = [parts EXCEPT ![r] = <<>>]
    /\ ret' = [ret EXCEPT ![r] = 0]
    /\ gone' = [gone EXCEPT ![r] = FALSE]
    /\ over' = [over EXCEPT ![r] = FALSE]

Next == \E r \in Req : Write(r) \/ Fail(r) \/ End(r) \/ Leave(r) \/ Again(r)

Spec == Init /\ [][Next]_vars
=============================================================================
