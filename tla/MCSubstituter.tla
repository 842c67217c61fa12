--------------------------- MODULE MCSubstituter ---------------------------
(* Instances of Substituter for TLC. *)
EXTENDS Substituter, TLC

CONSTANTS p1, p2, p3, n1, n2, n3

\* Each path has its own contents.
Nars == p1 :> n1 @@ p2 :> n2 @@ p3 :> n3

\* Connections are alike.
Alike == Permutations(Conn)
=============================================================================
