------------------------------ MODULE MCDiffer ------------------------------
(* Instances of Differ for TLC. *)
EXTENDS Differ, TLC

CONSTANTS a, b, c, d

Sizes121 == a :> 1 @@ b :> 2 @@ c :> 1
Sizes1219 == a :> 1 @@ b :> 2 @@ c :> 1 @@ d :> 9
Sizes12  == a :> 1 @@ b :> 2

\* The base of a is larger than its requested nar, the nar of b is expanded.
Bytes121 == [t \in Task |->
                ReqNarSize[t[1]] + IF t \in {<<a, "base">>, <<b, "req">>} THEN 1 ELSE 0]
=============================================================================
