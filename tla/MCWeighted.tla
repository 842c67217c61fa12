----------------------------- MODULE MCWeighted -----------------------------
(* Instances of Weighted for TLC. *)
EXTENDS Weighted, TLC

CONSTANTS one, uno, two, three, four

\* Two small clients, a larger one, one as large as the semaphore, and one
\* larger than it.
Weights == one :> 1 @@ uno :> 1 @@ two :> 2 @@ three :> 3 @@ four :> 4

\* What the theorems assume holds of it.
ASSUME WeightedAssumption == Params /\ Positive
=============================================================================
