---------------------------- MODULE MCSysChecker ----------------------------
(* Instances of SysChecker for TLC. *)
EXTENDS SysChecker, TLC

CONSTANTS glibc64, glibc32

\* Two libcs for two systems.
Systems == glibc64 :> "x86_64" @@ glibc32 :> "i686"

\* Requests are alike.
Alike == Permutations(Request)
=============================================================================
