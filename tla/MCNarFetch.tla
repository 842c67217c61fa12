----------------------------- MODULE MCNarFetch -----------------------------
(* Every kind of nar, for TLC. *)
EXTENDS NarFetch

AllJobs == [algo : {"zstd", "xdelta"}, filter : BOOLEAN, fits : BOOLEAN, room : BOOLEAN]
=============================================================================
