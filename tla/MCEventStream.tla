--------------------------- MODULE MCEventStream ---------------------------
(* Instances of EventStream for TLC.                                       *)
EXTENDS EventStream, TLC

Symmetric == Permutations(Runs) \cup Permutations(Streams)
============================================================================
