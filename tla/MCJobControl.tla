---------------------------- MODULE MCJobControl ----------------------------
(***************************************************************************)
(* Instances of JobControl for TLC.                                        *)
(***************************************************************************)
EXTENDS JobControl, TLC

Symmetric == Permutations(Datasets) \cup Permutations(Runs)
               \cup Permutations(Keys) \cup Permutations(Workers)

\* The README, the front end and its QUEUE_FULL text all promise a waiting room
\* of ten.  CreateSimulation admits one more while no run occupies the slot,
\* and a preflight or a slow worker can leave it so: the run that was admitted
\* as the next to execute then waits as well.
WaitingRoomAsDocumented == Cardinality(InStatus({"QUEUED"})) <= WaitCapacity
=============================================================================
