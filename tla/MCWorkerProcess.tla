--------------------------- MODULE MCWorkerProcess ---------------------------
(***************************************************************************)
(* Instances of WorkerProcess for TLC.                                     *)
(***************************************************************************)
EXTENDS WorkerProcess, TLC

TwoStages == <<"PREPROCESSING", "TESTING">>

Symmetric == Permutations(Runs) \cup Permutations(Keys)
               \cup Permutations(Workers)

\* The lifecycle contract: a cancellation never commits a complete artifact
\* manifest.  The rename to committed comes before the last look at the
\* cancellation, so a run cancelled in between keeps its published manifest.
CancelledCommitsNoManifest ==
  \A r \in Runs : sim[r] = "CANCELLED" => ~published[r]
=============================================================================
