--------------------------- MODULE Console_proofs ---------------------------
(***************************************************************************)
(* The views at their desks: a behaviour of MCConsole is a behaviour of    *)
(* each view's own specification, so that what is proved of a view holds   *)
(* of the page.                                                            *)
(***************************************************************************)
EXTENDS MCConsole, DatasetIntake_proofs, HistoryPage_proofs, QueueBoard_proofs,
        ProfileDrafts_proofs

\* Whoever works at one desk leaves the other views alone: MCConsole checks
\* each view's own specification.
THEOREM DesksAreViews == CFairSpec => Spec /\ HSpec /\ QSpec /\ PSpec
<1>1. CInit => Init /\ HInit /\ QInit /\ PInit
  BY DEF CInit
<1>2. [CNext]_cvars => [Next]_vars /\ [HNext]_hvars /\ [QNext]_qvars /\ [PNext]_pvars
  BY DEF CNext, cvars
<1> QED
  BY <1>1, <1>2, PTL DEF CFairSpec, Spec, HSpec, QSpec, PSpec

\* Every view keeps its types, whatever the number of datasets, runs, calls,
\* values, requests and failures.
THEOREM ViewsKeepTypes == CFairSpec => []ConsoleTypeOK
BY DesksAreViews, IntakeTypes, HistoryTypes, QueueTypes, DraftTypes, PTL DEF ConsoleTypeOK
=============================================================================
