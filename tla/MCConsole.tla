----------------------------- MODULE MCConsole -----------------------------
(***************************************************************************)
(* Model checking of the page's views.  A behaviour works at one desk: the *)
(* other views stay as they start, so that the instance is the sum of the  *)
(* four models and not their product.                                      *)
(***************************************************************************)
EXTENDS DatasetIntake, MCHistory, QueueBoard, ProfileDrafts

Desks == {"data", "config", "queue", "history"}

VARIABLE desk

cvars == <<desk, vars, hvars, qvars, pvars>>

\* A desk nobody works at.
Unused ==
  /\ desk # "config" => stored = <<>>
  /\ desk # "queue" => \A r \in Tasks : trail[r] = <<>>

CInit == desk \in Desks /\ Init /\ HInit /\ QInit /\ PInit /\ Unused

CNext ==
  /\ UNCHANGED desk
  /\ \/ desk = "data" /\ Next /\ UNCHANGED <<hvars, qvars, pvars>>
     \/ desk = "config" /\ PNext /\ UNCHANGED <<vars, hvars, qvars>>
     \/ desk = "queue" /\ QNext /\ UNCHANGED <<vars, hvars, pvars>>
     \/ desk = "history" /\ HNext /\ UNCHANGED <<vars, qvars, pvars>>

\* Only at the queue's desk is a fair action enabled from the start.
CFairSpec ==
  /\ CInit /\ [][CNext]_cvars
  /\ Fairness /\ PFairness /\ QAnswers /\ HFairness
  /\ WF_cvars(desk = "queue" /\ LoadQueue /\ UNCHANGED <<desk, vars, hvars, pvars>>)

\* The views' types.
ConsoleTypeOK == IntakeTypeOK /\ PTypeOK /\ QTypeOK /\ HTypeOK

\* Nothing stays pending: a list that loads is listed or fails in the end
\* (the epochs of loadHistory), a save is answered or fails (saveCustomDraft).
RequestsSettle == ListSettles /\ SaveSettles
=============================================================================
