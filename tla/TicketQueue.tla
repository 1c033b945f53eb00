----------------------------- MODULE TicketQueue -----------------------------
(***************************************************************************)
(* What the scheduler promises to whoever submits work, with no lease, no  *)
(* worker and no recovery in sight: tasks are served one at a time in the  *)
(* order of their tickets, each task is served at most once, and a task    *)
(* whose cancellation was asked for while it was served ends cancelled.    *)
(***************************************************************************)
EXTENDS Naturals

CONSTANT Tasks

VARIABLES
  ticket,   \* the place each task was given, 0 before it is submitted
  waiting,  \* tasks submitted and not yet served
  serving,  \* the task being served, a set of at most one
  asked,    \* tasks whose cancellation was asked for while served
  outcome   \* how each task ended

tvars == <<ticket, waiting, serving, asked, outcome>>

Endings == {"COMPLETED", "CANCELLED", "FAILED", "FAILED_RECOVERABLE"}

TInit ==
  /\ ticket = [t \in Tasks |-> 0]
  /\ waiting = {}
  /\ serving = {}
  /\ asked = {}
  /\ outcome = [t \in Tasks |-> "OPEN"]

Submit(t) ==
  /\ ticket[t] = 0
  /\ ticket' = [ticket EXCEPT ![t] = ticket'[t]]
  /\ \A u \in Tasks : ticket[u] < ticket'[t]
  /\ waiting' = waiting \cup {t}
  /\ UNCHANGED <<serving, asked, outcome>>

Withdraw(t) ==
  /\ t \in waiting
  /\ waiting' = waiting \ {t}
  /\ outcome' = [outcome EXCEPT ![t] = "CANCELLED"]
  /\ UNCHANGED <<ticket, serving, asked>>

AskCancel(t) ==
  /\ t \in serving
  /\ asked' = asked \cup {t}
  /\ UNCHANGED <<ticket, waiting, serving, outcome>>

\* A task can only end cancelled if that was asked for, and must if it was.
MayEnd(t, e) == IF t \in asked THEN e = "CANCELLED" ELSE e # "CANCELLED"

Finish(t) ==
  /\ t \in serving
  /\ \E e \in Endings :
       MayEnd(t, e) /\ outcome' = [outcome EXCEPT ![t] = e]
  /\ serving' = serving \ {t}
  /\ UNCHANGED <<ticket, waiting, asked>>

\* The server may give up the task it is serving, which then has not
\* completed, and take the next one in the same step.
Lost(t) == IF t \in asked THEN "CANCELLED" ELSE "FAILED_RECOVERABLE"

Serve(t) ==
  /\ t \in waiting
  /\ \A u \in waiting : ticket[t] <= ticket[u]
  /\ waiting' = waiting \ {t}
  /\ serving' = {t}
  /\ outcome' = [u \in Tasks |-> IF u \in serving THEN Lost(u) ELSE outcome[u]]
  /\ UNCHANGED <<ticket, asked>>

TNext ==
  \E t \in Tasks :
    Submit(t) \/ Withdraw(t) \/ AskCancel(t) \/ Finish(t) \/ Serve(t)

TSpec == TInit /\ [][TNext]_tvars
=============================================================================
