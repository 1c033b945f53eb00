----------------------------- MODULE MCHistory -----------------------------
(* Model checking of HistoryPage: a filter that selects the odd runs. *)
EXTENDS HistoryPage

Odd(f, r) == f = "all" \/ r % 2 = 1
=============================================================================
