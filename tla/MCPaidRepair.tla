---------------------------- MODULE MCPaidRepair -----------------------------
(* Instances of PaidRepair for TLC.                                          *)
EXTENDS ResultView, TLC

\* Calls and payments are interchangeable: no other constant mentions one.
Symmetry == Permutations(Calls) \cup Permutations(Payments)
=============================================================================
