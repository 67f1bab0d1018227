------------------------------ MODULE MCBrowser -------------------------------
(* Browser on a small instance. *)
EXTENDS Browser, TLC

Symmetry == Permutations(Calls) \cup Permutations(Repairs)
=============================================================================
