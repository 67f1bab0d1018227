--------------------------- MODULE MCAnchoringPage ----------------------------
(* AnchoringPage on a small instance: more records than one listing shows and *)
(* than the table of proofs has rows, and two proof requests.                 *)
EXTENDS AnchoringPage, TLC

Symmetry == Permutations(Fetches)
=============================================================================
