---------------------------- MODULE MCMerkleProof ----------------------------
(* Instances of MerkleProof for TLC.                                         *)
EXTENDS MerkleProof, TLC

\* Receipt hashes are interchangeable.
Symmetry == Permutations(Receipts)
=============================================================================
