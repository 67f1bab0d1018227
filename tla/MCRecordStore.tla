---------------------------- MODULE MCRecordStore ----------------------------
(* Instances of RecordStore for TLC.                                         *)
EXTENDS RecordStore, TLC

CONSTANTS q1, q2, q3, c1, c2, c3, t1, t2, r1, r2

\* Two calls about q1 (a /verify and the /semantic-repair that follows it, or
\* two overlapping retries) and one about q2.
SharedRequestOf == (c1 :> q1) @@ (c2 :> q1) @@ (c3 :> q2)

\* One call per request.
DistinctRequestOf == (c1 :> q1) @@ (c2 :> q2) @@ (c3 :> q3)

MixedEndpointOf == (c1 :> "verify") @@ (c2 :> "semantic") @@ (c3 :> "verify")
VerifyEndpointOf == [c \in {c1, c2, c3} |-> "verify"]

\* Runs are interchangeable, and so are threads: no other constant mentions one.
Symmetry == Permutations({r1, r2}) \cup Permutations({t1, t2})
=============================================================================
