-------------------------- MODULE AnchoringContract --------------------------
(***************************************************************************)
(* What the store and the anchoring service promise together, whatever     *)
(* their threads, retries and crashes do: a stored record stays stored, it *)
(* is attached at most once to a transaction, and only to one that the     *)
(* ledger has confirmed before.                                            *)
(***************************************************************************)
CONSTANTS Requests, Transactions, NoAnchor

VARIABLES
    stored,     \* requests with a record
    published,  \* transactions on the ledger
    anchor      \* per request, the transaction its record is attached to

contractVars == <<stored, published, anchor>>

Init ==
    /\ stored = {}
    /\ published = {}
    /\ anchor = [q \in Requests |-> NoAnchor]

Store(q) ==
    /\ stored' = stored \cup {q}
    /\ UNCHANGED <<published, anchor>>

Publish(x) ==
    /\ published' = published \cup {x}
    /\ UNCHANGED <<stored, anchor>>

\* One confirmed transaction is attached to a set of stored records, none of
\* which had one.
Attach(x, S) ==
    /\ x \in published
    /\ S \subseteq stored
    /\ \A q \in S : anchor[q] = NoAnchor
    /\ anchor' = [q \in Requests |-> IF q \in S THEN x ELSE anchor[q]]
    /\ UNCHANGED <<stored, published>>

Next ==
    \/ \E q \in Requests : Store(q)
    \/ \E x \in Transactions : Publish(x)
    \/ \E x \in Transactions, S \in SUBSET Requests : Attach(x, S)

Spec == Init /\ [][Next]_contractVars
=============================================================================
