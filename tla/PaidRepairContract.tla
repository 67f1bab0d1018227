------------------------- MODULE PaidRepairContract -------------------------
(***************************************************************************)
(* What paying for a semantic repair promises, whatever the middleware,    *)
(* the facilitator and lost replies do: only a payment settled on the      *)
(* ledger buys an attempt of the language model, it buys at most one, and  *)
(* a repair is accepted only as the result of such an attempt.             *)
(***************************************************************************)
CONSTANTS Payments

VARIABLES
    paid,      \* payments settled on the ledger
    used,      \* payments that bought an attempt
    accepted   \* payments whose attempt produced a verified_repaired outcome

contractVars == <<paid, used, accepted>>

Init ==
    /\ paid = {}
    /\ used = {}
    /\ accepted = {}

Settle(p) ==
    /\ paid' = paid \cup {p}
    /\ UNCHANGED <<used, accepted>>

Attempt(p) ==
    /\ p \in paid \ used
    /\ used' = used \cup {p}
    /\ UNCHANGED <<paid, accepted>>

Accept(p) ==
    /\ p \in used
    /\ accepted' = accepted \cup {p}
    /\ UNCHANGED <<paid, used>>

Next == \E p \in Payments : Settle(p) \/ Attempt(p) \/ Accept(p)

Spec == Init /\ [][Next]_contractVars
=============================================================================
