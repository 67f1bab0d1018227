---------------------------- MODULE Verification ----------------------------
(***************************************************************************)
(* The verification pipeline: validation (validation/engine.py and its     *)
(* stages), deterministic repair (repair/deterministic.py), the decision   *)
(* (services/orchestrator.py, api/semantic.py) and the receipt that states *)
(* it (evidence/receipt.py), for one request of either endpoint.           *)
(*                                                                         *)
(* A payload maps each field to a value.  A value has a Python type and,   *)
(* if it denotes a number, that number in halves: [kind |-> "intstr",      *)
(* n |-> 4] is the string "2", [kind |-> "float", n |-> 3] is 1.5, False   *)
(* and True are 0 and 1.  An int is of any size; a float holds the numbers *)
(* of Double only, Infinity among them, which the string "inf" denotes too *)
(* and which Double gives for what is out of a float's range.  It is odd:  *)
(* no int is infinite.  Of a schema the types, the required fields and the     *)
(* defaults of its top-level properties are modelled, which is what the    *)
(* repair looks at.                                                        *)
(***************************************************************************)
EXTENDS Integers

CONSTANTS
    Fields,
    Numbers,     \* the numbers of the payloads, in halves
    Double,      \* the float that Python converts a number to
    Infinity,    \* the number of a float
    Policies,
    Payloads,    \* what may be submitted
    Candidates,  \* what the language model may answer
    Absent,      \* the value of a field that is missing
    None

IntKinds  == {"int", "intstr"}
BoolKinds == {"bool", "boolstr"}
OtherKinds == {"null", "text", "object"}
Strings   == {"intstr", "numstr", "boolstr", "text"}

Value ==
    [kind : IntKinds, n : {i \in Numbers : i % 2 = 0}]
        \cup [kind : BoolKinds, n : {0, 2}]
        \cup [kind : {"numstr"}, n : Numbers]
        \cup [kind : {"float"}, n : {i \in Numbers : Double[i] = i}]
        \cup [kind : OtherKinds, n : {0}]

Payload == [Fields -> Value \cup {Absent}]

\* "union" is an array of types, such as ["integer", "null"]; "any" is no type.
Types == {"integer", "number", "boolean", "string", "union", "any"}

\* The formula of a malformed rule is no expression of Python.
Rule == [computed : Fields, operand : Fields, malformed : BOOLEAN]

Policy ==
    [wellformed : BOOLEAN,
     property   : [Fields -> [type : Types, required : BOOLEAN, default : Value \cup {Absent}]],
     rule       : Rule \cup {None}]

ASSUME PolicyAssumption ==
    /\ Numbers \subseteq Int
    /\ {0, 2} \subseteq Numbers
    /\ Double \in [Numbers -> Numbers]
    /\ \A i \in Numbers : Double[Double[i]] = Double[i]
    /\ Infinity \in Numbers /\ Double[Infinity] = Infinity /\ Infinity % 2 = 1
    /\ Policies \subseteq Policy
    /\ Payloads \subseteq Payload
    /\ Candidates \subseteq Payload
    /\ Absent \notin Value
    /\ None \notin Payload \cup Rule

VARIABLES
    endpoint,   \* "verify" or "semantic"
    policy,
    payload,    \* the submitted output
    step,
    candidate,  \* the repair that was attempted, or None
    result,     \* the VerificationResult of the handler
    final,      \* final_payload
    receipt,    \* the receipt, or None
    shown       \* repaired_output of the response, or None

vars == <<endpoint, policy, payload, step, candidate, result, final, receipt, shown>>

-----------------------------------------------------------------------------
(* Validation.                                                              *)

IsInteger(v) == v.kind = "int" \/ (v.kind = "float" /\ v.n % 2 = 0)

HasType(v, t) ==
    \/ t = "any"
    \/ t = "integer" /\ IsInteger(v)
    \/ t = "number" /\ v.kind \in {"int", "float"}
    \/ t = "boolean" /\ v.kind = "bool"
    \/ t = "string" /\ v.kind \in Strings
    \/ t = "union" /\ (IsInteger(v) \/ v.kind = "null")

SchemaFindings(p, pol) ==
    IF pol.wellformed
    THEN {[stage |-> "schema", field |-> f] :
            f \in {g \in Fields : p[g] = Absent /\ pol.property[g].required}}
         \cup {[stage |-> "type", field |-> f] :
            f \in {g \in Fields : p[g] # Absent /\ ~ HasType(p[g], pol.property[g].type)}}
    ELSE {[stage |-> "invalid schema", field |-> Absent]}

\* float(v) succeeds.
IsNumeral(v) == v.kind \in {"bool", "int", "float", "intstr", "numstr"}

Given(p, f) == p[f] # Absent /\ p[f].kind # "null"

\* What the evaluation of a rule does not catch: the formula is no expression
\* or becomes one of the name "inf", or a conversion to float overflows.
RuleRaises(p, pol) ==
    LET c == pol.rule.computed
        o == pol.rule.operand
    IN  /\ pol.rule # None
        /\ Given(p, o) /\ IsNumeral(p[o])
        /\ \/ pol.rule.malformed
           \/ Double[p[o].n] = Infinity
           \/ Given(p, c) /\ p[c].kind = "int" /\ Double[p[c].n] = Infinity

\* A rule whose operands are missing or no numbers is skipped; a computed
\* field that is no number violates it.
BusinessFindings(p, pol) ==
    LET c == pol.rule.computed
        o == pol.rule.operand
    IN  IF /\ pol.rule # None
           /\ Given(p, o) /\ IsNumeral(p[o])
           /\ Given(p, c) /\ (IsNumeral(p[c]) => Double[p[c].n] # Double[p[o].n])
        THEN {[stage |-> "business_logic", field |-> c]}
        ELSE {}

\* The blocking findings of verify_request, if it does not raise; the others
\* do not matter.
Findings(p, pol) == SchemaFindings(p, pol) \cup BusinessFindings(p, pol)

-----------------------------------------------------------------------------
(* Deterministic repair.                                                    *)

CoerceInt(v) ==
    IF v.kind \in {"int", "float", "intstr"} /\ v.n % 2 = 0
    THEN [kind |-> "int", n |-> v.n] ELSE None

CoerceNumber(v) ==
    IF \/ v.kind \in {"int", "float", "intstr"}
       \/ v.kind = "numstr" /\ v.n # Infinity
    THEN [kind |-> "float", n |-> Double[v.n]] ELSE None

CoerceBool(v) ==
    CASE v.kind \in BoolKinds -> [kind |-> "bool", n |-> v.n]
      [] v.kind = "int"       -> [kind |-> "bool", n |-> IF v.n = 0 THEN 0 ELSE 2]
      [] OTHER                -> None

CoerceString(v) ==
    CASE v.kind \in Strings -> v
      [] v.kind = "int"     -> [kind |-> "intstr", n |-> v.n]
      [] v.kind = "float"   -> [kind |-> "numstr", n |-> v.n]
      [] v.kind = "bool"    -> [kind |-> "boolstr", n |-> v.n]
      [] OTHER              -> None

Coerce(v, t) ==
    CASE t = "integer" -> CoerceInt(v)
      [] t = "number"  -> CoerceNumber(v)
      [] t = "boolean" -> CoerceBool(v)
      [] t = "string"  -> CoerceString(v)
      [] OTHER         -> None

\* Python's ==: 1, 1.0 and True are equal.
PyEqual(v, w) ==
    \/ v = w
    \/ {v.kind, w.kind} \subseteq {"bool", "int", "float"} /\ v.n = w.n

\* Faulty variant: a coerced value replaces the one it is equal to.
CoercedAlways(v, t) == IF Coerce(v, t) # None THEN Coerce(v, t) ELSE v

Coerced(v, t) ==
    IF Coerce(v, t) # None /\ ~ PyEqual(Coerce(v, t), v) THEN Coerce(v, t) ELSE v

\* Schema defaults for missing fields, ...
Filled(p, pol, f) == IF p[f] = Absent THEN pol.property[f].default ELSE p[f]

\* ... then type coercion.
Repaired(p, pol) ==
    [f \in Fields |->
       LET v == Filled(p, pol, f)
       IN  IF v = Absent THEN Absent ELSE Coerced(v, pol.property[f].type)]

\* The lookup of a list of types in _COERCION_MAP raises a TypeError, the
\* conversions float(10**400) and int(inf) an OverflowError.
CoerceRaises(v, t) ==
    \/ t = "union"
    \/ t = "number" /\ v.kind = "int" /\ Double[v.n] = Infinity
    \/ t = "integer" /\ v.kind = "float" /\ v.n = Infinity

RepairRaises(p, pol) ==
    \E f \in Fields :
        /\ Filled(p, pol, f) # Absent
        /\ CoerceRaises(Filled(p, pol, f), pol.property[f].type)

-----------------------------------------------------------------------------
(* The handlers.                                                            *)

Steps    == {"received", "repair", "revalidate", "receipt", "answer", "answered", "error"}
Outcomes == {"verified", "verified_repaired", "rejected"}
Repairs  == {"none", "deterministic", "semantic"}

Result(outcome, repair, paid) == [outcome |-> outcome, repair |-> repair, payment_ref |-> paid]

Init ==
    /\ endpoint \in {"verify", "semantic"}
    /\ policy \in Policies
    /\ payload \in Payloads
    /\ step = "received"
    /\ candidate = None
    /\ result = Result("rejected", "none", FALSE)
    /\ final = payload
    /\ receipt = None
    /\ shown = None

Request == <<endpoint, policy, payload>>

Blocking(findings) == findings # {}
InvalidSchema(findings) == \E x \in findings : x.stage = "invalid schema"

\* Repair is tried for blocking findings of a schema that is valid; the
\* orchestrator leaves findings of the business rules alone to the paid repair.
Repairable(findings) ==
    /\ Blocking(findings)
    /\ ~ InvalidSchema(findings)
    /\ endpoint = "verify" => \E x \in findings : x.stage # "business_logic"

Validate ==
    LET findings == Findings(payload, policy)
    IN  /\ step = "received"
        /\ ~ RuleRaises(payload, policy)
        /\ result' = Result(IF Blocking(findings) THEN "rejected" ELSE "verified", "none", FALSE)
        /\ step' = IF Repairable(findings) THEN "repair" ELSE "receipt"
        /\ UNCHANGED <<Request, candidate, final, receipt, shown>>

\* The handlers answer an exception of the validation with 500 and no receipt.
ValidationFails ==
    /\ \/ step = "received" /\ RuleRaises(payload, policy)
       \/ step = "revalidate" /\ RuleRaises(candidate, policy)
    /\ step' = "error"
    /\ UNCHANGED <<Request, candidate, result, final, receipt, shown>>

\* A payload that comes back unchanged (by its JSON) is no repair.
Attempt(p) ==
    /\ candidate' = IF p = payload THEN None ELSE p
    /\ step' = IF p = payload THEN "receipt" ELSE "revalidate"

DeterministicRepair ==
    /\ step = "repair"
    /\ endpoint = "verify"
    /\ ~ RepairRaises(payload, policy)
    /\ Attempt(Repaired(payload, policy))
    /\ UNCHANGED <<Request, result, final, receipt, shown>>

\* So do they an exception of the repair.
RepairFails ==
    /\ step = "repair"
    /\ endpoint = "verify"
    /\ RepairRaises(payload, policy)
    /\ step' = "error"
    /\ UNCHANGED <<Request, candidate, result, final, receipt, shown>>

\* The language model answers what it likes, or nothing.
SemanticRepair ==
    /\ step = "repair"
    /\ endpoint = "semantic"
    /\ \E c \in Candidates \cup {payload} : Attempt(c)
    /\ UNCHANGED <<Request, result, final, receipt, shown>>

\* Faulty variant: a repair that leaves business findings is accepted.
RevalidateSchemaOnly ==
    /\ step = "revalidate"
    /\ ~ RuleRaises(candidate, policy)
    /\ IF Blocking(SchemaFindings(candidate, policy))
       THEN UNCHANGED <<result, final>>
       ELSE /\ result' = Result("verified_repaired",
                                IF endpoint = "verify" THEN "deterministic" ELSE "semantic",
                                endpoint = "semantic")
            /\ final' = candidate
    /\ step' = "receipt"
    /\ UNCHANGED <<Request, candidate, receipt, shown>>

\* Faulty variant: the result keeps no reference to the payment.
RevalidateUnpaid ==
    /\ step = "revalidate"
    /\ ~ RuleRaises(candidate, policy)
    /\ IF Blocking(Findings(candidate, policy))
       THEN UNCHANGED <<result, final>>
       ELSE /\ result' = Result("verified_repaired",
                                IF endpoint = "verify" THEN "deterministic" ELSE "semantic",
                                FALSE)
            /\ final' = candidate
    /\ step' = "receipt"
    /\ UNCHANGED <<Request, candidate, receipt, shown>>

\* The candidate replaces the submitted output if nothing blocks it.
Revalidate ==
    /\ step = "revalidate"
    /\ ~ RuleRaises(candidate, policy)
    /\ IF Blocking(Findings(candidate, policy))
       THEN UNCHANGED <<result, final>>
       ELSE /\ result' = Result("verified_repaired",
                                IF endpoint = "verify" THEN "deterministic" ELSE "semantic",
                                endpoint = "semantic")
            /\ final' = candidate
    /\ step' = "receipt"
    /\ UNCHANGED <<Request, candidate, receipt, shown>>

\* generate_receipt fails closed on a copy of the result.
ReceiptOutcome(r) ==
    IF /\ r.outcome = "verified_repaired"
       /\ \/ r.repair = "none"
          \/ r.repair = "semantic" /\ ~ r.payment_ref
    THEN "rejected"
    ELSE r.outcome

\* output_hash and repair_summary_hash stand for what they are computed from.
GenerateReceipt ==
    /\ step = "receipt"
    /\ receipt' = [outcome |-> ReceiptOutcome(result), output |-> final,
                   summary |-> result.repair]
    /\ step' = "answer"
    /\ UNCHANGED <<Request, candidate, result, final, shown>>

PyEqualPayload(p, q) ==
    \A f \in Fields :
        \/ p[f] = q[f]
        \/ p[f] # Absent /\ q[f] # Absent /\ PyEqual(p[f], q[f])

\* The orchestrator shows a final payload that differs from the submitted
\* one, the paid handler every candidate.
Answer ==
    /\ step = "answer"
    /\ shown' = IF endpoint = "semantic" THEN candidate
                ELSE IF PyEqualPayload(final, payload) THEN None ELSE final
    /\ step' = "answered"
    /\ UNCHANGED <<Request, candidate, result, final, receipt>>

Next ==
    \/ Validate \/ ValidationFails \/ DeterministicRepair \/ RepairFails \/ SemanticRepair
    \/ Revalidate \/ GenerateReceipt \/ Answer

Spec == Init /\ [][Next]_vars

-----------------------------------------------------------------------------
(* The inductive invariant.                                                 *)

\* The type invariant.
TypeOK ==
    /\ endpoint \in {"verify", "semantic"}
    /\ policy \in Policies
    /\ payload \in Payloads
    /\ step \in Steps
    /\ candidate \in Payload \cup {None}
    /\ result \in [outcome : Outcomes, repair : Repairs, payment_ref : BOOLEAN]
    /\ final \in Payload
    /\ receipt \in [outcome : Outcomes, output : Payload, summary : Repairs] \cup {None}
    /\ shown \in Payload \cup {None}

\* What each step has established about the candidate and the final payload.
StepEarned ==
    /\ result.payment_ref <=> result.repair = "semantic"
    /\ result.repair = "semantic" => endpoint = "semantic"
    /\ result.outcome = "verified_repaired" <=> result.repair # "none"
    /\ candidate # None => candidate # payload
    /\ endpoint = "verify" /\ candidate # None =>
         ~ RepairRaises(payload, policy) /\ candidate = Repaired(payload, policy)
    /\ step \in {"received", "repair", "revalidate", "error"} => result.repair = "none"
    /\ step \notin {"answer", "answered"} => receipt = None
    /\ step \in {"received", "repair"} => candidate = None
    /\ step = "revalidate" => candidate # None
    /\ step = "repair" \/ candidate # None => Repairable(Findings(payload, policy))
    /\ step \notin {"received", "error"} =>
         /\ ~ RuleRaises(final, policy)
         /\ result.outcome = "rejected" <=> Findings(final, policy) # {}
    /\ final = IF result.repair = "none" THEN payload ELSE candidate
    /\ result.repair # "none" => candidate # None
    /\ step \in {"answer", "answered"} =>
         receipt = [outcome |-> result.outcome, output |-> final, summary |-> result.repair]

\* A repair is in the result only if it was attempted, passed validation and,
\* on the paid path, names its payment; a receipt repeats the result
\* (orchestrator.py:52-94, semantic.py:159-224, receipt.py:71-122).
Inv == TypeOK /\ StepEarned

-----------------------------------------------------------------------------
(* Properties.                                                              *)

\* Fail closed: a receipt is about an output whose validation came to an end,
\* and says other than "rejected" exactly if that output passed the whole of
\* it, whatever repair and model did to it (orchestrator.py:57-75,
\* semantic.py:172-206, business_rules.py:103-108).
OutcomeMatchesOutput ==
    receipt # None =>
        /\ ~ RuleRaises(receipt.output, policy)
        /\ receipt.outcome = "rejected" <=> Findings(receipt.output, policy) # {}

\* The receipt states the outcome of the response: generate_receipt, which
\* downgrades a copy, never has to (receipt.py:71-100).
ReceiptAgrees ==
    step = "answered" =>
        /\ receipt.outcome = result.outcome
        /\ receipt.summary = result.repair
        /\ result.outcome = "verified_repaired" <=> result.repair # "none"

\* A repaired output that the receipt is about is shown to the client, and
\* /verify shows nothing else (orchestrator.py:88-92): what Python holds for
\* an unchanged payload is one.
ResponseShowsRepair ==
    step = "answered" =>
        /\ result.outcome = "verified_repaired" => shown = receipt.output
        /\ endpoint = "verify" /\ result.outcome # "verified_repaired" => shown = None

\* A number that is no float is not safe from conversion to one.
Safe(v, t) == HasType(v, t) /\ (t = "number" => Double[v.n] = v.n)

\* Deterministic repair touches no value that has its type, unless it is a
\* number that is no float, and repairing again changes nothing
\* (deterministic.py:135-214).
RepairIsMinimal ==
    endpoint = "verify" /\ candidate # None =>
        /\ \A f \in Fields :
             payload[f] # Absent /\ Safe(payload[f], policy.property[f].type) =>
                 candidate[f] = payload[f]
        /\ Repaired(candidate, policy) = candidate
-----------------------------------------------------------------------------
(* The paid handler, seen by PaidRepair: of a payload it knows whether it   *)
(* is clean, blocking or under an invalid schema, of a candidate whether it *)
(* is good.                                                                 *)

Kind ==
    LET findings == Findings(payload, policy)
    IN  IF ~ Blocking(findings) THEN "clean"
        ELSE IF InvalidSchema(findings) THEN "badschema" ELSE "blocking"

\* Where PaidRepair holds the call to be.  After an answer of no use the
\* verdict is still to come.
HandlerStep ==
    CASE step = "received"   -> "paid"
      [] step = "repair"     -> "repairing"
      [] step = "revalidate" -> "repaired"
      [] step = "receipt"    -> IF Kind = "blocking" /\ candidate = None
                                THEN "repaired" ELSE "judged"
      [] step = "answer"     -> "judged"
      [] OTHER               -> step

HandlerCandidate ==
    IF \/ step = "received" \/ Kind # "blocking"
       \/ step = "error" /\ candidate = None
    THEN "untried"
    ELSE IF step = "repair" THEN "asked"
    ELSE IF candidate = None THEN "none"
    ELSE IF Findings(candidate, policy) = {} THEN "good" ELSE "bad"

\* The receipt's outcome once there is one.
HandlerOutcome ==
    IF HandlerStep \notin {"judged", "answered"} THEN "open"
    ELSE IF receipt # None THEN receipt.outcome ELSE result.outcome

HandlerCall == [step |-> HandlerStep, payment |-> "payment", settlement |-> TRUE,
                candidate |-> HandlerCandidate, outcome |-> HandlerOutcome]

PaidHandler == INSTANCE PaidRepair WITH
    Calls <- {"call"}, Payments <- {"payment"}, Payloads <- {"clean", "blocking", "badschema"},
    None <- "none", payload <- Kind, calls <- [c \in {"call"} |-> HandlerCall],
    page <- "any", signed <- {"payment"}, settled <- {"payment"}, stored <- "none", log <- {}

\* For a settled payment the pipeline makes only steps that PaidRepair gives
\* the handler: at most one call of the model, for a blocking payload, and a
\* failure or the verdict that the findings of payload and candidate demand
\* (semantic.py:120-224).
HandlerServes ==
    [][endpoint = "semantic" =>
         PaidHandler!Serve("call") \/ UNCHANGED PaidHandler!vars]_vars
=============================================================================
