------------------------- MODULE VerificationProofs --------------------------
(***************************************************************************)
(* Proofs about Verification for any fields, numbers, policies, payloads   *)
(* and answers of the language model.                                      *)
(***************************************************************************)
EXTENDS Verification, TLAPS

-----------------------------------------------------------------------------
(* Coercion.                                                                *)

\* Coercion stays within the values.
LEMMA CoerceType ==
    ASSUME NEW v \in Value, NEW t \in Types, Coerce(v, t) # None
    PROVE  Coerce(v, t) \in Value
  <1> USE PolicyAssumption
  <1>1. CASE t = "integer"
    BY <1>1 DEF Coerce, CoerceInt, Value, IntKinds, BoolKinds, OtherKinds
  <1>2. CASE t = "number"
    BY <1>2 DEF Coerce, CoerceNumber, Value, IntKinds, BoolKinds, OtherKinds
  <1>3. CASE t = "boolean"
    BY <1>3 DEF Coerce, CoerceBool, Value, IntKinds, BoolKinds, OtherKinds
  <1>4. CASE t = "string"
    BY <1>4 DEF Coerce, CoerceString, Strings, Value, IntKinds, BoolKinds, OtherKinds
  <1>5. CASE t \in {"union", "any"}
    BY <1>5 DEF Coerce
  <1>. QED
    BY <1>1, <1>2, <1>3, <1>4, <1>5 DEF Types

\* A value that has its type and that a float can hold is left alone.
LEMMA CoercedKeepsValid ==
    ASSUME NEW v \in Value, NEW t \in Types, Safe(v, t)
    PROVE  Coerced(v, t) = v
  <1> USE PolicyAssumption DEF Coerced, Safe, HasType, IsInteger, PyEqual
  <1>1. CASE t = "integer"
    BY <1>1 DEF Coerce, CoerceInt
  <1>2. CASE t = "number"
    BY <1>2 DEF Coerce, CoerceNumber
  <1>3. CASE t = "boolean"
    BY <1>3 DEF Coerce, CoerceBool, BoolKinds
  <1>4. CASE t = "string"
    BY <1>4 DEF Coerce, CoerceString, Strings
  <1>5. CASE t \in {"union", "any"}
    BY <1>5 DEF Coerce
  <1>. QED
    BY <1>1, <1>2, <1>3, <1>4, <1>5 DEF Types

\* A coerced value is coerced to itself.
LEMMA CoerceIdempotent ==
    ASSUME NEW v \in Value, NEW t \in Types, Coerce(v, t) # None
    PROVE  Coerce(Coerce(v, t), t) = Coerce(v, t)
  <1>1. CASE t = "integer"
    BY <1>1 DEF Coerce, CoerceInt
  <1>2. CASE t = "number"
    <2>1. v.n \in Numbers
      BY PolicyAssumption DEF Value, IntKinds, BoolKinds, OtherKinds
    <2>2. Double[Double[v.n]] = Double[v.n]
      BY <2>1, PolicyAssumption
    <2>. QED
      BY <1>2, <2>2 DEF Coerce, CoerceNumber
  <1>3. CASE t = "boolean"
    BY <1>3 DEF Coerce, CoerceBool, BoolKinds
  <1>4. CASE t = "string"
    BY <1>4 DEF Coerce, CoerceString, Strings
  <1>5. CASE t \in {"union", "any"}
    BY <1>5 DEF Coerce
  <1>. QED
    BY <1>1, <1>2, <1>3, <1>4, <1>5 DEF Types

LEMMA CoercedIdempotent ==
    ASSUME NEW v \in Value, NEW t \in Types
    PROVE  /\ Coerced(v, t) \in Value
           /\ Coerced(Coerced(v, t), t) = Coerced(v, t)
  <1>1. CASE Coerce(v, t) # None /\ ~ PyEqual(Coerce(v, t), v)
    BY <1>1, CoerceType, CoerceIdempotent DEF Coerced, PyEqual
  <1>2. CASE ~ (Coerce(v, t) # None /\ ~ PyEqual(Coerce(v, t), v))
    BY <1>2 DEF Coerced
  <1>. QED
    BY <1>1, <1>2

\* What deterministic repair returns.
LEMMA RepairedField ==
    ASSUME NEW p \in Payload, NEW pol \in Policy, NEW f \in Fields
    PROVE  LET v == IF p[f] = Absent THEN pol.property[f].default ELSE p[f]
               t == pol.property[f].type
           IN  /\ t \in Types
               /\ v \in Value \cup {Absent}
               /\ Repaired(p, pol)[f] = IF v = Absent THEN Absent ELSE Coerced(v, t)
               /\ Repaired(p, pol)[f] \in Value \cup {Absent}
  <1>1. /\ pol.property[f].type \in Types
        /\ pol.property[f].default \in Value \cup {Absent}
        /\ p[f] \in Value \cup {Absent}
    BY DEF Policy, Payload
  <1>. QED
    BY <1>1, CoercedIdempotent DEF Repaired, Filled

LEMMA RepairedType ==
    ASSUME NEW p \in Payload, NEW pol \in Policy
    PROVE  Repaired(p, pol) \in Payload
  <1>1. \A f \in Fields : Repaired(p, pol)[f] \in Value \cup {Absent}
    BY RepairedField
  <1>2. Repaired(p, pol) = [f \in Fields |-> Repaired(p, pol)[f]]
    BY DEF Repaired
  <1>. QED
    BY <1>1, <1>2 DEF Payload

LEMMA RepairedKeepsValid ==
    ASSUME NEW p \in Payload, NEW pol \in Policy, NEW f \in Fields,
           p[f] # Absent, Safe(p[f], pol.property[f].type)
    PROVE  Repaired(p, pol)[f] = p[f]
  BY RepairedField, CoercedKeepsValid DEF Payload

LEMMA RepairedIdempotent ==
    ASSUME NEW p \in Payload, NEW pol \in Policy
    PROVE  Repaired(Repaired(p, pol), pol) = Repaired(p, pol)
  <1> DEFINE r == Repaired(p, pol)
  <1>1. r \in Payload
    BY RepairedType
  <1>2. ASSUME NEW f \in Fields
        PROVE  Repaired(r, pol)[f] = r[f]
    <2> DEFINE v == IF p[f] = Absent THEN pol.property[f].default ELSE p[f]
               t == pol.property[f].type
    <2>1. /\ t \in Types
          /\ v \in Value \cup {Absent}
          /\ r[f] = IF v = Absent THEN Absent ELSE Coerced(v, t)
      BY RepairedField
    <2>2. Repaired(r, pol)[f] = IF (IF r[f] = Absent THEN pol.property[f].default ELSE r[f]) = Absent
                                THEN Absent
                                ELSE Coerced(IF r[f] = Absent THEN pol.property[f].default
                                             ELSE r[f], t)
      BY <1>1, RepairedField
    <2>3. CASE v = Absent
      <3>1. p[f] = Absent /\ pol.property[f].default = Absent
        BY <2>3
      <3>. QED
        BY <2>1, <2>2, <2>3, <3>1
    <2>4. CASE v # Absent
      <3>1. r[f] = Coerced(v, t) /\ r[f] \in Value /\ Coerced(r[f], t) = r[f]
        BY <2>1, <2>4, CoercedIdempotent
      <3>2. r[f] # Absent
        BY <3>1, PolicyAssumption
      <3>. QED
        BY <2>2, <3>1, <3>2
    <2>. QED
      BY <2>3, <2>4
  <1>3. Repaired(r, pol) = [f \in Fields |-> Repaired(r, pol)[f]]
    BY DEF Repaired
  <1>4. r = [f \in Fields |-> r[f]]
    BY DEF Repaired
  <1>. QED
    BY <1>2, <1>3, <1>4

\* A repair that changes the payload changes it for Python, too.
LEMMA RepairedDiffers ==
    ASSUME NEW p \in Payload, NEW pol \in Policy, Repaired(p, pol) # p
    PROVE  ~ PyEqualPayload(Repaired(p, pol), p)
  <1> DEFINE r == Repaired(p, pol)
  <1>1. PICK f \in Fields : r[f] # p[f]
    <2>1. r = [f \in Fields |-> r[f]] /\ p = [f \in Fields |-> p[f]]
      BY DEF Repaired, Payload
    <2>. QED
      BY <2>1
  <1>2. p[f] # Absent => ~ PyEqual(r[f], p[f])
    <2>1. SUFFICES ASSUME p[f] # Absent PROVE ~ PyEqual(r[f], p[f])
      OBVIOUS
    <2>2. r[f] = Coerced(p[f], pol.property[f].type)
      BY <2>1, RepairedField
    <2>. QED
      BY <1>1, <2>2 DEF Coerced
  <1>. QED
    BY <1>1, <1>2 DEF PyEqualPayload

-----------------------------------------------------------------------------
(* The handlers.                                                            *)

\* Whether to repair is a question about the request.
LEMMA SameRequest ==
    ASSUME UNCHANGED Request
    PROVE  Repairable(Findings(payload, policy))' <=> Repairable(Findings(payload, policy))
  BY DEF Request, Repairable

\* Initially nothing was repaired.
LEMMA InitInv == Init => Inv
  <1> SUFFICES ASSUME Init PROVE Inv
    OBVIOUS
  <1> USE DEF Init, Result
  <1>1. TypeOK
    BY PolicyAssumption DEF TypeOK, Steps, Outcomes, Repairs
  <1>2. StepEarned
    BY DEF StepEarned
  <1>. QED
    BY <1>1, <1>2 DEF Inv

LEMMA ValidateInv == Inv /\ Validate => Inv'
  <1> SUFFICES ASSUME Inv, Validate PROVE Inv'
    OBVIOUS
  <1> USE DEF Inv, Validate, Request, Result, Blocking
  <1>1. TypeOK'
    BY DEF TypeOK, Steps, Outcomes, Repairs
  <1>2. StepEarned'
    BY SameRequest DEF StepEarned
  <1>. QED
    BY <1>1, <1>2

\* An attempt leaves an output to validate, or none at all.
LEMMA AttemptInv ==
    ASSUME Inv, NEW p \in Payload, Attempt(p), step = "repair",
           endpoint = "verify" =>
             ~ RepairRaises(payload, policy) /\ p = Repaired(payload, policy),
           UNCHANGED <<Request, result, final, receipt, shown>>
    PROVE  Inv'
  <1> USE PolicyAssumption DEF Inv, Attempt, Request
  <1>1. TypeOK'
    BY DEF TypeOK, Steps
  <1>2. StepEarned'
    BY SameRequest DEF StepEarned
  <1>. QED
    BY <1>1, <1>2

LEMMA DeterministicRepairInv == Inv /\ DeterministicRepair => Inv'
  <1> SUFFICES ASSUME Inv, DeterministicRepair PROVE Inv'
    OBVIOUS
  <1>1. Repaired(payload, policy) \in Payload
    BY RepairedType, PolicyAssumption DEF Inv, TypeOK
  <1>. QED
    BY <1>1, AttemptInv DEF DeterministicRepair

LEMMA SemanticRepairInv == Inv /\ SemanticRepair => Inv'
  <1> SUFFICES ASSUME Inv, SemanticRepair PROVE Inv'
    OBVIOUS
  <1>1. PICK c \in Candidates \cup {payload} : Attempt(c)
    BY DEF SemanticRepair
  <1>2. c \in Payload
    BY PolicyAssumption DEF Inv, TypeOK
  <1>. QED
    BY <1>1, <1>2, AttemptInv DEF SemanticRepair

LEMMA RepairFailsInv == Inv /\ RepairFails => Inv'
  <1> SUFFICES ASSUME Inv, RepairFails PROVE Inv'
    OBVIOUS
  <1> USE DEF Inv, RepairFails, Request
  <1>1. TypeOK'
    BY DEF TypeOK, Steps
  <1>2. StepEarned'
    BY SameRequest DEF StepEarned
  <1>. QED
    BY <1>1, <1>2

LEMMA ValidationFailsInv == Inv /\ ValidationFails => Inv'
  <1> SUFFICES ASSUME Inv, ValidationFails PROVE Inv'
    OBVIOUS
  <1> USE DEF Inv, ValidationFails, Request
  <1>1. TypeOK'
    BY DEF TypeOK, Steps
  <1>2. StepEarned'
    BY SameRequest DEF StepEarned
  <1>. QED
    BY <1>1, <1>2

LEMMA RevalidateInv == Inv /\ Revalidate => Inv'
  <1> SUFFICES ASSUME Inv, Revalidate PROVE Inv'
    OBVIOUS
  <1> USE DEF Inv, Revalidate, Request, Blocking
  <1>1. CASE Findings(candidate, policy) # {}
    <2>1. TypeOK'
      BY <1>1 DEF TypeOK, Steps
    <2>2. StepEarned'
      BY <1>1, SameRequest DEF StepEarned
    <2>. QED
      BY <2>1, <2>2
  <1>2. CASE Findings(candidate, policy) = {}
    <2> PICK paid \in BOOLEAN :
          /\ paid <=> endpoint = "semantic"
          /\ result' = [outcome |-> "verified_repaired",
                        repair |-> IF endpoint = "verify" THEN "deterministic" ELSE "semantic",
                        payment_ref |-> paid]
      BY <1>2, Zenon DEF Result
    <2>1. candidate # None /\ final' = candidate
      BY <1>2 DEF StepEarned
    <2>2. TypeOK'
      BY <2>1 DEF TypeOK, Steps, Outcomes, Repairs
    <2>3. StepEarned'
      BY <1>2, <2>1, SameRequest DEF StepEarned, TypeOK
    <2>. QED
      BY <2>2, <2>3
  <1>. QED
    BY <1>1, <1>2

\* The receipt never has to fail closed on its own.
LEMMA GenerateReceiptInv == Inv /\ GenerateReceipt => Inv'
  <1> SUFFICES ASSUME Inv, GenerateReceipt PROVE Inv'
    OBVIOUS
  <1> USE DEF Inv, GenerateReceipt, Request
  <1>1. ReceiptOutcome(result) = result.outcome
    BY DEF ReceiptOutcome, StepEarned
  <1>2. TypeOK'
    BY <1>1 DEF TypeOK, Steps
  <1>3. StepEarned'
    BY <1>1, SameRequest DEF StepEarned
  <1>. QED
    BY <1>2, <1>3

LEMMA AnswerInv == Inv /\ Answer => Inv'
  <1> SUFFICES ASSUME Inv, Answer PROVE Inv'
    OBVIOUS
  <1> USE DEF Inv, Answer, Request
  <1>1. TypeOK'
    BY DEF TypeOK, Steps
  <1>2. StepEarned'
    BY SameRequest DEF StepEarned
  <1>. QED
    BY <1>1, <1>2

LEMMA StepInv == Inv /\ [Next]_vars => Inv'
  <1> SUFFICES ASSUME Inv, [Next]_vars PROVE Inv'
    OBVIOUS
  <1>1. CASE UNCHANGED vars
    <2>1. UNCHANGED Request
      BY <1>1 DEF vars, Request
    <2>. QED
      BY <1>1, <2>1, SameRequest DEF vars, Inv, TypeOK, StepEarned
  <1>2. CASE Next
    BY <1>2, ValidateInv, ValidationFailsInv, DeterministicRepairInv, RepairFailsInv, SemanticRepairInv,
       RevalidateInv, GenerateReceiptInv, AnswerInv DEF Next
  <1>. QED
    BY <1>1, <1>2

-----------------------------------------------------------------------------
(* The theorems.                                                            *)

\* A repair is in the result only if it was attempted, passed validation and,
\* on the paid path, names its payment (orchestrator.py, semantic.py).
THEOREM Invariance == Spec => []Inv
  BY InitInv, StepInv, PTL DEF Spec

\* Type correctness of the pipeline.
THEOREM TypeCorrect == Spec => []TypeOK
  <1>1. Inv => TypeOK
    BY DEF Inv
  <1>. QED
    BY <1>1, Invariance, PTL

\* A receipt is about an output whose validation came to an end, and is
\* "rejected" exactly when the output did not pass it, whatever the language
\* model answers (orchestrator.py:57-75, business_rules.py:103-108).
THEOREM OutcomeMatchesOutputAlways == Spec => []OutcomeMatchesOutput
  <1>1. Inv => OutcomeMatchesOutput
    BY DEF Inv, TypeOK, StepEarned, OutcomeMatchesOutput, Steps
  <1>. QED
    BY <1>1, Invariance, PTL

\* The signed outcome and repair are those of the response (receipt.py:71-100).
THEOREM ReceiptAgreesAlways == Spec => []ReceiptAgrees
  <1>1. Inv => ReceiptAgrees
    BY DEF Inv, StepEarned, ReceiptAgrees
  <1>. QED
    BY <1>1, Invariance, PTL

\* Deterministic repair leaves valid values alone and is idempotent, for any
\* schema and output (deterministic.py:135-214).
THEOREM RepairIsMinimalAlways == Spec => []RepairIsMinimal
  <1>1. Inv => RepairIsMinimal
    <2> SUFFICES ASSUME Inv, endpoint = "verify", candidate # None
                 PROVE  /\ \A f \in Fields :
                             payload[f] # Absent
                             /\ Safe(payload[f], policy.property[f].type) =>
                                 candidate[f] = payload[f]
                        /\ Repaired(candidate, policy) = candidate
      BY DEF RepairIsMinimal
    <2>1. candidate = Repaired(payload, policy) /\ payload \in Payload /\ policy \in Policy
      BY PolicyAssumption DEF Inv, TypeOK, StepEarned
    <2>. QED
      BY <2>1, RepairedKeepsValid, RepairedIdempotent
  <1>. QED
    BY <1>1, Invariance, PTL

\* The client is shown a repair exactly when the receipt is about one
\* (orchestrator.py:88-92): no coercion is lost on Python's equality.
THEOREM ResponseShowsRepairAlways == Spec => []ResponseShowsRepair
  <1>1. Init => ResponseShowsRepair
    BY DEF Init, ResponseShowsRepair
  <1>2. Inv /\ ResponseShowsRepair /\ [Next]_vars => ResponseShowsRepair'
    <2> SUFFICES ASSUME Inv, ResponseShowsRepair, [Next]_vars PROVE ResponseShowsRepair'
      OBVIOUS
    <2>1. CASE Answer
      <3>1. /\ step = "answer" /\ endpoint \in {"verify", "semantic"}
            /\ payload \in Payload /\ policy \in Policy
            /\ receipt.output = final
            /\ result.outcome = "verified_repaired" <=> result.repair # "none"
            /\ result.repair # "none" => candidate # None
            /\ final = IF result.repair = "none" THEN payload ELSE candidate
            /\ candidate # None => candidate # payload
            /\ endpoint = "verify" /\ candidate # None => candidate = Repaired(payload, policy)
        BY <2>1, PolicyAssumption DEF Answer, Inv, TypeOK, StepEarned
      <3>2. PyEqualPayload(payload, payload)
        BY DEF PyEqualPayload
      <3>3. endpoint = "verify" /\ candidate # None => ~ PyEqualPayload(candidate, payload)
        BY <3>1, RepairedDiffers
      <3>4. /\ shown' = IF endpoint = "semantic" THEN candidate
                        ELSE IF PyEqualPayload(final, payload) THEN None ELSE final
            /\ UNCHANGED <<endpoint, result, receipt>>
        BY <2>1 DEF Answer, Request
      <3>. QED
        BY <3>1, <3>2, <3>3, <3>4 DEF ResponseShowsRepair
    <2>2. CASE Next /\ ~ Answer
      <3>1. step' # "answered"
        BY <2>2 DEF Next, Validate, ValidationFails, DeterministicRepair, RepairFails,
                    SemanticRepair,
                    Revalidate, GenerateReceipt, Attempt
      <3>. QED
        BY <3>1 DEF ResponseShowsRepair
    <2>3. CASE UNCHANGED vars
      BY <2>3 DEF vars, ResponseShowsRepair
    <2>. QED
      BY <2>1, <2>2, <2>3
  <1>. QED
    BY <1>1, <1>2, Invariance, PTL DEF Spec
-----------------------------------------------------------------------------
(* The paid handler as PaidRepair sees it.                                  *)

\* What PaidRepair sees of the call, step by step.
LEMMA HandlerCalls ==
    ASSUME Inv, endpoint = "semantic"
    PROVE  /\ step \in {"received", "repair", "revalidate", "receipt", "answer", "answered", "error"}
           /\ Kind \in {"clean", "badschema", "blocking"}
           /\ Kind = "clean" <=> Findings(payload, policy) = {}
           /\ Kind = "blocking" <=> Repairable(Findings(payload, policy))
  <1>1. step \in {"received", "repair", "revalidate", "receipt", "answer", "answered", "error"}
    BY DEF Inv, TypeOK, Steps
  <1>2. InvalidSchema(Findings(payload, policy)) => Findings(payload, policy) # {}
    BY DEF InvalidSchema
  <1>. QED
    BY <1>1, <1>2 DEF Kind, Repairable, Blocking
\* A step of the pipeline that changes the call in PaidRepair's eyes makes one
\* of the handler's steps there.
LEMMA ValidateServes ==
    Inv /\ Inv' /\ endpoint = "semantic" /\ Validate => PaidHandler!Serve("call")
  <1> SUFFICES ASSUME Inv, Inv', endpoint = "semantic", Validate
               PROVE  PaidHandler!Serve("call")
    OBVIOUS
  <1> USE DEF Inv, StepEarned
  <1>1. /\ step = "received" /\ candidate = None /\ candidate' = None /\ receipt' = None
        /\ step' = IF Kind = "blocking" THEN "repair" ELSE "receipt"
        /\ result'.outcome = IF Kind = "clean" THEN "verified" ELSE "rejected"
        /\ Kind' = Kind
    <2>1. UNCHANGED <<endpoint, policy, payload, candidate, receipt>>
      BY DEF Validate, Request
    <2>. QED
      BY <2>1, HandlerCalls DEF Validate, Result, Blocking, Kind
  <1>2. Kind \in {"clean", "badschema", "blocking"}
    BY HandlerCalls
  <1>3. HandlerCall = [step |-> "paid", payment |-> "payment", settlement |-> TRUE,
                       candidate |-> "untried", outcome |-> "open"]
    <2>1. HandlerStep = "paid"
      BY <1>1 DEF HandlerStep
    <2>2. HandlerCandidate = "untried"
      BY <1>1 DEF HandlerCandidate
    <2>. QED
      BY <2>1, <2>2 DEF HandlerCall, HandlerOutcome
  <1>4. CASE Kind = "blocking"
    <2>1. HandlerCall' = [step |-> "repairing", payment |-> "payment", settlement |-> TRUE,
                          candidate |-> "asked", outcome |-> "open"]
      <3>1. HandlerStep' = "repairing"
        BY <1>1, <1>4 DEF HandlerStep
      <3>2. HandlerCandidate' = "asked"
        BY <1>1, <1>4 DEF HandlerCandidate
      <3>. QED
        BY <3>1, <3>2 DEF HandlerCall, HandlerOutcome
    <2>2. PaidHandler!AttemptRepair("call")
      BY <1>1, <1>3, <1>4, <2>1 DEF PaidHandler!AttemptRepair
    <2>. QED
      BY <2>2 DEF PaidHandler!Serve
  <1>5. CASE Kind # "blocking"
    <2>1. HandlerCall' = [step |-> "judged", payment |-> "payment", settlement |-> TRUE,
                          candidate |-> "untried",
                          outcome |-> IF Kind = "clean" THEN "verified" ELSE "rejected"]
      <3>1. HandlerStep' = "judged"
        BY <1>1, <1>5 DEF HandlerStep
      <3>2. HandlerCandidate' = "untried"
        BY <1>1, <1>5 DEF HandlerCandidate
      <3>. QED
        BY <1>1, <3>1, <3>2 DEF HandlerCall, HandlerOutcome
    <2>2. PaidHandler!SkipRepair("call")
      BY <1>1, <1>3, <1>5, <2>1 DEF PaidHandler!SkipRepair, PaidHandler!Judge
    <2>. QED
      BY <2>2 DEF PaidHandler!Serve
  <1>. QED
    BY <1>4, <1>5

\* A validation that raises ends the call with its candidate as it was.
LEMMA ValidationFailsServes ==
    Inv /\ Inv' /\ endpoint = "semantic" /\ ValidationFails => PaidHandler!Serve("call")
  <1> SUFFICES ASSUME Inv, Inv', endpoint = "semantic", ValidationFails
               PROVE  PaidHandler!Serve("call")
    OBVIOUS
  <1>1. /\ step \in {"received", "revalidate"} /\ step' = "error"
        /\ Kind' = Kind /\ UNCHANGED <<policy, candidate, receipt>>
        /\ step = "received" => candidate = None
        /\ step = "revalidate" => candidate # None /\ Kind = "blocking"
    <2>1. /\ step \in {"received", "revalidate"} /\ step' = "error"
          /\ UNCHANGED <<endpoint, policy, payload, candidate, receipt>>
      BY DEF ValidationFails, Request
    <2>2. /\ step = "received" => candidate = None
          /\ step = "revalidate" => candidate # None /\ Kind = "blocking"
      BY HandlerCalls DEF Inv, StepEarned
    <2>. QED
      BY <2>1, <2>2 DEF Kind
  <1> DEFINE s == HandlerStep
             k == HandlerCandidate
  <1>2. s \in {"paid", "repaired"} /\ HandlerStep' = "error"
    BY <1>1 DEF HandlerStep
  <1>3. HandlerCandidate' = k
    BY <1>1 DEF HandlerCandidate
  <1>4. HandlerCall = [step |-> s, payment |-> "payment", settlement |-> TRUE,
                       candidate |-> k, outcome |-> "open"]
    BY <1>2 DEF HandlerCall, HandlerOutcome
  <1>5. HandlerCall' = [step |-> "error", payment |-> "payment", settlement |-> TRUE,
                        candidate |-> k, outcome |-> "open"]
    BY <1>2, <1>3 DEF HandlerCall, HandlerOutcome
  <1>6. PaidHandler!HandlerFails("call")
    <2> HIDE DEF s, k
    <2>. QED
      BY <1>1, <1>2, <1>4, <1>5 DEF PaidHandler!HandlerFails, PaidHandler!Step
  <1>. QED
    BY <1>6 DEF PaidHandler!Serve

LEMMA SemanticRepairServes ==
    Inv /\ Inv' /\ endpoint = "semantic" /\ SemanticRepair => PaidHandler!Serve("call")
  <1> SUFFICES ASSUME Inv, Inv', endpoint = "semantic", SemanticRepair
               PROVE  PaidHandler!Serve("call")
    OBVIOUS
  <1>1. /\ step = "repair" /\ receipt' = None /\ Kind = "blocking" /\ Kind' = Kind
        /\ \/ step' = "receipt" /\ candidate' = None
           \/ step' = "revalidate" /\ candidate' # None
    <2>1. step = "repair" /\ UNCHANGED <<endpoint, policy, payload, receipt>>
      BY DEF SemanticRepair, Request
    <2>2. receipt = None /\ Kind = "blocking"
      BY <2>1, HandlerCalls DEF Inv, StepEarned
    <2>3. PICK c \in Candidates \cup {payload} : Attempt(c)
      BY DEF SemanticRepair
    <2>4. c # None
      BY PolicyAssumption DEF Inv, TypeOK
    <2>. QED
      BY <2>1, <2>2, <2>3, <2>4 DEF Attempt, Kind
  <1>2. HandlerCall = [step |-> "repairing", payment |-> "payment", settlement |-> TRUE,
                       candidate |-> "asked", outcome |-> "open"]
    BY <1>1 DEF HandlerCall, HandlerStep, HandlerCandidate, HandlerOutcome
  <1>3. PICK k \in {"none", "bad", "good"} :
          HandlerCall' = [step |-> "repaired", payment |-> "payment", settlement |-> TRUE,
                          candidate |-> k, outcome |-> "open"]
    <2>1. HandlerStep' = "repaired"
      BY <1>1 DEF HandlerStep
    <2>2. HandlerCandidate' \in {"none", "bad", "good"}
      BY <1>1 DEF HandlerCandidate
    <2>. QED
      BY <2>1, <2>2 DEF HandlerCall, HandlerOutcome
  <1>4. PaidHandler!ModelAnswers("call")
    BY <1>1, <1>2, <1>3 DEF PaidHandler!ModelAnswers
  <1>. QED
    BY <1>4 DEF PaidHandler!Serve

\* A candidate of the model is judged by its findings.
LEMMA RevalidateServes ==
    Inv /\ Inv' /\ endpoint = "semantic" /\ Revalidate => PaidHandler!Serve("call")
  <1> SUFFICES ASSUME Inv, Inv', endpoint = "semantic", Revalidate
               PROVE  PaidHandler!Serve("call")
    OBVIOUS
  <1>1. /\ step = "revalidate" /\ step' = "receipt" /\ receipt' = None
        /\ candidate # None /\ candidate' = candidate /\ Kind = "blocking" /\ Kind' = Kind
        /\ UNCHANGED policy
    <2>1. /\ step = "revalidate" /\ step' = "receipt"
          /\ UNCHANGED <<endpoint, policy, payload, receipt, candidate>>
      BY DEF Revalidate, Request
    <2>2. candidate # None /\ Kind = "blocking" /\ receipt' = None
      BY <2>1, HandlerCalls DEF Inv, StepEarned
    <2>. QED
      BY <2>1, <2>2 DEF Kind
  <1>2. result'.outcome = IF Findings(candidate, policy) = {} THEN "verified_repaired"
                          ELSE "rejected"
    <2>1. CASE Findings(candidate, policy) = {}
      BY <2>1 DEF Revalidate, Result, Blocking
    <2>2. CASE Findings(candidate, policy) # {}
      <3>1. result.repair = "none" /\ final = payload /\ result.outcome = "rejected"
        BY <1>1, HandlerCalls DEF Inv, StepEarned
      <3>. QED
        BY <2>2, <3>1 DEF Revalidate, Blocking
    <2>. QED
      BY <2>1, <2>2
  <1> DEFINE k == IF Findings(candidate, policy) = {} THEN "good" ELSE "bad"
  <1>3. HandlerCall = [step |-> "repaired", payment |-> "payment", settlement |-> TRUE,
                       candidate |-> k, outcome |-> "open"]
    <2>1. HandlerStep = "repaired"
      BY <1>1 DEF HandlerStep
    <2>2. HandlerCandidate = k
      BY <1>1 DEF HandlerCandidate
    <2>. QED
      BY <2>1, <2>2 DEF HandlerCall, HandlerOutcome
  <1>4. HandlerCall' = [step |-> "judged", payment |-> "payment", settlement |-> TRUE,
                        candidate |-> k,
                        outcome |-> IF k = "good" THEN "verified_repaired" ELSE "rejected"]
    <2>1. HandlerStep' = "judged"
      BY <1>1 DEF HandlerStep
    <2>2. HandlerCandidate' = k
      BY <1>1 DEF HandlerCandidate
    <2>3. result'.outcome = IF k = "good" THEN "verified_repaired" ELSE "rejected"
      BY <1>2
    <2>. QED
      BY <1>1, <2>1, <2>2, <2>3 DEF HandlerCall, HandlerOutcome
  <1>5. PaidHandler!Revalidate("call")
    BY <1>1, <1>3, <1>4 DEF PaidHandler!Revalidate, PaidHandler!Judge
  <1>. QED
    BY <1>5 DEF PaidHandler!Serve

\* The receipt is written after the verdict; it is the verdict when the model
\* had no answer of use.
LEMMA GenerateReceiptServes ==
    Inv /\ Inv' /\ endpoint = "semantic" /\ GenerateReceipt
        => PaidHandler!Serve("call") \/ UNCHANGED PaidHandler!vars
  <1> SUFFICES ASSUME Inv, Inv', endpoint = "semantic", GenerateReceipt
               PROVE  PaidHandler!Serve("call") \/ UNCHANGED PaidHandler!vars
    OBVIOUS
  <1>1. /\ step = "receipt" /\ step' = "answer" /\ receipt = None
        /\ candidate' = candidate /\ Kind' = Kind
        /\ UNCHANGED <<policy, result>>
        /\ receipt'.outcome = result.outcome
    <2>1. /\ step = "receipt" /\ step' = "answer"
          /\ UNCHANGED <<endpoint, policy, payload, candidate, result, final>>
      BY DEF GenerateReceipt, Request
    <2>2. receipt = None /\ receipt'.outcome = result.outcome
      BY <2>1 DEF Inv, StepEarned
    <2>. QED
      BY <2>1, <2>2 DEF Kind
  <1>2. HandlerCandidate' = HandlerCandidate
    BY <1>1 DEF HandlerCandidate
  <1>3. HandlerOutcome' = result.outcome /\ HandlerStep' = "judged"
    BY <1>1 DEF HandlerOutcome, HandlerStep
  <1>4. CASE Kind = "blocking" /\ candidate = None
    <2>1. result.outcome = "rejected"
      BY <1>1, <1>4, HandlerCalls DEF Inv, StepEarned
    <2>2. HandlerCandidate = "none" /\ HandlerStep = "repaired"
      BY <1>1, <1>4 DEF HandlerCandidate, HandlerStep
    <2>3. HandlerCall = [step |-> "repaired", payment |-> "payment", settlement |-> TRUE,
                         candidate |-> "none", outcome |-> "open"]
      BY <2>2 DEF HandlerCall, HandlerOutcome
    <2>4. HandlerCall' = [step |-> "judged", payment |-> "payment", settlement |-> TRUE,
                          candidate |-> "none", outcome |-> "rejected"]
      BY <1>2, <1>3, <2>1, <2>2 DEF HandlerCall
    <2>5. PaidHandler!Revalidate("call")
      BY <1>1, <2>3, <2>4 DEF PaidHandler!Revalidate, PaidHandler!Judge
    <2>. QED
      BY <2>5 DEF PaidHandler!Serve
  <1>5. CASE ~ (Kind = "blocking" /\ candidate = None)
    <2>1. HandlerStep = "judged"
      BY <1>1, <1>5 DEF HandlerStep
    <2>2. HandlerOutcome = result.outcome
      BY <1>1, <2>1 DEF HandlerOutcome
    <2>3. HandlerCall' = HandlerCall
      BY <1>2, <1>3, <2>1, <2>2 DEF HandlerCall
    <2>. QED
      BY <1>1, <2>3 DEF PaidHandler!vars
  <1>. QED
    BY <1>4, <1>5

LEMMA AnswerServes ==
    Inv /\ Inv' /\ endpoint = "semantic" /\ Answer => PaidHandler!Serve("call")
  <1> SUFFICES ASSUME Inv, Inv', endpoint = "semantic", Answer
               PROVE  PaidHandler!Serve("call")
    OBVIOUS
  <1>1. /\ step = "answer" /\ step' = "answered" /\ Kind' = Kind
        /\ UNCHANGED <<policy, candidate, receipt, result>>
    BY DEF Answer, Request, Kind
  <1>2. HandlerStep = "judged" /\ HandlerStep' = "answered"
    BY <1>1 DEF HandlerStep
  <1>3. HandlerCandidate' = HandlerCandidate
    BY <1>1 DEF HandlerCandidate
  <1>4. HandlerOutcome' = HandlerOutcome
    BY <1>1, <1>2 DEF HandlerOutcome
  <1> DEFINE k == HandlerCandidate
             o == HandlerOutcome
  <1>5. HandlerCall = [step |-> "judged", payment |-> "payment", settlement |-> TRUE,
                       candidate |-> k, outcome |-> o]
    BY <1>2 DEF HandlerCall
  <1>6. HandlerCall' = [step |-> "answered", payment |-> "payment", settlement |-> TRUE,
                        candidate |-> k, outcome |-> o]
    BY <1>2, <1>3, <1>4 DEF HandlerCall
  <1>7. PaidHandler!PersistAndAnswer("call")
    <2> HIDE DEF k, o
    <2>. QED
      BY <1>1, <1>5, <1>6 DEF PaidHandler!PersistAndAnswer, PaidHandler!Step
  <1>. QED
    BY <1>7 DEF PaidHandler!Serve

\* For a settled payment the pipeline makes only steps that PaidRepair gives
\* the handler, for any policy, payload and answer of the model
\* (semantic.py:120-224).
THEOREM HandlerServesAlways == Spec => HandlerServes
  <1>1. Inv /\ Inv' /\ [Next]_vars =>
          [endpoint = "semantic" =>
             PaidHandler!Serve("call") \/ UNCHANGED PaidHandler!vars]_vars
    <2> SUFFICES ASSUME Inv, Inv', Next, endpoint = "semantic"
                 PROVE  PaidHandler!Serve("call") \/ UNCHANGED PaidHandler!vars
      OBVIOUS
    <2>1. ~ DeterministicRepair /\ ~ RepairFails
      BY DEF DeterministicRepair, RepairFails
    <2>. QED
      BY <2>1, ValidateServes, ValidationFailsServes, SemanticRepairServes, RevalidateServes, GenerateReceiptServes,
         AnswerServes DEF Next
  <1>. QED
    BY <1>1, Invariance, PTL DEF Spec, HandlerServes
=============================================================================
