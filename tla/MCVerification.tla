--------------------------- MODULE MCVerification ---------------------------
(* Instances of Verification for TLC: two fields, of which a takes every    *)
(* value and type and b is its partner in the business rule.                *)
EXTENDS Verification

\* The numbers are in halves: 3 stands for one that is no float, as 2^53 + 1
\* is none, and 4 for one out of a float's range, as 10^400 is.
MCDouble == [i \in Numbers |-> CASE i = 6 -> 4 [] i = 8 -> Infinity [] OTHER -> i]

Val(k, i) == [kind |-> k, n |-> i]

Property(t, r, d) == [type |-> t, required |-> r, default |-> d]

\* Of an invalid schema the types do not matter.
MCPolicies ==
    {[wellformed |-> TRUE,
      property   |-> [f \in Fields |-> IF f = "a" THEN Property(t, r, d)
                                       ELSE Property("integer", FALSE, Absent)],
      rule       |-> b] :
        t \in Types, r \in BOOLEAN, d \in {Absent, Val("intstr", 2)},
        b \in {None} \cup [computed : {"a"}, operand : {"b"}, malformed : BOOLEAN]}
    \cup
    {[wellformed |-> FALSE,
      property   |-> [f \in Fields |-> Property("integer", TRUE, Absent)],
      rule       |-> b] :
        b \in {None} \cup [computed : {"a"}, operand : {"b"}, malformed : BOOLEAN]}

MCPayloads ==
    {[f \in Fields |-> IF f = "a" THEN v ELSE w] :
        v \in Value \cup {Absent},
        w \in {Absent, Val("int", 2), Val("intstr", 4), Val("int", 8), Val("text", 0),
               Val("null", 0)}}

MCCandidates ==
    {[f \in Fields |-> IF f = "a" THEN v ELSE w] :
        v \in {Val("int", 2), Val("float", 2), Val("int", 8), Val("text", 0)},
        w \in {Absent, Val("int", 2), Val("int", 4)}}
=============================================================================
