CONSTANTS
    Fields = {"a", "b"}
    Numbers = {0, 2, 3, 4, 6, 8, 9}
    Double <- MCDouble
    Infinity = 9
    Policies <- MCPolicies
    Payloads <- MCPayloads
    Candidates <- MCCandidates
    Absent = Absent
    None = None
SPECIFICATION Spec
CHECK_DEADLOCK FALSE
INVARIANTS
    Inv
    OutcomeMatchesOutput
    ReceiptAgrees
    ResponseShowsRepair
    RepairIsMinimal
PROPERTY HandlerServes
