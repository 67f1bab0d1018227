CONSTANTS
    Calls = {a1, a2}
    Payments = {p1, p2}
    Payloads = {"blocking"}
    None = None
SPECIFICATION Spec
CHECK_DEADLOCK FALSE
INVARIANT FailedMeansUnpaid
