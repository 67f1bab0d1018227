CONSTANTS
    Calls = {a1, a2}
    Payments = {p1, p2}
    Payloads = {"blocking"}
    None = None
SPECIFICATION FairSpec
CHECK_DEADLOCK FALSE
PROPERTY PaymentResolves
