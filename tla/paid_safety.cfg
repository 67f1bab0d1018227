CONSTANTS
    Calls = {a1, a2, a3, a4}
    Payments = {p1, p2}
    Payloads = {"clean", "blocking", "badschema"}
    None = None
SPECIFICATION Spec
CHECK_DEADLOCK FALSE
SYMMETRY Symmetry
INVARIANTS
    ViewInv
    OneAttemptPerPayment
    RepairEarned
    
    
    OffersOpen
PROPERTY ImplementsContract
