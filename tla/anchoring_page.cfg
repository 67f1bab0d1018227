CONSTANTS
    MaxRecords = 3
    Window = 2
    ProofRows = 1
    Fetches = {f1, f2}
    MaxVisits = 1
    None = None
SPECIFICATION FairSpec
CHECK_DEADLOCK FALSE
INVARIANTS
    Inv
    AllSelectedIsAll
    ShownIsAnchored
    LeavesAccounted
    ProofOfHighlight
PROPERTY WaitingEnds
