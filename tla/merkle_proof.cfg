CONSTANTS
    Receipts = {h1, h2, h3, h4, h5, h6}
    MaxBatch = 5
    ListLimit = 5
    MaxNewer = 1
    None = None
SPECIFICATION Spec
CHECK_DEADLOCK FALSE
SYMMETRY Symmetry
INVARIANTS
    Inv
    ValidIsCommitted
    IntactIsValid
    RootIsReference
