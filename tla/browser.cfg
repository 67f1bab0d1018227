CONSTANTS
    MaxRequests = 3
    OwnRequests = 2
    MaxReceipts = 3
    Anchorable = {1, 2}
    PageSize = 1
    TotalCap = 2
    MaxEntries = 1
    Calls = {c1}
    Repairs = {r1, r2}
    None = None
SPECIFICATION Spec
SYMMETRY Symmetry
INVARIANTS
    Inv
    LogTrue
    ResultIsOfRequest
    HistoryShowsItsPage
    ForeignProofExplained
PROPERTY NoRecordSkipped
