SPECIFICATION FairSpec
CONSTANTS
    Names = {web}
    Ids = {i1, i2}
    Passes = {p1}
    NoId = NoId
    MaxInFlight = 3
    MaxUpsets = 1
INVARIANTS
    TypeOK
    PassesReconcile
PROPERTY RowsConverge
