SPECIFICATION Spec
CONSTANTS
    Protos = {"TCP", "UDP"}
    AllProtos = "ALL"
    Capacity = 3
    Limit = 2
    MaxRows = 3
    Calls = {c1, c2}
    MaxSeen = 4
    MaxChanges = 1
    MaxRestarts = 1
SYMMETRY CallSymmetry
INVARIANTS
    TableConsistent
    CleanTableComplete
    RowsNewestFirst
