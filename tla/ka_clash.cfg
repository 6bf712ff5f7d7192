CONSTANTS
    KeepAliveds = {a, b}
    TwoVIPs = {}
    MaxID = 2
    StatusSubresource = FALSE
    MaxRev = 4
    MaxFaults = 0
SPECIFICATION Safe
SYMMETRY Symmetry
INVARIANT UniqueIDs
