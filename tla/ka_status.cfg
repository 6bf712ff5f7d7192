CONSTANTS
    KeepAliveds = {a}
    TwoVIPs = {}
    MaxID = 2
    StatusSubresource = TRUE
    MaxRev = 2
    MaxFaults = 0
SPECIFICATION Spec
PROPERTY EventuallyAssigned
