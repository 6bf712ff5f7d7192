CONSTANTS
    KeepAliveds = {a, b, c}
    TwoVIPs = {}
    MaxID = 2
    StatusSubresource = FALSE
    MaxRev = 4
    MaxFaults = 1
SPECIFICATION Spec
INVARIANT TypeOK
PROPERTIES WriteOnce ImplementsAllocator EventuallyAssigned
