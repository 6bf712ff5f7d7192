CONSTANTS
    Specs <- ResSpecs
    Conns = {}
    Pods = {}
    None = None
    Disturbances = {"edit"}
    Budget = 1
SPECIFICATION Safe
INVARIANT EditsApplied
