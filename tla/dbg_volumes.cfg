CONSTANTS
    Specs <- OneSpec
    None = None
    Disturbances = {"input"}
    Budget = 2
SPECIFICATION Spec
INVARIANT ScriptsMounted
