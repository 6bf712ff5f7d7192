CHECK_DEADLOCK FALSE
CONSTANTS
    Specs <- AnySpecs
    Conns = {}
    Pods = {}
    None = None
    Disturbances = {"edit", "delete", "keepalived", "workload", "fault", "crash"}
    Budget = 3
SPECIFICATION Spec
INVARIANTS TypeOK RouterIDReady DeployedWhenSettled AppliedWhenSettled
PROPERTIES StatusFromCurrentSpec WorkloadRestored NothingLeftBehind
