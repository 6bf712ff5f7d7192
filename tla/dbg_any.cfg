CHECK_DEADLOCK FALSE
CONSTANTS
    Specs <- AnySpecs
    None = None
    Disturbances = {"edit", "delete", "input", "workload", "fault", "crash"}
    Budget = 2
SPECIFICATION Spec
INVARIANT TypeOK
PROPERTIES RecordedFromCurrentSpec DaemonsetConverges NothingLeftBehind
