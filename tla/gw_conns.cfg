CONSTANTS
    Specs <- IPsecSpecs
    Conns = {c1, c2}
    Pods = {p1, p2}
    None = None
    Disturbances = {"conn", "pod", "workload", "fault"}
    Budget = 2
SPECIFICATION ConnsSpec
INVARIANTS PodsAgree StatusNamesLoaded LoadedBeforeRecorded
PROPERTY ConnsRefreshed
