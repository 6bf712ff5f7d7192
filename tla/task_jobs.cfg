CONSTANTS
    f1 = f1
    f2 = f2
    f3 = f3
    post = post
    quiet = quiet
    absent = absent
    unknown = unknown
    Garbage = Garbage
    Files = {f1, f2, f3}
    Tasks <- MCTasks
    TaskMap = {post, quiet, absent}
    NoScript = {absent}
    Silent = {quiet}
    MaxFaults = 2
    MaxRestarts = 1
SPECIFICATION Spec
INVARIANTS TypeOK AccountedFor CountMatches
PROPERTIES NoLateReport ImplementsInspection JobsEnd
\* When its files are done the container sleeps.
CHECK_DEADLOCK FALSE
