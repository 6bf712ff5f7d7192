CONSTANTS
    Conns = {c1}
    Pingers = {p1}
    Values = {v1, v2}
    None = None
    MaxRev = 4
    MaxFaults = 1
SPECIFICATION Spec
INVARIANTS TypeOK FollowsWhenSettled
PROPERTIES StatusFromCurrentSpec ListedConverges StatusConverges
