\* Addresses go from pod to pod before the informer knows.
SPECIFICATION Spec

CONSTANTS
    None = None
    Blank = Blank
    Ids = {i1, i2}
    Pods = {p1, p2}
    IPs = {x1}
    Lookups = {l1}
    MaxTries = 2
    MaxEvents = 2
    Faults = {"reuse", "early", "watch"}

SYMMETRY Symmetry

INVARIANTS
    NoFalseForbidden
