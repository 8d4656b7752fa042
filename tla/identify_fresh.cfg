\* Addresses are not reused; the watch may break.
SPECIFICATION Spec

CONSTANTS
    None = None
    Blank = Blank
    Ids = {i1}
    Pods = {p1, p2}
    IPs = {x1, x2}
    Lookups = {l1}
    MaxTries = 1
    MaxEvents = 2
    Faults = {"watch"}

SYMMETRY Symmetry

INVARIANTS
    TypeOK
    NoMisidentification
    CaughtUp
