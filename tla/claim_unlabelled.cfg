\* An address is reused once every event about it was handled.
SPECIFICATION Spec

CONSTANTS
    None = None
    Blank = Blank
    Ids = {i1}
    Pods = {p1}
    IPs = {x1}
    Lookups = {l1}
    MaxTries = 1
    MaxEvents = 2
    Faults = {"reuse"}

INVARIANTS
    UnlabelledForbidden
