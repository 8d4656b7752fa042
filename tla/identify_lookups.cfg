\* Two lookups at once; lists fail, pods complete, diagnostics expire.
SPECIFICATION FairSpec

CONSTANTS
    None = None
    Blank = Blank
    Ids = {i1}
    Pods = {p1}
    IPs = {x1}
    Lookups = {l1, l2}
    MaxTries = 2
    MaxEvents = 1
    Faults = {"reuse", "jobs", "api", "time"}

INVARIANTS
    SingleDiagnosis

PROPERTIES
    LookupsEnd
