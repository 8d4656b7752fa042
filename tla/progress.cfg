\* Two concurrent requests of one id; any dial may fail.
SPECIFICATION FairSpec

CONSTANTS
    None = None
    Ids = {i1}
    Reqs = {r1, r2}
    Addrs = {a1}
    Sess = {1, 2, 3, 4}
    IdleTTL = 1
    Cooldown = 1
    Kinds = {"ws"}
    Faults = {"flaky", "reuse"}

PROPERTIES
    RequestsProgress
    UnusedReaped
    FailureForgotten
