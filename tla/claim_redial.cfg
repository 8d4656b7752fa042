\* A second Refresh within the cooldown of the first.
SPECIFICATION Spec

CONSTANTS
    None = None
    Ids = {i1}
    Reqs = {r1, r2}
    Addrs = {a1}
    Sess = {1, 2, 3, 4}
    IdleTTL = 1
    Cooldown = 2
    Kinds = {"ws"}
    Faults = {"flaky", "reuse"}

INVARIANTS
    RedialsResolved
