\* Two ids that share the reaper and the pool of addresses; every kind of request.
SPECIFICATION RateSpec

CONSTANTS
    None = None
    Ids = {i1, i2}
    Reqs = {r1}
    Addrs = {a1, a2, a3}
    Sess = {1, 2, 3, 4}
    IdleTTL = 1
    Cooldown = 1
    Kinds = {"ws", "http", "bigbody"}
    Faults = {"evict", "crash"}

SYMMETRY Symmetry

PROPERTIES
    DialsOwnSandbox
