\* Requests one after the other; evictions, crashes, failing lists and deletes.
SPECIFICATION RetryingSpec

CONSTANTS
    None = None
    Ids = {i1}
    Reqs = {r1}
    Addrs = {a1, a2, a3}
    Sess = {1, 2, 3, 4}
    IdleTTL = 2
    Cooldown = 2
    Kinds = {"ws", "http"}
    Faults = {"evict", "crash", "list", "delete"}

PROPERTIES
    StaleReplaced
