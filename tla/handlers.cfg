\* Two concurrent requests of one id; any dial may fail.
SPECIFICATION RateSpec

CONSTANTS
    None = None
    Ids = {i1}
    Reqs = {r1, r2}
    Addrs = {a1}
    Sess = {1, 2, 3, 4}
    IdleTTL = 2
    Cooldown = 2
    Kinds = {"ws", "http"}
    Faults = {"flaky", "reuse", "crash", "delete"}

SYMMETRY Symmetry

INVARIANTS
    TypeOK
    IndInv
    SingleEnsure
    ConnAccounting

PROPERTIES
    TunnelKeepsSession
    GateSpec
    DropsAreSpaced
