\* A tunnel opened between the scan of the reaper and its Delete.
SPECIFICATION Spec

CONSTANTS
    None = None
    Ids = {i1}
    Reqs = {r1}
    Addrs = {a1}
    Sess = {1, 2, 3, 4}
    IdleTTL = 1
    Cooldown = 1
    Kinds = {"ws"}
    Faults = {}

PROPERTIES
    TunnelKeepsSandbox
