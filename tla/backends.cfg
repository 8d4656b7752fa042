\* Two calls at once to each of the four providers.
SPECIFICATION FairSpec

CONSTANTS
    None = None
    Ids = {i1}
    Addrs = {a1, a2}
    Calls = {c1, c2}
    MaxFaults = 2

INVARIANTS
    ProvidersTypeOK
    AnsweredInForce
    ListIsComplete

PROPERTIES
    ImplementsBackend
    AnswersArePublished
    PolicyKept
    DeleteIsHonest
    RetriesSucceed
