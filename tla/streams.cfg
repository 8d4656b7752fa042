SPECIFICATION FairSpec
CONSTANTS
    None = None
    Numbers = {0, 1, 65536}
    Tunnels = {t1}
    MaxBytes = 2
INVARIANTS
    TypeOK
    AccountingExact
    StreamsIntact
    ConfigUsable
PROPERTIES
    TunnelsEnd
    ExitsWhenBroken
CHECK_DEADLOCK FALSE
