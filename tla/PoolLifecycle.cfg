SPECIFICATION FairSpec
CONSTANTS
    IcaIds = {p1, p2}
    QUERY_REPLY_ID_RANGE_START = 3
    QUERY_REPLY_ID_RANGE_END = 10
    CAL_BASE = 2
    MigrateParams <- MCMigrateParams
    MaxChannels = 4
    MaxTxs = 2
INVARIANTS
    PoolReady
    PeriodsAgree
PROPERTIES
    NeverBackToInit
    InitCompletes
