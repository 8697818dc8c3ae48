SPECIFICATION FairSpec
CONSTANTS
    v1 = v1
    v2 = v2
    v3 = v3
    Validators = {v1, v2, v3}
    VALIDATER_LEN_LIMIT = 3
    STAKE_SPLIT_THRESHOLD = 2
    InitialValidators <- MCInitialValidators
    Nets <- MCNets
    MaxTotal = 2
    MaxEra = 1
    MaxTxs = 2
INVARIANTS
    OneRedelegation
    QueryFollowsList
    NothingStranded
PROPERTIES
    EraSetStable
    ChangeSettles
