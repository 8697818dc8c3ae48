SPECIFICATION FairSpec
CONSTANTS
    v1 = v1
    v2 = v2
    ValidatorAddrs <- MCValidatorAddrs
    MAX_UNBONDINGS = 2
    UNBONDING_SECONDS = 2
    MIN_ERA_SECONDS = 1
    MAX_ERA_SECONDS = 2
    InitialDelegation <- MCInitialDelegation
    MaxUnbond = 2
    MaxPeriod = 0
    AgeLimit = 5
INVARIANTS
    HostNeverFull
    UnbondExact
PROPERTIES
    UnbondGoesThrough
