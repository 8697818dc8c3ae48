SPECIFICATION SerialSpec
SYMMETRY UserSymmetry
CONSTANTS
    Users = {u1, u2}
    StakeAmounts = {6}
    Rewards = {0}
    CAL_BASE = 2
    PRECISION_GAP = 1
    FIRST_STAKE_SLACK = 2
    minimal_stake = 4
    platform_fee_commission = 1
    unbond_commission = 1
    rate_change_limit = 1
    unbonding_period = 1
    unstake_times_limit = 2
    ReceiverFields = {{}, {1}}
    MaxEra = 2
    MaxActive = 6
    MaxIndex = 2
    MaxPackets = 3
    MaxSlash = 0
INVARIANTS
    WithdrawExclusive
PROPERTIES
    ImplementsLiquidPool
