SPECIFICATION FairSpec
CONSTANTS
    Users = {u1}
    StakeAmounts = {4}
    Rewards = {0, 2}
    CAL_BASE = 2
    PRECISION_GAP = 1
    FIRST_STAKE_SLACK = 2
    minimal_stake = 1
    platform_fee_commission = 1
    unbond_commission = 0
    rate_change_limit = 0
    unbonding_period = 1
    unstake_times_limit = 2
    ReceiverFields = {{}, {0}}
    MaxEra = 3
    MaxActive = 4
    MaxIndex = 1
    MaxPackets = 3
    MaxSlash = 0
PROPERTIES
    EraCompletes
    WithdrawSettles
