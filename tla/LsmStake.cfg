SPECIFICATION LsmSpec
CONSTANTS
    d1 = d1
    d2 = d2
    ShareDenoms = {d1, d2}
    Issued <- MCIssued
    ShareAmounts = {2}
    val_token_amount = 3
    val_share_amount = 2
    lsm_pending_limit = 2
    MaxTransfers = 1
    MaxRedeem = 2
    Users = {u1}
    StakeAmounts = {4}
    Rewards = {0}
    CAL_BASE = 4
    PRECISION_GAP = 1
    FIRST_STAKE_SLACK = 2
    minimal_stake = 1
    platform_fee_commission = 1
    unbond_commission = 0
    rate_change_limit = 0
    unbonding_period = 1
    unstake_times_limit = 2
    ReceiverFields = {{}}
    MaxEra = 1
    MaxActive = 4
    MaxIndex = 0
    MaxPackets = 3
    MaxSlash = 0
INVARIANTS
    ListedIsHeld
PROPERTIES
    ActiveFollowsLsm
    ImplementsLiquidPool
