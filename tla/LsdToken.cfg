SPECIFICATION Spec
CHECK_DEADLOCK FALSE
CONSTANTS
    a1 = a1
    a2 = a2
    Accounts = {a1, a2}
    Amounts = {1, 2}
    Caps = {2}
    NoCap = NoCap
    Expirations = {1}
    Never = Never
    InitialBalances <- MCInitialBalances
    LegacyAllowances <- MCLegacyAllowances
    MaxSupply = 3
    MaxAllowance = 2
    MaxMinters = 2
    MaxHeight = 1
INVARIANTS
    SupplyIsBalances
    AllowancesMirrored
    SupplyWithinCap
