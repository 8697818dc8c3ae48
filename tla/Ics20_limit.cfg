SPECIFICATION FairSpec
CONSTANTS
    Channels = {c1, c2}
    Natives = {untrn}
    Cw20s = {lsd}
    Foreign = Foreign
    Amounts = {1, 2}
    GasLimits = {1, 2}
    NoLimit = NoLimit
    NoDefault = NoDefault
    MaxPackets = 3
    MaxAllows = 1
PROPERTIES
    LimitNotReduced
