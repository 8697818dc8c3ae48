SPECIFICATION FairSpec
CHECK_DEADLOCK FALSE
CONSTANTS
    r1 = r1
    r2 = r2
    r3 = r3
    r4 = r4
    deposit = deposit
    forged = forged
    shifted = shifted
    rid = rid
    rid_shifted = rid_shifted
    id1 = id1
    id2 = id2
    Relayers = {r1, r2, r3, r4}
    Faulty = {r1}
    Admins = {a1, a2}
    ResourceIds = {rid, rid_shifted}
    Tokens = {t1, t2}
    Proposals = {deposit, shifted, forged}
    Made = {deposit}
    Mintable = {deposit, forged}
    ProposalIds = {id1, id2}
    ProposalIdOf <- MCProposalIdOf
    ResourceOf <- MCResourceOf
    RelayerLists <- MCRelayerLists
    MinThreshold = 2
    MaxAdminSteps = 4
INVARIANTS
    RelayersLenMatch
    MintedOnce
    NoFalseMint
PROPERTIES
    DepositMinted
