# Specifications of neutron-contracts

TLA+ modules, TLC runs and TLAPS proofs for the four contracts of this repository:
`stake_manager` (liquid staking through interchain accounts), `lsd_token` (the cw20
token it mints), `bridge` (relayer-voted mints of that token) and `cw20-ics20` (IBC
transfers of cw20 tokens).

`PROJECT.json` lists components, runs, mutants, theorems, hazards and findings, and maps
every definition to the lines it models. Check a run with
`tlc -workers 2 -config <cfg> <MC module>` and the proofs with `tlapm <module>Proofs.tla`
(`Data`, `EraCycle`, `ValidatorSet`, `UnbondLimit`, `PoolLifecycle`, `Bridge`, `LsdToken`,
`Ics20`).

## Inventory

| Part | State it keeps | Operations | What makes it hard | Module |
|---|---|---|---|---|
| stake_manager, users | `bond`, `unbond`, `active`, `rate`, LSD supply, unstake records | Stake, Unstake, Withdraw and the two outcomes of a payment | users act at every moment of an era; a payment's outcome comes back later or as a failure | EraCycle |
| stake_manager, era cycle | `status`, `era`, `era_snapshot` | EraUpdate, EraBond, EraCollectWithdraw, EraRebond, EraActive, a callback and a failed callback each | five permissionless steps, each an IBC packet; snapshot read in one step and used three steps later | EraCycle |
| stake_manager, sudo dispatch | `SUDO_PAYLOAD`, `REPLY_ID_TO_PAYLOAD` | Response, Error, Timeout | outcomes out of order between channels, none lost or applied twice | EraCycle |
| stake_manager, configuration | commissions, limits, `paused`, `era_seconds` | ConfigPool, ConfigStack | parameters change under a running era | EraCycle (`paused`), UnbondLimit (`era_seconds`, `unbonding_period`) |
| stake_manager, unbonding allocation | `VALIDATORS_UNBONDS_TIME` | `allocate_unbond_amount`, the timestamps of the bond callback | the contract's count of a host limit, kept by a clock and a period that change | UnbondLimit |
| stake_manager, pool life cycle | `INFO_OF_ICA_ID`, status before the first era, the maps of query ids | RegisterPool, OpenAck, InitPool, MigratePool, OpenChannel, SetWithdrawAddr outcome, UpdateIcqUpdatePeriod, KVQueryResult, the periods EraUpdate and EraActive set | two accounts opened independently, retries, channels that close | PoolLifecycle |
| stake_manager, validator set | `validator_addrs`, `validator_update_status` | PoolAdd/Rm/UpdateValidator, UpdateValidatorsIcq, PoolDelegate | races with era steps and with the re-registered queries | ValidatorSet |
| stake_manager, LSM | `share_tokens`, `redeemming_share_token_denom` | StakeLsm, RedeemTokenForShare and outcomes | changes `active` in the middle of an era | LsmStake |
| bridge | relayers, threshold, resource table, proposals | VoteProposal and six admin calls | votes interleaved with changes of relayers and threshold; contents that share a key | Bridge |
| lsd_token | balances, supply, minters and cap, allowances twice | all cw20 calls, minters, migration | two copies of each allowance; several minters, one cap | LsdToken |
| cw20-ics20 | channel balances, allow list, default gas limit | Transfer, Receive, Allow, migrate, packet receive, ack, timeout, reply | balances changed before a payment that may fail | Ics20 |

How they interact: stake_manager mints and burns lsd_token inside its own transaction;
the bridge does the same for another chain's deposits; cw20-ics20 receives a token's
`Send`. None of them reads another's state, so that each is specified alone: the token's
promise to the others is that an accepted mint or burn changes one balance and the
supply, and that a refused one reverts the caller. What stake_manager really shares state
with is the host chain, through packets and interchain queries, and that composition is
what EraCycle, LsmStake, ValidatorSet, UnbondLimit and PoolLifecycle model, each with the
part of the host it talks to. LsmStake extends EraCycle and runs together with it; the
other three look at one concern against the few era steps that touch it.

## Modules

### EraCycle

One pool. State: the `PoolInfo` fields that change, the two maps of unstake records, the
contract's balance of the staking token, packets whose callback is outstanding
(`transfers` on the transfer channel, `pool_txs` and `withdraw_txs` on the two ordered
interchain-account channels), the host's accounts, the two registered queries and the
block time in eras. There is one action per handler and per callback, with its name.

* A packet is a record that first waits for the host (`ack = "none"`), then for its
  callback. An error acknowledgement and a timeout reach the same failed callback, and
  are one outcome. The two ICA channels are ordered: packets are handled and answered in
  order. After a timeout the real channel closes and has to be reopened with OpenChannel;
  that is part of PoolLifecycle.
* A query result is "fresh" when it was submitted after `last_step_height`. It carries
  what the host held when it was submitted.
* Delegations are a total over the validators. Undelegation needs a delegation query
  that covers it, as `allocate_unbond_amount` does over all validators; UnbondLimit has
  the amounts per validator.
* `received`, what the host has paid each user, is the host's state; the contract never
  sees it.
* Who holds the LSD token is left out: any user may unstake any amount up to the supply,
  a superset of what balances allow. The stack's part of the fee is taken out of the
  platform's, so that only their sum matters.
* Arithmetic is that of the code with rounding down; the fixed-point scale, the 5 kept
  back per unstake and the 1000 of the first-stake correction are constants.
* A withdrawal's payload is the text `amount_user_receiver_indices`, and its callbacks
  split it at every underscore. The receiver is not validated (`execute_withdraw.rs:75-96`),
  so its own underscores add fields to what the failed callback takes for indices
  (`:158-173`). `fields` is what they add: nothing for an address, the number of a request
  for a receiver such as `x_9`, and 0, which no request has, for one such as `a_b`. The host
  pays only when there are none. The failed callback resets every request it reads,
  whoever owns it, and aborts when one of the fields is no request; the module does both.
  Two history variables record what that does: `misread`, requests reopened while their own
  payment was in flight, and `stuck`, requests left Pending by an aborted callback.

`Spec` is the contract as it is. `SerialSpec` adds the one thing the contract does not
enforce: EraRebond is not repeated before its outcome is known, as `scripts/era.sh`,
which sends it once and waits before the next step, intends.
The reason is the finding below; everything else is checked and proved for `SerialSpec`.

### LiquidPool and EraCycleImplements

LiquidPool is what a pool promises, with no era, packet or host in it: stakes mint and
unstakes burn at the current rate, an unstake gives a claim with a number of its own, a
claim leaves only by being paid, in full and to its owner, and a new rate never makes the
supply worth more than what backs it. EraCycleImplements maps EraCycle to it: `active` is
the backing, and a claim is an unstake record whose payment the host has not executed.
The refinement is stated up to the first request in `misread`: from then on the contract can
pay one claim twice (see Findings), which no abstract pool allows.
The contract drops the record later, in the callback; that step, like every failure,
retry and rollback of the era cycle, is a stutter of LiquidPool.

### LsmStake

Extends EraCycle with share tokens on their way to the pool account, listed in
`share_tokens`, and redeemed. `late_lsm` is a history variable: what acknowledgements
booked in `active` since the last EraUpdate. Anyone redeems any listed coins at any time
(`RedeemStep`), also coins whose redemption is in flight: the contract records
`redeemming_share_token_denom` and does not check it (see Findings). `redeemed_again` is a
history variable, the denominations of which that has happened. The value of a share is
that of one validator and constant.

### ValidatorSet

The list, the update status, the query's keys and its last result, the delegations per
validator, redelegations, bonds and direct delegations on one ordered channel. An era is
EraUpdate, EraBond and EraActive; what lies between does not look at the list. Two history
variables mark gaps of the code that the properties except:
`replacement_failed` (the failed callback of a replacement leaves the new list in place)
and `outdated_read` (a change was made on a query result that does not show all
delegations, which no handler checks).

### UnbondLimit

One pool's undelegations: the recorded times per validator as ages, the host's entries as
remaining seconds, the era length and the unbonding period as the admin changes them: a new
era length sets the period anew, and the period can be set on its own to any value, as
InitPool and MigratePool take it. `dropped_early` is a history variable: EraBond has dropped
a recorded time less than the unbonding time old, which only a period that was set too short
makes it do. Ages stop at `AgeLimit`, past which the code does not tell them apart.
`allocate_unbond_amount` is a recursive function over the delegations sorted as in the code;
what a transaction undelegates is a function over all validators, 0 where it undelegates
nothing.

### Vec

`retain` of a Rust `Vec`, as a recursive function the proofs can unfold. Bridge (relayers),
LsdToken (minters), ValidatorSet (the list) and UnbondLimit (the host's entries) use it.
`RetainOutside` is the same for a list from which several elements go (LsmStake, what a
redemption takes off `share_tokens`).

### PoolLifecycle

Several pools, from RegisterPool on: the two interchain accounts and their channels, the
four query registrations with their reply ids, SetWithdrawAddr and its outcomes, timeouts
that close channels, and OpenChannel. An era is EraUpdate, which makes the pool's four
queries fast (`execute_era_update.rs:62-67`), and EraActive, which makes them slow again
(`execute_era_active.rs:171-176`); between the two the status is EraRunning. History
variables: `overlapped` (InitPool was repeated while the outcome of the last try was
outstanding; the status stays InitFailed and the code allows it) and `early_period` (the
last period set, by EraUpdate or the admin, was not the default one and came before the
first result of the validators query, which then resets that query alone).

### Bridge

Votes are sequences per proposal, the relayer list is a sequence because the code accepts
duplicates in `instantiate`. Votes are kept under `get_proposal_id`, a hash of the content
in which `resource_id` and the recipient, which nothing validates, stand next to each other
without a separator (`state.rs:36-43`). Contents that cut the same text at different places
share a record (`ProposalIdOf`); the first vote decides what it stores, and later votes for
any of them count for that. At most one of them names an address (`Mintable`), and the
token refuses to mint to the others. Honest relayers vote for deposits that were made,
faulty ones for anything.
The code accepts a threshold of 0; the specification assumes an admin that keeps it at
`MinThreshold` or above, with fewer faulty relayers than that.

### LsdToken

Balances, supply, minters and both allowance maps. Expirations are heights. The initial
states are those of `instantiate` with a minter and those an older version left for
`migrate`. A token without minter data only loses the mint calls.

### Ics20

Channel balances, escrow, limits and packets of both directions, with ids in place of
sequence numbers. The payment of a returning voucher is a submessage that may fail; then
`reply` undoes the reduction. A failed refund keeps it. The remote chain mints and burns
vouchers as ICS20 says. The allow list given to `instantiate` is a first `execute_allow`.

## Runs

| Run | Checks | Shows |
|---|---|---|
| era_cycle | TypeOK, StepOwnsItsPacket, SnapshotCovered, NetFlow, SupplyBacked, ContractHoldsBond, UnstakesCovered, ActiveFollowsDelegations, ImplementsLiquidPool | the pool's books agree with its packets, its own balance and the host account, through every failure and a slash; it implements LiquidPool |
| withdrawals | WithdrawExclusive, ImplementsLiquidPool | two users' concurrent payments: each request is paid by one packet of its owner, in full, once, but for requests reopened by a payment not theirs |
| era_liveness | EraCompletes, WithdrawSettles | a started era completes; a payment is settled unless its failed callback aborts |
| rebond_twice | OneRebondAtATime (violated) | EraRebond can be sent twice |
| lsm | ListedIsHeld, ActiveFollowsLsm, ImplementsLiquidPool | listed shares can be redeemed, but of denominations redeemed again in flight; EraActive books the delegations as last read, the net stake and all LSM stake acknowledged since the snapshot |
| validators | OneRedelegation, EraSetStable, QueryFollowsList, NothingStranded, ChangeSettles | one change at a time, none under a running era; outside the two gaps every delegation is in sight |
| unbond | HostNeverFull, UnbondExact, UnbondGoesThrough | the host's limit is never hit, also when the era length changes, unless a period set too short made EraBond forget an unbonding; a skipped validator does not block the era for good |
| lifecycle | PoolReady, PeriodsAgree, NeverBackToInit, InitCompletes | a pool that takes stakes is complete, its queries are fast while an era needs them; a reopened channel or a late outcome does not undo it |
| bridge | RelayersLenMatch, MintedOnce, NoFalseMint, DepositMinted | votes interleaved with admin calls, also for a content with a deposit's id; a deposit whose missing votes suffice is minted unless its id holds another content |
| lsd_token | SupplyIsBalances, AllowancesMirrored, SupplyWithinCap | any sequence of token calls |
| ics20 | OutstandingExact, EscrowCovers, RefundNotBlocked | channel balances are exact and covered |
| ics20_limit | LimitNotReduced (violated) | allow can lower the limit of a token that is out |

The TypeOK of the modules other than EraCycle documents their state and is not a question
of a run.

Every property of a passing run has a mutant in `PROJECT.json`: an operator marked
"Seeded defect" that stands beside the definition it would replace.

Bounds. EraCycle: two eras (three for liveness), so that an unstake of the first is bonded
in the second and withdrawn after it; stakes of 4 (twice) or 6 with a scale of 2, where
roundings, fees and rates other than the default occur; one slashed token; one or two
unstake requests; a withdrawal is submitted while fewer than `MaxPackets` of the pool's
transactions are outstanding, three, so that two payments are in flight next to the era's
transaction. Receivers are addresses or, in `withdrawals`, such that the failed callback
reads request 1, and in `era_cycle` and `era_liveness` such that it aborts. Amounts are
small because the properties compare sums, and the theorems cover all amounts. Bridge: three
of four relayers, one faulty, four admin calls, enough to remove a voter, change the
threshold and replace the token between two votes; three contents, of which one is a
deposit, one has its id and no address for a recipient, and one is forged under an id of its
own. LsdToken: two accounts, as owner, spender and recipient in every combination; a third
adds no new way for two maps to disagree, and makes the run too large. Ics20: three packets
over two channels, so that a transfer, a return and a refund overlap. Channels and users are
symmetric in the runs that say so, which check safety properties only. LsmStake: one era,
two denominations, of one of which two coins can be listed at once (so that a redemption
takes the other off as well), one share transfer and two redemptions in flight, which is
enough to redeem a coin twice, no unstake: those are in the runs of EraCycle. ValidatorSet:
three validators, a list of two, two tokens, one era of either direction, two transactions
in flight: a change, a direct delegation and an era overlap. UnbondLimit: two validators
with two entries each in place of seven, an unbonding time of two seconds and eras of one or
two, which give all the periods the formula rounds differently. The period the admin sets is
0: with these eras that is the only one shorter than the unbonding time (a period of 1 keeps
a time for two seconds), as the scripts' 1 is against an unbonding time of three weeks.
PoolLifecycle: two pools that exactly fill the range of reply ids, which therefore wraps,
and four channels: both pools, or one pool with two reopened channels.

Fairness. EraCycle: the keeper calls a step that can be called, relayers answer queries
and deliver outcomes, unbonding ends, and (strong fairness) the host does not fail the
same retried step for ever. No fairness is assumed of users, of the admin or of time.
WithdrawSettles excepts `stuck` requests, which stay Pending for ever.
EraCompletes excludes a balanced snapshot with nothing delegated: EraBond then has no
message to submit, the interchain-transaction module refuses it, and the era waits.
LsmStake is checked for safety only. ValidatorSet: outcomes are decided and delivered and
the admin ends a change with UpdateValidatorsIcq; nothing is assumed of the host's verdict.
UnbondLimit: time passes, the keeper calls EraBond, outcomes are delivered, and (strong
fairness) the host does not refuse for ever. PoolLifecycle: the admin retries and reopens
closed channels, channels open, and (strong fairness) a repeated SetWithdrawAddr is
executed once. Bridge: each honest relayer votes for each deposit. Ics20_limit: relayers
deliver.

## Proofs

Eight modules: one of data, and one per component, which EXTENDS the component's module;
LsmStake extends EraCycle, and EraCycleProofs is about both.
All theorems hold for every value of the constants that meets the named assumptions.

### DataProofs

What the others need of data. The library states no usable fact about the sum of a
function over a set, and its induction theorems take an operator as a parameter, which no
installed prover can instantiate. Both are replaced by least counterexamples. The strict
subset relation on a finite set is well founded (`LeastSubset`), which gives a least
natural of any non-empty set (`LeastNat`, `UpTo`), the existence of the recursion behind a
sum (`SumsExist`), that its order does not matter (`SumsAnyOrder`), and from these how a
sum changes (`SumAdd`, `SumRemove`, `SumUpdate`, `SumUnion`, `SumPart`). The same way
`StepsExist` shows that a computation of n steps has a value, so that recursive functions
such as `Retain`, `RetainOutside` and `allocate_unbond_amount` unfold (`RetainKeeps`,
`RetainSuffix`, `OutsideUnfolded`, `AllocationUnfolded`). What `RetainOutside` leaves is
what was outside (`OutsideKeeps`), each element at a place of its own (`OutsidePlaces`), so
that its sum is at most that of the places it came from (`SumInjected`).

### EraCycleProofs

For `SerialSpec`, for any users, amounts, commissions up to the scale, rates and bounds:
TypeOK, StepOwnsItsPacket, SnapshotCovered, NetFlow, ContractHoldsBond, SupplyBacked and
ActiveFollowsDelegations.

None of them is inductive alone. `IInv` is their conjunction with the parts they need of
each other: type correctness of the callbacks' subtractions rests on SnapshotCovered,
which holds while the bond callback is outstanding only because StepOwnsItsPacket says
that no second bond packet can be answered after the first. NetFlow needs the same two.
SupplyBacked is the arithmetic part: stakes, unstakes, fees and new rates each round in
the pool's favour (lemmas on integer division), and the first-stake correction keeps an
active that is larger than the new one. BooksTheorem follows from NetFlow in the step of
EraActive. The step is proved in four lemmas, one per group of conjuncts (TypeStep,
PacketStep, FlowStep, BackedStep), each with one case per action. Assumptions:
`ScaleAssumption`, `ConfigAssumption`, `CommissionAssumption` (the code lets the admin set
any commission), `BoundAssumption`.

The second part proves WithdrawExclusive, UnstakesCovered and the refinement of LiquidPool,
under the same assumptions. The inductive invariant `RInv` adds to `IInv` the requests'
side: payments in flight are for requests of their user that are marked Pending
(`PaymentsOpen`), no two for the same one (`PaymentsDisjoint`), none is marked without a
payment (`PendingIsPaid`) unless an aborted callback left it so (`StuckIsPending`), and a
payment's amount is the sum of its requests (`PaymentAmounts`). All of them leave out the
requests in `misread`, for any receivers: an owner or a stranger whose payment is refused
can reopen a request during its own payment, and nothing holds for that one afterwards. The
sums (PaymentAmounts, UnstakesCovered) and the refinement hold until the first such request;
a callback that aborts does not disturb them. UnstakesCovered compares what is owed (`Owed`,
a sum) with what the host has to spare (`Spare`); the proof shows step by step that `Spare`
loses only what `Owed` loses with it. For the steps that delegate this takes two more
conjuncts: what a bond in flight moves is the snapshot's (`BondMoves`), and a restake amount
is in the pool account from the collection to the rebond (`RestakeHeld`). The rebond of the
finding, sent twice, is what would break it, which is why the theorems are about
`SerialSpec`. `RefinementTheorem` proves initial states and every action of `SerialNext`
against LiquidPool: Stake, Unstake, the host's payment and EraActive map to its four
actions, everything else to a stutter.

The third part is about `LsmSpec`, the same era cycle with LSM stake, and reuses the lemmas
of the first two. They are stated for that: the pool account's channel may carry redemptions
next to the era's transactions (`Types`, `Core`), and `Flow(late)` ties the books to the
snapshot up to an amount `late` booked since, which is 0 in `SerialSpec` and `late_lsm`
here. The inductive invariant is `LInv == RCore /\ Flow(late_lsm) /\ Shares`. Of the shares
it says that transfers in flight are finitely many with ids of their own
(`TransfersDistinct`), that each redemption in flight is of coins still listed, no two of
one denomination, all of them recorded in `redeemming_share_token_denom`
(`RedemptionsKnown`), and, for each denomination, that what is listed and what has arrived
on the host but is not listed yet (`ArrivingIn`) is at most what the account holds and what
was redeemed with the callback still to come (`SharesHeld`); the last two leave out the
denominations in `redeemed_again`, and assume nothing of who redeems and when. ListedIsHeld
alone is not inductive: an acknowledgement lists what it says nothing of. SharesHeld needs
RedemptionsKnown in the redemption's callback, which takes a denomination's coins off the
list together with what was redeemed of it: a second redemption in flight would from then on
be of coins no longer listed, and could take the shares of one yet to be listed. That is the
behaviour under Findings, and what `redeemed_again` marks:

* LsmTypeTheorem (LsmTypeOK; the host's subtraction of redeemed shares stays natural);
* ListedTheorem, and FundedTheorem: no redemption of a denomination that was never
  redeemed again in flight is refused for lack of shares, now or when the host comes to
  it, so that no listed coin of it is beyond redeeming;
* LsmBooksTheorem (ActiveFollowsLsm: the delegations as last read, the net stake, all LSM
  stake acknowledged since the snapshot), from `Flow(late_lsm)` in the step of EraActive;
* LsmEraTheorem: StepOwnsItsPacket, SnapshotCovered, ContractHoldsBond, SupplyBacked,
  WithdrawExclusive and UnstakesCovered hold with LSM stake too, also with the unstakes
  that the run leaves out, and with the same exceptions as above;
* LsmRefinementTheorem: an acknowledged LSM stake is LiquidPool's Stake of the value of its
  shares at the rate of that moment; redemptions and failures are stutters.

The share values are those of any positive number of delegator shares and any tokens
(`LsmAssumption`); no relation between the denominations is assumed.

### ValidatorSetProofs

OneRedelegation, QueryFollowsList, EraSetStable, TypeOK and NothingStranded for `Spec`, for
any validators, limits and bounds. `SetInv` (records, one redelegation exactly while the
status is Start, the era waits for End, the query's keys follow the list or its change)
with `BondAlone` gives the first three and assumes nothing of the initial list.
NothingStranded is conditional on the two history variables, and so is its strengthening
`AllListed`: as long as neither gap occurred, each transaction in flight delegates only to
listed validators, and a redelegation is alone in the channel and moves everything away
from the validator that goes. TypeOK and NothingStranded need `InitialAssumption`, that
the admin lists each validator once, which InitPool does not check
(`execute_init_pool.rs:34`); AddValidator and UpdateValidator keep it.

### UnbondLimitProofs

HostNeverFull, UnbondExact and TypeOK for `Spec`, for any validators, limit, unbonding time,
range of era lengths and periods set at any time. The invariant (`EntriesRecorded`) lays the
host's entries beside the newest recorded times: the seconds an entry has left and the age
recorded for it never exceed the unbonding time together, counting the time the callback is
about to write. A time that is dropped once the unbonding time has passed has no entry
beside it, so that this holds until `dropped_early`. PeriodTheorem says when that cannot
happen: while the period is the one ConfigPool derives from the era length, which is never
shorter than the unbonding time (`PeriodCovers`). UnbondExact is an invariant of the
allocation's loop: what is allocated and what remains add up to the amount.

### PoolLifecycleProofs

PoolReady, PeriodsAgree, NeverBackToInit and TypeOK for `Spec`, for any finite set of
pools, any range of reply ids that their queries fit (`RangeAssumption`) and any number of
channels and transactions. A query is found by two numbers that are counted apart: the
reply id, which the contract counts round its range, and the query id, which the chain
counts. `IdsKeepStep` says that they keep step: the nth query ever registered has the nth
id of the range, since every registration takes four of both and, with four ids for each
pool, the range is never gone round. From that a key leads to the query registered for it,
whatever was registered later (`KeysFound`), and a first result finds its own validators
query (`FirstResults`); `PeriodsKept` and `EraFast` are PeriodsAgree with what holds until
then, through the periods that eras and the admin set.
PoolReady's rest comes from `RewardsSet`: every SetWithdrawAddr names the pool's withdraw
account, also one sent by a retry, and one was executed before the pool runs.
NeverBackToInit is an action property; it follows step by step from `OneOutcome`, that
nothing is in flight for a running pool unless InitPool was repeated with an outcome
outstanding.

### BridgeProofs

NoFalseMint, MintedOnce, RelayersLenMatch and TypeOK for `Spec`, for any finite set of
faulty relayers smaller than the least threshold, and any contents that share ids as
`RecipientAssumption` allows. The inductive invariant says that the votes of a record are
distinct, that a stored content belongs under its id, and that only faulty relayers have
voted for records no deposit belongs to; the length of such a vote list is then the
cardinality of a set of faulty relayers, which is below every threshold. A content that is
not a deposit but shares the id of one gets honest votes, and no mint: of contents with one
id only one names an address. (A deposit that itself names none lends its id to whoever
does; NoFalseMint excepts it.)

### LsdTokenProofs and Ics20Proofs

SupplyIsBalances, AllowancesMirrored and SupplyWithinCap for any finite set of accounts;
the invariant adds that before the migration the map by spender is empty, since
`deduct_allowance` would otherwise find an entry in one map only. OutstandingExact,
EscrowCovers and RefundNotBlocked for any channels (finitely many), denominations and
gas limits; the invariant adds that packets are finitely many with ids of their own, so
that a packet that changes state changes the sum by its amount, and that a token with a
channel balance has a known gas limit (`GasKept`).

### Only model-checked

Liveness: EraCompletes, WithdrawSettles, ChangeSettles, UnbondGoesThrough, InitCompletes and
DepositMinted. It needs fairness, and so ENABLED, which the provers do not handle. Every
invariant and every other action property of a passing run is also a theorem. The two
runs that find a violation are model-checked by their nature.

## Findings

* `execute_era_rebond.rs:28` assigns RebondStarted and never saves it (rebond_twice).
* `cw20-ics20`: `execute_allow` can lower the limit of a token that was sent under the
  default limit, against its comment (ics20_limit).

Behaviour the models show and no document of the repository speaks of:

* Withdraw takes any receiver. A payment to `x_9` is refused by the host, and its failed
  callback makes request 9 payable again, whoever owns it; when 9's own payment is in
  flight at that moment, 9 can be paid twice, and the rest of the requests is no longer
  covered. A payment to `a_b` makes the failed callback panic at `parse` or fail at `load`
  (`execute_withdraw.rs:162-164`), and its requests stay Pending for ever. WithdrawExclusive,
  UnstakesCovered, WithdrawSettles and the refinement except exactly these requests.
* `unbonding_period` can be set to anything (`execute_config_pool.rs:29-31`, InitPool and
  MigratePool; the scripts set 1). When it is shorter than the unbonding time EraBond
  forgets unbondings in progress, and the host refuses the era's transaction until they
  end. HostNeverFull excepts it.
* EraUpdate before the validators query has had its first result sets all four queries to
  the fast period, and that result then sets the validators query back to the default one.
  PeriodsAgree excepts it, until the next period is set.
* One faulty relayer can store a content with the id of a deposit before the first honest
  vote. The votes for the deposit then count for that content, whose recipient is no
  address: the vote that reaches the threshold is refused by the token, and the deposit is
  never minted. DepositMinted excepts it.
* `gen_redelegate_txs` names the message `/cosmos.staking.v1beta1.BeginRedelegate`
  (`helper.rs:166`), without the `Msg` that the other generators have. A host that does not
  know that type refuses every redelegation: removing a validator that has delegations then
  never succeeds, and every replacement of one ends in the exception `replacement_failed`.
  ValidatorSet leaves either outcome open.
* LSM stake is booked by its acknowledgement, and in the delegations once its shares are
  redeemed. EraActive subtracts only the active of the snapshot, so what is acknowledged
  after the snapshot is booked twice when its redemption is in the delegations read; and
  what was acknowledged before is not booked when its redemption is not: a redemption does
  not move `last_step_height`, so that a result submitted before it is used without it.
  ActiveFollowsLsm states what is booked exactly.
* One redemption's callback takes all coins of its denomination off the list. The others
  stay in the pool account and are no longer redeemable by the contract.
* The same coin can be sent for redemption again before the first outcome is back. If
  another coin of its denomination and amount is on its way, the second redemption takes
  that one's tokens, and the coin is listed afterwards with nothing to redeem: EraActive,
  which waits for an empty list, is then blocked. ListedIsHeld excepts the denominations
  of which this was done, and nothing else.
* A replacement that fails leaves the new list in place, with the query still on the old
  one. QueryFollowsList and NothingStranded except it.
* Removing or replacing a validator trusts a query result of any age. NothingStranded
  excepts it.
* InitPool repeated before its last outcome is known can, by a late failure, put a running
  pool back to InitFailed, and by a late success end an era. NeverBackToInit excepts it.
* The comment on the token's `cap` (`lsd_token/src/msg.rs:18`, `state.rs:20`) speaks of
  how many more tokens can be issued; the code bounds the supply, so that burnt tokens can
  be issued again. SupplyWithinCap states what the code does.
* InitPool accepts a list that names a validator twice; RemoveValidator then takes both out.
* A longer era shortens the unbonding period in eras for open requests too: they become
  payable before the host has unbonded them, and the payment then fails and is retried.

## Plan

1. Results of an earlier remote height in the interchain queries of EraCycle.
2. The storage conversion of cw20-ics20 (`migrations.rs`).

Not modelled, and not planned: smart queries, events and attributes, marketing data and
logos of the token, JSON and protobuf encoding, IBC fees, address validation, ConfigStack
and the transfers of admin rights in stake_manager and cw20-ics20, which guard calls whose
sender the models do not distinguish.
