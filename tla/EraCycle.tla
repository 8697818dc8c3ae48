------------------------------ MODULE EraCycle ------------------------------
(***************************************************************************)
(* The liquid-staking core of the stake_manager contract for one pool:     *)
(* users stake and unstake on Neutron at any time, while a permissionless  *)
(* keeper drives the era cycle                                             *)
(*                                                                         *)
(*   ActiveEnded -> EraUpdateStarted -> EraUpdateEnded -> BondStarted      *)
(*     -> BondEnded -> WithdrawStarted -> WithdrawEnded -> (RebondStarted) *)
(*     -> RebondEnded -> ActiveEnded                                       *)
(*                                                                         *)
(* Each "Started" step sends an IBC packet whose outcome comes back, much  *)
(* later, to a sudo callback.  The host chain (bank, staking, ICA host)    *)
(* and Neutron's interchain queries are modelled from how the contract     *)
(* uses them.                                                              *)
(*                                                                         *)
(* Abstractions: delegations are a total over the pool's validators (how   *)
(* an amount is split over them is a separate question); block heights are *)
(* reduced to whether a query result was submitted after the last step;    *)
(* the pool takes no LSM stake and changes no validator meanwhile; the     *)
(* write-only counters total_platform_fee, TOTAL_STACK_FEE and ERA_RATE    *)
(* are left out.                                                           *)
(***************************************************************************)
EXTENDS Integers, Sequences, FiniteSets, Functions

CONSTANTS
    Users,                    \* addresses that stake and unstake
    StakeAmounts,             \* amounts a user may stake in one call
    Rewards,                  \* staking rewards a host transaction may pay out
    CAL_BASE,                 \* fixed-point scale of rates and commissions
    PRECISION_GAP,            \* kept back from every unstake (5 in the code)
    FIRST_STAKE_SLACK,        \* the 1000 of the first-stake correction
    minimal_stake, platform_fee_commission, unbond_commission,
    rate_change_limit, unbonding_period, unstake_times_limit,
    ReceiverFields,           \* what a receiver adds to a withdrawal's payload
    MaxEra,                   \* bound: eras the clock reaches
    MaxActive,                \* bound: tokens ever booked as active
    MaxIndex,                 \* bound: unstake requests ever made
    MaxPackets,               \* bound: the pool's transactions when one more
                              \* withdrawal is submitted
    MaxSlash                  \* bound: tokens slashed on the host in all

ASSUME ScaleAssumption ==
    /\ CAL_BASE \in Nat \ {0}
    /\ PRECISION_GAP \in Nat
    /\ FIRST_STAKE_SLACK \in Nat

ASSUME ConfigAssumption ==
    /\ StakeAmounts \subseteq Nat
    /\ Rewards \subseteq Nat
    /\ minimal_stake \in Nat
    /\ platform_fee_commission \in Nat
    /\ unbond_commission \in Nat
    /\ rate_change_limit \in Nat
    /\ unbonding_period \in Nat
    /\ unstake_times_limit \in Nat
    /\ ReceiverFields \subseteq SUBSET Nat

\* No handler checks it: the pool's admin is trusted to set a commission of at
\* most the whole reward.
ASSUME CommissionAssumption == platform_fee_commission <= CAL_BASE

ASSUME BoundAssumption ==
    /\ MaxEra \in Nat /\ MaxActive \in Nat /\ MaxIndex \in Nat
    /\ MaxPackets \in Nat /\ MaxSlash \in Nat

VARIABLES
    \* PoolInfo
    status, era, bond, unbond, active, rate, total_lsd_token_amount,
    era_snapshot, next_unstake_index, paused,
    \* UNSTAKES_OF_INDEX and UNSTAKES_INDEX_FOR_USER of the pool
    unstakes_of_index, unstakes_index_for_user,
    \* history, read by no action: requests reopened by the failure of a payment
    \* that was not theirs while their own was in flight, and requests left
    \* Pending by a failed payment whose callback aborted
    misread, stuck,
    \* the contract's own balance of the IBC denom on Neutron
    local_balance,
    \* packets whose callback is outstanding (SUDO_PAYLOAD entries)
    transfers, pool_txs, withdraw_txs,
    \* the host chain: delegated by, unbonding to and held by the pool
    \* account, held by the withdraw account, and paid to each user
    delegated, unbonding, pool_balance, withdraw_balance, slashed, received,
    \* registered interchain queries
    delegations_icq, balance_icq,
    \* block time / era_seconds + offset
    current_era

pool_vars == <<status, era, bond, unbond, active, rate,
               total_lsd_token_amount, era_snapshot, next_unstake_index, paused>>
unstake_vars == <<unstakes_of_index, unstakes_index_for_user, misread, stuck>>
packet_vars == <<transfers, pool_txs, withdraw_txs>>
host_vars == <<delegated, unbonding, pool_balance, withdraw_balance, slashed,
               received>>
icq_vars == <<delegations_icq, balance_icq>>
vars == <<pool_vars, unstake_vars, local_balance, packet_vars, host_vars,
          icq_vars, current_era>>

EraStatus ==
    {"EraUpdateStarted", "EraUpdateEnded", "BondStarted", "BondEnded",
     "WithdrawStarted", "WithdrawEnded", "RebondEnded", "ActiveEnded"}

EraSnapshot == [bond : Nat, unbond : Nat, active : Nat, restake_amount : Nat]

EmptySnapshot ==
    [bond |-> 0, unbond |-> 0, active |-> 0, restake_amount |-> 0]

UnstakeInfo == [era : Nat, unstaker : Users, amount : Nat,
                status : {"Default", "Pending"}]

(***************************************************************************)
(* Packets.  ack is "none" until the host has handled the packet, then the *)
(* outcome that travels back: "error" stands for an error acknowledgement  *)
(* and for a timeout, which both reach the failed callback.                *)
(***************************************************************************)
Ack == {"none", "ok", "error"}

TransferPacket == [era : Nat, amount : Nat, ack : Ack]

EraTx == [tx_type : {"EraBond", "EraRebond"},
          delegate : Nat, undelegate : Nat, ack : Ack]

\* The payload of a withdrawal is text, "amount_user_receiver_indices", which the
\* callbacks split at every underscore.  fields is what the receiver's own
\* underscores add to the indices: {} for an address, a number for a field that
\* is one, and 0, which no request has, for a field that is not.
UserWithdrawTx == [tx_type : {"UserWithdraw"}, user : Users,
                   unstakes : SUBSET Nat, fields : SUBSET Nat, amount : Nat,
                   ack : Ack]

CollectTx == [amount : Nat, ack : Ack]

EraTxOf(type, delegate, undelegate) ==
    [tx_type |-> type, delegate |-> delegate, undelegate |-> undelegate,
     ack |-> "none"]

(***************************************************************************)
(* Interchain queries.  A result is "none" until the relayer submits one,  *)
(* "fresh" when its last_submitted_local_height is above the snapshot's    *)
(* last_step_height and "stale" otherwise.                                 *)
(***************************************************************************)
IcqResult == [state : {"none", "stale", "fresh"}, amount : Nat]

NoResult == [state |-> "none", amount |-> 0]

Aged(q) == IF q.state = "none" THEN q ELSE [q EXCEPT !.state = "stale"]

\* era_snapshot.last_step_height := the current height
StepHeightIsNow ==
    /\ delegations_icq' = Aged(delegations_icq)
    /\ balance_icq' = Aged(balance_icq)

-----------------------------------------------------------------------------
(***************************************************************************)
(* Users.                                                                  *)
(***************************************************************************)
execute_stake(amount) ==
    /\ ~paused
    /\ amount >= minimal_stake
    /\ rate > 0                       \* the division by the rate would panic
    /\ active + amount <= MaxActive
    /\ active' = active + amount
    /\ bond' = bond + amount
    /\ total_lsd_token_amount' =
           total_lsd_token_amount + (amount * CAL_BASE) \div rate
    /\ local_balance' = local_balance + amount
    /\ UNCHANGED <<status, era, unbond, rate, era_snapshot, next_unstake_index,
                   paused, unstake_vars, packet_vars, host_vars, icq_vars,
                   current_era>>

\* What is left to burn of lsd_token_amount once the unbond commission has
\* been moved to the platform fee receiver.
BurnAmount(lsd_token_amount) ==
    lsd_token_amount - (lsd_token_amount * unbond_commission) \div CAL_BASE

TokenValue(lsd_amount) == (lsd_amount * rate) \div CAL_BASE

execute_unstake(user, lsd_token_amount) ==
    LET burn == BurnAmount(lsd_token_amount)
        token_amount == TokenValue(burn)
        index == next_unstake_index + 1
    IN  /\ lsd_token_amount \in 1..total_lsd_token_amount
        /\ Cardinality(unstakes_index_for_user[user]) < unstake_times_limit
        /\ burn > 0
        /\ token_amount <= active     \* Uint128 subtraction would panic
        /\ token_amount > PRECISION_GAP
        /\ index <= MaxIndex
        /\ next_unstake_index' = index
        /\ unbond' = unbond + token_amount
        /\ active' = active - token_amount
        /\ total_lsd_token_amount' = total_lsd_token_amount - burn
        /\ unstakes_of_index' =
               [i \in DOMAIN unstakes_of_index \cup {index} |->
                   IF i = index
                   THEN [era |-> era, unstaker |-> user,
                         amount |-> token_amount - PRECISION_GAP,
                         status |-> "Default"]
                   ELSE unstakes_of_index[i]]
        /\ unstakes_index_for_user' =
               [unstakes_index_for_user EXCEPT ![user] = @ \cup {index}]
        /\ UNCHANGED <<misread, stuck, status, era, bond, rate, era_snapshot, paused,
                       local_balance, packet_vars, host_vars, icq_vars,
                       current_era>>

\* Seeded defect: the request's status is not checked.
WithdrawableUnlessGone(user, index) ==
    /\ index \in DOMAIN unstakes_of_index
    /\ unstakes_of_index[index].unstaker = user
    /\ unstakes_of_index[index].era + unbonding_period <= era

Withdrawable(user, index) ==
    /\ index \in DOMAIN unstakes_of_index
    /\ unstakes_of_index[index].unstaker = user
    /\ unstakes_of_index[index].status = "Default"
    /\ unstakes_of_index[index].era + unbonding_period <= era

SetWithdrawStatus(indices, s) ==
    [i \in DOMAIN unstakes_of_index |->
        IF i \in indices THEN [unstakes_of_index[i] EXCEPT !.status = s]
                         ELSE unstakes_of_index[i]]

Amounts == [i \in DOMAIN unstakes_of_index |-> unstakes_of_index[i].amount]

\* A repeated index is refused: its first occurrence has made it Pending.  The
\* receiver is any text.
execute_withdraw(user, indices, fields) ==
    LET total == SumFunctionOnSet(Amounts, indices)
    IN  /\ indices # {}
        /\ \A i \in indices : Withdrawable(user, i)
        /\ total > 0
        /\ Len(pool_txs) < MaxPackets
        /\ unstakes_of_index' = SetWithdrawStatus(indices, "Pending")
        /\ pool_txs' = Append(pool_txs,
               [tx_type |-> "UserWithdraw", user |-> user,
                unstakes |-> indices, fields |-> fields, amount |-> total,
                ack |-> "none"])
        /\ UNCHANGED <<pool_vars, unstakes_index_for_user, misread, stuck,
                       local_balance, transfers, withdraw_txs, host_vars, icq_vars,
                       current_era>>

-----------------------------------------------------------------------------
(***************************************************************************)
(* The keeper's five steps.                                                *)
(***************************************************************************)
execute_era_update ==
    /\ ~paused
    /\ status = "ActiveEnded"
    /\ current_era > era
    /\ era' = era + 1
    /\ era_snapshot' = [bond |-> bond, unbond |-> unbond, active |-> active,
                        restake_amount |-> 0]
    /\ StepHeightIsNow
    /\ \/ /\ bond = 0
          /\ status' = "EraUpdateEnded"
          /\ UNCHANGED <<transfers, local_balance>>
       \/ /\ bond > 0
          /\ local_balance >= bond
          /\ status' = "EraUpdateStarted"
          /\ local_balance' = local_balance - bond
          /\ transfers' = transfers \cup
                 {[era |-> era + 1, amount |-> bond, ack |-> "none"]}
    /\ UNCHANGED <<bond, unbond, active, rate, total_lsd_token_amount,
                   next_unstake_index, paused, unstake_vars, pool_txs,
                   withdraw_txs, host_vars, current_era>>

\* More unstaked than staked: undelegate the difference, and withdraw the
\* rewards of the validators that are not undelegated from.  The interchain
\* transaction module refuses a transaction without messages, which is what
\* no difference and no delegation would give.
BondByUndelegating ==
    LET unbond_amount == era_snapshot.unbond - era_snapshot.bond
    IN  /\ era_snapshot.unbond >= era_snapshot.bond
        /\ delegations_icq.state = "fresh"
        /\ delegations_icq.amount >= unbond_amount
        /\ delegations_icq.amount > 0
        /\ pool_txs' = Append(pool_txs, EraTxOf("EraBond", 0, unbond_amount))

\* More staked than unstaked: delegate the difference; what was unstaked
\* stays in the pool account.
BondByDelegating ==
    /\ era_snapshot.unbond < era_snapshot.bond
    /\ pool_txs' =
           Append(pool_txs, EraTxOf("EraBond",
                                    era_snapshot.bond - era_snapshot.unbond, 0))

\* Seeded defect: the new status is not saved, as in execute_era_rebond.
execute_era_bond_unsaved ==
    /\ status = "EraUpdateEnded"
    /\ BondByUndelegating \/ BondByDelegating
    /\ UNCHANGED <<pool_vars, unstake_vars, local_balance, transfers,
                   withdraw_txs, host_vars, icq_vars, current_era>>

execute_era_bond ==
    /\ status = "EraUpdateEnded"
    /\ BondByUndelegating \/ BondByDelegating
    /\ status' = "BondStarted"
    /\ UNCHANGED <<era, bond, unbond, active, rate, total_lsd_token_amount,
                   era_snapshot, next_unstake_index, paused, unstake_vars,
                   local_balance, transfers, withdraw_txs, host_vars, icq_vars,
                   current_era>>

\* An error of the balance query counts as a zero balance.
execute_era_collect_withdraw ==
    LET withdraw_amount == balance_icq.amount
    IN  /\ status = "BondEnded"
        /\ balance_icq.state # "stale"
        /\ \/ /\ withdraw_amount = 0
              /\ status' = "WithdrawEnded"
              /\ UNCHANGED <<era_snapshot, withdraw_txs>>
           \/ /\ withdraw_amount > 0
              /\ status' = "WithdrawStarted"
              /\ era_snapshot' =
                     [era_snapshot EXCEPT !.restake_amount = withdraw_amount]
              /\ withdraw_txs' = Append(withdraw_txs,
                     [amount |-> withdraw_amount, ack |-> "none"])
        /\ UNCHANGED <<era, bond, unbond, active, rate, total_lsd_token_amount,
                       next_unstake_index, paused, unstake_vars, local_balance,
                       transfers, pool_txs, host_vars, icq_vars, current_era>>

\* With something to restake the handler assigns RebondStarted to its copy of
\* the pool and returns without saving it: the stored status stays
\* WithdrawEnded while the packet is in flight.
execute_era_rebond ==
    /\ status = "WithdrawEnded"
    /\ \/ /\ era_snapshot.restake_amount = 0
          /\ status' = "RebondEnded"
          /\ UNCHANGED pool_txs
       \/ /\ era_snapshot.restake_amount > 0
          /\ pool_txs' =
                 Append(pool_txs, EraTxOf("EraRebond",
                                          era_snapshot.restake_amount, 0))
          /\ UNCHANGED status
    /\ UNCHANGED <<era, bond, unbond, active, rate, total_lsd_token_amount,
                   era_snapshot, next_unstake_index, paused, unstake_vars,
                   local_balance, transfers, withdraw_txs, host_vars, icq_vars,
                   current_era>>

\* platform_fee + stack_fee, in LSD tokens, for a delegation total: the stack's
\* share is taken out of the commission, so the sum does not depend on it.
FeeFor(total) ==
    IF total > era_snapshot.active
    THEN ((total - era_snapshot.active) * platform_fee_commission) \div rate
    ELSE 0

\* Seeded defect: the subtraction is not saturated.
ActiveForUnsaturated(total) == active + total - era_snapshot.active

\* Seeded defect: stakes and unstakes since the snapshot are overwritten.
ActiveForOverwritten(total) == total

ActiveFor(total) ==
    IF active + total > era_snapshot.active
    THEN active + total - era_snapshot.active
    ELSE 0

\* Seeded defect: the rate is rounded up.
RateOfRoundedUp(active_amount, lsd_amount) ==
    IF lsd_amount > 0
    THEN (active_amount * CAL_BASE + lsd_amount - 1) \div lsd_amount
    ELSE CAL_BASE

RateOf(active_amount, lsd_amount) ==
    IF lsd_amount > 0 THEN (active_amount * CAL_BASE) \div lsd_amount
                      ELSE CAL_BASE

RateChangeAllowed(new_rate) ==
    \/ rate_change_limit = 0
    \/ /\ rate > 0
       /\ LET change == IF rate > new_rate THEN rate - new_rate
                                           ELSE new_rate - rate
          IN  (change * CAL_BASE) \div rate <= rate_change_limit

\* "Solve first stake calculation accuracy"
FirstStakeCorrection(new_active, new_rate) ==
    /\ rate = CAL_BASE
    /\ new_rate < CAL_BASE
    /\ active < new_active + FIRST_STAKE_SLACK

execute_era_active ==
    LET total == delegations_icq.amount
        new_total_lsd == total_lsd_token_amount + FeeFor(total)
        new_active == ActiveFor(total)
        new_rate == RateOf(new_active, new_total_lsd)
        correct == FirstStakeCorrection(new_active, new_rate)
    IN  /\ status = "RebondEnded"
        /\ delegations_icq.state = "fresh"
        /\ total > era_snapshot.active => rate > 0    \* division would panic
        /\ RateChangeAllowed(new_rate)
        /\ status' = "ActiveEnded"
        /\ total_lsd_token_amount' = new_total_lsd
        /\ rate' = IF correct THEN CAL_BASE ELSE new_rate
        /\ active' = IF correct THEN active ELSE new_active
        /\ UNCHANGED <<era, bond, unbond, era_snapshot, next_unstake_index,
                       paused, unstake_vars, local_balance, packet_vars,
                       host_vars, icq_vars, current_era>>

\* The pool's admin pauses or resumes it (execute_config_pool).
execute_config_pool_paused ==
    /\ paused' = ~paused
    /\ UNCHANGED <<status, era, bond, unbond, active, rate,
                   total_lsd_token_amount, era_snapshot, next_unstake_index,
                   unstake_vars, local_balance, packet_vars, host_vars,
                   icq_vars, current_era>>

-----------------------------------------------------------------------------
(***************************************************************************)
(* Callbacks.  sudo_response and sudo_error/sudo_timeout take the packet's *)
(* payload out of SUDO_PAYLOAD and dispatch on its type.  The ICA channels *)
(* are ordered: only the oldest packet's outcome can be delivered.         *)
(***************************************************************************)
sudo_era_update_callback(p) ==
    /\ p.ack = "ok"
    /\ transfers' = transfers \ {p}
    /\ status' = "EraUpdateEnded"
    /\ StepHeightIsNow
    /\ UNCHANGED <<era, bond, unbond, active, rate, total_lsd_token_amount,
                   era_snapshot, next_unstake_index, paused, unstake_vars,
                   local_balance, pool_txs, withdraw_txs, host_vars,
                   current_era>>

\* The transfer module has refunded the tokens before the callback runs.
\* last_step_height becomes 0, so that any submitted result is fresh again.
sudo_era_update_failed_callback(p) ==
    LET Renewed(q) == IF q.state = "none" THEN q ELSE [q EXCEPT !.state = "fresh"]
    IN  /\ p.ack = "error"
        /\ transfers' = transfers \ {p}
        /\ era' = era - 1
        /\ status' = "ActiveEnded"
        /\ era_snapshot' = EmptySnapshot
        /\ local_balance' = local_balance + p.amount
        /\ delegations_icq' = Renewed(delegations_icq)
        /\ balance_icq' = Renewed(balance_icq)
        /\ UNCHANGED <<bond, unbond, active, rate, total_lsd_token_amount,
                       next_unstake_index, paused, unstake_vars, pool_txs,
                       withdraw_txs, host_vars, current_era>>

\* The outcome of the oldest transaction of an ordered channel is back.
Answered(txs, tx_type, ack) ==
    /\ txs # <<>>
    /\ Head(txs).tx_type = tx_type
    /\ Head(txs).ack = ack

\* Seeded defects: the callback steps back instead of on; it resets the counters,
\* losing what users did since the snapshot; it forgets the unbonded part.
sudo_era_bond_callback_repeats ==
    /\ Answered(pool_txs, "EraBond", "ok")
    /\ pool_txs' = Tail(pool_txs)
    /\ status' = "EraUpdateEnded"
    /\ bond' = bond - era_snapshot.bond
    /\ unbond' = unbond - era_snapshot.unbond
    /\ StepHeightIsNow
    /\ UNCHANGED <<era, active, rate, total_lsd_token_amount, era_snapshot,
                   next_unstake_index, paused, unstake_vars, local_balance,
                   transfers, withdraw_txs, host_vars, current_era>>

sudo_era_bond_callback_resets ==
    /\ Answered(pool_txs, "EraBond", "ok")
    /\ pool_txs' = Tail(pool_txs)
    /\ status' = "BondEnded"
    /\ bond' = 0 /\ unbond' = 0
    /\ StepHeightIsNow
    /\ UNCHANGED <<era, active, rate, total_lsd_token_amount, era_snapshot,
                   next_unstake_index, paused, unstake_vars, local_balance,
                   transfers, withdraw_txs, host_vars, current_era>>

sudo_era_bond_callback_keeps_unbond ==
    /\ Answered(pool_txs, "EraBond", "ok")
    /\ pool_txs' = Tail(pool_txs)
    /\ status' = "BondEnded"
    /\ bond' = bond - era_snapshot.bond
    /\ unbond' = unbond
    /\ StepHeightIsNow
    /\ UNCHANGED <<era, active, rate, total_lsd_token_amount, era_snapshot,
                   next_unstake_index, paused, unstake_vars, local_balance,
                   transfers, withdraw_txs, host_vars, current_era>>

sudo_era_bond_callback ==
    /\ Answered(pool_txs, "EraBond", "ok")
    /\ bond >= era_snapshot.bond          \* Uint128 subtraction would panic
    /\ unbond >= era_snapshot.unbond
    /\ pool_txs' = Tail(pool_txs)
    /\ status' = "BondEnded"
    /\ bond' = bond - era_snapshot.bond
    /\ unbond' = unbond - era_snapshot.unbond
    /\ StepHeightIsNow
    /\ UNCHANGED <<era, active, rate, total_lsd_token_amount, era_snapshot,
                   next_unstake_index, paused, unstake_vars, local_balance,
                   transfers, withdraw_txs, host_vars, current_era>>

\* Seeded defect: the failed step cannot be retried.
sudo_era_bond_failed_callback_stuck ==
    /\ Answered(pool_txs, "EraBond", "error")
    /\ pool_txs' = Tail(pool_txs)
    /\ UNCHANGED <<pool_vars, unstake_vars, local_balance, transfers,
                   withdraw_txs, host_vars, icq_vars, current_era>>

sudo_era_bond_failed_callback ==
    /\ Answered(pool_txs, "EraBond", "error")
    /\ pool_txs' = Tail(pool_txs)
    /\ status' = "EraUpdateEnded"
    /\ UNCHANGED <<era, bond, unbond, active, rate, total_lsd_token_amount,
                   era_snapshot, next_unstake_index, paused, unstake_vars,
                   local_balance, transfers, withdraw_txs, host_vars, icq_vars,
                   current_era>>

sudo_era_rebond_callback ==
    /\ Answered(pool_txs, "EraRebond", "ok")
    /\ pool_txs' = Tail(pool_txs)
    /\ status' = "RebondEnded"
    /\ StepHeightIsNow
    /\ UNCHANGED <<era, bond, unbond, active, rate, total_lsd_token_amount,
                   era_snapshot, next_unstake_index, paused, unstake_vars,
                   local_balance, transfers, withdraw_txs, host_vars,
                   current_era>>

sudo_era_rebond_failed_callback ==
    /\ Answered(pool_txs, "EraRebond", "error")
    /\ pool_txs' = Tail(pool_txs)
    /\ status' = "WithdrawEnded"
    /\ UNCHANGED <<era, bond, unbond, active, rate, total_lsd_token_amount,
                   era_snapshot, next_unstake_index, paused, unstake_vars,
                   local_balance, transfers, withdraw_txs, host_vars, icq_vars,
                   current_era>>

\* Only indices still listed for the user are removed, from both maps.
\* Seeded defect: every request of the user is deleted.
sudo_withdraw_callback_clears ==
    /\ Answered(pool_txs, "UserWithdraw", "ok")
    /\ LET all == unstakes_index_for_user[Head(pool_txs).user]
       IN  /\ unstakes_index_for_user' =
                  [unstakes_index_for_user EXCEPT ![Head(pool_txs).user] = {}]
           /\ unstakes_of_index' =
                  [i \in DOMAIN unstakes_of_index \ all |-> unstakes_of_index[i]]
    /\ pool_txs' = Tail(pool_txs)
    /\ UNCHANGED <<pool_vars, misread, stuck, local_balance, transfers,
                   withdraw_txs, host_vars, icq_vars, current_era>>

sudo_withdraw_callback ==
    /\ Answered(pool_txs, "UserWithdraw", "ok")
    /\ LET user == Head(pool_txs).user
           paid == Head(pool_txs).unstakes \cap unstakes_index_for_user[user]
       IN  /\ unstakes_index_for_user' =
                  [unstakes_index_for_user EXCEPT ![user] = @ \ paid]
           /\ unstakes_of_index' =
                  [i \in DOMAIN unstakes_of_index \ paid |->
                      unstakes_of_index[i]]
    /\ pool_txs' = Tail(pool_txs)
    /\ UNCHANGED <<pool_vars, misread, stuck, local_balance, transfers,
                   withdraw_txs, host_vars, icq_vars, current_era>>

\* Seeded defect: a payment that failed leaves its requests Pending.
sudo_withdraw_failed_callback_pending ==
    /\ Answered(pool_txs, "UserWithdraw", "error")
    /\ pool_txs' = Tail(pool_txs)
    /\ UNCHANGED <<pool_vars, unstake_vars, local_balance, transfers,
                   withdraw_txs, host_vars, icq_vars, current_era>>

\* Seeded defect: a payment that failed is booked as made.
sudo_withdraw_failed_callback_drops ==
    /\ Answered(pool_txs, "UserWithdraw", "error")
    /\ LET user == Head(pool_txs).user
           lost == Head(pool_txs).unstakes
       IN  /\ unstakes_index_for_user' =
                  [unstakes_index_for_user EXCEPT ![user] = @ \ lost]
           /\ unstakes_of_index' =
                  [i \in DOMAIN unstakes_of_index \ lost |-> unstakes_of_index[i]]
    /\ pool_txs' = Tail(pool_txs)
    /\ UNCHANGED <<pool_vars, misread, stuck, local_balance, transfers,
                   withdraw_txs, host_vars, icq_vars, current_era>>

\* Requests that a withdrawal other than the oldest transaction is paying.
PaidByLater ==
    UNION {pool_txs[j].unstakes :
             j \in {k \in DOMAIN pool_txs \ {1} : pool_txs[k].tx_type = "UserWithdraw"}}

\* Every field after the third is taken for an index and its request reopened,
\* whoever owns it.  Text instead of a number panics and an index that is gone
\* cannot be loaded: the callback aborts, and the requests stay as they are.
sudo_withdraw_failed_callback ==
    LET own == Head(pool_txs).unstakes
        read == own \cup Head(pool_txs).fields
    IN  /\ Answered(pool_txs, "UserWithdraw", "error")
        /\ pool_txs' = Tail(pool_txs)
        /\ \/ /\ read \subseteq DOMAIN unstakes_of_index
              /\ unstakes_of_index' = SetWithdrawStatus(read, "Default")
              /\ misread' = misread \cup (read \cap PaidByLater)
              /\ stuck' = stuck \ read
           \/ /\ ~(read \subseteq DOMAIN unstakes_of_index)
              /\ stuck' = stuck \cup own
              /\ UNCHANGED <<unstakes_of_index, misread>>
        /\ UNCHANGED <<pool_vars, unstakes_index_for_user, local_balance,
                       transfers, withdraw_txs, host_vars, icq_vars, current_era>>

sudo_era_collect_withdraw_callback ==
    /\ withdraw_txs # <<>>
    /\ Head(withdraw_txs).ack = "ok"
    /\ withdraw_txs' = Tail(withdraw_txs)
    /\ status' = "WithdrawEnded"
    /\ StepHeightIsNow
    /\ UNCHANGED <<era, bond, unbond, active, rate, total_lsd_token_amount,
                   era_snapshot, next_unstake_index, paused, unstake_vars,
                   local_balance, transfers, pool_txs, host_vars, current_era>>

\* Seeded defect: a failed collection counts as done.
sudo_era_collect_withdraw_failed_callback_done ==
    /\ withdraw_txs # <<>>
    /\ Head(withdraw_txs).ack = "error"
    /\ withdraw_txs' = Tail(withdraw_txs)
    /\ status' = "WithdrawEnded"
    /\ UNCHANGED <<era, bond, unbond, active, rate, total_lsd_token_amount,
                   era_snapshot, next_unstake_index, paused, unstake_vars,
                   local_balance, transfers, pool_txs, host_vars, icq_vars,
                   current_era>>

sudo_era_collect_withdraw_failed_callback ==
    /\ withdraw_txs # <<>>
    /\ Head(withdraw_txs).ack = "error"
    /\ withdraw_txs' = Tail(withdraw_txs)
    /\ status' = "BondEnded"
    /\ UNCHANGED <<era, bond, unbond, active, rate, total_lsd_token_amount,
                   era_snapshot, next_unstake_index, paused, unstake_vars,
                   local_balance, transfers, pool_txs, host_vars, icq_vars,
                   current_era>>

-----------------------------------------------------------------------------
(***************************************************************************)
(* The host chain, the relayers and time (external to this repository).    *)
(***************************************************************************)
host_receives_transfer(p) ==
    /\ p.ack = "none"
    /\ transfers' = (transfers \ {p}) \cup {[p EXCEPT !.ack = "ok"]}
    /\ pool_balance' = pool_balance + p.amount
    /\ UNCHANGED <<pool_vars, unstake_vars, local_balance, pool_txs,
                   withdraw_txs, delegated, unbonding, withdraw_balance, slashed,
                   received, icq_vars, current_era>>

transfer_fails(p) ==
    /\ p.ack = "none"
    /\ transfers' = (transfers \ {p}) \cup {[p EXCEPT !.ack = "error"]}
    /\ UNCHANGED <<pool_vars, unstake_vars, local_balance, pool_txs,
                   withdraw_txs, host_vars, icq_vars, current_era>>

\* An ordered channel: a packet is handled after all the earlier ones.
NextToHandle(txs, i) ==
    /\ txs[i].ack = "none"
    /\ \A j \in 1..(i - 1) : txs[j].ack # "none"

\* MsgDelegate, MsgUndelegate and MsgWithdrawDelegatorReward all pay the
\* rewards accrued so far to the withdraw account.
host_executes_era_tx(i, reward) ==
    LET tx == pool_txs[i]
    IN  /\ NextToHandle(pool_txs, i)
        /\ tx.tx_type \in {"EraBond", "EraRebond"}
        /\ pool_balance >= tx.delegate
        /\ delegated >= tx.undelegate
        /\ reward > 0 => delegated > 0
        /\ pool_txs' = [pool_txs EXCEPT ![i].ack = "ok"]
        /\ pool_balance' = pool_balance - tx.delegate
        /\ delegated' = delegated + tx.delegate - tx.undelegate
        /\ unbonding' = unbonding + tx.undelegate
        /\ withdraw_balance' = withdraw_balance + reward
        /\ UNCHANGED <<pool_vars, unstake_vars, local_balance, transfers,
                       withdraw_txs, slashed, received, icq_vars, current_era>>

\* The host pays an address only: a receiver with an underscore is refused.
host_executes_user_withdraw(i) ==
    LET tx == pool_txs[i]
    IN  /\ NextToHandle(pool_txs, i)
        /\ tx.tx_type = "UserWithdraw"
        /\ tx.fields = {}
        /\ pool_balance >= tx.amount
        /\ pool_txs' = [pool_txs EXCEPT ![i].ack = "ok"]
        /\ pool_balance' = pool_balance - tx.amount
        /\ received' = [received EXCEPT ![tx.user] = @ + tx.amount]
        /\ UNCHANGED <<pool_vars, unstake_vars, local_balance, transfers,
                       withdraw_txs, delegated, unbonding, withdraw_balance,
                       slashed, icq_vars, current_era>>

pool_tx_fails(i) ==
    /\ NextToHandle(pool_txs, i)
    /\ pool_txs' = [pool_txs EXCEPT ![i].ack = "error"]
    /\ UNCHANGED <<pool_vars, unstake_vars, local_balance, transfers,
                   withdraw_txs, host_vars, icq_vars, current_era>>

host_executes_collect(i) ==
    /\ NextToHandle(withdraw_txs, i)
    /\ withdraw_balance >= withdraw_txs[i].amount
    /\ withdraw_txs' = [withdraw_txs EXCEPT ![i].ack = "ok"]
    /\ withdraw_balance' = withdraw_balance - withdraw_txs[i].amount
    /\ pool_balance' = pool_balance + withdraw_txs[i].amount
    /\ UNCHANGED <<pool_vars, unstake_vars, local_balance, transfers, pool_txs,
                   delegated, unbonding, slashed, received, icq_vars,
                   current_era>>

collect_fails(i) ==
    /\ NextToHandle(withdraw_txs, i)
    /\ withdraw_txs' = [withdraw_txs EXCEPT ![i].ack = "error"]
    /\ UNCHANGED <<pool_vars, unstake_vars, local_balance, transfers, pool_txs,
                   host_vars, icq_vars, current_era>>

host_completes_unbonding ==
    /\ unbonding > 0
    /\ pool_balance' = pool_balance + unbonding
    /\ unbonding' = 0
    /\ UNCHANGED <<pool_vars, unstake_vars, local_balance, packet_vars,
                   delegated, withdraw_balance, slashed, received, icq_vars,
                   current_era>>

host_slashes ==
    /\ delegated > 0
    /\ slashed < MaxSlash
    /\ delegated' = delegated - 1
    /\ slashed' = slashed + 1
    /\ UNCHANGED <<pool_vars, unstake_vars, local_balance, packet_vars,
                   unbonding, pool_balance, withdraw_balance, received,
                   icq_vars, current_era>>

relayer_submits_delegations ==
    /\ delegations_icq' = [state |-> "fresh", amount |-> delegated]
    /\ UNCHANGED <<pool_vars, unstake_vars, local_balance, packet_vars,
                   host_vars, balance_icq, current_era>>

relayer_submits_balance ==
    /\ balance_icq' = [state |-> "fresh", amount |-> withdraw_balance]
    /\ UNCHANGED <<pool_vars, unstake_vars, local_balance, packet_vars,
                   host_vars, delegations_icq, current_era>>

era_elapses ==
    /\ current_era < MaxEra
    /\ current_era' = current_era + 1
    /\ UNCHANGED <<pool_vars, unstake_vars, local_balance, packet_vars,
                   host_vars, icq_vars>>

-----------------------------------------------------------------------------
\* The pool as deal_pool leaves it: nothing staked, the rate at its default.
Init ==
    /\ status = "ActiveEnded"
    /\ era = 0
    /\ bond = 0 /\ unbond = 0 /\ active = 0
    /\ rate = CAL_BASE
    /\ total_lsd_token_amount = 0
    /\ era_snapshot = EmptySnapshot
    /\ next_unstake_index = 0
    /\ paused = FALSE
    /\ unstakes_of_index = [i \in {} |-> {}]
    /\ unstakes_index_for_user = [u \in Users |-> {}]
    /\ misread = {} /\ stuck = {}
    /\ local_balance = 0
    /\ transfers = {}
    /\ pool_txs = <<>>
    /\ withdraw_txs = <<>>
    /\ delegated = 0 /\ unbonding = 0
    /\ pool_balance = 0 /\ withdraw_balance = 0 /\ slashed = 0
    /\ received = [u \in Users |-> 0]
    /\ delegations_icq = NoResult
    /\ balance_icq = NoResult
    /\ current_era = 0

UserStep ==
    \/ \E amount \in StakeAmounts : execute_stake(amount)
    \/ \E user \in Users, amount \in 1..total_lsd_token_amount :
           execute_unstake(user, amount)
    \/ \E user \in Users :
           \E indices \in SUBSET unstakes_index_for_user[user],
              fields \in ReceiverFields :
               execute_withdraw(user, indices, fields)

KeeperStep ==
    \/ execute_era_update
    \/ execute_era_bond
    \/ execute_era_collect_withdraw
    \/ execute_era_active
    \/ execute_config_pool_paused

TransferCallback ==
    \/ \E p \in transfers : sudo_era_update_callback(p)
    \/ \E p \in transfers : sudo_era_update_failed_callback(p)

PoolCallback ==
    \/ sudo_era_bond_callback
    \/ sudo_era_bond_failed_callback
    \/ sudo_era_rebond_callback
    \/ sudo_era_rebond_failed_callback
    \/ sudo_withdraw_callback
    \/ sudo_withdraw_failed_callback

CollectCallback ==
    \/ sudo_era_collect_withdraw_callback
    \/ sudo_era_collect_withdraw_failed_callback

HostStep ==
    \/ \E p \in transfers : host_receives_transfer(p)
    \/ \E p \in transfers : transfer_fails(p)
    \/ \E i \in DOMAIN pool_txs, reward \in Rewards :
           host_executes_era_tx(i, reward)
    \/ \E i \in DOMAIN pool_txs : host_executes_user_withdraw(i)
    \/ \E i \in DOMAIN pool_txs : pool_tx_fails(i)
    \/ \E i \in DOMAIN withdraw_txs : host_executes_collect(i)
    \/ \E i \in DOMAIN withdraw_txs : collect_fails(i)
    \/ host_completes_unbonding
    \/ host_slashes
    \/ relayer_submits_delegations
    \/ relayer_submits_balance
    \/ era_elapses

RebondInFlight == \E i \in DOMAIN pool_txs : pool_txs[i].tx_type = "EraRebond"

OtherStep == \/ UserStep \/ KeeperStep \/ HostStep
             \/ TransferCallback \/ PoolCallback \/ CollectCallback

\* What the contract allows: anyone may call EraRebond whenever it passes.
Next == OtherStep \/ execute_era_rebond

Spec == Init /\ [][Next]_vars

\* The contract under a keeper that never repeats EraRebond before the outcome
\* of its last one is known: the scripts that drive the cycle call each step
\* once and wait.
SerialNext == OtherStep \/ (~RebondInFlight /\ execute_era_rebond)

SerialSpec == Init /\ [][SerialNext]_vars

\* Relayers and the keeper keep working, and the host does not fail the same step
\* for ever: each outcome is decided and delivered, queries are answered, callable
\* steps are called, and a step that is retried again and again succeeds once.
Fairness ==
    /\ WF_vars(execute_era_bond)
    /\ WF_vars(execute_era_collect_withdraw)
    /\ WF_vars(~RebondInFlight /\ execute_era_rebond)
    /\ WF_vars(execute_era_active)
    /\ WF_vars(TransferCallback)
    /\ WF_vars(PoolCallback)
    /\ WF_vars(CollectCallback)
    /\ WF_vars(relayer_submits_delegations)
    /\ WF_vars(relayer_submits_balance)
    /\ WF_vars(host_completes_unbonding)
    /\ WF_vars(\E p \in transfers : host_receives_transfer(p) \/ transfer_fails(p))
    /\ WF_vars(\E i \in DOMAIN pool_txs : host_executes_user_withdraw(i) \/ pool_tx_fails(i))
    /\ SF_vars(\E i \in DOMAIN pool_txs, r \in Rewards : host_executes_era_tx(i, r))
    /\ SF_vars(\E i \in DOMAIN withdraw_txs : host_executes_collect(i))

FairSpec == SerialSpec /\ Fairness

-----------------------------------------------------------------------------
(***************************************************************************)
(* Properties.                                                             *)
(***************************************************************************)
PoolTypeOK ==
    /\ status \in EraStatus
    /\ era \in Nat
    /\ bond \in Nat /\ unbond \in Nat /\ active \in Nat
    /\ rate \in Nat
    /\ total_lsd_token_amount \in Nat
    /\ era_snapshot \in EraSnapshot
    /\ next_unstake_index \in Nat
    /\ paused \in BOOLEAN

UnstakeTypeOK ==
    /\ DOMAIN unstakes_of_index \subseteq Nat
    /\ unstakes_of_index \in [DOMAIN unstakes_of_index -> UnstakeInfo]
    /\ unstakes_index_for_user \in [Users -> SUBSET Nat]
    /\ misread \subseteq Nat /\ stuck \subseteq Nat

PacketTypeOK ==
    /\ transfers \subseteq TransferPacket
    /\ pool_txs \in Seq(EraTx \cup UserWithdrawTx)
    /\ withdraw_txs \in Seq(CollectTx)

HostTypeOK ==
    /\ delegated \in Nat /\ unbonding \in Nat
    /\ pool_balance \in Nat /\ withdraw_balance \in Nat /\ slashed \in Nat
    /\ received \in [Users -> Nat]

OtherTypeOK ==
    /\ local_balance \in Nat
    /\ delegations_icq \in IcqResult
    /\ balance_icq \in IcqResult
    /\ current_era \in Nat

\* Every field of the pool, its packets and its unstake records keeps its
\* type: no Uint128 goes below zero, on Neutron or on the host.
TypeOK ==
    PoolTypeOK /\ UnstakeTypeOK /\ PacketTypeOK /\ HostTypeOK /\ OtherTypeOK

BondTxs == {i \in DOMAIN pool_txs : pool_txs[i].tx_type = "EraBond"}
RebondTxs == {i \in DOMAIN pool_txs : pool_txs[i].tx_type = "EraRebond"}

\* The statuses in which the snapshot's bond and unbond are still part of the
\* pool's: the bond callback has not subtracted them yet.
SnapshotPending ==
    status \in {"EraUpdateStarted", "EraUpdateEnded", "BondStarted"}

TransferOwned ==
    \A p \in transfers : /\ status = "EraUpdateStarted"
                         /\ p.amount = era_snapshot.bond
                         /\ \A q \in transfers : q = p

BondOwned ==
    \A i \in BondTxs : status = "BondStarted" /\ \A j \in BondTxs : j = i

CollectOwned ==
    \A i \in DOMAIN withdraw_txs :
        /\ status = "WithdrawStarted"
        /\ withdraw_txs[i].amount = era_snapshot.restake_amount
        /\ i = 1

RebondOwned ==
    \A i \in RebondTxs : /\ status = "WithdrawEnded"
                         /\ pool_txs[i].delegate = era_snapshot.restake_amount
                         /\ \A j \in RebondTxs : j = i

\* Every era step has the pool to itself: a packet of a step is in flight only
\* in that step's status, at most one of them, and it moves what the snapshot
\* says.  Otherwise a late callback would drag the status of a later step back.
StepOwnsItsPacket == TransferOwned /\ BondOwned /\ CollectOwned /\ RebondOwned

\* sudo_era_bond_callback subtracts the snapshot from bond and unbond without a
\* check: whatever users did since the snapshot, both are still covered, so the
\* callback does not abort (which would leave the pool in BondStarted for good).
SnapshotCovered ==
    SnapshotPending => /\ era_snapshot.bond <= bond
                       /\ era_snapshot.unbond <= unbond

\* Across an era active moves only with bond and unbond, so that EraActive, which
\* adds the delegations and takes the snapshot's active away, books exactly the
\* delegations plus what was staked and unstaked since the snapshot.
NetFlow ==
    /\ SnapshotPending =>
           active - era_snapshot.active =
               (bond - era_snapshot.bond) - (unbond - era_snapshot.unbond)
    /\ status \in {"BondEnded", "WithdrawStarted", "WithdrawEnded", "RebondEnded"} =>
           active - era_snapshot.active = bond - unbond

BooksDelegations ==
    (status = "RebondEnded" /\ status' = "ActiveEnded") =>
        LET net == delegations_icq.amount + bond - unbond
            backing == IF net > 0 THEN net ELSE 0
        IN  active' \in {backing} \cup (backing + 1)..(backing + FIRST_STAKE_SLACK - 1)

\* What EraActive books is the delegations read plus the net stake since the
\* snapshot, or, by the first-stake correction, less than FIRST_STAKE_SLACK above.
ActiveFollowsDelegations == [][BooksDelegations]_vars

\* The LSD supply is never worth more than active: any holder can unstake any
\* amount and the subtraction from active in execute_unstake does not underflow,
\* through every rounding of stakes, unstakes, fees and new rates.
SupplyBacked == total_lsd_token_amount * rate <= active * CAL_BASE

\* The contract holds on Neutron exactly the stakes not yet sent to the host, so
\* the next EraUpdate can pay its transfer, also after a refund.
ContractHoldsBond ==
    local_balance = IF SnapshotPending THEN bond - era_snapshot.bond ELSE bond

\* Indices whose payment the host has executed, the callback still outstanding.
PaidOnHost ==
    UNION {pool_txs[i].unstakes :
             i \in {j \in DOMAIN pool_txs : /\ pool_txs[j].tx_type = "UserWithdraw"
                                           /\ pool_txs[j].ack = "ok"}}

BondExecuted == \E i \in BondTxs : pool_txs[i].ack = "ok"
RebondExecuted == \E i \in RebondTxs : pool_txs[i].ack = "ok"

Owed == SumFunctionOnSet(Amounts, DOMAIN unstakes_of_index \ PaidOnHost)

\* The part of the pool account's balance that is to be delegated.
Earmarked ==
    (IF \/ status = "EraUpdateStarted" /\ \E p \in transfers : p.ack = "ok"
        \/ status = "EraUpdateEnded"
        \/ status = "BondStarted" /\ ~BondExecuted
     THEN era_snapshot.bond ELSE 0)
    +
    (IF \/ status = "WithdrawStarted" /\ withdraw_txs[1].ack = "ok"
        \/ status = "WithdrawEnded" /\ ~RebondExecuted
     THEN era_snapshot.restake_amount ELSE 0)

\* Every unstake request still open can be paid: what the host account holds or is
\* unbonding, without what is earmarked for delegation, plus what is still to be
\* undelegated, covers all of them.  A rebond or bond executed twice would take
\* the difference from the users who are waiting; a request paid twice does, which
\* only one reopened during its payment can be.
UnstakesCovered ==
    LET to_undelegate == unbond - IF BondExecuted THEN era_snapshot.unbond ELSE 0
    IN  misread = {} =>
            Owed <= pool_balance + unbonding + to_undelegate - Earmarked

\* A request is Pending exactly while one packet pays it, and only its owner's
\* packet: no request is paid twice, none is lost by a failed payment.  Only a
\* request that somebody else's receiver reopened during its payment may be paid
\* again, and only one whose failed payment carried such a receiver, or a request
\* reopened so, stays Pending with nobody paying it.
WithdrawExclusive ==
    LET Payers(i) == {j \in DOMAIN pool_txs :
                        /\ pool_txs[j].tx_type = "UserWithdraw"
                        /\ i \in pool_txs[j].unstakes}
    IN  /\ \A i \in DOMAIN unstakes_of_index \ misread :
               Cardinality(Payers(i)) =
                   IF unstakes_of_index[i].status = "Pending" /\ i \notin stuck
                   THEN 1 ELSE 0
        /\ \A j \in DOMAIN pool_txs : pool_txs[j].tx_type = "UserWithdraw" =>
               \A i \in pool_txs[j].unstakes \ misread :
                   /\ i \in DOMAIN unstakes_of_index
                   /\ unstakes_of_index[i].unstaker = pool_txs[j].user
                   /\ i \in unstakes_index_for_user[pool_txs[j].user]

\* A started era runs to its end whatever fails on the way, except that EraBond has
\* no message to submit when the snapshot balances and nothing is delegated.
EraCompletes ==
    (/\ status # "ActiveEnded"
     /\ era_snapshot.bond # era_snapshot.unbond \/ delegated > 0)
        ~> (status = "ActiveEnded")

\* A payment in flight is settled: its request is removed or open again, unless its
\* failed callback aborted on a field of the receiver that is no open request.
WithdrawSettles ==
    \A i \in 1..MaxIndex :
        LET Pending == i \in DOMAIN unstakes_of_index
                          /\ unstakes_of_index[i].status = "Pending"
        IN  Pending ~> (~Pending \/ i \in stuck)

\* "check era state": EraRebond, like the other steps, is to run once at a time;
\* the handler moves the status to RebondStarted before it sends.
OneRebondAtATime == Cardinality(RebondTxs) <= 1
=============================================================================
