------------------------------ MODULE LsmStake ------------------------------
(***************************************************************************)
(* LSM stake composed with the era cycle.  A user sends tokenised shares   *)
(* of a delegation (StakeLsm): they are transferred to the pool account,   *)
(* the acknowledgement books their value in active and mints LSD tokens,   *)
(* and anyone then has them redeemed for a delegation of the pool          *)
(* (RedeemTokenForShare).  EraActive waits until no share is pending.      *)
(*                                                                         *)
(* StakeLsm asks for status ActiveEnded, but its acknowledgement arrives   *)
(* in whatever status the pool is by then.                                 *)
(*                                                                         *)
(* Abstractions: the shares are of one validator of the pool, whose tokens *)
(* and delegator shares do not change; who sent them is left out, since    *)
(* stakers are served alike.                                               *)
(***************************************************************************)
EXTENDS EraCycleImplements, Vec

CONSTANTS
    ShareDenoms,              \* denominations of tokenised shares
    Issued,                   \* tokens of each denomination that stakers hold
    ShareAmounts,             \* amounts a staker may send in one call
    val_token_amount, val_share_amount,   \* the validator's, from its query
    lsm_pending_limit,
    MaxTransfers,             \* bound: share transfers in flight at a time
    MaxRedeem                 \* bound: redemptions in flight at a time

ASSUME LsmAssumption ==
    /\ Issued \in [ShareDenoms -> Nat]
    /\ ShareAmounts \subseteq Nat
    /\ val_token_amount \in Nat
    /\ val_share_amount \in Nat \ {0}
    /\ lsm_pending_limit \in Nat
    /\ MaxTransfers \in Nat /\ MaxRedeem \in Nat

VARIABLES
    \* PoolInfo: coins acknowledged and not yet redeemed, and the denominations
    \* of which a redemption was sent
    share_tokens, redeemming_share_token_denom,
    \* StakeLsm transfers whose callback is outstanding
    lsm_transfers,
    \* share tokens held by the stakers and, on the host, by the pool account
    staker_shares, host_shares,
    \* history, read by no action: booked in active by acknowledgements since the
    \* last EraUpdate, and the denominations of which a redemption was submitted
    \* while another one was in flight
    late_lsm, redeemed_again

lsm_vars == <<share_tokens, redeemming_share_token_denom, lsm_transfers,
              staker_shares, host_shares, late_lsm, redeemed_again>>
all_vars == <<vars, lsm_vars>>

Coin == [denom : ShareDenoms, amount : Nat]

LsmPacket == [id : Nat, coin : Coin, token_amount : Nat, ack : Ack]

RedeemTx == [tx_type : {"RedeemTokenForShare"}, tokens : SUBSET Coin, ack : Ack]

\* What the pool account's channel carries.
PoolTx == EraTx \cup UserWithdrawTx \cup RedeemTx

\* What the validator's tokens and shares make of an amount of share tokens.
TokenAmount(share_amount) == (share_amount * val_token_amount) \div val_share_amount

ValueOf(coins) == SumFunctionOnSet([c \in coins |-> TokenAmount(c.amount)], coins)

AmountIn(coins, d) ==
    SumFunctionOnSet([c \in coins |-> c.amount], {c \in coins : c.denom = d})

-----------------------------------------------------------------------------
NextId == CHOOSE n \in 1..(Cardinality(lsm_transfers) + 1) :
              \A p \in lsm_transfers : p.id # n

execute_stake_lsm(coin) ==
    /\ Len(share_tokens) < lsm_pending_limit
    /\ status = "ActiveEnded"
    /\ ~paused
    /\ coin.amount \in 1..staker_shares[coin.denom]
    /\ coin.amount >= minimal_stake
    /\ TokenAmount(coin.amount) # 0
    /\ staker_shares' = [staker_shares EXCEPT ![coin.denom] = @ - coin.amount]
    /\ lsm_transfers' = lsm_transfers \cup
           {[id |-> NextId, coin |-> coin,
             token_amount |-> TokenAmount(coin.amount), ack |-> "none"]}
    /\ UNCHANGED <<vars, share_tokens, redeemming_share_token_denom,
                   host_shares, late_lsm, redeemed_again>>

\* Seeded defect: the minted amount is rounded up.
LsdForRoundedUp(token_amount) == (token_amount * CAL_BASE + rate - 1) \div rate

LsdFor(token_amount) == (token_amount * CAL_BASE) \div rate

\* Seeded defect: the value is booked as if the shares had come with a stake.
sudo_stake_lsm_callback_bonds(p) ==
    /\ p.ack = "ok"
    /\ rate > 0
    /\ lsm_transfers' = lsm_transfers \ {p}
    /\ active' = active + p.token_amount
    /\ bond' = bond + p.token_amount
    /\ total_lsd_token_amount' = total_lsd_token_amount + LsdFor(p.token_amount)
    /\ share_tokens' = Append(share_tokens, p.coin)
    /\ late_lsm' = late_lsm + p.token_amount
    /\ UNCHANGED <<status, era, unbond, rate, era_snapshot,
                   next_unstake_index, paused, unstake_vars, local_balance,
                   packet_vars, host_vars, icq_vars, current_era,
                   redeemming_share_token_denom, staker_shares, host_shares,
                   redeemed_again>>

\* No status is checked: the value of the shares is booked at once, at the rate
\* of this moment.
sudo_stake_lsm_callback(p) ==
    /\ p.ack = "ok"
    /\ rate > 0                       \* the division by the rate would panic
    /\ lsm_transfers' = lsm_transfers \ {p}
    /\ active' = active + p.token_amount
    /\ total_lsd_token_amount' = total_lsd_token_amount + LsdFor(p.token_amount)
    /\ share_tokens' = Append(share_tokens, p.coin)
    /\ late_lsm' = late_lsm + p.token_amount
    /\ UNCHANGED <<status, era, bond, unbond, rate, era_snapshot,
                   next_unstake_index, paused, unstake_vars, local_balance,
                   packet_vars, host_vars, icq_vars, current_era,
                   redeemming_share_token_denom, staker_shares, host_shares,
                   redeemed_again>>

\* The transfer module has refunded the contract, which sends the coin on.
sudo_stake_lsm_failed_callback(p) ==
    /\ p.ack = "error"
    /\ lsm_transfers' = lsm_transfers \ {p}
    /\ staker_shares' = [staker_shares EXCEPT ![p.coin.denom] = @ + p.coin.amount]
    /\ UNCHANGED <<vars, share_tokens, redeemming_share_token_denom, host_shares,
                   late_lsm, redeemed_again>>

Denoms(coins) == {c.denom : c \in coins}

\* Anyone may call it, in any status and also for a coin whose redemption is
\* under way: redeemming_share_token_denom is recorded and never looked at.
execute_redeem_token_for_share(tokens) ==
    /\ Cardinality(tokens) \in 1..10
    /\ tokens \subseteq Range(share_tokens)
    /\ \A c, d \in tokens : c.denom = d.denom => c = d
    /\ redeemming_share_token_denom' =
           redeemming_share_token_denom \cup Denoms(tokens)
    /\ redeemed_again' =
           redeemed_again \cup (Denoms(tokens) \cap redeemming_share_token_denom)
    /\ pool_txs' = Append(pool_txs, [tx_type |-> "RedeemTokenForShare",
                                     tokens |-> tokens, ack |-> "none"])
    /\ UNCHANGED <<pool_vars, unstake_vars, local_balance, transfers,
                   withdraw_txs, host_vars, icq_vars, current_era, share_tokens,
                   lsm_transfers, staker_shares, host_shares, late_lsm>>

\* Seeded defect: a redeemed coin stays listed.
TakenOffNone(denoms) == share_tokens

\* Every coin of a redeemed denomination goes, whatever its amount and whether
\* the redemption was of it or of another one.
TakenOff(denoms) ==
    RetainOutside(share_tokens, {c \in Range(share_tokens) : c.denom \in denoms})

sudo_redeem_token_for_share_callback ==
    LET denoms == Denoms(Head(pool_txs).tokens)
    IN  /\ Answered(pool_txs, "RedeemTokenForShare", "ok")
        /\ pool_txs' = Tail(pool_txs)
        /\ share_tokens' = TakenOff(denoms)
        /\ redeemming_share_token_denom' = redeemming_share_token_denom \ denoms
        /\ UNCHANGED <<pool_vars, unstake_vars, local_balance, transfers,
                       withdraw_txs, host_vars, icq_vars, current_era,
                       lsm_transfers, staker_shares, host_shares, late_lsm,
                       redeemed_again>>

sudo_redeem_token_for_share_failed_callback ==
    LET denoms == Denoms(Head(pool_txs).tokens)
    IN  /\ Answered(pool_txs, "RedeemTokenForShare", "error")
        /\ pool_txs' = Tail(pool_txs)
        /\ redeemming_share_token_denom' = redeemming_share_token_denom \ denoms
        /\ UNCHANGED <<pool_vars, unstake_vars, local_balance, transfers,
                       withdraw_txs, host_vars, icq_vars, current_era,
                       share_tokens, lsm_transfers, staker_shares, host_shares,
                       late_lsm, redeemed_again>>

\* EraActive with the check that EraCycle leaves to this module.
execute_era_active_no_share ==
    /\ share_tokens = <<>>
    /\ execute_era_active
    /\ UNCHANGED lsm_vars

execute_era_update_snapshot ==
    /\ execute_era_update
    /\ late_lsm' = 0
    /\ UNCHANGED <<share_tokens, redeemming_share_token_denom, lsm_transfers,
                   staker_shares, host_shares, redeemed_again>>

-----------------------------------------------------------------------------
(***************************************************************************)
(* The host chain (external).                                              *)
(***************************************************************************)
host_receives_shares(p) ==
    /\ p.ack = "none"
    /\ lsm_transfers' = (lsm_transfers \ {p}) \cup {[p EXCEPT !.ack = "ok"]}
    /\ host_shares' = [host_shares EXCEPT ![p.coin.denom] = @ + p.coin.amount]
    /\ UNCHANGED <<vars, share_tokens, redeemming_share_token_denom,
                   staker_shares, late_lsm, redeemed_again>>

share_transfer_fails(p) ==
    /\ p.ack = "none"
    /\ lsm_transfers' = (lsm_transfers \ {p}) \cup {[p EXCEPT !.ack = "error"]}
    /\ UNCHANGED <<vars, share_tokens, redeemming_share_token_denom,
                   staker_shares, host_shares, late_lsm, redeemed_again>>

\* MsgRedeemTokensForShares, one per coin; all of them or none.
host_redeems(i) ==
    LET tokens == pool_txs[i].tokens
    IN  /\ NextToHandle(pool_txs, i)
        /\ pool_txs[i].tx_type = "RedeemTokenForShare"
        /\ \A c \in tokens : host_shares[c.denom] >= c.amount
        /\ pool_txs' = [pool_txs EXCEPT ![i].ack = "ok"]
        /\ host_shares' =
               [d \in ShareDenoms |-> host_shares[d] - AmountIn(tokens, d)]
        /\ delegated' = delegated + ValueOf(tokens)
        /\ UNCHANGED <<pool_vars, unstake_vars, local_balance, transfers,
                       withdraw_txs, unbonding, pool_balance, withdraw_balance,
                       slashed, received, icq_vars, current_era, share_tokens,
                       redeemming_share_token_denom, lsm_transfers,
                       staker_shares, late_lsm, redeemed_again>>

-----------------------------------------------------------------------------
LsmInit ==
    /\ Init
    /\ share_tokens = <<>>
    /\ redeemming_share_token_denom = {}
    /\ lsm_transfers = {}
    /\ staker_shares = Issued
    /\ host_shares = [d \in ShareDenoms |-> 0]
    /\ late_lsm = 0
    /\ redeemed_again = {}

RedeemsInFlight ==
    {i \in DOMAIN pool_txs : pool_txs[i].tx_type = "RedeemTokenForShare"}

RedeemStep ==
    \E tokens \in SUBSET Range(share_tokens) :
        /\ Cardinality(RedeemsInFlight) < MaxRedeem
        /\ execute_redeem_token_for_share(tokens)

StakeLsmStep ==
    \E d \in ShareDenoms, a \in ShareAmounts :
        /\ Cardinality(lsm_transfers) < MaxTransfers
        /\ execute_stake_lsm([denom |-> d, amount |-> a])

LsmStep ==
    \/ StakeLsmStep
    \/ RedeemStep
    \/ \E p \in lsm_transfers : sudo_stake_lsm_callback(p)
    \/ \E p \in lsm_transfers : sudo_stake_lsm_failed_callback(p)
    \/ sudo_redeem_token_for_share_callback
    \/ sudo_redeem_token_for_share_failed_callback
    \/ \E p \in lsm_transfers : host_receives_shares(p)
    \/ \E p \in lsm_transfers : share_transfer_fails(p)
    \/ \E i \in DOMAIN pool_txs : host_redeems(i)

EraStep ==
    \/ execute_era_update_snapshot
    \/ execute_era_active_no_share
    \/ /\ \/ UserStep \/ HostStep
          \/ TransferCallback \/ PoolCallback \/ CollectCallback
          \/ execute_era_bond
          \/ execute_era_collect_withdraw
          \/ ~RebondInFlight /\ execute_era_rebond
          \/ execute_config_pool_paused
       /\ UNCHANGED lsm_vars

LsmNext == LsmStep \/ EraStep

LsmSpec == LsmInit /\ [][LsmNext]_all_vars

-----------------------------------------------------------------------------
(***************************************************************************)
(* Properties.                                                             *)
(***************************************************************************)
ChannelsTypeOK ==
    /\ transfers \subseteq TransferPacket
    /\ pool_txs \in Seq(PoolTx)
    /\ withdraw_txs \in Seq(CollectTx)

\* Every field keeps its type; in particular the pool account never redeems more
\* share tokens than it holds.
LsmTypeOK ==
    /\ PoolTypeOK /\ UnstakeTypeOK /\ ChannelsTypeOK /\ HostTypeOK /\ OtherTypeOK
    /\ share_tokens \in Seq(Coin)
    /\ redeemming_share_token_denom \subseteq ShareDenoms
    /\ lsm_transfers \subseteq LsmPacket
    /\ staker_shares \in [ShareDenoms -> Nat]
    /\ host_shares \in [ShareDenoms -> Nat]
    /\ late_lsm \in Nat
    /\ redeemed_again \subseteq ShareDenoms

\* Share tokens of a denomination that are listed, over all the coins of it.
Listed(d) ==
    SumFunctionOnSet([n \in DOMAIN share_tokens |->
                         IF share_tokens[n].denom = d THEN share_tokens[n].amount ELSE 0],
                     DOMAIN share_tokens)

\* Redeemed on the host, the callback still outstanding.
RedeemedOf(d) ==
    SumFunctionOnSet([i \in RedeemsInFlight |->
                         IF pool_txs[i].ack = "ok" THEN AmountIn(pool_txs[i].tokens, d) ELSE 0],
                     RedeemsInFlight)

\* Whatever is listed in share_tokens is there to be redeemed: a listed coin that
\* the account no longer holds could never be redeemed, and EraActive, which waits
\* for an empty list, would never run again.  Only a second redemption submitted
\* while one of the same denomination is in flight can take the shares of a coin
\* whose acknowledgement comes later.
ListedIsHeld ==
    \A d \in ShareDenoms \ redeemed_again :
        Listed(d) <= host_shares[d] + RedeemedOf(d)

BooksDelegationsAndLsm ==
    (status = "RebondEnded" /\ status' = "ActiveEnded") =>
        LET net == delegations_icq.amount + bond - unbond + late_lsm
            backing == IF net > 0 THEN net ELSE 0
        IN  active' \in {backing} \cup (backing + 1)..(backing + FIRST_STAKE_SLACK - 1)

\* EraActive books the delegations as the query last read them, the net stake since
\* the snapshot, and all the LSM stake acknowledged since the snapshot, whether the
\* delegations read have its shares or not.  What was acknowledged in time is booked
\* only as far as they have it: a redemption does not move last_step_height, so a
\* result submitted before it is used without it.
ActiveFollowsLsm == [][BooksDelegationsAndLsm]_all_vars
=============================================================================
