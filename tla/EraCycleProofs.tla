--------------------------- MODULE EraCycleProofs ---------------------------
(***************************************************************************)
(* Proofs about EraCycle and LsmStake for every value of their constants:  *)
(* the types and amounts of the era cycle, the outcomes of its             *)
(* transactions, the unstake requests and their payment, and that it       *)
(* implements LiquidPool; then, in the last part, that the same holds      *)
(* while shares are staked and redeemed, and what becomes of the shares.   *)
(* The lemmas on the era cycle allow redemptions in the pool account's     *)
(* channel and late bookings in active, so that both parts use them.       *)
(***************************************************************************)
EXTENDS LsmStake, DataProofs

\* Types of the fields of EraCycle, where the pool account's channel may also carry
\* redemptions of shares.
Types ==
    PoolTypeOK /\ UnstakeTypeOK /\ ChannelsTypeOK /\ HostTypeOK /\ OtherTypeOK

\* A pool that has never left its first era is between eras: the failed
\* callback of EraUpdate can take one from the era.
EraPositive == era = 0 => status = "ActiveEnded"

\* Every request's index has been given out, so the next one is free.
IndicesIssued == DOMAIN unstakes_of_index \subseteq 1..next_unstake_index

\* Replacing an element by one of the same type keeps a sequence's type.
LEMMA UpdateTyped ==
   ASSUME NEW S, NEW s \in Seq(S), NEW i \in DOMAIN s, NEW e \in S 
   PROVE [s EXCEPT ![i] = e] \in Seq(S)
<1>1. DOMAIN s = 1..Len(s) /\ Len(s) \in Nat
  OBVIOUS
<1>2. [s EXCEPT ![i] = e] \in [1..Len(s) -> S]
  BY <1>1
<1> QED BY <1>1, <1>2

\* What EraBond and EraRebond submit is an era transaction.
LEMMA EraTxTyped ==
   \A t \in {"EraBond", "EraRebond"} : \A d, u \in Nat : EraTxOf(t, d, u) \in PoolTx
  BY DEF EraTxOf, EraTx, PoolTx, Ack

\* Answering an era transaction, a withdrawal or a collection keeps its type.
LEMMA AckTyped1 ==
   ASSUME NEW tx \in EraTx, NEW a \in Ack PROVE [tx EXCEPT !.ack = a] \in EraTx
  BY DEF EraTx

\* Answering an era transaction, a withdrawal or a collection keeps its type.
LEMMA AckTyped2 ==
   ASSUME NEW tx \in UserWithdrawTx,
   NEW a \in Ack PROVE [tx EXCEPT !.ack = a] \in UserWithdrawTx
  BY DEF UserWithdrawTx

\* Answering an era transaction, a withdrawal or a collection keeps its type.
LEMMA AckTyped3 ==
   ASSUME NEW tx \in CollectTx, NEW a \in Ack PROVE [tx EXCEPT !.ack = a] \in CollectTx
  BY DEF CollectTx

\* Answering a redemption of shares keeps its type.
LEMMA AckTyped4 ==
   ASSUME NEW tx \in RedeemTx, NEW a \in Ack PROVE [tx EXCEPT !.ack = a] \in RedeemTx
  BY DEF RedeemTx

\* A host step that answers one transaction of the pool's channel keeps its type.
LEMMA PoolTxTyped ==
   ASSUME NEW txs \in Seq(PoolTx), NEW i \in DOMAIN txs,
   NEW a \in Ack
   PROVE  [txs EXCEPT ![i].ack = a] \in Seq(PoolTx)
<1>1. txs[i] \in PoolTx
  OBVIOUS
<1>2. [txs[i] EXCEPT !.ack = a] \in PoolTx
  BY <1>1, AckTyped1, AckTyped2, AckTyped4 DEF PoolTx
<1> QED BY <1>2, UpdateTyped

\* The same for the withdraw account's channel.
LEMMA CollectTxTyped ==
   ASSUME NEW txs \in Seq(CollectTx), NEW i \in DOMAIN txs, NEW a \in Ack
   PROVE  [txs EXCEPT ![i].ack = a] \in Seq(CollectTx)
<1>1. txs[i] \in CollectTx
  OBVIOUS
<1>2. [txs[i] EXCEPT !.ack = a] \in CollectTx
  BY <1>1, AckTyped3
<1> QED BY <1>2, UpdateTyped

\* What an unstake burns and what it books are naturals.
LEMMA UnstakeTyped ==
    ASSUME PoolTypeOK, NEW user, NEW amount \in 1..total_lsd_token_amount,
           execute_unstake(user, amount)
    PROVE  /\ BurnAmount(amount) \in Nat /\ BurnAmount(amount) <= amount
           /\ TokenValue(BurnAmount(amount)) \in Nat
<1>0. (amount * unbond_commission) \div CAL_BASE \in Nat
  BY ScaleAssumption, ConfigAssumption, DivNat, MulNat DEF PoolTypeOK
<1>1. BurnAmount(amount) \in Int /\ BurnAmount(amount) <= amount
  BY <1>0 DEF BurnAmount, PoolTypeOK
<1>2. BurnAmount(amount) \in Nat
  BY <1>1 DEF execute_unstake
<1>3. TokenValue(BurnAmount(amount)) \in Nat
  BY <1>2, ScaleAssumption, DivNat, MulNat DEF TokenValue, PoolTypeOK
<1> QED BY <1>1, <1>2, <1>3

\* The amounts of any of the open requests add up to a natural.
LEMMA RequestsSummed ==
    ASSUME PoolTypeOK, UnstakeTypeOK, IndicesIssued,
           NEW S \in SUBSET DOMAIN unstakes_of_index
    PROVE  /\ IsFiniteSet(S)
           /\ \A i \in S : Amounts[i] \in Nat
           /\ SumFunctionOnSet(Amounts, S) \in Nat
<1>1. IsFiniteSet(1..next_unstake_index)
  BY FS_Interval DEF PoolTypeOK
<1>2. IsFiniteSet(S)
  BY <1>1, FS_Subset DEF IndicesIssued
<1>3. \A i \in S : Amounts[i] \in Nat
  BY DEF UnstakeTypeOK, UnstakeInfo, Amounts
<1> QED BY <1>2, <1>3, SumNat

\* Requests change in four steps only.
LEMMA RequestSteps ==
    ASSUME [SerialNext]_vars
    PROVE  \/ \E user \in Users, amount \in 1..total_lsd_token_amount :
                  execute_unstake(user, amount)
           \/ \E user \in Users :
                  \E indices \in SUBSET unstakes_index_for_user[user],
                     fields \in ReceiverFields : execute_withdraw(user, indices, fields)
           \/ sudo_withdraw_callback
           \/ sudo_withdraw_failed_callback
           \/ UNCHANGED <<unstake_vars, next_unstake_index>>
<1>1. CASE UserStep
  BY <1>1 DEF UserStep, execute_stake, unstake_vars
<1>2. CASE KeeperStep
  BY <1>2 DEF KeeperStep, execute_era_update, execute_era_bond,
              execute_era_collect_withdraw, execute_era_active,
              execute_config_pool_paused, unstake_vars
<1>3. CASE execute_era_rebond
  BY <1>3 DEF execute_era_rebond, unstake_vars
<1>4. CASE TransferCallback
  BY <1>4 DEF TransferCallback, sudo_era_update_callback,
              sudo_era_update_failed_callback, unstake_vars
<1>5. CASE PoolCallback
  BY <1>5 DEF PoolCallback, sudo_era_bond_callback, sudo_era_bond_failed_callback,
              sudo_era_rebond_callback, sudo_era_rebond_failed_callback, unstake_vars,
              pool_vars
<1>6. CASE CollectCallback
  BY <1>6 DEF CollectCallback, sudo_era_collect_withdraw_callback,
              sudo_era_collect_withdraw_failed_callback, unstake_vars
<1>7. CASE HostStep
  BY <1>7 DEF HostStep, host_receives_transfer, transfer_fails, host_executes_era_tx,
              host_executes_user_withdraw, pool_tx_fails, host_executes_collect,
              collect_fails, host_completes_unbonding, host_slashes,
              relayer_submits_delegations, relayer_submits_balance, era_elapses,
              unstake_vars, pool_vars
<1>8. CASE UNCHANGED vars
  BY <1>8 DEF vars, pool_vars, unstake_vars
<1> QED BY <1>1, <1>2, <1>3, <1>4, <1>5, <1>6, <1>7, <1>8 DEF SerialNext, OtherStep

\* A step gives out an index before it uses it, and never takes one back.
LEMMA IssuedStep ==
    ASSUME Types, IndicesIssued, [SerialNext]_vars
    PROVE  IndicesIssued'
<1>1. next_unstake_index \in Nat
  BY DEF Types, PoolTypeOK
<1>2. CASE \E user \in Users, amount \in 1..total_lsd_token_amount :
               execute_unstake(user, amount)
  BY <1>1, <1>2 DEF execute_unstake, IndicesIssued
<1>3. CASE \E user \in Users :
               \E indices \in SUBSET unstakes_index_for_user[user],
                  fields \in ReceiverFields : execute_withdraw(user, indices, fields)
  BY <1>3 DEF execute_withdraw, SetWithdrawStatus, IndicesIssued, pool_vars
<1>4. CASE sudo_withdraw_callback
  BY <1>4 DEF sudo_withdraw_callback, IndicesIssued, pool_vars
<1>5. CASE sudo_withdraw_failed_callback
  BY <1>5 DEF sudo_withdraw_failed_callback, SetWithdrawStatus, IndicesIssued,
              pool_vars
<1>6. CASE UNCHANGED <<unstake_vars, next_unstake_index>>
  BY <1>6 DEF unstake_vars, IndicesIssued
<1> QED BY <1>2, <1>3, <1>4, <1>5, <1>6, RequestSteps

\* A step keeps every variable in its type.
LEMMA TypeStep ==
    ASSUME Types, IndicesIssued, EraPositive, StepOwnsItsPacket, [SerialNext]_vars
    PROVE  Types'
<1>0. PoolTypeOK /\ UnstakeTypeOK /\ ChannelsTypeOK /\ HostTypeOK /\ OtherTypeOK
  BY DEF Types
<1> USE <1>0
<1>1. ASSUME NEW amount \in StakeAmounts,
             execute_stake(amount)
      PROVE  Types'
  <2>0. (amount * CAL_BASE) \div rate \in Nat
    BY <1>1, ScaleAssumption, ConfigAssumption, DivNat, MulNat DEF execute_stake,
                                                                   PoolTypeOK
  <2>10. PoolTypeOK'
    BY <1>1, <2>0, ConfigAssumption DEF execute_stake, PoolTypeOK, pool_vars
  <2>11. OtherTypeOK'
    BY <1>1, ConfigAssumption DEF execute_stake, OtherTypeOK, icq_vars
  <2>12. UnstakeTypeOK' /\ ChannelsTypeOK' /\ HostTypeOK'
    BY <1>1 DEF execute_stake, UnstakeTypeOK, ChannelsTypeOK, HostTypeOK,
         unstake_vars, packet_vars, host_vars
  <2> QED BY <2>10, <2>11, <2>12 DEF Types
<1>2. ASSUME NEW user \in Users, NEW amount \in 1..total_lsd_token_amount,
             execute_unstake(user, amount)
      PROVE  Types'
  <2>1. /\ BurnAmount(amount) \in Nat /\ BurnAmount(amount) <= amount
        /\ TokenValue(BurnAmount(amount)) \in Nat
    BY <1>2, UnstakeTyped
  <2>10. PoolTypeOK'
    BY <1>2, <2>1 DEF execute_unstake, PoolTypeOK, pool_vars
  <2>11. UnstakeTypeOK'
    BY <1>2, <2>1, ScaleAssumption, PoolTypeOK DEF execute_unstake, UnstakeTypeOK,
                                                   unstake_vars, UnstakeInfo, PoolTypeOK
  <2>12. ChannelsTypeOK' /\ HostTypeOK' /\ OtherTypeOK'
    BY <1>2 DEF execute_unstake, ChannelsTypeOK, HostTypeOK, OtherTypeOK,
         packet_vars, host_vars, icq_vars
  <2> QED BY <2>10, <2>11, <2>12 DEF Types
<1>3. ASSUME NEW user \in Users, NEW indices \in SUBSET unstakes_index_for_user[user],
             NEW fields \in ReceiverFields, execute_withdraw(user, indices, fields)
      PROVE  Types'
  <2>10. UnstakeTypeOK'
    BY <1>3 DEF execute_withdraw, UnstakeTypeOK, unstake_vars, SetWithdrawStatus,
                UnstakeInfo
  <2>1. indices \in SUBSET DOMAIN unstakes_of_index /\ indices \in SUBSET Nat
    BY <1>3 DEF execute_withdraw, Withdrawable, UnstakeTypeOK
  <2>2. SumFunctionOnSet(Amounts, indices) \in Nat
    BY <2>1, RequestsSummed
  <2>11. ChannelsTypeOK'
    BY <1>3, <2>1, <2>2, ConfigAssumption
       DEF execute_withdraw, ChannelsTypeOK, packet_vars, PoolTx, UserWithdrawTx, Ack
  <2>12. PoolTypeOK' /\ HostTypeOK' /\ OtherTypeOK'
    BY <1>3 DEF execute_withdraw, PoolTypeOK, HostTypeOK, OtherTypeOK,
         pool_vars, host_vars, icq_vars
  <2> QED BY <2>10, <2>11, <2>12 DEF Types
<1>4. CASE execute_era_update
  <2>10. PoolTypeOK'
    BY <1>4 DEF execute_era_update, PoolTypeOK, pool_vars, EraStatus, EraSnapshot
  <2>11. ChannelsTypeOK'
    BY <1>4 DEF execute_era_update, ChannelsTypeOK, packet_vars, TransferPacket, Ack,
                PoolTypeOK
  <2>12. OtherTypeOK'
    BY <1>4 DEF execute_era_update, OtherTypeOK, icq_vars, StepHeightIsNow, Aged,
                IcqResult, PoolTypeOK
  <2>13. UnstakeTypeOK' /\ HostTypeOK'
    BY <1>4 DEF execute_era_update, UnstakeTypeOK, HostTypeOK,
         unstake_vars, host_vars
  <2> QED BY <2>10, <2>11, <2>12, <2>13 DEF Types
<1>5. CASE execute_era_bond
  <2>1. pool_txs' \in Seq(PoolTx)
    <3>1. era_snapshot.bond \in Nat /\ era_snapshot.unbond \in Nat
      BY DEF PoolTypeOK, EraSnapshot
    <3>2. CASE BondByUndelegating
      <4>1. era_snapshot.unbond - era_snapshot.bond \in Nat
        BY <3>1, <3>2 DEF BondByUndelegating
      <4>2. EraTxOf("EraBond", 0, era_snapshot.unbond - era_snapshot.bond) \in PoolTx
        BY <4>1, EraTxTyped
      <4> QED BY <3>2, <4>2, AppendTyped DEF BondByUndelegating, ChannelsTypeOK
    <3>3. CASE BondByDelegating
      <4>1. era_snapshot.bond - era_snapshot.unbond \in Nat
        BY <3>1, <3>3 DEF BondByDelegating
      <4>2. EraTxOf("EraBond", era_snapshot.bond - era_snapshot.unbond, 0) \in PoolTx
        BY <4>1, EraTxTyped
      <4> QED BY <3>3, <4>2, AppendTyped DEF BondByDelegating, ChannelsTypeOK
    <3> QED BY <1>5, <3>2, <3>3 DEF execute_era_bond
  <2>10. PoolTypeOK'
    BY <1>5 DEF execute_era_bond, PoolTypeOK, pool_vars, EraStatus
  <2>11. ChannelsTypeOK'
    BY <1>5, <2>1 DEF execute_era_bond, ChannelsTypeOK, packet_vars
  <2>12. UnstakeTypeOK' /\ HostTypeOK' /\ OtherTypeOK'
    BY <1>5 DEF execute_era_bond, UnstakeTypeOK, HostTypeOK, OtherTypeOK,
         unstake_vars, host_vars, icq_vars
  <2> QED BY <2>10, <2>11, <2>12 DEF Types
<1>6. CASE execute_era_collect_withdraw
  <2>1. withdraw_txs' \in Seq(CollectTx)
    <3>1. [amount |-> balance_icq.amount, ack |-> "none"] \in CollectTx
      BY DEF CollectTx, Ack, OtherTypeOK, IcqResult
    <3> QED BY <1>6, <3>1, AppendTyped DEF execute_era_collect_withdraw, ChannelsTypeOK
  <2>10. PoolTypeOK'
    BY <1>6 DEF execute_era_collect_withdraw, PoolTypeOK, pool_vars, EraStatus,
                EraSnapshot, OtherTypeOK, IcqResult
  <2>11. ChannelsTypeOK'
    BY <1>6, <2>1 DEF execute_era_collect_withdraw, ChannelsTypeOK, packet_vars
  <2>12. UnstakeTypeOK' /\ HostTypeOK' /\ OtherTypeOK'
    BY <1>6 DEF execute_era_collect_withdraw, UnstakeTypeOK, HostTypeOK, OtherTypeOK,
         unstake_vars, host_vars, icq_vars
  <2> QED BY <2>10, <2>11, <2>12 DEF Types
<1>7. CASE execute_era_rebond
  <2>1. pool_txs' \in Seq(PoolTx)
    <3>1. EraTxOf("EraRebond", era_snapshot.restake_amount, 0) \in PoolTx
      BY EraTxTyped DEF PoolTypeOK, EraSnapshot
    <3> QED BY <1>7, <3>1, AppendTyped DEF execute_era_rebond, ChannelsTypeOK
  <2>10. PoolTypeOK'
    BY <1>7 DEF execute_era_rebond, PoolTypeOK, pool_vars, EraStatus
  <2>11. ChannelsTypeOK'
    BY <1>7, <2>1 DEF execute_era_rebond, ChannelsTypeOK, packet_vars
  <2>12. UnstakeTypeOK' /\ HostTypeOK' /\ OtherTypeOK'
    BY <1>7 DEF execute_era_rebond, UnstakeTypeOK, HostTypeOK, OtherTypeOK,
         unstake_vars, host_vars, icq_vars
  <2> QED BY <2>10, <2>11, <2>12 DEF Types
<1>8. CASE execute_era_active
  <2>1. FeeFor(delegations_icq.amount) \in Nat
    BY <1>8, ConfigAssumption, ScaleAssumption, DivNat, MulNat
       DEF execute_era_active, FeeFor, PoolTypeOK, EraSnapshot, OtherTypeOK, IcqResult
  <2>2. ActiveFor(delegations_icq.amount) \in Nat
    BY DEF ActiveFor, PoolTypeOK, EraSnapshot, OtherTypeOK, IcqResult
  <2>3. \A a, l \in Nat : RateOf(a, l) \in Nat
    BY ScaleAssumption, DivNat, MulNat DEF RateOf
  <2>4. total_lsd_token_amount + FeeFor(delegations_icq.amount) \in Nat
    BY <2>1 DEF PoolTypeOK
  <2>5. RateOf(ActiveFor(delegations_icq.amount),
               total_lsd_token_amount + FeeFor(delegations_icq.amount)) \in Nat
    BY <2>2, <2>3, <2>4
  <2>6. rate' \in Nat /\ active' \in Nat /\ total_lsd_token_amount' \in Nat
    BY <1>8, <2>2, <2>4, <2>5, ScaleAssumption DEF execute_era_active, PoolTypeOK
  <2>10. PoolTypeOK'
    BY <1>8, <2>6 DEF execute_era_active, PoolTypeOK, pool_vars, EraStatus
  <2>11. UnstakeTypeOK' /\ ChannelsTypeOK' /\ HostTypeOK' /\ OtherTypeOK'
    BY <1>8 DEF execute_era_active, UnstakeTypeOK, ChannelsTypeOK, HostTypeOK,
                OtherTypeOK,
         unstake_vars, packet_vars, host_vars, icq_vars
  <2> QED BY <2>10, <2>11 DEF Types
<1>9. CASE execute_config_pool_paused
  <2>10. PoolTypeOK'
    BY <1>9 DEF execute_config_pool_paused, PoolTypeOK, pool_vars
  <2>11. UnstakeTypeOK' /\ ChannelsTypeOK' /\ HostTypeOK' /\ OtherTypeOK'
    BY <1>9 DEF execute_config_pool_paused, UnstakeTypeOK, ChannelsTypeOK, HostTypeOK,
                OtherTypeOK,
         unstake_vars, packet_vars, host_vars, icq_vars
  <2> QED BY <2>10, <2>11 DEF Types
<1>10. ASSUME NEW p \in transfers,
             sudo_era_update_callback(p)
      PROVE  Types'
  <2>10. PoolTypeOK'
    BY <1>10 DEF sudo_era_update_callback, PoolTypeOK, pool_vars, EraStatus
  <2>11. ChannelsTypeOK'
    BY <1>10 DEF sudo_era_update_callback, ChannelsTypeOK, packet_vars
  <2>12. OtherTypeOK'
    BY <1>10 DEF sudo_era_update_callback, OtherTypeOK, icq_vars, StepHeightIsNow,
                 Aged, IcqResult
  <2>13. UnstakeTypeOK' /\ HostTypeOK'
    BY <1>10 DEF sudo_era_update_callback, UnstakeTypeOK, HostTypeOK,
         unstake_vars, host_vars
  <2> QED BY <2>10, <2>11, <2>12, <2>13 DEF Types
<1>11. ASSUME NEW p \in transfers,
             sudo_era_update_failed_callback(p)
      PROVE  Types'
  <2>1. era - 1 \in Nat
    BY DEF EraPositive, StepOwnsItsPacket, TransferOwned, PoolTypeOK
  <2>10. PoolTypeOK'
    BY <1>11, <2>1 DEF sudo_era_update_failed_callback, PoolTypeOK, pool_vars,
                       EraStatus, EraSnapshot, EmptySnapshot
  <2>11. ChannelsTypeOK'
    BY <1>11 DEF sudo_era_update_failed_callback, ChannelsTypeOK, packet_vars
  <2>12. OtherTypeOK'
    BY <1>11 DEF sudo_era_update_failed_callback, OtherTypeOK, icq_vars,
                 ChannelsTypeOK, TransferPacket, IcqResult
  <2>13. UnstakeTypeOK' /\ HostTypeOK'
    BY <1>11 DEF sudo_era_update_failed_callback, UnstakeTypeOK, HostTypeOK,
         unstake_vars, host_vars
  <2> QED BY <2>10, <2>11, <2>12, <2>13 DEF Types
<1>12. CASE sudo_era_bond_callback
  <2>10. PoolTypeOK'
    BY <1>12 DEF sudo_era_bond_callback, PoolTypeOK, pool_vars, EraStatus, EraSnapshot
  <2>11. ChannelsTypeOK'
    BY <1>12 DEF sudo_era_bond_callback, ChannelsTypeOK, packet_vars, Answered
  <2>12. OtherTypeOK'
    BY <1>12 DEF sudo_era_bond_callback, OtherTypeOK, icq_vars, StepHeightIsNow,
                 Aged, IcqResult
  <2>13. UnstakeTypeOK' /\ HostTypeOK'
    BY <1>12 DEF sudo_era_bond_callback, UnstakeTypeOK, HostTypeOK,
         unstake_vars, host_vars
  <2> QED BY <2>10, <2>11, <2>12, <2>13 DEF Types
<1>13. CASE sudo_era_bond_failed_callback
  <2>10. PoolTypeOK'
    BY <1>13 DEF sudo_era_bond_failed_callback, PoolTypeOK, pool_vars, EraStatus
  <2>11. ChannelsTypeOK'
    BY <1>13 DEF sudo_era_bond_failed_callback, ChannelsTypeOK, packet_vars, Answered
  <2>12. UnstakeTypeOK' /\ HostTypeOK' /\ OtherTypeOK'
    BY <1>13 DEF sudo_era_bond_failed_callback, UnstakeTypeOK, HostTypeOK, OtherTypeOK,
         unstake_vars, host_vars, icq_vars
  <2> QED BY <2>10, <2>11, <2>12 DEF Types
<1>14. CASE sudo_era_rebond_callback
  <2>10. PoolTypeOK'
    BY <1>14 DEF sudo_era_rebond_callback, PoolTypeOK, pool_vars, EraStatus
  <2>11. ChannelsTypeOK'
    BY <1>14 DEF sudo_era_rebond_callback, ChannelsTypeOK, packet_vars, Answered
  <2>12. OtherTypeOK'
    BY <1>14 DEF sudo_era_rebond_callback, OtherTypeOK, icq_vars, StepHeightIsNow,
                 Aged, IcqResult
  <2>13. UnstakeTypeOK' /\ HostTypeOK'
    BY <1>14 DEF sudo_era_rebond_callback, UnstakeTypeOK, HostTypeOK,
         unstake_vars, host_vars
  <2> QED BY <2>10, <2>11, <2>12, <2>13 DEF Types
<1>15. CASE sudo_era_rebond_failed_callback
  <2>10. PoolTypeOK'
    BY <1>15 DEF sudo_era_rebond_failed_callback, PoolTypeOK, pool_vars, EraStatus
  <2>11. ChannelsTypeOK'
    BY <1>15 DEF sudo_era_rebond_failed_callback, ChannelsTypeOK, packet_vars, Answered
  <2>12. UnstakeTypeOK' /\ HostTypeOK' /\ OtherTypeOK'
    BY <1>15 DEF sudo_era_rebond_failed_callback, UnstakeTypeOK, HostTypeOK,
                 OtherTypeOK,
         unstake_vars, host_vars, icq_vars
  <2> QED BY <2>10, <2>11, <2>12 DEF Types
<1>16. CASE sudo_withdraw_callback
  <2>10. UnstakeTypeOK'
    BY <1>16 DEF sudo_withdraw_callback, UnstakeTypeOK, unstake_vars
  <2>11. ChannelsTypeOK'
    BY <1>16 DEF sudo_withdraw_callback, ChannelsTypeOK, packet_vars, Answered
  <2>12. PoolTypeOK' /\ HostTypeOK' /\ OtherTypeOK'
    BY <1>16 DEF sudo_withdraw_callback, PoolTypeOK, HostTypeOK, OtherTypeOK,
         pool_vars, host_vars, icq_vars
  <2> QED BY <2>10, <2>11, <2>12 DEF Types
<1>17. CASE sudo_withdraw_failed_callback
  <2>10. UnstakeTypeOK'
    <3> DEFINE own == Head(pool_txs).unstakes
               read == own \cup Head(pool_txs).fields
    <3>1. Head(pool_txs) \in PoolTx /\ Head(pool_txs).tx_type = "UserWithdraw"
      BY <1>17 DEF sudo_withdraw_failed_callback, Answered, ChannelsTypeOK
    <3>2. own \subseteq Nat
      BY <3>1 DEF PoolTx, EraTx, RedeemTx, UserWithdrawTx
    <3>3. unstakes_index_for_user' = unstakes_index_for_user
      BY <1>17 DEF sudo_withdraw_failed_callback
    <3>4. CASE /\ read \subseteq DOMAIN unstakes_of_index
               /\ unstakes_of_index' = SetWithdrawStatus(read, "Default")
               /\ misread' = misread \cup (read \cap PaidByLater)
               /\ stuck' = stuck \ read
      <4> HIDE DEF read
      <4>1. misread' \subseteq Nat /\ stuck' \subseteq Nat
        BY <3>4 DEF UnstakeTypeOK
      <4> QED BY <3>3, <3>4, <4>1 DEF UnstakeTypeOK, SetWithdrawStatus, UnstakeInfo
    <3>5. CASE /\ stuck' = stuck \cup own
               /\ UNCHANGED <<unstakes_of_index, misread>>
      BY <3>2, <3>3, <3>5 DEF UnstakeTypeOK
    <3> QED BY <1>17, <3>4, <3>5 DEF sudo_withdraw_failed_callback
  <2>11. ChannelsTypeOK'
    BY <1>17 DEF sudo_withdraw_failed_callback, ChannelsTypeOK, packet_vars, Answered
  <2>12. PoolTypeOK' /\ HostTypeOK' /\ OtherTypeOK'
    BY <1>17 DEF sudo_withdraw_failed_callback, PoolTypeOK, HostTypeOK, OtherTypeOK,
         pool_vars, host_vars, icq_vars
  <2> QED BY <2>10, <2>11, <2>12 DEF Types
<1>18. CASE sudo_era_collect_withdraw_callback
  <2>10. PoolTypeOK'
    BY <1>18 DEF sudo_era_collect_withdraw_callback, PoolTypeOK, pool_vars, EraStatus
  <2>11. ChannelsTypeOK'
    BY <1>18 DEF sudo_era_collect_withdraw_callback, ChannelsTypeOK, packet_vars
  <2>12. OtherTypeOK'
    BY <1>18 DEF sudo_era_collect_withdraw_callback, OtherTypeOK, icq_vars,
                 StepHeightIsNow, Aged, IcqResult
  <2>13. UnstakeTypeOK' /\ HostTypeOK'
    BY <1>18 DEF sudo_era_collect_withdraw_callback, UnstakeTypeOK, HostTypeOK,
         unstake_vars, host_vars
  <2> QED BY <2>10, <2>11, <2>12, <2>13 DEF Types
<1>19. CASE sudo_era_collect_withdraw_failed_callback
  <2>10. PoolTypeOK'
    BY <1>19 DEF sudo_era_collect_withdraw_failed_callback, PoolTypeOK, pool_vars,
                 EraStatus
  <2>11. ChannelsTypeOK'
    BY <1>19 DEF sudo_era_collect_withdraw_failed_callback, ChannelsTypeOK, packet_vars
  <2>12. UnstakeTypeOK' /\ HostTypeOK' /\ OtherTypeOK'
    BY <1>19 DEF sudo_era_collect_withdraw_failed_callback, UnstakeTypeOK,
                 HostTypeOK, OtherTypeOK,
         unstake_vars, host_vars, icq_vars
  <2> QED BY <2>10, <2>11, <2>12 DEF Types
<1>20. ASSUME NEW p \in transfers,
             host_receives_transfer(p)
      PROVE  Types'
  <2>10. ChannelsTypeOK'
    BY <1>20 DEF host_receives_transfer, ChannelsTypeOK, packet_vars, TransferPacket, Ack
  <2>11. HostTypeOK'
    BY <1>20 DEF host_receives_transfer, HostTypeOK, host_vars, ChannelsTypeOK,
                 TransferPacket
  <2>12. PoolTypeOK' /\ UnstakeTypeOK' /\ OtherTypeOK'
    BY <1>20 DEF host_receives_transfer, PoolTypeOK, UnstakeTypeOK, OtherTypeOK,
         pool_vars, unstake_vars, icq_vars
  <2> QED BY <2>10, <2>11, <2>12 DEF Types
<1>21. ASSUME NEW p \in transfers,
             transfer_fails(p)
      PROVE  Types'
  <2>10. ChannelsTypeOK'
    BY <1>21 DEF transfer_fails, ChannelsTypeOK, packet_vars, TransferPacket, Ack
  <2>11. PoolTypeOK' /\ UnstakeTypeOK' /\ HostTypeOK' /\ OtherTypeOK'
    BY <1>21 DEF transfer_fails, PoolTypeOK, UnstakeTypeOK, HostTypeOK, OtherTypeOK,
         pool_vars, unstake_vars, host_vars, icq_vars
  <2> QED BY <2>10, <2>11 DEF Types
<1>22. ASSUME NEW i \in DOMAIN pool_txs, NEW reward \in Rewards,
             host_executes_era_tx(i, reward)
      PROVE  Types'
  <2>1. pool_txs[i].delegate \in Nat /\ pool_txs[i].undelegate \in Nat
    BY <1>22 DEF host_executes_era_tx, ChannelsTypeOK, PoolTx,
                EraTx, UserWithdrawTx, RedeemTx
  <2>2. pool_txs' \in Seq(PoolTx)
    BY <1>22, PoolTxTyped DEF host_executes_era_tx, ChannelsTypeOK, Ack
  <2>10. ChannelsTypeOK'
    BY <1>22, <2>2 DEF host_executes_era_tx, ChannelsTypeOK, packet_vars
  <2>11. HostTypeOK'
    BY <1>22, <2>1, ConfigAssumption DEF host_executes_era_tx, HostTypeOK, host_vars
  <2>12. PoolTypeOK' /\ UnstakeTypeOK' /\ OtherTypeOK'
    BY <1>22 DEF host_executes_era_tx, PoolTypeOK, UnstakeTypeOK, OtherTypeOK,
         pool_vars, unstake_vars, icq_vars
  <2> QED BY <2>10, <2>11, <2>12 DEF Types
<1>23. ASSUME NEW i \in DOMAIN pool_txs,
             host_executes_user_withdraw(i)
      PROVE  Types'
  <2>0. pool_txs[i] \in PoolTx /\ pool_txs[i].tx_type = "UserWithdraw"
    BY <1>23 DEF host_executes_user_withdraw, ChannelsTypeOK
  <2>1. pool_txs[i].amount \in Nat
    BY ONLY <2>0 DEF PoolTx, EraTx, UserWithdrawTx, RedeemTx
  <2>2. pool_txs' \in Seq(PoolTx)
    BY <1>23, PoolTxTyped DEF host_executes_user_withdraw, ChannelsTypeOK, Ack
  <2>10. ChannelsTypeOK'
    BY <1>23, <2>2 DEF host_executes_user_withdraw, ChannelsTypeOK, packet_vars
  <2>3. pool_txs[i].user \in Users
    <3>1. pool_txs[i] \in PoolTx
      BY DEF ChannelsTypeOK
    <3>2. pool_txs[i].tx_type = "UserWithdraw"
      BY <1>23 DEF host_executes_user_withdraw
    <3>3. pool_txs[i] \notin EraTx /\ pool_txs[i] \notin RedeemTx
      BY <3>2 DEF EraTx, RedeemTx
    <3> QED BY <3>1, <3>3 DEF UserWithdrawTx, PoolTx
  <2>11. HostTypeOK'
    BY <1>23, <2>1, <2>3 DEF host_executes_user_withdraw, HostTypeOK, host_vars
  <2>12. PoolTypeOK' /\ UnstakeTypeOK' /\ OtherTypeOK'
    BY <1>23 DEF host_executes_user_withdraw, PoolTypeOK, UnstakeTypeOK, OtherTypeOK,
         pool_vars, unstake_vars, icq_vars
  <2> QED BY <2>10, <2>11, <2>12 DEF Types
<1>24. ASSUME NEW i \in DOMAIN pool_txs,
             pool_tx_fails(i)
      PROVE  Types'
  <2>1. pool_txs' \in Seq(PoolTx)
    BY <1>24, PoolTxTyped DEF pool_tx_fails, ChannelsTypeOK, Ack
  <2>10. ChannelsTypeOK'
    BY <1>24, <2>1 DEF pool_tx_fails, ChannelsTypeOK, packet_vars
  <2>11. PoolTypeOK' /\ UnstakeTypeOK' /\ HostTypeOK' /\ OtherTypeOK'
    BY <1>24 DEF pool_tx_fails, PoolTypeOK, UnstakeTypeOK, HostTypeOK, OtherTypeOK,
         pool_vars, unstake_vars, host_vars, icq_vars
  <2> QED BY <2>10, <2>11 DEF Types
<1>25. ASSUME NEW i \in DOMAIN withdraw_txs,
             host_executes_collect(i)
      PROVE  Types'
  <2>1. withdraw_txs' \in Seq(CollectTx)
    BY <1>25, CollectTxTyped DEF host_executes_collect, ChannelsTypeOK, Ack
  <2>2. withdraw_txs[i] \in CollectTx
    BY <1>25 DEF ChannelsTypeOK
  <2>3. withdraw_txs[i].amount \in Nat
    BY <2>2 DEF CollectTx
  <2>10. ChannelsTypeOK'
    BY <1>25, <2>1 DEF host_executes_collect, ChannelsTypeOK, packet_vars
  <2>11. HostTypeOK'
    BY <1>25, <2>3 DEF host_executes_collect, HostTypeOK, host_vars
  <2>12. PoolTypeOK' /\ UnstakeTypeOK' /\ OtherTypeOK'
    BY <1>25 DEF host_executes_collect, PoolTypeOK, UnstakeTypeOK, OtherTypeOK,
         pool_vars, unstake_vars, icq_vars
  <2> QED BY <2>10, <2>11, <2>12 DEF Types
<1>26. ASSUME NEW i \in DOMAIN withdraw_txs,
             collect_fails(i)
      PROVE  Types'
  <2>1. withdraw_txs' \in Seq(CollectTx)
    BY <1>26, CollectTxTyped DEF collect_fails, ChannelsTypeOK, Ack
  <2>10. ChannelsTypeOK'
    BY <1>26, <2>1 DEF collect_fails, ChannelsTypeOK, packet_vars
  <2>11. PoolTypeOK' /\ UnstakeTypeOK' /\ HostTypeOK' /\ OtherTypeOK'
    BY <1>26 DEF collect_fails, PoolTypeOK, UnstakeTypeOK, HostTypeOK, OtherTypeOK,
         pool_vars, unstake_vars, host_vars, icq_vars
  <2> QED BY <2>10, <2>11 DEF Types
<1>27. CASE host_completes_unbonding
  <2>10. HostTypeOK'
    BY <1>27 DEF host_completes_unbonding, HostTypeOK, host_vars
  <2>11. PoolTypeOK' /\ UnstakeTypeOK' /\ ChannelsTypeOK' /\ OtherTypeOK'
    BY <1>27 DEF host_completes_unbonding, PoolTypeOK, UnstakeTypeOK, ChannelsTypeOK,
                 OtherTypeOK,
         pool_vars, unstake_vars, packet_vars, icq_vars
  <2> QED BY <2>10, <2>11 DEF Types
<1>28. CASE host_slashes
  <2>10. HostTypeOK'
    BY <1>28 DEF host_slashes, HostTypeOK, host_vars
  <2>11. PoolTypeOK' /\ UnstakeTypeOK' /\ ChannelsTypeOK' /\ OtherTypeOK'
    BY <1>28 DEF host_slashes, PoolTypeOK, UnstakeTypeOK, ChannelsTypeOK, OtherTypeOK,
         pool_vars, unstake_vars, packet_vars, icq_vars
  <2> QED BY <2>10, <2>11 DEF Types
<1>29. CASE relayer_submits_delegations
  <2>10. OtherTypeOK'
    BY <1>29 DEF relayer_submits_delegations, OtherTypeOK, icq_vars, HostTypeOK,
                 IcqResult
  <2>11. PoolTypeOK' /\ UnstakeTypeOK' /\ ChannelsTypeOK' /\ HostTypeOK'
    BY <1>29 DEF relayer_submits_delegations, PoolTypeOK, UnstakeTypeOK,
                 ChannelsTypeOK, HostTypeOK,
         pool_vars, unstake_vars, packet_vars, host_vars
  <2> QED BY <2>10, <2>11 DEF Types
<1>30. CASE relayer_submits_balance
  <2>10. OtherTypeOK'
    BY <1>30 DEF relayer_submits_balance, OtherTypeOK, icq_vars, HostTypeOK, IcqResult
  <2>11. PoolTypeOK' /\ UnstakeTypeOK' /\ ChannelsTypeOK' /\ HostTypeOK'
    BY <1>30 DEF relayer_submits_balance, PoolTypeOK, UnstakeTypeOK, ChannelsTypeOK,
                 HostTypeOK,
         pool_vars, unstake_vars, packet_vars, host_vars
  <2> QED BY <2>10, <2>11 DEF Types
<1>31. CASE era_elapses
  <2>10. OtherTypeOK'
    BY <1>31 DEF era_elapses, OtherTypeOK, icq_vars
  <2>11. PoolTypeOK' /\ UnstakeTypeOK' /\ ChannelsTypeOK' /\ HostTypeOK'
    BY <1>31 DEF era_elapses, PoolTypeOK, UnstakeTypeOK, ChannelsTypeOK, HostTypeOK,
         pool_vars, unstake_vars, packet_vars, host_vars
  <2> QED BY <2>10, <2>11 DEF Types
<1>32. CASE UNCHANGED vars
  BY <1>32 DEF vars, Types, PoolTypeOK, UnstakeTypeOK, ChannelsTypeOK, HostTypeOK,
     OtherTypeOK, pool_vars, unstake_vars, packet_vars, host_vars, icq_vars
<1> QED
  BY <1>1, <1>2, <1>3, <1>4, <1>5, <1>6, <1>7, <1>8, <1>9, <1>10, <1>11, <1>12,
     <1>13, <1>14, <1>15, <1>16, <1>17, <1>18, <1>19, <1>20, <1>21, <1>22, <1>23,
     <1>24, <1>25, <1>26, <1>27, <1>28, <1>29, <1>30, <1>31, <1>32
     DEF SerialNext, OtherStep, UserStep, KeeperStep, HostStep, TransferCallback,
         PoolCallback, CollectCallback

\* After the oldest transaction is taken off, each one left was one place later.
LEMMA TailTxs ==
    ASSUME NEW S, NEW s \in Seq(S), s # <<>>
    PROVE  /\ Tail(s) \in Seq(S)
           /\ 1 \in DOMAIN s /\ Head(s) = s[1]
           /\ \A j \in DOMAIN Tail(s) :
                  j + 1 \in DOMAIN s /\ j + 1 # 1 /\ Tail(s)[j] = s[j + 1]
  OBVIOUS

\* After an append each transaction is an old one or the new one, which is last.
LEMMA AppendTxs ==
    ASSUME NEW S, NEW s \in Seq(S), NEW e
    PROVE  /\ DOMAIN Append(s, e) = DOMAIN s \cup {Len(s) + 1}
           /\ Len(s) + 1 \notin DOMAIN s
           /\ \A j \in DOMAIN s : Append(s, e)[j] = s[j]
           /\ Append(s, e)[Len(s) + 1] = e
  OBVIOUS

\* An answer changes no transaction's type and no era transaction's amount.
LEMMA AnsweredTxs ==
    ASSUME NEW s \in Seq(PoolTx), NEW i \in DOMAIN s, NEW a,
           NEW t, t = [s EXCEPT ![i].ack = a]
    PROVE  /\ DOMAIN t = DOMAIN s
           /\ \A j \in DOMAIN s : t[j].tx_type = s[j].tx_type
           /\ \A j \in DOMAIN s : s[j].tx_type = "EraRebond" =>
                  t[j].delegate = s[j].delegate
<1>1. DOMAIN t = DOMAIN s
  OBVIOUS
<1>2. \A j \in DOMAIN s : j # i => t[j] = s[j]
  OBVIOUS
<1>3. t[i] = [s[i] EXCEPT !.ack = a]
  OBVIOUS
<1>4. s[i] \in PoolTx
  OBVIOUS
<1>5. t[i].tx_type = s[i].tx_type
  BY <1>3, <1>4 DEF PoolTx, EraTx, UserWithdrawTx, RedeemTx
<1>6. s[i].tx_type = "EraRebond" => t[i].delegate = s[i].delegate
  BY <1>3, <1>4 DEF PoolTx, EraTx, UserWithdrawTx, RedeemTx
<1> QED BY <1>1, <1>2, <1>5, <1>6

\* When the types and amounts of the pool's transactions stay, so does who owns
\* them.
LEMMA SameTxs ==
    ASSUME BondOwned, RebondOwned, UNCHANGED <<status, era_snapshot>>,
           DOMAIN pool_txs' = DOMAIN pool_txs,
           \A j \in DOMAIN pool_txs : pool_txs'[j].tx_type = pool_txs[j].tx_type,
           \A j \in DOMAIN pool_txs : pool_txs[j].tx_type = "EraRebond" =>
               pool_txs'[j].delegate = pool_txs[j].delegate
    PROVE  BondOwned' /\ RebondOwned'
<1>1. BondTxs' = BondTxs /\ RebondTxs' = RebondTxs
  BY DEF BondTxs, RebondTxs
<1> QED BY <1>1 DEF BondOwned, RebondOwned, RebondTxs

\* Taking off the oldest transaction, when the status stays, keeps the owners.
LEMMA FewerTxs ==
    ASSUME ChannelsTypeOK, BondOwned, RebondOwned, UNCHANGED <<status, era_snapshot>>,
           pool_txs # <<>>, pool_txs' = Tail(pool_txs)
    PROVE  BondOwned' /\ RebondOwned'
<1>1. \A j \in DOMAIN pool_txs' :
         j \in Int /\ j + 1 \in DOMAIN pool_txs /\ pool_txs'[j] = pool_txs[j + 1]
  BY TailTxs DEF ChannelsTypeOK
<1>2. /\ \A j \in BondTxs' : j \in Int /\ j + 1 \in BondTxs
      /\ \A j \in RebondTxs' : j \in Int /\ j + 1 \in RebondTxs
                               /\ pool_txs'[j].delegate = pool_txs[j + 1].delegate
  BY <1>1 DEF BondTxs, RebondTxs
<1>3. BondOwned'
  BY <1>2 DEF BondOwned
<1>4. ASSUME NEW j \in RebondTxs'
      PROVE  /\ status' = "WithdrawEnded"
             /\ pool_txs'[j].delegate = era_snapshot'.restake_amount
             /\ \A k \in RebondTxs' : k = j
  <2>1. /\ status = "WithdrawEnded"
        /\ pool_txs[j + 1].delegate = era_snapshot.restake_amount
        /\ \A k \in RebondTxs : k = j + 1
    BY <1>2, <1>4 DEF RebondOwned
  <2>2. ASSUME NEW k \in RebondTxs' PROVE k = j
    <3>1. k \in Int /\ j \in Int /\ k + 1 = j + 1
      BY <1>2, <1>4, <2>1, <2>2
    <3> QED BY <3>1
  <2>3. pool_txs'[j].delegate = pool_txs[j + 1].delegate
    BY <1>2, <1>4
  <2> QED BY <2>1, <2>2, <2>3
<1>5. RebondOwned'
  BY <1>4 DEF RebondOwned
<1> QED BY <1>3, <1>5

\* The oldest transaction is the only one of its step, so none is left after it.
LEMMA LastOfStep ==
    ASSUME ChannelsTypeOK, BondOwned, RebondOwned, pool_txs # <<>>,
           pool_txs' = Tail(pool_txs)
    PROVE  /\ Head(pool_txs).tx_type = "EraBond" =>
                  status = "BondStarted" /\ BondTxs' = {} /\ RebondTxs' = {}
           /\ Head(pool_txs).tx_type = "EraRebond" =>
                  status = "WithdrawEnded" /\ BondTxs' = {} /\ RebondTxs' = {}
<1>1. /\ 1 \in DOMAIN pool_txs /\ Head(pool_txs) = pool_txs[1]
      /\ \A j \in DOMAIN pool_txs' : /\ j + 1 \in DOMAIN pool_txs /\ j + 1 # 1
                                     /\ pool_txs'[j] = pool_txs[j + 1]
  BY TailTxs DEF ChannelsTypeOK
<1>2. /\ \A j \in BondTxs' : j + 1 \in BondTxs /\ j + 1 # 1
      /\ \A j \in RebondTxs' : j + 1 \in RebondTxs /\ j + 1 # 1
  BY <1>1 DEF BondTxs, RebondTxs
<1>3. CASE Head(pool_txs).tx_type = "EraBond"
  <2>1. 1 \in BondTxs
    BY <1>1, <1>3 DEF BondTxs
  <2> QED BY <2>1, <1>2, <1>3 DEF BondOwned, RebondOwned
<1>4. CASE Head(pool_txs).tx_type = "EraRebond"
  <2>1. 1 \in RebondTxs
    BY <1>1, <1>4 DEF RebondTxs
  <2> QED BY <2>1, <1>2, <1>4 DEF BondOwned, RebondOwned
<1> QED BY <1>3, <1>4

\* A step keeps packets and status in step.
LEMMA PacketStep ==
    ASSUME Types, EraPositive, StepOwnsItsPacket, [SerialNext]_vars
    PROVE  StepOwnsItsPacket' /\ EraPositive'
<1>0. PoolTypeOK /\ ChannelsTypeOK
  BY DEF Types
<1> USE <1>0
<1>1. ASSUME NEW amount \in StakeAmounts,
             execute_stake(amount)
      PROVE  StepOwnsItsPacket' /\ EraPositive'
  BY <1>1 DEF execute_stake, pool_vars, packet_vars, EraPositive, BondTxs, RebondTxs,
     StepOwnsItsPacket, TransferOwned, BondOwned, CollectOwned, RebondOwned
<1>2. ASSUME NEW user \in Users, NEW amount \in 1..total_lsd_token_amount,
             execute_unstake(user, amount)
      PROVE  StepOwnsItsPacket' /\ EraPositive'
  BY <1>2 DEF execute_unstake, pool_vars, packet_vars, EraPositive, BondTxs, RebondTxs,
     StepOwnsItsPacket, TransferOwned, BondOwned, CollectOwned, RebondOwned
<1>3. ASSUME NEW user \in Users, NEW indices \in SUBSET unstakes_index_for_user[user],
             NEW fields \in ReceiverFields, execute_withdraw(user, indices, fields)
      PROVE  StepOwnsItsPacket' /\ EraPositive'
  <2>0. \E t : pool_txs' = Append(pool_txs,
               [tx_type |-> "UserWithdraw", user |-> user,
                unstakes |-> indices, fields |-> fields, amount |-> t,
                ack |-> "none"])
    BY <1>3, Zenon DEF execute_withdraw
  <2>1. /\ DOMAIN pool_txs' = DOMAIN pool_txs \cup {Len(pool_txs) + 1}
        /\ \A j \in DOMAIN pool_txs : pool_txs'[j] = pool_txs[j]
        /\ pool_txs'[Len(pool_txs) + 1].tx_type = "UserWithdraw"
    BY <2>0, AppendTxs DEF ChannelsTypeOK
  <2>2. BondTxs' = BondTxs /\ RebondTxs' = RebondTxs
    BY <2>1 DEF BondTxs, RebondTxs
  <2>3. \A j \in RebondTxs : pool_txs'[j] = pool_txs[j]
    BY <2>1 DEF RebondTxs
  <2> QED BY <1>3, <2>2, <2>3 DEF execute_withdraw, pool_vars, EraPositive,
                                  StepOwnsItsPacket, TransferOwned, BondOwned,
                                  CollectOwned, RebondOwned
<1>4. CASE execute_era_update
  <2>1. transfers = {} /\ BondTxs = {} /\ RebondTxs = {} /\ DOMAIN withdraw_txs = {}
    BY <1>4 DEF execute_era_update, StepOwnsItsPacket, TransferOwned, BondOwned,
                CollectOwned, RebondOwned
  <2>2. BondTxs' = {} /\ RebondTxs' = {} /\ DOMAIN withdraw_txs' = {}
    BY <1>4, <2>1 DEF execute_era_update, BondTxs, RebondTxs
  <2>3. TransferOwned'
    BY <1>4, <2>1 DEF execute_era_update, TransferOwned
  <2>4. EraPositive'
    BY <1>4 DEF execute_era_update, EraPositive, PoolTypeOK
  <2> QED BY <2>2, <2>3, <2>4 DEF StepOwnsItsPacket, TransferOwned, BondOwned,
                                  CollectOwned, RebondOwned
<1>5. CASE execute_era_bond
  <2>1. transfers = {} /\ BondTxs = {} /\ RebondTxs = {} /\ DOMAIN withdraw_txs = {}
    BY <1>5 DEF execute_era_bond, StepOwnsItsPacket, TransferOwned, BondOwned,
                CollectOwned, RebondOwned
  <2>2. \E e : pool_txs' = Append(pool_txs, e) /\ e.tx_type = "EraBond"
    BY <1>5 DEF execute_era_bond, BondByUndelegating, BondByDelegating, EraTxOf
  <2>3. BondTxs' = {Len(pool_txs) + 1} /\ RebondTxs' = {}
    BY <2>1, <2>2, AppendTxs DEF ChannelsTypeOK, BondTxs, RebondTxs
  <2>4. BondOwned'
    BY <1>5, <2>3 DEF execute_era_bond, BondOwned
  <2>5. TransferOwned' /\ CollectOwned' /\ RebondOwned'
    BY <1>5, <2>1, <2>3 DEF execute_era_bond, TransferOwned, CollectOwned, RebondOwned
  <2>6. EraPositive'
    BY <1>5 DEF execute_era_bond, EraPositive
  <2> QED BY <2>4, <2>5, <2>6 DEF StepOwnsItsPacket
<1>6. CASE execute_era_collect_withdraw
  <2>1. transfers = {} /\ BondTxs = {} /\ RebondTxs = {} /\ DOMAIN withdraw_txs = {}
    BY <1>6 DEF execute_era_collect_withdraw, StepOwnsItsPacket, TransferOwned,
                BondOwned, CollectOwned, RebondOwned
  <2>2. transfers' = {} /\ BondTxs' = {} /\ RebondTxs' = {}
    BY <1>6, <2>1 DEF execute_era_collect_withdraw, BondTxs, RebondTxs
  <2>3. CollectOwned'
    <3>1. CASE UNCHANGED withdraw_txs
      BY <2>1, <3>1 DEF CollectOwned
    <3>2. CASE /\ withdraw_txs' = Append(withdraw_txs,
                      [amount |-> balance_icq.amount, ack |-> "none"])
               /\ status' = "WithdrawStarted"
               /\ era_snapshot' = [era_snapshot EXCEPT
                                    !.restake_amount = balance_icq.amount]
      <4>1. Len(withdraw_txs) = 0
        BY <2>1 DEF ChannelsTypeOK
      <4>2. /\ DOMAIN withdraw_txs' = {1}
            /\ withdraw_txs'[1].amount = balance_icq.amount
        BY <2>1, <3>2, <4>1, AppendTxs DEF ChannelsTypeOK
      <4>3. era_snapshot'.restake_amount = balance_icq.amount
        BY <3>2 DEF PoolTypeOK, EraSnapshot
      <4> QED BY <3>2, <4>2, <4>3 DEF CollectOwned
    <3> QED BY <1>6, <3>1, <3>2 DEF execute_era_collect_withdraw
  <2>4. EraPositive'
    BY <1>6 DEF execute_era_collect_withdraw, EraPositive
  <2> QED BY <2>2, <2>3, <2>4 DEF StepOwnsItsPacket, TransferOwned, BondOwned,
                                  CollectOwned, RebondOwned
<1>7. CASE ~RebondInFlight /\ execute_era_rebond
  <2>1. transfers = {} /\ BondTxs = {} /\ DOMAIN withdraw_txs = {}
    BY <1>7 DEF execute_era_rebond, StepOwnsItsPacket, TransferOwned, BondOwned,
                CollectOwned, RebondOwned
  <2>2. RebondTxs = {}
    BY <1>7 DEF RebondInFlight, RebondTxs
  <2>3. BondOwned' /\ RebondOwned'
    <3>1. CASE UNCHANGED pool_txs
      BY <2>1, <2>2, <3>1 DEF BondOwned, RebondOwned, BondTxs, RebondTxs
    <3>2. CASE /\ pool_txs' = Append(pool_txs, EraTxOf("EraRebond",
                                          era_snapshot.restake_amount, 0))
               /\ status' = "WithdrawEnded" /\ era_snapshot' = era_snapshot
      <4>1. /\ BondTxs' = {} /\ RebondTxs' = {Len(pool_txs) + 1}
            /\ pool_txs'[Len(pool_txs) + 1].delegate = era_snapshot.restake_amount
        BY <2>1, <2>2, <3>2, AppendTxs DEF ChannelsTypeOK, BondTxs, RebondTxs, EraTxOf
      <4> QED BY <3>2, <4>1 DEF BondOwned, RebondOwned
    <3> QED BY <1>7, <3>1, <3>2 DEF execute_era_rebond
  <2>4. TransferOwned' /\ CollectOwned'
    BY <1>7, <2>1 DEF execute_era_rebond, TransferOwned, CollectOwned
  <2>5. EraPositive'
    BY <1>7 DEF execute_era_rebond, EraPositive
  <2> QED BY <2>3, <2>4, <2>5 DEF StepOwnsItsPacket
<1>8. CASE execute_era_active
  <2>1. transfers = {} /\ BondTxs = {} /\ RebondTxs = {} /\ DOMAIN withdraw_txs = {}
    BY <1>8 DEF execute_era_active, StepOwnsItsPacket, TransferOwned, BondOwned,
                CollectOwned, RebondOwned
  <2>2. transfers' = {} /\ BondTxs' = {} /\ RebondTxs' = {} /\ DOMAIN withdraw_txs' = {}
    BY <1>8, <2>1 DEF execute_era_active, packet_vars, BondTxs, RebondTxs
  <2>3. EraPositive'
    BY <1>8 DEF execute_era_active, EraPositive
  <2> QED BY <2>2, <2>3 DEF StepOwnsItsPacket, TransferOwned, BondOwned,
                            CollectOwned, RebondOwned
<1>9. CASE execute_config_pool_paused
  BY <1>9 DEF execute_config_pool_paused, pool_vars, packet_vars, EraPositive,
              BondTxs, RebondTxs,
     StepOwnsItsPacket, TransferOwned, BondOwned, CollectOwned, RebondOwned
<1>10. ASSUME NEW p \in transfers,
             sudo_era_update_callback(p)
      PROVE  StepOwnsItsPacket' /\ EraPositive'
  <2>1. transfers' = {} /\ BondTxs = {} /\ RebondTxs = {} /\ DOMAIN withdraw_txs = {}
    BY <1>10 DEF sudo_era_update_callback, StepOwnsItsPacket, TransferOwned,
                 BondOwned, CollectOwned, RebondOwned
  <2>2. BondTxs' = {} /\ RebondTxs' = {} /\ DOMAIN withdraw_txs' = {}
    BY <1>10, <2>1 DEF sudo_era_update_callback, BondTxs, RebondTxs
  <2>3. EraPositive'
    BY <1>10 DEF sudo_era_update_callback, EraPositive, StepOwnsItsPacket, TransferOwned
  <2> QED BY <2>1, <2>2, <2>3 DEF StepOwnsItsPacket, TransferOwned, BondOwned,
                                  CollectOwned, RebondOwned
<1>11. ASSUME NEW p \in transfers,
             sudo_era_update_failed_callback(p)
      PROVE  StepOwnsItsPacket' /\ EraPositive'
  <2>1. transfers' = {} /\ BondTxs = {} /\ RebondTxs = {} /\ DOMAIN withdraw_txs = {}
    BY <1>11 DEF sudo_era_update_failed_callback, StepOwnsItsPacket, TransferOwned,
                 BondOwned, CollectOwned, RebondOwned
  <2>2. BondTxs' = {} /\ RebondTxs' = {} /\ DOMAIN withdraw_txs' = {}
    BY <1>11, <2>1 DEF sudo_era_update_failed_callback, BondTxs, RebondTxs
  <2>3. EraPositive'
    BY <1>11 DEF sudo_era_update_failed_callback, EraPositive, StepOwnsItsPacket,
                 TransferOwned
  <2> QED BY <2>1, <2>2, <2>3 DEF StepOwnsItsPacket, TransferOwned, BondOwned,
                                  CollectOwned, RebondOwned
<1>12. CASE sudo_era_bond_callback
  <2>1. status = "BondStarted" /\ BondTxs' = {} /\ RebondTxs' = {}
    BY <1>12, LastOfStep DEF sudo_era_bond_callback, Answered, StepOwnsItsPacket
  <2>2. transfers' = {} /\ DOMAIN withdraw_txs' = {}
    BY <1>12, <2>1 DEF sudo_era_bond_callback, StepOwnsItsPacket, TransferOwned,
                       BondOwned, CollectOwned, RebondOwned
  <2>3. EraPositive'
    BY <1>12, <2>1 DEF sudo_era_bond_callback, EraPositive
  <2> QED BY <2>1, <2>2, <2>3 DEF StepOwnsItsPacket, TransferOwned, BondOwned,
                                  CollectOwned, RebondOwned
<1>13. CASE sudo_era_bond_failed_callback
  <2>1. status = "BondStarted" /\ BondTxs' = {} /\ RebondTxs' = {}
    BY <1>13, LastOfStep DEF sudo_era_bond_failed_callback, Answered, StepOwnsItsPacket
  <2>2. transfers' = {} /\ DOMAIN withdraw_txs' = {}
    BY <1>13, <2>1 DEF sudo_era_bond_failed_callback, StepOwnsItsPacket,
                       TransferOwned, BondOwned, CollectOwned, RebondOwned
  <2>3. EraPositive'
    BY <1>13, <2>1 DEF sudo_era_bond_failed_callback, EraPositive
  <2> QED BY <2>1, <2>2, <2>3 DEF StepOwnsItsPacket, TransferOwned, BondOwned,
                                  CollectOwned, RebondOwned
<1>14. CASE sudo_era_rebond_callback
  <2>1. status = "WithdrawEnded" /\ BondTxs' = {} /\ RebondTxs' = {}
    BY <1>14, LastOfStep DEF sudo_era_rebond_callback, Answered, StepOwnsItsPacket
  <2>2. transfers' = {} /\ DOMAIN withdraw_txs' = {}
    BY <1>14, <2>1 DEF sudo_era_rebond_callback, StepOwnsItsPacket, TransferOwned,
                       BondOwned, CollectOwned, RebondOwned
  <2>3. EraPositive'
    BY <1>14, <2>1 DEF sudo_era_rebond_callback, EraPositive
  <2> QED BY <2>1, <2>2, <2>3 DEF StepOwnsItsPacket, TransferOwned, BondOwned,
                                  CollectOwned, RebondOwned
<1>15. CASE sudo_era_rebond_failed_callback
  <2>1. status = "WithdrawEnded" /\ BondTxs' = {} /\ RebondTxs' = {}
    BY <1>15, LastOfStep DEF sudo_era_rebond_failed_callback, Answered,
                             StepOwnsItsPacket
  <2>2. transfers' = {} /\ DOMAIN withdraw_txs' = {}
    BY <1>15, <2>1 DEF sudo_era_rebond_failed_callback, StepOwnsItsPacket,
                       TransferOwned, BondOwned, CollectOwned, RebondOwned
  <2>3. EraPositive'
    BY <1>15, <2>1 DEF sudo_era_rebond_failed_callback, EraPositive
  <2> QED BY <2>1, <2>2, <2>3 DEF StepOwnsItsPacket, TransferOwned, BondOwned,
                                  CollectOwned, RebondOwned
<1>16. CASE sudo_withdraw_callback
  <2>1. BondOwned' /\ RebondOwned'
    BY <1>16, FewerTxs DEF sudo_withdraw_callback, Answered, pool_vars,
                           StepOwnsItsPacket
  <2>2. TransferOwned' /\ CollectOwned' /\ EraPositive'
    BY <1>16 DEF sudo_withdraw_callback, pool_vars, EraPositive, StepOwnsItsPacket,
                 TransferOwned, CollectOwned
  <2> QED BY <2>1, <2>2 DEF StepOwnsItsPacket
<1>17. CASE sudo_withdraw_failed_callback
  <2>1. BondOwned' /\ RebondOwned'
    BY <1>17, FewerTxs DEF sudo_withdraw_failed_callback, Answered, pool_vars,
                           StepOwnsItsPacket
  <2>2. TransferOwned' /\ CollectOwned' /\ EraPositive'
    BY <1>17 DEF sudo_withdraw_failed_callback, pool_vars, EraPositive,
                 StepOwnsItsPacket, TransferOwned, CollectOwned
  <2> QED BY <2>1, <2>2 DEF StepOwnsItsPacket
<1>18. CASE sudo_era_collect_withdraw_callback
  <2>1. /\ 1 \in DOMAIN withdraw_txs
        /\ \A j \in DOMAIN withdraw_txs' : j + 1 \in DOMAIN withdraw_txs /\ j + 1 # 1
    BY <1>18, TailTxs DEF sudo_era_collect_withdraw_callback, ChannelsTypeOK
  <2>2. status = "WithdrawStarted" /\ DOMAIN withdraw_txs' = {}
    BY <2>1 DEF StepOwnsItsPacket, CollectOwned
  <2>3. transfers' = {} /\ BondTxs' = {} /\ RebondTxs' = {}
    BY <1>18, <2>2 DEF sudo_era_collect_withdraw_callback, StepOwnsItsPacket,
                       TransferOwned, BondOwned, CollectOwned, RebondOwned, BondTxs,
                       RebondTxs
  <2>4. EraPositive'
    BY <1>18, <2>2 DEF sudo_era_collect_withdraw_callback, EraPositive
  <2> QED BY <2>2, <2>3, <2>4 DEF StepOwnsItsPacket, TransferOwned, BondOwned,
                                  CollectOwned, RebondOwned
<1>19. CASE sudo_era_collect_withdraw_failed_callback
  <2>1. /\ 1 \in DOMAIN withdraw_txs
        /\ \A j \in DOMAIN withdraw_txs' : j + 1 \in DOMAIN withdraw_txs /\ j + 1 # 1
    BY <1>19, TailTxs DEF sudo_era_collect_withdraw_failed_callback, ChannelsTypeOK
  <2>2. status = "WithdrawStarted" /\ DOMAIN withdraw_txs' = {}
    BY <2>1 DEF StepOwnsItsPacket, CollectOwned
  <2>3. transfers' = {} /\ BondTxs' = {} /\ RebondTxs' = {}
    BY <1>19, <2>2 DEF sudo_era_collect_withdraw_failed_callback, StepOwnsItsPacket,
                       TransferOwned, BondOwned, CollectOwned, RebondOwned, BondTxs,
                       RebondTxs
  <2>4. EraPositive'
    BY <1>19, <2>2 DEF sudo_era_collect_withdraw_failed_callback, EraPositive
  <2> QED BY <2>2, <2>3, <2>4 DEF StepOwnsItsPacket, TransferOwned, BondOwned,
                                  CollectOwned, RebondOwned
<1>20. ASSUME NEW p \in transfers,
             host_receives_transfer(p)
      PROVE  StepOwnsItsPacket' /\ EraPositive'
  <2>1. transfers = {p} /\ transfers' = {[p EXCEPT !.ack = "ok"]}
    BY <1>20 DEF host_receives_transfer, StepOwnsItsPacket, TransferOwned
  <2>2. [p EXCEPT !.ack = "ok"].amount = p.amount
    BY <1>20 DEF ChannelsTypeOK, TransferPacket
  <2>3. TransferOwned'
    BY <1>20, <2>1, <2>2 DEF host_receives_transfer, pool_vars, StepOwnsItsPacket,
                             TransferOwned
  <2>4. BondOwned' /\ CollectOwned' /\ RebondOwned' /\ EraPositive'
    BY <1>20 DEF host_receives_transfer, pool_vars, EraPositive, StepOwnsItsPacket,
                 BondOwned, CollectOwned,
                RebondOwned, BondTxs, RebondTxs
  <2> QED BY <2>3, <2>4 DEF StepOwnsItsPacket
<1>21. ASSUME NEW p \in transfers,
             transfer_fails(p)
      PROVE  StepOwnsItsPacket' /\ EraPositive'
  <2>1. transfers = {p} /\ transfers' = {[p EXCEPT !.ack = "error"]}
    BY <1>21 DEF transfer_fails, StepOwnsItsPacket, TransferOwned
  <2>2. [p EXCEPT !.ack = "error"].amount = p.amount
    BY <1>21 DEF ChannelsTypeOK, TransferPacket
  <2>3. TransferOwned'
    BY <1>21, <2>1, <2>2 DEF transfer_fails, pool_vars, StepOwnsItsPacket, TransferOwned
  <2>4. BondOwned' /\ CollectOwned' /\ RebondOwned' /\ EraPositive'
    BY <1>21 DEF transfer_fails, pool_vars, EraPositive, StepOwnsItsPacket,
                 BondOwned, CollectOwned,
                RebondOwned, BondTxs, RebondTxs
  <2> QED BY <2>3, <2>4 DEF StepOwnsItsPacket
<1>22. ASSUME NEW i \in DOMAIN pool_txs, NEW reward \in Rewards,
             host_executes_era_tx(i, reward)
      PROVE  StepOwnsItsPacket' /\ EraPositive'
  <2>1. /\ DOMAIN pool_txs' = DOMAIN pool_txs
        /\ \A j \in DOMAIN pool_txs : pool_txs'[j].tx_type = pool_txs[j].tx_type
        /\ \A j \in DOMAIN pool_txs : pool_txs[j].tx_type = "EraRebond" =>
               pool_txs'[j].delegate = pool_txs[j].delegate
    BY <1>22, AnsweredTxs DEF host_executes_era_tx, ChannelsTypeOK
  <2>2. BondOwned' /\ RebondOwned'
    BY <1>22, <2>1, SameTxs DEF host_executes_era_tx, pool_vars, StepOwnsItsPacket
  <2>3. TransferOwned' /\ CollectOwned' /\ EraPositive'
    BY <1>22 DEF host_executes_era_tx, pool_vars, EraPositive, StepOwnsItsPacket,
                 TransferOwned, CollectOwned
  <2> QED BY <2>2, <2>3 DEF StepOwnsItsPacket
<1>23. ASSUME NEW i \in DOMAIN pool_txs,
             host_executes_user_withdraw(i)
      PROVE  StepOwnsItsPacket' /\ EraPositive'
  <2>1. /\ DOMAIN pool_txs' = DOMAIN pool_txs
        /\ \A j \in DOMAIN pool_txs : pool_txs'[j].tx_type = pool_txs[j].tx_type
        /\ \A j \in DOMAIN pool_txs : pool_txs[j].tx_type = "EraRebond" =>
               pool_txs'[j].delegate = pool_txs[j].delegate
    BY <1>23, AnsweredTxs DEF host_executes_user_withdraw, ChannelsTypeOK
  <2>2. BondOwned' /\ RebondOwned'
    BY <1>23, <2>1, SameTxs DEF host_executes_user_withdraw, pool_vars,
                                StepOwnsItsPacket
  <2>3. TransferOwned' /\ CollectOwned' /\ EraPositive'
    BY <1>23 DEF host_executes_user_withdraw, pool_vars, EraPositive,
                 StepOwnsItsPacket, TransferOwned, CollectOwned
  <2> QED BY <2>2, <2>3 DEF StepOwnsItsPacket
<1>24. ASSUME NEW i \in DOMAIN pool_txs,
             pool_tx_fails(i)
      PROVE  StepOwnsItsPacket' /\ EraPositive'
  <2>1. /\ DOMAIN pool_txs' = DOMAIN pool_txs
        /\ \A j \in DOMAIN pool_txs : pool_txs'[j].tx_type = pool_txs[j].tx_type
        /\ \A j \in DOMAIN pool_txs : pool_txs[j].tx_type = "EraRebond" =>
               pool_txs'[j].delegate = pool_txs[j].delegate
    BY <1>24, AnsweredTxs DEF pool_tx_fails, ChannelsTypeOK
  <2>2. BondOwned' /\ RebondOwned'
    BY <1>24, <2>1, SameTxs DEF pool_tx_fails, pool_vars, StepOwnsItsPacket
  <2>3. TransferOwned' /\ CollectOwned' /\ EraPositive'
    BY <1>24 DEF pool_tx_fails, pool_vars, EraPositive, StepOwnsItsPacket,
                 TransferOwned, CollectOwned
  <2> QED BY <2>2, <2>3 DEF StepOwnsItsPacket
<1>25. ASSUME NEW i \in DOMAIN withdraw_txs,
             host_executes_collect(i)
      PROVE  StepOwnsItsPacket' /\ EraPositive'
  <2>1. /\ DOMAIN withdraw_txs' = DOMAIN withdraw_txs
        /\ \A j \in DOMAIN withdraw_txs : j # i => withdraw_txs'[j] = withdraw_txs[j]
        /\ withdraw_txs'[i] = [withdraw_txs[i] EXCEPT !.ack = "ok"]
    BY <1>25 DEF host_executes_collect, ChannelsTypeOK
  <2>2. withdraw_txs'[i].amount = withdraw_txs[i].amount
    BY <1>25, <2>1 DEF ChannelsTypeOK, CollectTx
  <2>3. CollectOwned'
    BY <1>25, <2>1, <2>2 DEF host_executes_collect, pool_vars, StepOwnsItsPacket,
                             CollectOwned
  <2>4. TransferOwned' /\ BondOwned' /\ RebondOwned' /\ EraPositive'
    BY <1>25 DEF host_executes_collect, pool_vars, EraPositive, StepOwnsItsPacket,
                 TransferOwned, BondOwned,
                RebondOwned, BondTxs, RebondTxs
  <2> QED BY <2>3, <2>4 DEF StepOwnsItsPacket
<1>26. ASSUME NEW i \in DOMAIN withdraw_txs,
             collect_fails(i)
      PROVE  StepOwnsItsPacket' /\ EraPositive'
  <2>1. /\ DOMAIN withdraw_txs' = DOMAIN withdraw_txs
        /\ \A j \in DOMAIN withdraw_txs : j # i => withdraw_txs'[j] = withdraw_txs[j]
        /\ withdraw_txs'[i] = [withdraw_txs[i] EXCEPT !.ack = "error"]
    BY <1>26 DEF collect_fails, ChannelsTypeOK
  <2>2. withdraw_txs'[i].amount = withdraw_txs[i].amount
    BY <1>26, <2>1 DEF ChannelsTypeOK, CollectTx
  <2>3. CollectOwned'
    BY <1>26, <2>1, <2>2 DEF collect_fails, pool_vars, StepOwnsItsPacket, CollectOwned
  <2>4. TransferOwned' /\ BondOwned' /\ RebondOwned' /\ EraPositive'
    BY <1>26 DEF collect_fails, pool_vars, EraPositive, StepOwnsItsPacket,
                 TransferOwned, BondOwned,
                RebondOwned, BondTxs, RebondTxs
  <2> QED BY <2>3, <2>4 DEF StepOwnsItsPacket
<1>27. CASE host_completes_unbonding
  BY <1>27 DEF host_completes_unbonding, pool_vars, packet_vars, EraPositive,
               BondTxs, RebondTxs,
     StepOwnsItsPacket, TransferOwned, BondOwned, CollectOwned, RebondOwned
<1>28. CASE host_slashes
  BY <1>28 DEF host_slashes, pool_vars, packet_vars, EraPositive, BondTxs, RebondTxs,
     StepOwnsItsPacket, TransferOwned, BondOwned, CollectOwned, RebondOwned
<1>29. CASE relayer_submits_delegations
  BY <1>29 DEF relayer_submits_delegations, pool_vars, packet_vars, EraPositive,
               BondTxs, RebondTxs,
     StepOwnsItsPacket, TransferOwned, BondOwned, CollectOwned, RebondOwned
<1>30. CASE relayer_submits_balance
  BY <1>30 DEF relayer_submits_balance, pool_vars, packet_vars, EraPositive, BondTxs,
               RebondTxs,
     StepOwnsItsPacket, TransferOwned, BondOwned, CollectOwned, RebondOwned
<1>31. CASE era_elapses
  BY <1>31 DEF era_elapses, pool_vars, packet_vars, EraPositive, BondTxs, RebondTxs,
     StepOwnsItsPacket, TransferOwned, BondOwned, CollectOwned, RebondOwned
<1>32. CASE UNCHANGED vars
  BY <1>32 DEF vars, pool_vars, packet_vars, EraPositive, BondTxs, RebondTxs,
     StepOwnsItsPacket, TransferOwned, BondOwned, CollectOwned, RebondOwned
<1> QED
  BY <1>1, <1>2, <1>3, <1>4, <1>5, <1>6, <1>7, <1>8, <1>9, <1>10, <1>11, <1>12,
     <1>13, <1>14, <1>15, <1>16, <1>17, <1>18, <1>19, <1>20, <1>21, <1>22, <1>23,
     <1>24, <1>25, <1>26, <1>27, <1>28, <1>29, <1>30, <1>31, <1>32
     DEF SerialNext, OtherStep, UserStep, KeeperStep, HostStep, TransferCallback,
         PoolCallback, CollectCallback

\* Since the snapshot active has moved with bond and unbond, and by late for another
\* reason (in the era cycle alone there is none).
NetFlowBut(late) ==
    /\ SnapshotPending =>
           active - era_snapshot.active =
               (bond - era_snapshot.bond) - (unbond - era_snapshot.unbond) + late
    /\ status \in {"BondEnded", "WithdrawStarted", "WithdrawEnded", "RebondEnded"} =>
           active - era_snapshot.active = bond - unbond + late

\* The three facts that tie bond, unbond and active to the era's snapshot.
Flow(late) == SnapshotCovered /\ NetFlowBut(late) /\ ContractHoldsBond

\* A step keeps the pool's counters tied to the snapshot; a new snapshot forgets what
\* came before it.
LEMMA FlowStep ==
    ASSUME Types, StepOwnsItsPacket, NEW late \in Nat, Flow(late), [SerialNext]_vars
    PROVE  /\ execute_era_update => Flow(0)'
           /\ ~execute_era_update => Flow(late)'
<1>0. PoolTypeOK /\ ChannelsTypeOK /\ OtherTypeOK
  BY DEF Types
<1> USE <1>0 DEF Flow, SnapshotCovered, NetFlowBut, ContractHoldsBond, SnapshotPending
<1>1. ASSUME NEW amount \in StakeAmounts,
             execute_stake(amount)
      PROVE  Flow(late)'
  BY <1>1, ConfigAssumption DEF execute_stake, PoolTypeOK, EraSnapshot, OtherTypeOK
<1>2. ASSUME NEW user \in Users, NEW amount \in 1..total_lsd_token_amount,
             execute_unstake(user, amount)
      PROVE  Flow(late)'
  <2>1. TokenValue(BurnAmount(amount)) \in Nat
    BY <1>2, UnstakeTyped
  <2>2. /\ unbond' = unbond + TokenValue(BurnAmount(amount))
        /\ active' = active - TokenValue(BurnAmount(amount))
        /\ UNCHANGED <<status, bond, era_snapshot, local_balance>>
    BY <1>2 DEF execute_unstake
  <2>3. UNCHANGED SnapshotPending
    BY <2>2
  <2>4. SnapshotCovered'
    BY <2>1, <2>2, <2>3 DEF PoolTypeOK, EraSnapshot
  <2>5. NetFlowBut(late)'
    BY <2>1, <2>2, <2>3 DEF PoolTypeOK, EraSnapshot
  <2>6. ContractHoldsBond'
    BY <2>2, <2>3
  <2> QED BY <2>4, <2>5, <2>6
<1>3. ASSUME NEW user \in Users, NEW indices \in SUBSET unstakes_index_for_user[user],
             NEW fields \in ReceiverFields, execute_withdraw(user, indices, fields)
      PROVE  Flow(late)'
  BY <1>3 DEF execute_withdraw, pool_vars
<1>4. ASSUME execute_era_update PROVE Flow(0)'
  BY <1>4 DEF execute_era_update, PoolTypeOK, EraSnapshot, OtherTypeOK
<1>5. ASSUME execute_era_bond PROVE Flow(late)'
  BY <1>5 DEF execute_era_bond, pool_vars
<1>6. ASSUME execute_era_collect_withdraw PROVE Flow(late)'
  <2>1. /\ era_snapshot'.bond = era_snapshot.bond
        /\ era_snapshot'.unbond = era_snapshot.unbond
        /\ era_snapshot'.active = era_snapshot.active
    BY <1>6 DEF execute_era_collect_withdraw, PoolTypeOK, EraSnapshot
  <2> QED BY <1>6, <2>1 DEF execute_era_collect_withdraw
<1>7. ASSUME execute_era_rebond PROVE Flow(late)'
  BY <1>7 DEF execute_era_rebond, pool_vars
<1>8. ASSUME execute_era_active PROVE Flow(late)'
  <2>1. status = "RebondEnded" /\ status' = "ActiveEnded"
    BY <1>8 DEF execute_era_active
  <2> QED BY <1>8, <2>1 DEF execute_era_active
<1>9. ASSUME execute_config_pool_paused PROVE Flow(late)'
  BY <1>9 DEF execute_config_pool_paused, pool_vars
<1>10. ASSUME NEW p \in transfers,
             sudo_era_update_callback(p)
      PROVE  Flow(late)'
  <2>1. status = "EraUpdateStarted" /\ p.amount = era_snapshot.bond
    BY <1>10 DEF StepOwnsItsPacket, TransferOwned
  <2> QED BY <1>10, <2>1 DEF sudo_era_update_callback, PoolTypeOK, EraSnapshot,
                             OtherTypeOK
<1>11. ASSUME NEW p \in transfers,
             sudo_era_update_failed_callback(p)
      PROVE  Flow(late)'
  <2>1. status = "EraUpdateStarted" /\ p.amount = era_snapshot.bond
    BY <1>11 DEF StepOwnsItsPacket, TransferOwned
  <2> QED BY <1>11, <2>1 DEF sudo_era_update_failed_callback, PoolTypeOK,
                             EraSnapshot, OtherTypeOK
<1>12. ASSUME sudo_era_bond_callback PROVE Flow(late)'
  <2>1. status = "BondStarted"
    BY <1>12, LastOfStep DEF sudo_era_bond_callback, Answered, StepOwnsItsPacket
  <2> QED BY <1>12, <2>1 DEF sudo_era_bond_callback, PoolTypeOK, EraSnapshot,
                             OtherTypeOK
<1>13. ASSUME sudo_era_bond_failed_callback PROVE Flow(late)'
  <2>1. status = "BondStarted"
    BY <1>13, LastOfStep DEF sudo_era_bond_failed_callback, Answered, StepOwnsItsPacket
  <2> QED BY <1>13, <2>1 DEF sudo_era_bond_failed_callback, PoolTypeOK, EraSnapshot,
                             OtherTypeOK
<1>14. ASSUME sudo_era_rebond_callback PROVE Flow(late)'
  <2>1. status = "WithdrawEnded"
    BY <1>14, LastOfStep DEF sudo_era_rebond_callback, Answered, StepOwnsItsPacket
  <2> QED BY <1>14, <2>1 DEF sudo_era_rebond_callback, PoolTypeOK, EraSnapshot,
                             OtherTypeOK
<1>15. ASSUME sudo_era_rebond_failed_callback PROVE Flow(late)'
  <2>1. status = "WithdrawEnded"
    BY <1>15, LastOfStep DEF sudo_era_rebond_failed_callback, Answered,
                             StepOwnsItsPacket
  <2> QED BY <1>15, <2>1 DEF sudo_era_rebond_failed_callback, PoolTypeOK,
                             EraSnapshot, OtherTypeOK
<1>16. ASSUME sudo_withdraw_callback PROVE Flow(late)'
  BY <1>16 DEF sudo_withdraw_callback, pool_vars
<1>17. ASSUME sudo_withdraw_failed_callback PROVE Flow(late)'
  BY <1>17 DEF sudo_withdraw_failed_callback, pool_vars
<1>18. ASSUME sudo_era_collect_withdraw_callback PROVE Flow(late)'
  <2>1. 1 \in DOMAIN withdraw_txs
    BY <1>18, TailTxs DEF sudo_era_collect_withdraw_callback, ChannelsTypeOK
  <2>2. status = "WithdrawStarted"
    BY <2>1 DEF StepOwnsItsPacket, CollectOwned
  <2> QED BY <1>18, <2>2 DEF sudo_era_collect_withdraw_callback
<1>19. ASSUME sudo_era_collect_withdraw_failed_callback PROVE Flow(late)'
  <2>1. 1 \in DOMAIN withdraw_txs
    BY <1>19, TailTxs DEF sudo_era_collect_withdraw_failed_callback, ChannelsTypeOK
  <2>2. status = "WithdrawStarted"
    BY <2>1 DEF StepOwnsItsPacket, CollectOwned
  <2> QED BY <1>19, <2>2 DEF sudo_era_collect_withdraw_failed_callback
<1>20. ASSUME NEW p \in transfers,
             host_receives_transfer(p)
      PROVE  Flow(late)'
  BY <1>20 DEF host_receives_transfer, pool_vars
<1>21. ASSUME NEW p \in transfers,
             transfer_fails(p)
      PROVE  Flow(late)'
  BY <1>21 DEF transfer_fails, pool_vars
<1>22. ASSUME NEW i \in DOMAIN pool_txs, NEW reward \in Rewards,
             host_executes_era_tx(i, reward)
      PROVE  Flow(late)'
  BY <1>22 DEF host_executes_era_tx, pool_vars
<1>23. ASSUME NEW i \in DOMAIN pool_txs,
             host_executes_user_withdraw(i)
      PROVE  Flow(late)'
  BY <1>23 DEF host_executes_user_withdraw, pool_vars
<1>24. ASSUME NEW i \in DOMAIN pool_txs,
             pool_tx_fails(i)
      PROVE  Flow(late)'
  BY <1>24 DEF pool_tx_fails, pool_vars
<1>25. ASSUME NEW i \in DOMAIN withdraw_txs,
             host_executes_collect(i)
      PROVE  Flow(late)'
  BY <1>25 DEF host_executes_collect, pool_vars
<1>26. ASSUME NEW i \in DOMAIN withdraw_txs,
             collect_fails(i)
      PROVE  Flow(late)'
  BY <1>26 DEF collect_fails, pool_vars
<1>27. ASSUME host_completes_unbonding PROVE Flow(late)'
  BY <1>27 DEF host_completes_unbonding, pool_vars
<1>28. ASSUME host_slashes PROVE Flow(late)'
  BY <1>28 DEF host_slashes, pool_vars
<1>29. ASSUME relayer_submits_delegations PROVE Flow(late)'
  BY <1>29 DEF relayer_submits_delegations, pool_vars
<1>30. ASSUME relayer_submits_balance PROVE Flow(late)'
  BY <1>30 DEF relayer_submits_balance, pool_vars
<1>31. ASSUME era_elapses PROVE Flow(late)'
  BY <1>31 DEF era_elapses, pool_vars
<1>32. ASSUME UNCHANGED vars PROVE Flow(late)'
  BY <1>32 DEF vars, pool_vars
<1> QED
  BY <1>1, <1>2, <1>3, <1>4, <1>5, <1>6, <1>7, <1>8, <1>9, <1>10, <1>11, <1>12,
     <1>13, <1>14, <1>15, <1>16, <1>17, <1>18, <1>19, <1>20, <1>21, <1>22, <1>23,
     <1>24, <1>25, <1>26, <1>27, <1>28, <1>29, <1>30, <1>31, <1>32
     DEF SerialNext, OtherStep, UserStep, KeeperStep, HostStep, TransferCallback,
         PoolCallback, CollectCallback

\* Minting amount * CAL_BASE / rate for a stake of amount keeps the supply backed.
LEMMA StakeBacked ==
    ASSUME NEW amount \in StakeAmounts, Types, SupplyBacked, execute_stake(amount)
    PROVE  SupplyBacked'
<1> DEFINE minted == (amount * CAL_BASE) \div rate
<1>1. /\ amount \in Nat /\ CAL_BASE \in Nat /\ rate \in Nat \ {0} /\ active \in Nat
      /\ total_lsd_token_amount \in Nat
  BY ConfigAssumption, ScaleAssumption DEF Types, PoolTypeOK, execute_stake
<1>2. minted \in Nat /\ minted * rate <= amount * CAL_BASE
  BY <1>1, DivNat, MulNat, DivLower
<1>3. /\ rate' = rate /\ active' = active + amount
      /\ total_lsd_token_amount' = total_lsd_token_amount + minted
  BY DEF execute_stake
<1> HIDE DEF minted
<1>4. /\ (total_lsd_token_amount + minted) * rate
             = total_lsd_token_amount * rate + minted * rate
      /\ (active + amount) * CAL_BASE = active * CAL_BASE + amount * CAL_BASE
  BY <1>1, <1>2, MulDistr
<1>5. /\ total_lsd_token_amount * rate \in Nat /\ minted * rate \in Nat
      /\ active * CAL_BASE \in Nat /\ amount * CAL_BASE \in Nat
  BY <1>1, <1>2, MulNat
<1> QED BY <1>2, <1>3, <1>4, <1>5 DEF SupplyBacked

\* Burning b for b * rate / CAL_BASE keeps the supply backed.
LEMMA UnstakeBacked ==
    ASSUME NEW user, NEW amount \in 1..total_lsd_token_amount, Types, SupplyBacked,
           execute_unstake(user, amount)
    PROVE  SupplyBacked'
<1> DEFINE b == BurnAmount(amount)
           v == TokenValue(b)
<1>1. /\ CAL_BASE \in Nat \ {0} /\ rate \in Nat /\ active \in Nat
      /\ total_lsd_token_amount \in Nat
  BY ScaleAssumption DEF Types, PoolTypeOK
<1>2. b \in Nat /\ v \in Nat
  BY UnstakeTyped DEF Types
<1>3. v * CAL_BASE <= b * rate
  BY <1>1, <1>2, MulNat, DivLower DEF TokenValue
<1>4. /\ rate' = rate /\ active' = active - v
      /\ total_lsd_token_amount' = total_lsd_token_amount - b
  BY DEF execute_unstake
<1> HIDE DEF b, v
<1>5. /\ (total_lsd_token_amount - b) * rate = total_lsd_token_amount * rate - b * rate
      /\ (active - v) * CAL_BASE = active * CAL_BASE - v * CAL_BASE
  BY <1>1, <1>2, MulDistr
<1>6. /\ total_lsd_token_amount * rate \in Nat /\ b * rate \in Nat
      /\ active * CAL_BASE \in Nat /\ v * CAL_BASE \in Nat
  BY <1>1, <1>2, MulNat
<1> QED BY <1>3, <1>4, <1>5, <1>6 DEF SupplyBacked

\* The first-stake correction never applies when there is a reward: the fee is at
\* most the reward, so the new rate is not below CAL_BASE.
LEMMA CorrectedWithoutReward ==
    ASSUME Types, SupplyBacked, execute_era_active,
           FirstStakeCorrection(ActiveFor(delegations_icq.amount),
               RateOf(ActiveFor(delegations_icq.amount),
                      total_lsd_token_amount + FeeFor(delegations_icq.amount)))
    PROVE  delegations_icq.amount <= era_snapshot.active
<1> DEFINE T == delegations_icq.amount
           F == FeeFor(T)
           S == total_lsd_token_amount + F
           A == ActiveFor(T)
           R == RateOf(A, S)
<1>1. /\ CAL_BASE \in Nat \ {0} /\ rate \in Nat /\ active \in Nat
      /\ total_lsd_token_amount \in Nat /\ T \in Nat /\ era_snapshot.active \in Nat
      /\ platform_fee_commission \in Nat
  BY ScaleAssumption, ConfigAssumption
     DEF Types, PoolTypeOK, OtherTypeOK, IcqResult, EraSnapshot
<1>2. F \in Nat /\ A \in Nat /\ S \in Nat
  <2>1. F \in Nat
    BY <1>1, DivNat, MulNat DEF FeeFor, execute_era_active
  <2> QED BY <1>1, <2>1 DEF ActiveFor
<1>3. rate = CAL_BASE /\ R < CAL_BASE
  BY DEF FirstStakeCorrection
<1>4. total_lsd_token_amount <= active
  BY <1>1, <1>3 DEF SupplyBacked
<1>5. SUFFICES ASSUME T > era_snapshot.active PROVE FALSE
  BY <1>1
<1>6. A = active + (T - era_snapshot.active) /\ T - era_snapshot.active \in Nat
  BY <1>1, <1>5 DEF ActiveFor
<1>7. F <= T - era_snapshot.active
  <2>1. (T - era_snapshot.active) * platform_fee_commission
          <= (T - era_snapshot.active) * CAL_BASE
    BY <1>1, <1>6, CommissionAssumption, MulMono
  <2>2. (T - era_snapshot.active) * platform_fee_commission \in Nat
    BY <1>1, <1>6, MulNat
  <2>3. F = ((T - era_snapshot.active) * platform_fee_commission) \div CAL_BASE
    BY <1>3, <1>5 DEF FeeFor
  <2> QED BY <1>1, <1>6, <2>1, <2>2, <2>3, DivBound
<1>8. S <= A
  BY <1>1, <1>2, <1>4, <1>6, <1>7
<1>9. CASE S = 0
  BY <1>1, <1>3, <1>9 DEF RateOf
<1>10. CASE S > 0
  <2>1. R = (A * CAL_BASE) \div S
    BY <1>10 DEF RateOf
  <2>2. CAL_BASE * S <= A * CAL_BASE /\ A * CAL_BASE \in Nat
    BY <1>1, <1>2, <1>2, <1>8, MulMono, MulNat
  <2>3. CAL_BASE <= R
    BY <1>1, <1>2, <1>10, <2>1, <2>2, DivBound
  <2>4. R \in Nat
    BY <1>2, <1>10, <2>1, <2>2, DivNat
  <2> QED BY <1>1, <1>3, <2>3, <2>4
<1> QED BY <1>2, <1>9, <1>10

\* The new rate, rounded down, and the first-stake correction keep it
\* backed.
LEMMA ActiveBacked ==
    ASSUME Types, SupplyBacked, execute_era_active
    PROVE  SupplyBacked'
<1> DEFINE T == delegations_icq.amount
           F == FeeFor(T)
           S == total_lsd_token_amount + F
           A == ActiveFor(T)
           R == RateOf(A, S)
<1>1. /\ CAL_BASE \in Nat \ {0} /\ rate \in Nat /\ active \in Nat
      /\ total_lsd_token_amount \in Nat /\ T \in Nat /\ era_snapshot.active \in Nat
      /\ platform_fee_commission \in Nat
  BY ScaleAssumption, ConfigAssumption
     DEF Types, PoolTypeOK, OtherTypeOK, IcqResult, EraSnapshot
<1>2. F \in Nat
  BY <1>1, DivNat, MulNat DEF FeeFor, execute_era_active
<1>3. A \in Nat
  BY <1>1 DEF ActiveFor
<1>4. S \in Nat
  BY <1>1, <1>2
<1>5. total_lsd_token_amount' = S
  BY DEF execute_era_active
<1>6. CASE ~FirstStakeCorrection(A, R)
  <2>1. active' = A /\ rate' = R
    BY <1>6 DEF execute_era_active
  <2>2. S * R <= A * CAL_BASE
    <3>1. CASE S = 0
      BY <1>1, <1>3, <3>1, MulNat DEF RateOf
    <3>2. CASE S > 0
      <4>1. R = (A * CAL_BASE) \div S
        BY <3>2 DEF RateOf
      <4>2. A * CAL_BASE \in Nat
        BY <1>1, <1>3, MulNat
      <4>3. R \in Nat /\ R * S <= A * CAL_BASE
        BY <1>4, <3>2, <4>1, <4>2, DivLower, DivNat
      <4>4. R * S = S * R
        BY <1>4, <4>3
      <4> QED BY <4>3, <4>4
    <3> QED BY <1>4, <3>1, <3>2
  <2> QED BY <1>5, <2>1, <2>2 DEF SupplyBacked
<1>7. CASE FirstStakeCorrection(A, R)
  <2>1. rate = CAL_BASE /\ R < CAL_BASE /\ active' = active /\ rate' = CAL_BASE
    BY <1>7 DEF FirstStakeCorrection, execute_era_active
  <2>3. T <= era_snapshot.active
    BY <1>7, CorrectedWithoutReward
  <2>4. F = 0
    BY <1>1, <2>3 DEF FeeFor
  <2>5. S = total_lsd_token_amount
    BY <1>1, <2>4
  <2> QED BY <1>5, <2>1, <2>5 DEF SupplyBacked
<1> QED BY <1>6, <1>7

\* A step keeps the supply backed.
LEMMA BackedStep ==
    ASSUME Types, SupplyBacked, [SerialNext]_vars
    PROVE  SupplyBacked'
<1>1. ASSUME NEW amount \in StakeAmounts,
             execute_stake(amount)
      PROVE  SupplyBacked'
  BY <1>1, StakeBacked
<1>2. ASSUME NEW user \in Users, NEW amount \in 1..total_lsd_token_amount,
             execute_unstake(user, amount)
      PROVE  SupplyBacked'
  BY <1>2, UnstakeBacked
<1>3. ASSUME NEW user \in Users, NEW indices \in SUBSET unstakes_index_for_user[user],
             NEW fields \in ReceiverFields, execute_withdraw(user, indices, fields)
      PROVE  SupplyBacked'
  BY <1>3 DEF execute_withdraw, pool_vars, SupplyBacked
<1>4. CASE execute_era_update
  BY <1>4 DEF execute_era_update, pool_vars, SupplyBacked
<1>5. CASE execute_era_bond
  BY <1>5 DEF execute_era_bond, pool_vars, SupplyBacked
<1>6. CASE execute_era_collect_withdraw
  BY <1>6 DEF execute_era_collect_withdraw, pool_vars, SupplyBacked
<1>7. CASE execute_era_rebond
  BY <1>7 DEF execute_era_rebond, pool_vars, SupplyBacked
<1>8. CASE execute_era_active
  BY <1>8, ActiveBacked
<1>9. CASE execute_config_pool_paused
  BY <1>9 DEF execute_config_pool_paused, pool_vars, SupplyBacked
<1>10. ASSUME NEW p \in transfers,
             sudo_era_update_callback(p)
      PROVE  SupplyBacked'
  BY <1>10 DEF sudo_era_update_callback, pool_vars, SupplyBacked
<1>11. ASSUME NEW p \in transfers,
             sudo_era_update_failed_callback(p)
      PROVE  SupplyBacked'
  BY <1>11 DEF sudo_era_update_failed_callback, pool_vars, SupplyBacked
<1>12. CASE sudo_era_bond_callback
  BY <1>12 DEF sudo_era_bond_callback, pool_vars, SupplyBacked
<1>13. CASE sudo_era_bond_failed_callback
  BY <1>13 DEF sudo_era_bond_failed_callback, pool_vars, SupplyBacked
<1>14. CASE sudo_era_rebond_callback
  BY <1>14 DEF sudo_era_rebond_callback, pool_vars, SupplyBacked
<1>15. CASE sudo_era_rebond_failed_callback
  BY <1>15 DEF sudo_era_rebond_failed_callback, pool_vars, SupplyBacked
<1>16. CASE sudo_withdraw_callback
  BY <1>16 DEF sudo_withdraw_callback, pool_vars, SupplyBacked
<1>17. CASE sudo_withdraw_failed_callback
  BY <1>17 DEF sudo_withdraw_failed_callback, pool_vars, SupplyBacked
<1>18. CASE sudo_era_collect_withdraw_callback
  BY <1>18 DEF sudo_era_collect_withdraw_callback, pool_vars, SupplyBacked
<1>19. CASE sudo_era_collect_withdraw_failed_callback
  BY <1>19 DEF sudo_era_collect_withdraw_failed_callback, pool_vars, SupplyBacked
<1>20. ASSUME NEW p \in transfers,
             host_receives_transfer(p)
      PROVE  SupplyBacked'
  BY <1>20 DEF host_receives_transfer, pool_vars, SupplyBacked
<1>21. ASSUME NEW p \in transfers,
             transfer_fails(p)
      PROVE  SupplyBacked'
  BY <1>21 DEF transfer_fails, pool_vars, SupplyBacked
<1>22. ASSUME NEW i \in DOMAIN pool_txs, NEW reward \in Rewards,
             host_executes_era_tx(i, reward)
      PROVE  SupplyBacked'
  BY <1>22 DEF host_executes_era_tx, pool_vars, SupplyBacked
<1>23. ASSUME NEW i \in DOMAIN pool_txs,
             host_executes_user_withdraw(i)
      PROVE  SupplyBacked'
  BY <1>23 DEF host_executes_user_withdraw, pool_vars, SupplyBacked
<1>24. ASSUME NEW i \in DOMAIN pool_txs,
             pool_tx_fails(i)
      PROVE  SupplyBacked'
  BY <1>24 DEF pool_tx_fails, pool_vars, SupplyBacked
<1>25. ASSUME NEW i \in DOMAIN withdraw_txs,
             host_executes_collect(i)
      PROVE  SupplyBacked'
  BY <1>25 DEF host_executes_collect, pool_vars, SupplyBacked
<1>26. ASSUME NEW i \in DOMAIN withdraw_txs,
             collect_fails(i)
      PROVE  SupplyBacked'
  BY <1>26 DEF collect_fails, pool_vars, SupplyBacked
<1>27. CASE host_completes_unbonding
  BY <1>27 DEF host_completes_unbonding, pool_vars, SupplyBacked
<1>28. CASE host_slashes
  BY <1>28 DEF host_slashes, pool_vars, SupplyBacked
<1>29. CASE relayer_submits_delegations
  BY <1>29 DEF relayer_submits_delegations, pool_vars, SupplyBacked
<1>30. CASE relayer_submits_balance
  BY <1>30 DEF relayer_submits_balance, pool_vars, SupplyBacked
<1>31. CASE era_elapses
  BY <1>31 DEF era_elapses, pool_vars, SupplyBacked
<1>32. CASE UNCHANGED vars
  BY <1>32 DEF vars, pool_vars, SupplyBacked
<1> QED
  BY <1>1, <1>2, <1>3, <1>4, <1>5, <1>6, <1>7, <1>8, <1>9, <1>10, <1>11, <1>12,
     <1>13, <1>14, <1>15, <1>16, <1>17, <1>18, <1>19, <1>20, <1>21, <1>22, <1>23,
     <1>24, <1>25, <1>26, <1>27, <1>28, <1>29, <1>30, <1>31, <1>32
     DEF SerialNext, OtherStep, UserStep, KeeperStep, HostStep, TransferCallback,
         PoolCallback, CollectCallback

-----------------------------------------------------------------------------
\* What a step of the era cycle does to the pool account's channel: a redemption of
\* shares is neither sent nor settled by one, nor made one that is executed.
LEMMA ChannelSteps ==
    ASSUME ChannelsTypeOK, [SerialNext]_vars
    PROVE  \/ pool_txs' = pool_txs
           \/ \E tx : /\ tx.tx_type # "RedeemTokenForShare"
                      /\ pool_txs' = Append(pool_txs, tx)
           \/ /\ pool_txs # <<>> /\ pool_txs' = Tail(pool_txs)
              /\ Head(pool_txs).tx_type # "RedeemTokenForShare"
           \/ \E i \in DOMAIN pool_txs, a \in Ack :
                  /\ \/ pool_txs[i].tx_type # "RedeemTokenForShare"
                     \/ pool_txs[i].ack # "ok" /\ a # "ok"
                  /\ pool_txs' = [pool_txs EXCEPT ![i].ack = a]
<1> DEFINE Same == pool_txs' = pool_txs
           Sent == \E tx : /\ tx.tx_type # "RedeemTokenForShare"
                           /\ pool_txs' = Append(pool_txs, tx)
           Taken == /\ pool_txs # <<>> /\ pool_txs' = Tail(pool_txs)
                    /\ Head(pool_txs).tx_type # "RedeemTokenForShare"
           Acked == \E i \in DOMAIN pool_txs, a \in Ack :
                       /\ \/ pool_txs[i].tx_type # "RedeemTokenForShare"
                          \/ pool_txs[i].ack # "ok" /\ a # "ok"
                       /\ pool_txs' = [pool_txs EXCEPT ![i].ack = a]
<1> SUFFICES Same \/ Sent \/ Taken \/ Acked
  OBVIOUS
<1>1. ASSUME NEW t \in {"EraBond", "EraRebond"}, NEW d, NEW u,
             pool_txs' = Append(pool_txs, EraTxOf(t, d, u))
      PROVE  Sent
  <2>1. EraTxOf(t, d, u).tx_type # "RedeemTokenForShare"
    BY DEF EraTxOf
  <2> QED BY <1>1, <2>1
<1>2. ASSUME execute_era_bond PROVE Sent
  BY <1>1, <1>2 DEF execute_era_bond, BondByUndelegating, BondByDelegating
<1>3. ASSUME execute_era_rebond PROVE Same \/ Sent
  BY <1>1, <1>3 DEF execute_era_rebond
<1>4. ASSUME UserStep PROVE Same \/ Sent
  <2>1. ASSUME NEW user \in Users, NEW indices \in SUBSET unstakes_index_for_user[user],
               NEW fields \in ReceiverFields, execute_withdraw(user, indices, fields)
        PROVE  Sent
    <3> DEFINE tx == [tx_type |-> "UserWithdraw", user |-> user, unstakes |-> indices,
                      fields |-> fields, amount |-> SumFunctionOnSet(Amounts, indices),
                      ack |-> "none"]
    <3>1. tx.tx_type # "RedeemTokenForShare" /\ pool_txs' = Append(pool_txs, tx)
      BY <2>1 DEF execute_withdraw
    <3> QED BY <3>1
  <2> HIDE DEF Sent
  <2> QED BY <1>4, <2>1 DEF UserStep, execute_stake, execute_unstake, packet_vars
<1>5. ASSUME KeeperStep PROVE Same \/ Sent
  <2> HIDE DEF Sent
  <2> QED BY <1>2, <1>5 DEF KeeperStep, execute_era_update,
                            execute_era_collect_withdraw, execute_era_active,
                            execute_config_pool_paused, packet_vars
<1>6. ASSUME TransferCallback PROVE Same
  BY <1>6 DEF TransferCallback, sudo_era_update_callback,
              sudo_era_update_failed_callback
<1>7. ASSUME PoolCallback PROVE Taken
  BY <1>7 DEF PoolCallback, Answered, sudo_era_bond_callback,
              sudo_era_bond_failed_callback, sudo_era_rebond_callback,
              sudo_era_rebond_failed_callback, sudo_withdraw_callback,
              sudo_withdraw_failed_callback
<1>8. ASSUME CollectCallback PROVE Same
  BY <1>8 DEF CollectCallback, sudo_era_collect_withdraw_callback,
              sudo_era_collect_withdraw_failed_callback
<1>9. ASSUME HostStep PROVE Same \/ Acked
  <2>1. ASSUME NEW i \in DOMAIN pool_txs, NEW reward \in Rewards,
               host_executes_era_tx(i, reward)
        PROVE  Acked
    BY <2>1 DEF host_executes_era_tx, Ack
  <2>2. ASSUME NEW i \in DOMAIN pool_txs, host_executes_user_withdraw(i) PROVE Acked
    BY <2>2 DEF host_executes_user_withdraw, Ack
  <2>3. ASSUME NEW i \in DOMAIN pool_txs, pool_tx_fails(i) PROVE Acked
    BY <2>3 DEF pool_tx_fails, NextToHandle, Ack
  <2> HIDE DEF Acked
  <2> QED BY <1>9, <2>1, <2>2, <2>3
          DEF HostStep, host_receives_transfer, transfer_fails, host_executes_collect,
              collect_fails, host_completes_unbonding, host_slashes,
              relayer_submits_delegations, relayer_submits_balance, era_elapses,
              packet_vars
<1>10. ASSUME UNCHANGED vars PROVE Same
  BY <1>10 DEF vars, packet_vars
<1> HIDE DEF Same, Sent, Taken, Acked
<1> QED BY <1>3, <1>4, <1>5, <1>6, <1>7, <1>8, <1>9, <1>10 DEF SerialNext, OtherStep

\* No redemption of shares is in flight.
NoRedeem == \A i \in DOMAIN pool_txs : pool_txs[i].tx_type # "RedeemTokenForShare"

\* A step of the era cycle sends none.
LEMMA NoRedeemStep ==
    ASSUME ChannelsTypeOK, NoRedeem, [SerialNext]_vars
    PROVE  NoRedeem'
<1>1. CASE pool_txs' = pool_txs
  BY <1>1 DEF NoRedeem
<1>2. ASSUME NEW tx, tx.tx_type # "RedeemTokenForShare",
             pool_txs' = Append(pool_txs, tx)
      PROVE  NoRedeem'
  BY <1>2, AppendTxs DEF NoRedeem, ChannelsTypeOK
<1>3. ASSUME pool_txs # <<>>, pool_txs' = Tail(pool_txs) PROVE NoRedeem'
  BY <1>3, TailTxs DEF NoRedeem, ChannelsTypeOK
<1>4. ASSUME NEW i \in DOMAIN pool_txs, NEW a \in Ack,
             pool_txs' = [pool_txs EXCEPT ![i].ack = a]
      PROVE  NoRedeem'
  BY <1>4, AnsweredTxs DEF NoRedeem, ChannelsTypeOK
<1> QED BY <1>1, <1>2, <1>3, <1>4, ChannelSteps

\* What an inductive invariant needs with and without LSM stake: the types, the
\* packets' owners and the counters are tied together, because a callback's effect
\* on the counters is only right in the status whose packet it answers.
Core == Types /\ IndicesIssued /\ EraPositive /\ StepOwnsItsPacket /\ SupplyBacked

\* In the era cycle alone no redemption is ever sent, and nothing but bond and unbond
\* moves active.
IInv == Core /\ NoRedeem /\ Flow(0)

\* The initial pool satisfies the inductive invariant.
LEMMA InitIInv == Init => IInv
<1> SUFFICES ASSUME Init PROVE IInv
  OBVIOUS
<1>1. PoolTypeOK /\ HostTypeOK
  BY ScaleAssumption
     DEF Init, PoolTypeOK, HostTypeOK, EraStatus, EraSnapshot, EmptySnapshot
<1>2. UnstakeTypeOK /\ IndicesIssued
  BY DEF Init, UnstakeTypeOK, IndicesIssued
<1>3. ChannelsTypeOK /\ OtherTypeOK
  BY DEF Init, ChannelsTypeOK, OtherTypeOK, IcqResult, NoResult
<1>4. EraPositive /\ StepOwnsItsPacket
  BY DEF Init, EraPositive, StepOwnsItsPacket, TransferOwned, BondOwned, CollectOwned,
         RebondOwned, BondTxs, RebondTxs
<1>5. Flow(0)
  BY DEF Init, Flow, SnapshotCovered, NetFlowBut, ContractHoldsBond, SnapshotPending
<1>6. SupplyBacked /\ NoRedeem
  BY ScaleAssumption DEF Init, SupplyBacked, NoRedeem
<1> QED BY <1>1, <1>2, <1>3, <1>4, <1>5, <1>6 DEF IInv, Core, Types

\* A step keeps what is the same with and without LSM stake.
LEMMA CoreStep ==
    ASSUME Core, [SerialNext]_vars
    PROVE  Core'
BY TypeStep, IssuedStep, PacketStep, BackedStep DEF Core

\* Without redemptions the channel carries what EraCycle says.
LEMMA TypesAlone ==
    ASSUME Types, NoRedeem
    PROVE  TypeOK
<1>1. \A i \in 1..Len(pool_txs) : pool_txs[i] \in EraTx \cup UserWithdrawTx
  <2>1. ASSUME NEW i \in 1..Len(pool_txs) PROVE pool_txs[i] \in EraTx \cup UserWithdrawTx
    <3>1. i \in DOMAIN pool_txs /\ pool_txs[i] \in PoolTx
      BY SeqFunction DEF Types, ChannelsTypeOK
    <3>2. pool_txs[i] \notin RedeemTx
      BY <3>1 DEF NoRedeem, RedeemTx
    <3> QED BY <3>1, <3>2 DEF PoolTx
  <2> QED BY <2>1
<1>2. pool_txs \in Seq(PoolTx)
  BY DEF Types, ChannelsTypeOK
<1>3. pool_txs \in Seq(EraTx \cup UserWithdrawTx)
  BY ONLY <1>1, <1>2, SeqRetyped
<1> QED BY <1>3 DEF Types, TypeOK, ChannelsTypeOK, PacketTypeOK

\* A step keeps the inductive invariant.
LEMMA InvariantStep ==
    ASSUME IInv, [SerialNext]_vars
    PROVE  IInv'
<1>1. Core'
  BY CoreStep DEF IInv
<1>2. Flow(0)'
  BY FlowStep DEF IInv, Core
<1>3. NoRedeem'
  BY NoRedeemStep DEF IInv, Core, Types
<1> QED BY <1>1, <1>2, <1>3 DEF IInv

\* The inductive invariant holds in every state of a serial keeper.
THEOREM InvariantTheorem == SerialSpec => []IInv
<1>1. Init => IInv
  BY InitIInv
<1>2. IInv /\ [SerialNext]_vars => IInv'
  BY InvariantStep
<1> QED BY <1>1, <1>2, PTL DEF SerialSpec

\* No amount the contract or the host keeps ever leaves its type: none of the
\* unchecked Uint128 subtractions of the handlers is reached with a larger
\* right-hand side.
THEOREM TypeTheorem == SerialSpec => []TypeOK
<1>1. IInv => TypeOK
  BY TypesAlone DEF IInv, Core
<1> QED BY <1>1, InvariantTheorem, PTL

\* Each step's packet is in flight only in that step's status.
THEOREM PacketTheorem == SerialSpec => []StepOwnsItsPacket
<1>1. IInv => StepOwnsItsPacket
  BY DEF IInv, Core
<1> QED BY <1>1, InvariantTheorem, PTL

\* The bond callback never aborts on its subtractions, however users stake and
\* unstake while the era is on its way.
THEOREM SnapshotTheorem == SerialSpec => []SnapshotCovered
<1>1. IInv => SnapshotCovered
  BY DEF IInv, Flow
<1> QED BY <1>1, InvariantTheorem, PTL

\* Across an era active moves only with bond and unbond.
THEOREM NetFlowTheorem == SerialSpec => []NetFlow
<1>1. IInv => NetFlow
  BY DEF IInv, Core, Types, PoolTypeOK, EraSnapshot, Flow, NetFlowBut, NetFlow
<1> QED BY <1>1, InvariantTheorem, PTL

\* The contract always holds what the next EraUpdate transfers.
THEOREM BondHeldTheorem == SerialSpec => []ContractHoldsBond
<1>1. IInv => ContractHoldsBond
  BY DEF IInv, Flow
<1> QED BY <1>1, InvariantTheorem, PTL

\* The supply is backed through every rounding, for every scale, rate and
\* commission of at most the whole reward.
THEOREM SupplyTheorem == SerialSpec => []SupplyBacked
<1>1. IInv => SupplyBacked
  BY DEF IInv, Core
<1> QED BY <1>1, InvariantTheorem, PTL

\* EraActive books the delegations it read, the net stake since the snapshot and
\* what else came since then, up to the first-stake correction.
BooksWith(late) ==
    (status = "RebondEnded" /\ status' = "ActiveEnded") =>
        LET net == delegations_icq.amount + bond - unbond + late
            backing == IF net > 0 THEN net ELSE 0
        IN  active' \in {backing} \cup (backing + 1)..(backing + FIRST_STAKE_SLACK - 1)

\* EraActive books that.
LEMMA ActiveBooks ==
    ASSUME Core, NEW late \in Nat, Flow(late), execute_era_active
    PROVE  BooksWith(late)
<1> DEFINE T == delegations_icq.amount
           A == ActiveFor(T)
           R == RateOf(A, total_lsd_token_amount + FeeFor(T))
<1>1. /\ active \in Nat /\ bond \in Nat /\ unbond \in Nat /\ T \in Nat
      /\ era_snapshot.active \in Nat /\ FIRST_STAKE_SLACK \in Nat
  BY ScaleAssumption DEF Core, Types, PoolTypeOK, OtherTypeOK, IcqResult, EraSnapshot
<1>2. active - era_snapshot.active = bond - unbond + late
  BY DEF Flow, NetFlowBut, execute_era_active
<1>3. A = IF T + bond - unbond + late > 0 THEN T + bond - unbond + late ELSE 0
  BY <1>1, <1>2 DEF ActiveFor
<1>4. CASE ~FirstStakeCorrection(A, R)
  <2>1. active' = A
    BY <1>4 DEF execute_era_active
  <2> QED BY <1>3, <2>1 DEF BooksWith
<1>5. CASE FirstStakeCorrection(A, R)
  <2>1. active' = active /\ active < A + FIRST_STAKE_SLACK
    BY <1>5 DEF execute_era_active, FirstStakeCorrection
  <2>2. T <= era_snapshot.active
    BY <1>5, CorrectedWithoutReward DEF Core
  <2>3. A <= active
    BY <1>1, <1>2, <1>3, <2>2
  <2>4. A \in Nat
    BY <1>1, <1>3
  <2>5. active \in {A} \cup (A + 1)..(A + FIRST_STAKE_SLACK - 1)
    BY <1>1, <2>1, <2>3, <2>4
  <2> QED BY <1>3, <2>1, <2>5 DEF BooksWith
<1> QED BY <1>4, <1>5

\* Only EraActive takes a pool from RebondEnded to ActiveEnded.
LEMMA OnlyActiveEnds ==
    ASSUME Core, [SerialNext]_vars, status = "RebondEnded", status' = "ActiveEnded"
    PROVE  execute_era_active
<1>0. StepOwnsItsPacket /\ ChannelsTypeOK
  BY DEF Core, Types
<1> USE <1>0
<1>1. ASSUME NEW amount \in StakeAmounts, execute_stake(amount) PROVE FALSE
  BY <1>1 DEF execute_stake, pool_vars
<1>2. ASSUME NEW user \in Users, NEW amount \in 1..total_lsd_token_amount,
             execute_unstake(user, amount) PROVE FALSE
  BY <1>2 DEF execute_unstake, pool_vars
<1>3. ASSUME NEW user \in Users, NEW indices \in SUBSET unstakes_index_for_user[user],
             NEW fields \in ReceiverFields, execute_withdraw(user, indices, fields) PROVE FALSE
  BY <1>3 DEF execute_withdraw, pool_vars
<1>4. ASSUME execute_era_update PROVE FALSE
  BY <1>4 DEF execute_era_update, pool_vars
<1>5. ASSUME execute_era_bond PROVE FALSE
  BY <1>5 DEF execute_era_bond, pool_vars
<1>6. ASSUME execute_era_collect_withdraw PROVE FALSE
  BY <1>6 DEF execute_era_collect_withdraw, pool_vars
<1>7. ASSUME execute_era_rebond PROVE FALSE
  BY <1>7 DEF execute_era_rebond, pool_vars
<1>8. ASSUME execute_config_pool_paused PROVE FALSE
  BY <1>8 DEF execute_config_pool_paused, pool_vars
<1>9. ASSUME NEW p \in transfers, sudo_era_update_callback(p) PROVE FALSE
  BY <1>9 DEF sudo_era_update_callback, pool_vars
<1>10. ASSUME NEW p \in transfers, sudo_era_update_failed_callback(p) PROVE FALSE
  BY <1>10 DEF StepOwnsItsPacket, TransferOwned
<1>11. ASSUME sudo_era_bond_callback PROVE FALSE
  BY <1>11 DEF sudo_era_bond_callback, pool_vars
<1>12. ASSUME sudo_era_bond_failed_callback PROVE FALSE
  BY <1>12 DEF sudo_era_bond_failed_callback, pool_vars
<1>13. ASSUME sudo_era_rebond_callback PROVE FALSE
  BY <1>13 DEF sudo_era_rebond_callback, pool_vars
<1>14. ASSUME sudo_era_rebond_failed_callback PROVE FALSE
  BY <1>14 DEF sudo_era_rebond_failed_callback, pool_vars
<1>15. ASSUME sudo_withdraw_callback PROVE FALSE
  BY <1>15 DEF sudo_withdraw_callback, pool_vars
<1>16. ASSUME sudo_withdraw_failed_callback PROVE FALSE
  BY <1>16 DEF sudo_withdraw_failed_callback, pool_vars
<1>17. ASSUME sudo_era_collect_withdraw_callback PROVE FALSE
  BY <1>17 DEF sudo_era_collect_withdraw_callback, pool_vars
<1>18. ASSUME sudo_era_collect_withdraw_failed_callback PROVE FALSE
  BY <1>18 DEF sudo_era_collect_withdraw_failed_callback, pool_vars
<1>19. ASSUME NEW p \in transfers, host_receives_transfer(p) PROVE FALSE
  BY <1>19 DEF host_receives_transfer, pool_vars
<1>20. ASSUME NEW p \in transfers, transfer_fails(p) PROVE FALSE
  BY <1>20 DEF transfer_fails, pool_vars
<1>21. ASSUME NEW i \in DOMAIN pool_txs, NEW reward \in Rewards,
             host_executes_era_tx(i, reward) PROVE FALSE
  BY <1>21 DEF host_executes_era_tx, pool_vars
<1>22. ASSUME NEW i \in DOMAIN pool_txs, host_executes_user_withdraw(i) PROVE FALSE
  BY <1>22 DEF host_executes_user_withdraw, pool_vars
<1>23. ASSUME NEW i \in DOMAIN pool_txs, pool_tx_fails(i) PROVE FALSE
  BY <1>23 DEF pool_tx_fails, pool_vars
<1>24. ASSUME NEW i \in DOMAIN withdraw_txs, host_executes_collect(i) PROVE FALSE
  BY <1>24 DEF host_executes_collect, pool_vars
<1>25. ASSUME NEW i \in DOMAIN withdraw_txs, collect_fails(i) PROVE FALSE
  BY <1>25 DEF collect_fails, pool_vars
<1>26. ASSUME host_completes_unbonding PROVE FALSE
  BY <1>26 DEF host_completes_unbonding, pool_vars
<1>27. ASSUME host_slashes PROVE FALSE
  BY <1>27 DEF host_slashes, pool_vars
<1>28. ASSUME relayer_submits_delegations PROVE FALSE
  BY <1>28 DEF relayer_submits_delegations, pool_vars
<1>29. ASSUME relayer_submits_balance PROVE FALSE
  BY <1>29 DEF relayer_submits_balance, pool_vars
<1>30. ASSUME era_elapses PROVE FALSE
  BY <1>30 DEF era_elapses, pool_vars
<1>31. CASE UNCHANGED vars
  BY <1>31 DEF vars, pool_vars
<1> QED
  BY <1>1, <1>2, <1>3, <1>4, <1>5, <1>6, <1>7, <1>8, <1>9, <1>10, <1>11, <1>12,
     <1>13, <1>14, <1>15, <1>16, <1>17, <1>18, <1>19, <1>20, <1>21, <1>22, <1>23,
     <1>24, <1>25, <1>26, <1>27, <1>28, <1>29, <1>30, <1>31
     DEF SerialNext, OtherStep, UserStep, KeeperStep, HostStep, TransferCallback,
         PoolCallback, CollectCallback

\* At the end of an era active is what the host delegates plus the net stake since
\* the snapshot, up to FIRST_STAKE_SLACK: no stake or unstake made while the era
\* was on its way is lost or counted twice.
THEOREM BooksTheorem == SerialSpec => ActiveFollowsDelegations
<1>1. IInv /\ [SerialNext]_vars => [BooksDelegations]_vars
  <2> SUFFICES ASSUME IInv, [SerialNext]_vars,
                      status = "RebondEnded", status' = "ActiveEnded"
               PROVE  BooksDelegations
    BY DEF BooksDelegations
  <2>1. BooksWith(0)
    BY OnlyActiveEnds, ActiveBooks DEF IInv
  <2>2. /\ delegations_icq.amount \in Nat /\ bond \in Nat /\ unbond \in Nat
    BY DEF IInv, Core, Types, PoolTypeOK, OtherTypeOK, IcqResult
  <2> QED BY <2>1, <2>2 DEF BooksWith, BooksDelegations
<1> QED BY <1>1, InvariantTheorem, PTL DEF SerialSpec, ActiveFollowsDelegations

-----------------------------------------------------------------------------
(***************************************************************************)
(* The unstake requests and their payment: no request is paid twice, the   *)
(* host can pay all of them, and the era cycle implements LiquidPool.      *)
(***************************************************************************)
\* The user withdrawals in flight.
UserTxs == {j \in DOMAIN pool_txs : pool_txs[j].tx_type = "UserWithdraw"}

\* A payment in flight is for requests of its user that are marked for it.  This, and
\* all that follows, leaves out the requests that the failure of a payment not theirs
\* has reopened while they were being paid.
PaymentsOpen ==
    \A j \in UserTxs : \A i \in pool_txs[j].unstakes \ misread :
        /\ i \in DOMAIN unstakes_of_index
        /\ i \in unstakes_index_for_user[pool_txs[j].user]
        /\ unstakes_of_index[i].unstaker = pool_txs[j].user
        /\ unstakes_of_index[i].status = "Pending"
        /\ i \notin stuck

\* No two payments are for one request.
PaymentsDisjoint ==
    \A j, k \in UserTxs :
        j # k => pool_txs[j].unstakes \cap pool_txs[k].unstakes \subseteq misread

\* No request is marked without a payment, unless a failed one left it so.
PendingIsPaid ==
    \A i \in DOMAIN unstakes_of_index \ misread :
        unstakes_of_index[i].status = "Pending" /\ i \notin stuck =>
            \E j \in UserTxs : i \in pool_txs[j].unstakes

\* What a failed payment left marked stays marked, and cannot be withdrawn again.
StuckIsPending ==
    \A i \in stuck \ misread : /\ i \in DOMAIN unstakes_of_index
                               /\ unstakes_of_index[i].status = "Pending"

\* A payment is of what its requests are worth.
PaymentAmounts ==
    misread = {} =>
        \A j \in UserTxs :
            pool_txs[j].amount = SumFunctionOnSet(Amounts, pool_txs[j].unstakes)

Requests == /\ PaymentsOpen /\ PaymentsDisjoint /\ PendingIsPaid /\ StuckIsPending
            /\ PaymentAmounts

\* What EraBond moves is the net of the snapshot.
BondMoves ==
    \A i \in BondTxs :
        IF era_snapshot.unbond >= era_snapshot.bond
        THEN /\ pool_txs[i].delegate = 0
             /\ pool_txs[i].undelegate = era_snapshot.unbond - era_snapshot.bond
        ELSE /\ pool_txs[i].delegate = era_snapshot.bond - era_snapshot.unbond
             /\ pool_txs[i].undelegate = 0

CollectExecuted == \E i \in DOMAIN withdraw_txs : withdraw_txs[i].ack = "ok"

\* What a failed collection left in the snapshot is still in the withdraw account,
\* and every balance that the next attempt accepts shows it.
RestakeHeld ==
    /\ balance_icq.state = "none" => balance_icq.amount = 0
    /\ SnapshotPending => era_snapshot.restake_amount = 0
    /\ status \in {"BondEnded", "WithdrawStarted"} /\ ~CollectExecuted =>
           /\ era_snapshot.restake_amount <= withdraw_balance
           /\ balance_icq.state # "stale" =>
                  /\ era_snapshot.restake_amount <= balance_icq.amount
                  /\ balance_icq.amount <= withdraw_balance

\* The host executes one payment: only its acknowledgement changes.
LEMMA AnsweredUserTxs ==
    ASSUME NEW s \in Seq(PoolTx), NEW i \in DOMAIN s, NEW a,
           NEW t, t = [s EXCEPT ![i].ack = a]
    PROVE  /\ DOMAIN t = DOMAIN s
           /\ \A j \in DOMAIN s : t[j].tx_type = s[j].tx_type
           /\ \A j \in DOMAIN s : s[j].tx_type = "UserWithdraw" =>
                  /\ t[j].user = s[j].user /\ t[j].unstakes = s[j].unstakes
                  /\ t[j].amount = s[j].amount
                  /\ t[j].ack = IF j = i THEN a ELSE s[j].ack
<1>1. DOMAIN t = DOMAIN s
  OBVIOUS
<1>2. \A j \in DOMAIN s : j # i => t[j] = s[j]
  OBVIOUS
<1>3. t[i] = [s[i] EXCEPT !.ack = a]
  OBVIOUS
<1>4. s[i] \in EraTx \/ s[i] \in UserWithdrawTx \/ s[i] \in RedeemTx
  BY DEF PoolTx
<1>5. CASE s[i] \in EraTx \/ s[i] \in RedeemTx
  <2>1. t[i].tx_type = s[i].tx_type /\ s[i].tx_type # "UserWithdraw"
    BY <1>3, <1>5 DEF EraTx, RedeemTx
  <2> QED BY <1>1, <1>2, <2>1
<1>6. CASE s[i] \in UserWithdrawTx
  <2>1. /\ t[i].tx_type = s[i].tx_type /\ t[i].user = s[i].user
        /\ t[i].unstakes = s[i].unstakes /\ t[i].amount = s[i].amount
        /\ t[i].ack = a
    BY <1>3, <1>6 DEF UserWithdrawTx
  <2> QED BY <1>1, <1>2, <2>1
<1> QED BY <1>4, <1>5, <1>6

\* m takes each payment in flight after a step to the same payment before it.
SameUserTxs(m) ==
    /\ m \in [UserTxs' -> UserTxs]
    /\ \A j, k \in UserTxs' : m[j] = m[k] => j = k
    /\ \A k \in UserTxs : \E j \in UserTxs' : m[j] = k
    /\ \A j \in UserTxs' : /\ pool_txs'[j].user = pool_txs[m[j]].user
                           /\ pool_txs'[j].unstakes = pool_txs[m[j]].unstakes
                           /\ pool_txs'[j].amount = pool_txs[m[j]].amount

\* The host has executed the same ones of them.
SamePaid(m) ==
    \A j \in UserTxs' : pool_txs'[j].ack = "ok" <=> pool_txs[m[j]].ack = "ok"

UserTxsKept == \E m : SameUserTxs(m) /\ SamePaid(m)

\* A step that keeps every payment in its place.
LEMMA KeptInPlace ==
    ASSUME UserTxs' = UserTxs,
           \A j \in UserTxs : /\ pool_txs'[j].user = pool_txs[j].user
                              /\ pool_txs'[j].unstakes = pool_txs[j].unstakes
                              /\ pool_txs'[j].amount = pool_txs[j].amount
    PROVE  SameUserTxs([j \in UserTxs |-> j])
BY DEF SameUserTxs

\* A step that changes no transaction of the pool's channel.
LEMMA SameChannel ==
    ASSUME pool_txs' = pool_txs
    PROVE  UserTxsKept
<1>1. UserTxs' = UserTxs
  BY DEF UserTxs
<1>2. SameUserTxs([j \in UserTxs |-> j])
  BY <1>1, KeptInPlace
<1>3. SamePaid([j \in UserTxs |-> j])
  BY <1>1 DEF SamePaid
<1> QED BY <1>2, <1>3 DEF UserTxsKept

\* A step that submits an era transaction.
LEMMA EraTxSubmitted ==
    ASSUME ChannelsTypeOK, NEW tx, tx.tx_type # "UserWithdraw",
           pool_txs' = Append(pool_txs, tx)
    PROVE  UserTxsKept
<1>1. /\ DOMAIN pool_txs' = DOMAIN pool_txs \cup {Len(pool_txs) + 1}
      /\ Len(pool_txs) + 1 \notin DOMAIN pool_txs
      /\ \A j \in DOMAIN pool_txs : pool_txs'[j] = pool_txs[j]
      /\ pool_txs'[Len(pool_txs) + 1] = tx
  BY AppendTxs DEF ChannelsTypeOK
<1>2. UserTxs' = UserTxs /\ \A j \in UserTxs : pool_txs'[j] = pool_txs[j]
  BY <1>1 DEF UserTxs
<1>3. SameUserTxs([j \in UserTxs |-> j])
  BY <1>2, KeptInPlace
<1>4. SamePaid([j \in UserTxs |-> j])
  BY <1>2 DEF SamePaid
<1> QED BY <1>3, <1>4 DEF UserTxsKept

\* A callback takes the oldest transaction off: the payments move up by one place,
\* and none but the oldest is gone.
LEMMA OldestTaken ==
    ASSUME ChannelsTypeOK, pool_txs # <<>>, pool_txs' = Tail(pool_txs)
    PROVE  /\ 1 \in DOMAIN pool_txs /\ Head(pool_txs) = pool_txs[1]
           /\ UserTxs' = {j \in Nat \ {0} : j + 1 \in UserTxs}
           /\ \A j \in UserTxs' : pool_txs'[j] = pool_txs[j + 1]
           /\ \A k \in UserTxs \ {1} : k - 1 \in UserTxs'
<1>1. /\ Len(pool_txs) \in Nat \ {0}
      /\ DOMAIN pool_txs = 1..Len(pool_txs)
      /\ DOMAIN pool_txs' = 1..(Len(pool_txs) - 1)
      /\ \A j \in DOMAIN pool_txs' : pool_txs'[j] = pool_txs[j + 1]
      /\ Head(pool_txs) = pool_txs[1]
  BY DEF ChannelsTypeOK
<1>2. UserTxs' = {j \in Nat \ {0} : j + 1 \in UserTxs}
  <2>1. ASSUME NEW j \in UserTxs' PROVE j \in Nat \ {0} /\ j + 1 \in UserTxs
    BY <1>1, <2>1 DEF UserTxs
  <2>2. ASSUME NEW j \in Nat \ {0}, j + 1 \in UserTxs PROVE j \in UserTxs'
    BY <1>1, <2>2 DEF UserTxs
  <2> QED BY <2>1, <2>2
<1>3. \A j \in UserTxs' : pool_txs'[j] = pool_txs[j + 1]
  BY <1>1 DEF UserTxs
<1>4. ASSUME NEW k \in UserTxs \ {1} PROVE k - 1 \in UserTxs'
  <2>1. k \in Nat \ {0, 1}
    BY <1>1 DEF UserTxs
  <2>2. k - 1 \in Nat \ {0} /\ (k - 1) + 1 = k
    BY <2>1
  <2> QED BY <1>2, <2>2
<1>5. 1 \in DOMAIN pool_txs /\ Head(pool_txs) = pool_txs[1]
  BY <1>1
<1> HIDE DEF UserTxs
<1> QED BY ONLY <1>2, <1>3, <1>4, <1>5

\* A callback of an era transaction.
LEMMA EraTxTaken ==
    ASSUME ChannelsTypeOK, pool_txs # <<>>, pool_txs' = Tail(pool_txs),
           Head(pool_txs).tx_type # "UserWithdraw"
    PROVE  UserTxsKept
<1> DEFINE m == [j \in UserTxs' |-> j + 1]
<1>1. /\ 1 \notin UserTxs
      /\ UserTxs' = {j \in Nat \ {0} : j + 1 \in UserTxs}
      /\ \A j \in UserTxs' : pool_txs'[j] = pool_txs[j + 1]
      /\ \A k \in UserTxs : k - 1 \in UserTxs'
  BY OldestTaken DEF UserTxs
<1>2. UserTxs \subseteq Nat
  BY DEF UserTxs, ChannelsTypeOK
<1>3. m \in [UserTxs' -> UserTxs]
  BY <1>1
<1>4. \A j, k \in UserTxs' : m[j] = m[k] => j = k
  BY <1>1
<1>5. \A k \in UserTxs : \E j \in UserTxs' : m[j] = k
  <2> SUFFICES ASSUME NEW k \in UserTxs PROVE m[k - 1] = k /\ k - 1 \in UserTxs'
    OBVIOUS
  <2> QED BY <1>1, <1>2
<1>6. \A j \in UserTxs' : pool_txs'[j] = pool_txs[m[j]]
  BY <1>1
<1> HIDE DEF m
<1>7. SameUserTxs(m)
  BY <1>3, <1>4, <1>5, <1>6 DEF SameUserTxs
<1>8. SamePaid(m)
  BY <1>6 DEF SamePaid
<1> QED BY <1>7, <1>8 DEF UserTxsKept

\* The host answers one transaction; unless it executes a payment, it has executed
\* the same payments as before.
LEMMA TxAnswered ==
    ASSUME ChannelsTypeOK, NEW i \in DOMAIN pool_txs, NEW a,
           pool_txs' = [pool_txs EXCEPT ![i].ack = a]
    PROVE  /\ UserTxs' = UserTxs
           /\ SameUserTxs([j \in UserTxs |-> j])
           /\ \A j \in UserTxs : pool_txs'[j].ack = IF j = i THEN a ELSE pool_txs[j].ack
           /\ i \notin UserTxs \/ (pool_txs[i].ack # "ok" /\ a # "ok") =>
                  SamePaid([j \in UserTxs |-> j])
<1>1. /\ DOMAIN pool_txs' = DOMAIN pool_txs
      /\ \A j \in DOMAIN pool_txs : pool_txs'[j].tx_type = pool_txs[j].tx_type
      /\ \A j \in UserTxs :
             /\ pool_txs'[j].user = pool_txs[j].user
             /\ pool_txs'[j].unstakes = pool_txs[j].unstakes
             /\ pool_txs'[j].amount = pool_txs[j].amount
             /\ pool_txs'[j].ack = IF j = i THEN a ELSE pool_txs[j].ack
  BY AnsweredUserTxs DEF ChannelsTypeOK, UserTxs
<1>2. UserTxs' = UserTxs
  BY <1>1 DEF UserTxs
<1>3. SameUserTxs([j \in UserTxs |-> j])
  BY <1>1, <1>2, KeptInPlace
<1> QED BY <1>1, <1>2, <1>3 DEF SamePaid

\* What a step does to the payments in flight.
LEMMA UserTxSteps ==
    ASSUME ChannelsTypeOK, [SerialNext]_vars
    PROVE  \/ \E user \in Users :
                  \E indices \in SUBSET unstakes_index_for_user[user],
                     fields \in ReceiverFields : execute_withdraw(user, indices, fields)
           \/ sudo_withdraw_callback
           \/ sudo_withdraw_failed_callback
           \/ \E i \in DOMAIN pool_txs : host_executes_user_withdraw(i)
           \/ UserTxsKept
<1>1. CASE pool_txs' = pool_txs
  BY <1>1, SameChannel
<1>2. ASSUME execute_era_bond PROVE UserTxsKept
  BY <1>2, EraTxSubmitted
     DEF execute_era_bond, BondByUndelegating, BondByDelegating, EraTxOf
<1>3. ASSUME execute_era_rebond PROVE UserTxsKept
  <2> DEFINE tx == EraTxOf("EraRebond", era_snapshot.restake_amount, 0)
  <2>1. tx.tx_type # "UserWithdraw"
    BY DEF EraTxOf
  <2>2. pool_txs' = pool_txs \/ pool_txs' = Append(pool_txs, tx)
    BY <1>3 DEF execute_era_rebond
  <2>3. CASE pool_txs' = Append(pool_txs, tx)
    BY <2>1, <2>3, EraTxSubmitted
  <2> QED BY <2>2, <2>3, SameChannel
<1>4. ASSUME PoolCallback
      PROVE  \/ sudo_withdraw_callback \/ sudo_withdraw_failed_callback
             \/ UserTxsKept
  BY <1>4, EraTxTaken
     DEF PoolCallback, Answered, sudo_era_bond_callback, sudo_era_bond_failed_callback,
         sudo_era_rebond_callback, sudo_era_rebond_failed_callback
<1>5. ASSUME NEW i \in DOMAIN pool_txs, NEW reward, host_executes_era_tx(i, reward)
      PROVE  UserTxsKept
  <2>1. i \notin UserTxs
    BY <1>5 DEF host_executes_era_tx, UserTxs
  <2> QED BY <1>5, <2>1, TxAnswered DEF host_executes_era_tx, UserTxsKept
<1>6. ASSUME NEW i \in DOMAIN pool_txs, pool_tx_fails(i)
      PROVE  UserTxsKept
  <2>1. pool_txs' = [pool_txs EXCEPT ![i].ack = "error"] /\ pool_txs[i].ack # "ok"
    BY <1>6 DEF pool_tx_fails, NextToHandle
  <2>2. SameUserTxs([j \in UserTxs |-> j]) /\ SamePaid([j \in UserTxs |-> j])
    BY <2>1, TxAnswered
  <2> QED BY <2>2 DEF UserTxsKept
<1>7. CASE UserStep
  BY <1>1, <1>7 DEF UserStep, execute_stake, execute_unstake, packet_vars
<1>8. CASE KeeperStep
  BY <1>1, <1>2, <1>8 DEF KeeperStep, execute_era_update,
              execute_era_collect_withdraw, execute_era_active,
              execute_config_pool_paused, packet_vars
<1>9. CASE TransferCallback
  BY <1>1, <1>9 DEF TransferCallback, sudo_era_update_callback,
                    sudo_era_update_failed_callback
<1>10. CASE CollectCallback
  BY <1>1, <1>10 DEF CollectCallback, sudo_era_collect_withdraw_callback,
                     sudo_era_collect_withdraw_failed_callback
<1>11. CASE HostStep
  BY <1>1, <1>5, <1>6, <1>11
     DEF HostStep, host_receives_transfer, transfer_fails, host_executes_collect,
         collect_fails, host_completes_unbonding, host_slashes,
         relayer_submits_delegations, relayer_submits_balance, era_elapses, packet_vars
<1>12. CASE UNCHANGED vars
  BY <1>1, <1>12 DEF vars, packet_vars
<1> QED BY <1>3, <1>4, <1>7, <1>8, <1>9, <1>10, <1>11, <1>12 DEF SerialNext, OtherStep

\* A payment in flight has the type of one.
LEMMA UserTxTyped ==
    ASSUME ChannelsTypeOK, NEW j \in UserTxs
    PROVE  pool_txs[j] \in UserWithdrawTx
<1>1. pool_txs[j] \in PoolTx
  BY DEF ChannelsTypeOK, UserTxs
<1> QED BY <1>1 DEF PoolTx, EraTx, RedeemTx, UserTxs

\* As long as no request was reopened so, a payment is for open requests.
LEMMA PaymentsWithin ==
    ASSUME Requests, misread = {}, NEW j \in UserTxs
    PROVE  /\ pool_txs[j].unstakes \subseteq DOMAIN unstakes_of_index
           /\ pool_txs[j].unstakes \subseteq unstakes_index_for_user[pool_txs[j].user]
           /\ \A i \in pool_txs[j].unstakes :
                  unstakes_of_index[i].unstaker = pool_txs[j].user
           /\ \A k \in UserTxs :
                  j # k => pool_txs[j].unstakes \cap pool_txs[k].unstakes = {}
           /\ pool_txs[j].amount = SumFunctionOnSet(Amounts, pool_txs[j].unstakes)
<1>1. \A i \in pool_txs[j].unstakes :
          /\ i \in DOMAIN unstakes_of_index
          /\ i \in unstakes_index_for_user[pool_txs[j].user]
          /\ unstakes_of_index[i].unstaker = pool_txs[j].user
  BY DEF Requests, PaymentsOpen
<1>2. \A k \in UserTxs : j # k => pool_txs[j].unstakes \cap pool_txs[k].unstakes = {}
  BY DEF Requests, PaymentsDisjoint
<1>3. pool_txs[j].amount = SumFunctionOnSet(Amounts, pool_txs[j].unstakes)
  BY DEF Requests, PaymentAmounts
<1> QED BY <1>1, <1>2, <1>3

\* A step that leaves the requests and the payments in flight alone.
LEMMA RequestsLeft ==
    ASSUME Requests, UNCHANGED unstake_vars, NEW m, SameUserTxs(m)
    PROVE  Requests'
<1>1. /\ unstakes_of_index' = unstakes_of_index
      /\ unstakes_index_for_user' = unstakes_index_for_user
      /\ misread' = misread /\ stuck' = stuck
      /\ Amounts' = Amounts
  BY DEF unstake_vars, Amounts
<1>2. PaymentsOpen'
  BY <1>1 DEF Requests, PaymentsOpen, SameUserTxs
<1>3. PaymentsDisjoint'
  BY <1>1 DEF Requests, PaymentsDisjoint, SameUserTxs
<1>4. PendingIsPaid'
  BY <1>1 DEF Requests, PendingIsPaid, SameUserTxs
<1>5. PaymentAmounts'
  BY <1>1 DEF Requests, PaymentAmounts, SameUserTxs
<1>6. StuckIsPending'
  BY <1>1 DEF Requests, StuckIsPending
<1> QED BY <1>2, <1>3, <1>4, <1>5, <1>6 DEF Requests

\* What the host has paid is what its executed payments are for.
LEMMA PaidByUserTxs ==
    /\ \A i : i \in PaidOnHost <=>
                 \E j \in UserTxs : pool_txs[j].ack = "ok" /\ i \in pool_txs[j].unstakes
    /\ \A i : i \in PaidOnHost' <=>
                 \E j \in UserTxs' : pool_txs'[j].ack = "ok" /\ i \in pool_txs'[j].unstakes
BY DEF PaidOnHost, UserTxs

\* A withdrawal marks open requests of its user and pays what they are worth.
LEMMA WithdrawRequests ==
    ASSUME Types, Requests, NEW user \in Users,
           NEW indices \in SUBSET unstakes_index_for_user[user],
           NEW fields \in ReceiverFields, execute_withdraw(user, indices, fields)
    PROVE  /\ Requests' /\ PaidOnHost' = PaidOnHost
           /\ DOMAIN unstakes_of_index' = DOMAIN unstakes_of_index
           /\ Amounts' = Amounts
           /\ \A i \in DOMAIN unstakes_of_index :
                  unstakes_of_index'[i].unstaker = unstakes_of_index[i].unstaker
<1> DEFINE n == Len(pool_txs) + 1
           tx == [tx_type |-> "UserWithdraw", user |-> user, unstakes |-> indices,
                  fields |-> fields, amount |-> SumFunctionOnSet(Amounts, indices),
                  ack |-> "none"]
<1>1. pool_txs' = Append(pool_txs, tx)
  BY DEF execute_withdraw
<1>2. /\ DOMAIN pool_txs' = DOMAIN pool_txs \cup {n} /\ n \notin DOMAIN pool_txs
      /\ \A j \in DOMAIN pool_txs : pool_txs'[j] = pool_txs[j]
      /\ pool_txs'[n] = tx
  BY <1>1, AppendTxs DEF Types, ChannelsTypeOK
<1>3. /\ UserTxs' = UserTxs \cup {n} /\ n \notin UserTxs
      /\ \A j \in UserTxs : pool_txs'[j] = pool_txs[j]
      /\ pool_txs'[n].user = user /\ pool_txs'[n].unstakes = indices
      /\ pool_txs'[n].amount = SumFunctionOnSet(Amounts, indices)
      /\ pool_txs'[n].ack # "ok"
  BY <1>2 DEF UserTxs
<1>4. /\ indices \subseteq DOMAIN unstakes_of_index
      /\ \A i \in indices : /\ unstakes_of_index[i].unstaker = user
                            /\ unstakes_of_index[i].status = "Default"
      /\ unstakes_index_for_user' = unstakes_index_for_user
      /\ misread' = misread /\ stuck' = stuck
  BY DEF execute_withdraw, Withdrawable
<1>5. /\ DOMAIN unstakes_of_index' = DOMAIN unstakes_of_index
      /\ \A i \in DOMAIN unstakes_of_index :
             /\ unstakes_of_index'[i].unstaker = unstakes_of_index[i].unstaker
             /\ unstakes_of_index'[i].amount = unstakes_of_index[i].amount
             /\ unstakes_of_index'[i].status =
                    IF i \in indices THEN "Pending" ELSE unstakes_of_index[i].status
  BY DEF execute_withdraw, SetWithdrawStatus, Types, UnstakeTypeOK, UnstakeInfo
<1>6. Amounts' = Amounts
  BY <1>5 DEF Amounts
<1>7. /\ \A j \in UserTxs : indices \cap pool_txs[j].unstakes \subseteq misread
      /\ indices \cap stuck \subseteq misread
  BY <1>4 DEF Requests, PaymentsOpen, StuckIsPending
<1> HIDE DEF n, tx
<1>8. PaymentsOpen'
  <2>1. ASSUME NEW j \in UserTxs, NEW i \in pool_txs'[j].unstakes \ misread'
        PROVE  /\ i \in DOMAIN unstakes_of_index'
               /\ i \in unstakes_index_for_user'[pool_txs'[j].user]
               /\ unstakes_of_index'[i].unstaker = pool_txs'[j].user
               /\ unstakes_of_index'[i].status = "Pending"
               /\ i \notin stuck'
    BY <1>3, <1>4, <1>5, <1>7 DEF Requests, PaymentsOpen
  <2>2. ASSUME NEW i \in pool_txs'[n].unstakes \ misread'
        PROVE  /\ i \in DOMAIN unstakes_of_index'
               /\ i \in unstakes_index_for_user'[pool_txs'[n].user]
               /\ unstakes_of_index'[i].unstaker = pool_txs'[n].user
               /\ unstakes_of_index'[i].status = "Pending"
               /\ i \notin stuck'
    BY <1>3, <1>4, <1>5, <1>7
  <2> QED BY <1>3, <2>1, <2>2 DEF PaymentsOpen
<1>9. PaymentsDisjoint'
  BY <1>3, <1>4, <1>7 DEF Requests, PaymentsDisjoint
<1>10. PendingIsPaid'
  BY <1>3, <1>4, <1>5 DEF Requests, PendingIsPaid
<1>11. PaymentAmounts'
  BY <1>3, <1>4, <1>6 DEF Requests, PaymentAmounts
<1>13. StuckIsPending'
  BY <1>4, <1>5 DEF Requests, StuckIsPending
<1>12. PaidOnHost' = PaidOnHost
  BY <1>3, PaidByUserTxs
<1> QED BY <1>5, <1>6, <1>8, <1>9, <1>10, <1>11, <1>12, <1>13 DEF Requests

\* The oldest transaction is a payment: what its callback finds.
LEMMA PaymentTaken ==
    ASSUME Types, Requests, pool_txs # <<>>, pool_txs' = Tail(pool_txs),
           Head(pool_txs).tx_type = "UserWithdraw"
    PROVE  /\ 1 \in UserTxs /\ Head(pool_txs) = pool_txs[1]
           /\ \A j \in UserTxs' : /\ j + 1 \in UserTxs \ {1}
                                  /\ pool_txs'[j] = pool_txs[j + 1]
                                  /\ pool_txs[j + 1].unstakes \cap pool_txs[1].unstakes
                                         \subseteq misread
           /\ \A k \in UserTxs \ {1} : /\ k - 1 \in UserTxs'
                                       /\ pool_txs'[k - 1] = pool_txs[k]
           /\ \A j, k \in UserTxs' : j # k => j + 1 # k + 1
<1>1. /\ 1 \in DOMAIN pool_txs /\ Head(pool_txs) = pool_txs[1]
      /\ UserTxs' = {j \in Nat \ {0} : j + 1 \in UserTxs}
      /\ \A j \in UserTxs' : pool_txs'[j] = pool_txs[j + 1]
      /\ \A k \in UserTxs \ {1} : k - 1 \in UserTxs'
  BY OldestTaken DEF Types
<1>2. 1 \in UserTxs /\ UserTxs \subseteq Nat
  BY <1>1 DEF UserTxs, Types, ChannelsTypeOK
<1>3. \A j \in UserTxs' : j \in Nat \ {0} /\ j + 1 \in UserTxs \ {1}
  BY <1>1
<1>4. \A j \in UserTxs \ {1} :
          pool_txs[j].unstakes \cap pool_txs[1].unstakes \subseteq misread
  BY <1>2 DEF Requests, PaymentsDisjoint
<1>5. ASSUME NEW k \in UserTxs \ {1} PROVE pool_txs'[k - 1] = pool_txs[k]
  <2>1. (k - 1) + 1 = k
    BY <1>2
  <2> QED BY <1>1, <2>1
<1>6. \A j, k \in UserTxs' : j # k => j + 1 # k + 1
  BY <1>3
<1> QED BY <1>1, <1>2, <1>3, <1>4, <1>5, <1>6

\* The callback of a payment made deletes its requests, and no other payment's.
LEMMA PaidRequests ==
    ASSUME Types, IndicesIssued, Requests, sudo_withdraw_callback
    PROVE  /\ Requests'
           /\ misread = {} => DOMAIN unstakes_of_index' =
                                  DOMAIN unstakes_of_index \ Head(pool_txs).unstakes
           /\ \A i \in DOMAIN unstakes_of_index' : unstakes_of_index'[i] = unstakes_of_index[i]
<1> DEFINE u == pool_txs[1].user
           U == pool_txs[1].unstakes \cap unstakes_index_for_user[u]
<1>1. /\ 1 \in UserTxs /\ Head(pool_txs) = pool_txs[1]
      /\ \A j \in UserTxs' : /\ j + 1 \in UserTxs \ {1}
                             /\ pool_txs'[j] = pool_txs[j + 1]
                             /\ pool_txs[j + 1].unstakes \cap pool_txs[1].unstakes
                                    \subseteq misread
      /\ \A k \in UserTxs \ {1} : /\ k - 1 \in UserTxs'
                                  /\ pool_txs'[k - 1] = pool_txs[k]
      /\ \A j, k \in UserTxs' : j # k => j + 1 # k + 1
  BY PaymentTaken DEF sudo_withdraw_callback, Answered
<1>2. u \in Users
  BY <1>1, UserTxTyped DEF Types, UserWithdrawTx
<1>3. misread = {} => U = pool_txs[1].unstakes
  BY <1>1 DEF Requests, PaymentsOpen
<1>4. /\ unstakes_index_for_user' = [unstakes_index_for_user EXCEPT ![u] = @ \ U]
      /\ unstakes_of_index' = [i \in DOMAIN unstakes_of_index \ U |-> unstakes_of_index[i]]
      /\ misread' = misread /\ stuck' = stuck
  BY <1>1 DEF sudo_withdraw_callback
<1>5. /\ DOMAIN unstakes_of_index' = DOMAIN unstakes_of_index \ U
      /\ \A i \in DOMAIN unstakes_of_index' : unstakes_of_index'[i] = unstakes_of_index[i]
  BY <1>4
<1>6. \A v \in Users :
          unstakes_index_for_user'[v] = IF v = u THEN unstakes_index_for_user[v] \ U
                                                 ELSE unstakes_index_for_user[v]
  BY <1>2, <1>4 DEF Types, UnstakeTypeOK
<1>7. \A j \in UserTxs : pool_txs[j].user \in Users
  BY UserTxTyped DEF Types, UserWithdrawTx
<1>8. \A i \in DOMAIN unstakes_of_index \ U : Amounts'[i] = Amounts[i]
  BY <1>5 DEF Amounts
<1>13. U \subseteq pool_txs[1].unstakes
  OBVIOUS
<1>14. U \cap stuck \subseteq misread
  BY <1>1, <1>13 DEF Requests, PaymentsOpen
<1> HIDE DEF U, u
<1>9. PaymentsOpen'
  <2> SUFFICES ASSUME NEW j \in UserTxs', NEW i \in pool_txs'[j].unstakes \ misread
               PROVE  /\ i \in DOMAIN unstakes_of_index'
                      /\ i \in unstakes_index_for_user'[pool_txs'[j].user]
                      /\ unstakes_of_index'[i].unstaker = pool_txs'[j].user
                      /\ unstakes_of_index'[i].status = "Pending"
                      /\ i \notin stuck
    BY <1>4 DEF PaymentsOpen
  <2>1. /\ j + 1 \in UserTxs /\ pool_txs'[j] = pool_txs[j + 1] /\ i \notin U
    BY <1>1, <1>13
  <2>2. /\ i \in DOMAIN unstakes_of_index
        /\ i \in unstakes_index_for_user[pool_txs[j + 1].user]
        /\ unstakes_of_index[i].unstaker = pool_txs[j + 1].user
        /\ unstakes_of_index[i].status = "Pending"
        /\ i \notin stuck
    BY <2>1 DEF Requests, PaymentsOpen
  <2> QED BY <1>5, <1>6, <1>7, <2>1, <2>2
<1>10. PaymentsDisjoint'
  BY <1>1, <1>4 DEF Requests, PaymentsDisjoint
<1>11. PendingIsPaid'
  <2> SUFFICES ASSUME NEW i \in DOMAIN unstakes_of_index' \ misread,
                      unstakes_of_index'[i].status = "Pending", i \notin stuck
               PROVE  \E j \in UserTxs' : i \in pool_txs'[j].unstakes
    BY <1>4 DEF PendingIsPaid
  <2>1. PICK k \in UserTxs : i \in pool_txs[k].unstakes
    BY <1>5 DEF Requests, PendingIsPaid
  <2>2. k # 1
    <3>1. ASSUME i \in pool_txs[1].unstakes PROVE i \in U
      BY <1>1, <3>1 DEF Requests, PaymentsOpen, U, u
    <3> QED BY <1>5, <2>1, <3>1
  <2> QED BY <1>1, <2>1, <2>2
<1>12. PaymentAmounts'
  <2> SUFFICES ASSUME misread = {}, NEW j \in UserTxs'
               PROVE  pool_txs'[j].amount =
                          SumFunctionOnSet(Amounts', pool_txs'[j].unstakes)
    BY <1>4 DEF PaymentAmounts
  <2>1. /\ j + 1 \in UserTxs /\ pool_txs'[j] = pool_txs[j + 1]
        /\ pool_txs[j + 1].unstakes \cap U = {}
    BY <1>1, <1>13
  <2>2. /\ pool_txs[j + 1].unstakes \subseteq DOMAIN unstakes_of_index \ U
        /\ pool_txs[j + 1].amount = SumFunctionOnSet(Amounts, pool_txs[j + 1].unstakes)
    BY <2>1, PaymentsWithin
  <2>4. IsFiniteSet(pool_txs[j + 1].unstakes)
    BY <2>2, RequestsSummed DEF Types
  <2> QED BY <1>8, <2>1, <2>2, <2>4, SumSame
<1>15. StuckIsPending'
  BY <1>4, <1>5, <1>14 DEF Requests, StuckIsPending
<1> QED BY <1>1, <1>3, <1>5, <1>9, <1>10, <1>11, <1>12, <1>15 DEF Requests

\* The callback of a payment that failed reopens its requests, or leaves them for
\* good; another payment's it reopens only as recorded.
LEMMA ReopenedRequests ==
    ASSUME Types, Requests, sudo_withdraw_failed_callback
    PROVE  /\ Requests' /\ Amounts' = Amounts
           /\ DOMAIN unstakes_of_index' = DOMAIN unstakes_of_index
           /\ \A i \in DOMAIN unstakes_of_index :
                  unstakes_of_index'[i].unstaker = unstakes_of_index[i].unstaker
<1> DEFINE own == pool_txs[1].unstakes
           read == own \cup pool_txs[1].fields
           Reopens == /\ unstakes_of_index' = SetWithdrawStatus(read, "Default")
                      /\ misread' = misread \cup (read \cap PaidByLater)
                      /\ stuck' = stuck \ read
           Aborts == /\ unstakes_of_index' = unstakes_of_index
                     /\ misread' = misread /\ stuck' = stuck \cup own
<1>1. /\ 1 \in UserTxs /\ Head(pool_txs) = pool_txs[1]
      /\ \A j \in UserTxs' : /\ j + 1 \in UserTxs \ {1}
                             /\ pool_txs'[j] = pool_txs[j + 1]
                             /\ pool_txs[j + 1].unstakes \cap own \subseteq misread
      /\ \A k \in UserTxs \ {1} : /\ k - 1 \in UserTxs'
                                  /\ pool_txs'[k - 1] = pool_txs[k]
      /\ \A j, k \in UserTxs' : j # k => j + 1 # k + 1
  BY PaymentTaken DEF sudo_withdraw_failed_callback, Answered
<1>2. unstakes_index_for_user' = unstakes_index_for_user /\ (Reopens \/ Aborts)
  BY <1>1 DEF sudo_withdraw_failed_callback
<1>3. ASSUME Reopens
      PROVE  \A i \in DOMAIN unstakes_of_index :
                 unstakes_of_index'[i].status =
                     IF i \in read THEN "Default" ELSE unstakes_of_index[i].status
  BY <1>3 DEF SetWithdrawStatus, Types, UnstakeTypeOK, UnstakeInfo
<1>4. /\ DOMAIN unstakes_of_index' = DOMAIN unstakes_of_index
      /\ \A i \in DOMAIN unstakes_of_index :
             /\ unstakes_of_index'[i].unstaker = unstakes_of_index[i].unstaker
             /\ unstakes_of_index'[i].amount = unstakes_of_index[i].amount
  BY <1>2 DEF SetWithdrawStatus, Types, UnstakeTypeOK, UnstakeInfo
<1>5. Amounts' = Amounts
  BY <1>4 DEF Amounts
<1>6. \A j \in UserTxs \ {1} : pool_txs[j].unstakes \subseteq PaidByLater
  BY DEF PaidByLater, UserTxs
<1>7. misread \subseteq misread'
  BY <1>2
<1>8. PaymentsOpen'
  <2> SUFFICES ASSUME NEW j \in UserTxs', NEW i \in pool_txs'[j].unstakes \ misread'
               PROVE  /\ i \in DOMAIN unstakes_of_index'
                      /\ i \in unstakes_index_for_user'[pool_txs'[j].user]
                      /\ unstakes_of_index'[i].unstaker = pool_txs'[j].user
                      /\ unstakes_of_index'[i].status = "Pending"
                      /\ i \notin stuck'
    BY DEF PaymentsOpen
  <2>1. /\ j + 1 \in UserTxs \ {1} /\ pool_txs'[j] = pool_txs[j + 1]
        /\ i \in pool_txs[j + 1].unstakes /\ i \notin misread /\ i \notin own
    BY <1>1, <1>7
  <2>2. /\ i \in DOMAIN unstakes_of_index
        /\ i \in unstakes_index_for_user[pool_txs[j + 1].user]
        /\ unstakes_of_index[i].unstaker = pool_txs[j + 1].user
        /\ unstakes_of_index[i].status = "Pending"
        /\ i \notin stuck
    BY <2>1 DEF Requests, PaymentsOpen
  <2>3. unstakes_of_index'[i].status = "Pending" /\ i \notin stuck'
    <3>1. CASE Reopens
      <4>1. i \notin read
        BY <1>6, <2>1, <3>1
      <4> QED BY <1>3, <2>2, <3>1, <4>1
    <3>2. CASE Aborts
      BY <2>1, <2>2, <3>2
    <3> QED BY <1>2, <3>1, <3>2
  <2> QED BY <1>2, <1>4, <2>1, <2>2, <2>3
<1>9. PaymentsDisjoint'
  BY <1>1, <1>7 DEF Requests, PaymentsDisjoint
<1>10. PendingIsPaid'
  <2> SUFFICES ASSUME NEW i \in DOMAIN unstakes_of_index' \ misread',
                      unstakes_of_index'[i].status = "Pending", i \notin stuck'
               PROVE  \E j \in UserTxs' : i \in pool_txs'[j].unstakes
    BY DEF PendingIsPaid
  <2>1. /\ i \in DOMAIN unstakes_of_index \ misread /\ i \notin own
        /\ unstakes_of_index[i].status = "Pending" /\ i \notin stuck
    <3>1. CASE Reopens
      BY <1>3, <1>4, <1>7, <3>1
    <3>2. CASE Aborts
      BY <1>4, <3>2
    <3> QED BY <1>2, <3>1, <3>2
  <2>2. PICK k \in UserTxs : i \in pool_txs[k].unstakes
    BY <2>1 DEF Requests, PendingIsPaid
  <2> QED BY <1>1, <2>1, <2>2
<1>11. PaymentAmounts'
  <2> SUFFICES ASSUME misread = {}, NEW j \in UserTxs'
               PROVE  pool_txs'[j].amount =
                          SumFunctionOnSet(Amounts, pool_txs'[j].unstakes)
    BY <1>5, <1>7 DEF PaymentAmounts
  <2> QED BY <1>1, PaymentsWithin
<1>12. StuckIsPending'
  <2> SUFFICES ASSUME NEW i \in stuck' \ misread'
               PROVE  /\ i \in DOMAIN unstakes_of_index
                      /\ unstakes_of_index'[i].status = "Pending"
    BY <1>4 DEF StuckIsPending
  <2>1. CASE Reopens
    BY <1>3, <1>7, <2>1 DEF Requests, StuckIsPending
  <2>2. CASE Aborts
    BY <1>1, <2>2 DEF Requests, StuckIsPending, PaymentsOpen
  <2> QED BY <1>2, <2>1, <2>2
<1> QED BY <1>4, <1>5, <1>8, <1>9, <1>10, <1>11, <1>12 DEF Requests

\* An unstake makes a request of its own, which no payment is for.
LEMMA UnstakeRequests ==
    ASSUME Types, IndicesIssued, Requests, NEW user \in Users,
           NEW amount \in 1..total_lsd_token_amount, execute_unstake(user, amount)
    PROVE  /\ Requests'
           /\ next_unstake_index + 1 \notin DOMAIN unstakes_of_index
           /\ DOMAIN unstakes_of_index' =
                  DOMAIN unstakes_of_index \cup {next_unstake_index + 1}
           /\ \A i \in DOMAIN unstakes_of_index : Amounts'[i] = Amounts[i]
           /\ Amounts'[next_unstake_index + 1] =
                  TokenValue(BurnAmount(amount)) - PRECISION_GAP
<1> DEFINE n == next_unstake_index + 1
<1>1. n \notin DOMAIN unstakes_of_index
  BY DEF IndicesIssued, Types, PoolTypeOK
<1>2. pool_txs' = pool_txs /\ UserTxs' = UserTxs
  BY DEF execute_unstake, packet_vars, UserTxs
<1>3. /\ DOMAIN unstakes_of_index' = DOMAIN unstakes_of_index \cup {n}
      /\ \A i \in DOMAIN unstakes_of_index : unstakes_of_index'[i] = unstakes_of_index[i]
      /\ unstakes_of_index'[n].status = "Default"
      /\ unstakes_of_index'[n].amount = TokenValue(BurnAmount(amount)) - PRECISION_GAP
      /\ \A v \in Users : unstakes_index_for_user[v] \subseteq unstakes_index_for_user'[v]
      /\ misread' = misread /\ stuck' = stuck
  BY <1>1 DEF execute_unstake, Types, UnstakeTypeOK
<1> HIDE DEF n
<1>4. /\ \A i \in DOMAIN unstakes_of_index : Amounts'[i] = Amounts[i]
      /\ Amounts'[n] = TokenValue(BurnAmount(amount)) - PRECISION_GAP
  BY <1>3 DEF Amounts
<1>5. \A j \in UserTxs : pool_txs[j].user \in Users
  BY UserTxTyped DEF Types, UserWithdrawTx
<1>6. PaymentsOpen'
  BY <1>2, <1>3, <1>5 DEF Requests, PaymentsOpen
<1>7. PaymentsDisjoint'
  BY <1>2, <1>3 DEF Requests, PaymentsDisjoint
<1>8. PendingIsPaid'
  BY <1>2, <1>3 DEF Requests, PendingIsPaid
<1>9. PaymentAmounts'
  <2> SUFFICES ASSUME misread = {}, NEW j \in UserTxs
               PROVE  SumFunctionOnSet(Amounts, pool_txs[j].unstakes) =
                          SumFunctionOnSet(Amounts', pool_txs[j].unstakes)
    BY <1>2, <1>3 DEF Requests, PaymentAmounts
  <2>1. pool_txs[j].unstakes \subseteq DOMAIN unstakes_of_index
    BY PaymentsWithin
  <2>2. IsFiniteSet(pool_txs[j].unstakes)
    BY <2>1, RequestsSummed DEF Types
  <2> QED BY <1>4, <2>1, <2>2, SumSame
<1>10. StuckIsPending'
  BY <1>3 DEF Requests, StuckIsPending
<1> QED BY <1>1, <1>3, <1>4, <1>6, <1>7, <1>8, <1>9, <1>10 DEF Requests, n

\* A step keeps requests and payments together.
LEMMA RequestsStep ==
    ASSUME Types, IndicesIssued, Requests, [SerialNext]_vars
    PROVE  Requests'
<1>1. CASE \E user \in Users, amount \in 1..total_lsd_token_amount :
               execute_unstake(user, amount)
  BY <1>1, UnstakeRequests
<1>2. CASE \E user \in Users :
               \E indices \in SUBSET unstakes_index_for_user[user],
                  fields \in ReceiverFields : execute_withdraw(user, indices, fields)
  BY <1>2, WithdrawRequests
<1>3. CASE sudo_withdraw_callback
  BY <1>3, PaidRequests
<1>4. CASE sudo_withdraw_failed_callback
  BY <1>4, ReopenedRequests
<1>5. CASE UNCHANGED <<unstake_vars, next_unstake_index>>
  <2>1. CASE \E i \in DOMAIN pool_txs : host_executes_user_withdraw(i)
    <3>1. PICK i \in DOMAIN pool_txs : host_executes_user_withdraw(i)
      BY <2>1
    <3>2. SameUserTxs([j \in UserTxs |-> j])
      BY <3>1, TxAnswered DEF host_executes_user_withdraw, Types
    <3> QED BY <1>5, <3>2, RequestsLeft
  <2>2. CASE UserTxsKept
    BY <1>5, <2>2, RequestsLeft DEF UserTxsKept
  <2> QED BY <1>2, <1>3, <1>4, <2>1, <2>2, UserTxSteps DEF Types
<1> QED BY <1>1, <1>2, <1>3, <1>4, <1>5, RequestSteps

\* A request is paid by one packet when it is marked, and by none otherwise.
LEMMA RequestsExclusive ==
    ASSUME Requests
    PROVE  WithdrawExclusive
<1> DEFINE Payers(i) == {j \in DOMAIN pool_txs :
                            /\ pool_txs[j].tx_type = "UserWithdraw"
                            /\ i \in pool_txs[j].unstakes}
<1>1. ASSUME NEW i \in DOMAIN unstakes_of_index \ misread
      PROVE  Cardinality(Payers(i)) =
                 IF unstakes_of_index[i].status = "Pending" /\ i \notin stuck
                 THEN 1 ELSE 0
  <2>1. CASE unstakes_of_index[i].status = "Pending" /\ i \notin stuck
    <3>1. PICK j \in UserTxs : i \in pool_txs[j].unstakes
      BY <2>1 DEF Requests, PendingIsPaid
    <3>2. Payers(i) = {j}
      BY <3>1 DEF Requests, PaymentsDisjoint, UserTxs
    <3> QED BY <2>1, <3>2, FS_Singleton
  <2>2. CASE ~(unstakes_of_index[i].status = "Pending" /\ i \notin stuck)
    <3>1. Payers(i) = {}
      BY <2>2 DEF Requests, PaymentsOpen, UserTxs
    <3> QED BY <2>2, <3>1, FS_EmptySet
  <2> QED BY <2>1, <2>2
<1>2. \A j \in DOMAIN pool_txs : pool_txs[j].tx_type = "UserWithdraw" =>
          \A i \in pool_txs[j].unstakes \ misread :
              /\ i \in DOMAIN unstakes_of_index
              /\ unstakes_of_index[i].unstaker = pool_txs[j].user
              /\ i \in unstakes_index_for_user[pool_txs[j].user]
  BY DEF Requests, PaymentsOpen, UserTxs
<1> QED BY <1>1, <1>2 DEF WithdrawExclusive

\* What was reopened so once stays recorded.
LEMMA MisreadKept ==
    ASSUME [SerialNext]_vars
    PROVE  misread \subseteq misread'
<1>1. CASE \E user \in Users, amount \in 1..total_lsd_token_amount :
               execute_unstake(user, amount)
  BY <1>1 DEF execute_unstake
<1>2. CASE \E user \in Users :
               \E indices \in SUBSET unstakes_index_for_user[user],
                  fields \in ReceiverFields : execute_withdraw(user, indices, fields)
  BY <1>2 DEF execute_withdraw
<1>3. CASE sudo_withdraw_callback
  BY <1>3 DEF sudo_withdraw_callback
<1>4. CASE sudo_withdraw_failed_callback
  BY <1>4 DEF sudo_withdraw_failed_callback
<1>5. CASE UNCHANGED <<unstake_vars, next_unstake_index>>
  BY <1>5 DEF unstake_vars
<1> QED BY <1>1, <1>2, <1>3, <1>4, <1>5, RequestSteps

-----------------------------------------------------------------------------
\* Outside the statuses of the steps that send packets none of theirs is in flight.
LEMMA NoPacketOutsideStep ==
    ASSUME StepOwnsItsPacket
    PROVE  /\ status # "EraUpdateStarted" => transfers = {}
           /\ status # "BondStarted" => BondTxs = {} /\ ~BondExecuted
           /\ status # "WithdrawStarted" => DOMAIN withdraw_txs = {}
           /\ status # "WithdrawEnded" => RebondTxs = {} /\ ~RebondExecuted
           /\ \A i \in DOMAIN withdraw_txs : i = 1
BY DEF StepOwnsItsPacket, TransferOwned, BondOwned, CollectOwned, RebondOwned,
       BondExecuted, RebondExecuted

\* The same after a step.
LEMMA NoPacketAfterStep ==
    ASSUME StepOwnsItsPacket'
    PROVE  /\ status' # "EraUpdateStarted" => transfers' = {}
           /\ status' # "BondStarted" => BondTxs' = {} /\ ~BondExecuted'
           /\ status' # "WithdrawStarted" => DOMAIN withdraw_txs' = {}
           /\ status' # "WithdrawEnded" => RebondTxs' = {} /\ ~RebondExecuted'
           /\ \A i \in DOMAIN withdraw_txs' : i = 1
BY DEF StepOwnsItsPacket, TransferOwned, BondOwned, CollectOwned, RebondOwned,
       BondExecuted, RebondExecuted

\* A step after which the same bonds and rebonds have been executed, and which
\* submits no bond.
EraTxsKept ==
    /\ BondExecuted' = BondExecuted
    /\ RebondExecuted' = RebondExecuted
    /\ BondMoves /\ era_snapshot' = era_snapshot => BondMoves'

\* A step that changes no transaction of the pool's channel keeps the era's.
LEMMA SameTxsKept ==
    ASSUME pool_txs' = pool_txs
    PROVE  EraTxsKept
BY DEF EraTxsKept, BondExecuted, RebondExecuted, BondMoves, BondTxs, RebondTxs

\* A transaction just submitted is not executed.
LEMMA AppendKept ==
    ASSUME ChannelsTypeOK, NEW tx, pool_txs' = Append(pool_txs, tx), tx.ack = "none"
    PROVE  /\ BondExecuted' = BondExecuted
           /\ RebondExecuted' = RebondExecuted
           /\ tx.tx_type # "EraBond" => EraTxsKept
<1>1. /\ DOMAIN pool_txs' = DOMAIN pool_txs \cup {Len(pool_txs) + 1}
      /\ Len(pool_txs) + 1 \notin DOMAIN pool_txs
      /\ \A j \in DOMAIN pool_txs : pool_txs'[j] = pool_txs[j]
      /\ pool_txs'[Len(pool_txs) + 1] = tx
  BY AppendTxs DEF ChannelsTypeOK
<1>2. BondExecuted' = BondExecuted
  BY <1>1 DEF BondExecuted, BondTxs
<1>3. RebondExecuted' = RebondExecuted
  BY <1>1 DEF RebondExecuted, RebondTxs
<1>4. tx.tx_type # "EraBond" => BondTxs' = BondTxs
  BY <1>1 DEF BondTxs
<1>5. \A j \in BondTxs : pool_txs'[j] = pool_txs[j]
  BY <1>1 DEF BondTxs
<1> QED BY <1>2, <1>3, <1>4, <1>5 DEF EraTxsKept, BondMoves

\* What is taken off the channel was no executed bond or rebond.
LEMMA TailKept ==
    ASSUME ChannelsTypeOK, pool_txs # <<>>, pool_txs' = Tail(pool_txs),
           \/ Head(pool_txs).tx_type \notin {"EraBond", "EraRebond"}
           \/ Head(pool_txs).ack # "ok"
    PROVE  EraTxsKept
<1>1. /\ 1 \in DOMAIN pool_txs /\ Head(pool_txs) = pool_txs[1]
      /\ \A j \in DOMAIN pool_txs' : /\ j + 1 \in DOMAIN pool_txs
                                     /\ pool_txs'[j] = pool_txs[j + 1]
  BY TailTxs DEF ChannelsTypeOK
<1>2. \A k \in DOMAIN pool_txs \ {1} : /\ k - 1 \in DOMAIN pool_txs'
                                       /\ pool_txs'[k - 1] = pool_txs[k]
  BY DEF ChannelsTypeOK
<1>3. BondExecuted' = BondExecuted
  <2>1. ASSUME BondExecuted PROVE BondExecuted'
    <3>1. PICK k \in BondTxs : pool_txs[k].ack = "ok"
      BY <2>1 DEF BondExecuted
    <3>2. k \in DOMAIN pool_txs \ {1} /\ pool_txs[k].tx_type = "EraBond"
      BY <1>1, <3>1 DEF BondTxs
    <3> QED BY <1>2, <3>1, <3>2 DEF BondExecuted, BondTxs
  <2>2. ASSUME BondExecuted' PROVE BondExecuted
    BY <1>1, <2>2 DEF BondExecuted, BondTxs
  <2> QED BY <2>1, <2>2 DEF BondExecuted
<1>4. RebondExecuted' = RebondExecuted
  <2>1. ASSUME RebondExecuted PROVE RebondExecuted'
    <3>1. PICK k \in RebondTxs : pool_txs[k].ack = "ok"
      BY <2>1 DEF RebondExecuted
    <3>2. k \in DOMAIN pool_txs \ {1} /\ pool_txs[k].tx_type = "EraRebond"
      BY <1>1, <3>1 DEF RebondTxs
    <3> QED BY <1>2, <3>1, <3>2 DEF RebondExecuted, RebondTxs
  <2>2. ASSUME RebondExecuted' PROVE RebondExecuted
    BY <1>1, <2>2 DEF RebondExecuted, RebondTxs
  <2> QED BY <2>1, <2>2 DEF RebondExecuted
<1>5. \A j \in BondTxs' : j + 1 \in BondTxs /\ pool_txs'[j] = pool_txs[j + 1]
  BY <1>1 DEF BondTxs
<1>6. BondMoves /\ era_snapshot' = era_snapshot => BondMoves'
  BY <1>5 DEF BondMoves
<1> QED BY <1>3, <1>4, <1>6 DEF EraTxsKept

\* What an answer changes of the pool's transactions.
LEMMA AnsweredEraTxs ==
    ASSUME ChannelsTypeOK, NEW i \in DOMAIN pool_txs, NEW a,
           pool_txs' = [pool_txs EXCEPT ![i].ack = a]
    PROVE  /\ BondTxs' = BondTxs /\ RebondTxs' = RebondTxs
           /\ \A j \in DOMAIN pool_txs : j # i => pool_txs'[j] = pool_txs[j]
           /\ pool_txs'[i].ack = a
           /\ BondMoves /\ era_snapshot' = era_snapshot => BondMoves'
<1>1. /\ DOMAIN pool_txs' = DOMAIN pool_txs
      /\ \A j \in DOMAIN pool_txs : j # i => pool_txs'[j] = pool_txs[j]
      /\ pool_txs'[i] = [pool_txs[i] EXCEPT !.ack = a]
  BY DEF ChannelsTypeOK
<1>2. pool_txs[i] \in EraTx \/ pool_txs[i] \in UserWithdrawTx \/ pool_txs[i] \in RedeemTx
  BY DEF ChannelsTypeOK, PoolTx
<1>3. pool_txs'[i].tx_type = pool_txs[i].tx_type /\ pool_txs'[i].ack = a
  <2>1. CASE pool_txs[i] \in EraTx
    BY <1>1, <2>1 DEF EraTx
  <2>2. CASE pool_txs[i] \in UserWithdrawTx
    BY <1>1, <2>2 DEF UserWithdrawTx
  <2>3. CASE pool_txs[i] \in RedeemTx
    BY <1>1, <2>3 DEF RedeemTx
  <2> QED BY <1>2, <2>1, <2>2, <2>3
<1>4. pool_txs[i].tx_type = "EraBond" =>
          /\ pool_txs'[i].delegate = pool_txs[i].delegate
          /\ pool_txs'[i].undelegate = pool_txs[i].undelegate
  BY <1>1, <1>2 DEF EraTx, UserWithdrawTx, RedeemTx
<1>5. BondTxs' = BondTxs /\ RebondTxs' = RebondTxs
  BY <1>1, <1>3 DEF BondTxs, RebondTxs
<1>6. \A j \in BondTxs : /\ pool_txs'[j].delegate = pool_txs[j].delegate
                         /\ pool_txs'[j].undelegate = pool_txs[j].undelegate
  BY <1>1, <1>4 DEF BondTxs
<1>7. BondMoves /\ era_snapshot' = era_snapshot => BondMoves'
  BY <1>5, <1>6 DEF BondMoves
<1> QED BY <1>1, <1>3, <1>5, <1>7

\* An answer that is no execution of a bond or rebond.
LEMMA AnswerKept ==
    ASSUME ChannelsTypeOK, NEW i \in DOMAIN pool_txs, NEW a, pool_txs[i].ack = "none",
           pool_txs' = [pool_txs EXCEPT ![i].ack = a],
           a # "ok" \/ pool_txs[i].tx_type \notin {"EraBond", "EraRebond"}
    PROVE  EraTxsKept
<1>1. /\ BondTxs' = BondTxs /\ RebondTxs' = RebondTxs
      /\ \A j \in DOMAIN pool_txs : j # i => pool_txs'[j] = pool_txs[j]
      /\ pool_txs'[i].ack = a
      /\ BondMoves /\ era_snapshot' = era_snapshot => BondMoves'
  BY AnsweredEraTxs
<1>2. BondExecuted' = BondExecuted
  BY <1>1 DEF BondExecuted, BondTxs
<1>3. RebondExecuted' = RebondExecuted
  BY <1>1 DEF RebondExecuted, RebondTxs
<1> QED BY <1>1, <1>2, <1>3 DEF EraTxsKept

\* A step keeps bonds to the net of the snapshot they were made for.
LEMMA BondMovesStep ==
    ASSUME Types, StepOwnsItsPacket, StepOwnsItsPacket', BondMoves, [SerialNext]_vars
    PROVE  BondMoves'
<1>0. PoolTypeOK /\ ChannelsTypeOK
  BY DEF Types
<1> USE <1>0
<1>1. CASE EraTxsKept /\ era_snapshot' = era_snapshot
  BY <1>1 DEF EraTxsKept
<1>2. CASE status' # "BondStarted"
  BY <1>2, NoPacketAfterStep DEF BondMoves
<1>3. CASE execute_era_bond
  <2>1. BondTxs = {}
    BY <1>3, NoPacketOutsideStep DEF execute_era_bond
  <2>2. era_snapshot' = era_snapshot
    BY <1>3 DEF execute_era_bond
  <2>3. CASE BondByUndelegating
    <3>1. \A tx : pool_txs' = Append(pool_txs, tx) =>
              BondTxs' \subseteq {Len(pool_txs) + 1} /\ pool_txs'[Len(pool_txs) + 1] = tx
      BY <2>1, AppendTxs DEF ChannelsTypeOK, BondTxs
    <3>2. pool_txs'[Len(pool_txs) + 1] =
              EraTxOf("EraBond", 0, era_snapshot.unbond - era_snapshot.bond)
      BY <2>3, <3>1 DEF BondByUndelegating
    <3>3. BondTxs' \subseteq {Len(pool_txs) + 1}
      BY <2>3, <3>1 DEF BondByUndelegating
    <3>4. era_snapshot.unbond >= era_snapshot.bond
      BY <2>3 DEF BondByUndelegating
    <3> QED BY <2>2, <3>2, <3>3, <3>4 DEF BondMoves, EraTxOf
  <2>4. CASE BondByDelegating
    <3>1. \A tx : pool_txs' = Append(pool_txs, tx) =>
              BondTxs' \subseteq {Len(pool_txs) + 1} /\ pool_txs'[Len(pool_txs) + 1] = tx
      BY <2>1, AppendTxs DEF ChannelsTypeOK, BondTxs
    <3>2. pool_txs'[Len(pool_txs) + 1] =
              EraTxOf("EraBond", era_snapshot.bond - era_snapshot.unbond, 0)
      BY <2>4, <3>1 DEF BondByDelegating
    <3>3. BondTxs' \subseteq {Len(pool_txs) + 1}
      BY <2>4, <3>1 DEF BondByDelegating
    <3>4. ~(era_snapshot.unbond >= era_snapshot.bond)
      BY <2>4 DEF BondByDelegating, PoolTypeOK, EraSnapshot
    <3> QED BY <2>2, <3>2, <3>3, <3>4 DEF BondMoves, EraTxOf
  <2> QED BY <1>3, <2>3, <2>4 DEF execute_era_bond
<1>4. CASE UserStep
  <2>1. ASSUME NEW user \in Users, NEW indices \in SUBSET unstakes_index_for_user[user],
               NEW fields \in ReceiverFields, execute_withdraw(user, indices, fields)
        PROVE  BondMoves'
    <3> DEFINE tx == [tx_type |-> "UserWithdraw", user |-> user, unstakes |-> indices,
                      fields |-> fields, amount |-> SumFunctionOnSet(Amounts, indices),
                      ack |-> "none"]
    <3>1. pool_txs' = Append(pool_txs, tx) /\ era_snapshot' = era_snapshot
      BY <2>1 DEF execute_withdraw, pool_vars
    <3>2. tx.ack = "none" /\ tx.tx_type # "EraBond"
      OBVIOUS
    <3> HIDE DEF tx
    <3> QED BY <3>1, <3>2, AppendKept DEF EraTxsKept
  <2> QED BY <1>1, <1>4, <2>1, SameTxsKept
          DEF UserStep, execute_stake, execute_unstake, packet_vars
<1>5. CASE KeeperStep
  BY <1>1, <1>2, <1>3, <1>5, SameTxsKept
     DEF KeeperStep, execute_era_update, execute_era_collect_withdraw,
         execute_era_active, execute_config_pool_paused, packet_vars
<1>6. CASE execute_era_rebond
  BY <1>2, <1>6 DEF execute_era_rebond
<1>7. CASE TransferCallback \/ CollectCallback
  BY <1>2, <1>7 DEF TransferCallback, sudo_era_update_callback,
                    sudo_era_update_failed_callback, CollectCallback,
                    sudo_era_collect_withdraw_callback,
                    sudo_era_collect_withdraw_failed_callback
<1>8. CASE sudo_withdraw_callback \/ sudo_withdraw_failed_callback
  BY <1>1, <1>8, TailKept DEF sudo_withdraw_callback, sudo_withdraw_failed_callback,
                              Answered, pool_vars
<1>9. CASE PoolCallback
  BY <1>2, <1>8, <1>9
     DEF PoolCallback, sudo_era_bond_callback, sudo_era_bond_failed_callback,
         sudo_era_rebond_callback, sudo_era_rebond_failed_callback
<1>10. ASSUME NEW i \in DOMAIN pool_txs, NEW a,
              pool_txs' = [pool_txs EXCEPT ![i].ack = a], era_snapshot' = era_snapshot
       PROVE  BondMoves'
  BY <1>10, AnsweredEraTxs
<1>11. CASE HostStep
  BY <1>1, <1>10, <1>11, SameTxsKept
     DEF HostStep, host_receives_transfer, transfer_fails, host_executes_collect,
         host_executes_era_tx, host_executes_user_withdraw, pool_tx_fails,
         collect_fails, host_completes_unbonding, host_slashes,
         relayer_submits_delegations, relayer_submits_balance, era_elapses,
         packet_vars, pool_vars
<1>12. CASE UNCHANGED vars
  BY <1>1, <1>12, SameTxsKept DEF vars, packet_vars, pool_vars
<1> QED BY <1>4, <1>5, <1>6, <1>7, <1>9, <1>11, <1>12 DEF SerialNext, OtherStep

\* What an answer changes of the collections.
LEMMA CollectAnswered ==
    ASSUME ChannelsTypeOK, NEW i \in DOMAIN withdraw_txs, NEW a,
           withdraw_txs' = [withdraw_txs EXCEPT ![i].ack = a]
    PROVE  /\ DOMAIN withdraw_txs' = DOMAIN withdraw_txs
           /\ \A j \in DOMAIN withdraw_txs : j # i => withdraw_txs'[j] = withdraw_txs[j]
           /\ withdraw_txs'[i].amount = withdraw_txs[i].amount
           /\ withdraw_txs'[i].ack = a
<1>1. /\ DOMAIN withdraw_txs' = DOMAIN withdraw_txs
      /\ \A j \in DOMAIN withdraw_txs : j # i => withdraw_txs'[j] = withdraw_txs[j]
      /\ withdraw_txs'[i] = [withdraw_txs[i] EXCEPT !.ack = a]
  OBVIOUS
<1>2. withdraw_txs[i] \in CollectTx
  BY DEF ChannelsTypeOK
<1> QED BY <1>1, <1>2 DEF CollectTx

\* A step keeps what a failed collection left to restake in the withdraw account.
LEMMA RestakeHeldStep ==
    ASSUME Types, StepOwnsItsPacket, StepOwnsItsPacket', RestakeHeld,
           [SerialNext]_vars
    PROVE  RestakeHeld'
<1>0. /\ withdraw_balance \in Nat /\ balance_icq \in IcqResult
      /\ era_snapshot \in EraSnapshot /\ Rewards \subseteq Nat
      /\ ChannelsTypeOK
  BY ConfigAssumption DEF Types, PoolTypeOK, HostTypeOK, OtherTypeOK
<1> USE <1>0
\* The steps that touch neither the status nor the collection.
<1>1. CASE /\ UNCHANGED <<status, era_snapshot, withdraw_txs, balance_icq>>
           /\ withdraw_balance' \in Nat /\ withdraw_balance' >= withdraw_balance
  BY <1>1 DEF RestakeHeld, SnapshotPending, CollectExecuted, IcqResult, EraSnapshot
\* The steps that end, or lead to, a status in which nothing is to collect.
<1>2. CASE /\ status' \in {"WithdrawEnded", "RebondEnded", "ActiveEnded"}
           /\ balance_icq'.state = "none" => balance_icq'.amount = 0
  BY <1>2 DEF RestakeHeld, SnapshotPending
\* The steps before the bond callback, which do not touch the amount to restake.
<1>3. CASE /\ status' \in {"EraUpdateStarted", "EraUpdateEnded", "BondStarted"}
           /\ SnapshotPending /\ era_snapshot' = era_snapshot
           /\ balance_icq'.state = "none" => balance_icq'.amount = 0
  BY <1>3 DEF RestakeHeld, SnapshotPending
<1>4. ASSUME balance_icq' = balance_icq \/ balance_icq' = Aged(balance_icq)
      PROVE  balance_icq'.state = "none" => balance_icq'.amount = 0
  BY <1>4 DEF RestakeHeld, Aged, IcqResult
<1>5. CASE UserStep
  <2>1. UNCHANGED <<status, era_snapshot, withdraw_txs, balance_icq, withdraw_balance>>
    BY <1>5 DEF UserStep, execute_stake, execute_unstake, execute_withdraw,
                pool_vars, packet_vars, host_vars, icq_vars
  <2> QED BY <1>1, <2>1
<1>6. CASE execute_era_update
  <2>1. status' \in {"EraUpdateStarted", "EraUpdateEnded"}
        /\ era_snapshot'.restake_amount = 0 /\ balance_icq' = Aged(balance_icq)
    BY <1>6 DEF execute_era_update, StepHeightIsNow
  <2> QED BY <1>4, <2>1 DEF RestakeHeld
<1>7. CASE execute_era_bond
  BY <1>3, <1>4, <1>7 DEF execute_era_bond, SnapshotPending, icq_vars
<1>8. CASE execute_era_collect_withdraw
  <2>1. CASE status' = "WithdrawEnded"
    BY <1>2, <1>4, <1>8, <2>1 DEF execute_era_collect_withdraw, icq_vars
  <2>2. CASE status' # "WithdrawEnded"
    <3>1. /\ balance_icq.state # "stale" /\ status = "BondEnded"
          /\ status' = "WithdrawStarted"
          /\ era_snapshot' =
                 [era_snapshot EXCEPT !.restake_amount = balance_icq.amount]
          /\ UNCHANGED <<balance_icq, withdraw_balance>>
      BY <1>8, <2>2 DEF execute_era_collect_withdraw, icq_vars, host_vars
    <3>2. era_snapshot'.restake_amount = balance_icq.amount
      BY <3>1 DEF EraSnapshot
    <3>3. ~CollectExecuted
      BY <3>1, NoPacketOutsideStep DEF CollectExecuted
    <3> QED BY <3>1, <3>2, <3>3 DEF RestakeHeld, SnapshotPending, IcqResult
  <2> QED BY <2>1, <2>2
<1>9. CASE execute_era_active
  BY <1>2, <1>4, <1>9 DEF execute_era_active, icq_vars
<1>10. CASE execute_config_pool_paused
  BY <1>1, <1>10 DEF execute_config_pool_paused, packet_vars, host_vars, icq_vars
<1>11. CASE execute_era_rebond
  BY <1>2, <1>4, <1>11 DEF execute_era_rebond, icq_vars
<1>12. CASE TransferCallback
  <2>1. ASSUME NEW p \in transfers, sudo_era_update_callback(p) PROVE RestakeHeld'
    <3>1. status = "EraUpdateStarted"
      BY NoPacketOutsideStep
    <3> QED BY <1>3, <1>4, <2>1, <3>1
            DEF sudo_era_update_callback, SnapshotPending, StepHeightIsNow
  <2>2. ASSUME NEW p \in transfers, sudo_era_update_failed_callback(p)
        PROVE  RestakeHeld'
    <3>1. balance_icq'.state = "none" => balance_icq'.amount = 0
      BY <2>2 DEF sudo_era_update_failed_callback, RestakeHeld, IcqResult
    <3> QED BY <1>2, <2>2, <3>1 DEF sudo_era_update_failed_callback
  <2> QED BY <1>12, <2>1, <2>2 DEF TransferCallback
<1>13. CASE sudo_era_bond_callback
  <2>1. status = "BondStarted"
    BY <1>13, LastOfStep DEF sudo_era_bond_callback, Answered, StepOwnsItsPacket
  <2>2. /\ status' = "BondEnded" /\ balance_icq' = Aged(balance_icq)
        /\ era_snapshot' = era_snapshot /\ withdraw_balance' = withdraw_balance
    BY <1>13 DEF sudo_era_bond_callback, StepHeightIsNow, host_vars
  <2>3. balance_icq'.state # "stale" => balance_icq'.amount = 0
    BY <2>2 DEF Aged, RestakeHeld, IcqResult
  <2>4. era_snapshot'.restake_amount = 0
    BY <2>1, <2>2 DEF RestakeHeld, SnapshotPending
  <2> QED BY <1>4, <2>2, <2>3, <2>4 DEF RestakeHeld
<1>14. CASE sudo_era_bond_failed_callback
  <2>1. status = "BondStarted"
    BY <1>14, LastOfStep DEF sudo_era_bond_failed_callback, Answered, StepOwnsItsPacket
  <2> QED BY <1>3, <1>4, <1>14, <2>1
          DEF sudo_era_bond_failed_callback, SnapshotPending, icq_vars
<1>15. CASE sudo_era_rebond_callback \/ sudo_era_rebond_failed_callback
  BY <1>2, <1>4, <1>15 DEF sudo_era_rebond_callback, sudo_era_rebond_failed_callback,
                           StepHeightIsNow, icq_vars
<1>16. CASE sudo_withdraw_callback \/ sudo_withdraw_failed_callback
  BY <1>1, <1>16 DEF sudo_withdraw_callback, sudo_withdraw_failed_callback,
                     pool_vars, host_vars, icq_vars
<1>17. CASE sudo_era_collect_withdraw_callback
  BY <1>2, <1>4, <1>17 DEF sudo_era_collect_withdraw_callback, StepHeightIsNow
<1>18. CASE sudo_era_collect_withdraw_failed_callback
  <2>1. withdraw_txs # <<>> /\ withdraw_txs[1].ack = "error"
    BY <1>18 DEF sudo_era_collect_withdraw_failed_callback, ChannelsTypeOK
  <2>2. status = "WithdrawStarted" /\ ~CollectExecuted
    BY <2>1, NoPacketOutsideStep DEF CollectExecuted, ChannelsTypeOK
  <2>3. /\ status' = "BondEnded"
        /\ UNCHANGED <<era_snapshot, balance_icq, withdraw_balance>>
    BY <1>18 DEF sudo_era_collect_withdraw_failed_callback, host_vars, icq_vars
  <2> QED BY <2>2, <2>3 DEF RestakeHeld, SnapshotPending
<1>19. ASSUME NEW i \in DOMAIN pool_txs, NEW reward \in Rewards,
              host_executes_era_tx(i, reward)
       PROVE  RestakeHeld'
  BY <1>1, <1>19 DEF host_executes_era_tx, pool_vars, icq_vars
<1>20. ASSUME NEW i \in DOMAIN withdraw_txs, host_executes_collect(i)
       PROVE  RestakeHeld'
  <2>1. /\ withdraw_txs' = [withdraw_txs EXCEPT ![i].ack = "ok"]
        /\ UNCHANGED <<status, era_snapshot, balance_icq>>
    BY <1>20 DEF host_executes_collect, pool_vars, icq_vars
  <2>2. i \in DOMAIN withdraw_txs' /\ withdraw_txs'[i].ack = "ok"
    BY <2>1, CollectAnswered
  <2>3. CollectExecuted'
    BY <2>2 DEF CollectExecuted
  <2> QED BY <2>1, <2>3 DEF RestakeHeld, SnapshotPending
<1>21. ASSUME NEW i \in DOMAIN withdraw_txs, collect_fails(i)
       PROVE  RestakeHeld'
  <2>1. /\ withdraw_txs' = [withdraw_txs EXCEPT ![i].ack = "error"]
        /\ withdraw_txs[i].ack = "none"
        /\ UNCHANGED <<status, era_snapshot, balance_icq, withdraw_balance>>
    BY <1>21 DEF collect_fails, NextToHandle, pool_vars, icq_vars, host_vars
  <2>2. CollectExecuted' = CollectExecuted
    <3>1. /\ DOMAIN withdraw_txs' = DOMAIN withdraw_txs
          /\ \A j \in DOMAIN withdraw_txs : j # i => withdraw_txs'[j] = withdraw_txs[j]
          /\ withdraw_txs'[i].ack = "error"
      BY <2>1, CollectAnswered
    <3> QED BY <2>1, <3>1 DEF CollectExecuted
  <2> QED BY <2>1, <2>2 DEF RestakeHeld, SnapshotPending
<1>22. CASE relayer_submits_balance
  BY <1>22 DEF relayer_submits_balance, RestakeHeld, SnapshotPending, CollectExecuted,
               pool_vars, packet_vars, host_vars, IcqResult, EraSnapshot
<1>23. CASE HostStep
  BY <1>1, <1>19, <1>20, <1>21, <1>22, <1>23
     DEF HostStep, host_receives_transfer, transfer_fails, host_executes_user_withdraw,
         pool_tx_fails, host_completes_unbonding, host_slashes,
         relayer_submits_delegations, era_elapses, pool_vars, packet_vars, host_vars,
         icq_vars
<1>24. CASE UNCHANGED vars
  BY <1>1, <1>24 DEF vars, pool_vars, packet_vars, host_vars, icq_vars
<1> QED
  BY <1>5, <1>6, <1>7, <1>8, <1>9, <1>10, <1>11, <1>12, <1>13, <1>14, <1>15, <1>16,
     <1>17, <1>18, <1>23, <1>24
     DEF SerialNext, OtherStep, KeeperStep, PoolCallback, CollectCallback

-----------------------------------------------------------------------------
\* The open claims are the requests without those the host has paid.
LEMMA ClaimFields ==
    ASSUME UnstakeTypeOK
    PROVE  /\ DOMAIN OpenClaims = DOMAIN unstakes_of_index \ PaidOnHost
           /\ \A i \in DOMAIN OpenClaims :
                  OpenClaims[i] = [owner |-> unstakes_of_index[i].unstaker,
                                   amount |-> unstakes_of_index[i].amount]
BY DEF OpenClaims

\* A step that changes neither the open requests nor their owners and amounts.
LEMMA ClaimsSame ==
    ASSUME DOMAIN unstakes_of_index' \ PaidOnHost' = DOMAIN unstakes_of_index \ PaidOnHost,
           \A i \in DOMAIN unstakes_of_index \ PaidOnHost :
               /\ unstakes_of_index'[i].unstaker = unstakes_of_index[i].unstaker
               /\ unstakes_of_index'[i].amount = unstakes_of_index[i].amount
    PROVE  OpenClaims' = OpenClaims
BY DEF OpenClaims

\* A step that leaves the requests and the executed payments alone.
LEMMA ClaimsLeft ==
    ASSUME UNCHANGED unstake_vars, NEW m, SameUserTxs(m), SamePaid(m)
    PROVE  OpenClaims' = OpenClaims
<1>1. PaidOnHost' \subseteq PaidOnHost
  BY PaidByUserTxs DEF SameUserTxs, SamePaid
<1>2. PaidOnHost \subseteq PaidOnHost'
  <2> SUFFICES ASSUME NEW k \in UserTxs, pool_txs[k].ack = "ok",
                      NEW i \in pool_txs[k].unstakes
               PROVE  i \in PaidOnHost'
    BY PaidByUserTxs
  <2>1. PICK j \in UserTxs' : m[j] = k
    BY DEF SameUserTxs
  <2> QED BY <2>1, PaidByUserTxs DEF SameUserTxs, SamePaid
<1>3. unstakes_of_index' = unstakes_of_index
  BY DEF unstake_vars
<1> QED BY <1>1, <1>2, <1>3, ClaimsSame

\* An unstake opens a claim with a number of its own.
LEMMA UnstakeClaims ==
    ASSUME Types, IndicesIssued, Requests, misread = {}, NEW user \in Users,
           NEW amount \in 1..total_lsd_token_amount, execute_unstake(user, amount)
    PROVE  /\ next_unstake_index + 1 \notin DOMAIN OpenClaims
           /\ OpenClaims' =
                  [i \in DOMAIN OpenClaims \cup {next_unstake_index + 1} |->
                      IF i = next_unstake_index + 1
                      THEN [owner |-> user,
                            amount |-> TokenValue(BurnAmount(amount)) - PRECISION_GAP]
                      ELSE OpenClaims[i]]
<1> DEFINE n == next_unstake_index + 1
<1>1. n \notin DOMAIN unstakes_of_index
  BY DEF IndicesIssued, Types, PoolTypeOK
<1>2. PaidOnHost' = PaidOnHost /\ PaidOnHost \subseteq DOMAIN unstakes_of_index
  <2>1. pool_txs' = pool_txs
    BY DEF execute_unstake, packet_vars
  <2>2. PaidOnHost \subseteq DOMAIN unstakes_of_index
    BY PaidByUserTxs, PaymentsWithin
  <2> QED BY <2>1, <2>2 DEF PaidOnHost
<1>3. /\ DOMAIN unstakes_of_index' = DOMAIN unstakes_of_index \cup {n}
      /\ \A i \in DOMAIN unstakes_of_index : unstakes_of_index'[i] = unstakes_of_index[i]
      /\ unstakes_of_index'[n].unstaker = user
      /\ unstakes_of_index'[n].amount = TokenValue(BurnAmount(amount)) - PRECISION_GAP
  BY <1>1 DEF execute_unstake
<1> HIDE DEF n
<1>4. DOMAIN unstakes_of_index' \ PaidOnHost' =
          (DOMAIN unstakes_of_index \ PaidOnHost) \cup {n}
  BY <1>1, <1>2, <1>3
<1>5. OpenClaims' =
          [i \in (DOMAIN unstakes_of_index \ PaidOnHost) \cup {n} |->
              IF i = n THEN [owner |-> user,
                             amount |-> TokenValue(BurnAmount(amount)) - PRECISION_GAP]
                       ELSE OpenClaims[i]]
  BY <1>1, <1>3, <1>4 DEF OpenClaims
<1>6. n \notin DOMAIN OpenClaims /\ DOMAIN OpenClaims = DOMAIN unstakes_of_index \ PaidOnHost
  BY <1>1 DEF OpenClaims
<1> QED BY <1>5, <1>6 DEF n

\* An executed payment takes its claims, all of them open and its user's.
LEMMA PaymentClaims ==
    ASSUME Types, Requests, misread = {}, NEW i \in DOMAIN pool_txs, host_executes_user_withdraw(i)
    PROVE  /\ i \in UserTxs /\ pool_txs[i].user \in Users
           /\ pool_txs[i].unstakes \subseteq DOMAIN OpenClaims
           /\ \A k \in pool_txs[i].unstakes : OpenClaims[k].owner = pool_txs[i].user
           /\ pool_txs[i].amount = SumFunctionOnSet(Amounts, pool_txs[i].unstakes)
           /\ OpenClaims' = [k \in DOMAIN OpenClaims \ pool_txs[i].unstakes |-> OpenClaims[k]]
<1> DEFINE U == pool_txs[i].unstakes
<1>1. /\ i \in UserTxs /\ pool_txs[i].ack = "none"
      /\ pool_txs' = [pool_txs EXCEPT ![i].ack = "ok"]
      /\ unstakes_of_index' = unstakes_of_index
  BY DEF host_executes_user_withdraw, NextToHandle, UserTxs, unstake_vars
<1>2. /\ UserTxs' = UserTxs
      /\ \A j \in UserTxs : /\ pool_txs'[j].unstakes = pool_txs[j].unstakes
                            /\ pool_txs'[j].ack = IF j = i THEN "ok" ELSE pool_txs[j].ack
  <2>1. /\ DOMAIN pool_txs' = DOMAIN pool_txs
        /\ \A j \in DOMAIN pool_txs : pool_txs'[j].tx_type = pool_txs[j].tx_type
        /\ \A j \in UserTxs :
               /\ pool_txs'[j].unstakes = pool_txs[j].unstakes
               /\ pool_txs'[j].ack = IF j = i THEN "ok" ELSE pool_txs[j].ack
    BY <1>1, AnsweredUserTxs DEF Types, ChannelsTypeOK, UserTxs
  <2> QED BY <2>1 DEF UserTxs
<1>3. U \subseteq DOMAIN unstakes_of_index /\ U \cap PaidOnHost = {}
  <2>1. \A j \in UserTxs : pool_txs[j].ack = "ok" => pool_txs[j].unstakes \cap U = {}
    BY <1>1, PaymentsWithin
  <2>2. U \subseteq DOMAIN unstakes_of_index
    BY <1>1, PaymentsWithin
  <2> QED BY <1>1, <2>1, <2>2, PaidByUserTxs
<1>4. PaidOnHost' = PaidOnHost \cup U
  <2>1. \A k : k \in PaidOnHost' => k \in PaidOnHost \cup U
    BY <1>2, PaidByUserTxs
  <2>2. \A k : k \in PaidOnHost \cup U => k \in PaidOnHost'
    BY <1>1, <1>2, PaidByUserTxs
  <2> QED BY <2>1, <2>2
<1>5. DOMAIN OpenClaims = DOMAIN unstakes_of_index \ PaidOnHost
  BY DEF OpenClaims
<1>6. \A k \in U : OpenClaims[k].owner = pool_txs[i].user
  BY <1>1, <1>3, PaymentsWithin DEF OpenClaims
<1>7. pool_txs[i].user \in Users
  BY <1>1, UserTxTyped DEF Types, UserWithdrawTx
<1>8. pool_txs[i].amount = SumFunctionOnSet(Amounts, U)
  BY <1>1, PaymentsWithin
<1> HIDE DEF U
<1>9. DOMAIN unstakes_of_index' \ PaidOnHost' = DOMAIN OpenClaims \ U
  BY <1>1, <1>4, <1>5
<1>10. OpenClaims' = [k \in DOMAIN OpenClaims \ U |-> OpenClaims[k]]
  BY <1>1, <1>5, <1>9 DEF OpenClaims
<1> QED BY <1>1, <1>3, <1>5, <1>6, <1>7, <1>8, <1>10 DEF U

\* No other step changes a claim.
LEMMA ClaimsStep ==
    ASSUME Types, IndicesIssued, Requests, misread = {}, [SerialNext]_vars
    PROVE  \/ \E user \in Users, amount \in 1..total_lsd_token_amount :
                  execute_unstake(user, amount)
           \/ \E i \in DOMAIN pool_txs : host_executes_user_withdraw(i)
           \/ OpenClaims' = OpenClaims
<1>0. ChannelsTypeOK /\ UnstakeTypeOK
  BY DEF Types
<1>1. ASSUME NEW user \in Users, NEW indices \in SUBSET unstakes_index_for_user[user],
             NEW fields \in ReceiverFields, execute_withdraw(user, indices, fields)
      PROVE  OpenClaims' = OpenClaims
  <2>1. /\ PaidOnHost' = PaidOnHost
        /\ DOMAIN unstakes_of_index' = DOMAIN unstakes_of_index
        /\ Amounts' = Amounts
        /\ \A i \in DOMAIN unstakes_of_index :
               unstakes_of_index'[i].unstaker = unstakes_of_index[i].unstaker
    BY <1>1, WithdrawRequests
  <2>2. \A i \in DOMAIN unstakes_of_index :
            unstakes_of_index'[i].amount = unstakes_of_index[i].amount
    BY <2>1 DEF Amounts
  <2> QED BY <2>1, <2>2, ClaimsSame
<1>2. ASSUME sudo_withdraw_callback PROVE OpenClaims' = OpenClaims
  <2> DEFINE U == pool_txs[1].unstakes
  <2>1. /\ pool_txs # <<>> /\ pool_txs' = Tail(pool_txs)
        /\ Head(pool_txs).tx_type = "UserWithdraw" /\ Head(pool_txs).ack = "ok"
    BY <1>2 DEF sudo_withdraw_callback, Answered
  <2>2. /\ 1 \in UserTxs /\ pool_txs[1].ack = "ok" /\ Head(pool_txs) = pool_txs[1]
        /\ \A j \in UserTxs' : /\ j + 1 \in UserTxs \ {1}
                               /\ pool_txs'[j] = pool_txs[j + 1]
                               /\ pool_txs[j + 1].unstakes \cap U = {}
        /\ \A k \in UserTxs \ {1} : /\ k - 1 \in UserTxs'
                                    /\ pool_txs'[k - 1] = pool_txs[k]
    BY <2>1, PaymentTaken
  <2>3. /\ DOMAIN unstakes_of_index' = DOMAIN unstakes_of_index \ U
        /\ \A i \in DOMAIN unstakes_of_index' : unstakes_of_index'[i] = unstakes_of_index[i]
    BY <1>2, <2>2, PaidRequests
  <2> HIDE DEF U
  <2>4. \A i : i \in PaidOnHost' => i \in PaidOnHost
    BY <2>2, PaidByUserTxs
  <2>5. \A i : i \in PaidOnHost /\ i \notin U => i \in PaidOnHost'
    <3> SUFFICES ASSUME NEW k \in UserTxs, pool_txs[k].ack = "ok",
                        NEW i \in pool_txs[k].unstakes, i \notin U
                 PROVE  i \in PaidOnHost'
      BY PaidByUserTxs
    <3>1. k # 1
      BY DEF U
    <3> QED BY <2>2, <3>1, PaidByUserTxs
  <2>6. \A i \in U : i \in PaidOnHost
    BY <2>2, PaidByUserTxs DEF U
  <2>7. DOMAIN unstakes_of_index' \ PaidOnHost' = DOMAIN unstakes_of_index \ PaidOnHost
    BY <2>3, <2>4, <2>5, <2>6
  <2> QED BY <2>3, <2>7, ClaimsSame
<1>3. ASSUME sudo_withdraw_failed_callback PROVE OpenClaims' = OpenClaims
  <2>1. /\ pool_txs # <<>> /\ pool_txs' = Tail(pool_txs)
        /\ Head(pool_txs).tx_type = "UserWithdraw" /\ Head(pool_txs).ack = "error"
    BY <1>3 DEF sudo_withdraw_failed_callback, Answered
  <2>2. /\ pool_txs[1].ack = "error"
        /\ \A j \in UserTxs' : /\ j + 1 \in UserTxs
                               /\ pool_txs'[j] = pool_txs[j + 1]
        /\ \A k \in UserTxs \ {1} : /\ k - 1 \in UserTxs'
                                    /\ pool_txs'[k - 1] = pool_txs[k]
    BY <2>1, PaymentTaken
  <2>3. /\ DOMAIN unstakes_of_index' = DOMAIN unstakes_of_index
        /\ Amounts' = Amounts
        /\ \A i \in DOMAIN unstakes_of_index :
               unstakes_of_index'[i].unstaker = unstakes_of_index[i].unstaker
    BY <1>3, ReopenedRequests
  <2>4. \A i \in DOMAIN unstakes_of_index :
            unstakes_of_index'[i].amount = unstakes_of_index[i].amount
    BY <2>3 DEF Amounts
  <2>5. \A i : i \in PaidOnHost' => i \in PaidOnHost
    BY <2>2, PaidByUserTxs
  <2>6. \A i : i \in PaidOnHost => i \in PaidOnHost'
    <3> SUFFICES ASSUME NEW k \in UserTxs, pool_txs[k].ack = "ok",
                        NEW i \in pool_txs[k].unstakes
                 PROVE  i \in PaidOnHost'
      BY PaidByUserTxs
    <3>1. k # 1
      BY <2>2
    <3> QED BY <2>2, <3>1, PaidByUserTxs
  <2>7. DOMAIN unstakes_of_index' \ PaidOnHost' = DOMAIN unstakes_of_index \ PaidOnHost
    BY <2>3, <2>5, <2>6
  <2> QED BY <2>3, <2>4, <2>7, ClaimsSame
<1>4. ASSUME UNCHANGED unstake_vars, UserTxsKept PROVE OpenClaims' = OpenClaims
  BY <1>4, ClaimsLeft DEF UserTxsKept
<1> QED BY <1>0, <1>1, <1>2, <1>3, <1>4, RequestSteps, UserTxSteps

\* What is owed is the total of the open claims.
LEMMA OwedStep ==
    ASSUME Types, Types', IndicesIssued, IndicesIssued', Requests, misread = {}
    PROVE  /\ Owed \in Nat
           /\ OpenClaims' = OpenClaims => Owed' = Owed
           /\ \A user \in Users, amount \in 1..total_lsd_token_amount :
                  execute_unstake(user, amount) =>
                      Owed' = Owed + TokenValue(BurnAmount(amount)) - PRECISION_GAP
           /\ \A i \in DOMAIN pool_txs : host_executes_user_withdraw(i) =>
                  Owed' = Owed - pool_txs[i].amount
<1> DEFINE Open == DOMAIN unstakes_of_index \ PaidOnHost
<1>1. /\ DOMAIN OpenClaims = Open /\ IsFiniteSet(Open)
      /\ \A i \in Open : Amounts[i] \in Nat
      /\ \A i \in Open : Amounts[i] = OpenClaims[i].amount
      /\ Owed = SumFunctionOnSet(Amounts, Open) /\ Owed \in Nat
  <2>1. DOMAIN OpenClaims = Open /\ Owed = SumFunctionOnSet(Amounts, Open)
    BY DEF OpenClaims, Owed
  <2>2. \A i \in Open : Amounts[i] = OpenClaims[i].amount
    BY DEF OpenClaims, Amounts
  <2>3. /\ IsFiniteSet(Open) /\ \A i \in Open : Amounts[i] \in Nat
        /\ SumFunctionOnSet(Amounts, Open) \in Nat
    BY RequestsSummed DEF Types
  <2> QED BY <2>1, <2>2, <2>3
<1>2. /\ DOMAIN OpenClaims' = Open'
      /\ \A i \in Open' : Amounts'[i] = OpenClaims'[i].amount
      /\ Owed' = SumFunctionOnSet(Amounts', Open')
  BY DEF OpenClaims, Amounts, Owed
<1>3. \A i \in Open' : Amounts'[i] \in Nat
  BY DEF Types, UnstakeTypeOK, UnstakeInfo, Amounts
<1> HIDE DEF Open
<1>4. ASSUME OpenClaims' = OpenClaims PROVE Owed' = Owed
  <2>1. Open' = Open /\ \A i \in Open : Amounts[i] = Amounts'[i]
    BY <1>1, <1>2, <1>4
  <2> QED BY <1>1, <1>2, <2>1, SumSame
<1>5. ASSUME NEW user \in Users, NEW amount \in 1..total_lsd_token_amount,
             execute_unstake(user, amount)
      PROVE  Owed' = Owed + TokenValue(BurnAmount(amount)) - PRECISION_GAP
  <2> DEFINE n == next_unstake_index + 1
             v == TokenValue(BurnAmount(amount)) - PRECISION_GAP
  <2>1. /\ n \notin DOMAIN OpenClaims
        /\ OpenClaims' =
               [i \in DOMAIN OpenClaims \cup {n} |->
                   IF i = n THEN [owner |-> user, amount |-> v] ELSE OpenClaims[i]]
    BY <1>5, UnstakeClaims
  <2> HIDE DEF n, v
  <2>2. /\ n \notin Open /\ Open' = Open \cup {n}
        /\ Amounts'[n] = v
        /\ \A i \in Open : Amounts[i] = Amounts'[i]
    BY <1>1, <1>2, <2>1
  <2>3. Owed' = SumFunctionOnSet(Amounts', Open) + Amounts'[n]
    BY <1>1, <1>2, <1>3, <2>2, SumAdd
  <2>4. SumFunctionOnSet(Amounts', Open) = Owed
    BY <1>1, <2>2, SumSame
  <2>5. Owed' = Owed + v
    BY <2>2, <2>3, <2>4
  <2>6. TokenValue(BurnAmount(amount)) \in Nat
    BY <1>5, UnstakeTyped DEF Types
  <2> QED BY <1>1, <2>5, <2>6, ScaleAssumption DEF v
<1>6. ASSUME NEW i \in DOMAIN pool_txs, host_executes_user_withdraw(i)
      PROVE  Owed' = Owed - pool_txs[i].amount
  <2> DEFINE U == pool_txs[i].unstakes
  <2>1. /\ U \subseteq DOMAIN OpenClaims
        /\ pool_txs[i].amount = SumFunctionOnSet(Amounts, U)
        /\ OpenClaims' = [k \in DOMAIN OpenClaims \ U |-> OpenClaims[k]]
    BY <1>6, PaymentClaims
  <2> HIDE DEF U
  <2>2. /\ Open' = Open \ U /\ \A k \in Open \ U : Amounts[k] = Amounts'[k]
        /\ U \in SUBSET Open /\ IsFiniteSet(Open \ U)
    BY <1>1, <1>2, <2>1, FS_Difference
  <2>3. Owed' = SumFunctionOnSet(Amounts, Open \ U)
    BY <1>2, <2>2, SumSame
  <2>4. Owed = SumFunctionOnSet(Amounts, U) + SumFunctionOnSet(Amounts, Open \ U)
    BY <1>1, <2>2, SumPart
  <2>5. SumFunctionOnSet(Amounts, U) \in Nat /\ SumFunctionOnSet(Amounts, Open \ U) \in Nat
    BY <1>1, <2>2, SumNat, FS_Subset
  <2> QED BY <2>1, <2>3, <2>4, <2>5
<1> QED BY <1>1, <1>4, <1>5, <1>6

\* What the host account holds or gets back, without what is earmarked for
\* delegation: the claims are paid from it.
Spare == pool_balance + unbonding
             + (unbond - IF BondExecuted THEN era_snapshot.unbond ELSE 0) - Earmarked

\* A step that leaves the accounts, the counters and what is earmarked alone.
LEMMA SpareKept ==
    ASSUME HostTypeOK, PoolTypeOK,
           UNCHANGED <<pool_balance, unbonding, unbond, era_snapshot>>,
           BondExecuted' = BondExecuted, Earmarked' = Earmarked
    PROVE  Spare' = Spare
BY DEF Spare

\* Amounts of the pool are integers.
LEMMA SpareTyped ==
    ASSUME Types
    PROVE  /\ Spare \in Int /\ Earmarked \in Nat
           /\ pool_balance \in Nat /\ unbonding \in Nat /\ unbond \in Nat
           /\ era_snapshot.bond \in Nat /\ era_snapshot.unbond \in Nat
           /\ era_snapshot.restake_amount \in Nat
<1>1. /\ pool_balance \in Nat /\ unbonding \in Nat /\ unbond \in Nat
      /\ era_snapshot.bond \in Nat /\ era_snapshot.unbond \in Nat
      /\ era_snapshot.restake_amount \in Nat
  BY DEF Types, PoolTypeOK, HostTypeOK, EraSnapshot
<1>2. Earmarked \in Nat
  BY <1>1 DEF Earmarked
<1> QED BY <1>1, <1>2 DEF Spare

\* A step that touches no era transaction, status or snapshot earmarks the same.
LEMMA EarmarkedKept ==
    ASSUME UNCHANGED <<status, era_snapshot, transfers, withdraw_txs>>, EraTxsKept
    PROVE  Earmarked' = Earmarked /\ BondExecuted' = BondExecuted
BY DEF Earmarked, EraTxsKept

\* An unstake leaves in the account what its request will be paid from.
LEMMA SpareOfUnstake ==
    ASSUME Types, NEW user \in Users, NEW amount \in 1..total_lsd_token_amount,
           execute_unstake(user, amount)
    PROVE  Spare' = Spare + TokenValue(BurnAmount(amount))
<1>0. /\ PoolTypeOK /\ Earmarked \in Nat /\ era_snapshot.unbond \in Nat
      /\ pool_balance \in Nat /\ unbonding \in Nat /\ unbond \in Nat
  BY SpareTyped DEF Types
<1> USE <1>0
<1>1. /\ unbond' = unbond + TokenValue(BurnAmount(amount))
      /\ UNCHANGED <<pool_balance, unbonding, era_snapshot, status>>
      /\ UNCHANGED packet_vars
  BY DEF execute_unstake, host_vars
<1>2. Earmarked' = Earmarked /\ BondExecuted' = BondExecuted
  BY <1>1, SameTxsKept, EarmarkedKept DEF packet_vars
<1>3. TokenValue(BurnAmount(amount)) \in Nat
  BY UnstakeTyped
<1> QED BY <1>1, <1>2, <1>3 DEF Spare

\* A payment takes from the account what its requests are worth.
LEMMA SpareOfPayment ==
    ASSUME Types, NEW i \in DOMAIN pool_txs, host_executes_user_withdraw(i)
    PROVE  Spare' = Spare - pool_txs[i].amount
<1>0. /\ ChannelsTypeOK /\ Earmarked \in Nat /\ era_snapshot.unbond \in Nat
      /\ pool_balance \in Nat /\ unbonding \in Nat /\ unbond \in Nat
  BY SpareTyped DEF Types
<1> USE <1>0
<1>1. /\ pool_txs[i].ack = "none" /\ pool_txs[i].tx_type = "UserWithdraw"
      /\ pool_txs' = [pool_txs EXCEPT ![i].ack = "ok"]
      /\ pool_balance' = pool_balance - pool_txs[i].amount
      /\ UNCHANGED <<unbonding, unbond, era_snapshot, status, transfers, withdraw_txs>>
  BY DEF host_executes_user_withdraw, NextToHandle, pool_vars
<1>2. EraTxsKept
  BY <1>1, AnswerKept
<1>3. Earmarked' = Earmarked /\ BondExecuted' = BondExecuted
  BY <1>1, <1>2, EarmarkedKept
<1>4. pool_txs[i].amount \in Nat
  BY <1>1, UserTxTyped DEF UserTxs, UserWithdrawTx
<1> QED BY <1>1, <1>3, <1>4 DEF Spare

\* No step but an unstake and a payment changes what claims are paid from: a bond
\* delegates what was earmarked and undelegates the rest, a collection earmarks
\* what it brings in.
LEMMA SpareStep ==
    ASSUME Types, Types', StepOwnsItsPacket, StepOwnsItsPacket', BondMoves,
           RestakeHeld, [SerialNext]_vars
    PROVE  \/ \E user \in Users, amount \in 1..total_lsd_token_amount :
                  /\ execute_unstake(user, amount)
                  /\ Spare' = Spare + TokenValue(BurnAmount(amount))
           \/ \E i \in DOMAIN pool_txs :
                  /\ host_executes_user_withdraw(i)
                  /\ Spare' = Spare - pool_txs[i].amount
           \/ Spare' >= Spare
<1>0. /\ PoolTypeOK /\ ChannelsTypeOK /\ HostTypeOK
      /\ Spare \in Int /\ Earmarked \in Nat
      /\ pool_balance \in Nat /\ unbonding \in Nat /\ unbond \in Nat
      /\ era_snapshot.bond \in Nat /\ era_snapshot.unbond \in Nat
      /\ era_snapshot.restake_amount \in Nat
  BY SpareTyped DEF Types
<1> USE <1>0
\* The steps that touch nothing it is made of.
<1>1. ASSUME UNCHANGED <<pool_balance, unbonding, unbond, era_snapshot>>,
             BondExecuted' = BondExecuted, Earmarked' = Earmarked
      PROVE  Spare' >= Spare
  BY <1>1, SpareKept
<1>2. ASSUME UNCHANGED <<pool_balance, unbonding, unbond, era_snapshot>>,
             UNCHANGED <<status, transfers, withdraw_txs>>, EraTxsKept
      PROVE  Spare' >= Spare
  BY <1>1, <1>2, EarmarkedKept
\* The steps between two statuses in which nothing is to be delegated.
<1>3. ASSUME UNCHANGED <<pool_balance, unbonding, unbond>>,
             ~BondExecuted, ~BondExecuted', Earmarked = 0, Earmarked' = 0
      PROVE  Spare' >= Spare
  BY <1>3 DEF Spare
<1>4. ASSUME NEW amount \in StakeAmounts, execute_stake(amount)
      PROVE  Spare' >= Spare
  BY <1>2, <1>4, SameTxsKept DEF execute_stake, packet_vars, host_vars
<1>5. ASSUME NEW user \in Users, NEW amount \in 1..total_lsd_token_amount,
             execute_unstake(user, amount)
      PROVE  Spare' = Spare + TokenValue(BurnAmount(amount))
  BY <1>5, SpareOfUnstake
<1>6. ASSUME NEW user \in Users, NEW indices \in SUBSET unstakes_index_for_user[user],
             NEW fields \in ReceiverFields, execute_withdraw(user, indices, fields)
      PROVE  Spare' >= Spare
  <2> DEFINE tx == [tx_type |-> "UserWithdraw", user |-> user, unstakes |-> indices,
                    fields |-> fields, amount |-> SumFunctionOnSet(Amounts, indices),
                    ack |-> "none"]
  <2>1. pool_txs' = Append(pool_txs, tx)
    BY <1>6 DEF execute_withdraw
  <2>2. tx.ack = "none" /\ tx.tx_type # "EraBond"
    OBVIOUS
  <2> HIDE DEF tx
  <2>3. EraTxsKept
    BY <2>1, <2>2, AppendKept
  <2> QED BY <1>2, <1>6, <2>3 DEF execute_withdraw, pool_vars, host_vars
<1>7. ASSUME execute_era_update PROVE Spare' >= Spare
  <2>1. status = "ActiveEnded" /\ ~BondExecuted /\ ~BondExecuted' /\ Earmarked = 0
    BY <1>7, NoPacketOutsideStep, NoPacketAfterStep DEF execute_era_update, Earmarked
  <2>2. Earmarked' = 0
    <3>1. CASE bond = 0
      BY <1>7, <3>1 DEF execute_era_update, Earmarked
    <3>2. CASE bond # 0
      <4>1. /\ status' = "EraUpdateStarted"
            /\ transfers' = {[era |-> era + 1, amount |-> bond, ack |-> "none"]}
        BY <1>7, <2>1, <3>2, NoPacketOutsideStep DEF execute_era_update
      <4>2. \A p \in transfers' : p.ack # "ok"
        BY <4>1
      <4> QED BY <4>1, <4>2 DEF Earmarked
    <3> QED BY <3>1, <3>2
  <2> QED BY <1>3, <1>7, <2>1, <2>2 DEF execute_era_update, host_vars
<1>8. ASSUME execute_era_bond PROVE Spare' >= Spare
  <2>1. BondExecuted' = BondExecuted
    <3>1. \E tx : pool_txs' = Append(pool_txs, tx) /\ tx.ack = "none"
      BY <1>8 DEF execute_era_bond, BondByUndelegating, BondByDelegating, EraTxOf
    <3> QED BY <3>1, AppendKept
  <2>2. ~BondExecuted
    BY <1>8, NoPacketOutsideStep DEF execute_era_bond
  <2>3. Earmarked' = Earmarked
    BY <1>8, <2>1, <2>2 DEF execute_era_bond, Earmarked
  <2> QED BY <1>1, <1>8, <2>1, <2>3 DEF execute_era_bond, host_vars
<1>9. ASSUME execute_era_collect_withdraw PROVE Spare' >= Spare
  <2>1. /\ status = "BondEnded" /\ ~BondExecuted /\ ~BondExecuted' /\ Earmarked = 0
        /\ DOMAIN withdraw_txs = {}
    BY <1>9, NoPacketOutsideStep, NoPacketAfterStep
       DEF execute_era_collect_withdraw, Earmarked
  <2>2. Earmarked' = 0
    <3>1. CASE balance_icq.amount = 0
      <4>1. era_snapshot.restake_amount <= 0
        BY <1>9, <2>1, <3>1 DEF execute_era_collect_withdraw, RestakeHeld, CollectExecuted
      <4>2. status' = "WithdrawEnded" /\ era_snapshot' = era_snapshot
        BY <1>9, <3>1 DEF execute_era_collect_withdraw
      <4> QED BY <4>1, <4>2 DEF Earmarked
    <3>2. CASE balance_icq.amount # 0
      <4> DEFINE tx == [amount |-> balance_icq.amount, ack |-> "none"]
      <4>1. status' = "WithdrawStarted" /\ withdraw_txs' = Append(withdraw_txs, tx)
        BY <1>9, <3>2 DEF execute_era_collect_withdraw
      <4>2. withdraw_txs'[1] = tx
        BY <2>1, <4>1 DEF ChannelsTypeOK
      <4>3. withdraw_txs'[1].ack # "ok"
        BY <4>2
      <4> QED BY <4>1, <4>3 DEF Earmarked
    <3> QED BY <3>1, <3>2
  <2> QED BY <1>3, <1>9, <2>1, <2>2 DEF execute_era_collect_withdraw, host_vars
<1>10. ASSUME ~RebondInFlight, execute_era_rebond PROVE Spare' >= Spare
  <2>1. ~RebondExecuted /\ ~BondExecuted /\ ~BondExecuted' /\ status = "WithdrawEnded"
    BY <1>10, NoPacketOutsideStep, NoPacketAfterStep
       DEF execute_era_rebond, RebondInFlight, RebondExecuted, RebondTxs
  <2>2. CASE era_snapshot.restake_amount = 0
    <3>1. Earmarked = 0 /\ Earmarked' = 0
      BY <1>10, <2>1, <2>2 DEF execute_era_rebond, Earmarked
    <3> QED BY <1>3, <1>10, <2>1, <3>1 DEF execute_era_rebond, host_vars
  <2>3. CASE era_snapshot.restake_amount # 0
    <3>1. \E tx : pool_txs' = Append(pool_txs, tx) /\ tx.ack = "none"
                  /\ tx.tx_type # "EraBond"
      BY <1>10, <2>3 DEF execute_era_rebond, EraTxOf
    <3>2. EraTxsKept
      BY <3>1, AppendKept
    <3> QED BY <1>2, <1>10, <2>3, <3>2 DEF execute_era_rebond, host_vars
  <2> QED BY <2>2, <2>3
<1>11. ASSUME execute_era_active PROVE Spare' >= Spare
  <2>1. ~BondExecuted /\ ~BondExecuted' /\ Earmarked = 0 /\ Earmarked' = 0
    BY <1>11, NoPacketOutsideStep, NoPacketAfterStep DEF execute_era_active, Earmarked
  <2> QED BY <1>3, <1>11, <2>1 DEF execute_era_active, host_vars
<1>12. ASSUME execute_config_pool_paused PROVE Spare' >= Spare
  BY <1>2, <1>12, SameTxsKept DEF execute_config_pool_paused, packet_vars, host_vars
<1>13. ASSUME NEW p \in transfers, sudo_era_update_callback(p) PROVE Spare' >= Spare
  <2>1. /\ status = "EraUpdateStarted" /\ status' = "EraUpdateEnded"
        /\ ~BondExecuted /\ ~BondExecuted' /\ ~RebondExecuted'
        /\ era_snapshot' = era_snapshot
    BY <1>13, NoPacketOutsideStep, NoPacketAfterStep DEF sudo_era_update_callback
  <2>2. Earmarked = era_snapshot.bond /\ Earmarked' = era_snapshot.bond
    BY <1>13, <2>1 DEF Earmarked, sudo_era_update_callback
  <2>3. BondExecuted' = BondExecuted
    BY <2>1 DEF BondExecuted
  <2> QED BY <1>1, <1>13, <2>1, <2>2, <2>3 DEF sudo_era_update_callback, host_vars
<1>14. ASSUME NEW p \in transfers, sudo_era_update_failed_callback(p)
       PROVE  Spare' >= Spare
  <2>1. /\ status = "EraUpdateStarted" /\ status' = "ActiveEnded"
        /\ ~BondExecuted /\ ~BondExecuted'
    BY <1>14, NoPacketOutsideStep, NoPacketAfterStep DEF sudo_era_update_failed_callback
  <2>2. \A q \in transfers : q.ack # "ok"
    BY <1>14 DEF sudo_era_update_failed_callback, StepOwnsItsPacket, TransferOwned
  <2>3. Earmarked = 0 /\ Earmarked' = 0
    BY <2>1, <2>2 DEF Earmarked
  <2> QED BY <1>3, <1>14, <2>1, <2>3 DEF sudo_era_update_failed_callback, host_vars
<1>15. ASSUME sudo_era_bond_callback PROVE Spare' >= Spare
  <2>1. /\ status = "BondStarted" /\ status' = "BondEnded" /\ ~BondExecuted'
        /\ unbond' = unbond - era_snapshot.unbond
        /\ UNCHANGED <<pool_balance, unbonding, era_snapshot>>
    BY <1>15, LastOfStep, NoPacketAfterStep
       DEF sudo_era_bond_callback, Answered, StepOwnsItsPacket, host_vars
  <2>2. BondExecuted
    BY <1>15, TailTxs
       DEF sudo_era_bond_callback, Answered, ChannelsTypeOK, BondExecuted, BondTxs
  <2>3. Earmarked = 0 /\ Earmarked' = 0
    BY <2>1, <2>2 DEF Earmarked
  <2> QED BY <2>1, <2>2, <2>3 DEF Spare
<1>16. ASSUME sudo_era_bond_failed_callback PROVE Spare' >= Spare
  <2>1. /\ status = "BondStarted" /\ status' = "EraUpdateEnded" /\ ~BondExecuted'
        /\ UNCHANGED <<pool_balance, unbonding, unbond, era_snapshot>>
    BY <1>16, LastOfStep, NoPacketAfterStep
       DEF sudo_era_bond_failed_callback, Answered, StepOwnsItsPacket, host_vars
  <2>2. EraTxsKept
    BY <1>16, TailKept DEF sudo_era_bond_failed_callback, Answered
  <2>3. BondExecuted' = BondExecuted /\ ~BondExecuted
    BY <2>1, <2>2 DEF EraTxsKept
  <2>4. Earmarked' = Earmarked
    BY <2>1, <2>3 DEF Earmarked
  <2> QED BY <1>1, <2>1, <2>3, <2>4
<1>17. ASSUME sudo_era_rebond_callback PROVE Spare' >= Spare
  <2>1. /\ status = "WithdrawEnded" /\ status' = "RebondEnded"
        /\ ~BondExecuted /\ ~BondExecuted'
    BY <1>17, LastOfStep, NoPacketOutsideStep, NoPacketAfterStep
       DEF sudo_era_rebond_callback, Answered, StepOwnsItsPacket
  <2>2. RebondExecuted
    BY <1>17, TailTxs
       DEF sudo_era_rebond_callback, Answered, ChannelsTypeOK, RebondExecuted, RebondTxs
  <2>3. Earmarked = 0 /\ Earmarked' = 0
    BY <2>1, <2>2 DEF Earmarked
  <2> QED BY <1>3, <1>17, <2>1, <2>3 DEF sudo_era_rebond_callback, host_vars
<1>18. ASSUME sudo_era_rebond_failed_callback PROVE Spare' >= Spare
  <2>1. status = "WithdrawEnded" /\ status' = "WithdrawEnded"
    BY <1>18, LastOfStep DEF sudo_era_rebond_failed_callback, Answered, StepOwnsItsPacket
  <2>2. EraTxsKept
    BY <1>18, TailKept DEF sudo_era_rebond_failed_callback, Answered
  <2> QED BY <1>2, <1>18, <2>1, <2>2 DEF sudo_era_rebond_failed_callback, host_vars
<1>19. ASSUME sudo_withdraw_callback \/ sudo_withdraw_failed_callback
       PROVE  Spare' >= Spare
  <2>1. EraTxsKept
    BY <1>19, TailKept
       DEF sudo_withdraw_callback, sudo_withdraw_failed_callback, Answered
  <2> QED BY <1>2, <1>19, <2>1 DEF sudo_withdraw_callback,
             sudo_withdraw_failed_callback, pool_vars, host_vars
<1>20. ASSUME sudo_era_collect_withdraw_callback PROVE Spare' >= Spare
  <2>1. 1 \in DOMAIN withdraw_txs /\ withdraw_txs[1].ack = "ok"
    BY <1>20 DEF sudo_era_collect_withdraw_callback, ChannelsTypeOK
  <2>2. /\ status = "WithdrawStarted" /\ status' = "WithdrawEnded"
        /\ UNCHANGED <<pool_balance, unbonding, unbond, era_snapshot, pool_txs>>
    BY <1>20, <2>1, NoPacketOutsideStep DEF sudo_era_collect_withdraw_callback, host_vars
  <2>3. ~BondExecuted /\ ~BondExecuted' /\ ~RebondExecuted
    BY <2>2, NoPacketOutsideStep, NoPacketAfterStep
  <2>4. ~RebondExecuted'
    BY <2>2, <2>3, SameTxsKept DEF EraTxsKept
  <2>5. Earmarked' = Earmarked
    BY <2>1, <2>2, <2>3, <2>4 DEF Earmarked
  <2>6. BondExecuted' = BondExecuted
    BY <2>3 DEF BondExecuted
  <2> QED BY <1>1, <2>2, <2>5, <2>6
<1>21. ASSUME sudo_era_collect_withdraw_failed_callback PROVE Spare' >= Spare
  <2>1. 1 \in DOMAIN withdraw_txs /\ withdraw_txs[1].ack # "ok"
    BY <1>21 DEF sudo_era_collect_withdraw_failed_callback, ChannelsTypeOK
  <2>2. /\ status = "WithdrawStarted" /\ status' = "BondEnded"
        /\ ~BondExecuted /\ ~BondExecuted'
    BY <1>21, <2>1, NoPacketOutsideStep, NoPacketAfterStep
       DEF sudo_era_collect_withdraw_failed_callback
  <2>3. Earmarked = 0 /\ Earmarked' = 0
    BY <2>1, <2>2 DEF Earmarked
  <2> QED BY <1>3, <1>21, <2>2, <2>3
          DEF sudo_era_collect_withdraw_failed_callback, host_vars
<1>22. ASSUME NEW p \in transfers, host_receives_transfer(p) PROVE Spare' >= Spare
  <2>1. /\ status = "EraUpdateStarted" /\ status' = "EraUpdateStarted"
        /\ ~BondExecuted /\ ~BondExecuted'
        /\ pool_balance' = pool_balance + p.amount
        /\ UNCHANGED <<unbonding, unbond, era_snapshot>>
    BY <1>22, NoPacketOutsideStep, NoPacketAfterStep
       DEF host_receives_transfer, pool_vars
  <2>2. p.amount = era_snapshot.bond /\ \A q \in transfers : q.ack # "ok"
    BY <1>22 DEF host_receives_transfer, StepOwnsItsPacket, TransferOwned
  <2>3. \E q \in transfers' : q.ack = "ok"
    <3>1. [p EXCEPT !.ack = "ok"].ack = "ok"
      BY <1>22 DEF ChannelsTypeOK, TransferPacket
    <3> QED BY <1>22, <3>1 DEF host_receives_transfer
  <2>4. Earmarked = 0 /\ Earmarked' = era_snapshot.bond
    BY <2>1, <2>2, <2>3 DEF Earmarked
  <2> QED BY <2>1, <2>2, <2>4 DEF Spare
<1>23. ASSUME NEW p \in transfers, transfer_fails(p) PROVE Spare' >= Spare
  <2>1. /\ status = "EraUpdateStarted" /\ status' = "EraUpdateStarted"
        /\ ~BondExecuted /\ ~BondExecuted'
    BY <1>23, NoPacketOutsideStep, NoPacketAfterStep DEF transfer_fails, pool_vars
  <2>2. transfers = {p} /\ p.ack # "ok" /\ transfers' = {[p EXCEPT !.ack = "error"]}
    BY <1>23 DEF transfer_fails, StepOwnsItsPacket, TransferOwned
  <2>3. [p EXCEPT !.ack = "error"].ack # "ok"
    BY <1>23 DEF ChannelsTypeOK, TransferPacket
  <2>4. Earmarked = 0 /\ Earmarked' = 0
    BY <2>1, <2>2, <2>3 DEF Earmarked
  <2> QED BY <1>3, <1>23, <2>1, <2>4 DEF transfer_fails, pool_vars, host_vars
<1>24. ASSUME NEW i \in DOMAIN pool_txs, NEW reward \in Rewards,
              host_executes_era_tx(i, reward)
       PROVE  Spare' >= Spare
  <2> DEFINE tx == pool_txs[i]
  <2>1. /\ tx.ack = "none" /\ tx.tx_type \in {"EraBond", "EraRebond"}
        /\ pool_txs' = [pool_txs EXCEPT ![i].ack = "ok"]
        /\ pool_balance' = pool_balance - tx.delegate
        /\ unbonding' = unbonding + tx.undelegate
        /\ UNCHANGED <<unbond, era_snapshot, status, withdraw_txs>>
    BY <1>24 DEF host_executes_era_tx, NextToHandle, pool_vars
  <2>2. /\ BondTxs' = BondTxs /\ RebondTxs' = RebondTxs
        /\ \A j \in DOMAIN pool_txs : j # i => pool_txs'[j] = pool_txs[j]
        /\ pool_txs'[i].ack = "ok"
    BY <2>1, AnsweredEraTxs
  <2>3. tx.delegate \in Nat /\ tx.undelegate \in Nat
    <3>1. tx \in PoolTx
      BY DEF ChannelsTypeOK
    <3> QED BY <2>1, <3>1 DEF PoolTx, EraTx, UserWithdrawTx, RedeemTx
  <2>4. CASE tx.tx_type = "EraBond"
    <3>1. i \in BondTxs /\ status = "BondStarted" /\ \A j \in BondTxs : j = i
      BY <2>4 DEF StepOwnsItsPacket, BondOwned, BondTxs
    <3>2. ~BondExecuted /\ BondExecuted'
      BY <2>1, <2>2, <3>1 DEF BondExecuted
    <3>3. Earmarked = era_snapshot.bond /\ Earmarked' = 0
      BY <2>1, <3>1, <3>2 DEF Earmarked
    <3>4. tx.delegate - tx.undelegate = era_snapshot.bond - era_snapshot.unbond
      BY <2>3, <3>1 DEF BondMoves
    <3> QED BY <2>1, <2>3, <3>2, <3>3, <3>4 DEF Spare
  <2>5. CASE tx.tx_type = "EraRebond"
    <3>1. /\ i \in RebondTxs /\ status = "WithdrawEnded" /\ \A j \in RebondTxs : j = i
          /\ tx.delegate = era_snapshot.restake_amount
      BY <2>5 DEF StepOwnsItsPacket, RebondOwned, RebondTxs
    <3>2. ~RebondExecuted /\ RebondExecuted'
      BY <2>1, <2>2, <3>1 DEF RebondExecuted
    <3>3. Earmarked = era_snapshot.restake_amount /\ Earmarked' = 0
      BY <2>1, <3>1, <3>2 DEF Earmarked
    <3>4. ~BondExecuted /\ ~BondExecuted'
      BY <2>1, <3>1, NoPacketOutsideStep, NoPacketAfterStep
    <3> QED BY <2>1, <2>3, <3>1, <3>3, <3>4 DEF Spare
  <2> QED BY <2>1, <2>4, <2>5
<1>25. ASSUME NEW i \in DOMAIN pool_txs, host_executes_user_withdraw(i)
       PROVE  Spare' = Spare - pool_txs[i].amount
  BY <1>25, SpareOfPayment
<1>26. ASSUME NEW i \in DOMAIN pool_txs, pool_tx_fails(i) PROVE Spare' >= Spare
  <2>1. /\ pool_txs[i].ack = "none"
        /\ pool_txs' = [pool_txs EXCEPT ![i].ack = "error"]
        /\ UNCHANGED <<pool_balance, unbonding, unbond, era_snapshot>>
        /\ UNCHANGED <<status, transfers, withdraw_txs>>
    BY <1>26 DEF pool_tx_fails, NextToHandle, pool_vars, host_vars
  <2>2. EraTxsKept
    BY <2>1, AnswerKept
  <2> QED BY <1>2, <2>1, <2>2
<1>27. ASSUME NEW i \in DOMAIN withdraw_txs, host_executes_collect(i)
       PROVE  Spare' >= Spare
  <2>1. /\ withdraw_txs[i].ack = "none"
        /\ withdraw_txs' = [withdraw_txs EXCEPT ![i].ack = "ok"]
        /\ pool_balance' = pool_balance + withdraw_txs[i].amount
        /\ UNCHANGED <<unbonding, unbond, era_snapshot, status>>
    BY <1>27 DEF host_executes_collect, NextToHandle, pool_vars
  <2>2. /\ i = 1 /\ status = "WithdrawStarted"
        /\ withdraw_txs[i].amount = era_snapshot.restake_amount
    BY DEF StepOwnsItsPacket, CollectOwned
  <2>3. withdraw_txs'[1].ack = "ok"
    BY <2>1, <2>2, CollectAnswered
  <2>4. ~BondExecuted /\ ~BondExecuted'
    BY <2>1, <2>2, NoPacketOutsideStep, NoPacketAfterStep
  <2>5. Earmarked = 0 /\ Earmarked' = era_snapshot.restake_amount
    BY <2>1, <2>2, <2>3 DEF Earmarked
  <2> QED BY <2>1, <2>2, <2>4, <2>5 DEF Spare
<1>28. ASSUME NEW i \in DOMAIN withdraw_txs, collect_fails(i) PROVE Spare' >= Spare
  <2>1. /\ withdraw_txs[i].ack = "none"
        /\ withdraw_txs' = [withdraw_txs EXCEPT ![i].ack = "error"]
        /\ UNCHANGED <<pool_balance, unbonding, unbond, era_snapshot, status>>
    BY <1>28 DEF collect_fails, NextToHandle, pool_vars, host_vars
  <2>2. i = 1 /\ status = "WithdrawStarted"
    BY DEF StepOwnsItsPacket, CollectOwned
  <2>6. withdraw_txs'[i].ack = "error"
    BY <2>1, CollectAnswered
  <2>3. withdraw_txs'[1].ack # "ok"
    BY ONLY <2>2, <2>6
  <2>4. ~BondExecuted /\ ~BondExecuted'
    BY <2>1, <2>2, NoPacketOutsideStep, NoPacketAfterStep
  <2>5. Earmarked = 0 /\ Earmarked' = 0
    BY <2>1, <2>2, <2>3 DEF Earmarked
  <2> QED BY <1>3, <2>1, <2>4, <2>5
<1>29. ASSUME host_completes_unbonding PROVE Spare' >= Spare
  <2>1. /\ pool_balance' = pool_balance + unbonding /\ unbonding' = 0
        /\ UNCHANGED <<unbond, era_snapshot, status, transfers, withdraw_txs, pool_txs>>
    BY <1>29 DEF host_completes_unbonding, pool_vars, packet_vars
  <2>2. Earmarked' = Earmarked /\ BondExecuted' = BondExecuted
    BY <2>1, SameTxsKept, EarmarkedKept
  <2> QED BY <2>1, <2>2 DEF Spare
<1>30. ASSUME \/ host_slashes \/ relayer_submits_delegations
              \/ relayer_submits_balance \/ era_elapses \/ UNCHANGED vars
       PROVE  Spare' >= Spare
  BY <1>2, <1>30, SameTxsKept
     DEF host_slashes, relayer_submits_delegations, relayer_submits_balance,
         era_elapses, vars, pool_vars, packet_vars, host_vars
<1> QED
  BY <1>4, <1>5, <1>6, <1>7, <1>8, <1>9, <1>10, <1>11, <1>12, <1>13, <1>14, <1>15,
     <1>16, <1>17, <1>18, <1>19, <1>20, <1>21, <1>22, <1>23, <1>24, <1>25, <1>26,
     <1>27, <1>28, <1>29, <1>30
     DEF SerialNext, OtherStep, UserStep, KeeperStep, HostStep, TransferCallback,
         PoolCallback, CollectCallback

-----------------------------------------------------------------------------
\* The invariant of the requests and their payments: what is covered depends on what
\* a bond moves and on what a collection may bring in.
RCore == Core /\ Requests /\ BondMoves /\ RestakeHeld /\ UnstakesCovered

\* In the era cycle alone.
RInv == IInv /\ RCore

\* Both sides of UnstakesCovered.
LEMMA CoveredBySpare == UnstakesCovered <=> (misread = {} => Owed <= Spare)
BY DEF UnstakesCovered, Spare

\* The same after a step.
LEMMA CoveredBySpareAfter ==
    UnstakesCovered' <=> (misread' = {} => Owed' <= Spare')
BY DEF UnstakesCovered, Spare

\* A step keeps every open claim covered.
LEMMA CoveredStep ==
    ASSUME RCore, Core', [SerialNext]_vars
    PROVE  UnstakesCovered'
<1> SUFFICES ASSUME misread' = {} PROVE Owed' <= Spare'
  BY CoveredBySpareAfter
<1>0. misread = {}
  BY MisreadKept
<1>1. /\ Types /\ IndicesIssued /\ StepOwnsItsPacket /\ Requests
      /\ Types' /\ IndicesIssued' /\ StepOwnsItsPacket'
      /\ BondMoves /\ RestakeHeld
  BY DEF RCore, Core
<1>2. Owed \in Nat /\ Spare \in Int /\ Owed <= Spare
  BY <1>0, <1>1, OwedStep, SpareTyped, CoveredBySpare DEF RCore
<1>3. Spare' \in Int
  <2>1. /\ pool_balance' \in Nat /\ unbonding' \in Nat /\ unbond' \in Nat
        /\ era_snapshot'.bond \in Nat /\ era_snapshot'.unbond \in Nat
        /\ era_snapshot'.restake_amount \in Nat
    BY <1>1 DEF Types, PoolTypeOK, HostTypeOK, EraSnapshot
  <2>2. Earmarked' \in Nat
    BY <2>1 DEF Earmarked
  <2> QED BY <2>1, <2>2 DEF Spare
<1>4. Owed' <= Spare'
  <2>1. ASSUME NEW user \in Users, NEW amount \in 1..total_lsd_token_amount,
               execute_unstake(user, amount),
               Spare' = Spare + TokenValue(BurnAmount(amount))
        PROVE  Owed' <= Spare'
    <3>1. Owed' = Owed + TokenValue(BurnAmount(amount)) - PRECISION_GAP
      BY <1>0, <1>1, <2>1, OwedStep
    <3>2. TokenValue(BurnAmount(amount)) \in Nat
      BY <1>1, <2>1, UnstakeTyped DEF Types
    <3> QED BY <1>2, <2>1, <3>1, <3>2, ScaleAssumption
  <2>2. ASSUME NEW i \in DOMAIN pool_txs, host_executes_user_withdraw(i),
               Spare' = Spare - pool_txs[i].amount
        PROVE  Owed' <= Spare'
    <3>1. Owed' = Owed - pool_txs[i].amount
      BY <1>0, <1>1, <2>2, OwedStep
    <3>2. pool_txs[i].amount \in Nat
      BY <1>0, <1>1, <2>2, PaymentClaims, UserTxTyped DEF Types, UserWithdrawTx
    <3> QED BY <1>2, <2>2, <3>1, <3>2
  <2>3. ASSUME Spare' >= Spare PROVE Owed' <= Spare'
    <3>1. CASE OpenClaims' = OpenClaims
      <4>1. Owed' = Owed
        BY <1>0, <1>1, <3>1, OwedStep
      <4> QED BY <1>2, <1>3, <2>3, <4>1
    <3>2. ASSUME NEW user \in Users, NEW amount \in 1..total_lsd_token_amount,
                 execute_unstake(user, amount)
          PROVE  Owed' <= Spare'
      <4>1. Spare' = Spare + TokenValue(BurnAmount(amount))
        BY <1>1, <3>2, SpareOfUnstake
      <4> QED BY <2>1, <3>2, <4>1
    <3>3. ASSUME NEW i \in DOMAIN pool_txs, host_executes_user_withdraw(i)
          PROVE  Owed' <= Spare'
      <4>1. Spare' = Spare - pool_txs[i].amount
        BY <1>1, <3>3, SpareOfPayment
      <4> QED BY <2>2, <3>3, <4>1
    <3> QED BY <1>0, <1>1, <3>1, <3>2, <3>3, ClaimsStep
  <2> QED BY <1>1, <2>1, <2>2, <2>3, SpareStep
<1> QED BY <1>4

\* The initial pool has no request and no payment.
LEMMA InitRInv == Init => RInv
<1> SUFFICES ASSUME Init PROVE RInv
  OBVIOUS
<1>1. IInv
  BY InitIInv
<1>2. DOMAIN unstakes_of_index = {} /\ UserTxs = {} /\ BondTxs = {}
  BY DEF Init, UserTxs, BondTxs
<1>3. Requests
  BY <1>2 DEF Init, Requests, PaymentsOpen, PaymentsDisjoint, PendingIsPaid,
              StuckIsPending, PaymentAmounts
<1>4. BondMoves
  BY <1>2 DEF BondMoves
<1>5. RestakeHeld
  BY DEF Init, RestakeHeld, NoResult, SnapshotPending
<1>6. UnstakesCovered
  <2>1. DOMAIN unstakes_of_index \ PaidOnHost = {}
    BY <1>2
  <2>2. Owed = 0
    BY <2>1, SumEmpty DEF Owed
  <2>3. Spare = 0
    BY DEF Init, Spare, Earmarked, EmptySnapshot
  <2> QED BY <2>2, <2>3, CoveredBySpare
<1> QED BY <1>1, <1>3, <1>4, <1>5, <1>6 DEF RInv, RCore, IInv

\* A step keeps the invariant of the requests.
LEMMA RequestsCoreStep ==
    ASSUME RCore, [SerialNext]_vars
    PROVE  RCore'
<1>1. Core'
  BY CoreStep DEF RCore
<1>2. Requests'
  BY RequestsStep DEF RCore, Core
<1>3. BondMoves'
  BY <1>1, BondMovesStep DEF RCore, Core
<1>4. RestakeHeld'
  BY <1>1, RestakeHeldStep DEF RCore, Core
<1>5. UnstakesCovered'
  BY <1>1, CoveredStep
<1> QED BY <1>1, <1>2, <1>3, <1>4, <1>5 DEF RCore

\* The invariant of the requests holds in every state of a serial keeper.
THEOREM RequestsTheorem == SerialSpec => []RInv
<1>1. RInv /\ [SerialNext]_vars => RInv'
  BY InvariantStep, RequestsCoreStep DEF RInv
<1> QED BY <1>1, InitRInv, PTL DEF SerialSpec

\* Whatever receivers the users name, a request is paid by two packets only after a
\* failed payment has reopened it while it was being paid, and marked without one
\* only after that or after a failed payment of its own whose callback aborted.
THEOREM ExclusiveTheorem == SerialSpec => []WithdrawExclusive
<1>1. RInv => WithdrawExclusive
  BY RequestsExclusive DEF RInv, RCore
<1> QED BY <1>1, RequestsTheorem, PTL

\* The host account can pay every open request, through every failed, late or
\* retried packet of the era cycle, for any number of users and any amounts, as long
\* as no request was reopened while it was being paid.
THEOREM CoveredTheorem == SerialSpec => []UnstakesCovered
<1>1. RInv => UnstakesCovered
  BY DEF RInv, RCore
<1> QED BY <1>1, RequestsTheorem, PTL

-----------------------------------------------------------------------------
\* A stake, seen from outside.
LEMMA StakeImplements ==
    ASSUME Types, Types', OpenClaims' = OpenClaims, NEW amount \in StakeAmounts,
           execute_stake(amount)
    PROVE  Pool!Stake
<1>1. /\ rate > 0 /\ active' = active + amount
      /\ total_lsd_token_amount' =
             total_lsd_token_amount + (amount * CAL_BASE) \div rate
      /\ UNCHANGED <<rate, next_unstake_index, received>>
  BY DEF execute_stake, host_vars
<1>2. active \in Nat /\ active' \in Nat /\ amount \in Nat
  BY ConfigAssumption DEF Types, PoolTypeOK
<1>3. active' - active = amount /\ active' >= active
  BY <1>1, <1>2
<1> QED BY <1>1, <1>2, <1>3 DEF Pool!Stake

\* An unstake, seen from outside, burns what is left after the commission.
LEMMA UnstakeImplements ==
    ASSUME Types, IndicesIssued, Requests, misread = {}, NEW user \in Users,
           NEW amount \in 1..total_lsd_token_amount, execute_unstake(user, amount)
    PROVE  \E burn \in 1..total_lsd_token_amount : Pool!Unstake(user, burn)
<1> DEFINE burn == BurnAmount(amount)
           value == (burn * rate) \div CAL_BASE
<1>1. value = TokenValue(burn)
  BY DEF TokenValue
<1>2. burn \in Nat /\ burn <= amount /\ burn > 0 /\ total_lsd_token_amount \in Nat
  BY UnstakeTyped DEF execute_unstake, Types, PoolTypeOK
<1>3. /\ value > PRECISION_GAP
      /\ total_lsd_token_amount' = total_lsd_token_amount - burn
      /\ active' = active - value
      /\ next_unstake_index' = next_unstake_index + 1
      /\ UNCHANGED <<rate, received>>
  BY <1>1 DEF execute_unstake, host_vars
<1>4. OpenClaims' =
          [i \in DOMAIN OpenClaims \cup {next_unstake_index + 1} |->
              IF i = next_unstake_index + 1
              THEN [owner |-> user, amount |-> value - PRECISION_GAP]
              ELSE OpenClaims[i]]
  <2> HIDE DEF value
  <2> QED BY <1>1, UnstakeClaims
<1> HIDE DEF burn
<1>5. burn \in 1..total_lsd_token_amount /\ burn <= total_lsd_token_amount
  BY <1>2
<1>6. Pool!Unstake(user, burn)
  BY <1>3, <1>4, <1>5 DEF Pool!Unstake
<1> QED BY <1>5, <1>6

\* LiquidPool adds up amounts as the era cycle does.
LEMMA PoolSum ==
    ASSUME NEW f, NEW S
    PROVE  Pool!SumFunctionOnSet(f, S) = SumFunctionOnSet(f, S)
<1>1. Pool!SumFunctionOnSet(f, S) = Sums(f, S)[S]
  BY DEF Pool!SumFunctionOnSet, Pool!FoldFunctionOnSet, Pool!MapThenFoldSet, Sums, Pick
<1> QED BY <1>1, SumUnfolded

\* A payment executed by the host, seen from outside.
LEMMA PaymentImplements ==
    ASSUME Types, IndicesIssued, Requests, misread = {}, NEW i \in DOMAIN pool_txs,
           host_executes_user_withdraw(i)
    PROVE  \E user \in Users, paid \in SUBSET DOMAIN OpenClaims : Pool!Pay(user, paid)
<1> DEFINE U == pool_txs[i].unstakes
           u == pool_txs[i].user
<1>1. /\ u \in Users /\ U \subseteq DOMAIN OpenClaims
      /\ \A k \in U : OpenClaims[k].owner = u
      /\ pool_txs[i].amount = SumFunctionOnSet(Amounts, U)
      /\ OpenClaims' = [k \in DOMAIN OpenClaims \ U |-> OpenClaims[k]]
  BY PaymentClaims
<1>2. /\ received' = [received EXCEPT ![u] = @ + pool_txs[i].amount]
      /\ UNCHANGED <<total_lsd_token_amount, rate, active, next_unstake_index>>
  BY DEF host_executes_user_withdraw, pool_vars
<1> HIDE DEF U, u
<1>3. SumFunctionOnSet(Amounts, U) = SumFunctionOnSet(Pool!Amounts, U)
  <2>1. DOMAIN OpenClaims \subseteq DOMAIN unstakes_of_index
    BY DEF OpenClaims
  <2>2. IsFiniteSet(U)
    BY <1>1, <2>1, RequestsSummed DEF Types
  <2>3. \A k \in U : Amounts[k] = Pool!Amounts[k]
    BY <1>1, <2>1 DEF OpenClaims, Amounts, Pool!Amounts
  <2> QED BY <2>2, <2>3, SumSame
<1>4. received' = [received EXCEPT ![u] = @ + Pool!SumFunctionOnSet(Pool!Amounts, U)]
  BY <1>1, <1>2, <1>3, PoolSum
<1>5. Pool!Pay(u, U)
  BY <1>1, <1>2, <1>4 DEF Pool!Pay
<1> QED BY <1>1, <1>5

\* The end of an era, seen from outside.
LEMMA ActiveImplements ==
    ASSUME Core, Core', OpenClaims' = OpenClaims, execute_era_active
    PROVE  Pool!Reprice
<1> DEFINE F == FeeFor(delegations_icq.amount)
<1>1. /\ total_lsd_token_amount' = total_lsd_token_amount + F
      /\ UNCHANGED <<next_unstake_index, received>>
  BY DEF execute_era_active, host_vars
<1>2. /\ total_lsd_token_amount \in Nat /\ delegations_icq.amount \in Nat
      /\ era_snapshot.active \in Nat /\ rate \in Nat /\ platform_fee_commission \in Nat
  BY ConfigAssumption
     DEF Core, Types, PoolTypeOK, OtherTypeOK, IcqResult, EraSnapshot
<1>3. F \in Nat
  BY <1>2, DivNat, MulNat DEF FeeFor, execute_era_active
<1>4. /\ total_lsd_token_amount' \in Nat /\ rate' \in Nat /\ active' \in Nat
      /\ total_lsd_token_amount' * rate' <= active' * CAL_BASE
  BY DEF Core, Types, PoolTypeOK, SupplyBacked
<1> HIDE DEF F
<1>5. total_lsd_token_amount' >= total_lsd_token_amount
  BY <1>1, <1>2, <1>3
<1> QED BY <1>1, <1>4, <1>5 DEF Pool!Reprice

\* Every other step changes nothing that is seen from outside.
LEMMA OtherImplements ==
    ASSUME [SerialNext]_vars
    PROVE  \/ \E amount \in StakeAmounts : execute_stake(amount)
           \/ \E user \in Users, amount \in 1..total_lsd_token_amount :
                  execute_unstake(user, amount)
           \/ \E i \in DOMAIN pool_txs : host_executes_user_withdraw(i)
           \/ execute_era_active
           \/ UNCHANGED <<total_lsd_token_amount, rate, active, next_unstake_index,
                          received>>
<1>1. CASE UserStep
  BY <1>1 DEF UserStep, execute_withdraw, pool_vars, host_vars
<1>2. CASE KeeperStep
  BY <1>2 DEF KeeperStep, execute_era_update, execute_era_bond,
              execute_era_collect_withdraw, execute_config_pool_paused, host_vars
<1>3. CASE execute_era_rebond
  BY <1>3 DEF execute_era_rebond, host_vars
<1>4. CASE TransferCallback
  BY <1>4 DEF TransferCallback, sudo_era_update_callback,
              sudo_era_update_failed_callback, host_vars
<1>5. CASE PoolCallback
  BY <1>5 DEF PoolCallback, sudo_era_bond_callback, sudo_era_bond_failed_callback,
              sudo_era_rebond_callback, sudo_era_rebond_failed_callback,
              sudo_withdraw_callback, sudo_withdraw_failed_callback, pool_vars,
              host_vars
<1>6. CASE CollectCallback
  BY <1>6 DEF CollectCallback, sudo_era_collect_withdraw_callback,
              sudo_era_collect_withdraw_failed_callback, host_vars
<1>7. CASE HostStep
  BY <1>7 DEF HostStep, host_receives_transfer, transfer_fails, host_executes_era_tx,
              pool_tx_fails, host_executes_collect, collect_fails,
              host_completes_unbonding, host_slashes, relayer_submits_delegations,
              relayer_submits_balance, era_elapses, pool_vars, host_vars
<1>8. CASE UNCHANGED vars
  BY <1>8 DEF vars, pool_vars, host_vars
<1> QED BY <1>1, <1>2, <1>3, <1>4, <1>5, <1>6, <1>7, <1>8 DEF SerialNext, OtherStep

\* Every step is a step of LiquidPool or changes nothing of it, up to the first that
\* reopens a request which is being paid.
LEMMA PoolStep ==
    ASSUME Core, Core', Requests, misread' = {}, [SerialNext]_vars
    PROVE  [Pool!Next]_(Pool!vars)
<1>1. Types /\ Types' /\ IndicesIssued /\ Requests /\ misread = {} /\ Core
  BY MisreadKept DEF Core
<1>2. CASE \E user \in Users, amount \in 1..total_lsd_token_amount :
               execute_unstake(user, amount)
  BY <1>1, <1>2, UnstakeImplements DEF Pool!Next
<1>3. CASE \E i \in DOMAIN pool_txs : host_executes_user_withdraw(i)
  BY <1>1, <1>3, PaymentImplements DEF Pool!Next
<1>4. CASE OpenClaims' = OpenClaims
  <2>1. CASE \E amount \in StakeAmounts : execute_stake(amount)
    BY <1>1, <1>4, <2>1, StakeImplements DEF Pool!Next
  <2>2. CASE execute_era_active
    BY <1>1, <1>4, <2>2, ActiveImplements DEF Pool!Next
  <2>3. CASE UNCHANGED <<total_lsd_token_amount, rate, active, next_unstake_index,
                         received>>
    BY <1>4, <2>3 DEF Pool!vars
  <2> QED BY <1>2, <1>3, <2>1, <2>2, <2>3, OtherImplements
<1> QED BY <1>1, <1>2, <1>3, <1>4, ClaimsStep

\* The initial pool is one without supply and without claims.
LEMMA PoolInit == Init => Pool!Init
<1> SUFFICES ASSUME Init PROVE Pool!Init
  OBVIOUS
<1>1. DOMAIN OpenClaims = {}
  BY DEF Init, OpenClaims
<1>2. OpenClaims = <<>>
  BY <1>1 DEF OpenClaims
<1> QED BY <1>2 DEF Init, Pool!Init

\* The era cycle implements LiquidPool: whatever packets fail, are late or are
\* retried, users see stakes, unstakes, payments in full and new rates only, up to
\* the first failed payment that reopens somebody else's request.
THEOREM RefinementTheorem == SerialSpec => ImplementsLiquidPool
<1>1. RInv /\ RInv' /\ [SerialNext]_vars => (misread' = {} => [Pool!Next]_(Pool!vars))
  BY PoolStep DEF RInv, RCore
<1>2. RInv /\ RInv' /\ [SerialNext]_vars =>
          [misread' = {} => [Pool!Next]_(Pool!vars)]_vars
  BY <1>1
<1> QED BY <1>2, PoolInit, RequestsTheorem, PTL DEF SerialSpec, ImplementsLiquidPool

-----------------------------------------------------------------------------
(***************************************************************************)
(* LSM stake.  What LsmStake's operators say of the current state, as      *)
(* operators on the data: a step is a fact about the data before and after *)
(* it.                                                                     *)
(***************************************************************************)
RedeemsOf(txs) == {i \in DOMAIN txs : txs[i].tx_type = "RedeemTokenForShare"}

ListedIn(coins, d) ==
    SumFunctionOnSet([n \in DOMAIN coins |->
                         IF coins[n].denom = d THEN coins[n].amount ELSE 0],
                     DOMAIN coins)

RedeemedIn(txs, d) ==
    SumFunctionOnSet([i \in RedeemsOf(txs) |->
                         IF txs[i].ack = "ok" THEN AmountIn(txs[i].tokens, d) ELSE 0],
                     RedeemsOf(txs))

\* Received by the host, the acknowledgement still outstanding.
ArrivedAmount(d, p) == IF p.ack = "ok" /\ p.coin.denom = d THEN p.coin.amount ELSE 0

ArrivingIn(packets, d) ==
    SumFunctionOnSet([p \in packets |-> ArrivedAmount(d, p)], packets)

\* No two coins are of the same denomination.
OneCoinEach(coins) == \A c, e \in coins : c.denom = e.denom => c = e

\* A list has finitely many elements.
LEMMA RangeFinite ==
    ASSUME NEW S, NEW w \in Seq(S)
    PROVE  IsFiniteSet(Range(w)) /\ Range(w) \subseteq S
<1>1. DOMAIN w = 1..Len(w) /\ Len(w) \in Nat /\ \A i \in DOMAIN w : w[i] \in S
  OBVIOUS
<1>2. IsFiniteSet(DOMAIN w)
  BY <1>1, FS_Interval
<1> DEFINE f == [i \in DOMAIN w |-> w[i]]
<1>3. f \in Surjection(DOMAIN w, Range(w))
  BY DEF Surjection, Range
<1> HIDE DEF f
<1>4. IsFiniteSet(Range(w))
  BY <1>2, <1>3, FS_Surjection
<1> QED BY <1>1, <1>4 DEF Range

\* The sum over one element.
LEMMA SumOne ==
    ASSUME NEW f, NEW x, f[x] \in Int
    PROVE  SumFunctionOnSet(f, {x}) = f[x]
<1>1. {} \cup {x} = {x} /\ x \notin {} /\ IsFiniteSet({})
  BY FS_EmptySet
<1>2. SumFunctionOnSet(f, {} \cup {x}) = SumFunctionOnSet(f, {}) + f[x]
  BY <1>1, SumAdd
<1>3. SumFunctionOnSet(f, {}) = 0
  BY SumEmpty
<1> QED BY <1>1, <1>2, <1>3

\* Coins of different denominations: the amount of one is that of its coin.
LEMMA CoinSums ==
    ASSUME NEW coins \in SUBSET Coin, IsFiniteSet(coins), OneCoinEach(coins),
           NEW d \in ShareDenoms
    PROVE  /\ AmountIn(coins, d) \in Nat
           /\ \A c \in coins : c.denom = d => AmountIn(coins, d) = c.amount
           /\ d \notin Denoms(coins) => AmountIn(coins, d) = 0
<1> DEFINE f == [c \in coins |-> c.amount]
           T == {c \in coins : c.denom = d}
<1>1. \A c \in coins : f[c] = c.amount /\ c.amount \in Nat
  BY DEF Coin
<1>2. AmountIn(coins, d) = SumFunctionOnSet(f, T)
  BY DEF AmountIn
<1>3. IsFiniteSet(T) /\ T \subseteq coins
  BY FS_Subset
<1>4. AmountIn(coins, d) \in Nat
  <2> HIDE DEF f, T
  <2>1. \A c \in T : f[c] \in Nat
    BY <1>1, <1>3
  <2> QED BY <1>2, <1>3, <2>1, SumNat
<1>5. ASSUME NEW c \in coins, c.denom = d PROVE AmountIn(coins, d) = c.amount
  <2>1. T = {c}
    BY <1>5 DEF OneCoinEach
  <2>2. f[c] = c.amount /\ c.amount \in Nat
    BY <1>1
  <2> HIDE DEF f, T
  <2>3. f[c] \in Int
    BY <2>2
  <2>4. SumFunctionOnSet(f, {c}) = f[c]
    BY ONLY <2>3, SumOne
  <2> QED BY <1>2, <2>1, <2>2, <2>4
<1>6. ASSUME d \notin Denoms(coins) PROVE AmountIn(coins, d) = 0
  <2>1. T = {}
    BY <1>6 DEF Denoms
  <2> HIDE DEF f, T
  <2> QED BY <1>2, <2>1, SumEmpty
<1> HIDE DEF f, T
<1> QED BY <1>4, <1>5, <1>6

\* The value of any coins is a natural.
LEMMA CoinValue ==
    ASSUME NEW coins \in SUBSET Coin, IsFiniteSet(coins)
    PROVE  ValueOf(coins) \in Nat
<1> DEFINE f == [c \in coins |-> TokenAmount(c.amount)]
<1>1. \A c \in coins : TokenAmount(c.amount) \in Nat
  BY LsmAssumption, MulNat, DivNat DEF Coin, TokenAmount
<1>2. \A c \in coins : f[c] \in Nat
  BY <1>1
<1> HIDE DEF f
<1>3. SumFunctionOnSet(f, coins) \in Nat
  BY <1>2, SumNat
<1> QED BY <1>3 DEF ValueOf, f

\* Listed amounts of a denomination, by place.
AmountsListed(coins, d) ==
    [n \in DOMAIN coins |-> IF coins[n].denom = d THEN coins[n].amount ELSE 0]

\* The places of a list are finitely many and hold naturals.
LEMMA AmountsListedTyped ==
    ASSUME NEW coins \in Seq(Coin), NEW d
    PROVE  /\ IsFiniteSet(DOMAIN coins)
           /\ DOMAIN AmountsListed(coins, d) = DOMAIN coins
           /\ \A n \in DOMAIN coins : AmountsListed(coins, d)[n] \in Nat
           /\ ListedIn(coins, d) = SumFunctionOnSet(AmountsListed(coins, d), DOMAIN coins)
<1>1. DOMAIN coins = 1..Len(coins) /\ Len(coins) \in Nat
      /\ \A n \in DOMAIN coins : coins[n] \in Coin
  OBVIOUS
<1>2. IsFiniteSet(DOMAIN coins)
  BY <1>1, FS_Interval
<1> QED BY <1>1, <1>2 DEF AmountsListed, ListedIn, Coin

\* What is listed is a natural, at least the amount of any coin listed.
LEMMA ListedSums ==
    ASSUME NEW coins \in Seq(Coin), NEW d
    PROVE  /\ ListedIn(coins, d) \in Nat
           /\ \A c \in Range(coins) : c.denom = d => c.amount <= ListedIn(coins, d)
           /\ (\A c \in Range(coins) : c.denom # d) => ListedIn(coins, d) = 0
<1> DEFINE f == AmountsListed(coins, d)
           D == DOMAIN coins
<1>1. /\ IsFiniteSet(D) /\ \A n \in D : f[n] \in Nat
      /\ ListedIn(coins, d) = SumFunctionOnSet(f, D)
  BY AmountsListedTyped
<1>2. \A n \in D : f[n] = IF coins[n].denom = d THEN coins[n].amount ELSE 0
  BY DEF AmountsListed
<1> HIDE DEF f
<1>3. ListedIn(coins, d) \in Nat
  BY <1>1, SumNat
<1>4. ASSUME NEW c \in Range(coins), c.denom = d PROVE c.amount <= ListedIn(coins, d)
  <2>1. PICK n \in D : coins[n] = c
    BY DEF Range
  <2>2. f[n] = c.amount /\ f[n] \in Nat
    BY <1>1, <1>2, <1>4, <2>1
  <2>3. {n} \in SUBSET D /\ f[n] \in Int
    BY <2>2
  <2> HIDE DEF D
  <2>4. SumFunctionOnSet(f, {n}) <= SumFunctionOnSet(f, D)
    BY ONLY <1>1, <2>3, SumPart
  <2>5. SumFunctionOnSet(f, {n}) = f[n]
    BY ONLY <2>3, SumOne
  <2> QED BY <1>1, <2>2, <2>4, <2>5
<1>5. ASSUME \A c \in Range(coins) : c.denom # d PROVE ListedIn(coins, d) = 0
  <2>1. \A n \in D : f[n] = 0
    BY <1>2, <1>5 DEF Range
  <2> HIDE DEF D
  <2> QED BY <1>1, <2>1, SumZero
<1> QED BY <1>3, <1>4, <1>5

\* One more coin.
LEMMA ListedAppended ==
    ASSUME NEW coins \in Seq(Coin), NEW c \in Coin, NEW d
    PROVE  /\ Append(coins, c) \in Seq(Coin)
           /\ Range(Append(coins, c)) = Range(coins) \cup {c}
           /\ ListedIn(Append(coins, c), d) =
                  ListedIn(coins, d) + IF c.denom = d THEN c.amount ELSE 0
<1> DEFINE w == Append(coins, c)
           f == AmountsListed(coins, d)
           g == AmountsListed(w, d)
           D == DOMAIN coins
           n == Len(coins) + 1
<1>1. /\ DOMAIN w = D \cup {n} /\ n \notin D
      /\ \A j \in D : w[j] = coins[j]
      /\ w[n] = c
      /\ w \in Seq(Coin)
  OBVIOUS
<1>2. Range(w) = Range(coins) \cup {c}
  <2> HIDE DEF w, n
  <2> QED BY <1>1 DEF Range, D
<1> HIDE DEF w, n
<1>3. /\ IsFiniteSet(D) /\ \A j \in D : f[j] \in Nat
      /\ ListedIn(coins, d) = SumFunctionOnSet(f, D)
  BY AmountsListedTyped
<1>4. /\ \A j \in D \cup {n} : g[j] \in Nat
      /\ ListedIn(w, d) = SumFunctionOnSet(g, D \cup {n})
  BY <1>1, AmountsListedTyped
<1>5. /\ \A j \in D : f[j] = g[j]
      /\ g[n] = IF c.denom = d THEN c.amount ELSE 0
  BY <1>1 DEF AmountsListed
<1> HIDE DEF f, g, D
<1>6. SumFunctionOnSet(g, D \cup {n}) = SumFunctionOnSet(g, D) + g[n]
  BY <1>1, <1>3, <1>4, SumAdd
<1>7. SumFunctionOnSet(f, D) = SumFunctionOnSet(g, D)
  BY <1>3, <1>5, SumSame
<1>8. ListedIn(w, d) = ListedIn(coins, d) + IF c.denom = d THEN c.amount ELSE 0
  BY <1>3, <1>4, <1>5, <1>6, <1>7
<1> QED BY <1>1, <1>2, <1>8 DEF w

\* Taking coins out lists no more of any denomination.
LEMMA ListedFewer ==
    ASSUME NEW coins \in Seq(Coin), NEW gone, NEW d
    PROVE  /\ RetainOutside(coins, gone) \in Seq(Coin)
           /\ Range(RetainOutside(coins, gone)) = Range(coins) \ gone
           /\ ListedIn(RetainOutside(coins, gone), d) <= ListedIn(coins, d)
<1> DEFINE w == RetainOutside(coins, gone)
           f == AmountsListed(w, d)
           g == AmountsListed(coins, d)
           S == DOMAIN w
           T == DOMAIN coins
<1>1. w \in Seq(Coin) /\ Elements(w) = Elements(coins) \ gone
  BY OutsideKeeps
<1>2. Range(w) = Range(coins) \ gone
  BY <1>1 DEF Range, Elements
<1>3. PICK m \in [S -> T] : /\ \A i, j \in S : m[i] = m[j] => i = j
                            /\ \A i \in S : w[i] = coins[m[i]]
  BY OutsidePlaces
<1> HIDE DEF w
<1>4. /\ IsFiniteSet(S) /\ \A n \in S : f[n] \in Nat
      /\ ListedIn(w, d) = SumFunctionOnSet(f, S)
  BY <1>1, AmountsListedTyped
<1>5. /\ IsFiniteSet(T) /\ \A n \in T : g[n] \in Nat
      /\ ListedIn(coins, d) = SumFunctionOnSet(g, T)
  BY AmountsListedTyped
<1>6. \A n \in S : f[n] = g[m[n]]
  BY <1>3 DEF AmountsListed
<1>7. \A n \in S : f[n] \in Nat /\ f[n] <= g[m[n]]
  BY <1>4, <1>6
<1> HIDE DEF f, g, S, T
<1>8. SumFunctionOnSet(f, S) <= SumFunctionOnSet(g, T)
  BY ONLY <1>3, <1>4, <1>5, <1>7, SumInjected
<1>9. ListedIn(w, d) <= ListedIn(coins, d)
  BY <1>4, <1>5, <1>8
<1> QED BY <1>1, <1>2, <1>9 DEF w

\* Amounts on their way are naturals.
LEMMA ArrivedTyped ==
    ASSUME NEW ps \in SUBSET LsmPacket, IsFiniteSet(ps), NEW d
    PROVE  ArrivingIn(ps, d) \in Nat
<1> DEFINE f == [p \in ps |-> ArrivedAmount(d, p)]
<1>1. \A p \in ps : f[p] \in Nat
  BY DEF LsmPacket, Coin, ArrivedAmount
<1> HIDE DEF f
<1>2. SumFunctionOnSet(f, ps) \in Nat
  BY <1>1, SumNat
<1> QED BY <1>2 DEF ArrivingIn, f

\* A transfer leaves the channel, or another one comes.
LEMMA ArrivingMoves ==
    ASSUME NEW ps \in SUBSET LsmPacket, IsFiniteSet(ps), NEW d
    PROVE  /\ \A p \in ps : /\ IsFiniteSet(ps \ {p})
                            /\ ArrivingIn(ps \ {p}, d)
                                   = ArrivingIn(ps, d) - ArrivedAmount(d, p)
           /\ \A p \in LsmPacket \ ps :
                  /\ IsFiniteSet(ps \cup {p})
                  /\ ArrivingIn(ps \cup {p}, d)
                         = ArrivingIn(ps, d) + ArrivedAmount(d, p)
<1> DEFINE f(s) == [p \in s |-> ArrivedAmount(d, p)]
<1>0. \A p \in LsmPacket : ArrivedAmount(d, p) \in Nat
  BY DEF LsmPacket, Coin, ArrivedAmount
<1>1. ASSUME NEW p \in ps
      PROVE  /\ IsFiniteSet(ps \ {p})
             /\ ArrivingIn(ps \ {p}, d) = ArrivingIn(ps, d) - ArrivedAmount(d, p)
  <2>1. \A q \in ps : f(ps)[q] = ArrivedAmount(d, q) /\ f(ps)[q] \in Int
    BY <1>0
  <2>2. \A q \in ps \ {p} : f(ps \ {p})[q] = f(ps)[q]
    BY <2>1
  <2>3. IsFiniteSet(ps \ {p})
    BY FS_RemoveElement
  <2> DEFINE F == f(ps)
             G == f(ps \ {p})
  <2>4. ArrivingIn(ps \ {p}, d) = SumFunctionOnSet(G, ps \ {p})
        /\ ArrivingIn(ps, d) = SumFunctionOnSet(F, ps)
    BY DEF ArrivingIn
  <2>5. \A q \in ps : F[q] = ArrivedAmount(d, q) /\ F[q] \in Int
    BY <2>1
  <2>6. \A q \in ps \ {p} : G[q] = F[q]
    BY <2>2
  <2> HIDE DEF F, G
  <2>7. SumFunctionOnSet(F, ps \ {p}) = SumFunctionOnSet(F, ps) - F[p]
    BY <2>5, SumRemove
  <2>8. SumFunctionOnSet(G, ps \ {p}) = SumFunctionOnSet(F, ps \ {p})
    BY <2>3, <2>6, SumSame
  <2> QED BY <2>3, <2>4, <2>5, <2>7, <2>8
<1>2. ASSUME NEW p \in LsmPacket \ ps
      PROVE  /\ IsFiniteSet(ps \cup {p})
             /\ ArrivingIn(ps \cup {p}, d) = ArrivingIn(ps, d) + ArrivedAmount(d, p)
  <2> DEFINE T == ps \cup {p}
  <2>1. T \in SUBSET LsmPacket /\ p \in T /\ T \ {p} = ps
    BY <1>2
  <2>2. IsFiniteSet(T)
    BY FS_AddElement
  <2> DEFINE F == f(ps)
             G == f(T)
  <2>4. ArrivingIn(T, d) = SumFunctionOnSet(G, T)
        /\ ArrivingIn(ps, d) = SumFunctionOnSet(F, ps)
    BY DEF ArrivingIn
  <2>5. \A q \in T : G[q] = ArrivedAmount(d, q) /\ G[q] \in Int
    BY <1>0, <2>1
  <2>6. \A q \in ps : F[q] = G[q]
    BY <2>1
  <2> HIDE DEF F, G
  <2>7. SumFunctionOnSet(G, ps \cup {p}) = SumFunctionOnSet(G, ps) + G[p]
    BY <1>2, <2>5, SumAdd
  <2>8. SumFunctionOnSet(F, ps) = SumFunctionOnSet(G, ps)
    BY <2>6, SumSame
  <2> QED BY <2>1, <2>2, <2>4, <2>5, <2>7, <2>8
<1> QED BY <1>1, <1>2

-----------------------------------------------------------------------------
\* What the host has redeemed for one transaction of the channel.
Redeemed(d, tx) == IF tx.ack = "ok" THEN AmountIn(tx.tokens, d) ELSE 0

\* A redemption names one coin of a denomination.  Those in flight are of coins that are
\* listed and denominations that are recorded, and no two of them of the same one, all
\* that but for the denominations in again.
RedemptionsIn(txs, listed, recorded, again) ==
    /\ \A i \in RedeemsOf(txs) :
           /\ txs[i].tokens \in SUBSET Coin
           /\ IsFiniteSet(txs[i].tokens)
           /\ OneCoinEach(txs[i].tokens)
           /\ \A c \in txs[i].tokens :
                  c.denom \notin again => c \in listed /\ c.denom \in recorded
    /\ \A i, j \in RedeemsOf(txs) :
           i # j => Denoms(txs[i].tokens) \cap Denoms(txs[j].tokens) \subseteq again

\* A redemption has the fields of one.
LEMMA RedeemTyped ==
    ASSUME NEW txs \in Seq(PoolTx), NEW i \in RedeemsOf(txs)
    PROVE  txs[i] \in RedeemTx
<1>1. txs[i] \in PoolTx /\ txs[i].tx_type = "RedeemTokenForShare"
  BY DEF RedeemsOf
<1> QED BY <1>1 DEF PoolTx, EraTx, UserWithdrawTx

\* What is redeemed is a natural.
LEMMA RedeemSums ==
    ASSUME NEW txs \in Seq(PoolTx), NEW listed, NEW recorded, NEW again, RedemptionsIn(txs, listed, recorded, again), NEW d \in ShareDenoms
    PROVE  /\ IsFiniteSet(RedeemsOf(txs))
           /\ \A i \in RedeemsOf(txs) : /\ AmountIn(txs[i].tokens, d) \in Nat
                                        /\ Redeemed(d, txs[i]) \in Nat
                                        /\ IsFiniteSet(txs[i].tokens)
           /\ RedeemedIn(txs, d) \in Nat
           /\ RedeemedIn(txs, d) =
                  SumFunctionOnSet([i \in RedeemsOf(txs) |-> Redeemed(d, txs[i])],
                                   RedeemsOf(txs))
<1> DEFINE f == [i \in RedeemsOf(txs) |-> Redeemed(d, txs[i])]
           R == RedeemsOf(txs)
<1>1. IsFiniteSet(R)
  <2>1. DOMAIN txs = 1..Len(txs) /\ Len(txs) \in Nat
    OBVIOUS
  <2>2. IsFiniteSet(DOMAIN txs)
    BY <2>1, FS_Interval
  <2>3. R \in SUBSET DOMAIN txs
    BY DEF RedeemsOf
  <2> HIDE DEF R
  <2> QED BY <2>2, <2>3, FS_Subset
<1>2. ASSUME NEW i \in R
      PROVE  /\ AmountIn(txs[i].tokens, d) \in Nat
             /\ Redeemed(d, txs[i]) \in Nat
             /\ IsFiniteSet(txs[i].tokens)
  <2>1. /\ txs[i].tokens \in SUBSET Coin /\ IsFiniteSet(txs[i].tokens)
        /\ OneCoinEach(txs[i].tokens)
    BY DEF RedemptionsIn
  <2>2. AmountIn(txs[i].tokens, d) \in Nat
    BY <2>1, CoinSums
  <2> QED BY <2>1, <2>2 DEF Redeemed
<1>3. \A i \in R : f[i] \in Nat
  BY <1>2
<1>4. RedeemedIn(txs, d) = SumFunctionOnSet(f, R)
  BY DEF RedeemedIn, Redeemed
<1> HIDE DEF R
<1>5. f = [i \in R |-> Redeemed(d, txs[i])]
  BY DEF R
<1> HIDE DEF f
<1>6. RedeemedIn(txs, d) \in Nat
  BY <1>1, <1>3, <1>4, SumNat
<1> QED BY <1>1, <1>2, <1>4, <1>5, <1>6 DEF R

\* Redemptions that were all in flight before, each in a place of its own.
LEMMA RedemptionsMapped ==
    ASSUME NEW txs, NEW t, NEW listed, NEW recorded, NEW again,
           RedemptionsIn(txs, listed, recorded, again),
           NEW m \in [RedeemsOf(t) -> RedeemsOf(txs)],
           \A i, j \in RedeemsOf(t) : m[i] = m[j] => i = j,
           \A i \in RedeemsOf(t) : t[i].tokens = txs[m[i]].tokens
    PROVE  RedemptionsIn(t, listed, recorded, again)
BY DEF RedemptionsIn

\* What was redeemed before and still is, each in a place of its own.
LEMMA RedeemedMapped ==
    ASSUME NEW txs \in Seq(PoolTx), NEW t \in Seq(PoolTx),
           NEW listed, NEW recorded, NEW again,
           RedemptionsIn(txs, listed, recorded, again), RedemptionsIn(t, listed, recorded, again),
           NEW d \in ShareDenoms, NEW S \in SUBSET RedeemsOf(txs),
           NEW m \in [S -> RedeemsOf(t)], \A i, j \in S : m[i] = m[j] => i = j,
           \A i \in S : Redeemed(d, txs[i]) = Redeemed(d, t[m[i]])
    PROVE  SumFunctionOnSet([i \in RedeemsOf(txs) |-> Redeemed(d, txs[i])], S)
               <= RedeemedIn(t, d)
<1> DEFINE f == [i \in RedeemsOf(txs) |-> Redeemed(d, txs[i])]
           g == [i \in RedeemsOf(t) |-> Redeemed(d, t[i])]
           T == RedeemsOf(t)
<1>1. /\ IsFiniteSet(RedeemsOf(txs))
      /\ \A i \in RedeemsOf(txs) : Redeemed(d, txs[i]) \in Nat
  BY RedeemSums
<1>2. /\ IsFiniteSet(T) /\ \A i \in T : Redeemed(d, t[i]) \in Nat
      /\ RedeemedIn(t, d) = SumFunctionOnSet(g, T)
  BY RedeemSums
<1>3. \A i \in T : g[i] \in Nat
  BY <1>2
<1>4. IsFiniteSet(S)
  BY <1>1, FS_Subset
<1>5. \A i \in S : f[i] \in Nat /\ f[i] <= g[m[i]]
  <2> SUFFICES ASSUME NEW i \in S PROVE f[i] \in Nat /\ f[i] <= g[m[i]]
    OBVIOUS
  <2>1. f[i] = Redeemed(d, txs[i]) /\ f[i] \in Nat
    BY <1>1
  <2>2. g[m[i]] = Redeemed(d, t[m[i]])
    OBVIOUS
  <2>3. f[i] = g[m[i]]
    BY <2>1, <2>2
  <2> HIDE DEF f, g
  <2> QED BY <2>1, <2>3
<1>6. m \in [S -> T]
  OBVIOUS
<1> HIDE DEF f, g, T
<1>7. SumFunctionOnSet(f, S) <= SumFunctionOnSet(g, T)
  BY ONLY <1>2, <1>3, <1>4, <1>5, <1>6, \A i, j \in S : m[i] = m[j] => i = j, SumInjected
<1> QED BY <1>2, <1>7 DEF f

\* The redemptions in flight are unchanged, and the host has redeemed no less.
RedeemsKept(txs, t, listed, recorded, again) ==
    /\ RedemptionsIn(t, listed, recorded, again)
    /\ \A d \in ShareDenoms : RedeemedIn(t, d) >= RedeemedIn(txs, d)

\* The same places hold the same redemptions, none of them newly settled.
LEMMA RedeemsInPlace ==
    ASSUME NEW txs \in Seq(PoolTx), NEW t \in Seq(PoolTx),
           NEW listed, NEW recorded, NEW again,
           RedemptionsIn(txs, listed, recorded, again),
           RedeemsOf(t) = RedeemsOf(txs),
           \A i \in RedeemsOf(txs) : /\ t[i].tokens = txs[i].tokens
                                     /\ t[i].ack = "ok" <=> txs[i].ack = "ok"
    PROVE  RedeemsKept(txs, t, listed, recorded, again)
<1> DEFINE R == RedeemsOf(txs)
           m == [i \in R |-> i]
<1>1. /\ m \in [RedeemsOf(t) -> RedeemsOf(txs)]
      /\ \A i, j \in RedeemsOf(t) : m[i] = m[j] => i = j
      /\ \A i \in RedeemsOf(t) : t[i].tokens = txs[m[i]].tokens
  OBVIOUS
<1> HIDE DEF m
<1>2. RedemptionsIn(t, listed, recorded, again)
  BY ONLY <1>1, RedemptionsIn(txs, listed, recorded, again), RedemptionsMapped
<1>3. ASSUME NEW d \in ShareDenoms PROVE RedeemedIn(t, d) = RedeemedIn(txs, d)
  <2>1. \A i \in R : Redeemed(d, t[i]) = Redeemed(d, txs[i])
    BY DEF Redeemed
  <2>2. [i \in R |-> Redeemed(d, t[i])] = [i \in R |-> Redeemed(d, txs[i])]
    BY <2>1
  <2> QED BY <1>2, <2>2, RedeemSums
<1>4. ASSUME NEW d \in ShareDenoms PROVE RedeemedIn(t, d) >= RedeemedIn(txs, d)
  <2>1. RedeemedIn(t, d) = RedeemedIn(txs, d) /\ RedeemedIn(txs, d) \in Nat
    BY <1>3, RedeemSums
  <2> QED BY <2>1
<1> QED BY <1>2, <1>4 DEF RedeemsKept

\* Another transaction is sent.
LEMMA OtherSubmitted ==
    ASSUME NEW txs \in Seq(PoolTx), NEW tx, tx.tx_type # "RedeemTokenForShare",
           NEW t \in Seq(PoolTx), t = Append(txs, tx),
           NEW listed, NEW recorded, NEW again,
           RedemptionsIn(txs, listed, recorded, again)
    PROVE  RedeemsKept(txs, t, listed, recorded, again)
<1>1. /\ DOMAIN t = DOMAIN txs \cup {Len(txs) + 1}
      /\ Len(txs) + 1 \notin DOMAIN txs
      /\ \A j \in DOMAIN txs : t[j] = txs[j]
      /\ t[Len(txs) + 1] = tx
  BY AppendTxs
<1>2. /\ RedeemsOf(t) = RedeemsOf(txs)
      /\ \A i \in RedeemsOf(txs) : t[i] = txs[i]
  BY <1>1 DEF RedeemsOf
<1> QED BY <1>2, RedeemsInPlace

\* A redemption of listed coins is sent: the denominations that are recorded already are
\* redeemed again.
LEMMA RedeemSubmitted ==
    ASSUME NEW txs \in Seq(PoolTx), NEW tx \in RedeemTx, tx.ack = "none",
           NEW t \in Seq(PoolTx), t = Append(txs, tx),
           NEW listed, NEW recorded, NEW again,
           RedemptionsIn(txs, listed, recorded, again),
           tx.tokens \subseteq listed, IsFiniteSet(tx.tokens), OneCoinEach(tx.tokens),
           NEW more, more = again \cup (Denoms(tx.tokens) \cap recorded)
    PROVE  RedeemsKept(txs, t, listed, recorded \cup Denoms(tx.tokens), more)
<1> DEFINE n == Len(txs) + 1
           known == recorded \cup Denoms(tx.tokens)
<1>1. /\ DOMAIN t = DOMAIN txs \cup {n} /\ n \notin DOMAIN txs
      /\ \A j \in DOMAIN txs : t[j] = txs[j]
      /\ t[n] = tx
  BY AppendTxs
<1> HIDE DEF n
<1>2. tx.tx_type = "RedeemTokenForShare" /\ tx.tokens \in SUBSET Coin
  BY DEF RedeemTx
<1>3. /\ RedeemsOf(t) = RedeemsOf(txs) \cup {n} /\ n \notin RedeemsOf(txs)
      /\ \A i \in RedeemsOf(txs) : t[i] = txs[i]
  BY <1>1, <1>2 DEF RedeemsOf
<1>4. RedemptionsIn(txs, listed, known, more)
  BY DEF RedemptionsIn
<1>5. RedemptionsIn(t, listed, known, more)
  <2>1. ASSUME NEW i \in RedeemsOf(t)
        PROVE  /\ t[i].tokens \in SUBSET Coin /\ IsFiniteSet(t[i].tokens)
               /\ OneCoinEach(t[i].tokens)
               /\ \A c \in t[i].tokens :
                      c.denom \notin more => c \in listed /\ c.denom \in known
    <3>1. CASE i = n
      BY <1>1, <1>2, <3>1 DEF Denoms
    <3>2. CASE i \in RedeemsOf(txs)
      <4> HIDE DEF known
      <4> QED BY <1>3, <1>4, <3>2 DEF RedemptionsIn
    <3> QED BY <1>3, <3>1, <3>2
  <2>2. ASSUME NEW i \in RedeemsOf(txs)
        PROVE  Denoms(txs[i].tokens) \cap Denoms(tx.tokens) \subseteq more
    <3>1. \A c \in txs[i].tokens : c.denom \in again \cup recorded
      BY DEF RedemptionsIn
    <3>2. Denoms(txs[i].tokens) \subseteq again \cup recorded
      BY <3>1 DEF Denoms
    <3> QED BY <3>2
  <2>3. ASSUME NEW i \in RedeemsOf(t), NEW j \in RedeemsOf(t), i # j
        PROVE  Denoms(t[i].tokens) \cap Denoms(t[j].tokens) \subseteq more
    BY <1>1, <1>3, <1>4, <2>2, <2>3 DEF RedemptionsIn
  <2> HIDE DEF known
  <2> QED BY <2>1, <2>3 DEF RedemptionsIn
<1> HIDE DEF known
<1>6. ASSUME NEW d \in ShareDenoms PROVE RedeemedIn(t, d) >= RedeemedIn(txs, d)
  <2> DEFINE R == RedeemsOf(txs)
             f == [i \in R |-> Redeemed(d, txs[i])]
             g == [i \in RedeemsOf(t) |-> Redeemed(d, t[i])]
  <2>1. /\ IsFiniteSet(R) /\ RedeemedIn(txs, d) = SumFunctionOnSet(f, R)
        /\ RedeemedIn(txs, d) \in Nat
    BY RedeemSums
  <2>2. /\ RedeemedIn(t, d) = SumFunctionOnSet(g, RedeemsOf(t))
        /\ \A i \in RedeemsOf(t) : Redeemed(d, t[i]) \in Nat
    BY <1>5, RedeemSums
  <2>3. \A i \in RedeemsOf(t) : g[i] \in Int
    <3>1. \A i \in RedeemsOf(t) : g[i] \in Nat
      BY <2>2
    <3> HIDE DEF g
    <3> QED BY ONLY <3>1
  <2>4. \A i \in R : f[i] = g[i]
    BY <1>3
  <2>5. n \in RedeemsOf(t) /\ g[n] = Redeemed(d, tx)
    BY <1>1, <1>3
  <2>6. g[n] = 0
    BY <2>5 DEF Redeemed
  <2> HIDE DEF f, g, R
  <2>7. SumFunctionOnSet(f, R) = SumFunctionOnSet(g, R)
    BY <2>1, <2>4, SumSame
  <2>8. RedeemsOf(t) = R \cup {n} /\ n \notin R
    BY <1>3 DEF R
  <2>9. SumFunctionOnSet(g, R \cup {n}) = SumFunctionOnSet(g, R) + g[n]
    BY ONLY <2>1, <2>3, <2>8, SumAdd
  <2> QED BY <2>1, <2>2, <2>6, <2>7, <2>8, <2>9
<1> QED BY <1>5, <1>6 DEF RedeemsKept, known

\* m takes each place of A in t to one in B of s that holds the same, no two to one.
Carries(m, A, B, t, s) ==
    /\ m \in [A -> B]
    /\ \A i, j \in A : m[i] = m[j] => i = j
    /\ \A j \in A : t[j] = s[m[j]]

\* The oldest transaction is taken off: the redemptions left move up by one place.
LEMMA OldestRedeems ==
    ASSUME NEW txs \in Seq(PoolTx), txs # <<>>, NEW t, t = Tail(txs)
    PROVE  /\ t \in Seq(PoolTx) /\ Head(txs) = txs[1]
           /\ 1 \in RedeemsOf(txs) <=> Head(txs).tx_type = "RedeemTokenForShare"
           /\ \E up : Carries(up, RedeemsOf(t), RedeemsOf(txs) \ {1}, t, txs)
           /\ \E down : Carries(down, RedeemsOf(txs) \ {1}, RedeemsOf(t), txs, t)
<1> DEFINE R == RedeemsOf(t)
           S == RedeemsOf(txs) \ {1}
           up == [j \in R |-> j + 1]
           down == [k \in S |-> k - 1]
<1>1. /\ Len(txs) \in Nat \ {0} /\ DOMAIN txs = 1..Len(txs)
      /\ DOMAIN t = 1..(Len(txs) - 1)
      /\ \A j \in DOMAIN t : t[j] = txs[j + 1]
      /\ Head(txs) = txs[1] /\ t \in Seq(PoolTx)
  OBVIOUS
<1>2. ASSUME NEW j \in R
      PROVE  j \in Nat /\ t[j] = txs[j + 1] /\ j + 1 \in S
  BY <1>1 DEF RedeemsOf
<1>3. ASSUME NEW k \in S
      PROVE  k \in Nat /\ t[k - 1] = txs[k] /\ k - 1 \in R
  <2>1. k \in 2..Len(txs) /\ txs[k].tx_type = "RedeemTokenForShare"
    BY <1>1 DEF RedeemsOf
  <2>2. k - 1 \in DOMAIN t /\ (k - 1) + 1 = k
    BY <1>1, <2>1
  <2> QED BY <1>1, <2>1, <2>2 DEF RedeemsOf
<1>4. 1 \in RedeemsOf(txs) <=> Head(txs).tx_type = "RedeemTokenForShare"
  BY <1>1 DEF RedeemsOf
<1> HIDE DEF R, S
<1>5. Carries(up, R, S, t, txs)
  <2>1. up \in [R -> S] /\ \A j \in R : up[j] = j + 1
    BY <1>2
  <2>2. \A j \in R : t[j] = txs[up[j]]
    BY <1>2
  <2>3. ASSUME NEW i \in R, NEW j \in R, up[i] = up[j] PROVE i = j
    <3>1. i \in Nat /\ j \in Nat /\ i + 1 = j + 1
      BY <1>2, <2>1, <2>3
    <3> QED BY <3>1
  <2> HIDE DEF up
  <2> QED BY <2>1, <2>2, <2>3 DEF Carries
<1>6. Carries(down, S, R, txs, t)
  <2>1. down \in [S -> R] /\ \A k \in S : down[k] = k - 1
    BY <1>3
  <2>2. \A k \in S : txs[k] = t[down[k]]
    BY <1>3
  <2>3. ASSUME NEW i \in S, NEW j \in S, down[i] = down[j] PROVE i = j
    <3>1. i \in Nat /\ j \in Nat /\ i - 1 = j - 1
      BY <1>3, <2>1, <2>3
    <3> QED BY <3>1
  <2> HIDE DEF down
  <2> QED BY <2>1, <2>2, <2>3 DEF Carries
<1> HIDE DEF up, down
<1> QED BY <1>1, <1>4, <1>5, <1>6 DEF R, S

\* What is left was in flight before; what was redeemed for the oldest one is gone.
LEMMA OldestTakenOff ==
    ASSUME NEW txs \in Seq(PoolTx), txs # <<>>, NEW t, t = Tail(txs),
           NEW listed, NEW recorded, NEW again,
           RedemptionsIn(txs, listed, recorded, again)
    PROVE  /\ t \in Seq(PoolTx)
           /\ RedemptionsIn(t, listed, recorded, again)
           /\ Head(txs).tx_type # "RedeemTokenForShare" =>
                  RedeemsKept(txs, t, listed, recorded, again)
           /\ Head(txs).tx_type = "RedeemTokenForShare" =>
                  /\ 1 \in RedeemsOf(txs) /\ Head(txs) = txs[1]
                  /\ \A d \in ShareDenoms :
                         RedeemedIn(t, d) >= RedeemedIn(txs, d) - Redeemed(d, Head(txs))
                  /\ \A j \in RedeemsOf(t) :
                         Denoms(t[j].tokens) \cap Denoms(Head(txs).tokens) \subseteq again
<1> DEFINE S == RedeemsOf(txs) \ {1}
<1>1. /\ t \in Seq(PoolTx) /\ Head(txs) = txs[1]
      /\ 1 \in RedeemsOf(txs) <=> Head(txs).tx_type = "RedeemTokenForShare"
  BY OldestRedeems
<1>20. PICK up : Carries(up, RedeemsOf(t), S, t, txs)
  BY OldestRedeems
<1>30. PICK down : Carries(down, S, RedeemsOf(t), txs, t)
  BY OldestRedeems
<1>2. /\ up \in [RedeemsOf(t) -> S]
      /\ \A i, j \in RedeemsOf(t) : up[i] = up[j] => i = j
      /\ \A j \in RedeemsOf(t) : t[j] = txs[up[j]]
  BY <1>20 DEF Carries
<1>3. /\ down \in [S -> RedeemsOf(t)]
      /\ \A i, j \in S : down[i] = down[j] => i = j
      /\ \A k \in S : txs[k] = t[down[k]]
  BY <1>30 DEF Carries
<1>10. /\ up \in [RedeemsOf(t) -> RedeemsOf(txs)]
       /\ \A j \in RedeemsOf(t) : t[j].tokens = txs[up[j]].tokens
  BY <1>2
<1>4. RedemptionsIn(t, listed, recorded, again)
  BY ONLY <1>2, <1>10, RedemptionsIn(txs, listed, recorded, again), RedemptionsMapped
<1>5. ASSUME NEW d \in ShareDenoms
      PROVE  /\ RedeemedIn(txs, d) \in Nat /\ RedeemedIn(t, d) \in Nat
             /\ IF 1 \in RedeemsOf(txs)
                THEN RedeemedIn(txs, d) - Redeemed(d, txs[1]) <= RedeemedIn(t, d)
                ELSE RedeemedIn(txs, d) <= RedeemedIn(t, d)
  <2> DEFINE R == RedeemsOf(txs)
             f == [i \in RedeemsOf(txs) |-> Redeemed(d, txs[i])]
  <2>1. /\ IsFiniteSet(R) /\ \A i \in R : Redeemed(d, txs[i]) \in Nat
        /\ RedeemedIn(txs, d) = SumFunctionOnSet(f, R) /\ RedeemedIn(txs, d) \in Nat
    BY RedeemSums
  <2>2. RedeemedIn(t, d) \in Nat
    BY <1>1, <1>4, RedeemSums
  <2>3. SumFunctionOnSet(f, S) <= RedeemedIn(t, d)
    <3>1. S \in SUBSET RedeemsOf(txs)
      OBVIOUS
    <3>2. \A k \in S : Redeemed(d, txs[k]) = Redeemed(d, t[down[k]])
      BY <1>3
    <3>3. down \in [S -> RedeemsOf(t)] /\ \A i, j \in S : down[i] = down[j] => i = j
      BY <1>3
    <3> HIDE DEF S
    <3> QED BY <1>1, <1>4, <3>1, <3>2, <3>3, RedeemedMapped
  <2>4. \A i \in R : f[i] = Redeemed(d, txs[i]) /\ f[i] \in Int
    BY <2>1
  <2>5. CASE 1 \in R
    <3>1. SumFunctionOnSet(f, R \ {1}) = SumFunctionOnSet(f, R) - f[1]
      <4> HIDE DEF f, R
      <4> QED BY ONLY <2>1, <2>4, <2>5, SumRemove
    <3>2. f[1] = Redeemed(d, txs[1])
      BY <2>4, <2>5
    <3> HIDE DEF f
    <3> QED BY <2>1, <2>2, <2>3, <2>5, <3>1, <3>2
  <2>6. CASE 1 \notin R
    <3>1. S = R
      BY <2>6
    <3> QED BY <2>1, <2>2, <2>3, <2>6, <3>1
  <2> QED BY <2>5, <2>6
<1>6. ASSUME Head(txs).tx_type # "RedeemTokenForShare"
      PROVE  RedeemsKept(txs, t, listed, recorded, again)
  <2>1. ASSUME NEW d \in ShareDenoms PROVE RedeemedIn(t, d) >= RedeemedIn(txs, d)
    BY <1>1, <1>5, <1>6
  <2> QED BY <1>4, <2>1 DEF RedeemsKept
<1>7. ASSUME Head(txs).tx_type = "RedeemTokenForShare"
      PROVE  /\ 1 \in RedeemsOf(txs)
             /\ \A d \in ShareDenoms :
                    RedeemedIn(t, d) >= RedeemedIn(txs, d) - Redeemed(d, Head(txs))
             /\ \A j \in RedeemsOf(t) :
                    Denoms(t[j].tokens) \cap Denoms(Head(txs).tokens) \subseteq again
  <2>1. 1 \in RedeemsOf(txs)
    BY <1>1, <1>7
  <2>2. ASSUME NEW d \in ShareDenoms
        PROVE  RedeemedIn(t, d) >= RedeemedIn(txs, d) - Redeemed(d, Head(txs))
    <3>1. Redeemed(d, txs[1]) \in Nat
      BY <2>1, RedeemSums
    <3> QED BY <1>1, <1>5, <2>1, <3>1
  <2>3. ASSUME NEW j \in RedeemsOf(t)
        PROVE  Denoms(t[j].tokens) \cap Denoms(Head(txs).tokens) \subseteq again
    <3>1. up[j] \in RedeemsOf(txs) /\ up[j] # 1 /\ t[j] = txs[up[j]]
      BY <1>2
    <3> QED BY <1>1, <2>1, <3>1 DEF RedemptionsIn
  <2> QED BY <2>1, <2>2, <2>3
<1> QED BY <1>1, <1>4, <1>6, <1>7

Acked(txs, i, a) == [txs EXCEPT ![i].ack = a]

\* The host answers a transaction.
LEMMA AnsweredRedeems ==
    ASSUME NEW txs \in Seq(PoolTx), NEW i \in DOMAIN txs, NEW a \in Ack,
           NEW t, t = Acked(txs, i, a)
    PROVE  /\ t \in Seq(PoolTx) /\ RedeemsOf(t) = RedeemsOf(txs)
           /\ \A j \in RedeemsOf(txs) : /\ t[j].tokens = txs[j].tokens
                                        /\ j # i => t[j].ack = txs[j].ack
           /\ i \in RedeemsOf(txs) => t[i].ack = a
<1>1. /\ DOMAIN t = DOMAIN txs
      /\ \A j \in DOMAIN txs : t[j].tx_type = txs[j].tx_type
  BY AnsweredTxs DEF Acked
<1>2. t \in Seq(PoolTx)
  BY PoolTxTyped DEF Acked
<1>3. \A j \in DOMAIN txs : j # i => t[j] = txs[j]
  BY DEF Acked
<1>4. t[i] = [txs[i] EXCEPT !.ack = a]
  BY DEF Acked
<1>5. RedeemsOf(t) = RedeemsOf(txs)
  BY <1>1 DEF RedeemsOf
<1>6. ASSUME i \in RedeemsOf(txs) PROVE t[i].tokens = txs[i].tokens /\ t[i].ack = a
  <2>1. txs[i] \in RedeemTx
    BY <1>6, RedeemTyped
  <2> QED BY <1>4, <2>1 DEF RedeemTx
<1>7. ASSUME NEW j \in RedeemsOf(txs), j # i
      PROVE  t[j].tokens = txs[j].tokens /\ t[j].ack = txs[j].ack
  <2>1. t[j] = txs[j]
    BY <1>3, <1>7 DEF RedeemsOf
  <2> QED BY <2>1
<1> QED BY <1>2, <1>5, <1>6, <1>7

\* Unless that settles a redemption the host has redeemed the same.
LEMMA OtherAnswered ==
    ASSUME NEW txs \in Seq(PoolTx), NEW i \in DOMAIN txs, NEW a \in Ack,
           NEW t, t = Acked(txs, i, a),
           txs[i].tx_type # "RedeemTokenForShare" \/ (txs[i].ack # "ok" /\ a # "ok"),
           NEW listed, NEW recorded, NEW again,
           RedemptionsIn(txs, listed, recorded, again)
    PROVE  t \in Seq(PoolTx) /\ RedeemsKept(txs, t, listed, recorded, again)
<1>1. /\ t \in Seq(PoolTx) /\ RedeemsOf(t) = RedeemsOf(txs)
      /\ \A j \in RedeemsOf(txs) : /\ t[j].tokens = txs[j].tokens
                                   /\ j # i => t[j].ack = txs[j].ack
      /\ i \in RedeemsOf(txs) => t[i].ack = a
  BY AnsweredRedeems
<1>2. \A j \in RedeemsOf(txs) : t[j].ack = "ok" <=> txs[j].ack = "ok"
  BY <1>1 DEF RedeemsOf
<1> QED BY <1>1, <1>2, RedeemsInPlace

\* When it does, the host has redeemed the coins of that one.
LEMMA RedeemAnswered ==
    ASSUME NEW txs \in Seq(PoolTx), NEW i \in RedeemsOf(txs), txs[i].ack # "ok",
           NEW a, a = "ok", NEW t, t = Acked(txs, i, a),
           NEW listed, NEW recorded, NEW again,
           RedemptionsIn(txs, listed, recorded, again)
    PROVE  /\ t \in Seq(PoolTx) /\ RedemptionsIn(t, listed, recorded, again)
           /\ \A d \in ShareDenoms :
                  RedeemedIn(t, d) = RedeemedIn(txs, d) + AmountIn(txs[i].tokens, d)
<1> DEFINE R == RedeemsOf(txs)
           m == [j \in R |-> j]
<1>1. /\ t \in Seq(PoolTx) /\ RedeemsOf(t) = R
      /\ \A j \in R : /\ t[j].tokens = txs[j].tokens
                      /\ j # i => t[j].ack = txs[j].ack
      /\ t[i].ack = "ok"
  <2>1. i \in DOMAIN txs /\ a \in Ack
    BY DEF RedeemsOf, Ack
  <2> QED BY <2>1, AnsweredRedeems
<1>2. /\ m \in [RedeemsOf(t) -> RedeemsOf(txs)]
      /\ \A j, k \in RedeemsOf(t) : m[j] = m[k] => j = k
      /\ \A j \in RedeemsOf(t) : t[j].tokens = txs[m[j]].tokens
  BY <1>1
<1> HIDE DEF m
<1>3. RedemptionsIn(t, listed, recorded, again)
  BY ONLY <1>2, RedemptionsIn(txs, listed, recorded, again), RedemptionsMapped
<1>4. ASSUME NEW d \in ShareDenoms
      PROVE  RedeemedIn(t, d) = RedeemedIn(txs, d) + AmountIn(txs[i].tokens, d)
  <2> DEFINE f == [j \in R |-> Redeemed(d, txs[j])]
             g == [j \in R |-> Redeemed(d, t[j])]
  <2>1. /\ IsFiniteSet(R) /\ \A j \in R : Redeemed(d, txs[j]) \in Nat
        /\ RedeemedIn(txs, d) = SumFunctionOnSet(f, R) /\ RedeemedIn(txs, d) \in Nat
    BY RedeemSums
  <2>2. /\ \A j \in R : Redeemed(d, t[j]) \in Nat
        /\ RedeemedIn(t, d) = SumFunctionOnSet(g, R)
    <3>1. /\ \A j \in RedeemsOf(t) : Redeemed(d, t[j]) \in Nat
          /\ RedeemedIn(t, d) = SumFunctionOnSet([j \in RedeemsOf(t) |-> Redeemed(d, t[j])],
                                                 RedeemsOf(t))
      BY <1>1, <1>3, RedeemSums
    <3> QED BY <1>1, <3>1
  <2>3. \A j \in R : f[j] \in Int /\ g[j] \in Int
    <3>1. \A j \in R : f[j] \in Nat
      BY <2>1
    <3>2. \A j \in R : g[j] \in Nat
      BY <2>2
    <3> HIDE DEF f, g, R
    <3> QED BY ONLY <3>1, <3>2
  <2>4. \A j \in R : j # i => g[j] = f[j]
    BY <1>1 DEF Redeemed
  <2>5. f[i] = 0 /\ g[i] = AmountIn(txs[i].tokens, d)
    BY <1>1 DEF Redeemed
  <2>6. i \in R
    OBVIOUS
  <2> HIDE DEF f, g, R
  <2>7. SumFunctionOnSet(g, R) = SumFunctionOnSet(f, R) - f[i] + g[i]
    BY ONLY <2>1, <2>3, <2>4, <2>6, SumUpdate
  <2>8. g[i] \in Int
    BY <2>3, <2>6
  <2> QED BY <2>1, <2>2, <2>5, <2>7, <2>8
<1> QED BY <1>1, <1>3, <1>4

-----------------------------------------------------------------------------
ShareTypes ==
    /\ share_tokens \in Seq(Coin)
    /\ redeemming_share_token_denom \subseteq ShareDenoms
    /\ lsm_transfers \subseteq LsmPacket
    /\ staker_shares \in [ShareDenoms -> Nat]
    /\ host_shares \in [ShareDenoms -> Nat]
    /\ late_lsm \in Nat
    /\ redeemed_again \subseteq ShareDenoms

\* Finitely many transfers are in flight, each with an id of its own.
TransfersDistinct ==
    /\ IsFiniteSet(lsm_transfers)
    /\ \A p, q \in lsm_transfers : p.id = q.id => p = q

\* The redemptions in flight are known to the contract.
RedemptionsKnown ==
    RedemptionsIn(pool_txs, Range(share_tokens), redeemming_share_token_denom,
                  redeemed_again)

\* What is listed, and what will be once its acknowledgement is here, the host holds
\* or has just redeemed, but for the denominations redeemed again while in flight.
SharesHeld ==
    \A d \in ShareDenoms \ redeemed_again :
        ListedIn(share_tokens, d) + ArrivingIn(lsm_transfers, d)
            <= host_shares[d] + RedeemedIn(pool_txs, d)

\* The invariant of the shares: that nothing listed is missing on the host depends on
\* each redemption in flight being the only one of its denominations.
Shares == ShareTypes /\ TransfersDistinct /\ RedemptionsKnown /\ SharesHeld

\* There is always an id that no transfer in flight has.
LEMMA NextIdFree ==
    ASSUME TransfersDistinct
    PROVE  NextId \in Nat /\ \A p \in lsm_transfers : p.id # NextId
<1> DEFINE C == Cardinality(lsm_transfers)
           N == 1..(C + 1)
<1>1. C \in Nat /\ IsFiniteSet(lsm_transfers)
  BY FS_CardinalityType DEF TransfersDistinct
<1>2. \E n \in N : \A p \in lsm_transfers : p.id # n
  <2> SUFFICES ASSUME \A n \in N : \E p \in lsm_transfers : p.id = n PROVE FALSE
    OBVIOUS
  <2> DEFINE f == [n \in N |-> CHOOSE p \in lsm_transfers : p.id = n]
  <2>1. \A n \in N : f[n] \in lsm_transfers /\ f[n].id = n
    OBVIOUS
  <2>2. f \in [N -> lsm_transfers]
    BY <2>1
  <2> HIDE DEF f
  <2>3. f \in Injection(N, lsm_transfers)
    BY <2>1, <2>2 DEF Injection, IsInjective
  <2>4. Cardinality(N) <= C
    BY <1>1, <2>3, FS_Injection
  <2>5. Cardinality(N) = C + 1
    <3>1. 1 \in Int /\ C + 1 \in Int /\ ~(1 > C + 1)
      BY <1>1
    <3>2. Cardinality(1..(C + 1)) = (C + 1) - 1 + 1
      BY ONLY <3>1, FS_Interval
    <3> QED BY <1>1, <3>2
  <2> QED BY <1>1, <2>4, <2>5
<1>3. NextId \in N /\ \A p \in lsm_transfers : p.id # NextId
  BY <1>2 DEF NextId
<1> QED BY <1>1, <1>3

\* The amounts that the invariant of the shares relates.
LEMMA ShareAmountsTyped ==
    ASSUME ChannelsTypeOK, Shares, NEW d \in ShareDenoms
    PROVE  /\ ListedIn(share_tokens, d) \in Nat
           /\ ArrivingIn(lsm_transfers, d) \in Nat
           /\ host_shares[d] \in Nat
           /\ RedeemedIn(pool_txs, d) \in Nat
           /\ IsFiniteSet(Range(share_tokens)) /\ Range(share_tokens) \in SUBSET Coin
<1>1. /\ share_tokens \in Seq(Coin) /\ host_shares \in [ShareDenoms -> Nat]
      /\ lsm_transfers \in SUBSET LsmPacket /\ IsFiniteSet(lsm_transfers)
      /\ pool_txs \in Seq(PoolTx)
      /\ RedemptionsIn(pool_txs, Range(share_tokens), redeemming_share_token_denom,
                  redeemed_again)
  BY DEF ChannelsTypeOK, Shares, ShareTypes, TransfersDistinct, RedemptionsKnown
<1>2. IsFiniteSet(Range(share_tokens)) /\ Range(share_tokens) \in SUBSET Coin
  BY <1>1, RangeFinite
<1>3. ListedIn(share_tokens, d) \in Nat /\ ArrivingIn(lsm_transfers, d) \in Nat
  BY <1>1, ListedSums, ArrivedTyped
<1>4. RedeemedIn(pool_txs, d) \in Nat
  BY <1>1, <1>2, RedeemSums
<1> QED BY <1>1, <1>2, <1>3, <1>4

\* A step that leaves the shares alone and settles no redemption.
LEMMA SharesLeft ==
    ASSUME ChannelsTypeOK, Shares,
           UNCHANGED <<share_tokens, redeemming_share_token_denom, lsm_transfers,
                       staker_shares, host_shares, redeemed_again>>, late_lsm' \in Nat,
           pool_txs' \in Seq(PoolTx),
           RedeemsKept(pool_txs, pool_txs', Range(share_tokens),
                       redeemming_share_token_denom, redeemed_again)
    PROVE  Shares'
<1>1. ShareTypes' /\ TransfersDistinct'
  BY DEF Shares, ShareTypes, TransfersDistinct
<1>2. RedemptionsKnown'
  BY DEF RedeemsKept, RedemptionsKnown
<1>3. SharesHeld'
  <2> SUFFICES ASSUME NEW d \in ShareDenoms \ redeemed_again
               PROVE  ListedIn(share_tokens, d) + ArrivingIn(lsm_transfers, d)
                          <= host_shares[d] + RedeemedIn(pool_txs', d)
    BY DEF SharesHeld
  <2>1. /\ ListedIn(share_tokens, d) \in Nat /\ ArrivingIn(lsm_transfers, d) \in Nat
        /\ host_shares[d] \in Nat /\ RedeemedIn(pool_txs, d) \in Nat
        /\ IsFiniteSet(Range(share_tokens)) /\ Range(share_tokens) \in SUBSET Coin
    BY ShareAmountsTyped
  <2>2. RedeemedIn(pool_txs', d) >= RedeemedIn(pool_txs, d)
    BY DEF RedeemsKept
  <2>3. RedeemedIn(pool_txs', d) \in Nat
    BY <2>1, RedeemSums DEF RedeemsKept
  <2>4. ListedIn(share_tokens, d) + ArrivingIn(lsm_transfers, d)
            <= host_shares[d] + RedeemedIn(pool_txs, d)
    BY DEF Shares, SharesHeld
  <2> QED BY <2>1, <2>2, <2>3, <2>4
<1> QED BY <1>1, <1>2, <1>3 DEF Shares

\* No step of the era cycle touches the shares.
LEMMA EraShares ==
    ASSUME ChannelsTypeOK, ChannelsTypeOK', Shares, [SerialNext]_vars,
           UNCHANGED <<share_tokens, redeemming_share_token_denom, lsm_transfers,
                       staker_shares, host_shares, redeemed_again>>, late_lsm' \in Nat
    PROVE  Shares'
<1> DEFINE listed == Range(share_tokens)
           known == redeemming_share_token_denom
<1>1. /\ pool_txs \in Seq(PoolTx) /\ pool_txs' \in Seq(PoolTx)
      /\ RedemptionsIn(pool_txs, listed, known, redeemed_again)
      /\ share_tokens \in Seq(Coin)
  BY DEF ChannelsTypeOK, Shares, RedemptionsKnown, ShareTypes
<1>2. IsFiniteSet(listed) /\ listed \in SUBSET Coin
  BY <1>1, RangeFinite
<1>3. RedeemsKept(pool_txs, pool_txs', listed, known, redeemed_again)
  <2> HIDE DEF listed, known
  <2>1. CASE pool_txs' = pool_txs
    BY <1>1, <1>2, <2>1, RedeemsInPlace
  <2>2. ASSUME NEW tx, tx.tx_type # "RedeemTokenForShare",
               pool_txs' = Append(pool_txs, tx)
        PROVE  RedeemsKept(pool_txs, pool_txs', listed, known, redeemed_again)
    BY <1>1, <1>2, <2>2, OtherSubmitted
  <2>3. ASSUME pool_txs # <<>>, pool_txs' = Tail(pool_txs),
               Head(pool_txs).tx_type # "RedeemTokenForShare"
        PROVE  RedeemsKept(pool_txs, pool_txs', listed, known, redeemed_again)
    BY <1>1, <1>2, <2>3, OldestTakenOff
  <2>4. ASSUME NEW i \in DOMAIN pool_txs, NEW a \in Ack,
               \/ pool_txs[i].tx_type # "RedeemTokenForShare"
               \/ pool_txs[i].ack # "ok" /\ a # "ok",
               pool_txs' = [pool_txs EXCEPT ![i].ack = a]
        PROVE  RedeemsKept(pool_txs, pool_txs', listed, known, redeemed_again)
    <3>1. pool_txs' = Acked(pool_txs, i, a)
      BY <2>4 DEF Acked
    <3> QED BY <1>1, <1>2, <2>4, <3>1, OtherAnswered
  <2> QED BY <2>1, <2>2, <2>3, <2>4, ChannelSteps
<1> QED BY <1>1, <1>3, SharesLeft

\* One transfer's outcome is decided.
LEMMA TransferAnswered ==
    ASSUME ShareTypes, TransfersDistinct, NEW p \in lsm_transfers, NEW q \in LsmPacket,
           q.id = p.id, lsm_transfers' = (lsm_transfers \ {p}) \cup {q}
    PROVE  /\ TransfersDistinct' /\ lsm_transfers' \subseteq LsmPacket
           /\ \A d : ArrivingIn(lsm_transfers', d) =
                  ArrivingIn(lsm_transfers, d) - ArrivedAmount(d, p) + ArrivedAmount(d, q)
<1> DEFINE ps == lsm_transfers
           rest == ps \ {p}
<1>1. /\ ps \in SUBSET LsmPacket /\ IsFiniteSet(ps)
      /\ \A a, b \in ps : a.id = b.id => a = b
  BY DEF ShareTypes, TransfersDistinct
<1>2. rest \in SUBSET LsmPacket /\ IsFiniteSet(rest)
  BY <1>1, FS_RemoveElement
<1>3. q \in LsmPacket \ rest
  BY <1>1
<1>4. \A a, b \in rest \cup {q} : a.id = b.id => a = b
  BY <1>1
<1>5. ASSUME NEW d
      PROVE  ArrivingIn(lsm_transfers', d) =
                  ArrivingIn(lsm_transfers, d) - ArrivedAmount(d, p) + ArrivedAmount(d, q)
  <2>1. ArrivingIn(rest, d) = ArrivingIn(ps, d) - ArrivedAmount(d, p)
    BY <1>1, ArrivingMoves
  <2> HIDE DEF rest
  <2>2. ArrivingIn(rest \cup {q}, d) = ArrivingIn(rest, d) + ArrivedAmount(d, q)
    BY <1>2, <1>3, ArrivingMoves
  <2> QED BY <2>1, <2>2 DEF rest
<1>6. IsFiniteSet(rest \cup {q})
  BY <1>2, FS_AddElement
<1> QED BY <1>2, <1>4, <1>5, <1>6 DEF TransfersDistinct

\* Shares are sent.
LEMMA StakeLsmShares ==
    ASSUME ChannelsTypeOK, Shares, NEW d \in ShareDenoms, NEW a \in ShareAmounts,
           execute_stake_lsm([denom |-> d, amount |-> a])
    PROVE  Shares'
<1> DEFINE coin == [denom |-> d, amount |-> a]
           p == [id |-> NextId, coin |-> coin, token_amount |-> TokenAmount(a),
                 ack |-> "none"]
<1>1. /\ staker_shares' = [staker_shares EXCEPT ![d] = @ - a]
      /\ a \in 1..staker_shares[d]
      /\ lsm_transfers' = lsm_transfers \cup {p}
      /\ UNCHANGED <<vars, share_tokens, redeemming_share_token_denom,
                     host_shares, late_lsm, redeemed_again>>
  BY DEF execute_stake_lsm
<1>2. a \in Nat /\ TokenAmount(a) \in Nat
  BY LsmAssumption, MulNat, DivNat DEF TokenAmount
<1>3. NextId \in Nat /\ \A q \in lsm_transfers : q.id # NextId
  BY NextIdFree DEF Shares
<1>4. p \in LsmPacket \ lsm_transfers /\ \A q \in lsm_transfers : q.id # p.id
  BY <1>2, <1>3 DEF LsmPacket, Coin, Ack
<1>5. p.ack = "none"
  OBVIOUS
<1> HIDE DEF p
<1>6. ShareTypes'
  <2>1. staker_shares' \in [ShareDenoms -> Nat]
    BY <1>1, <1>2 DEF Shares, ShareTypes
  <2> QED BY <1>1, <1>4, <2>1 DEF Shares, ShareTypes
<1>7. TransfersDistinct'
  BY <1>1, <1>4, FS_AddElement DEF Shares, TransfersDistinct
<1>8. pool_txs' = pool_txs
  BY <1>1 DEF vars, packet_vars
<1>9. RedemptionsKnown'
  BY <1>1, <1>8 DEF Shares, RedemptionsKnown
<1>10. SharesHeld'
  <2> SUFFICES ASSUME NEW e \in ShareDenoms \ redeemed_again
               PROVE  ListedIn(share_tokens, e) + ArrivingIn(lsm_transfers', e)
                          <= host_shares[e] + RedeemedIn(pool_txs, e)
    BY <1>1, <1>8 DEF SharesHeld
  <2>1. ArrivingIn(lsm_transfers \cup {p}, e)
            = ArrivingIn(lsm_transfers, e) + ArrivedAmount(e, p)
    <3>1. lsm_transfers \in SUBSET LsmPacket /\ IsFiniteSet(lsm_transfers)
      BY DEF Shares, ShareTypes, TransfersDistinct
    <3> QED BY <1>4, <3>1, ArrivingMoves
  <2>2. ArrivedAmount(e, p) = 0
    BY <1>5 DEF ArrivedAmount
  <2>3. ArrivingIn(lsm_transfers', e) = ArrivingIn(lsm_transfers, e)
    BY <1>1, <2>1, <2>2, ShareAmountsTyped
  <2> QED BY <2>3 DEF Shares, SharesHeld
<1> QED BY <1>6, <1>7, <1>9, <1>10 DEF Shares

\* Their arrival is acknowledged: they are listed.
LEMMA StakedShares ==
    ASSUME ChannelsTypeOK, Shares, NEW p \in lsm_transfers, sudo_stake_lsm_callback(p)
    PROVE  Shares' /\ late_lsm' = late_lsm + p.token_amount /\ p.token_amount \in Nat
<1>1. /\ p.ack = "ok" /\ lsm_transfers' = lsm_transfers \ {p}
      /\ share_tokens' = Append(share_tokens, p.coin)
      /\ late_lsm' = late_lsm + p.token_amount
      /\ UNCHANGED <<pool_txs, redeemming_share_token_denom, staker_shares, host_shares,
                     redeemed_again>>
  BY DEF sudo_stake_lsm_callback, packet_vars
<1>2. p \in LsmPacket /\ p.coin \in Coin /\ p.token_amount \in Nat
      /\ p.coin.amount \in Nat
  BY DEF Shares, ShareTypes, LsmPacket, Coin
<1>3. /\ share_tokens \in Seq(Coin) /\ lsm_transfers \in SUBSET LsmPacket
      /\ IsFiniteSet(lsm_transfers)
  BY DEF Shares, ShareTypes, TransfersDistinct
<1>4. /\ share_tokens' \in Seq(Coin)
      /\ Range(share_tokens') = Range(share_tokens) \cup {p.coin}
  BY <1>1, <1>2, <1>3, ListedAppended
<1>5. ShareTypes'
  BY <1>1, <1>2, <1>4 DEF Shares, ShareTypes
<1>6. TransfersDistinct'
  BY <1>1, FS_RemoveElement DEF Shares, TransfersDistinct
<1>7. RedemptionsKnown'
  BY <1>1, <1>4 DEF Shares, RedemptionsKnown, RedemptionsIn
<1>8. SharesHeld'
  <2> SUFFICES ASSUME NEW d \in ShareDenoms \ redeemed_again
               PROVE  ListedIn(share_tokens', d) + ArrivingIn(lsm_transfers', d)
                          <= host_shares[d] + RedeemedIn(pool_txs, d)
    BY <1>1 DEF SharesHeld
  <2> DEFINE x == IF p.coin.denom = d THEN p.coin.amount ELSE 0
  <2>1. ListedIn(share_tokens', d) = ListedIn(share_tokens, d) + x
    BY <1>1, <1>2, <1>3, ListedAppended
  <2>2. ArrivingIn(lsm_transfers', d)
            = ArrivingIn(lsm_transfers, d) - ArrivedAmount(d, p)
    BY <1>1, <1>3, ArrivingMoves
  <2>3. ArrivedAmount(d, p) = x
    BY <1>1 DEF ArrivedAmount
  <2>4. x \in Nat
    BY <1>2
  <2> HIDE DEF x
  <2>5. /\ ListedIn(share_tokens, d) \in Nat /\ ArrivingIn(lsm_transfers, d) \in Nat
        /\ host_shares[d] \in Nat /\ RedeemedIn(pool_txs, d) \in Nat
    BY ShareAmountsTyped
  <2>6. ListedIn(share_tokens, d) + ArrivingIn(lsm_transfers, d)
            <= host_shares[d] + RedeemedIn(pool_txs, d)
    BY DEF Shares, SharesHeld
  <2> QED BY <2>1, <2>2, <2>3, <2>4, <2>5, <2>6
<1> QED BY <1>1, <1>2, <1>5, <1>6, <1>7, <1>8 DEF Shares

\* The transfer failed and the shares are back.
LEMMA StakeFailedShares ==
    ASSUME ChannelsTypeOK, Shares, NEW p \in lsm_transfers,
           sudo_stake_lsm_failed_callback(p)
    PROVE  Shares'
<1>1. /\ p.ack = "error" /\ lsm_transfers' = lsm_transfers \ {p}
      /\ staker_shares' = [staker_shares EXCEPT ![p.coin.denom] = @ + p.coin.amount]
      /\ UNCHANGED <<vars, share_tokens, redeemming_share_token_denom, host_shares,
                     late_lsm, redeemed_again>>
  BY DEF sudo_stake_lsm_failed_callback
<1>2. p.coin.amount \in Nat /\ p.coin.denom \in ShareDenoms
  BY DEF Shares, ShareTypes, LsmPacket, Coin
<1>3. ShareTypes'
  <2>1. staker_shares' \in [ShareDenoms -> Nat]
    BY <1>1, <1>2 DEF Shares, ShareTypes
  <2> QED BY <1>1, <2>1 DEF Shares, ShareTypes
<1>4. TransfersDistinct'
  BY <1>1, FS_RemoveElement DEF Shares, TransfersDistinct
<1>5. pool_txs' = pool_txs
  BY <1>1 DEF vars, packet_vars
<1>6. RedemptionsKnown'
  BY <1>1, <1>5 DEF Shares, RedemptionsKnown
<1>7. SharesHeld'
  <2> SUFFICES ASSUME NEW d \in ShareDenoms \ redeemed_again
               PROVE  ListedIn(share_tokens, d) + ArrivingIn(lsm_transfers', d)
                          <= host_shares[d] + RedeemedIn(pool_txs, d)
    BY <1>1, <1>5 DEF SharesHeld
  <2>1. ArrivingIn(lsm_transfers', d)
            = ArrivingIn(lsm_transfers, d) - ArrivedAmount(d, p)
    <3>1. lsm_transfers \in SUBSET LsmPacket /\ IsFiniteSet(lsm_transfers)
      BY DEF Shares, ShareTypes, TransfersDistinct
    <3> QED BY <1>1, <3>1, ArrivingMoves
  <2>2. ArrivedAmount(d, p) = 0
    BY <1>1 DEF ArrivedAmount
  <2>3. ArrivingIn(lsm_transfers', d) = ArrivingIn(lsm_transfers, d)
    BY <2>1, <2>2, ShareAmountsTyped
  <2> QED BY <2>3 DEF Shares, SharesHeld
<1> QED BY <1>3, <1>4, <1>6, <1>7 DEF Shares

\* The host receives shares, or does not.
LEMMA ReceivedShares ==
    ASSUME ChannelsTypeOK, Shares, NEW p \in lsm_transfers,
           host_receives_shares(p) \/ share_transfer_fails(p)
    PROVE  Shares'
<1> DEFINE q(a) == [p EXCEPT !.ack = a]
<1>1. p.ack = "none" /\ p \in LsmPacket /\ p.coin \in Coin
      /\ UNCHANGED <<vars, share_tokens, redeemming_share_token_denom, staker_shares,
                     late_lsm, redeemed_again>>
  BY DEF host_receives_shares, share_transfer_fails, Shares, ShareTypes, LsmPacket
<1>2. p.coin.amount \in Nat /\ p.coin.denom \in ShareDenoms
  BY <1>1 DEF Coin
<1>3. pool_txs' = pool_txs
  BY <1>1 DEF vars, packet_vars
<1>4. \A a \in Ack : q(a) \in LsmPacket /\ q(a).id = p.id /\ q(a).coin = p.coin
                     /\ q(a).ack = a
  BY <1>1 DEF LsmPacket
<1> DEFINE ok == q("ok")
           error == q("error")
<1>5. /\ ok \in LsmPacket /\ ok.id = p.id /\ ok.coin = p.coin /\ ok.ack = "ok"
      /\ error \in LsmPacket /\ error.id = p.id /\ error.ack = "error"
  BY <1>4 DEF Ack
<1>6. \/ /\ lsm_transfers' = (lsm_transfers \ {p}) \cup {ok}
         /\ host_shares' = [host_shares EXCEPT ![p.coin.denom] = @ + p.coin.amount]
      \/ /\ lsm_transfers' = (lsm_transfers \ {p}) \cup {error}
         /\ host_shares' = host_shares
  BY DEF host_receives_shares, share_transfer_fails
<1> HIDE DEF ok, error
<1>7. ShareTypes /\ TransfersDistinct
  BY DEF Shares
<1>8. /\ TransfersDistinct' /\ lsm_transfers' \subseteq LsmPacket
      /\ \A d \in ShareDenoms :
             /\ host_shares'[d] \in Nat
             /\ ArrivingIn(lsm_transfers', d) - ArrivingIn(lsm_transfers, d)
                    = host_shares'[d] - host_shares[d]
      /\ host_shares' \in [ShareDenoms -> Nat]
  <2>1. CASE /\ lsm_transfers' = (lsm_transfers \ {p}) \cup {ok}
             /\ host_shares' = [host_shares EXCEPT ![p.coin.denom] = @ + p.coin.amount]
    <3>1. /\ TransfersDistinct' /\ lsm_transfers' \subseteq LsmPacket
          /\ \A d : ArrivingIn(lsm_transfers', d) =
                 ArrivingIn(lsm_transfers, d) - ArrivedAmount(d, p) + ArrivedAmount(d, ok)
      BY <1>5, <1>7, <2>1, TransferAnswered
    <3>2. host_shares \in [ShareDenoms -> Nat]
      BY <1>7 DEF ShareTypes
    <3>3. host_shares' \in [ShareDenoms -> Nat]
      BY <1>2, <2>1, <3>2
    <3>4. ASSUME NEW d \in ShareDenoms
          PROVE  ArrivingIn(lsm_transfers', d) - ArrivingIn(lsm_transfers, d)
                     = host_shares'[d] - host_shares[d]
      <4>1. ArrivedAmount(d, p) = 0
        BY <1>1 DEF ArrivedAmount
      <4>2. ArrivedAmount(d, ok) = IF p.coin.denom = d THEN p.coin.amount ELSE 0
        BY <1>5 DEF ArrivedAmount
      <4>3. ArrivingIn(lsm_transfers, d) \in Nat /\ host_shares[d] \in Nat
        BY ShareAmountsTyped
      <4>4. host_shares'[d] = IF p.coin.denom = d THEN host_shares[d] + p.coin.amount
                                                  ELSE host_shares[d]
        BY <1>2, <2>1, <3>2
      <4>5. ArrivingIn(lsm_transfers', d) =
                 ArrivingIn(lsm_transfers, d) - ArrivedAmount(d, p) + ArrivedAmount(d, ok)
        BY <3>1
      <4>6. CASE p.coin.denom = d
        BY <1>2, <4>1, <4>2, <4>3, <4>4, <4>5, <4>6
      <4>7. CASE p.coin.denom # d
        BY <1>2, <4>1, <4>2, <4>3, <4>4, <4>5, <4>7
      <4> QED BY <4>6, <4>7
    <3> QED BY <3>1, <3>3, <3>4
  <2>2. CASE /\ lsm_transfers' = (lsm_transfers \ {p}) \cup {error}
             /\ host_shares' = host_shares
    <3>1. /\ TransfersDistinct' /\ lsm_transfers' \subseteq LsmPacket
          /\ \A d : ArrivingIn(lsm_transfers', d) =
                 ArrivingIn(lsm_transfers, d) - ArrivedAmount(d, p)
                                              + ArrivedAmount(d, error)
      BY <1>5, <1>7, <2>2, TransferAnswered
    <3>2. host_shares \in [ShareDenoms -> Nat]
      BY <1>7 DEF ShareTypes
    <3>3. ASSUME NEW d \in ShareDenoms
          PROVE  ArrivingIn(lsm_transfers', d) - ArrivingIn(lsm_transfers, d)
                     = host_shares'[d] - host_shares[d]
      <4>1. ArrivedAmount(d, p) = 0 /\ ArrivedAmount(d, error) = 0
        BY <1>1, <1>5 DEF ArrivedAmount
      <4>2. ArrivingIn(lsm_transfers, d) \in Nat /\ host_shares[d] \in Nat
        BY ShareAmountsTyped
      <4>3. ArrivingIn(lsm_transfers', d) =
                 ArrivingIn(lsm_transfers, d) - ArrivedAmount(d, p)
                                              + ArrivedAmount(d, error)
        BY <3>1
      <4> QED BY <2>2, <4>1, <4>2, <4>3
    <3> QED BY <2>2, <3>1, <3>2, <3>3
  <2> QED BY <1>6, <2>1, <2>2
<1>9. ShareTypes'
  BY <1>1, <1>7, <1>8 DEF ShareTypes
<1>10. RedemptionsKnown'
  BY <1>1, <1>3 DEF Shares, RedemptionsKnown
<1>11. SharesHeld'
  <2> SUFFICES ASSUME NEW d \in ShareDenoms \ redeemed_again
               PROVE  ListedIn(share_tokens, d) + ArrivingIn(lsm_transfers', d)
                          <= host_shares'[d] + RedeemedIn(pool_txs, d)
    BY <1>1, <1>3 DEF SharesHeld
  <2>1. /\ ListedIn(share_tokens, d) \in Nat /\ ArrivingIn(lsm_transfers, d) \in Nat
        /\ host_shares[d] \in Nat /\ RedeemedIn(pool_txs, d) \in Nat
    BY ShareAmountsTyped
  <2>2. ListedIn(share_tokens, d) + ArrivingIn(lsm_transfers, d)
            <= host_shares[d] + RedeemedIn(pool_txs, d)
    BY DEF Shares, SharesHeld
  <2>3. /\ host_shares'[d] \in Nat
        /\ ArrivingIn(lsm_transfers', d) - ArrivingIn(lsm_transfers, d)
               = host_shares'[d] - host_shares[d]
    BY <1>8
  <2>4. ArrivingIn(lsm_transfers', d) \in Nat
    BY <1>8, ArrivedTyped DEF TransfersDistinct
  <2> QED BY <2>1, <2>2, <2>3, <2>4
<1> QED BY <1>8, <1>9, <1>10, <1>11 DEF Shares

\* The redemptions, their coins and the channel, as the lemmas on the data need them.
LEMMA SharesFacts ==
    ASSUME ChannelsTypeOK, Shares
    PROVE  /\ pool_txs \in Seq(PoolTx) /\ share_tokens \in Seq(Coin)
           /\ Range(share_tokens) \in SUBSET Coin /\ IsFiniteSet(Range(share_tokens))
           /\ RedemptionsIn(pool_txs, Range(share_tokens), redeemming_share_token_denom,
                  redeemed_again)
           /\ redeemming_share_token_denom \subseteq ShareDenoms
<1>1. share_tokens \in Seq(Coin)
  BY DEF Shares, ShareTypes
<1>2. Range(share_tokens) \in SUBSET Coin /\ IsFiniteSet(Range(share_tokens))
  BY <1>1, RangeFinite
<1> QED BY <1>1, <1>2 DEF ChannelsTypeOK, Shares, ShareTypes, RedemptionsKnown

\* A redemption is sent.
LEMMA RedeemShares ==
    ASSUME ChannelsTypeOK, Shares, RedeemStep
    PROVE  /\ Shares'
           /\ \E tx \in RedeemTx : tx.ack = "none" /\ pool_txs' = Append(pool_txs, tx)
<1> DEFINE listed == Range(share_tokens)
           known == redeemming_share_token_denom
<1>1. PICK tokens \in SUBSET listed : execute_redeem_token_for_share(tokens)
  BY DEF RedeemStep
<1> DEFINE tx == [tx_type |-> "RedeemTokenForShare", tokens |-> tokens, ack |-> "none"]
           more == redeemed_again \cup (Denoms(tokens) \cap known)
<1>2. /\ pool_txs \in Seq(PoolTx) /\ share_tokens \in Seq(Coin)
      /\ listed \in SUBSET Coin /\ IsFiniteSet(listed)
      /\ RedemptionsIn(pool_txs, listed, known, redeemed_again)
      /\ known \subseteq ShareDenoms
  BY SharesFacts
<1>3. /\ OneCoinEach(tokens)
      /\ redeemming_share_token_denom' = known \cup Denoms(tokens)
      /\ redeemed_again' = more
      /\ pool_txs' = Append(pool_txs, tx)
      /\ UNCHANGED <<share_tokens, lsm_transfers, staker_shares, host_shares, late_lsm>>
  BY <1>1 DEF execute_redeem_token_for_share, OneCoinEach
<1>4. /\ tx \in RedeemTx /\ tx.ack = "none" /\ tx.tokens = tokens
      /\ tx.tokens \subseteq listed /\ OneCoinEach(tx.tokens)
  BY <1>1, <1>2, <1>3 DEF RedeemTx, Ack
<1>5. IsFiniteSet(tokens)
  BY <1>1, <1>2, FS_Subset
<1> HIDE DEF tx, listed, known
<1>6. pool_txs' \in Seq(PoolTx)
  <2>1. tx \in PoolTx
    BY <1>4 DEF PoolTx
  <2> QED BY <1>2, <1>3, <2>1, AppendTyped
<1>7. RedeemsKept(pool_txs, pool_txs', listed, known \cup Denoms(tokens), more)
  <2>1. more = redeemed_again \cup (Denoms(tx.tokens) \cap known)
    BY <1>4
  <2> HIDE DEF more
  <2>2. RedeemsKept(pool_txs, pool_txs', listed, known \cup Denoms(tx.tokens), more)
    BY <1>2, <1>3, <1>4, <1>5, <1>6, <2>1, RedeemSubmitted
  <2> QED BY <1>4, <2>2
<1>8. Denoms(tokens) \subseteq ShareDenoms
  BY <1>1, <1>2 DEF Denoms, Coin
<1>9. ShareTypes' /\ TransfersDistinct'
  BY <1>2, <1>3, <1>8 DEF Shares, ShareTypes, TransfersDistinct
<1>10. RedemptionsKnown'
  BY <1>3, <1>7 DEF RedeemsKept, RedemptionsKnown, listed
<1>11. SharesHeld'
  <2>1. ASSUME NEW d \in ShareDenoms \ redeemed_again
        PROVE  ListedIn(share_tokens, d) + ArrivingIn(lsm_transfers, d)
                   <= host_shares[d] + RedeemedIn(pool_txs', d)
    <3>1. /\ ListedIn(share_tokens, d) \in Nat /\ ArrivingIn(lsm_transfers, d) \in Nat
          /\ host_shares[d] \in Nat /\ RedeemedIn(pool_txs, d) \in Nat
      BY ShareAmountsTyped
    <3>2. RedeemedIn(pool_txs', d) >= RedeemedIn(pool_txs, d)
      BY <1>7 DEF RedeemsKept
    <3>3. RedeemedIn(pool_txs', d) \in Nat
      <4> HIDE DEF more
      <4> QED BY <1>6, <1>7, RedeemSums DEF RedeemsKept
    <3>4. ListedIn(share_tokens, d) + ArrivingIn(lsm_transfers, d)
              <= host_shares[d] + RedeemedIn(pool_txs, d)
      BY DEF Shares, SharesHeld
    <3> QED BY <3>1, <3>2, <3>3, <3>4
  <2>2. ShareDenoms \ redeemed_again' \subseteq ShareDenoms \ redeemed_again
    BY <1>3
  <2> QED BY <1>3, <2>1, <2>2 DEF SharesHeld
<1>12. \E x \in RedeemTx : x.ack = "none" /\ pool_txs' = Append(pool_txs, x)
  BY <1>3, <1>4
<1> QED BY <1>9, <1>10, <1>11, <1>12 DEF Shares

\* A redemption failed: its coins stay listed, and their denominations are free again.
LEMMA RedeemFailedShares ==
    ASSUME ChannelsTypeOK, Shares, sudo_redeem_token_for_share_failed_callback
    PROVE  Shares'
<1> DEFINE listed == Range(share_tokens)
           known == redeemming_share_token_denom
           head == Head(pool_txs)
           left == known \ Denoms(head.tokens)
<1>1. /\ pool_txs # <<>> /\ pool_txs' = Tail(pool_txs)
      /\ head.tx_type = "RedeemTokenForShare" /\ head.ack = "error"
      /\ redeemming_share_token_denom' = left
      /\ UNCHANGED <<share_tokens, lsm_transfers, staker_shares, host_shares, late_lsm,
                     redeemed_again>>
  BY DEF sudo_redeem_token_for_share_failed_callback, Answered
<1>2. /\ pool_txs \in Seq(PoolTx) /\ listed \in SUBSET Coin /\ IsFiniteSet(listed)
      /\ RedemptionsIn(pool_txs, listed, known, redeemed_again) /\ known \subseteq ShareDenoms
  BY SharesFacts
<1>3. /\ pool_txs' \in Seq(PoolTx) /\ RedemptionsIn(pool_txs', listed, known, redeemed_again)
      /\ \A d \in ShareDenoms :
             RedeemedIn(pool_txs', d) >= RedeemedIn(pool_txs, d) - Redeemed(d, head)
      /\ \A j \in RedeemsOf(pool_txs') :
             Denoms(pool_txs'[j].tokens) \cap Denoms(head.tokens)
                 \subseteq redeemed_again
  <2> HIDE DEF listed, known
  <2> QED BY <1>1, <1>2, OldestTakenOff
<1>4. RedemptionsIn(pool_txs', listed, left, redeemed_again)
  <2>1. ASSUME NEW j \in RedeemsOf(pool_txs'), NEW c \in pool_txs'[j].tokens,
               c.denom \notin redeemed_again
        PROVE  c \in listed /\ c.denom \in left
    <3>1. c \in listed /\ c.denom \in known
      BY <1>3, <2>1 DEF RedemptionsIn
    <3>2. c.denom \in Denoms(pool_txs'[j].tokens)
      BY DEF Denoms
    <3>3. c.denom \notin Denoms(head.tokens)
      BY <1>3, <2>1, <3>2
    <3> QED BY <3>1, <3>3
  <2> HIDE DEF listed, left
  <2> QED BY <1>3, <2>1 DEF RedemptionsIn
<1>5. ShareTypes' /\ TransfersDistinct'
  BY <1>1, <1>2 DEF Shares, ShareTypes, TransfersDistinct
<1>6. RedemptionsKnown'
  BY <1>1, <1>4 DEF RedemptionsKnown
<1>7. SharesHeld'
  <2> SUFFICES ASSUME NEW d \in ShareDenoms \ redeemed_again
               PROVE  ListedIn(share_tokens, d) + ArrivingIn(lsm_transfers, d)
                          <= host_shares[d] + RedeemedIn(pool_txs', d)
    BY <1>1 DEF SharesHeld
  <2>1. /\ ListedIn(share_tokens, d) \in Nat /\ ArrivingIn(lsm_transfers, d) \in Nat
        /\ host_shares[d] \in Nat /\ RedeemedIn(pool_txs, d) \in Nat
    BY ShareAmountsTyped
  <2>2. Redeemed(d, head) = 0
    BY <1>1 DEF Redeemed
  <2>3. RedeemedIn(pool_txs', d) >= RedeemedIn(pool_txs, d) - Redeemed(d, head)
    BY <1>3
  <2>4. RedeemedIn(pool_txs', d) \in Nat
    <3> HIDE DEF listed, known
    <3> QED BY <1>2, <1>3, RedeemSums
  <2>5. ListedIn(share_tokens, d) + ArrivingIn(lsm_transfers, d)
            <= host_shares[d] + RedeemedIn(pool_txs, d)
    BY DEF Shares, SharesHeld
  <2> QED BY <2>1, <2>2, <2>3, <2>4, <2>5
<1> QED BY <1>5, <1>6, <1>7 DEF Shares

\* A redemption succeeded: everything of its denominations is taken off the list, which
\* is no less than what was redeemed, if its coins were still listed.
LEMMA RedeemedShares ==
    ASSUME ChannelsTypeOK, Shares, sudo_redeem_token_for_share_callback
    PROVE  Shares'
<1> DEFINE listed == Range(share_tokens)
           known == redeemming_share_token_denom
           head == Head(pool_txs)
           denoms == Denoms(head.tokens)
           gone == {c \in listed : c.denom \in denoms}
           left == RetainOutside(share_tokens, gone)
<1>1. /\ pool_txs # <<>> /\ pool_txs' = Tail(pool_txs)
      /\ head.tx_type = "RedeemTokenForShare"
      /\ share_tokens' = left
      /\ redeemming_share_token_denom' = known \ denoms
      /\ UNCHANGED <<lsm_transfers, staker_shares, host_shares, late_lsm,
                     redeemed_again>>
  BY DEF sudo_redeem_token_for_share_callback, Answered, TakenOff
<1>2. /\ pool_txs \in Seq(PoolTx) /\ share_tokens \in Seq(Coin)
      /\ listed \in SUBSET Coin /\ IsFiniteSet(listed)
      /\ RedemptionsIn(pool_txs, listed, known, redeemed_again) /\ known \subseteq ShareDenoms
  BY SharesFacts
<1>3. /\ pool_txs' \in Seq(PoolTx) /\ RedemptionsIn(pool_txs', listed, known, redeemed_again)
      /\ 1 \in RedeemsOf(pool_txs) /\ head = pool_txs[1]
      /\ \A d \in ShareDenoms :
             RedeemedIn(pool_txs', d) >= RedeemedIn(pool_txs, d) - Redeemed(d, head)
      /\ \A j \in RedeemsOf(pool_txs') :
             Denoms(pool_txs'[j].tokens) \cap denoms \subseteq redeemed_again
  <2> HIDE DEF listed, known
  <2> QED BY <1>1, <1>2, OldestTakenOff
<1>4. /\ left \in Seq(Coin) /\ Range(left) = listed \ gone
      /\ \A d : ListedIn(left, d) <= ListedIn(share_tokens, d)
  BY <1>2, ListedFewer
<1>5. ShareTypes' /\ TransfersDistinct'
  <2> HIDE DEF left
  <2> QED BY <1>1, <1>2, <1>4 DEF Shares, ShareTypes, TransfersDistinct
<1> HIDE DEF left
<1>6. RedemptionsIn(pool_txs', listed \ gone, known \ denoms, redeemed_again)
  <2>1. ASSUME NEW j \in RedeemsOf(pool_txs'), NEW c \in pool_txs'[j].tokens,
               c.denom \notin redeemed_again
        PROVE  c \in listed \ gone /\ c.denom \in known \ denoms
    <3>1. c \in listed /\ c.denom \in known
      BY <1>3, <2>1 DEF RedemptionsIn
    <3>2. c.denom \in Denoms(pool_txs'[j].tokens)
      BY DEF Denoms
    <3>3. c.denom \notin denoms
      <4> HIDE DEF denoms
      <4> QED BY <1>3, <2>1, <3>2
    <3>4. c \notin gone
      <4> HIDE DEF denoms
      <4> QED BY <3>3
    <3> QED BY <3>1, <3>3, <3>4
  <2> HIDE DEF gone, denoms
  <2> QED BY <1>3, <2>1 DEF RedemptionsIn
<1>7. RedemptionsKnown'
  BY <1>1, <1>4, <1>6 DEF RedemptionsKnown
<1>8. SharesHeld'
  <2> SUFFICES ASSUME NEW d \in ShareDenoms \ redeemed_again
               PROVE  ListedIn(left, d) + ArrivingIn(lsm_transfers, d)
                          <= host_shares[d] + RedeemedIn(pool_txs', d)
    BY <1>1 DEF SharesHeld
  <2>1. /\ ListedIn(share_tokens, d) \in Nat /\ ArrivingIn(lsm_transfers, d) \in Nat
        /\ host_shares[d] \in Nat /\ RedeemedIn(pool_txs, d) \in Nat
    BY ShareAmountsTyped
  <2>2. ListedIn(share_tokens, d) + ArrivingIn(lsm_transfers, d)
            <= host_shares[d] + RedeemedIn(pool_txs, d)
    BY DEF Shares, SharesHeld
  <2>3. RedeemedIn(pool_txs', d) >= RedeemedIn(pool_txs, d) - Redeemed(d, head)
    BY <1>3
  <2>4. RedeemedIn(pool_txs', d) \in Nat /\ ListedIn(left, d) \in Nat
    <3> HIDE DEF listed, known
    <3> QED BY <1>2, <1>3, <1>4, RedeemSums, ListedSums
  <2>5. /\ head.tokens \in SUBSET Coin /\ IsFiniteSet(head.tokens)
        /\ OneCoinEach(head.tokens)
        /\ \A c \in head.tokens : c.denom = d => c \in listed
    <3> HIDE DEF listed, head
    <3> QED BY <1>2, <1>3 DEF RedemptionsIn
  <2>6. /\ AmountIn(head.tokens, d) \in Nat
        /\ \A c \in head.tokens : c.denom = d => AmountIn(head.tokens, d) = c.amount
        /\ d \notin Denoms(head.tokens) => AmountIn(head.tokens, d) = 0
    <3> HIDE DEF listed, head
    <3> QED BY ONLY <2>5, d \in ShareDenoms, CoinSums
  <2>7. Redeemed(d, head) \in Nat /\ Redeemed(d, head) <= AmountIn(head.tokens, d)
    BY <2>6 DEF Redeemed
  <2>8. CASE d \in denoms
    <3>1. PICK c \in head.tokens : c.denom = d
      BY <2>8 DEF Denoms
    <3>2. c.amount <= ListedIn(share_tokens, d)
      BY <1>2, <2>5, <3>1, ListedSums
    <3>3. Redeemed(d, head) <= ListedIn(share_tokens, d)
      BY <2>1, <2>6, <2>7, <3>1, <3>2
    <3>4. \A e \in Range(left) : e.denom # d
      BY <1>4, <2>8
    <3>5. ListedIn(left, d) = 0
      BY <1>4, <3>4, ListedSums
    <3> QED BY <2>1, <2>2, <2>3, <2>4, <2>7, <3>3, <3>5
  <2>9. CASE d \notin denoms
    <3>1. Redeemed(d, head) = 0
      BY <2>6, <2>7, <2>9
    <3>2. ListedIn(left, d) <= ListedIn(share_tokens, d)
      BY <1>4
    <3> QED BY <2>1, <2>2, <2>3, <2>4, <3>1, <3>2
  <2> QED BY <2>8, <2>9
<1> QED BY <1>5, <1>7, <1>8 DEF Shares

\* The host redeems what it holds.
LEMMA HostRedeemsShares ==
    ASSUME ChannelsTypeOK, Shares, NEW i \in DOMAIN pool_txs, host_redeems(i)
    PROVE  /\ Shares'
           /\ pool_txs' = [pool_txs EXCEPT ![i].ack = "ok"] /\ pool_txs[i].ack = "none"
           /\ pool_txs' \in Seq(PoolTx)
           /\ ValueOf(pool_txs[i].tokens) \in Nat
<1> DEFINE listed == Range(share_tokens)
           known == redeemming_share_token_denom
           tokens == pool_txs[i].tokens
<1>1. /\ pool_txs[i].ack = "none" /\ pool_txs[i].tx_type = "RedeemTokenForShare"
      /\ \A c \in tokens : host_shares[c.denom] >= c.amount
      /\ pool_txs' = [pool_txs EXCEPT ![i].ack = "ok"]
      /\ host_shares' = [d \in ShareDenoms |-> host_shares[d] - AmountIn(tokens, d)]
      /\ UNCHANGED <<share_tokens, redeemming_share_token_denom, lsm_transfers,
                     staker_shares, late_lsm, redeemed_again>>
  BY DEF host_redeems, NextToHandle
<1>2. /\ pool_txs \in Seq(PoolTx) /\ share_tokens \in Seq(Coin)
      /\ listed \in SUBSET Coin /\ IsFiniteSet(listed)
      /\ RedemptionsIn(pool_txs, listed, known, redeemed_again) /\ known \subseteq ShareDenoms
  BY SharesFacts
<1>3. i \in RedeemsOf(pool_txs) /\ pool_txs[i].ack # "ok"
  BY <1>1 DEF RedeemsOf
<1>4. /\ pool_txs' \in Seq(PoolTx) /\ RedemptionsIn(pool_txs', listed, known, redeemed_again)
      /\ \A d \in ShareDenoms :
             RedeemedIn(pool_txs', d) = RedeemedIn(pool_txs, d) + AmountIn(tokens, d)
  <2> DEFINE a == "ok"
  <2>1. pool_txs' = Acked(pool_txs, i, a) /\ a = "ok"
    BY <1>1 DEF Acked
  <2> HIDE DEF a, listed, known
  <2> QED BY <1>2, <1>3, <2>1, RedeemAnswered
<1>5. /\ tokens \in SUBSET Coin /\ IsFiniteSet(tokens) /\ OneCoinEach(tokens)
  BY <1>2, <1>3 DEF RedemptionsIn
<1> HIDE DEF tokens
<1>6. ASSUME NEW d \in ShareDenoms
      PROVE  /\ AmountIn(tokens, d) \in Nat /\ host_shares[d] \in Nat
             /\ AmountIn(tokens, d) <= host_shares[d]
  <2>1. /\ AmountIn(tokens, d) \in Nat
        /\ \A c \in tokens : c.denom = d => AmountIn(tokens, d) = c.amount
        /\ d \notin Denoms(tokens) => AmountIn(tokens, d) = 0
    BY <1>5, CoinSums
  <2>2. host_shares[d] \in Nat
    BY ShareAmountsTyped
  <2>3. CASE d \in Denoms(tokens)
    <3>1. PICK c \in tokens : c.denom = d
      BY <2>3 DEF Denoms
    <3>2. host_shares[d] >= c.amount /\ AmountIn(tokens, d) = c.amount
      BY <1>1, <2>1, <3>1
    <3> QED BY <2>1, <2>2, <3>2
  <2>4. CASE d \notin Denoms(tokens)
    BY <2>1, <2>2, <2>4
  <2> QED BY <2>3, <2>4
<1>7. host_shares' \in [ShareDenoms -> Nat]
  <2>1. \A d \in ShareDenoms : host_shares[d] - AmountIn(tokens, d) \in Nat
    BY <1>6
  <2> QED BY <1>1, <2>1
<1>8. ShareTypes' /\ TransfersDistinct'
  BY <1>1, <1>7 DEF Shares, ShareTypes, TransfersDistinct
<1>9. RedemptionsKnown'
  BY <1>1, <1>4 DEF RedemptionsKnown
<1>10. SharesHeld'
  <2> SUFFICES ASSUME NEW d \in ShareDenoms \ redeemed_again
               PROVE  ListedIn(share_tokens, d) + ArrivingIn(lsm_transfers, d)
                          <= host_shares'[d] + RedeemedIn(pool_txs', d)
    BY <1>1 DEF SharesHeld
  <2>1. /\ ListedIn(share_tokens, d) \in Nat /\ ArrivingIn(lsm_transfers, d) \in Nat
        /\ host_shares[d] \in Nat /\ RedeemedIn(pool_txs, d) \in Nat
    BY ShareAmountsTyped
  <2>2. ListedIn(share_tokens, d) + ArrivingIn(lsm_transfers, d)
            <= host_shares[d] + RedeemedIn(pool_txs, d)
    BY DEF Shares, SharesHeld
  <2>3. host_shares'[d] = host_shares[d] - AmountIn(tokens, d)
    BY <1>1
  <2>4. RedeemedIn(pool_txs', d) = RedeemedIn(pool_txs, d) + AmountIn(tokens, d)
    BY <1>4
  <2> QED BY <1>6, <2>1, <2>2, <2>3, <2>4
<1>11. ValueOf(tokens) \in Nat
  BY <1>5, CoinValue
<1> QED BY <1>1, <1>4, <1>8, <1>9, <1>10, <1>11 DEF Shares, tokens

-----------------------------------------------------------------------------
\* A step after which the era's transactions and the payments are what they were.
ChannelKept == BondOwned' /\ RebondOwned' /\ UserTxsKept /\ EraTxsKept

\* Nothing is sent or answered.
LEMMA ChannelSame ==
    ASSUME StepOwnsItsPacket, UNCHANGED <<status, era_snapshot, pool_txs>>
    PROVE  ChannelKept
<1>1. BondOwned' /\ RebondOwned'
  BY DEF StepOwnsItsPacket, BondOwned, RebondOwned, BondTxs, RebondTxs
<1>2. UserTxsKept /\ EraTxsKept
  BY SameChannel, SameTxsKept
<1> QED BY <1>1, <1>2 DEF ChannelKept

\* A redemption is sent.
LEMMA RedeemSent ==
    ASSUME Types, StepOwnsItsPacket, UNCHANGED <<status, era_snapshot>>,
           NEW tx \in RedeemTx, tx.ack = "none", pool_txs' = Append(pool_txs, tx)
    PROVE  ChannelKept
<1>1. ChannelsTypeOK /\ tx.tx_type = "RedeemTokenForShare"
  BY DEF Types, RedeemTx
<1>2. /\ DOMAIN pool_txs' = DOMAIN pool_txs \cup {Len(pool_txs) + 1}
      /\ \A j \in DOMAIN pool_txs : pool_txs'[j] = pool_txs[j]
      /\ pool_txs'[Len(pool_txs) + 1] = tx
  BY <1>1, AppendTxs DEF ChannelsTypeOK
<1>3. BondTxs' = BondTxs /\ RebondTxs' = RebondTxs
  BY <1>1, <1>2 DEF BondTxs, RebondTxs
<1>4. \A j \in RebondTxs : pool_txs'[j] = pool_txs[j]
  BY <1>2 DEF RebondTxs
<1>5. BondOwned' /\ RebondOwned'
  BY <1>3, <1>4 DEF StepOwnsItsPacket, BondOwned, RebondOwned
<1>6. tx.tx_type # "UserWithdraw" /\ tx.tx_type # "EraBond"
  BY <1>1
<1>7. UserTxsKept
  BY <1>1, <1>6, EraTxSubmitted
<1>8. EraTxsKept
  BY <1>1, <1>6, AppendKept
<1> QED BY <1>5, <1>7, <1>8 DEF ChannelKept

\* A redemption's outcome is taken off the channel.
LEMMA RedeemTaken ==
    ASSUME Types, StepOwnsItsPacket, UNCHANGED <<status, era_snapshot>>,
           pool_txs # <<>>, Head(pool_txs).tx_type = "RedeemTokenForShare",
           pool_txs' = Tail(pool_txs)
    PROVE  ChannelKept /\ pool_txs' \in Seq(PoolTx)
<1>1. ChannelsTypeOK /\ BondOwned /\ RebondOwned
  BY DEF Types, StepOwnsItsPacket
<1>2. BondOwned' /\ RebondOwned'
  BY <1>1, FewerTxs
<1>3. /\ Head(pool_txs).tx_type # "UserWithdraw"
      /\ Head(pool_txs).tx_type \notin {"EraBond", "EraRebond"}
  OBVIOUS
<1>4. UserTxsKept
  BY <1>1, <1>3, EraTxTaken
<1>5. EraTxsKept
  BY <1>1, <1>3, TailKept
<1>6. pool_txs' \in Seq(PoolTx)
  BY <1>1, TailTxs DEF ChannelsTypeOK
<1> QED BY <1>2, <1>4, <1>5, <1>6 DEF ChannelKept

\* The host redeems.
LEMMA RedeemExecuted ==
    ASSUME Types, StepOwnsItsPacket, UNCHANGED <<status, era_snapshot>>,
           NEW i \in DOMAIN pool_txs, pool_txs[i].tx_type = "RedeemTokenForShare",
           pool_txs[i].ack = "none", pool_txs' = [pool_txs EXCEPT ![i].ack = "ok"]
    PROVE  ChannelKept
<1>1. ChannelsTypeOK /\ BondOwned /\ RebondOwned /\ pool_txs \in Seq(PoolTx)
  BY DEF Types, StepOwnsItsPacket, ChannelsTypeOK
<1>2. /\ DOMAIN pool_txs' = DOMAIN pool_txs
      /\ \A j \in DOMAIN pool_txs : pool_txs'[j].tx_type = pool_txs[j].tx_type
      /\ \A j \in DOMAIN pool_txs : pool_txs[j].tx_type = "EraRebond" =>
             pool_txs'[j].delegate = pool_txs[j].delegate
  BY <1>1, AnsweredTxs
<1>3. BondOwned' /\ RebondOwned'
  BY <1>1, <1>2, SameTxs
<1>4. i \notin UserTxs
  BY DEF UserTxs
<1>5. UserTxsKept
  BY <1>1, <1>4, TxAnswered DEF UserTxsKept
<1>6. pool_txs[i].tx_type \notin {"EraBond", "EraRebond"}
  OBVIOUS
<1>7. EraTxsKept
  BY <1>1, <1>6, AnswerKept
<1> QED BY <1>3, <1>5, <1>7 DEF ChannelKept

\* What LSM stake leaves alone of the pool, the requests and the host.
EraLeft ==
    /\ UNCHANGED <<status, era, bond, unbond, rate, era_snapshot, next_unstake_index,
                   paused>>
    /\ UNCHANGED <<unstake_vars, local_balance, transfers, withdraw_txs, unbonding,
                   pool_balance, withdraw_balance, slashed, received, icq_vars,
                   current_era>>

\* A step that leaves these alone keeps the invariant of the era cycle, if it keeps
\* the supply backed.
LEMMA QuietStep ==
    ASSUME RCore, EraLeft, active' \in Nat, total_lsd_token_amount' \in Nat,
           delegated' \in Nat, SupplyBacked', pool_txs' \in Seq(PoolTx), ChannelKept
    PROVE  RCore' /\ OpenClaims' = OpenClaims
<1>1. /\ Types /\ IndicesIssued /\ EraPositive /\ StepOwnsItsPacket /\ Requests
      /\ BondMoves /\ RestakeHeld /\ UnstakesCovered
      /\ UserTxsKept /\ EraTxsKept
  BY DEF RCore, Core, ChannelKept
<1>2. Types'
  BY <1>1 DEF Types, EraLeft, unstake_vars, icq_vars, PoolTypeOK, UnstakeTypeOK,
              ChannelsTypeOK, HostTypeOK, OtherTypeOK
<1>3. IndicesIssued' /\ EraPositive'
  BY <1>1 DEF IndicesIssued, EraPositive, EraLeft, unstake_vars
<1>4. StepOwnsItsPacket'
  <2>1. TransferOwned' /\ CollectOwned'
    BY <1>1 DEF StepOwnsItsPacket, TransferOwned, CollectOwned, EraLeft
  <2> QED BY <2>1 DEF StepOwnsItsPacket, ChannelKept
<1>5. PICK m : SameUserTxs(m) /\ SamePaid(m)
  BY <1>1 DEF UserTxsKept
<1>6. UNCHANGED unstake_vars
  BY DEF EraLeft
<1>7. Requests'
  BY <1>1, <1>5, <1>6, RequestsLeft
<1>8. OpenClaims' = OpenClaims
  BY <1>5, <1>6, ClaimsLeft
<1>9. BondMoves'
  BY <1>1 DEF EraTxsKept, EraLeft
<1>10. RestakeHeld'
  BY <1>1 DEF RestakeHeld, CollectExecuted, SnapshotPending, EraLeft, icq_vars
<1>11. UnstakesCovered'
  <2> SUFFICES ASSUME misread = {} PROVE UnstakesCovered'
    BY <1>6 DEF UnstakesCovered, unstake_vars
  <2>1. Owed' = Owed
    BY <1>1, <1>2, <1>3, <1>8, OwedStep
  <2>2. Earmarked' = Earmarked /\ BondExecuted' = BondExecuted
    BY <1>1, EarmarkedKept DEF EraLeft
  <2>3. Spare' = Spare
    BY <1>1, <2>2, SpareKept DEF Types, EraLeft
  <2> QED BY <1>1, <1>6, <2>1, <2>3, CoveredBySpare, CoveredBySpareAfter
          DEF unstake_vars
<1> QED BY <1>2, <1>3, <1>4, <1>7, <1>8, <1>9, <1>10, <1>11 DEF RCore, Core

\* What is booked in active from elsewhere than a stake is counted.
LEMMA QuietFlow ==
    ASSUME Types, NEW late \in Nat, NEW more \in Nat, Flow(late),
           UNCHANGED <<status, bond, unbond, era_snapshot, local_balance>>,
           active' = active + more
    PROVE  Flow(late + more)'
<1>1. /\ active \in Nat /\ era_snapshot.active \in Nat /\ bond \in Nat /\ unbond \in Nat
      /\ era_snapshot.bond \in Nat /\ era_snapshot.unbond \in Nat
  BY DEF Types, PoolTypeOK, EraSnapshot
<1>2. SnapshotCovered' /\ ContractHoldsBond'
  BY DEF Flow, SnapshotCovered, ContractHoldsBond, SnapshotPending
<1>3. NetFlowBut(late + more)'
  <2>1. ASSUME SnapshotPending'
        PROVE  active' - era_snapshot'.active =
                   (bond' - era_snapshot'.bond) - (unbond' - era_snapshot'.unbond)
                       + (late + more)
    <3>1. active - era_snapshot.active =
              (bond - era_snapshot.bond) - (unbond - era_snapshot.unbond) + late
      BY <2>1 DEF Flow, NetFlowBut, SnapshotPending
    <3> QED BY <1>1, <3>1
  <2>2. ASSUME status' \in {"BondEnded", "WithdrawStarted", "WithdrawEnded", "RebondEnded"}
        PROVE  active' - era_snapshot'.active = bond' - unbond' + (late + more)
    <3>1. active - era_snapshot.active = bond - unbond + late
      BY <2>2 DEF Flow, NetFlowBut
    <3> QED BY <1>1, <3>1
  <2> QED BY <2>1, <2>2 DEF NetFlowBut, SnapshotPending
<1> QED BY <1>2, <1>3 DEF Flow

\* Minting for shares keeps the supply backed.
LEMMA SharesBacked ==
    ASSUME Types, SupplyBacked, NEW amount \in Nat, rate > 0, rate' = rate,
           active' = active + amount,
           total_lsd_token_amount' = total_lsd_token_amount + LsdFor(amount)
    PROVE  SupplyBacked' /\ active' \in Nat /\ total_lsd_token_amount' \in Nat
<1> DEFINE minted == LsdFor(amount)
<1>1. /\ CAL_BASE \in Nat /\ rate \in Nat \ {0} /\ active \in Nat
      /\ total_lsd_token_amount \in Nat
  BY ScaleAssumption DEF Types, PoolTypeOK
<1>2. minted \in Nat /\ minted * rate <= amount * CAL_BASE
  BY <1>1, DivNat, MulNat, DivLower DEF LsdFor
<1> HIDE DEF minted
<1>3. /\ (total_lsd_token_amount + minted) * rate
             = total_lsd_token_amount * rate + minted * rate
      /\ (active + amount) * CAL_BASE = active * CAL_BASE + amount * CAL_BASE
  BY <1>1, <1>2, MulDistr
<1>4. /\ total_lsd_token_amount * rate \in Nat /\ minted * rate \in Nat
      /\ active * CAL_BASE \in Nat /\ amount * CAL_BASE \in Nat
  BY <1>1, <1>2, MulNat
<1>5. total_lsd_token_amount' = total_lsd_token_amount + minted
  BY DEF minted
<1>6. SupplyBacked'
  BY <1>2, <1>3, <1>4, <1>5 DEF SupplyBacked
<1>7. active' \in Nat /\ total_lsd_token_amount' \in Nat
  BY <1>1, <1>2, <1>5
<1> QED BY <1>6, <1>7

\* The invariant of LSM stake composed with the era cycle: that of the era cycle, with
\* what came late counted, and that of the shares.
LInv == RCore /\ Flow(late_lsm) /\ Shares

\* The initial state has no share and no redemption.
LEMMA InitLInv == LsmInit => LInv
<1> SUFFICES ASSUME LsmInit PROVE LInv
  OBVIOUS
<1>1. RInv
  BY InitRInv DEF LsmInit
<1>2. late_lsm = 0
  BY DEF LsmInit
<1>3. Flow(late_lsm)
  BY <1>1, <1>2 DEF RInv, IInv, Flow, NetFlowBut
<1>4. ShareTypes /\ TransfersDistinct
  BY LsmAssumption, FS_EmptySet DEF LsmInit, ShareTypes, TransfersDistinct
<1>5. RedeemsOf(pool_txs) = {}
  BY DEF LsmInit, Init, RedeemsOf
<1>6. RedemptionsKnown
  BY <1>5 DEF RedemptionsKnown, RedemptionsIn
<1>7. SharesHeld
  <2> SUFFICES ASSUME NEW d \in ShareDenoms \ redeemed_again
               PROVE  ListedIn(share_tokens, d) + ArrivingIn(lsm_transfers, d)
                          <= host_shares[d] + RedeemedIn(pool_txs, d)
    BY DEF SharesHeld
  <2>1. ListedIn(share_tokens, d) = 0
    <3>1. DOMAIN share_tokens = {}
      BY DEF LsmInit
    <3> QED BY <3>1, SumEmpty DEF ListedIn
  <2>2. ArrivingIn(lsm_transfers, d) = 0
    <3>1. lsm_transfers = {}
      BY DEF LsmInit
    <3> QED BY <3>1, SumEmpty DEF ArrivingIn
  <2>3. RedeemedIn(pool_txs, d) = 0
    BY <1>5, SumEmpty DEF RedeemedIn
  <2>4. host_shares[d] = 0
    BY DEF LsmInit
  <2> QED BY <2>1, <2>2, <2>3, <2>4
<1> QED BY <1>1, <1>3, <1>4, <1>6, <1>7 DEF LInv, Shares, RInv

\* A step that counts nothing more and leaves active alone keeps what is counted.
LEMMA QuietLInv ==
    ASSUME LInv, EraLeft, UNCHANGED <<active, total_lsd_token_amount, late_lsm>>,
           delegated' \in Nat, pool_txs' \in Seq(PoolTx), ChannelKept, Shares'
    PROVE  LInv' /\ UNCHANGED Pool!vars
<1>1. RCore /\ Types /\ SupplyBacked /\ Flow(late_lsm)
  BY DEF LInv, RCore, Core
<1>2. active \in Nat /\ total_lsd_token_amount \in Nat
  BY <1>1 DEF Types, PoolTypeOK
<1>3. SupplyBacked'
  BY <1>1 DEF SupplyBacked, EraLeft
<1>4. RCore' /\ OpenClaims' = OpenClaims
  BY <1>1, <1>2, <1>3, QuietStep
<1>5. Flow(late_lsm)'
  BY <1>1 DEF Flow, NetFlowBut, SnapshotCovered, ContractHoldsBond, SnapshotPending,
              EraLeft
<1> QED BY <1>4, <1>5 DEF LInv, EraLeft, Pool!vars

\* Steps that change nothing but shares.
LEMMA ShareOnlyStep ==
    ASSUME LInv, UNCHANGED <<vars, late_lsm>>, Shares'
    PROVE  LInv' /\ UNCHANGED Pool!vars
<1>1. EraLeft /\ UNCHANGED <<active, total_lsd_token_amount, late_lsm, delegated,
                             pool_txs, status, era_snapshot>>
  BY DEF vars, pool_vars, packet_vars, host_vars, EraLeft
<1>2. delegated' \in Nat /\ pool_txs' \in Seq(PoolTx) /\ StepOwnsItsPacket
  BY <1>1 DEF LInv, RCore, Core, Types, HostTypeOK, ChannelsTypeOK
<1>3. ChannelKept
  BY <1>1, <1>2, ChannelSame
<1> QED BY <1>1, <1>2, <1>3, QuietLInv

\* The acknowledgement of an LSM stake is, seen from outside, a stake of the value of
\* its shares.
LEMMA StakedStep ==
    ASSUME LInv, NEW p \in lsm_transfers, sudo_stake_lsm_callback(p)
    PROVE  LInv' /\ Pool!Stake
<1> DEFINE late == late_lsm
           more == p.token_amount
<1>1. RCore /\ Types /\ SupplyBacked /\ ChannelsTypeOK /\ StepOwnsItsPacket /\ Shares
      /\ Flow(late)
  BY DEF LInv, RCore, Core, Types
<1>2. Shares' /\ late_lsm' = late + more /\ more \in Nat
  BY <1>1, StakedShares
<1>3. /\ rate > 0 /\ active' = active + more
      /\ total_lsd_token_amount' = total_lsd_token_amount + LsdFor(more)
      /\ UNCHANGED <<rate, next_unstake_index, received>>
  BY DEF sudo_stake_lsm_callback, host_vars
<1>4. EraLeft /\ UNCHANGED <<delegated, pool_txs, status, era_snapshot>>
  BY DEF sudo_stake_lsm_callback, packet_vars, host_vars, EraLeft
<1>5. SupplyBacked' /\ active' \in Nat /\ total_lsd_token_amount' \in Nat
  BY <1>1, <1>2, <1>3, SharesBacked
<1>6. ChannelKept
  BY <1>1, <1>4, ChannelSame
<1>7. delegated' \in Nat /\ pool_txs' \in Seq(PoolTx)
  BY <1>1, <1>4 DEF Types, HostTypeOK, ChannelsTypeOK
<1>8. RCore' /\ OpenClaims' = OpenClaims
  BY <1>1, <1>4, <1>5, <1>6, <1>7, QuietStep
<1>9. Flow(late_lsm)'
  <2>1. PICK n \in Nat : n = late_lsm
    BY <1>1 DEF Shares, ShareTypes
  <2>2. PICK m \in Nat : m = more
    BY <1>2
  <2>3. Flow(n)
    BY <1>1, <2>1 DEF Flow, NetFlowBut
  <2>4. UNCHANGED <<status, bond, unbond, era_snapshot, local_balance>>
    BY <1>4 DEF EraLeft
  <2>5. active' = active + m
    BY <1>3, <2>2
  <2>6. Flow(n + m)'
    BY <1>1, <2>3, <2>4, <2>5, QuietFlow
  <2>7. late_lsm' = n + m
    BY <1>2, <2>1, <2>2
  <2> QED BY <2>6, <2>7 DEF Flow, NetFlowBut
<1>10. Pool!Stake
  <2>1. active' >= active /\ active' - active = more
    BY <1>1, <1>2, <1>3 DEF Types, PoolTypeOK
  <2> QED BY <1>3, <1>5, <1>8, <2>1 DEF Pool!Stake, LsdFor
<1> QED BY <1>2, <1>8, <1>9, <1>10 DEF LInv

\* The host redeems the shares of one transaction for a delegation.
LEMMA HostRedeemsStep ==
    ASSUME LInv, NEW i \in DOMAIN pool_txs, host_redeems(i)
    PROVE  LInv' /\ UNCHANGED Pool!vars
<1>1. Types /\ ChannelsTypeOK /\ StepOwnsItsPacket /\ Shares
  BY DEF LInv, RCore, Core, Types
<1>2. /\ Shares'
      /\ pool_txs' = [pool_txs EXCEPT ![i].ack = "ok"] /\ pool_txs[i].ack = "none"
      /\ pool_txs' \in Seq(PoolTx)
      /\ ValueOf(pool_txs[i].tokens) \in Nat
  BY <1>1, HostRedeemsShares
<1>3. /\ EraLeft /\ UNCHANGED <<active, total_lsd_token_amount, late_lsm>>
      /\ UNCHANGED <<status, era_snapshot>>
      /\ pool_txs[i].tx_type = "RedeemTokenForShare"
      /\ delegated' = delegated + ValueOf(pool_txs[i].tokens)
  BY DEF host_redeems, pool_vars, EraLeft
<1>4. delegated' \in Nat
  BY <1>1, <1>2, <1>3 DEF Types, HostTypeOK
<1>5. ChannelKept
  BY <1>1, <1>2, <1>3, RedeemExecuted
<1> QED BY <1>2, <1>3, <1>4, <1>5, QuietLInv

\* The contract sends a redemption.
LEMMA RedeemSentStep ==
    ASSUME LInv, RedeemStep
    PROVE  LInv' /\ UNCHANGED Pool!vars
<1>1. Types /\ ChannelsTypeOK /\ StepOwnsItsPacket /\ Shares /\ delegated \in Nat
  BY DEF LInv, RCore, Core, Types, HostTypeOK
<1>2. Shares'
  BY <1>1, RedeemShares
<1>3. PICK tx \in RedeemTx : tx.ack = "none" /\ pool_txs' = Append(pool_txs, tx)
  BY <1>1, RedeemShares
<1>4. /\ EraLeft /\ UNCHANGED <<active, total_lsd_token_amount, late_lsm, delegated>>
      /\ UNCHANGED <<status, era_snapshot>>
  BY DEF RedeemStep, execute_redeem_token_for_share, pool_vars, host_vars, EraLeft
<1>5. pool_txs' \in Seq(PoolTx)
  BY <1>1, <1>3 DEF ChannelsTypeOK, PoolTx
<1>6. ChannelKept
  BY <1>1, <1>3, <1>4, RedeemSent
<1> QED BY <1>1, <1>2, <1>4, <1>5, <1>6, QuietLInv

\* The outcome of a redemption is back.
LEMMA RedeemTakenStep ==
    ASSUME LInv,
           \/ sudo_redeem_token_for_share_callback
           \/ sudo_redeem_token_for_share_failed_callback
    PROVE  LInv' /\ UNCHANGED Pool!vars
<1>1. Types /\ ChannelsTypeOK /\ StepOwnsItsPacket /\ Shares /\ delegated \in Nat
  BY DEF LInv, RCore, Core, Types, HostTypeOK
<1>2. Shares'
  BY <1>1, RedeemedShares, RedeemFailedShares
<1>3. /\ EraLeft /\ UNCHANGED <<active, total_lsd_token_amount, late_lsm, delegated>>
      /\ UNCHANGED <<status, era_snapshot>>
      /\ pool_txs # <<>> /\ Head(pool_txs).tx_type = "RedeemTokenForShare"
      /\ pool_txs' = Tail(pool_txs)
  BY DEF sudo_redeem_token_for_share_callback, Answered, pool_vars, host_vars, EraLeft,
         sudo_redeem_token_for_share_failed_callback
<1>4. ChannelKept /\ pool_txs' \in Seq(PoolTx)
  BY <1>1, <1>3, RedeemTaken
<1> QED BY <1>1, <1>2, <1>3, <1>4, QuietLInv

\* A step of LSM stake keeps the invariant and is, seen from outside, a stake or
\* nothing.
LEMMA LsmStepInv ==
    ASSUME LInv, LsmStep
    PROVE  LInv' /\ (Pool!Stake \/ UNCHANGED Pool!vars)
<1>0. ChannelsTypeOK /\ Shares
  BY DEF LInv, RCore, Core, Types
<1>1. ASSUME NEW d \in ShareDenoms, NEW a \in ShareAmounts,
             execute_stake_lsm([denom |-> d, amount |-> a])
      PROVE  LInv' /\ UNCHANGED Pool!vars
  <2>1. UNCHANGED <<vars, late_lsm>>
    BY <1>1 DEF execute_stake_lsm
  <2>2. Shares'
    BY <1>0, <1>1, StakeLsmShares
  <2> QED BY <2>1, <2>2, ShareOnlyStep
<1>2. ASSUME NEW p \in lsm_transfers, sudo_stake_lsm_failed_callback(p)
      PROVE  LInv' /\ UNCHANGED Pool!vars
  <2>1. UNCHANGED <<vars, late_lsm>>
    BY <1>2 DEF sudo_stake_lsm_failed_callback
  <2>2. Shares'
    BY <1>0, <1>2, StakeFailedShares
  <2> QED BY <2>1, <2>2, ShareOnlyStep
<1>3. ASSUME NEW p \in lsm_transfers, host_receives_shares(p) \/ share_transfer_fails(p)
      PROVE  LInv' /\ UNCHANGED Pool!vars
  <2>1. UNCHANGED <<vars, late_lsm>>
    BY <1>3 DEF host_receives_shares, share_transfer_fails
  <2>2. Shares'
    BY <1>0, <1>3, ReceivedShares
  <2> QED BY <2>1, <2>2, ShareOnlyStep
<1> QED BY <1>1, <1>2, <1>3, StakedStep, HostRedeemsStep, RedeemSentStep,
           RedeemTakenStep DEF LsmStep, StakeLsmStep

\* Only EraUpdate counts the era up.
LEMMA OnlyUpdateCounts ==
    ASSUME era \in Nat,
           \/ execute_era_active
           \/ UserStep \/ HostStep \/ TransferCallback \/ PoolCallback \/ CollectCallback
           \/ execute_era_bond \/ execute_era_collect_withdraw \/ execute_era_rebond
           \/ execute_config_pool_paused
    PROVE  ~execute_era_update
<1>1. CASE era' = era \/ era' = era - 1
  BY <1>1 DEF execute_era_update
<1>2. CASE UserStep
  BY <1>1, <1>2 DEF UserStep, execute_stake, execute_unstake, execute_withdraw, pool_vars
<1>3. CASE HostStep
  BY <1>1, <1>3 DEF HostStep, host_receives_transfer, transfer_fails,
                    host_executes_era_tx, host_executes_user_withdraw, pool_tx_fails,
                    host_executes_collect, collect_fails, host_completes_unbonding,
                    host_slashes, relayer_submits_delegations, relayer_submits_balance,
                    era_elapses, pool_vars
<1>4. CASE TransferCallback \/ CollectCallback
  BY <1>1, <1>4 DEF TransferCallback, sudo_era_update_callback,
                    sudo_era_update_failed_callback, CollectCallback,
                    sudo_era_collect_withdraw_callback,
                    sudo_era_collect_withdraw_failed_callback, pool_vars
<1>5. CASE PoolCallback
  BY <1>1, <1>5 DEF PoolCallback, sudo_era_bond_callback, sudo_era_bond_failed_callback,
                    sudo_era_rebond_callback, sudo_era_rebond_failed_callback,
                    sudo_withdraw_callback, sudo_withdraw_failed_callback, pool_vars
<1>6. CASE \/ execute_era_active \/ execute_era_bond \/ execute_era_collect_withdraw
           \/ execute_era_rebond \/ execute_config_pool_paused
  BY <1>1, <1>6 DEF execute_era_active, execute_era_bond, execute_era_collect_withdraw,
                    execute_era_rebond, execute_config_pool_paused
<1> QED BY <1>2, <1>3, <1>4, <1>5, <1>6

\* A step of the composed era cycle is one of the era cycle; the snapshot forgets what
\* came late, and no other step touches what LSM stake keeps.
LEMMA EraStepMeans ==
    ASSUME era \in Nat, EraStep
    PROVE  /\ SerialNext
           /\ UNCHANGED <<share_tokens, redeemming_share_token_denom, lsm_transfers,
                          staker_shares, host_shares, redeemed_again>>
           /\ \/ execute_era_update /\ late_lsm' = 0
              \/ ~execute_era_update /\ late_lsm' = late_lsm
<1>1. CASE execute_era_update_snapshot
  BY <1>1 DEF execute_era_update_snapshot, SerialNext, OtherStep, KeeperStep
<1>2. CASE execute_era_active_no_share
  BY <1>2, OnlyUpdateCounts
     DEF execute_era_active_no_share, SerialNext, OtherStep, KeeperStep, lsm_vars
<1>3. CASE /\ \/ UserStep \/ HostStep
              \/ TransferCallback \/ PoolCallback \/ CollectCallback
              \/ execute_era_bond
              \/ execute_era_collect_withdraw
              \/ ~RebondInFlight /\ execute_era_rebond
              \/ execute_config_pool_paused
           /\ UNCHANGED lsm_vars
  BY <1>3, OnlyUpdateCounts DEF SerialNext, OtherStep, KeeperStep, lsm_vars
<1> QED BY <1>1, <1>2, <1>3 DEF EraStep

\* A step of the era cycle keeps the invariant of the composition.
LEMMA EraStepInv ==
    ASSUME LInv, EraStep
    PROVE  LInv' /\ (misread' = {} => [Pool!Next]_(Pool!vars))
<1>1. RCore /\ Core /\ Types /\ StepOwnsItsPacket /\ ChannelsTypeOK /\ Shares
      /\ Flow(late_lsm) /\ era \in Nat /\ late_lsm \in Nat /\ Requests
  BY DEF LInv, RCore, Core, Types, PoolTypeOK, Shares, ShareTypes
<1>2. /\ SerialNext
      /\ UNCHANGED <<share_tokens, redeemming_share_token_denom, lsm_transfers,
                     staker_shares, host_shares, redeemed_again>>
      /\ \/ execute_era_update /\ late_lsm' = 0
         \/ ~execute_era_update /\ late_lsm' = late_lsm
  BY <1>1, EraStepMeans
<1>3. RCore' /\ Core' /\ ChannelsTypeOK'
  <2>1. RCore'
    BY <1>1, <1>2, RequestsCoreStep
  <2> QED BY <2>1 DEF RCore, Core, Types
<1>4. late_lsm' \in Nat
  BY <1>1, <1>2
<1>5. Shares'
  BY <1>1, <1>2, <1>3, <1>4, EraShares
<1>6. Flow(late_lsm)'
  <2>1. PICK n \in Nat : n = late_lsm
    BY <1>1
  <2>2. Flow(n)
    BY <1>1, <2>1 DEF Flow, NetFlowBut
  <2>3. /\ execute_era_update => Flow(0)'
        /\ ~execute_era_update => Flow(n)'
    BY <1>1, <1>2, <2>2, FlowStep
  <2>4. \/ late_lsm' = 0 /\ Flow(0)'
        \/ late_lsm' = n /\ Flow(n)'
    BY <1>2, <2>1, <2>3
  <2> QED BY <2>4 DEF Flow, NetFlowBut
<1>7. misread' = {} => [Pool!Next]_(Pool!vars)
  BY <1>1, <1>2, <1>3, PoolStep
<1> QED BY <1>3, <1>5, <1>6, <1>7 DEF LInv

\* Every step of the composition keeps the invariant, and implements LiquidPool up to
\* the first payment that reopens a request which is being paid.
LEMMA LsmNextInv ==
    ASSUME LInv, [LsmNext]_all_vars
    PROVE  LInv' /\ (misread' = {} => [Pool!Next]_(Pool!vars))
<1>1. CASE LsmStep
  BY <1>1, LsmStepInv DEF Pool!Next
<1>2. CASE EraStep
  BY <1>2, EraStepInv
<1>3. CASE UNCHANGED all_vars
  <2>1. UNCHANGED <<vars, late_lsm>> /\ UNCHANGED lsm_vars
    BY <1>3 DEF all_vars, lsm_vars
  <2>2. /\ ChannelsTypeOK /\ Shares /\ late_lsm' \in Nat
        /\ UNCHANGED <<share_tokens, redeemming_share_token_denom, lsm_transfers,
                       staker_shares, host_shares, redeemed_again>>
    BY <2>1 DEF LInv, RCore, Core, Types, lsm_vars, Shares, ShareTypes
  <2>3. ChannelsTypeOK'
    BY <2>1, <2>2 DEF vars, packet_vars, ChannelsTypeOK
  <2>4. Shares'
    BY <2>1, <2>2, <2>3, EraShares
  <2> QED BY <2>1, <2>4, ShareOnlyStep
<1> QED BY <1>1, <1>2, <1>3 DEF LsmNext

\* The invariant of the composition holds in every state.
THEOREM LsmInvariantTheorem == LsmSpec => []LInv
<1>1. LInv /\ [LsmNext]_all_vars => LInv'
  BY LsmNextInv
<1> QED BY <1>1, InitLInv, PTL DEF LsmSpec

\* No amount of the era cycle or of LSM stake ever leaves its type: neither the
\* contract nor the host takes more shares from an account than it holds.
THEOREM LsmTypeTheorem == LsmSpec => []LsmTypeOK
<1>1. LInv => LsmTypeOK
  BY DEF LInv, RCore, Core, Types, Shares, ShareTypes, LsmTypeOK
<1> QED BY <1>1, LsmInvariantTheorem, PTL

\* What share_tokens lists, the host holds or has redeemed a moment ago, for any
\* denominations, coins and redemptions in flight, in whatever order they are submitted
\* and answered: no coin stays listed that is gone.  Excepted are only denominations of
\* which a redemption was submitted while another one was in flight, which the code does
\* not refuse.
THEOREM ListedTheorem == LsmSpec => []ListedIsHeld
<1>1. LInv => ListedIsHeld
  <2> SUFFICES ASSUME LInv, NEW d \in ShareDenoms \ redeemed_again
               PROVE  Listed(d) <= host_shares[d] + RedeemedOf(d)
    BY DEF ListedIsHeld
  <2>1. Listed(d) = ListedIn(share_tokens, d) /\ RedeemedOf(d) = RedeemedIn(pool_txs, d)
    BY DEF Listed, ListedIn, RedeemedOf, RedeemedIn, RedeemsInFlight, RedeemsOf
  <2>2. ChannelsTypeOK /\ Shares
    BY DEF LInv, RCore, Core, Types
  <2>3. /\ ListedIn(share_tokens, d) \in Nat /\ ArrivingIn(lsm_transfers, d) \in Nat
        /\ host_shares[d] \in Nat /\ RedeemedIn(pool_txs, d) \in Nat
    BY <2>2, ShareAmountsTyped
  <2>4. ListedIn(share_tokens, d) + ArrivingIn(lsm_transfers, d)
            <= host_shares[d] + RedeemedIn(pool_txs, d)
    BY <2>2 DEF Shares, SharesHeld
  <2> QED BY <2>1, <2>3, <2>4
<1> QED BY <1>1, LsmInvariantTheorem, PTL

\* EraActive books the delegations as the query last read them, the net stake since the
\* snapshot and all the LSM stake acknowledged since then, whatever was acknowledged,
\* redeemed and read in which order.
THEOREM LsmBooksTheorem == LsmSpec => ActiveFollowsLsm
<1>1. LInv /\ [LsmNext]_all_vars => [BooksDelegationsAndLsm]_all_vars
  <2> SUFFICES ASSUME LInv, [LsmNext]_all_vars,
                      status = "RebondEnded", status' = "ActiveEnded"
               PROVE  BooksDelegationsAndLsm
    BY DEF BooksDelegationsAndLsm
  <2>1. Core /\ Flow(late_lsm) /\ era \in Nat /\ late_lsm \in Nat
    BY DEF LInv, RCore, Core, Types, PoolTypeOK, Shares, ShareTypes
  <2>2. EraStep
    <3>1. ASSUME LsmStep PROVE FALSE
      BY <3>1 DEF LsmStep, StakeLsmStep, execute_stake_lsm, RedeemStep, execute_redeem_token_for_share,
                  sudo_stake_lsm_callback, sudo_stake_lsm_failed_callback,
                  sudo_redeem_token_for_share_callback,
                  sudo_redeem_token_for_share_failed_callback,
                  host_receives_shares, share_transfer_fails, host_redeems,
                  vars, pool_vars
    <3>2. ASSUME UNCHANGED all_vars PROVE FALSE
      BY <3>2 DEF all_vars, vars, pool_vars
    <3> QED BY <3>1, <3>2 DEF LsmNext
  <2>3. execute_era_active
    BY <2>1, <2>2, EraStepMeans, OnlyActiveEnds
  <2>4. PICK n \in Nat : n = late_lsm
    BY <2>1
  <2>5. Flow(n)
    BY <2>1, <2>4 DEF Flow, NetFlowBut
  <2>6. BooksWith(n)
    BY <2>1, <2>3, <2>5, ActiveBooks
  <2> QED BY <2>4, <2>6 DEF BooksWith, BooksDelegationsAndLsm
<1> QED BY <1>1, LsmInvariantTheorem, PTL DEF LsmSpec, ActiveFollowsLsm

\* What the era cycle guarantees on its own it also guarantees while shares arrive and
\* are redeemed: an acknowledgement in the middle of a step neither makes the bond
\* callback abort nor takes from what unstakers are owed.  The last two conjuncts are
\* up to the requests that a failed payment reopens.
THEOREM LsmEraTheorem ==
    LsmSpec => [](/\ StepOwnsItsPacket /\ SnapshotCovered /\ ContractHoldsBond
                  /\ SupplyBacked /\ WithdrawExclusive /\ UnstakesCovered)
<1>1. LInv => /\ StepOwnsItsPacket /\ SnapshotCovered /\ ContractHoldsBond
              /\ SupplyBacked /\ WithdrawExclusive /\ UnstakesCovered
  BY RequestsExclusive DEF LInv, RCore, Core, Flow
<1> QED BY <1>1, LsmInvariantTheorem, PTL

\* The composition implements LiquidPool: shares are, seen from outside, one more way
\* to stake, at the rate of the moment at which they are acknowledged.
THEOREM LsmRefinementTheorem == LsmSpec => ImplementsLiquidPool
<1>1. LInv /\ [LsmNext]_all_vars => [misread' = {} => [Pool!Next]_(Pool!vars)]_vars
  BY LsmNextInv
<1>2. LsmInit => Pool!Init
  BY PoolInit DEF LsmInit
<1> QED BY <1>1, <1>2, LsmInvariantTheorem, PTL DEF LsmSpec, ImplementsLiquidPool

\* No executed redemption of the coin's denomination awaits its callback.
Redeemable(c) ==
    \A i \in RedeemsInFlight :
        pool_txs[i].ack = "ok" => c.denom \notin Denoms(pool_txs[i].tokens)

\* The account holds the shares of every such listed coin, and of every redemption
\* that the host has not handled yet, unless its denomination was redeemed again while
\* in flight: what execute_redeem_token_for_share submits is not refused for lack of
\* shares.
RedeemsFunded ==
    /\ \A c \in Range(share_tokens) :
           c.denom \notin redeemed_again /\ Redeemable(c)
               => host_shares[c.denom] >= c.amount
    /\ \A i \in RedeemsInFlight : pool_txs[i].ack = "none" =>
           \A c \in pool_txs[i].tokens :
               c.denom \notin redeemed_again => host_shares[c.denom] >= c.amount

\* When nothing of its denomination is redeemed already, a listed coin is held.
LEMMA CoinFunded ==
    ASSUME ChannelsTypeOK, Shares, NEW c \in Range(share_tokens), Redeemable(c),
           c.denom \notin redeemed_again
    PROVE  host_shares[c.denom] >= c.amount
<1> DEFINE d == c.denom
           R == RedeemsOf(pool_txs)
           f == [i \in R |-> Redeemed(d, pool_txs[i])]
<1>1. d \in ShareDenoms /\ c.amount \in Nat /\ R = RedeemsInFlight
  BY SharesFacts DEF Coin, RedeemsOf, RedeemsInFlight
<1> HIDE DEF d
<1>2. /\ IsFiniteSet(R)
      /\ \A i \in R : IsFiniteSet(pool_txs[i].tokens)
      /\ RedeemedIn(pool_txs, d) = SumFunctionOnSet(f, R)
  BY <1>1, SharesFacts, RedeemSums
<1>3. ASSUME NEW i \in R PROVE f[i] = 0
  <2>1. CASE pool_txs[i].ack # "ok"
    BY <2>1 DEF Redeemed
  <2>2. CASE pool_txs[i].ack = "ok"
    <3>1. d \notin Denoms(pool_txs[i].tokens)
      BY <1>1, <2>2 DEF Redeemable, d
    <3>2. /\ pool_txs[i].tokens \in SUBSET Coin /\ IsFiniteSet(pool_txs[i].tokens)
          /\ OneCoinEach(pool_txs[i].tokens)
      BY <1>1, SharesFacts DEF RedemptionsIn
    <3>3. AmountIn(pool_txs[i].tokens, d) = 0
      BY <1>1, <3>1, <3>2, CoinSums
    <3> QED BY <3>3 DEF Redeemed
  <2> QED BY <2>1, <2>2
<1> HIDE DEF R, f
<1>4. RedeemedIn(pool_txs, d) = 0
  BY <1>2, <1>3, SumZero
<1>5. c.amount <= ListedIn(share_tokens, d)
  BY <1>1, SharesFacts, ListedSums DEF d
<1>6. /\ ListedIn(share_tokens, d) \in Nat /\ ArrivingIn(lsm_transfers, d) \in Nat
      /\ host_shares[d] \in Nat
  BY <1>1, ShareAmountsTyped
<1>7. ListedIn(share_tokens, d) + ArrivingIn(lsm_transfers, d)
          <= host_shares[d] + RedeemedIn(pool_txs, d)
  BY <1>1 DEF Shares, SharesHeld, d
<1>8. host_shares[d] >= c.amount
  BY <1>1, <1>4, <1>5, <1>6, <1>7
<1> QED BY <1>8 DEF d

\* No redemption of a denomination of which none is in flight fails for lack of shares:
\* only redeeming one again puts a coin that EraActive waits for beyond redeeming.
THEOREM FundedTheorem == LsmSpec => []RedeemsFunded
<1>1. LInv => RedeemsFunded
  <2> SUFFICES ASSUME LInv PROVE RedeemsFunded
    OBVIOUS
  <2>1. ChannelsTypeOK /\ Shares
    BY DEF LInv, RCore, Core, Types
  <2>2. ASSUME NEW i \in RedeemsInFlight, pool_txs[i].ack = "none",
               NEW c \in pool_txs[i].tokens, c.denom \notin redeemed_again
        PROVE  host_shares[c.denom] >= c.amount
    <3>1. i \in RedeemsOf(pool_txs) /\ RedeemsInFlight = RedeemsOf(pool_txs)
      BY <2>2 DEF RedeemsInFlight, RedeemsOf
    <3>2. /\ c \in Range(share_tokens)
          /\ \A j \in RedeemsOf(pool_txs) : i # j =>
                 Denoms(pool_txs[i].tokens) \cap Denoms(pool_txs[j].tokens)
                     \subseteq redeemed_again
      BY <2>1, <2>2, <3>1, SharesFacts DEF RedemptionsIn
    <3>3. c.denom \in Denoms(pool_txs[i].tokens)
      BY DEF Denoms
    <3>4. ASSUME NEW j \in RedeemsInFlight, pool_txs[j].ack = "ok"
          PROVE  c.denom \notin Denoms(pool_txs[j].tokens)
      <4>1. j # i
        BY <2>2, <3>4
      <4> QED BY <2>2, <3>1, <3>2, <3>3, <4>1
    <3>5. c \in Range(share_tokens) /\ Redeemable(c)
      BY <3>2, <3>4 DEF Redeemable
    <3> QED BY <2>1, <2>2, <3>5, CoinFunded
  <2> QED BY <2>1, <2>2, CoinFunded DEF RedeemsFunded
<1> QED BY <1>1, LsmInvariantTheorem, PTL

=============================================================================
