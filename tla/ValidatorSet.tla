---------------------------- MODULE ValidatorSet ----------------------------
(***************************************************************************)
(* The validator set of a pool: the list the pool delegates to, the        *)
(* delegations on the host, and the keys of the interchain query through   *)
(* which EraActive sees them.  The admin adds, removes and replaces        *)
(* validators and delegates by hand while anyone may run the era steps; a  *)
(* removal or a replacement redelegates first, and its outcome comes back  *)
(* later.                                                                  *)
(*                                                                         *)
(* Abstractions: of an era only what touches validators is kept.  The net  *)
(* of the snapshot is an input of EraUpdate, its transfer arrives, and     *)
(* BondEnded stands for the statuses up to RebondEnded (EraCycle has the   *)
(* failures, collection and rebond).  A delegation that is absent and one  *)
(* of amount zero are the same, as they are for every handler.             *)
(***************************************************************************)
EXTENDS Integers, SequencesExt, Vec

CONSTANTS
    Validators,
    VALIDATER_LEN_LIMIT,      \* 10 in the code
    STAKE_SPLIT_THRESHOLD,    \* below it EraBond delegates to one validator
    InitialValidators,        \* the list InitPool was given
    Nets,                     \* bond - unbond of a snapshot
    MaxTotal,                 \* bound: tokens ever delegated
    MaxEra,                   \* bound: eras started
    MaxTxs                    \* bound: transactions in flight

ASSUME ValidatorAssumption ==
    /\ VALIDATER_LEN_LIMIT \in Nat \ {0}
    /\ STAKE_SPLIT_THRESHOLD \in Nat
    /\ InitialValidators \in Seq(Validators)
    /\ Len(InitialValidators) \in 1..VALIDATER_LEN_LIMIT
    /\ Nets \subseteq Int
    /\ MaxTotal \in Nat /\ MaxEra \in Nat /\ MaxTxs \in Nat

\* The admin names every validator once; InitPool does not look for duplicates.
ASSUME InitialAssumption == IsInjective(InitialValidators)

VARIABLES
    \* PoolInfo
    status, validator_addrs, validator_update_status, net, era,
    \* transactions of the pool account in flight, an ordered channel
    pool_txs,
    \* the host: delegations of the pool account
    delegation,
    \* the delegations query: its keys and its last result
    keys, icq,
    \* history: a replacement has failed; a call was made on a result that did
    \* not show the delegations of that moment
    replacement_failed, outdated_read

pool_vars == <<status, validator_addrs, validator_update_status, net, era>>
query_vars == <<keys, icq>>
history_vars == <<replacement_failed, outdated_read>>
vars == <<pool_vars, pool_txs, delegation, query_vars, history_vars>>

Amounts == [Validators -> Nat]
NoAmounts == [v \in Validators |-> 0]

\* A transaction moves amounts away from and towards validators.  message is
\* the payload its callback needs: a validator or a list of them.
Tx == [tx_type : {"RmValidator", "UpdateValidator", "EraBond", "PoolDelegate"},
       take : Amounts, give : Amounts,
       message : Seq(Validators), ack : {"none", "ok", "error"}]

Total(amounts) == MapThenSumSet(LAMBDA v : amounts[v], Validators)

Only(v, amount) == [NoAmounts EXCEPT ![v] = amount]

Send(type, take, give, message) ==
    pool_txs' = Append(pool_txs, [tx_type |-> type, take |-> take, give |-> give,
                                  message |-> message, ack |-> "none"])

\* deal_validators_icq_update: the query's keys become those of the list; its
\* last result stays until the relayer submits the next one.
deal_validators_icq_update(list) == keys' = ToSet(list)

\* What the query would show now.
Visible == [v \in Validators |-> IF v \in keys THEN delegation[v] ELSE 0]

UpToDate ==
    pool_txs = <<>> /\ keys = ToSet(validator_addrs) /\ icq.amounts = Visible

Reads == outdated_read' = (outdated_read \/ ~UpToDate)

-----------------------------------------------------------------------------
(***************************************************************************)
(* The admin.                                                              *)
(***************************************************************************)
\* validator_update_status is not looked at.
execute_add_pool_validators(v) ==
    /\ status = "ActiveEnded"
    /\ Len(validator_addrs) < VALIDATER_LEN_LIMIT
    /\ v \notin ToSet(validator_addrs)
    /\ validator_addrs' = Append(validator_addrs, v)
    /\ deal_validators_icq_update(validator_addrs')
    /\ UNCHANGED <<status, validator_update_status, net, era, pool_txs,
                   delegation, icq, history_vars>>

Removable(v) ==
    /\ status = "ActiveEnded"
    /\ v \in ToSet(validator_addrs)
    /\ validator_update_status = "End"
    /\ icq.state # "none"
    /\ Len(validator_addrs) > 1

\* The amount redelegated is the query's, however old its result.
execute_rm_pool_validator(v) ==
    LET left_validators == Retain(validator_addrs, v)
        amount == icq.amounts[v]
    IN  /\ Removable(v)
        /\ Reads
        /\ \/ /\ amount = 0
              /\ validator_update_status' = "WaitQueryUpdate"
              /\ validator_addrs' = left_validators
              /\ UNCHANGED pool_txs
           \/ /\ amount > 0
              /\ Send("RmValidator", Only(v, amount),
                      Only(Head(left_validators), amount), <<v>>)
              /\ validator_update_status' = "Start"
              /\ UNCHANGED validator_addrs
        /\ UNCHANGED <<status, net, era, delegation, query_vars,
                       replacement_failed>>

\* Seeded defect: a change under way is not waited for.
ReplaceableAnytime(old, new) ==
    /\ status = "ActiveEnded"
    /\ old \in ToSet(validator_addrs)
    /\ new \notin ToSet(validator_addrs)
    /\ icq.state # "none"

Replaceable(old, new) ==
    /\ status = "ActiveEnded"
    /\ validator_update_status = "End"
    /\ old \in ToSet(validator_addrs)
    /\ new \notin ToSet(validator_addrs)
    /\ icq.state # "none"

\* The list changes at once, whether or not something is to be redelegated.
execute_pool_update_validator(old, new) ==
    LET new_validators == Append(Retain(validator_addrs, old), new)
        amount == icq.amounts[old]
    IN  /\ Replaceable(old, new)
        /\ Reads
        /\ validator_addrs' = new_validators
        /\ \/ /\ amount = 0
              /\ validator_update_status' = "WaitQueryUpdate"
              /\ UNCHANGED pool_txs
           \/ /\ amount > 0
              /\ Send("UpdateValidator", Only(old, amount), Only(new, amount),
                      new_validators)
              /\ validator_update_status' = "Start"
        /\ UNCHANGED <<status, net, era, delegation, query_vars,
                       replacement_failed>>

execute_update_validators_icq ==
    /\ validator_update_status = "WaitQueryUpdate"
    /\ validator_update_status' = "End"
    /\ deal_validators_icq_update(validator_addrs)
    /\ UNCHANGED <<status, validator_addrs, net, era, pool_txs, delegation, icq,
                   history_vars>>

\* amount in equal parts, the remainder to the first.
Split(list, amount) ==
    LET part == amount \div Len(list)
    IN  [v \in Validators |->
            (IF v \in ToSet(list) THEN part ELSE 0)
            + (IF v = Head(list) THEN amount - part * Len(list) ELSE 0)]

\* No payload is stored for its outcome and no pending change is looked at.
execute_pool_delegate(amount) ==
    /\ status = "ActiveEnded"
    /\ validator_addrs # <<>>
    /\ Send("PoolDelegate", NoAmounts, Split(validator_addrs, amount), <<>>)
    /\ outdated_read' = (outdated_read \/ validator_update_status # "End")
    /\ UNCHANGED <<pool_vars, delegation, query_vars, replacement_failed>>

-----------------------------------------------------------------------------
(***************************************************************************)
(* The era steps, as far as they touch validators.                         *)
(***************************************************************************)
Aged == IF icq.state = "none" THEN icq ELSE [icq EXCEPT !.state = "stale"]

\* Seeded defect: a pending change of the set is not waited for.
execute_era_update_anytime(n) ==
    /\ status = "ActiveEnded"
    /\ era < MaxEra
    /\ -n <= Total(delegation)
    /\ era' = era + 1
    /\ net' = n
    /\ status' = "EraUpdateEnded"
    /\ icq' = Aged
    /\ UNCHANGED <<validator_addrs, validator_update_status, pool_txs,
                   delegation, keys, history_vars>>

execute_era_update(n) ==
    /\ status = "ActiveEnded"
    /\ validator_update_status = "End"
    /\ era < MaxEra
    /\ -n <= Total(delegation)
    /\ era' = era + 1
    /\ net' = n
    /\ status' = "EraUpdateEnded"
    /\ icq' = Aged
    /\ UNCHANGED <<validator_addrs, validator_update_status, pool_txs,
                   delegation, keys, history_vars>>

\* The keeper names the validators to delegate to, each once; a small amount goes
\* to the first of them.
BondDelegates(select_vals) ==
    /\ net > 0
    /\ select_vals # <<>>
    /\ IsInjective(select_vals)
    /\ ToSet(select_vals) \subseteq ToSet(validator_addrs)
    /\ Send("EraBond", NoAmounts,
            IF net < STAKE_SPLIT_THRESHOLD THEN Only(Head(select_vals), net)
                                           ELSE Split(select_vals, net), <<>>)

\* From which validators an amount is taken is the subject of UnbondLimit: here
\* any allocation within the delegations the query shows.
BondUndelegates(take) ==
    /\ net <= 0
    /\ icq.state = "fresh"
    /\ Total(icq.amounts) > 0
    /\ \A v \in Validators : take[v] <= icq.amounts[v]
    /\ Total(take) = -net
    /\ Send("EraBond", take, NoAmounts, <<>>)

execute_era_bond ==
    /\ status = "EraUpdateEnded"
    /\ \/ \E select_vals \in SeqOf(ToSet(validator_addrs), Len(validator_addrs)) :
              BondDelegates(select_vals)
       \/ \E take \in [Validators -> 0..MaxTotal] : BondUndelegates(take)
    /\ status' = "BondStarted"
    /\ UNCHANGED <<validator_addrs, validator_update_status, net, era,
                   delegation, query_vars, history_vars>>

execute_era_active ==
    /\ status = "BondEnded"
    /\ icq.state = "fresh"
    /\ status' = "ActiveEnded"
    /\ UNCHANGED <<validator_addrs, validator_update_status, net, era, pool_txs,
                   delegation, query_vars, history_vars>>

-----------------------------------------------------------------------------
(***************************************************************************)
(* Callbacks.                                                              *)
(***************************************************************************)
Answered(type, ack) ==
    /\ pool_txs # <<>>
    /\ Head(pool_txs).tx_type = type
    /\ Head(pool_txs).ack = ack
    /\ pool_txs' = Tail(pool_txs)

\* Seeded defect: the query is taken to be up to date.
sudo_rm_validator_callback_ends ==
    /\ Answered("RmValidator", "ok")
    /\ validator_addrs' = Retain(validator_addrs, Head(pool_txs).message[1])
    /\ validator_update_status' = "End"
    /\ UNCHANGED <<status, net, era, delegation, query_vars, history_vars>>

sudo_rm_validator_callback ==
    /\ Answered("RmValidator", "ok")
    /\ validator_addrs' = Retain(validator_addrs, Head(pool_txs).message[1])
    /\ validator_update_status' = "WaitQueryUpdate"
    /\ UNCHANGED <<status, net, era, delegation, query_vars, history_vars>>

\* Seeded defects: the validator goes although its redelegation failed; the
\* change is never over.
sudo_rm_validator_failed_callback_removes ==
    /\ Answered("RmValidator", "error")
    /\ validator_addrs' = Retain(validator_addrs, Head(pool_txs).message[1])
    /\ validator_update_status' = "WaitQueryUpdate"
    /\ UNCHANGED <<status, net, era, delegation, query_vars, history_vars>>

sudo_rm_validator_failed_callback_locks ==
    /\ Answered("RmValidator", "error")
    /\ UNCHANGED <<pool_vars, delegation, query_vars, history_vars>>

sudo_rm_validator_failed_callback ==
    /\ Answered("RmValidator", "error")
    /\ validator_update_status' = "End"
    /\ UNCHANGED <<status, validator_addrs, net, era, delegation, query_vars,
                   history_vars>>

\* The list of the payload replaces whatever the list is by now.
sudo_update_validator_callback ==
    /\ Answered("UpdateValidator", "ok")
    /\ validator_addrs' = Head(pool_txs).message
    /\ validator_update_status' = "WaitQueryUpdate"
    /\ UNCHANGED <<status, net, era, delegation, query_vars, history_vars>>

\* The list keeps the new validator, which holds nothing and is not queried.
sudo_update_validator_failed_callback ==
    /\ Answered("UpdateValidator", "error")
    /\ validator_update_status' = "End"
    /\ replacement_failed' = TRUE
    /\ UNCHANGED <<status, validator_addrs, net, era, delegation, query_vars,
                   outdated_read>>

sudo_era_bond_callback ==
    /\ Answered("EraBond", "ok")
    /\ status' = "BondEnded"
    /\ icq' = Aged
    /\ UNCHANGED <<validator_addrs, validator_update_status, net, era,
                   delegation, keys, history_vars>>

sudo_era_bond_failed_callback ==
    /\ Answered("EraBond", "error")
    /\ status' = "EraUpdateEnded"
    /\ UNCHANGED <<validator_addrs, validator_update_status, net, era,
                   delegation, query_vars, history_vars>>

\* Without a payload sudo_response and sudo_error return an error.
sudo_without_payload ==
    /\ \E ack \in {"ok", "error"} : Answered("PoolDelegate", ack)
    /\ UNCHANGED <<pool_vars, delegation, query_vars, history_vars>>

-----------------------------------------------------------------------------
(***************************************************************************)
(* The host chain and the relayers (external).                             *)
(***************************************************************************)
NextToHandle(i) ==
    /\ pool_txs[i].ack = "none"
    /\ \A j \in 1..(i - 1) : pool_txs[j].ack # "none"

host_executes(i) ==
    LET tx == pool_txs[i]
    IN  /\ NextToHandle(i)
        /\ \A v \in Validators : tx.take[v] <= delegation[v]
        /\ Total(delegation) - Total(tx.take) + Total(tx.give) <= MaxTotal
        /\ pool_txs' = [pool_txs EXCEPT ![i].ack = "ok"]
        /\ delegation' = [v \in Validators |->
                             delegation[v] - tx.take[v] + tx.give[v]]
        /\ UNCHANGED <<pool_vars, query_vars, history_vars>>

host_refuses(i) ==
    /\ NextToHandle(i)
    /\ pool_txs' = [pool_txs EXCEPT ![i].ack = "error"]
    /\ UNCHANGED <<pool_vars, delegation, query_vars, history_vars>>

relayer_submits_delegations ==
    /\ icq' = [state |-> "fresh", amounts |-> Visible]
    /\ UNCHANGED <<pool_vars, pool_txs, delegation, keys, history_vars>>

-----------------------------------------------------------------------------
Init ==
    /\ status = "ActiveEnded"
    /\ validator_addrs = InitialValidators
    /\ validator_update_status = "End"
    /\ net = 0
    /\ era = 0
    /\ pool_txs = <<>>
    /\ delegation = NoAmounts
    /\ keys = ToSet(InitialValidators)
    /\ icq = [state |-> "none", amounts |-> NoAmounts]
    /\ replacement_failed = FALSE
    /\ outdated_read = FALSE

AdminStep ==
    \/ \E v \in Validators : execute_add_pool_validators(v)
    \/ execute_update_validators_icq
    \/ /\ Len(pool_txs) < MaxTxs
       /\ \/ \E v \in Validators : execute_rm_pool_validator(v)
          \/ \E old, new \in Validators : execute_pool_update_validator(old, new)
          \/ execute_pool_delegate(1)

EraStep ==
    \/ \E n \in Nets : execute_era_update(n)
    \/ Len(pool_txs) < MaxTxs /\ execute_era_bond
    \/ execute_era_active

Callback ==
    \/ sudo_rm_validator_callback
    \/ sudo_rm_validator_failed_callback
    \/ sudo_update_validator_callback
    \/ sudo_update_validator_failed_callback
    \/ sudo_era_bond_callback
    \/ sudo_era_bond_failed_callback
    \/ sudo_without_payload

HostStep ==
    \/ \E i \in DOMAIN pool_txs : host_executes(i)
    \/ \E i \in DOMAIN pool_txs : host_refuses(i)
    \/ relayer_submits_delegations

Next == AdminStep \/ EraStep \/ Callback \/ HostStep

Spec == Init /\ [][Next]_vars

\* Outcomes are decided and delivered, and the admin finishes a change with
\* UpdateValidatorsIcq.
Fairness ==
    /\ WF_vars(Callback)
    /\ WF_vars(\E i \in DOMAIN pool_txs : host_executes(i) \/ host_refuses(i))
    /\ WF_vars(execute_update_validators_icq)

FairSpec == Spec /\ Fairness

-----------------------------------------------------------------------------
(***************************************************************************)
(* Properties.                                                             *)
(***************************************************************************)
\* The list always has between one and VALIDATER_LEN_LIMIT validators, none of
\* them twice, through every removal, replacement and late callback.
TypeOK ==
    /\ status \in {"ActiveEnded", "EraUpdateEnded", "BondStarted", "BondEnded"}
    /\ validator_addrs \in Seq(Validators)
    /\ Len(validator_addrs) \in 1..VALIDATER_LEN_LIMIT
    /\ Cardinality(ToSet(validator_addrs)) = Len(validator_addrs)
    /\ validator_update_status \in {"End", "Start", "WaitQueryUpdate"}
    /\ net \in Int /\ era \in Nat
    /\ pool_txs \in Seq(Tx)
    /\ delegation \in Amounts
    /\ keys \subseteq Validators
    /\ icq \in [state : {"none", "stale", "fresh"}, amounts : Amounts]
    /\ replacement_failed \in BOOLEAN /\ outdated_read \in BOOLEAN

Redelegations ==
    {i \in DOMAIN pool_txs : pool_txs[i].tx_type \in {"RmValidator", "UpdateValidator"}}

\* A redelegation is in flight exactly while validator_update_status is Start, and
\* there is one: two would overwrite each other's list when they come back.
OneRedelegation ==
    Cardinality(Redelegations) = IF validator_update_status = "Start" THEN 1 ELSE 0

\* From EraUpdate to EraActive neither the list nor the keys of the query change,
\* so that the delegations EraBond made are the ones EraActive reads.
EraSetStable ==
    [][status # "ActiveEnded" => UNCHANGED <<validator_addrs, keys>>]_vars

\* With no change pending the query asks for exactly the validators of the list,
\* which is what EraUpdate and StakeLsm rely on when they ask for End; a failed
\* replacement is the one thing that breaks it, by keeping the changed list.
QueryFollowsList ==
    validator_update_status = "End" /\ ~replacement_failed =>
        keys = ToSet(validator_addrs)

\* Nothing delegated is out of sight when no change is pending, as long as every
\* change was made on an up-to-date result and no replacement failed: EraActive
\* would book what it does not see as lost.
NothingStranded ==
    validator_update_status = "End" /\ ~replacement_failed /\ ~outdated_read =>
        \A v \in Validators : delegation[v] > 0 => v \in keys

\* A change of the set comes to its end, which every era waits for.
ChangeSettles == validator_update_status # "End" ~> validator_update_status = "End"
=============================================================================
