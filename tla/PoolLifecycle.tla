---------------------------- MODULE PoolLifecycle ----------------------------
(***************************************************************************)
(* How pools come into being.  RegisterPool opens two interchain accounts; *)
(* when both have answered, the pool exists.  InitPool or MigratePool then *)
(* registers four interchain queries and has the host pay the pool's       *)
(* rewards to the withdraw account; the outcome comes back later, and a    *)
(* failure is retried.  A transaction that times out closes its ordered    *)
(* channel, which OpenChannel opens again, also under a running pool.      *)
(* Every era makes the pool's four queries fast when it begins and slow    *)
(* again when it ends.                                                     *)
(*                                                                         *)
(* Abstractions: what is between EraUpdate and EraActive is one status,    *)
(* EraRunning; the address the host gives an account is its port, which is *)
(* the same whenever the channel is opened again; of the amounts a pool    *)
(* starts with it is kept whether they back the LSD supply; the calls are  *)
(* the admin's and pay their fees, the ica ids satisfy the rules for their *)
(* spelling, and Instantiate2 of the LSD token succeeds, once per pool; no *)
(* change of the validators is pending when a period is set.               *)
(***************************************************************************)
EXTENDS Integers, SequencesExt

CONSTANTS
    IcaIds,                         \* interchain account ids
    QUERY_REPLY_ID_RANGE_START, QUERY_REPLY_ID_RANGE_END,
    CAL_BASE,
    MigrateParams,                  \* [active, total_lsd_token_amount, rate]
    MaxChannels,                    \* bound: channels ever opened
    MaxTxs                          \* bound: SetWithdrawAddr in flight per pool

Amounts == [active : Nat, total_lsd_token_amount : Nat, rate : Nat]

ASSUME LifecycleAssumption ==
    /\ QUERY_REPLY_ID_RANGE_START \in Nat
    /\ QUERY_REPLY_ID_RANGE_END \in Nat
    /\ QUERY_REPLY_ID_RANGE_START < QUERY_REPLY_ID_RANGE_END
    /\ IsFiniteSet(IcaIds)
    /\ CAL_BASE \in Nat \ {0}
    /\ MigrateParams \subseteq Amounts
    /\ MaxChannels \in Nat /\ MaxTxs \in Nat

\* Ids are given out round the range and kept for good, so the queries of all
\* pools must fit it; the code's range has a million and one.
ASSUME RangeAssumption ==
    4 * Cardinality(IcaIds)
        <= QUERY_REPLY_ID_RANGE_END - QUERY_REPLY_ID_RANGE_START + 1

VARIABLES
    \* INFO_OF_ICA_ID and POOLS
    info_of_ica_id, status, backed,
    \* the maps of the query ids
    next_query_reply_id, address_to_reply_id, reply_id_to_query_id,
    reply_id_to_need_update, query_id_to_reply_id,
    \* Neutron: channels of the two ports of an id, how many were ever opened,
    \* the registered queries, the SetWithdrawAddr transactions in flight
    channels, opened, queries, txs,
    \* the host: where the rewards of an account go
    withdraw_address,
    \* history: InitPool was repeated with an outcome outstanding; the last period
    \* set was not the default one, and the validators query had no result then
    overlapped, early_period

pool_vars == <<info_of_ica_id, status, backed>>
id_vars == <<next_query_reply_id, address_to_reply_id, reply_id_to_query_id,
             reply_id_to_need_update, query_id_to_reply_id>>
chain_vars == <<channels, opened, withdraw_address>>
history_vars == <<overlapped, early_period>>
vars == <<pool_vars, id_vars, chain_vars, queries, txs, history_vars>>

Ports == IcaIds \X {"pool", "withdraw"}
NoAddr == <<>>
IcaInfo == [ica_addr : Ports \cup {NoAddr}, ctrl_channel_id : Nat]
NoInfo == [ica_addr |-> NoAddr, ctrl_channel_id |-> 0]

PoolAddr(id) == info_of_ica_id[id]["pool"].ica_addr
WithdrawAddr(id) == info_of_ica_id[id]["withdraw"].ica_addr

Channel == [id : Nat, state : {"none", "opening", "open", "closed"}]
QueryKind == {"balances", "delegations", "validators"}
Query == [key : Ports \X QueryKind, period : {"first", "default", "fast", "custom"}]
Tx == [channel : Nat, withdraw_address : Ports, ack : {"none", "ok", "error"}]

\* map with these entries saved in it, new keys and old ones.
Saved(map, entries) ==
    [k \in DOMAIN map \cup DOMAIN entries |->
        IF k \in DOMAIN entries THEN entries[k] ELSE map[k]]

\* Every closed channel can still be opened within the bound.
Reopenable(more) ==
    opened + more + Cardinality({port \in Ports : channels[port].state = "closed"})
        <= MaxChannels

Running == {"ActiveEnded", "EraRunning"}
Status == {"none", "RegisterEnded", "InitStarted", "InitFailed"} \cup Running

-----------------------------------------------------------------------------
(***************************************************************************)
(* Accounts and channels.                                                  *)
(***************************************************************************)
execute_register_pool(id) ==
    /\ id \notin DOMAIN info_of_ica_id
    /\ Reopenable(2)
    /\ info_of_ica_id' =
           Saved(info_of_ica_id, [i \in {id} |-> [kind \in {"pool", "withdraw"} |-> NoInfo]])
    /\ channels' = [channels EXCEPT
           ![<<id, "pool">>] = [id |-> opened + 1, state |-> "opening"],
           ![<<id, "withdraw">>] = [id |-> opened + 2, state |-> "opening"]]
    /\ opened' = opened + 2
    /\ UNCHANGED <<status, backed, id_vars, withdraw_address, queries, txs,
                   history_vars>>

\* What the answer of the host to a port leaves of the account's info.
Answer(port) ==
    [info_of_ica_id EXCEPT ![port[1]][port[2]] =
        [ica_addr |-> port, ctrl_channel_id |-> channels[port].id]]

BothKnown(info, id) == \A kind \in {"pool", "withdraw"} : info[id][kind].ica_addr # NoAddr

\* Seeded defect: an existing pool is made anew.
sudo_open_ack_resets(port) ==
    LET id == port[1]
    IN  /\ channels[port].state = "opening"
        /\ channels' = [channels EXCEPT ![port].state = "open"]
        /\ info_of_ica_id' = Answer(port)
        /\ status' = [status EXCEPT
               ![id] = IF BothKnown(Answer(port), id) THEN "RegisterEnded" ELSE @]
        /\ UNCHANGED <<backed, id_vars, opened, withdraw_address, queries, txs,
                       history_vars>>

\* The two accounts may answer in either order, and again when a channel is
\* reopened.
sudo_open_ack(port) ==
    LET id == port[1]
    IN  /\ channels[port].state = "opening"
        /\ channels' = [channels EXCEPT ![port].state = "open"]
        /\ info_of_ica_id' = Answer(port)
        /\ status' = [status EXCEPT
               ![id] = IF BothKnown(Answer(port), id) /\ @ = "none"
                       THEN "RegisterEnded" ELSE @]
        /\ UNCHANGED <<backed, id_vars, opened, withdraw_address, queries, txs,
                       history_vars>>

\* The channel named must be the last one known for one of the two accounts; the
\* interchain account module refuses while that account's channel is open.
execute_open_channel(id, closed_channel_id) ==
    /\ status[id] # "none"
    /\ opened < MaxChannels
    /\ \E kind \in {"pool", "withdraw"} :
           /\ info_of_ica_id[id][kind].ctrl_channel_id = closed_channel_id
           /\ channels[<<id, kind>>].state = "closed"
           /\ channels' = [channels EXCEPT
                  ![<<id, kind>>] = [id |-> opened + 1, state |-> "opening"]]
    /\ opened' = opened + 1
    /\ UNCHANGED <<pool_vars, id_vars, withdraw_address, queries, txs,
                   history_vars>>

-----------------------------------------------------------------------------
(***************************************************************************)
(* Query ids: (address, kind) -> reply id -> query id.                     *)
(***************************************************************************)
\* Seeded defect: the last id of the range is not used.
ReplyIdShortRange(k) ==
    QUERY_REPLY_ID_RANGE_START
        + ((next_query_reply_id - QUERY_REPLY_ID_RANGE_START + k)
              % (QUERY_REPLY_ID_RANGE_END - QUERY_REPLY_ID_RANGE_START))

\* The id get_next_query_reply_id returns after k earlier calls.
ReplyId(k) ==
    QUERY_REPLY_ID_RANGE_START
        + ((next_query_reply_id - QUERY_REPLY_ID_RANGE_START + k)
              % (QUERY_REPLY_ID_RANGE_END - QUERY_REPLY_ID_RANGE_START + 1))

\* The four queries of a pool, in the order they are registered.
QueryKeys(id) == <<<<PoolAddr(id), "balances">>, <<WithdrawAddr(id), "balances">>,
                   <<PoolAddr(id), "delegations">>, <<PoolAddr(id), "validators">>>>

get_query_id(key) == reply_id_to_query_id[address_to_reply_id[key]]

PlaceOf(key, id) == CHOOSE k \in 1..4 : QueryKeys(id)[k] = key

\* register_query_submsg and the replies, all in the transaction of InitPool.
\* Of the ways back (query_id_to_reply_id) only the validators query's is kept: the
\* first result of another query removes its own, which no handler looks at else.
register_queries(id) ==
    /\ next_query_reply_id' = ReplyId(4)
    /\ address_to_reply_id' =
           Saved(address_to_reply_id,
                 [key \in ToSet(QueryKeys(id)) |-> ReplyId(PlaceOf(key, id) - 1)])
    /\ reply_id_to_query_id' =
           Saved(reply_id_to_query_id,
                 [r \in {ReplyId(k) : k \in 0..3} |->
                     Len(queries) + CHOOSE k \in 1..4 : ReplyId(k - 1) = r])
    /\ reply_id_to_need_update' = reply_id_to_need_update \cup {ReplyId(3)}
    /\ query_id_to_reply_id' =
           Saved(query_id_to_reply_id, [q \in {Len(queries) + 4} |-> ReplyId(3)])
    /\ queries' = queries \o
           [k \in 1..4 |-> [key |-> QueryKeys(id)[k],
                            period |-> IF k = 4 THEN "first" ELSE "default"]]

\* Seeded defect: the period is left as it is.
sudo_kv_query_result_only_clears(query_id) ==
    /\ query_id \in DOMAIN query_id_to_reply_id
    /\ query_id_to_reply_id' =
           [q \in DOMAIN query_id_to_reply_id \ {query_id} |-> query_id_to_reply_id[q]]
    /\ reply_id_to_need_update' =
           reply_id_to_need_update \ {query_id_to_reply_id[query_id]}
    /\ UNCHANGED <<pool_vars, next_query_reply_id, address_to_reply_id,
                   reply_id_to_query_id, chain_vars, queries, txs, history_vars>>

sudo_kv_query_result(query_id) ==
    LET reply_id == query_id_to_reply_id[query_id]
    IN  /\ query_id \in DOMAIN query_id_to_reply_id
        /\ query_id_to_reply_id' =
               [q \in DOMAIN query_id_to_reply_id \ {query_id} |->
                   query_id_to_reply_id[q]]
        /\ reply_id_to_need_update' = reply_id_to_need_update \ {reply_id}
        /\ queries' = IF reply_id \in reply_id_to_need_update
                      THEN [queries EXCEPT ![query_id].period = "default"]
                      ELSE queries
        /\ UNCHANGED <<pool_vars, next_query_reply_id, address_to_reply_id,
                       reply_id_to_query_id, chain_vars, txs, history_vars>>

QueryIds(id) == {get_query_id(key) : key \in ToSet(QueryKeys(id))}

\* All four queries of the pool get the new period, whichever they had.
get_update_pool_icq_msgs(id, period) ==
    [q \in DOMAIN queries |-> IF q \in QueryIds(id)
                              THEN [queries[q] EXCEPT !.period = period]
                              ELSE queries[q]]

set_periods(id, period) ==
    /\ queries' = get_update_pool_icq_msgs(id, period)
    /\ early_period' = [early_period EXCEPT
           ![id] = /\ period # "default"
                   /\ \E q \in QueryIds(id) : q \in DOMAIN query_id_to_reply_id]
    /\ UNCHANGED <<info_of_ica_id, backed, id_vars, chain_vars, txs, overlapped>>

\* A period the admin sets, in ActiveEnded only.
update_icq_update_period(id) ==
    /\ status[id] = "ActiveEnded"
    /\ set_periods(id, "custom")
    /\ UNCHANGED status

\* The first step of an era, with or without something to bond.
execute_era_update(id) ==
    /\ status[id] = "ActiveEnded"
    /\ set_periods(id, "fast")
    /\ status' = [status EXCEPT ![id] = "EraRunning"]

\* The last one.
execute_era_active(id) ==
    /\ status[id] = "EraRunning"
    /\ set_periods(id, "default")
    /\ status' = [status EXCEPT ![id] = "ActiveEnded"]

-----------------------------------------------------------------------------
(***************************************************************************)
(* Initialisation.                                                         *)
(***************************************************************************)
\* The interchain transaction module refuses while the channel is not open.
set_withdraw_sub_msg(id) ==
    /\ channels[<<id, "pool">>].state = "open"
    /\ Len(txs[id]) < MaxTxs
    /\ txs' = [txs EXCEPT ![id] = Append(@,
           [channel |-> channels[<<id, "pool">>].id,
            withdraw_address |-> WithdrawAddr(id), ack |-> "none"])]

\* The LSD supply is worth no more than active.
Backs(amounts) == amounts.total_lsd_token_amount * amounts.rate
                      <= amounts.active * CAL_BASE

deal_pool(id, amounts) ==
    /\ status[id] = "RegisterEnded"
    /\ status' = [status EXCEPT ![id] = "InitStarted"]
    /\ backed' = [backed EXCEPT ![id] = Backs(amounts)]
    /\ register_queries(id)
    /\ set_withdraw_sub_msg(id)
    /\ UNCHANGED <<info_of_ica_id, chain_vars, history_vars>>

execute_init_pool(id) ==
    deal_pool(id, [active |-> 0, total_lsd_token_amount |-> 0, rate |-> CAL_BASE])

execute_migrate_pool(id, param) ==
    /\ param.rate # 0
    /\ param.rate = IF param.total_lsd_token_amount = 0 THEN CAL_BASE
                    ELSE (param.active * CAL_BASE) \div param.total_lsd_token_amount
    /\ deal_pool(id, param)

\* InitPool and MigratePool after a failure: the transaction is sent again and the
\* status stays InitFailed, so that the call can be repeated at once.
init_pool_again(id) ==
    /\ status[id] = "InitFailed"
    /\ set_withdraw_sub_msg(id)
    /\ overlapped' = [overlapped EXCEPT ![id] = @ \/ txs[id] # <<>>]
    /\ UNCHANGED <<pool_vars, id_vars, chain_vars, queries, early_period>>

\* Channels are ordered, and an outcome is delivered in the order of its channel.
FirstOnChannel(id, i) ==
    \A j \in 1..(i - 1) : txs[id][j].channel # txs[id][i].channel

Answered(id, i, ack) ==
    /\ txs[id][i].ack = ack
    /\ FirstOnChannel(id, i)
    /\ txs' = [txs EXCEPT ![id] = RemoveAt(@, i)]

\* Seeded defect: success is booked like a failure.
sudo_set_withdraw_addr_callback_fails(id, i) ==
    /\ Answered(id, i, "ok")
    /\ status' = [status EXCEPT ![id] = "InitFailed"]
    /\ UNCHANGED <<info_of_ica_id, backed, id_vars, chain_vars, queries,
                   history_vars>>

sudo_set_withdraw_addr_callback(id, i) ==
    /\ Answered(id, i, "ok")
    /\ status' = [status EXCEPT ![id] = "ActiveEnded"]
    /\ UNCHANGED <<info_of_ica_id, backed, id_vars, chain_vars, queries,
                   history_vars>>

sudo_set_withdraw_addr_failed_callback(id) ==
    /\ status' = [status EXCEPT ![id] = "InitFailed"]
    /\ UNCHANGED <<info_of_ica_id, backed, id_vars, queries, history_vars>>

sudo_error(id, i) ==
    /\ Answered(id, i, "error")
    /\ sudo_set_withdraw_addr_failed_callback(id)
    /\ UNCHANGED chain_vars

\* A timeout closes the channel it happens on.
sudo_timeout(id, i) ==
    /\ Answered(id, i, "none")
    /\ sudo_set_withdraw_addr_failed_callback(id)
    /\ \/ /\ channels[<<id, "pool">>] = [id |-> txs[id][i].channel, state |-> "open"]
          /\ Reopenable(1)
          /\ channels' = [channels EXCEPT ![<<id, "pool">>].state = "closed"]
       \/ /\ channels[<<id, "pool">>] # [id |-> txs[id][i].channel, state |-> "open"]
          /\ UNCHANGED channels
    /\ UNCHANGED <<opened, withdraw_address>>

-----------------------------------------------------------------------------
(***************************************************************************)
(* The host chain and the transactions of the eras (external).             *)
(***************************************************************************)
NextToHandle(id, i) ==
    /\ txs[id][i].ack = "none"
    /\ channels[<<id, "pool">>] = [id |-> txs[id][i].channel, state |-> "open"]
    /\ \A j \in 1..(i - 1) :
           txs[id][j].channel = txs[id][i].channel => txs[id][j].ack # "none"

host_executes(id, i) ==
    /\ NextToHandle(id, i)
    /\ txs' = [txs EXCEPT ![id][i].ack = "ok"]
    /\ withdraw_address' = [withdraw_address EXCEPT
                               ![id] = txs[id][i].withdraw_address]
    /\ UNCHANGED <<pool_vars, id_vars, channels, opened, queries, history_vars>>

host_refuses(id, i) ==
    /\ NextToHandle(id, i)
    /\ txs' = [txs EXCEPT ![id][i].ack = "error"]
    /\ UNCHANGED <<pool_vars, id_vars, chain_vars, queries, history_vars>>

\* A transaction of an era, or a user's withdrawal, times out on a channel with
\* no SetWithdrawAddr in flight.
other_tx_times_out(id, kind) ==
    /\ status[id] \in Running
    /\ Reopenable(1)
    /\ channels[<<id, kind>>].state = "open"
    /\ \A i \in DOMAIN txs[id] :
           kind = "withdraw" \/ txs[id][i].channel # channels[<<id, kind>>].id
    /\ channels' = [channels EXCEPT ![<<id, kind>>].state = "closed"]
    /\ UNCHANGED <<pool_vars, id_vars, opened, withdraw_address, queries, txs,
                   history_vars>>

-----------------------------------------------------------------------------
Init ==
    /\ info_of_ica_id = <<>>
    /\ status = [id \in IcaIds |-> "none"]
    /\ backed = [id \in IcaIds |-> TRUE]
    /\ next_query_reply_id = QUERY_REPLY_ID_RANGE_START
    /\ address_to_reply_id = <<>>
    /\ reply_id_to_query_id = <<>>
    /\ reply_id_to_need_update = {}
    /\ query_id_to_reply_id = <<>>
    /\ channels = [port \in Ports |-> [id |-> 0, state |-> "none"]]
    /\ opened = 0
    /\ queries = <<>>
    /\ txs = [id \in IcaIds |-> <<>>]
    /\ withdraw_address = [id \in IcaIds |-> <<id, "pool">>]
    /\ overlapped = [id \in IcaIds |-> FALSE]
    /\ early_period = [id \in IcaIds |-> FALSE]

EraStep(id) == execute_era_update(id) \/ execute_era_active(id)

AdminStep(id) ==
    \/ execute_register_pool(id)
    \/ \E n \in 1..opened : execute_open_channel(id, n)
    \/ execute_init_pool(id)
    \/ \E param \in MigrateParams : execute_migrate_pool(id, param)
    \/ init_pool_again(id)
    \/ update_icq_update_period(id)

Callback(id) ==
    \/ \E i \in DOMAIN txs[id] : sudo_set_withdraw_addr_callback(id, i)
    \/ \E i \in DOMAIN txs[id] : sudo_error(id, i)
    \/ \E i \in DOMAIN txs[id] : sudo_timeout(id, i)

HostStep(id) ==
    \/ \E i \in DOMAIN txs[id] : host_executes(id, i)
    \/ \E i \in DOMAIN txs[id] : host_refuses(id, i)
    \/ \E kind \in {"pool", "withdraw"} : other_tx_times_out(id, kind)

Next ==
    \/ \E id \in IcaIds : AdminStep(id) \/ EraStep(id) \/ Callback(id) \/ HostStep(id)
    \/ \E port \in Ports : sudo_open_ack(port)
    \/ \E q \in DOMAIN queries : sudo_kv_query_result(q)

Spec == Init /\ [][Next]_vars

\* Channels open and outcomes come back, the admin reopens a closed channel and
\* retries a failed initialisation whose outcome is known, and a transaction that
\* is sent again and again is executed once.
Fairness ==
    /\ \A port \in Ports : WF_vars(sudo_open_ack(port))
    /\ \A id \in IcaIds :
           /\ WF_vars(\E n \in 1..opened : execute_open_channel(id, n))
           /\ WF_vars(txs[id] = <<>> /\ init_pool_again(id))
           /\ WF_vars(Callback(id))
           /\ WF_vars(\E i \in DOMAIN txs[id] : host_executes(id, i) \/ host_refuses(id, i))
           /\ SF_vars(\E i \in DOMAIN txs[id] : host_executes(id, i))

FairSpec == Spec /\ Fairness

-----------------------------------------------------------------------------
(***************************************************************************)
(* Properties.                                                             *)
(***************************************************************************)
\* Every map keeps its keys and values in range, and a pool is in POOLS exactly
\* when both of its accounts have answered.
TypeOK ==
    /\ DOMAIN info_of_ica_id \subseteq IcaIds
    /\ \A id \in DOMAIN info_of_ica_id :
           info_of_ica_id[id] \in [{"pool", "withdraw"} -> IcaInfo]
    /\ status \in [IcaIds -> Status]
    /\ \A id \in IcaIds : status[id] # "none" <=>
           id \in DOMAIN info_of_ica_id /\ BothKnown(info_of_ica_id, id)
    /\ backed \in [IcaIds -> BOOLEAN]
    /\ next_query_reply_id \in
           QUERY_REPLY_ID_RANGE_START..QUERY_REPLY_ID_RANGE_END
    /\ DOMAIN address_to_reply_id \subseteq Ports \X QueryKind
    /\ \A r \in DOMAIN reply_id_to_query_id : reply_id_to_query_id[r] \in DOMAIN queries
    /\ reply_id_to_need_update \subseteq DOMAIN reply_id_to_query_id
    /\ DOMAIN query_id_to_reply_id \subseteq DOMAIN queries
    /\ channels \in [Ports -> Channel]
    /\ opened \in 0..MaxChannels
    /\ queries \in Seq(Query)
    /\ txs \in [IcaIds -> Seq(Tx)]
    /\ withdraw_address \in [IcaIds -> Ports]
    /\ overlapped \in [IcaIds -> BOOLEAN] /\ early_period \in [IcaIds -> BOOLEAN]

\* A pool that takes stakes is complete, whatever failed and was retried on the
\* way: the host pays its rewards to its own withdraw account, each of its four
\* queries is found under its address and kind, and its LSD supply is backed (what
\* the era cycle starts from, also after a migration).
PoolReady ==
    \A id \in IcaIds : status[id] \in Running =>
        /\ withdraw_address[id] = WithdrawAddr(id)
        /\ \A key \in ToSet(QueryKeys(id)) : queries[get_query_id(key)].key = key
        /\ backed[id]

\* While an era is in progress the three queries it waits for are fast, and the four
\* queries of a pool have one period as soon as the validators query, registered with
\* a short one, has had its first result; only what EraUpdate or the admin set before
\* that result is undone by it, for that query alone and until a period is set again.
PeriodsAgree ==
    \A id \in IcaIds : status[id] \in Running =>
        /\ status[id] = "EraRunning" =>
               \A q \in QueryIds(id) :
                   queries[q].key[2] # "validators" => queries[q].period = "fast"
        /\ ~early_period[id] /\ QueryIds(id) \cap DOMAIN query_id_to_reply_id = {} =>
               \A p, q \in QueryIds(id) : queries[p].period = queries[q].period

Rank(s) == CASE s = "none" -> 0
             [] s = "RegisterEnded" -> 1
             [] s \in {"InitStarted", "InitFailed"} -> 2
             [] s \in Running -> 3

\* A pool never falls back: a channel that is reopened does not make it anew, and no
\* late outcome of its initialisation reaches it once it runs, unless InitPool was
\* repeated with an outcome outstanding.
NeverBackToInit ==
    [][\A id \in IcaIds : ~overlapped[id] => Rank(status'[id]) >= Rank(status[id])]_vars

\* A started initialisation succeeds in the end, through refusals, timeouts and
\* the channels these close.
InitCompletes ==
    \A id \in IcaIds :
        status[id] \in {"InitStarted", "InitFailed"} ~> status[id] = "ActiveEnded"
=============================================================================
