------------------------- MODULE ValidatorSetProofs -------------------------
(***************************************************************************)
(* Proofs about ValidatorSet for any validators, eras and bounds.          *)
(***************************************************************************)
EXTENDS ValidatorSet, DataProofs

\* The part of the type invariant that needs no argument about the list.
RecordsOK ==
    /\ status \in {"ActiveEnded", "EraUpdateEnded", "BondStarted", "BondEnded"}
    /\ validator_addrs \in Seq(Validators)
    /\ validator_update_status \in {"End", "Start", "WaitQueryUpdate"}
    /\ net \in Int /\ era \in Nat
    /\ pool_txs \in Seq(Tx)
    /\ delegation \in Amounts
    /\ keys \subseteq Validators
    /\ icq \in [state : {"none", "stale", "fresh"}, amounts : Amounts]
    /\ replacement_failed \in BOOLEAN /\ outdated_read \in BOOLEAN

\* One redelegation while the status is Start, and otherwise none.
OneInFlight ==
    IF validator_update_status = "Start"
    THEN \E i \in DOMAIN pool_txs : Redelegations = {i}
    ELSE Redelegations = {}

\* An era and a change of the set exclude each other.
EraWaits == status # "ActiveEnded" => validator_update_status = "End"

RemovalInFlight == \E i \in DOMAIN pool_txs : pool_txs[i].tx_type = "RmValidator"

\* The keys follow the list while nothing is pending, and also while a removal is
\* in flight, whose failure leaves both as they are.
KeysFollow ==
    /\ ~replacement_failed
    /\ validator_update_status = "End" \/ RemovalInFlight
    => keys = ToSet(validator_addrs)

\* One EraBond at most is in flight, and its era waits for it.
BondAlone ==
    \A i \in DOMAIN pool_txs :
        pool_txs[i].tx_type = "EraBond" =>
            /\ status = "BondStarted"
            /\ \A j \in DOMAIN pool_txs : pool_txs[j].tx_type = "EraBond" => j = i

SetInv == RecordsOK /\ OneInFlight /\ EraWaits /\ KeysFollow

\* A list of validators as PoolInfo may hold it.
IsList(vec) == IsInjective(vec) /\ Len(vec) \in 1..VALIDATER_LEN_LIMIT

\* What the callback of a redelegation will do leaves such a list too.
PayloadOK(tx) ==
    /\ tx.tx_type = "RmValidator" =>
           tx.message[1] \in ToSet(validator_addrs) /\ Len(validator_addrs) > 1
    /\ tx.tx_type = "UpdateValidator" => IsList(tx.message)

ListOK ==
    /\ IsList(validator_addrs)
    /\ \A i \in DOMAIN pool_txs : PayloadOK(pool_txs[i])

\* The validators an amount is positive for.
Held(amounts) == {v \in Validators : amounts[v] > 0}

\* The validators the pool will have once redelegation tx has succeeded.
LeftAfter(tx) ==
    IF tx.tx_type = "RmValidator" THEN ToSet(validator_addrs) \ {tx.message[1]}
                                  ELSE ToSet(tx.message)

\* Where the delegations are, and go, while redelegation tx is under way.
MovesAway(tx) ==
    /\ Held(tx.give) \subseteq LeftAfter(tx)
    /\ tx.ack = "none" =>
           \A v \in Validators \ LeftAfter(tx) : tx.take[v] = delegation[v]
    /\ tx.ack = "ok" => Held(delegation) \subseteq LeftAfter(tx)
    /\ tx.tx_type = "RmValidator" /\ tx.ack # "ok" =>
           Held(delegation) \subseteq ToSet(validator_addrs)

\* Every change was made on an up-to-date result and no replacement failed.
Clean == ~replacement_failed /\ ~outdated_read

DelegatedListed == Held(delegation) \subseteq ToSet(validator_addrs)

GivenListed ==
    \A i \in DOMAIN pool_txs : Held(pool_txs[i].give) \subseteq ToSet(validator_addrs)

\* Then all that is delegated, and all that is being delegated, is on the list; a
\* redelegation is alone in the channel.
AllListed ==
    Clean =>
        /\ validator_update_status = "End" => DelegatedListed /\ GivenListed
        /\ validator_update_status = "Start" =>
               Len(pool_txs) = 1 /\ MovesAway(pool_txs[1])
        /\ validator_update_status = "WaitQueryUpdate" =>
               DelegatedListed /\ pool_txs = <<>>

IInv == SetInv /\ BondAlone /\ ListOK /\ AllListed

-----------------------------------------------------------------------------
(***************************************************************************)
(* The channel.                                                            *)
(***************************************************************************)
TxTypes == {"RmValidator", "UpdateValidator", "EraBond", "PoolDelegate"}

\* A transaction sent is the last in the channel.
LEMMA SentTx ==
    ASSUME pool_txs \in Seq(Tx), NEW type \in TxTypes, NEW take \in Amounts,
           NEW give \in Amounts, NEW message \in Seq(Validators),
           Send(type, take, give, message)
    PROVE  /\ pool_txs' \in Seq(Tx)
           /\ Len(pool_txs) \in Nat /\ Len(pool_txs') = Len(pool_txs) + 1
           /\ DOMAIN pool_txs' = DOMAIN pool_txs \cup {Len(pool_txs) + 1}
           /\ \A i \in DOMAIN pool_txs : pool_txs'[i] = pool_txs[i]
           /\ pool_txs'[Len(pool_txs) + 1] =
                  [tx_type |-> type, take |-> take, give |-> give,
                   message |-> message, ack |-> "none"]
<1> DEFINE tx == [tx_type |-> type, take |-> take, give |-> give,
                  message |-> message, ack |-> "none"]
<1>1. tx \in Tx
  BY DEF Tx, TxTypes
<1>2. pool_txs' = Append(pool_txs, tx)
  BY DEF Send
<1> HIDE DEF tx
<1>3. /\ pool_txs' \in Seq(Tx)
      /\ Len(pool_txs) \in Nat /\ Len(pool_txs') = Len(pool_txs) + 1
      /\ DOMAIN pool_txs' = DOMAIN pool_txs \cup {Len(pool_txs) + 1}
      /\ \A i \in DOMAIN pool_txs : pool_txs'[i] = pool_txs[i]
      /\ pool_txs'[Len(pool_txs) + 1] = tx
  BY <1>1, <1>2
<1> QED BY <1>3 DEF tx

\* The transaction answered was the first in the channel.
LEMMA AnsweredTx ==
    ASSUME pool_txs \in Seq(Tx), NEW type, NEW ack, Answered(type, ack)
    PROVE  /\ pool_txs' \in Seq(Tx)
           /\ Len(pool_txs) \in Nat /\ Len(pool_txs') = Len(pool_txs) - 1
           /\ 1 \in DOMAIN pool_txs /\ Head(pool_txs) = pool_txs[1]
           /\ pool_txs[1] \in Tx
           /\ pool_txs[1].tx_type = type /\ pool_txs[1].ack = ack
           /\ \A i \in DOMAIN pool_txs' : /\ i + 1 \in DOMAIN pool_txs /\ i + 1 # 1
                                          /\ pool_txs'[i] = pool_txs[i + 1]
           /\ \A i \in DOMAIN pool_txs : i # 1 => i - 1 \in DOMAIN pool_txs'
<1>1. pool_txs # <<>> /\ pool_txs' = Tail(pool_txs)
  BY DEF Answered
<1>2. /\ pool_txs' \in Seq(Tx) /\ Len(pool_txs) \in Nat
      /\ Len(pool_txs') = Len(pool_txs) - 1
      /\ 1 \in DOMAIN pool_txs /\ Head(pool_txs) = pool_txs[1]
      /\ pool_txs[1] \in Tx
      /\ DOMAIN pool_txs = 1..Len(pool_txs)
      /\ DOMAIN pool_txs' = 1..(Len(pool_txs) - 1)
      /\ \A i \in DOMAIN pool_txs' : pool_txs'[i] = pool_txs[i + 1]
  BY <1>1
<1> QED BY <1>2 DEF Answered

\* The host's decision leaves a transaction what it is.
LEMMA DecidedTx ==
    ASSUME pool_txs \in Seq(Tx), NEW i \in DOMAIN pool_txs, NEW ack \in {"ok", "error"},
           pool_txs' = [pool_txs EXCEPT ![i].ack = ack]
    PROVE  /\ pool_txs' \in Seq(Tx)
           /\ DOMAIN pool_txs' = DOMAIN pool_txs /\ Len(pool_txs') = Len(pool_txs)
           /\ \A j \in DOMAIN pool_txs :
                  /\ pool_txs[j] \in Tx
                  /\ pool_txs'[j].tx_type = pool_txs[j].tx_type
                  /\ pool_txs'[j].take = pool_txs[j].take
                  /\ pool_txs'[j].give = pool_txs[j].give
                  /\ pool_txs'[j].message = pool_txs[j].message
           /\ pool_txs'[i].ack = ack
<1> DEFINE tx == [pool_txs[i] EXCEPT !.ack = ack]
<1>1. pool_txs[i] \in Tx
  OBVIOUS
<1>2. /\ tx \in Tx /\ tx.ack = ack
      /\ tx.tx_type = pool_txs[i].tx_type /\ tx.take = pool_txs[i].take
      /\ tx.give = pool_txs[i].give /\ tx.message = pool_txs[i].message
  BY <1>1 DEF Tx
<1>3. pool_txs' = [pool_txs EXCEPT ![i] = tx]
  OBVIOUS
<1> HIDE DEF tx
<1>4. /\ DOMAIN pool_txs' = DOMAIN pool_txs
      /\ pool_txs'[i] = tx
      /\ \A j \in DOMAIN pool_txs : j # i => pool_txs'[j] = pool_txs[j]
  BY <1>3
<1>5. pool_txs' \in Seq(Tx) /\ Len(pool_txs') = Len(pool_txs)
  BY <1>2, <1>3
<1>6. \A j \in DOMAIN pool_txs : pool_txs[j] \in Tx
  OBVIOUS
<1> QED BY <1>2, <1>4, <1>5, <1>6

-----------------------------------------------------------------------------
(***************************************************************************)
(* Amounts.                                                                *)
(***************************************************************************)
\* An amount for one validator.
LEMMA OnlyTyped ==
    ASSUME NEW v, NEW amount \in Nat
    PROVE  /\ Only(v, amount) \in Amounts
           /\ \A u \in Validators : Only(v, amount)[u] = IF u = v THEN amount ELSE 0
           /\ Held(Only(v, amount)) \subseteq {v}
           /\ NoAmounts \in Amounts /\ Held(NoAmounts) = {}
<1>1. /\ Only(v, amount) \in Amounts
      /\ \A u \in Validators : Only(v, amount)[u] = IF u = v THEN amount ELSE 0
      /\ NoAmounts \in Amounts /\ \A u \in Validators : NoAmounts[u] = 0
  BY DEF Only, NoAmounts, Amounts
<1> QED BY <1>1 DEF Held

\* An amount split among the validators of a list.
LEMMA SplitTyped ==
    ASSUME NEW list \in Seq(Validators), list # <<>>, NEW amount \in Nat
    PROVE  /\ Split(list, amount) \in Amounts
           /\ Held(Split(list, amount)) \subseteq ToSet(list)
<1> DEFINE part == amount \div Len(list)
           rest == amount - part * Len(list)
<1>1. Len(list) \in Nat \ {0}
  OBVIOUS
<1>2. part \in Nat
  BY <1>1, DivNat
<1>3. part * Len(list) <= amount /\ part * Len(list) \in Nat
  BY <1>1, <1>2, DivLower, MulNat
<1>4. rest \in Nat
  BY <1>3
<1>5. Head(list) \in ToSet(list)
  BY <1>1 DEF ToSet
<1>6. Split(list, amount) =
          [v \in Validators |-> (IF v \in ToSet(list) THEN part ELSE 0)
                                + (IF v = Head(list) THEN rest ELSE 0)]
  BY DEF Split
<1> HIDE DEF part, rest
<1>7. Split(list, amount) \in Amounts
  BY <1>2, <1>4, <1>6 DEF Amounts
<1>8. \A v \in Validators : v \notin ToSet(list) => Split(list, amount)[v] = 0
  BY <1>5, <1>6
<1> QED BY <1>7, <1>8 DEF Held

-----------------------------------------------------------------------------
(***************************************************************************)
(* One redelegation at a time, and the keys of the query.                  *)
(***************************************************************************)
Changing == {"RmValidator", "UpdateValidator"}

\* Sending a redelegation starts a change; sending anything else does not.
LEMMA InFlightSent ==
    ASSUME pool_txs \in Seq(Tx), OneInFlight,
           NEW type \in TxTypes, NEW take \in Amounts, NEW give \in Amounts,
           NEW message \in Seq(Validators), Send(type, take, give, message),
           IF type \in Changing
           THEN validator_update_status # "Start" /\ validator_update_status' = "Start"
           ELSE UNCHANGED validator_update_status
    PROVE  OneInFlight' /\ (RemovalInFlight' => RemovalInFlight \/ type = "RmValidator")
<1> DEFINE n == Len(pool_txs) + 1
<1>1. /\ Len(pool_txs) \in Nat
      /\ DOMAIN pool_txs' = DOMAIN pool_txs \cup {n}
      /\ \A i \in DOMAIN pool_txs : pool_txs'[i] = pool_txs[i]
      /\ pool_txs'[n].tx_type = type
      /\ n \notin DOMAIN pool_txs
  <2>1. DOMAIN pool_txs = 1..Len(pool_txs) /\ Len(pool_txs) \in Nat
    OBVIOUS
  <2>2. n \notin DOMAIN pool_txs
    BY <2>1
  <2>3. /\ DOMAIN pool_txs' = DOMAIN pool_txs \cup {n}
        /\ \A i \in DOMAIN pool_txs : pool_txs'[i] = pool_txs[i]
        /\ pool_txs'[n] = [tx_type |-> type, take |-> take, give |-> give,
                            message |-> message, ack |-> "none"]
    BY SentTx
  <2> HIDE DEF n
  <2> QED BY <2>1, <2>2, <2>3
<1> HIDE DEF n
<1>2. CASE type \in Changing
  <2>1. Redelegations = {}
    BY <1>2 DEF OneInFlight
  <2>2. Redelegations' = {n}
    BY <1>1, <1>2, <2>1 DEF Redelegations, Changing
  <2> QED BY <1>1, <1>2, <2>2 DEF OneInFlight, RemovalInFlight
<1>3. CASE type \notin Changing
  <2>1. Redelegations' = Redelegations
    BY <1>1, <1>3 DEF Redelegations, Changing
  <2> QED BY <1>1, <1>3, <2>1 DEF OneInFlight, RemovalInFlight
<1> QED BY <1>2, <1>3

\* The answer to a redelegation ends the change, and there is no other; the answer
\* to anything else does not.
LEMMA InFlightAnswered ==
    ASSUME pool_txs \in Seq(Tx), OneInFlight, NEW type, NEW ack, Answered(type, ack),
           IF type \in Changing THEN validator_update_status' # "Start"
                                ELSE UNCHANGED validator_update_status
    PROVE  /\ OneInFlight'
           /\ RemovalInFlight' => RemovalInFlight /\ type \notin Changing
           /\ type \in Changing =>
                  validator_update_status = "Start" /\ Redelegations = {1}
<1>1. /\ 1 \in DOMAIN pool_txs /\ pool_txs[1].tx_type = type
      /\ DOMAIN pool_txs \subseteq Nat /\ DOMAIN pool_txs' \subseteq Nat
      /\ \A i \in DOMAIN pool_txs' : /\ i + 1 \in DOMAIN pool_txs /\ i + 1 # 1
                                     /\ pool_txs'[i] = pool_txs[i + 1]
      /\ \A i \in DOMAIN pool_txs : i # 1 => i - 1 \in DOMAIN pool_txs'
  <2>1. pool_txs' \in Seq(Tx)
    BY AnsweredTx
  <2>2. DOMAIN pool_txs \subseteq Nat /\ DOMAIN pool_txs' \subseteq Nat
    BY <2>1
  <2> QED BY <2>2, AnsweredTx
<1>2. CASE type \in Changing
  <2>1. 1 \in Redelegations
    BY <1>1, <1>2 DEF Redelegations, Changing
  <2>2. validator_update_status = "Start" /\ Redelegations = {1}
    BY <2>1 DEF OneInFlight
  <2>3. Redelegations' = {} /\ ~RemovalInFlight'
    BY <1>1, <2>2 DEF Redelegations, RemovalInFlight
  <2> QED BY <1>2, <2>2, <2>3 DEF OneInFlight
<1>3. CASE type \notin Changing
  <2>1. \A i \in DOMAIN pool_txs' : i \in Redelegations' <=> i + 1 \in Redelegations
    BY <1>1 DEF Redelegations
  <2>2. Redelegations' \subseteq DOMAIN pool_txs' /\ 1 \notin Redelegations
    BY <1>1, <1>3 DEF Redelegations, Changing
  <2>3. ASSUME validator_update_status = "Start" PROVE OneInFlight'
    <3>1. PICK i \in DOMAIN pool_txs : Redelegations = {i}
      BY <2>3 DEF OneInFlight
    <3>2. i # 1 /\ i \in Nat /\ i - 1 \in DOMAIN pool_txs'
      BY <1>1, <2>2, <3>1
    <3>3. \A k \in Nat : k + 1 = i <=> k = i - 1
      BY <3>2
    <3>4. Redelegations' = {i - 1}
      BY <1>1, <2>1, <2>2, <3>1, <3>2, <3>3
    <3> QED BY <1>3, <2>3, <3>2, <3>4 DEF OneInFlight
  <2>4. ASSUME validator_update_status # "Start" PROVE OneInFlight'
    <3>1. Redelegations = {}
      BY <2>4 DEF OneInFlight
    <3>2. Redelegations' = {}
      BY <2>1, <2>2, <3>1
    <3> QED BY <1>3, <2>4, <3>2 DEF OneInFlight
  <2>5. RemovalInFlight' => RemovalInFlight
    BY <1>1 DEF RemovalInFlight
  <2> QED BY <1>3, <2>3, <2>4, <2>5
<1> QED BY <1>2, <1>3

\* The host's decision changes nothing of that.
LEMMA InFlightDecided ==
    ASSUME pool_txs \in Seq(Tx), OneInFlight, NEW i \in DOMAIN pool_txs,
           NEW ack \in {"ok", "error"}, pool_txs' = [pool_txs EXCEPT ![i].ack = ack],
           UNCHANGED validator_update_status
    PROVE  OneInFlight' /\ (RemovalInFlight' => RemovalInFlight)
<1>1. /\ DOMAIN pool_txs' = DOMAIN pool_txs
      /\ \A j \in DOMAIN pool_txs : pool_txs'[j].tx_type = pool_txs[j].tx_type
  BY DecidedTx
<1>2. Redelegations' = Redelegations
  BY <1>1 DEF Redelegations
<1> QED BY <1>1, <1>2 DEF OneInFlight, RemovalInFlight

\* Nor does a step without traffic that neither starts nor ends a redelegation.
LEMMA InFlightSame ==
    ASSUME OneInFlight, UNCHANGED pool_txs,
           (validator_update_status' = "Start") <=> (validator_update_status = "Start")
    PROVE  OneInFlight' /\ (RemovalInFlight' <=> RemovalInFlight)
<1>1. Redelegations' = Redelegations
  BY DEF Redelegations
<1> QED BY <1>1 DEF OneInFlight, RemovalInFlight

\* Lists and their elements, as the model and the lemmas about lists name them.
LEMMA RetainedList ==
    ASSUME NEW list \in Seq(Validators), NEW v
    PROVE  /\ Retain(list, v) \in Seq(Validators)
           /\ ToSet(Retain(list, v)) = ToSet(list) \ {v}
           /\ IsInjective(list) => IsInjective(Retain(list, v))
<1>1. \A w : ToSet(w) = Elements(w)
  BY DEF ToSet, Elements
<1> QED BY <1>1, RetainKeeps

\* The same of a list with one more validator.
LEMMA AppendedList ==
    ASSUME NEW list \in Seq(Validators), NEW v \in Validators
    PROVE  /\ Append(list, v) \in Seq(Validators)
           /\ ToSet(Append(list, v)) = ToSet(list) \cup {v}
           /\ IsInjective(list) /\ v \notin ToSet(list) => IsInjective(Append(list, v))
<1>1. \A w : ToSet(w) = Elements(w)
  BY DEF ToSet, Elements
<1> QED BY <1>1, AppendElements

\* What a list holds are validators.
LEMMA ListedTyped ==
    ASSUME NEW list \in Seq(Validators)
    PROVE  /\ ToSet(list) \subseteq Validators
           /\ list # <<>> => Head(list) \in ToSet(list)
  BY DEF ToSet

\* The admin's calls keep the invariant of the set.
LEMMA AdminKeepsSet ==
    ASSUME SetInv, AdminStep
    PROVE  SetInv'
<1>1. RecordsOK /\ OneInFlight /\ EraWaits /\ KeysFollow /\ pool_txs \in Seq(Tx)
  BY DEF SetInv, RecordsOK
<1>2. ASSUME NEW v \in Validators, execute_add_pool_validators(v) PROVE SetInv'
  <2>1. validator_addrs' \in Seq(Validators) /\ keys' = ToSet(validator_addrs')
    BY <1>1, <1>2, AppendTyped
       DEF execute_add_pool_validators, deal_validators_icq_update, RecordsOK
  <2>2. RecordsOK'
    BY <1>1, <1>2, <2>1, ListedTyped
       DEF execute_add_pool_validators, RecordsOK, history_vars
  <2>3. OneInFlight'
    BY <1>1, <1>2, InFlightSame DEF execute_add_pool_validators
  <2>4. EraWaits' /\ KeysFollow'
    BY <1>1, <1>2, <2>1 DEF execute_add_pool_validators, EraWaits, KeysFollow
  <2> QED BY <2>2, <2>3, <2>4 DEF SetInv
<1>3. ASSUME execute_update_validators_icq PROVE SetInv'
  <2>1. keys' = ToSet(validator_addrs')
    BY <1>3 DEF execute_update_validators_icq, deal_validators_icq_update
  <2>2. RecordsOK'
    BY <1>1, <1>3, <2>1, ListedTyped
       DEF execute_update_validators_icq, RecordsOK, history_vars
  <2>3. OneInFlight'
    BY <1>1, <1>3, InFlightSame DEF execute_update_validators_icq
  <2>4. EraWaits' /\ KeysFollow'
    BY <1>1, <1>3, <2>1 DEF execute_update_validators_icq, EraWaits, KeysFollow
  <2> QED BY <2>2, <2>3, <2>4 DEF SetInv
<1>4. ASSUME NEW v \in Validators, execute_rm_pool_validator(v) PROVE SetInv'
  <2> DEFINE amount == icq.amounts[v]
             left == Retain(validator_addrs, v)
  <2>1. /\ status = "ActiveEnded" /\ status' = status /\ validator_update_status = "End"
        /\ UNCHANGED <<net, era, delegation, keys, icq, replacement_failed>>
        /\ outdated_read' = (outdated_read \/ ~UpToDate)
    BY <1>4 DEF execute_rm_pool_validator, Removable, Reads, query_vars
  <2>2. amount \in Nat /\ left \in Seq(Validators) /\ outdated_read' \in BOOLEAN
    BY <1>1, <2>1, RetainedList DEF RecordsOK, Amounts
  <2>3. CASE /\ amount = 0
             /\ validator_update_status' = "WaitQueryUpdate"
             /\ validator_addrs' = left
             /\ UNCHANGED pool_txs
    <3>1. RecordsOK'
      BY <1>1, <2>1, <2>2, <2>3 DEF RecordsOK
    <3>2. OneInFlight' /\ (RemovalInFlight' => RemovalInFlight) /\ Redelegations = {}
      BY <1>1, <2>1, <2>3, InFlightSame DEF OneInFlight
    <3>3. ~RemovalInFlight
      BY <3>2 DEF RemovalInFlight, Redelegations
    <3>4. EraWaits' /\ KeysFollow'
      BY <2>1, <2>3, <3>2, <3>3 DEF EraWaits, KeysFollow
    <3> QED BY <3>1, <3>2, <3>4 DEF SetInv
  <2>4. CASE /\ amount > 0
             /\ Send("RmValidator", Only(v, amount), Only(Head(left), amount), <<v>>)
             /\ validator_update_status' = "Start"
             /\ UNCHANGED validator_addrs
    <3>1. /\ Only(v, amount) \in Amounts /\ Only(Head(left), amount) \in Amounts
          /\ <<v>> \in Seq(Validators) /\ "RmValidator" \in TxTypes
          /\ "RmValidator" \in Changing
      BY <2>2, OnlyTyped DEF TxTypes, Changing
    <3>2. Send("RmValidator", Only(v, amount), Only(Head(left), amount), <<v>>)
      BY <2>4
    <3> HIDE DEF amount, left
    <3>3. pool_txs' \in Seq(Tx)
      BY <1>1, <3>1, <3>2, SentTx
    <3>4. RecordsOK'
      BY <1>1, <2>1, <2>2, <2>4, <3>3 DEF RecordsOK
    <3>5. OneInFlight'
      BY <1>1, <2>1, <2>4, <3>1, <3>2, InFlightSent
    <3>6. EraWaits' /\ KeysFollow'
      BY <1>1, <2>1, <2>4 DEF EraWaits, KeysFollow
    <3> QED BY <3>4, <3>5, <3>6 DEF SetInv
  <2> QED BY <1>4, <2>3, <2>4 DEF execute_rm_pool_validator
<1>5. ASSUME NEW old \in Validators, NEW new \in Validators,
             execute_pool_update_validator(old, new)
      PROVE  SetInv'
  <2> DEFINE amount == icq.amounts[old]
             list == Append(Retain(validator_addrs, old), new)
  <2>1. /\ status = "ActiveEnded" /\ status' = status /\ validator_update_status = "End"
        /\ UNCHANGED <<net, era, delegation, keys, icq, replacement_failed>>
        /\ outdated_read' = (outdated_read \/ ~UpToDate)
        /\ validator_addrs' = list
    BY <1>5 DEF execute_pool_update_validator, Replaceable, Reads, query_vars
  <2>2. amount \in Nat /\ list \in Seq(Validators) /\ outdated_read' \in BOOLEAN
    BY <1>1, <2>1, RetainedList, AppendedList DEF RecordsOK, Amounts
  <2>3. Redelegations = {} /\ ~RemovalInFlight
    <3>1. Redelegations = {}
      BY <1>1, <2>1 DEF OneInFlight
    <3> QED BY <3>1 DEF Redelegations, RemovalInFlight
  <2>4. CASE /\ amount = 0
             /\ validator_update_status' = "WaitQueryUpdate"
             /\ UNCHANGED pool_txs
    <3>1. RecordsOK'
      BY <1>1, <2>1, <2>2, <2>4 DEF RecordsOK
    <3>2. OneInFlight' /\ (RemovalInFlight' => RemovalInFlight)
      BY <1>1, <2>1, <2>4, InFlightSame
    <3>3. EraWaits' /\ KeysFollow'
      BY <2>1, <2>3, <2>4, <3>2 DEF EraWaits, KeysFollow
    <3> QED BY <3>1, <3>2, <3>3 DEF SetInv
  <2>5. CASE /\ amount > 0
             /\ Send("UpdateValidator", Only(old, amount), Only(new, amount), list)
             /\ validator_update_status' = "Start"
    <3>1. /\ Only(old, amount) \in Amounts /\ Only(new, amount) \in Amounts
          /\ "UpdateValidator" \in TxTypes /\ "UpdateValidator" \in Changing
      BY <2>2, OnlyTyped DEF TxTypes, Changing
    <3>2. Send("UpdateValidator", Only(old, amount), Only(new, amount), list)
      BY <2>5
    <3> HIDE DEF amount, list
    <3>3. pool_txs' \in Seq(Tx)
      BY <1>1, <2>2, <3>1, <3>2, SentTx
    <3>4. RecordsOK'
      BY <1>1, <2>1, <2>2, <2>5, <3>3 DEF RecordsOK
    <3>5. OneInFlight' /\ (RemovalInFlight' => RemovalInFlight \/ "UpdateValidator" = "RmValidator")
      BY <1>1, <2>1, <2>2, <2>5, <3>1, <3>2, InFlightSent
    <3>6. EraWaits' /\ KeysFollow'
      BY <2>1, <2>3, <2>5, <3>5 DEF EraWaits, KeysFollow
    <3> QED BY <3>4, <3>5, <3>6 DEF SetInv
  <2> QED BY <1>5, <2>4, <2>5 DEF execute_pool_update_validator
<1>6. ASSUME execute_pool_delegate(1) PROVE SetInv'
  <2> DEFINE give == Split(validator_addrs, 1)
  <2>1. /\ "PoolDelegate" \in TxTypes /\ "PoolDelegate" \notin Changing
        /\ <<>> \in Seq(Validators)
    BY DEF TxTypes, Changing
  <2>2. NoAmounts \in Amounts /\ give \in Amounts
    BY <1>1, <1>6, OnlyTyped, SplitTyped DEF execute_pool_delegate, RecordsOK
  <2>3. /\ Send("PoolDelegate", NoAmounts, give, <<>>)
        /\ UNCHANGED <<status, validator_addrs, validator_update_status, net, era,
                       delegation, keys, icq, replacement_failed>>
        /\ outdated_read' \in BOOLEAN
    BY <1>1, <1>6 DEF execute_pool_delegate, pool_vars, query_vars, RecordsOK
  <2> HIDE DEF give
  <2>4. pool_txs' \in Seq(Tx)
    BY <1>1, <2>1, <2>2, <2>3, SentTx
  <2>5. RecordsOK'
    BY <1>1, <2>3, <2>4 DEF RecordsOK
  <2>6. OneInFlight' /\ (RemovalInFlight' => RemovalInFlight \/ "PoolDelegate" = "RmValidator")
    BY <1>1, <2>1, <2>2, <2>3, InFlightSent
  <2>7. EraWaits' /\ KeysFollow'
    BY <1>1, <2>3, <2>6 DEF EraWaits, KeysFollow
  <2> QED BY <2>5, <2>6, <2>7 DEF SetInv
<1> QED BY <1>2, <1>3, <1>4, <1>5, <1>6 DEF AdminStep

\* What EraBond submits: amounts given to validators of the list, or taken.
LEMMA BondSent ==
    ASSUME RecordsOK, execute_era_bond
    PROVE  \E take, give \in Amounts :
               /\ Send("EraBond", take, give, <<>>)
               /\ Held(give) \subseteq ToSet(validator_addrs)
<1>1. NoAmounts \in Amounts /\ Held(NoAmounts) = {}
  BY OnlyTyped
<1>2. ASSUME NEW select_vals \in SeqOf(ToSet(validator_addrs), Len(validator_addrs)),
             BondDelegates(select_vals)
      PROVE  \E take, give \in Amounts : /\ Send("EraBond", take, give, <<>>)
                                         /\ Held(give) \subseteq ToSet(validator_addrs)
  <2> DEFINE give == IF net < STAKE_SPLIT_THRESHOLD THEN Only(Head(select_vals), net)
                                                    ELSE Split(select_vals, net)
  <2>1. select_vals \in Seq(Validators)
    <3>1. Len(validator_addrs) \in Nat /\ ToSet(validator_addrs) \subseteq Validators
      BY ListedTyped DEF RecordsOK
    <3>2. PICK m \in 0..Len(validator_addrs) : select_vals \in [1..m -> ToSet(validator_addrs)]
      BY <1>2 DEF SeqOf
    <3>3. m \in Nat /\ select_vals \in [1..m -> Validators]
      BY <3>1, <3>2
    <3> QED BY <3>3
  <2>2. /\ net \in Nat /\ select_vals # <<>>
        /\ ToSet(select_vals) \subseteq ToSet(validator_addrs)
        /\ Send("EraBond", NoAmounts, give, <<>>)
    BY <1>2 DEF BondDelegates, RecordsOK
  <2>3. Head(select_vals) \in ToSet(validator_addrs)
    BY <2>1, <2>2, ListedTyped
  <2>4. CASE net < STAKE_SPLIT_THRESHOLD
    <3>1. give \in Amounts /\ Held(give) \subseteq {Head(select_vals)}
      BY <2>2, <2>4, OnlyTyped
    <3> HIDE DEF give
    <3> QED BY <1>1, <2>2, <2>3, <3>1
  <2>5. CASE ~(net < STAKE_SPLIT_THRESHOLD)
    <3>1. give \in Amounts /\ Held(give) \subseteq ToSet(select_vals)
      BY <2>1, <2>2, <2>5, SplitTyped
    <3> HIDE DEF give
    <3> QED BY <1>1, <2>2, <3>1
  <2> QED BY <2>4, <2>5
<1>3. ASSUME NEW take \in [Validators -> 0..MaxTotal], BondUndelegates(take)
      PROVE  \E t, give \in Amounts : /\ Send("EraBond", t, give, <<>>)
                                      /\ Held(give) \subseteq ToSet(validator_addrs)
  <2>1. take \in Amounts
    BY ValidatorAssumption DEF Amounts
  <2>2. Send("EraBond", take, NoAmounts, <<>>)
    BY <1>3 DEF BondUndelegates
  <2> QED BY <1>1, <2>1, <2>2
<1> QED BY <1>2, <1>3 DEF execute_era_bond

\* So do the era steps.
LEMMA EraKeepsSet ==
    ASSUME SetInv, EraStep
    PROVE  SetInv'
<1>1. RecordsOK /\ OneInFlight /\ EraWaits /\ KeysFollow /\ pool_txs \in Seq(Tx)
  BY DEF SetInv, RecordsOK
<1>2. Aged \in [state : {"none", "stale", "fresh"}, amounts : Amounts]
  BY <1>1 DEF Aged, RecordsOK
<1>3. ASSUME NEW n \in Nets, execute_era_update(n) PROVE SetInv'
  <2>1. RecordsOK'
    BY <1>1, <1>2, <1>3, ValidatorAssumption DEF execute_era_update, RecordsOK, history_vars
  <2>2. OneInFlight' /\ (RemovalInFlight' => RemovalInFlight)
    BY <1>1, <1>3, InFlightSame DEF execute_era_update
  <2>3. EraWaits' /\ KeysFollow'
    BY <1>1, <1>3, <2>2 DEF execute_era_update, EraWaits, KeysFollow, history_vars
  <2> QED BY <2>1, <2>2, <2>3 DEF SetInv
<1>4. ASSUME execute_era_bond PROVE SetInv'
  <2>1. PICK take, give \in Amounts : Send("EraBond", take, give, <<>>)
    BY <1>1, <1>4, BondSent
  <2>2. /\ "EraBond" \in TxTypes /\ "EraBond" \notin Changing /\ <<>> \in Seq(Validators)
    BY DEF TxTypes, Changing
  <2>3. /\ UNCHANGED <<validator_addrs, validator_update_status, net, era, delegation,
                       keys, icq, replacement_failed, outdated_read>>
        /\ status = "EraUpdateEnded" /\ status' = "BondStarted"
    BY <1>4 DEF execute_era_bond, query_vars, history_vars
  <2>4. pool_txs' \in Seq(Tx)
    BY <1>1, <2>1, <2>2, SentTx
  <2>5. RecordsOK'
    BY <1>1, <2>3, <2>4 DEF RecordsOK
  <2>6. OneInFlight' /\ (RemovalInFlight' => RemovalInFlight \/ "EraBond" = "RmValidator")
    BY <1>1, <2>1, <2>2, <2>3, InFlightSent
  <2>7. EraWaits' /\ KeysFollow'
    BY <1>1, <2>3, <2>6 DEF EraWaits, KeysFollow
  <2> QED BY <2>5, <2>6, <2>7 DEF SetInv
<1>5. ASSUME execute_era_active PROVE SetInv'
  <2>1. RecordsOK'
    BY <1>1, <1>5 DEF execute_era_active, RecordsOK, query_vars, history_vars
  <2>2. OneInFlight' /\ (RemovalInFlight' => RemovalInFlight)
    BY <1>1, <1>5, InFlightSame DEF execute_era_active
  <2>3. EraWaits' /\ KeysFollow'
    BY <1>1, <1>5, <2>2
       DEF execute_era_active, EraWaits, KeysFollow, query_vars, history_vars
  <2> QED BY <2>1, <2>2, <2>3 DEF SetInv
<1> QED BY <1>3, <1>4, <1>5 DEF EraStep

\* And the callbacks: the one of a removal finds the validator in its message.
LEMMA CallbackKeepsSet ==
    ASSUME SetInv, BondAlone, Callback
    PROVE  SetInv'
<1>1. RecordsOK /\ OneInFlight /\ EraWaits /\ KeysFollow /\ pool_txs \in Seq(Tx)
  BY DEF SetInv, RecordsOK
<1>2. "RmValidator" \in Changing /\ "UpdateValidator" \in Changing
      /\ "EraBond" \notin Changing /\ "PoolDelegate" \notin Changing
  BY DEF Changing
<1>3. ASSUME sudo_rm_validator_callback PROVE SetInv'
  <2>1. /\ Answered("RmValidator", "ok") /\ validator_update_status' = "WaitQueryUpdate"
        /\ validator_addrs' = Retain(validator_addrs, Head(pool_txs).message[1])
        /\ UNCHANGED <<status, net, era, delegation, keys, icq, replacement_failed,
                       outdated_read>>
    BY <1>3 DEF sudo_rm_validator_callback, query_vars, history_vars
  <2>2. validator_addrs' \in Seq(Validators) /\ pool_txs' \in Seq(Tx)
    BY <1>1, <2>1, RetainedList, AnsweredTx DEF RecordsOK
  <2>3. RecordsOK'
    BY <1>1, <2>1, <2>2 DEF RecordsOK
  <2>4. /\ OneInFlight' /\ ~RemovalInFlight' /\ validator_update_status = "Start"
    BY <1>1, <1>2, <2>1, InFlightAnswered
  <2>5. EraWaits' /\ KeysFollow'
    BY <1>1, <2>1, <2>4 DEF EraWaits, KeysFollow
  <2> QED BY <2>3, <2>4, <2>5 DEF SetInv
<1>4. ASSUME sudo_rm_validator_failed_callback PROVE SetInv'
  <2>1. /\ Answered("RmValidator", "error") /\ validator_update_status' = "End"
        /\ UNCHANGED <<status, validator_addrs, net, era, delegation, keys, icq,
                       replacement_failed, outdated_read>>
    BY <1>4 DEF sudo_rm_validator_failed_callback, query_vars, history_vars
  <2>2. /\ pool_txs' \in Seq(Tx)
        /\ 1 \in DOMAIN pool_txs /\ pool_txs[1].tx_type = "RmValidator"
    BY <1>1, <2>1, AnsweredTx
  <2>3. RecordsOK'
    BY <1>1, <2>1, <2>2 DEF RecordsOK
  <2>4. OneInFlight' /\ RemovalInFlight
    BY <1>1, <1>2, <2>1, <2>2, InFlightAnswered DEF RemovalInFlight
  <2>5. EraWaits' /\ KeysFollow'
    BY <1>1, <2>1, <2>4 DEF EraWaits, KeysFollow
  <2> QED BY <2>3, <2>4, <2>5 DEF SetInv
<1>5. ASSUME sudo_update_validator_callback PROVE SetInv'
  <2>1. /\ Answered("UpdateValidator", "ok") /\ validator_update_status' = "WaitQueryUpdate"
        /\ validator_addrs' = Head(pool_txs).message
        /\ UNCHANGED <<status, net, era, delegation, keys, icq, replacement_failed,
                       outdated_read>>
    BY <1>5 DEF sudo_update_validator_callback, query_vars, history_vars
  <2>2. pool_txs' \in Seq(Tx) /\ Head(pool_txs) \in Tx
    BY <1>1, <2>1, AnsweredTx
  <2>3. RecordsOK'
    BY <1>1, <2>1, <2>2 DEF RecordsOK, Tx
  <2>4. /\ OneInFlight' /\ ~RemovalInFlight' /\ validator_update_status = "Start"
    BY <1>1, <1>2, <2>1, InFlightAnswered
  <2>5. EraWaits' /\ KeysFollow'
    BY <1>1, <2>1, <2>4 DEF EraWaits, KeysFollow
  <2> QED BY <2>3, <2>4, <2>5 DEF SetInv
<1>6. ASSUME sudo_update_validator_failed_callback PROVE SetInv'
  <2>1. /\ Answered("UpdateValidator", "error") /\ validator_update_status' = "End"
        /\ replacement_failed' = TRUE
        /\ UNCHANGED <<status, validator_addrs, net, era, delegation, keys, icq,
                       outdated_read>>
    BY <1>6 DEF sudo_update_validator_failed_callback, query_vars, history_vars
  <2>2. pool_txs' \in Seq(Tx)
    BY <1>1, <2>1, AnsweredTx
  <2>3. RecordsOK'
    BY <1>1, <2>1, <2>2 DEF RecordsOK
  <2>4. OneInFlight'
    BY <1>1, <1>2, <2>1, InFlightAnswered
  <2>5. EraWaits' /\ KeysFollow'
    BY <1>1, <2>1 DEF EraWaits, KeysFollow
  <2> QED BY <2>3, <2>4, <2>5 DEF SetInv
<1>7. ASSUME NEW type \in {"EraBond", "PoolDelegate"}, NEW ack, Answered(type, ack),
             UNCHANGED <<validator_addrs, validator_update_status, net, era, delegation,
                         keys, replacement_failed, outdated_read>>,
             icq' \in {icq, Aged},
             \/ status' = status
             \/ type = "EraBond" /\ status' \in {"EraUpdateEnded", "BondEnded"}
      PROVE  SetInv'
  <2>1. pool_txs' \in Seq(Tx) /\ type \notin Changing
    BY <1>1, <1>2, <1>7, AnsweredTx
  <2>2. icq' \in [state : {"none", "stale", "fresh"}, amounts : Amounts]
    BY <1>1, <1>7 DEF Aged, RecordsOK
  <2>3. RecordsOK'
    BY <1>1, <1>7, <2>1, <2>2 DEF RecordsOK
  <2>4. OneInFlight' /\ (RemovalInFlight' => RemovalInFlight)
    BY <1>1, <1>7, <2>1, InFlightAnswered
  <2>5. type = "EraBond" => validator_update_status = "End"
    <3>1. 1 \in DOMAIN pool_txs /\ pool_txs[1].tx_type = type
      BY <1>1, <1>7, AnsweredTx
    <3>2. type = "EraBond" => status = "BondStarted"
      BY <3>1 DEF BondAlone
    <3> QED BY <1>1, <3>2 DEF EraWaits
  <2>6. EraWaits' /\ KeysFollow'
    BY <1>1, <1>7, <2>4, <2>5 DEF EraWaits, KeysFollow
  <2> QED BY <2>3, <2>4, <2>6 DEF SetInv
<1>8. ASSUME sudo_era_bond_callback PROVE SetInv'
  BY <1>7, <1>8 DEF sudo_era_bond_callback, history_vars
<1>9. ASSUME sudo_era_bond_failed_callback PROVE SetInv'
  BY <1>7, <1>9 DEF sudo_era_bond_failed_callback, query_vars, history_vars
<1>10. ASSUME sudo_without_payload PROVE SetInv'
  BY <1>7, <1>10 DEF sudo_without_payload, pool_vars, query_vars, history_vars
<1> QED BY <1>3, <1>4, <1>5, <1>6, <1>8, <1>9, <1>10 DEF Callback

\* And the host's steps.
LEMMA HostKeepsSet ==
    ASSUME SetInv, HostStep
    PROVE  SetInv'
<1>1. RecordsOK /\ OneInFlight /\ EraWaits /\ KeysFollow /\ pool_txs \in Seq(Tx)
  BY DEF SetInv, RecordsOK
<1>2. ASSUME NEW i \in DOMAIN pool_txs, NEW ack \in {"ok", "error"},
             pool_txs' = [pool_txs EXCEPT ![i].ack = ack], delegation' \in Amounts,
             UNCHANGED <<status, validator_addrs, validator_update_status, net, era,
                         keys, icq, replacement_failed, outdated_read>>
      PROVE  SetInv'
  <2>1. pool_txs' \in Seq(Tx)
    BY <1>1, <1>2, DecidedTx
  <2>2. RecordsOK'
    BY <1>1, <1>2, <2>1 DEF RecordsOK
  <2>3. OneInFlight' /\ (RemovalInFlight' => RemovalInFlight)
    BY <1>1, <1>2, InFlightDecided
  <2>4. EraWaits' /\ KeysFollow'
    BY <1>1, <1>2, <2>3 DEF EraWaits, KeysFollow
  <2> QED BY <2>2, <2>3, <2>4 DEF SetInv
<1>3. ASSUME NEW i \in DOMAIN pool_txs, host_executes(i) PROVE SetInv'
  <2>1. pool_txs[i] \in Tx
    BY <1>1
  <2>2. /\ \A v \in Validators : pool_txs[i].take[v] <= delegation[v]
        /\ delegation' = [v \in Validators |->
                              delegation[v] - pool_txs[i].take[v] + pool_txs[i].give[v]]
        /\ pool_txs' = [pool_txs EXCEPT ![i].ack = "ok"]
        /\ UNCHANGED <<status, validator_addrs, validator_update_status, net, era,
                       keys, icq, replacement_failed, outdated_read>>
    BY <1>3 DEF host_executes, pool_vars, query_vars, history_vars
  <2>3. /\ pool_txs[i].take \in [Validators -> Nat]
        /\ pool_txs[i].give \in [Validators -> Nat]
        /\ delegation \in [Validators -> Nat]
    BY <1>1, <2>1 DEF RecordsOK, Tx, Amounts
  <2>4. delegation' \in Amounts
    BY <2>2, <2>3 DEF Amounts
  <2> QED BY <1>2, <2>2, <2>4
<1>4. ASSUME NEW i \in DOMAIN pool_txs, host_refuses(i) PROVE SetInv'
  BY <1>1, <1>2, <1>4 DEF host_refuses, pool_vars, query_vars, history_vars, RecordsOK
<1>5. ASSUME relayer_submits_delegations PROVE SetInv'
  <2>1. Visible \in Amounts
    BY <1>1 DEF Visible, RecordsOK, Amounts
  <2>2. RecordsOK'
    BY <1>1, <1>5, <2>1
       DEF relayer_submits_delegations, RecordsOK, pool_vars, history_vars
  <2>3. OneInFlight' /\ (RemovalInFlight' => RemovalInFlight)
    BY <1>1, <1>5, InFlightSame DEF relayer_submits_delegations, pool_vars
  <2>4. EraWaits' /\ KeysFollow'
    BY <1>1, <1>5, <2>3
       DEF relayer_submits_delegations, EraWaits, KeysFollow, pool_vars, history_vars
  <2> QED BY <2>2, <2>3, <2>4 DEF SetInv
<1> QED BY <1>3, <1>4, <1>5 DEF HostStep

\* No EraBond is in flight but in the status BondStarted, so a step without traffic
\* keeps BondAlone unless it leaves that status.
LEMMA BondSame ==
    ASSUME BondAlone, UNCHANGED pool_txs,
           status = "BondStarted" => status' = status
    PROVE  BondAlone'
  BY DEF BondAlone

\* EraBond is sent in another status than the one that waits for it.
LEMMA BondAfterSent ==
    ASSUME pool_txs \in Seq(Tx), BondAlone,
           NEW type \in TxTypes, NEW take \in Amounts, NEW give \in Amounts,
           NEW message \in Seq(Validators), Send(type, take, give, message),
           IF type = "EraBond" THEN status = "EraUpdateEnded" /\ status' = "BondStarted"
                               ELSE UNCHANGED status
    PROVE  BondAlone'
<1> DEFINE n == Len(pool_txs) + 1
<1>1. /\ DOMAIN pool_txs' = DOMAIN pool_txs \cup {n}
      /\ \A i \in DOMAIN pool_txs : pool_txs'[i] = pool_txs[i]
      /\ pool_txs'[n] = [tx_type |-> type, take |-> take, give |-> give,
                         message |-> message, ack |-> "none"]
  BY SentTx
<1>2. pool_txs'[n].tx_type = type
  BY <1>1
<1> HIDE DEF n
<1>3. ASSUME type = "EraBond" PROVE BondAlone'
  <2>1. \A i \in DOMAIN pool_txs : pool_txs[i].tx_type # "EraBond"
    BY <1>3 DEF BondAlone
  <2> QED BY <1>1, <1>2, <1>3, <2>1 DEF BondAlone
<1>4. ASSUME type # "EraBond" PROVE BondAlone'
  BY <1>1, <1>2, <1>4 DEF BondAlone
<1> QED BY <1>3, <1>4

\* The answered EraBond was the only one.
LEMMA BondAfterAnswer ==
    ASSUME pool_txs \in Seq(Tx), BondAlone, NEW type, NEW ack, Answered(type, ack),
           type # "EraBond" => UNCHANGED status
    PROVE  BondAlone'
<1>1. /\ 1 \in DOMAIN pool_txs /\ pool_txs[1].tx_type = type
      /\ \A i \in DOMAIN pool_txs' : /\ i + 1 \in DOMAIN pool_txs /\ i + 1 # 1
                                     /\ pool_txs'[i] = pool_txs[i + 1]
  BY AnsweredTx
<1>2. DOMAIN pool_txs' \subseteq Nat
  <2>1. pool_txs' \in Seq(Tx)
    BY AnsweredTx
  <2> QED BY <2>1
<1>3. ASSUME type = "EraBond" PROVE BondAlone'
  <2>1. \A i \in DOMAIN pool_txs : i # 1 => pool_txs[i].tx_type # "EraBond"
    BY <1>1, <1>3 DEF BondAlone
  <2> QED BY <1>1, <2>1 DEF BondAlone
<1>4. ASSUME type # "EraBond" PROVE BondAlone'
  <2> SUFFICES ASSUME NEW i \in DOMAIN pool_txs', pool_txs'[i].tx_type = "EraBond"
               PROVE  /\ status' = "BondStarted"
                      /\ \A j \in DOMAIN pool_txs' : pool_txs'[j].tx_type = "EraBond" => j = i
    BY DEF BondAlone
  <2>1. /\ status = "BondStarted"
        /\ \A j \in DOMAIN pool_txs : pool_txs[j].tx_type = "EraBond" => j = i + 1
    BY <1>1 DEF BondAlone
  <2>2. ASSUME NEW j \in DOMAIN pool_txs', pool_txs'[j].tx_type = "EraBond" PROVE j = i
    <3>1. j + 1 = i + 1 /\ j \in Nat /\ i \in Nat
      BY <1>1, <1>2, <2>1, <2>2
    <3> QED BY <3>1
  <2> QED BY <1>4, <2>1, <2>2
<1> QED BY <1>3, <1>4

\* The host's decision is about a transaction already there.
LEMMA BondDecided ==
    ASSUME pool_txs \in Seq(Tx), BondAlone, NEW i \in DOMAIN pool_txs,
           NEW ack \in {"ok", "error"}, pool_txs' = [pool_txs EXCEPT ![i].ack = ack],
           UNCHANGED status
    PROVE  BondAlone'
<1>1. /\ DOMAIN pool_txs' = DOMAIN pool_txs
      /\ \A j \in DOMAIN pool_txs : pool_txs'[j].tx_type = pool_txs[j].tx_type
  BY DecidedTx
<1> QED BY <1>1 DEF BondAlone

\* One EraBond at a time, through every step.
LEMMA BondStep ==
    ASSUME SetInv, BondAlone, Next
    PROVE  BondAlone'
<1>1. RecordsOK /\ pool_txs \in Seq(Tx) /\ icq.amounts \in Amounts
      /\ validator_addrs \in Seq(Validators)
  BY DEF SetInv, RecordsOK
<1>2. ASSUME AdminStep PROVE BondAlone'
  <2>1. ASSUME NEW v \in Validators, execute_add_pool_validators(v) PROVE BondAlone'
    BY <2>1, BondSame DEF execute_add_pool_validators
  <2>2. ASSUME execute_update_validators_icq PROVE BondAlone'
    BY <2>2, BondSame DEF execute_update_validators_icq
  <2>3. ASSUME NEW v \in Validators, execute_rm_pool_validator(v) PROVE BondAlone'
    <3> DEFINE amount == icq.amounts[v]
               towards == Head(Retain(validator_addrs, v))
    <3>1. UNCHANGED status
      BY <2>3 DEF execute_rm_pool_validator
    <3>2. amount \in Nat /\ <<v>> \in Seq(Validators) /\ "RmValidator" \in TxTypes
      BY <1>1 DEF Amounts, TxTypes
    <3>3. \/ UNCHANGED pool_txs
          \/ Send("RmValidator", Only(v, amount), Only(towards, amount), <<v>>)
      BY <2>3 DEF execute_rm_pool_validator
    <3> HIDE DEF amount, towards
    <3>4. Only(v, amount) \in Amounts /\ Only(towards, amount) \in Amounts
      BY <3>2, OnlyTyped
    <3>5. Send("RmValidator", Only(v, amount), Only(towards, amount), <<v>>) => BondAlone'
      BY <1>1, <3>1, <3>2, <3>4, BondAfterSent
    <3> QED BY <3>1, <3>3, <3>5, BondSame
  <2>4. ASSUME NEW old \in Validators, NEW new \in Validators,
               execute_pool_update_validator(old, new)
        PROVE  BondAlone'
    <3> DEFINE amount == icq.amounts[old]
               list == Append(Retain(validator_addrs, old), new)
    <3>1. UNCHANGED status
      BY <2>4 DEF execute_pool_update_validator
    <3>2. amount \in Nat /\ list \in Seq(Validators) /\ "UpdateValidator" \in TxTypes
      BY <1>1, RetainedList, AppendedList DEF Amounts, TxTypes
    <3>3. \/ UNCHANGED pool_txs
          \/ Send("UpdateValidator", Only(old, amount), Only(new, amount), list)
      BY <2>4 DEF execute_pool_update_validator
    <3> HIDE DEF amount, list
    <3>4. Only(old, amount) \in Amounts /\ Only(new, amount) \in Amounts
      BY <3>2, OnlyTyped
    <3>5. Send("UpdateValidator", Only(old, amount), Only(new, amount), list) => BondAlone'
      BY <1>1, <3>1, <3>2, <3>4, BondAfterSent
    <3> QED BY <3>1, <3>3, <3>5, BondSame
  <2>5. ASSUME execute_pool_delegate(1) PROVE BondAlone'
    <3> DEFINE give == Split(validator_addrs, 1)
    <3>1. /\ Send("PoolDelegate", NoAmounts, give, <<>>) /\ UNCHANGED status
          /\ validator_addrs # <<>>
      BY <2>5 DEF execute_pool_delegate, pool_vars
    <3>2. /\ "PoolDelegate" \in TxTypes /\ <<>> \in Seq(Validators)
          /\ NoAmounts \in Amounts /\ give \in Amounts
      BY <1>1, <3>1, OnlyTyped, SplitTyped DEF TxTypes
    <3> HIDE DEF give
    <3> QED BY <1>1, <3>1, <3>2, BondAfterSent
  <2> QED BY <1>2, <2>1, <2>2, <2>3, <2>4, <2>5 DEF AdminStep
<1>3. ASSUME EraStep PROVE BondAlone'
  <2>1. ASSUME NEW n \in Nets, execute_era_update(n) PROVE BondAlone'
    BY <2>1, BondSame DEF execute_era_update
  <2>2. ASSUME execute_era_bond PROVE BondAlone'
    <3>1. PICK take, give \in Amounts : Send("EraBond", take, give, <<>>)
      BY <1>1, <2>2, BondSent
    <3>2. /\ "EraBond" \in TxTypes /\ <<>> \in Seq(Validators)
          /\ status = "EraUpdateEnded" /\ status' = "BondStarted"
      BY <2>2 DEF TxTypes, execute_era_bond
    <3> QED BY <1>1, <3>1, <3>2, BondAfterSent
  <2>3. ASSUME execute_era_active PROVE BondAlone'
    BY <2>3, BondSame DEF execute_era_active
  <2> QED BY <1>3, <2>1, <2>2, <2>3 DEF EraStep
<1>4. ASSUME Callback PROVE BondAlone'
  <2>1. \E type, ack : Answered(type, ack) /\ (type # "EraBond" => UNCHANGED status)
    BY <1>4 DEF Callback, sudo_rm_validator_callback, sudo_rm_validator_failed_callback,
                sudo_update_validator_callback, sudo_update_validator_failed_callback,
                sudo_era_bond_callback, sudo_era_bond_failed_callback,
                sudo_without_payload, pool_vars
  <2> QED BY <1>1, <2>1, BondAfterAnswer
<1>5. ASSUME HostStep PROVE BondAlone'
  <2>1. \/ UNCHANGED <<pool_txs, status>>
        \/ \E i \in DOMAIN pool_txs, ack \in {"ok", "error"} :
               pool_txs' = [pool_txs EXCEPT ![i].ack = ack] /\ UNCHANGED status
    BY <1>5 DEF HostStep, host_executes, host_refuses, relayer_submits_delegations,
                pool_vars
  <2> QED BY <1>1, <2>1, BondSame, BondDecided
<1> QED BY <1>2, <1>3, <1>4, <1>5 DEF Next

\* The invariant of the set holds in every reachable state.
THEOREM SetTheorem == Spec => [](SetInv /\ BondAlone)
<1>1. Init => SetInv /\ BondAlone
  <2> SUFFICES ASSUME Init PROVE SetInv /\ BondAlone
    OBVIOUS
  <2>1. pool_txs = <<>> /\ pool_txs \in Seq(Tx) /\ DOMAIN pool_txs = {}
    BY DEF Init
  <2>2. NoAmounts \in Amounts
    BY OnlyTyped
  <2>3. RecordsOK
    <3>1. InitialValidators \in Seq(Validators)
      BY ValidatorAssumption
    <3>2. ToSet(InitialValidators) \subseteq Validators
      BY <3>1, ListedTyped
    <3>3. icq \in [state : {"none", "stale", "fresh"}, amounts : Amounts]
      BY <2>2 DEF Init
    <3>4. /\ status = "ActiveEnded" /\ validator_addrs = InitialValidators
          /\ validator_update_status = "End" /\ net = 0 /\ era = 0
          /\ delegation = NoAmounts /\ keys = ToSet(InitialValidators)
      BY DEF Init
    <3>5. replacement_failed \in BOOLEAN /\ outdated_read \in BOOLEAN
      BY DEF Init
    <3>6. pool_txs \in Seq(Tx) /\ delegation \in Amounts /\ keys \subseteq Validators
      BY <2>1, <2>2, <3>2, <3>4
    <3>7. validator_addrs \in Seq(Validators) /\ net \in Int /\ era \in Nat
      BY <3>1, <3>4
    <3> QED BY <3>3, <3>4, <3>5, <3>6, <3>7 DEF RecordsOK
  <2>4. OneInFlight /\ BondAlone
    BY <2>1 DEF Init, OneInFlight, Redelegations, BondAlone
  <2>5. EraWaits /\ KeysFollow
    BY DEF Init, EraWaits, KeysFollow
  <2> QED BY <2>3, <2>4, <2>5 DEF SetInv
<1>2. (SetInv /\ BondAlone) /\ [Next]_vars => (SetInv /\ BondAlone)'
  <2> SUFFICES ASSUME SetInv, BondAlone, [Next]_vars PROVE SetInv' /\ BondAlone'
    OBVIOUS
  <2>1. CASE Next
    BY <2>1, AdminKeepsSet, EraKeepsSet, CallbackKeepsSet, HostKeepsSet, BondStep DEF Next
  <2>2. CASE UNCHANGED vars
    BY <2>2 DEF vars, pool_vars, query_vars, history_vars, SetInv, RecordsOK, OneInFlight,
                Redelegations, EraWaits, KeysFollow, RemovalInFlight, BondAlone
  <2> QED BY <2>1, <2>2
<1> QED BY <1>1, <1>2, PTL DEF Spec

\* No two changes of the list are ever under way together, so that a callback never
\* overwrites the list another change has made meanwhile.
THEOREM OneRedelegationTheorem == Spec => []OneRedelegation
<1>1. SetInv => OneRedelegation
  <2> SUFFICES ASSUME SetInv PROVE OneRedelegation
    OBVIOUS
  <2>1. OneInFlight
    BY DEF SetInv
  <2>2. ASSUME validator_update_status = "Start" PROVE Cardinality(Redelegations) = 1
    <3>1. PICK i \in DOMAIN pool_txs : Redelegations = {i}
      BY <2>1, <2>2 DEF OneInFlight
    <3> QED BY <3>1, FS_Singleton
  <2>3. ASSUME validator_update_status # "Start" PROVE Cardinality(Redelegations) = 0
    <3>1. Redelegations = {}
      BY <2>1, <2>3 DEF OneInFlight
    <3> QED BY <3>1, FS_EmptySet
  <2> QED BY <2>2, <2>3 DEF OneRedelegation
<1> QED BY <1>1, SetTheorem, PTL

\* With no change pending the query asks for the validators of the list, unless a
\* replacement has failed.
THEOREM QueryTheorem == Spec => []QueryFollowsList
<1>1. SetInv => QueryFollowsList
  BY DEF SetInv, KeysFollow, QueryFollowsList
<1> QED BY <1>1, SetTheorem, PTL

\* The answer to a redelegation finds the pool between eras.
LEMMA AnswerBetweenEras ==
    ASSUME SetInv, NEW type \in Changing, NEW ack, Answered(type, ack)
    PROVE  status = "ActiveEnded" /\ validator_update_status = "Start"
<1>1. pool_txs \in Seq(Tx) /\ OneInFlight /\ EraWaits
  BY DEF SetInv, RecordsOK
<1>2. 1 \in DOMAIN pool_txs /\ pool_txs[1].tx_type = type
  BY <1>1, AnsweredTx
<1>3. 1 \in Redelegations
  BY <1>2 DEF Redelegations, Changing
<1>4. validator_update_status = "Start"
  BY <1>1, <1>3 DEF OneInFlight
<1> QED BY <1>1, <1>4 DEF EraWaits

\* From EraUpdate to EraActive neither the list nor the keys change, whatever the
\* admin calls and whatever answers arrive.
THEOREM StableTheorem == Spec => EraSetStable
<1>1. SetInv /\ [Next]_vars =>
          [status # "ActiveEnded" => UNCHANGED <<validator_addrs, keys>>]_vars
  <2> SUFFICES ASSUME SetInv, Next, status # "ActiveEnded"
               PROVE  UNCHANGED <<validator_addrs, keys>>
    BY DEF vars, pool_vars, query_vars
  <2>1. validator_update_status = "End"
    BY DEF SetInv, EraWaits
  <2>2. CASE AdminStep
    BY <2>1, <2>2
       DEF AdminStep, execute_add_pool_validators, execute_update_validators_icq,
           execute_rm_pool_validator, Removable, execute_pool_update_validator,
           Replaceable, execute_pool_delegate
  <2>3. CASE EraStep
    BY <2>3 DEF EraStep, execute_era_update, execute_era_bond, execute_era_active,
                query_vars
  <2>4. CASE Callback
    <3>1. "RmValidator" \in Changing /\ "UpdateValidator" \in Changing
      BY DEF Changing
    <3>2. \A ack : ~Answered("RmValidator", ack) /\ ~Answered("UpdateValidator", ack)
      BY <2>1, <3>1, AnswerBetweenEras
    <3> QED BY <2>4, <3>2
            DEF Callback, sudo_rm_validator_callback, sudo_rm_validator_failed_callback,
                sudo_update_validator_callback, sudo_update_validator_failed_callback,
                sudo_era_bond_callback, sudo_era_bond_failed_callback,
                sudo_without_payload, pool_vars, query_vars
  <2>5. CASE HostStep
    BY <2>5 DEF HostStep, host_executes, host_refuses, relayer_submits_delegations,
                pool_vars, query_vars
  <2> QED BY <2>2, <2>3, <2>4, <2>5 DEF Next
<1>2. SetInv /\ BondAlone => SetInv
  OBVIOUS
<1> QED BY <1>1, <1>2, SetTheorem, PTL DEF Spec, EraSetStable

-----------------------------------------------------------------------------
(***************************************************************************)
(* The list.                                                               *)
(***************************************************************************)
\* Taking out a validator of a list makes it one shorter.
LEMMA RetainedLen ==
    ASSUME NEW list \in Seq(Validators), IsInjective(list), NEW v \in ToSet(list)
    PROVE  Len(Retain(list, v)) = Len(list) - 1
<1>1. \A w : ToSet(w) = Elements(w)
  BY DEF ToSet, Elements
<1>2. IsFiniteSet(ToSet(list)) /\ Cardinality(ToSet(list)) = Len(list)
  BY <1>1, InjectiveCounts
<1>3. /\ Retain(list, v) \in Seq(Validators) /\ IsInjective(Retain(list, v))
      /\ ToSet(Retain(list, v)) = ToSet(list) \ {v}
  BY RetainedList
<1>4. Cardinality(ToSet(Retain(list, v))) = Len(Retain(list, v))
  BY <1>1, <1>3, InjectiveCounts
<1>5. Cardinality(ToSet(list) \ {v}) = Cardinality(ToSet(list)) - 1
  BY <1>2, FS_RemoveElement
<1> QED BY <1>2, <1>3, <1>4, <1>5

\* The lists the three changes make, from a list.
LEMMA ChangedLists ==
    ASSUME NEW list \in Seq(Validators), IsList(list), NEW v \in Validators
    PROVE  /\ v \in ToSet(list) /\ Len(list) > 1 => IsList(Retain(list, v))
           /\ v \notin ToSet(list) /\ Len(list) < VALIDATER_LEN_LIMIT =>
                  /\ IsList(Append(list, v))
                  /\ Len(Append(list, v)) = Len(list) + 1
           /\ v \notin ToSet(list) =>
                  \A old \in ToSet(list) : IsList(Append(Retain(list, old), v))
<1>1. Len(list) \in Nat /\ VALIDATER_LEN_LIMIT \in Nat
  BY ValidatorAssumption
<1>2. IsInjective(list) /\ Len(list) \in 1..VALIDATER_LEN_LIMIT
  BY DEF IsList
<1>3. ASSUME v \in ToSet(list), Len(list) > 1 PROVE IsList(Retain(list, v))
  <2>1. IsInjective(Retain(list, v)) /\ Len(Retain(list, v)) = Len(list) - 1
    BY <1>2, <1>3, RetainedList, RetainedLen
  <2> QED BY <1>1, <1>2, <1>3, <2>1 DEF IsList
<1>4. ASSUME v \notin ToSet(list), Len(list) < VALIDATER_LEN_LIMIT
      PROVE  IsList(Append(list, v)) /\ Len(Append(list, v)) = Len(list) + 1
  <2>1. IsInjective(Append(list, v)) /\ Len(Append(list, v)) = Len(list) + 1
    BY <1>2, <1>4, AppendedList
  <2> QED BY <1>1, <1>2, <1>4, <2>1 DEF IsList
<1>5. ASSUME v \notin ToSet(list), NEW old \in ToSet(list)
      PROVE  IsList(Append(Retain(list, old), v))
  <2> DEFINE rest == Retain(list, old)
  <2>1. /\ rest \in Seq(Validators) /\ IsInjective(rest)
        /\ ToSet(rest) = ToSet(list) \ {old} /\ Len(rest) = Len(list) - 1
    BY <1>2, RetainedList, RetainedLen
  <2> HIDE DEF rest
  <2>2. IsInjective(Append(rest, v)) /\ Len(Append(rest, v)) = Len(rest) + 1
    BY <1>5, <2>1, AppendedList
  <2> QED BY <1>1, <1>2, <2>1, <2>2 DEF IsList, rest
<1> QED BY <1>3, <1>4, <1>5

\* While nothing is pending, no redelegation is in the channel.
LEMMA NothingPending ==
    ASSUME OneInFlight, validator_update_status # "Start"
    PROVE  \A i \in DOMAIN pool_txs : pool_txs[i].tx_type \notin Changing
  BY DEF OneInFlight, Redelegations, Changing

\* When a redelegation is answered, none is left.
LEMMA NothingLeft ==
    ASSUME pool_txs \in Seq(Tx), OneInFlight, NEW type \in Changing, NEW ack,
           Answered(type, ack)
    PROVE  \A i \in DOMAIN pool_txs' : pool_txs'[i].tx_type \notin Changing
<1>1. /\ 1 \in DOMAIN pool_txs /\ pool_txs[1].tx_type = type
      /\ \A i \in DOMAIN pool_txs' : /\ i + 1 \in DOMAIN pool_txs /\ i + 1 # 1
                                     /\ pool_txs'[i] = pool_txs[i + 1]
  BY AnsweredTx
<1>2. 1 \in Redelegations
  BY <1>1 DEF Redelegations, Changing
<1>3. Redelegations = {1}
  BY <1>2 DEF OneInFlight
<1> QED BY <1>1, <1>3 DEF Redelegations, Changing

\* Only redelegations have a payload to look at.
LEMMA ListStep ==
    ASSUME IsList(validator_addrs)',
           \A i \in DOMAIN pool_txs' :
               pool_txs'[i].tx_type \in Changing => PayloadOK(pool_txs[i])'
    PROVE  ListOK'
  BY DEF ListOK, PayloadOK, Changing

\* With the list unchanged, its payloads stay good.
LEMMA PayloadSame ==
    ASSUME UNCHANGED validator_addrs, NEW i, NEW j, PayloadOK(pool_txs[j]),
           pool_txs'[i].tx_type = pool_txs[j].tx_type,
           pool_txs'[i].message = pool_txs[j].message
    PROVE  PayloadOK(pool_txs[i])'
  BY DEF PayloadOK, IsList

\* Sending something that is no redelegation, with the list unchanged.
LEMMA ListSent ==
    ASSUME pool_txs \in Seq(Tx), ListOK, NEW type \in TxTypes \ Changing,
           NEW take \in Amounts, NEW give \in Amounts, NEW message \in Seq(Validators),
           Send(type, take, give, message), UNCHANGED validator_addrs
    PROVE  ListOK'
<1> DEFINE n == Len(pool_txs) + 1
<1>1. /\ DOMAIN pool_txs' = DOMAIN pool_txs \cup {n}
      /\ \A i \in DOMAIN pool_txs : pool_txs'[i] = pool_txs[i]
      /\ pool_txs'[n] = [tx_type |-> type, take |-> take, give |-> give,
                         message |-> message, ack |-> "none"]
  BY SentTx
<1>2. pool_txs'[n].tx_type = type
  BY <1>1
<1> HIDE DEF n
<1>3. \A i \in DOMAIN pool_txs : PayloadOK(pool_txs[i])'
  BY <1>1, PayloadSame DEF ListOK
<1>4. IsList(validator_addrs)'
  BY DEF ListOK, IsList
<1> QED BY <1>1, <1>2, <1>3, <1>4, ListStep

\* Every step leaves a list of between one and VALIDATER_LEN_LIMIT validators, none
\* of them twice, also the step of a callback that comes after other changes.
LEMMA ListKept ==
    ASSUME SetInv, ListOK, Next
    PROVE  ListOK'
<1>1. /\ RecordsOK /\ OneInFlight /\ pool_txs \in Seq(Tx)
      /\ icq.amounts \in Amounts
      /\ validator_addrs \in Seq(Validators) /\ IsList(validator_addrs)
      /\ \A i \in DOMAIN pool_txs : PayloadOK(pool_txs[i])
  BY DEF SetInv, RecordsOK, ListOK
<1>2. ASSUME UNCHANGED <<validator_addrs, pool_txs>> PROVE ListOK'
  BY <1>1, <1>2, PayloadSame DEF ListOK, IsList
<1>3. ASSUME NEW v \in Validators, execute_add_pool_validators(v) PROVE ListOK'
  <2>1. /\ Len(validator_addrs) < VALIDATER_LEN_LIMIT /\ v \notin ToSet(validator_addrs)
        /\ validator_addrs' = Append(validator_addrs, v) /\ UNCHANGED pool_txs
    BY <1>3 DEF execute_add_pool_validators
  <2>2. /\ IsList(validator_addrs') /\ Len(validator_addrs') = Len(validator_addrs) + 1
        /\ ToSet(validator_addrs') = ToSet(validator_addrs) \cup {v}
    BY <1>1, <2>1, ChangedLists, AppendedList
  <2>3. Len(validator_addrs) \in Nat
    BY <1>1
  <2>4. \A i \in DOMAIN pool_txs : PayloadOK(pool_txs[i])'
    BY <1>1, <2>1, <2>2, <2>3 DEF PayloadOK, IsList
  <2> QED BY <2>1, <2>2, <2>4 DEF ListOK, IsList
<1>4. ASSUME NEW v \in Validators, execute_rm_pool_validator(v) PROVE ListOK'
  <2> DEFINE amount == icq.amounts[v]
             left == Retain(validator_addrs, v)
             n == Len(pool_txs) + 1
  <2>1. /\ v \in ToSet(validator_addrs) /\ Len(validator_addrs) > 1
        /\ validator_update_status = "End"
    BY <1>4 DEF execute_rm_pool_validator, Removable
  <2>2. \A i \in DOMAIN pool_txs : pool_txs[i].tx_type \notin Changing
    BY <1>1, <2>1, NothingPending
  <2>3. CASE validator_addrs' = left /\ UNCHANGED pool_txs
    <3>1. IsList(left)
      BY <1>1, <2>1, ChangedLists
    <3> HIDE DEF left
    <3>2. IsList(validator_addrs)'
      BY <2>3, <3>1 DEF IsList
    <3> QED BY <2>2, <2>3, <3>2, ListStep
  <2>4. CASE /\ UNCHANGED validator_addrs
             /\ Send("RmValidator", Only(v, amount), Only(Head(left), amount), <<v>>)
    <3>1. /\ Only(v, amount) \in Amounts /\ Only(Head(left), amount) \in Amounts
          /\ <<v>> \in Seq(Validators) /\ "RmValidator" \in TxTypes
      <4>1. amount \in Nat
        BY <1>1 DEF Amounts
      <4> QED BY <4>1, OnlyTyped DEF TxTypes
    <3>2. Send("RmValidator", Only(v, amount), Only(Head(left), amount), <<v>>)
      BY <2>4
    <3> HIDE DEF amount, left
    <3>3. /\ DOMAIN pool_txs' = DOMAIN pool_txs \cup {n}
          /\ \A i \in DOMAIN pool_txs : pool_txs'[i] = pool_txs[i]
          /\ pool_txs'[n] = [tx_type |-> "RmValidator", take |-> Only(v, amount),
                             give |-> Only(Head(left), amount),
                             message |-> <<v>>, ack |-> "none"]
      BY <1>1, <3>1, <3>2, SentTx
    <3> HIDE DEF n
    <3>4. pool_txs'[n].tx_type = "RmValidator" /\ pool_txs'[n].message[1] = v
      BY <3>3
    <3>5. ASSUME NEW i, i = n PROVE PayloadOK(pool_txs[i])'
      BY <2>1, <2>4, <3>4, <3>5 DEF PayloadOK
    <3>6. IsList(validator_addrs)'
      BY <1>1, <2>4 DEF IsList
    <3>7. \A i \in DOMAIN pool_txs' :
              pool_txs'[i].tx_type \in Changing => PayloadOK(pool_txs[i])'
      BY <2>2, <3>3, <3>5
    <3> QED BY <3>6, <3>7, ListStep
  <2> QED BY <1>4, <2>3, <2>4 DEF execute_rm_pool_validator
<1>5. ASSUME NEW old \in Validators, NEW new \in Validators,
             execute_pool_update_validator(old, new)
      PROVE  ListOK'
  <2> DEFINE amount == icq.amounts[old]
             list == Append(Retain(validator_addrs, old), new)
             n == Len(pool_txs) + 1
  <2>1. /\ old \in ToSet(validator_addrs) /\ new \notin ToSet(validator_addrs)
        /\ validator_update_status = "End" /\ validator_addrs' = list
    BY <1>5 DEF execute_pool_update_validator, Replaceable
  <2>2. \A i \in DOMAIN pool_txs : pool_txs[i].tx_type \notin Changing
    BY <1>1, <2>1, NothingPending
  <2>3. IsList(list) /\ list \in Seq(Validators)
    BY <1>1, <2>1, ChangedLists, RetainedList, AppendedList
  <2>4. IsList(validator_addrs)'
    BY <2>1, <2>3 DEF IsList
  <2>5. CASE UNCHANGED pool_txs
    BY <2>2, <2>4, <2>5, ListStep
  <2>6. CASE Send("UpdateValidator", Only(old, amount), Only(new, amount), list)
    <3>1. /\ Only(old, amount) \in Amounts /\ Only(new, amount) \in Amounts
          /\ "UpdateValidator" \in TxTypes
      <4>1. amount \in Nat
        BY <1>1 DEF Amounts
      <4> QED BY <4>1, OnlyTyped DEF TxTypes
    <3> HIDE DEF amount, list
    <3>2. /\ DOMAIN pool_txs' = DOMAIN pool_txs \cup {n}
          /\ \A i \in DOMAIN pool_txs : pool_txs'[i] = pool_txs[i]
          /\ pool_txs'[n] = [tx_type |-> "UpdateValidator", take |-> Only(old, amount),
                             give |-> Only(new, amount), message |-> list, ack |-> "none"]
      BY <1>1, <2>3, <2>6, <3>1, SentTx
    <3> HIDE DEF n
    <3>3. pool_txs'[n].tx_type = "UpdateValidator" /\ pool_txs'[n].message = list
      BY <3>2
    <3>4. ASSUME NEW i, i = n PROVE PayloadOK(pool_txs[i])'
      BY <2>3, <3>3, <3>4 DEF PayloadOK, IsList
    <3>5. \A i \in DOMAIN pool_txs' :
              pool_txs'[i].tx_type \in Changing => PayloadOK(pool_txs[i])'
      BY <2>2, <3>2, <3>4
    <3> QED BY <2>4, <3>5, ListStep
  <2> QED BY <1>5, <2>5, <2>6 DEF execute_pool_update_validator
<1>6. ASSUME execute_pool_delegate(1) PROVE ListOK'
  <2> DEFINE give == Split(validator_addrs, 1)
  <2>1. /\ Send("PoolDelegate", NoAmounts, give, <<>>) /\ UNCHANGED validator_addrs
        /\ validator_addrs # <<>>
    BY <1>6 DEF execute_pool_delegate, pool_vars
  <2>2. /\ "PoolDelegate" \in TxTypes \ Changing /\ <<>> \in Seq(Validators)
        /\ NoAmounts \in Amounts /\ give \in Amounts
    BY <1>1, <2>1, OnlyTyped, SplitTyped DEF TxTypes, Changing
  <2> HIDE DEF give
  <2> QED BY <1>1, <2>1, <2>2, ListSent DEF ListOK
<1>7. ASSUME execute_era_bond PROVE ListOK'
  <2>1. PICK take, give \in Amounts : Send("EraBond", take, give, <<>>)
    BY <1>1, <1>7, BondSent
  <2>2. /\ "EraBond" \in TxTypes \ Changing /\ <<>> \in Seq(Validators)
        /\ UNCHANGED validator_addrs
    BY <1>7 DEF TxTypes, Changing, execute_era_bond
  <2> QED BY <1>1, <2>1, <2>2, ListSent DEF ListOK
<1>8. ASSUME NEW type, NEW ack, Answered(type, ack), UNCHANGED validator_addrs
      PROVE  ListOK'
  <2>1. \A i \in DOMAIN pool_txs' : i + 1 \in DOMAIN pool_txs /\ pool_txs'[i] = pool_txs[i + 1]
    BY <1>1, <1>8, AnsweredTx
  <2>2. ASSUME NEW i \in DOMAIN pool_txs' PROVE PayloadOK(pool_txs[i])'
    <3>1. PayloadOK(pool_txs[i + 1]) /\ pool_txs'[i] = pool_txs[i + 1]
      BY <1>1, <2>1
    <3> QED BY <1>8, <3>1, PayloadSame
  <2>3. IsList(validator_addrs)'
    BY <1>1, <1>8 DEF IsList
  <2> QED BY <2>2, <2>3, ListStep
<1>9. ASSUME sudo_rm_validator_callback PROVE ListOK'
  <2>1. /\ Answered("RmValidator", "ok") /\ "RmValidator" \in Changing
        /\ validator_addrs' = Retain(validator_addrs, Head(pool_txs).message[1])
    BY <1>9 DEF sudo_rm_validator_callback, Changing
  <2>2. /\ 1 \in DOMAIN pool_txs /\ Head(pool_txs) = pool_txs[1]
        /\ pool_txs[1].tx_type = "RmValidator"
    BY <1>1, <2>1, AnsweredTx
  <2>3. PayloadOK(pool_txs[1])
    BY <1>1, <2>2
  <2> DEFINE v == pool_txs[1].message[1]
  <2>4. v \in ToSet(validator_addrs) /\ Len(validator_addrs) > 1
    BY <2>2, <2>3 DEF PayloadOK
  <2>5. validator_addrs' = Retain(validator_addrs, v)
    BY <2>1, <2>2
  <2> HIDE DEF v
  <2>6. v \in Validators
    BY <1>1, <2>4, ListedTyped
  <2>7. IsList(validator_addrs')
    BY <1>1, <2>4, <2>5, <2>6, ChangedLists
  <2>8. IsList(validator_addrs)'
    BY <2>7 DEF IsList
  <2>9. \A i \in DOMAIN pool_txs' : pool_txs'[i].tx_type \notin Changing
    BY <1>1, <2>1, NothingLeft
  <2> QED BY <2>8, <2>9, ListStep
<1>10. ASSUME sudo_update_validator_callback PROVE ListOK'
  <2>1. /\ Answered("UpdateValidator", "ok") /\ "UpdateValidator" \in Changing
        /\ validator_addrs' = Head(pool_txs).message
    BY <1>10 DEF sudo_update_validator_callback, Changing
  <2>2. /\ 1 \in DOMAIN pool_txs /\ Head(pool_txs) = pool_txs[1]
        /\ pool_txs[1].tx_type = "UpdateValidator"
    BY <1>1, <2>1, AnsweredTx
  <2>3. PayloadOK(pool_txs[1])
    BY <1>1, <2>2
  <2>4. IsList(validator_addrs)'
    BY <2>1, <2>2, <2>3 DEF PayloadOK, IsList
  <2>5. \A i \in DOMAIN pool_txs' : pool_txs'[i].tx_type \notin Changing
    BY <1>1, <2>1, NothingLeft
  <2> QED BY <2>4, <2>5, ListStep
<1>11. ASSUME NEW i \in DOMAIN pool_txs, NEW ack \in {"ok", "error"},
              pool_txs' = [pool_txs EXCEPT ![i].ack = ack], UNCHANGED validator_addrs
       PROVE  ListOK'
  <2>1. /\ DOMAIN pool_txs' = DOMAIN pool_txs
        /\ \A j \in DOMAIN pool_txs :
               /\ pool_txs'[j].tx_type = pool_txs[j].tx_type
               /\ pool_txs'[j].message = pool_txs[j].message
    BY <1>1, <1>11, DecidedTx
  <2>2. ASSUME NEW j \in DOMAIN pool_txs' PROVE PayloadOK(pool_txs[j])'
    BY <1>1, <1>11, <2>1, PayloadSame
  <2>3. IsList(validator_addrs)'
    BY <1>1, <1>11 DEF IsList
  <2> QED BY <2>2, <2>3, ListStep
<1>12. CASE AdminStep
  <2>1. execute_update_validators_icq => UNCHANGED <<validator_addrs, pool_txs>>
    BY DEF execute_update_validators_icq
  <2> QED BY <1>2, <1>3, <1>4, <1>5, <1>6, <1>12, <2>1 DEF AdminStep
<1>13. CASE EraStep
  <2>1. execute_era_active \/ (\E n \in Nets : execute_era_update(n))
            => UNCHANGED <<validator_addrs, pool_txs>>
    BY DEF execute_era_active, execute_era_update
  <2> QED BY <1>2, <1>7, <1>13, <2>1 DEF EraStep
<1>14. CASE Callback
  <2>1. \/ sudo_rm_validator_failed_callback \/ sudo_update_validator_failed_callback
        \/ sudo_era_bond_callback \/ sudo_era_bond_failed_callback \/ sudo_without_payload
        => \E type, ack : Answered(type, ack) /\ UNCHANGED validator_addrs
    BY DEF sudo_rm_validator_failed_callback, sudo_update_validator_failed_callback,
           sudo_era_bond_callback, sudo_era_bond_failed_callback, sudo_without_payload,
           pool_vars
  <2> QED BY <1>8, <1>9, <1>10, <1>14, <2>1 DEF Callback
<1>15. CASE HostStep
  <2>1. \/ UNCHANGED <<validator_addrs, pool_txs>>
        \/ \E i \in DOMAIN pool_txs, ack \in {"ok", "error"} :
               pool_txs' = [pool_txs EXCEPT ![i].ack = ack] /\ UNCHANGED validator_addrs
    BY <1>15 DEF HostStep, host_executes, host_refuses, relayer_submits_delegations,
                 pool_vars
  <2> QED BY <1>2, <1>11, <2>1
<1> QED BY <1>12, <1>13, <1>14, <1>15 DEF Next

-----------------------------------------------------------------------------
(***************************************************************************)
(* Where the delegations are.                                              *)
(***************************************************************************)
\* While a redelegation is under way and everything was up to date, the host's
\* decision about it, the only transaction there is, moves what the success of the
\* change takes for granted.
LEMMA MovesDecided ==
    ASSUME RecordsOK, NEW i \in DOMAIN pool_txs, i = 1, MovesAway(pool_txs[1]),
           NEW ack \in {"ok", "error"}, pool_txs[1].ack = "none",
           pool_txs' = [pool_txs EXCEPT ![i].ack = ack], UNCHANGED validator_addrs,
           IF ack = "ok"
           THEN delegation' = [v \in Validators |-> delegation[v] - pool_txs[1].take[v]
                                                    + pool_txs[1].give[v]]
           ELSE UNCHANGED delegation
    PROVE  MovesAway(pool_txs[1])'
<1>1. pool_txs \in Seq(Tx) /\ delegation \in [Validators -> Nat]
  BY DEF RecordsOK, Amounts
<1>2. /\ pool_txs'[1].tx_type = pool_txs[1].tx_type
      /\ pool_txs'[1].take = pool_txs[1].take /\ pool_txs'[1].give = pool_txs[1].give
      /\ pool_txs'[1].message = pool_txs[1].message /\ pool_txs'[1].ack = ack
      /\ pool_txs[1] \in Tx
  BY <1>1, DecidedTx
<1>3. pool_txs[1].take \in [Validators -> Nat] /\ pool_txs[1].give \in [Validators -> Nat]
  BY <1>2 DEF Tx, Amounts
<1> DEFINE rest == LeftAfter(pool_txs[1])
<1>4. LeftAfter(pool_txs[1])' = rest
  BY <1>2 DEF LeftAfter
<1>5. /\ Held(pool_txs[1].give) \subseteq rest
      /\ \A v \in Validators \ rest : pool_txs[1].take[v] = delegation[v]
      /\ pool_txs[1].tx_type = "RmValidator" =>
             Held(delegation) \subseteq ToSet(validator_addrs)
  BY DEF MovesAway
<1>6. Held(pool_txs[1].give)' \subseteq rest
  BY <1>2, <1>5 DEF Held
<1> HIDE DEF rest
<1>7. ASSUME ack = "ok" PROVE MovesAway(pool_txs[1])'
  <2>1. ASSUME NEW v \in Validators, v \notin rest PROVE delegation'[v] = 0
    <3>1. pool_txs[1].give[v] = 0
      BY <1>3, <1>5, <2>1 DEF Held
    <3>2. pool_txs[1].take[v] = delegation[v] /\ delegation[v] \in Nat
      BY <1>1, <1>5, <2>1
    <3>3. delegation'[v] = delegation[v] - pool_txs[1].take[v] + pool_txs[1].give[v]
      BY <1>7, <2>1
    <3> QED BY <3>1, <3>2, <3>3
  <2>2. Held(delegation)' \subseteq rest
    BY <2>1 DEF Held
  <2> QED BY <1>2, <1>4, <1>6, <1>7, <2>2 DEF MovesAway
<1>8. ASSUME ack = "error" PROVE MovesAway(pool_txs[1])'
  <2>1. Held(delegation)' = Held(delegation)
    BY <1>8 DEF Held
  <2> QED BY <1>2, <1>4, <1>5, <1>6, <1>8, <2>1 DEF MovesAway
<1> QED BY <1>7, <1>8

\* A removal or replacement made on an up-to-date result takes all that is delegated
\* to the validator that goes.
LEMMA ChangeSent ==
    ASSUME RecordsOK, OneInFlight, KeysFollow, AllListed, Clean, UpToDate,
           validator_update_status = "End", validator_update_status' = "Start",
           UNCHANGED delegation,
           NEW type \in Changing, NEW v \in ToSet(validator_addrs),
           NEW towards \in Validators, NEW message \in Seq(Validators),
           NEW amount, amount = icq.amounts[v],
           Send(type, Only(v, amount), Only(towards, amount), message),
           NEW left, ToSet(validator_addrs) \ {v} \subseteq left, towards \in left,
           IF type = "RmValidator"
           THEN UNCHANGED validator_addrs /\ message[1] = v
                /\ left = ToSet(validator_addrs) \ {v}
           ELSE ToSet(message) = left
    PROVE  AllListed'
<1>1. /\ pool_txs = <<>> /\ keys = ToSet(validator_addrs) /\ icq.amounts = Visible
      /\ Held(delegation) \subseteq ToSet(validator_addrs)
  BY DEF UpToDate, AllListed, DelegatedListed
<1>2. v \in Validators /\ delegation \in [Validators -> Nat]
  BY ListedTyped DEF RecordsOK, Amounts
<1>3. amount = delegation[v] /\ amount \in Nat
  BY <1>1, <1>2 DEF Visible
<1>4. /\ Only(v, amount) \in Amounts /\ Only(towards, amount) \in Amounts
      /\ \A u \in Validators : Only(v, amount)[u] = IF u = v THEN amount ELSE 0
      /\ Held(Only(towards, amount)) \subseteq {towards}
      /\ type \in TxTypes /\ pool_txs \in Seq(Tx)
  BY <1>3, OnlyTyped DEF TxTypes, Changing, RecordsOK
<1>5. /\ Len(pool_txs') = 1
      /\ pool_txs'[1] = [tx_type |-> type, take |-> Only(v, amount),
                         give |-> Only(towards, amount), message |-> message,
                         ack |-> "none"]
  <2>1. Len(pool_txs) = 0
    BY <1>1
  <2> QED BY <1>4, <2>1, SentTx
<1> DEFINE take == Only(v, amount)
           give == Only(towards, amount)
<1>6. /\ pool_txs'[1].tx_type = type /\ pool_txs'[1].take = take
      /\ pool_txs'[1].give = give /\ pool_txs'[1].message = message
      /\ pool_txs'[1].ack = "none"
  BY <1>5
<1>7. /\ \A u \in Validators : take[u] = IF u = v THEN amount ELSE 0
      /\ Held(give) \subseteq left
  BY <1>4
<1> HIDE DEF take, give
<1>8. LeftAfter(pool_txs[1])' = left
  <2>1. ASSUME type = "RmValidator" PROVE LeftAfter(pool_txs[1])' = left
    BY <1>6, <2>1 DEF LeftAfter
  <2>2. ASSUME type # "RmValidator" PROVE LeftAfter(pool_txs[1])' = left
    BY <1>6, <2>2 DEF LeftAfter
  <2> QED BY <2>1, <2>2
<1>9. \A u \in Validators \ left : take[u] = delegation[u]
  <2> SUFFICES ASSUME NEW u \in Validators, u \notin left PROVE take[u] = delegation[u]
    OBVIOUS
  <2>1. CASE u = v
    BY <1>3, <1>7, <2>1
  <2>2. CASE u # v
    <3>1. u \notin Held(delegation)
      BY <1>1, <2>2
    <3>2. delegation[u] = 0
      BY <1>2, <3>1 DEF Held
    <3> QED BY <1>7, <2>2, <3>2
  <2> QED BY <2>1, <2>2
<1>10. Held(pool_txs[1].give)' \subseteq left
  BY <1>6, <1>7 DEF Held
<1>11. type = "RmValidator" => Held(delegation)' \subseteq ToSet(validator_addrs)'
  BY <1>1 DEF Held
<1>12. MovesAway(pool_txs[1])'
  BY <1>6, <1>8, <1>9, <1>10, <1>11 DEF MovesAway
<1> QED BY <1>5, <1>12 DEF AllListed

\* Where nothing is pending, sending amounts to validators of the list.
LEMMA GivenSent ==
    ASSUME RecordsOK, AllListed, Clean, validator_update_status = "End",
           UNCHANGED <<validator_addrs, validator_update_status, delegation>>,
           NEW type \in TxTypes, NEW take \in Amounts, NEW give \in Amounts,
           Held(give) \subseteq ToSet(validator_addrs), Send(type, take, give, <<>>)
    PROVE  AllListed'
<1> DEFINE n == Len(pool_txs) + 1
<1>1. pool_txs \in Seq(Tx) /\ <<>> \in Seq(Validators)
  BY DEF RecordsOK
<1>2. DelegatedListed /\ GivenListed
  BY DEF AllListed
<1>3. /\ DOMAIN pool_txs' = DOMAIN pool_txs \cup {n}
      /\ \A i \in DOMAIN pool_txs : pool_txs'[i] = pool_txs[i]
      /\ pool_txs'[n] = [tx_type |-> type, take |-> take, give |-> give,
                         message |-> <<>>, ack |-> "none"]
  BY <1>1, SentTx
<1>4. pool_txs'[n].give = give
  BY <1>3
<1> HIDE DEF n
<1>5. DelegatedListed' /\ GivenListed'
  <2>1. \A i \in DOMAIN pool_txs' : Held(pool_txs'[i].give) \subseteq ToSet(validator_addrs)
    BY <1>2, <1>3, <1>4 DEF GivenListed
  <2> QED BY <1>2, <2>1 DEF DelegatedListed, GivenListed, Held
<1> QED BY <1>5 DEF AllListed

\* With the delegations, the channel and the list as they are.
LEMMA ListedSame ==
    ASSUME AllListed, Clean,
           UNCHANGED <<validator_addrs, validator_update_status, delegation, pool_txs>>
    PROVE  AllListed'
  BY DEF AllListed, DelegatedListed, GivenListed, MovesAway, LeftAfter, Held

\* The callback of a redelegation is the last thing in the channel, and finds the
\* delegations where MovesAway says.
LEMMA ChangeAnswered ==
    ASSUME SetInv, AllListed, Clean, NEW type \in Changing, NEW ack, Answered(type, ack)
    PROVE  /\ pool_txs' = <<>> /\ DOMAIN pool_txs' = {}
           /\ Head(pool_txs) = pool_txs[1]
           /\ pool_txs[1].tx_type = type /\ pool_txs[1].ack = ack
           /\ MovesAway(pool_txs[1])
<1>1. pool_txs \in Seq(Tx)
  BY DEF SetInv, RecordsOK
<1>2. validator_update_status = "Start"
  BY AnswerBetweenEras
<1>3. Len(pool_txs) = 1 /\ MovesAway(pool_txs[1])
  BY <1>2 DEF AllListed
<1>4. /\ pool_txs' \in Seq(Tx) /\ Len(pool_txs') = 0
      /\ Head(pool_txs) = pool_txs[1]
      /\ pool_txs[1].tx_type = type /\ pool_txs[1].ack = ack
  BY <1>1, <1>3, AnsweredTx
<1>5. pool_txs' = <<>> /\ DOMAIN pool_txs' = {}
  BY <1>4
<1> QED BY <1>3, <1>4, <1>5

\* Another callback finds nothing pending.
LEMMA OtherAnswered ==
    ASSUME SetInv, AllListed, Clean, NEW type, type \notin Changing, NEW ack,
           Answered(type, ack),
           UNCHANGED <<validator_addrs, validator_update_status, delegation>>
    PROVE  AllListed'
<1>1. pool_txs \in Seq(Tx) /\ OneInFlight
      /\ validator_update_status \in {"End", "Start", "WaitQueryUpdate"}
  BY DEF SetInv, RecordsOK
<1>2. /\ 1 \in DOMAIN pool_txs /\ pool_txs[1].tx_type = type
      /\ \A i \in DOMAIN pool_txs' : i + 1 \in DOMAIN pool_txs /\ pool_txs'[i] = pool_txs[i + 1]
  BY <1>1, AnsweredTx
<1>3. validator_update_status # "Start"
  <2> SUFFICES ASSUME validator_update_status = "Start" PROVE FALSE
    OBVIOUS
  <2>1. Len(pool_txs) = 1
    BY DEF AllListed
  <2>2. DOMAIN pool_txs = {1}
    BY <1>1, <2>1
  <2>3. Redelegations = {1}
    BY <1>1, <2>2 DEF OneInFlight
  <2> QED BY <1>2, <2>3 DEF Redelegations, Changing
<1>4. validator_update_status # "WaitQueryUpdate"
  BY <1>2 DEF AllListed
<1>5. DelegatedListed /\ GivenListed /\ validator_update_status = "End"
  BY <1>1, <1>3, <1>4 DEF AllListed
<1>6. \A i \in DOMAIN pool_txs' : Held(pool_txs'[i].give) \subseteq ToSet(validator_addrs)
  BY <1>2, <1>5 DEF GivenListed
<1>7. DelegatedListed' /\ GivenListed'
  BY <1>5, <1>6 DEF DelegatedListed, GivenListed, Held
<1> QED BY <1>5, <1>7 DEF AllListed

\* The host's decision moves amounts towards validators of the list.
LEMMA HostListed ==
    ASSUME SetInv, AllListed, Clean, NEW i \in DOMAIN pool_txs,
           host_executes(i) \/ host_refuses(i)
    PROVE  AllListed'
<1>1. /\ RecordsOK /\ pool_txs \in Seq(Tx) /\ delegation \in [Validators -> Nat]
      /\ validator_update_status \in {"End", "Start", "WaitQueryUpdate"}
  BY DEF SetInv, RecordsOK, Amounts
<1>2. /\ UNCHANGED <<validator_addrs, validator_update_status>>
      /\ pool_txs[i].ack = "none"
      /\ \/ /\ pool_txs' = [pool_txs EXCEPT ![i].ack = "ok"]
            /\ delegation' = [v \in Validators |-> delegation[v] - pool_txs[i].take[v]
                                                   + pool_txs[i].give[v]]
         \/ /\ pool_txs' = [pool_txs EXCEPT ![i].ack = "error"]
            /\ UNCHANGED delegation
  BY DEF host_executes, host_refuses, NextToHandle, pool_vars
<1>3. /\ DOMAIN pool_txs' = DOMAIN pool_txs /\ Len(pool_txs') = Len(pool_txs)
      /\ \A j \in DOMAIN pool_txs : /\ pool_txs[j] \in Tx
                                    /\ pool_txs'[j].give = pool_txs[j].give
  BY <1>1, <1>2, DecidedTx
<1>4. ASSUME validator_update_status = "End" PROVE AllListed'
  <2>1. DelegatedListed /\ GivenListed
    BY <1>4 DEF AllListed
  <2>2. \A v \in Validators : v \notin ToSet(validator_addrs) => ~(delegation'[v] > 0)
    <3> SUFFICES ASSUME NEW v \in Validators, v \notin ToSet(validator_addrs)
                 PROVE  ~(delegation'[v] > 0)
      OBVIOUS
    <3>1. pool_txs[i].take[v] \in Nat /\ pool_txs[i].give[v] \in Nat /\ delegation[v] \in Nat
      BY <1>1, <1>3 DEF Tx, Amounts
    <3>2. delegation[v] = 0 /\ pool_txs[i].give[v] = 0
      BY <2>1, <3>1 DEF DelegatedListed, GivenListed, Held
    <3>3. \/ delegation'[v] = delegation[v] - pool_txs[i].take[v] + pool_txs[i].give[v]
          \/ delegation'[v] = delegation[v]
      BY <1>2
    <3> QED BY <3>1, <3>2, <3>3
  <2>3. DelegatedListed'
    BY <1>2, <2>2 DEF DelegatedListed, Held
  <2>4. GivenListed'
    <3>1. \A j \in DOMAIN pool_txs' :
              Held(pool_txs'[j].give) \subseteq ToSet(validator_addrs)
      BY <1>3, <2>1 DEF GivenListed
    <3> QED BY <1>2, <3>1 DEF GivenListed, Held
  <2> QED BY <1>2, <1>4, <2>3, <2>4 DEF AllListed
<1>5. ASSUME validator_update_status = "Start" PROVE AllListed'
  <2>1. Len(pool_txs) = 1 /\ MovesAway(pool_txs[1])
    BY <1>5 DEF AllListed
  <2>2. i = 1
    BY <1>1, <2>1
  <2>3. MovesAway(pool_txs[1])'
    <3>1. CASE /\ pool_txs' = [pool_txs EXCEPT ![i].ack = "ok"]
               /\ delegation' = [v \in Validators |-> delegation[v] - pool_txs[i].take[v]
                                                      + pool_txs[i].give[v]]
      BY <1>1, <1>2, <2>1, <2>2, <3>1, MovesDecided
    <3>2. CASE /\ pool_txs' = [pool_txs EXCEPT ![i].ack = "error"]
               /\ UNCHANGED delegation
      BY <1>1, <1>2, <2>1, <2>2, <3>2, MovesDecided
    <3> QED BY <1>2, <3>1, <3>2
  <2> QED BY <1>2, <1>3, <1>5, <2>1, <2>3 DEF AllListed
<1>6. ASSUME validator_update_status = "WaitQueryUpdate" PROVE FALSE
  <2>1. pool_txs = <<>>
    BY <1>6 DEF AllListed
  <2> QED BY <2>1
<1> QED BY <1>1, <1>4, <1>5, <1>6

\* Every step leaves what is delegated on the list.
LEMMA ListedKept ==
    ASSUME SetInv, ListOK, AllListed, Next
    PROVE  AllListed'
<1> SUFFICES ASSUME Clean' PROVE AllListed'
  BY DEF AllListed
<1>1. /\ RecordsOK /\ OneInFlight /\ EraWaits /\ KeysFollow /\ pool_txs \in Seq(Tx)
      /\ validator_addrs \in Seq(Validators) /\ IsList(validator_addrs)
      /\ validator_update_status \in {"End", "Start", "WaitQueryUpdate"}
      /\ replacement_failed \in BOOLEAN /\ outdated_read \in BOOLEAN
      /\ icq.amounts \in Amounts
  BY DEF SetInv, RecordsOK, ListOK
<1>2. Clean
  <2> DEFINE Remembered == (replacement_failed => replacement_failed')
                           /\ (outdated_read => outdated_read')
  <2>1. AdminStep => Remembered
    <3>1. ASSUME NEW x, replacement_failed' = replacement_failed,
                 outdated_read' = (outdated_read \/ x)
          PROVE  Remembered
      BY <3>1
    <3>2. ASSUME NEW v \in Validators, execute_rm_pool_validator(v) PROVE Remembered
      BY <3>1, <3>2 DEF execute_rm_pool_validator, Reads
    <3>3. ASSUME NEW old \in Validators, NEW new \in Validators,
                 execute_pool_update_validator(old, new)
          PROVE  Remembered
      BY <3>1, <3>3 DEF execute_pool_update_validator, Reads
    <3>4. execute_pool_delegate(1) => Remembered
      BY <3>1 DEF execute_pool_delegate
    <3>5. ASSUME NEW v \in Validators, execute_add_pool_validators(v) PROVE Remembered
      BY <3>5 DEF execute_add_pool_validators, history_vars
    <3>6. execute_update_validators_icq => Remembered
      BY DEF execute_update_validators_icq, history_vars
    <3> HIDE DEF Remembered
    <3> QED BY <3>2, <3>3, <3>4, <3>5, <3>6 DEF AdminStep
  <2>2. EraStep => Remembered
    BY DEF EraStep, execute_era_update, execute_era_bond, execute_era_active, history_vars
  <2>3. Callback => Remembered
    BY DEF Callback, sudo_rm_validator_callback, sudo_rm_validator_failed_callback,
           sudo_update_validator_callback, sudo_update_validator_failed_callback,
           sudo_era_bond_callback, sudo_era_bond_failed_callback, sudo_without_payload,
           history_vars
  <2>4. HostStep => Remembered
    BY DEF HostStep, host_executes, host_refuses, relayer_submits_delegations, history_vars
  <2> QED BY <2>1, <2>2, <2>3, <2>4 DEF Next, Clean
<1>3. ASSUME NEW v \in Validators, execute_add_pool_validators(v) PROVE AllListed'
  <2>1. /\ validator_addrs' = Append(validator_addrs, v)
        /\ UNCHANGED <<validator_update_status, delegation, pool_txs>>
    BY <1>3 DEF execute_add_pool_validators
  <2>2. ToSet(validator_addrs) \subseteq ToSet(validator_addrs')
    BY <1>1, <2>1, AppendedList
  <2>3. \A tx : LeftAfter(tx) \subseteq LeftAfter(tx)'
    BY <2>2 DEF LeftAfter
  <2>4. \A tx : MovesAway(tx) => MovesAway(tx)'
    BY <2>1, <2>2, <2>3 DEF MovesAway, Held
  <2>5. /\ DelegatedListed => DelegatedListed'
        /\ GivenListed => GivenListed'
    BY <2>1, <2>2 DEF DelegatedListed, GivenListed, Held
  <2> QED BY <1>2, <2>1, <2>4, <2>5 DEF AllListed
<1>4. ASSUME execute_update_validators_icq PROVE AllListed'
  <2>1. /\ validator_update_status = "WaitQueryUpdate" /\ validator_update_status' = "End"
        /\ UNCHANGED <<validator_addrs, delegation, pool_txs>>
    BY <1>4 DEF execute_update_validators_icq
  <2>2. DelegatedListed /\ DOMAIN pool_txs = {}
    BY <1>2, <2>1 DEF AllListed
  <2>3. DelegatedListed' /\ GivenListed'
    BY <2>1, <2>2 DEF DelegatedListed, GivenListed, Held
  <2> QED BY <2>1, <2>3 DEF AllListed
<1>5. ASSUME NEW v \in Validators, execute_rm_pool_validator(v) PROVE AllListed'
  <2> DEFINE amount == icq.amounts[v]
             left == Retain(validator_addrs, v)
  <2>1. /\ v \in ToSet(validator_addrs) /\ validator_update_status = "End"
        /\ Len(validator_addrs) > 1
        /\ UNCHANGED delegation /\ outdated_read' = (outdated_read \/ ~UpToDate)
    BY <1>5 DEF execute_rm_pool_validator, Removable, Reads
  <2>2. UpToDate
    BY <2>1 DEF Clean
  <2>3. left \in Seq(Validators) /\ ToSet(left) = ToSet(validator_addrs) \ {v}
    BY <1>1, RetainedList
  <2>4. CASE /\ amount = 0
             /\ validator_update_status' = "WaitQueryUpdate"
             /\ validator_addrs' = left
             /\ UNCHANGED pool_txs
    <3>1. /\ pool_txs = <<>> /\ amount = delegation[v]
          /\ Held(delegation) \subseteq ToSet(validator_addrs)
      BY <1>2, <2>1, <2>2 DEF UpToDate, Visible, AllListed, DelegatedListed
    <3>2. DelegatedListed'
      BY <2>1, <2>3, <2>4, <3>1 DEF DelegatedListed, Held
    <3> QED BY <2>4, <3>1, <3>2 DEF AllListed
  <2>5. CASE /\ Send("RmValidator", Only(v, amount), Only(Head(left), amount), <<v>>)
             /\ validator_update_status' = "Start"
             /\ UNCHANGED validator_addrs
    <3>1. Head(left) \in ToSet(left)
      <4>1. Len(left) = Len(validator_addrs) - 1
        BY <1>1, <2>1, RetainedLen DEF IsList
      <4>2. left # <<>>
        BY <1>1, <2>1, <2>3, <4>1
      <4> HIDE DEF left
      <4> QED BY <2>3, <4>2, ListedTyped
    <3> DEFINE towards == Head(left)
               rest == ToSet(left)
    <3>2. /\ towards \in rest /\ towards \in Validators
          /\ rest = ToSet(validator_addrs) \ {v}
          /\ <<v>> \in Seq(Validators) /\ <<v>>[1] = v
          /\ "RmValidator" \in Changing
          /\ Send("RmValidator", Only(v, amount), Only(towards, amount), <<v>>)
      BY <1>1, <2>3, <2>5, <3>1, ListedTyped DEF Changing
    <3> DEFINE message == <<v>>
               a == amount
    <3>3. /\ message \in Seq(Validators) /\ message[1] = v
          /\ Send("RmValidator", Only(v, a), Only(towards, a), message)
          /\ a = icq.amounts[v]
      BY <3>2
    <3> HIDE DEF amount, left, towards, rest, message, a
    <3> QED BY <1>1, <1>2, <2>1, <2>2, <2>5, <3>2, <3>3, ChangeSent, SMTT(30)
  <2> QED BY <1>5, <2>4, <2>5 DEF execute_rm_pool_validator
<1>6. ASSUME NEW old \in Validators, NEW new \in Validators,
             execute_pool_update_validator(old, new)
      PROVE  AllListed'
  <2> DEFINE amount == icq.amounts[old]
             list == Append(Retain(validator_addrs, old), new)
  <2>1. /\ old \in ToSet(validator_addrs) /\ validator_update_status = "End"
        /\ UNCHANGED delegation /\ outdated_read' = (outdated_read \/ ~UpToDate)
        /\ validator_addrs' = list
    BY <1>6 DEF execute_pool_update_validator, Replaceable, Reads
  <2>2. UpToDate
    BY <2>1 DEF Clean
  <2>3. /\ list \in Seq(Validators)
        /\ ToSet(list) = (ToSet(validator_addrs) \ {old}) \cup {new}
    BY <1>1, RetainedList, AppendedList
  <2>4. CASE /\ amount = 0
             /\ validator_update_status' = "WaitQueryUpdate"
             /\ UNCHANGED pool_txs
    <3>1. /\ pool_txs = <<>> /\ amount = delegation[old]
          /\ Held(delegation) \subseteq ToSet(validator_addrs)
      BY <1>2, <2>1, <2>2 DEF UpToDate, Visible, AllListed, DelegatedListed
    <3>2. DelegatedListed'
      BY <2>1, <2>3, <2>4, <3>1 DEF DelegatedListed, Held
    <3> QED BY <2>4, <3>1, <3>2 DEF AllListed
  <2>5. CASE /\ Send("UpdateValidator", Only(old, amount), Only(new, amount), list)
             /\ validator_update_status' = "Start"
    <3> DEFINE left == ToSet(list)
               a == amount
    <3>1. /\ ToSet(validator_addrs) \ {old} \subseteq left /\ new \in left
          /\ ToSet(list) = left /\ "UpdateValidator" \in Changing
          /\ a = icq.amounts[old]
          /\ Send("UpdateValidator", Only(old, a), Only(new, a), list)
      BY <2>3, <2>5 DEF Changing
    <3> HIDE DEF amount, list, left, a
    <3> QED BY <1>1, <1>2, <2>1, <2>2, <2>3, <2>5, <3>1, ChangeSent
  <2> QED BY <1>6, <2>4, <2>5 DEF execute_pool_update_validator
<1>7. ASSUME execute_pool_delegate(1) PROVE AllListed'
  <2> DEFINE give == Split(validator_addrs, 1)
  <2>1. /\ Send("PoolDelegate", NoAmounts, give, <<>>) /\ validator_addrs # <<>>
        /\ UNCHANGED <<validator_addrs, validator_update_status, delegation>>
        /\ validator_update_status = "End"
    BY <1>7 DEF execute_pool_delegate, pool_vars, Clean
  <2>2. /\ "PoolDelegate" \in TxTypes /\ NoAmounts \in Amounts /\ give \in Amounts
        /\ Held(give) \subseteq ToSet(validator_addrs)
    BY <1>1, <2>1, OnlyTyped, SplitTyped DEF TxTypes
  <2> HIDE DEF give
  <2> QED BY <1>1, <1>2, <2>1, <2>2, GivenSent
<1>8. ASSUME execute_era_bond PROVE AllListed'
  <2>1. PICK take, give \in Amounts : /\ Send("EraBond", take, give, <<>>)
                                      /\ Held(give) \subseteq ToSet(validator_addrs)
    BY <1>1, <1>8, BondSent
  <2>2. /\ UNCHANGED <<validator_addrs, validator_update_status, delegation>>
        /\ validator_update_status = "End" /\ "EraBond" \in TxTypes
    BY <1>1, <1>8 DEF execute_era_bond, EraWaits, TxTypes
  <2> QED BY <1>1, <1>2, <2>1, <2>2, GivenSent
<1>9. ASSUME sudo_rm_validator_callback PROVE AllListed'
  <2>1. /\ Answered("RmValidator", "ok") /\ "RmValidator" \in Changing
        /\ validator_addrs' = Retain(validator_addrs, Head(pool_txs).message[1])
        /\ validator_update_status' = "WaitQueryUpdate" /\ UNCHANGED delegation
    BY <1>9 DEF sudo_rm_validator_callback, Changing
  <2>2. /\ pool_txs' = <<>> /\ Head(pool_txs) = pool_txs[1]
        /\ pool_txs[1].tx_type = "RmValidator" /\ pool_txs[1].ack = "ok"
        /\ MovesAway(pool_txs[1])
    BY <1>2, <2>1, ChangeAnswered
  <2>3. Held(delegation) \subseteq ToSet(validator_addrs) \ {pool_txs[1].message[1]}
    BY <2>2 DEF MovesAway, LeftAfter
  <2>4. ToSet(validator_addrs') = ToSet(validator_addrs) \ {pool_txs[1].message[1]}
    BY <1>1, <2>1, <2>2, RetainedList
  <2>5. DelegatedListed'
    BY <2>1, <2>3, <2>4 DEF DelegatedListed, Held
  <2> QED BY <2>1, <2>2, <2>5 DEF AllListed
<1>10. ASSUME sudo_rm_validator_failed_callback PROVE AllListed'
  <2>1. /\ Answered("RmValidator", "error") /\ "RmValidator" \in Changing
        /\ validator_update_status' = "End" /\ UNCHANGED <<validator_addrs, delegation>>
    BY <1>10 DEF sudo_rm_validator_failed_callback, Changing
  <2>2. /\ DOMAIN pool_txs' = {} /\ pool_txs[1].tx_type = "RmValidator"
        /\ pool_txs[1].ack = "error" /\ MovesAway(pool_txs[1])
    BY <1>2, <2>1, ChangeAnswered
  <2>3. DelegatedListed' /\ GivenListed'
    BY <2>1, <2>2 DEF MovesAway, DelegatedListed, GivenListed, Held
  <2> QED BY <2>1, <2>3 DEF AllListed
<1>11. ASSUME sudo_update_validator_callback PROVE AllListed'
  <2>1. /\ Answered("UpdateValidator", "ok") /\ "UpdateValidator" \in Changing
        /\ validator_addrs' = Head(pool_txs).message
        /\ validator_update_status' = "WaitQueryUpdate" /\ UNCHANGED delegation
    BY <1>11 DEF sudo_update_validator_callback, Changing
  <2>2. /\ pool_txs' = <<>> /\ Head(pool_txs) = pool_txs[1]
        /\ pool_txs[1].tx_type = "UpdateValidator" /\ pool_txs[1].ack = "ok"
        /\ MovesAway(pool_txs[1])
    BY <1>2, <2>1, ChangeAnswered
  <2>3. DelegatedListed'
    BY <2>1, <2>2 DEF MovesAway, LeftAfter, DelegatedListed, Held
  <2> QED BY <2>1, <2>2, <2>3 DEF AllListed
<1>12. ASSUME sudo_update_validator_failed_callback PROVE FALSE
  BY <1>12 DEF sudo_update_validator_failed_callback, Clean
<1>13. CASE AdminStep
  BY <1>3, <1>4, <1>5, <1>6, <1>7, <1>13 DEF AdminStep
<1>14. CASE EraStep
  <2>1. execute_era_active \/ (\E n \in Nets : execute_era_update(n))
            => UNCHANGED <<validator_addrs, validator_update_status, delegation, pool_txs>>
    BY DEF execute_era_active, execute_era_update
  <2> QED BY <1>2, <1>8, <1>14, <2>1, ListedSame DEF EraStep
<1>15. CASE Callback
  <2>1. \/ sudo_era_bond_callback \/ sudo_era_bond_failed_callback \/ sudo_without_payload
        => \E type, ack :
               /\ Answered(type, ack) /\ type \notin Changing
               /\ UNCHANGED <<validator_addrs, validator_update_status, delegation>>
    BY DEF sudo_era_bond_callback, sudo_era_bond_failed_callback, sudo_without_payload,
           pool_vars, Changing
  <2> QED BY <1>2, <1>9, <1>10, <1>11, <1>12, <1>15, <2>1, OtherAnswered DEF Callback
<1>16. CASE HostStep
  <2>1. relayer_submits_delegations
            => UNCHANGED <<validator_addrs, validator_update_status, delegation, pool_txs>>
    BY DEF relayer_submits_delegations, pool_vars
  <2> QED BY <1>2, <1>16, <2>1, HostListed, ListedSame DEF HostStep
<1> QED BY <1>13, <1>14, <1>15, <1>16 DEF Next

\* All of that holds in every reachable state, if the first list names no validator
\* twice.
THEOREM InvariantTheorem == Spec => []IInv
<1>1. Init => ListOK /\ AllListed
  <2> SUFFICES ASSUME Init PROVE ListOK /\ AllListed
    OBVIOUS
  <2>1. IsList(validator_addrs) /\ DOMAIN pool_txs = {}
    BY ValidatorAssumption, InitialAssumption DEF Init, IsList
  <2>2. Held(delegation) = {} /\ validator_update_status = "End"
    BY OnlyTyped DEF Init
  <2> QED BY <2>1, <2>2 DEF ListOK, AllListed, DelegatedListed, GivenListed
<1>2. /\ ListOK /\ AllListed
      /\ SetInv /\ BondAlone
      /\ [Next]_vars
      => (ListOK /\ AllListed)'
  <2> SUFFICES ASSUME ListOK, AllListed, SetInv, UNCHANGED vars
               PROVE  ListOK' /\ AllListed'
    BY ListKept, ListedKept
  <2>1. ListOK'
    BY DEF vars, pool_vars, ListOK, IsList, PayloadOK
  <2>2. AllListed'
    BY DEF vars, pool_vars, history_vars, AllListed, Clean, DelegatedListed, GivenListed,
           MovesAway, LeftAfter, Held
  <2> QED BY <2>1, <2>2
<1>3. ListOK /\ AllListed /\ SetInv /\ BondAlone => IInv
  BY DEF IInv
<1> QED BY <1>1, <1>2, <1>3, SetTheorem, PTL DEF Spec

\* The pool's records keep their types; its list never is empty or longer than
\* VALIDATER_LEN_LIMIT and names no validator twice.
THEOREM TypeTheorem == Spec => []TypeOK
<1>1. IInv => TypeOK
  <2> SUFFICES ASSUME IInv PROVE TypeOK
    OBVIOUS
  <2>1. RecordsOK /\ IsList(validator_addrs)
    BY DEF IInv, SetInv, ListOK
  <2>2. Cardinality(ToSet(validator_addrs)) = Len(validator_addrs)
    <3>1. ToSet(validator_addrs) = Elements(validator_addrs)
      BY DEF ToSet, Elements
    <3>2. validator_addrs \in Seq(Validators) /\ IsInjective(validator_addrs)
      BY <2>1 DEF RecordsOK, IsList
    <3> QED BY <3>1, <3>2, InjectiveCounts
  <2> QED BY <2>1, <2>2 DEF TypeOK, RecordsOK, IsList
<1> QED BY <1>1, InvariantTheorem, PTL

\* With no change pending, every delegation is seen by the query, as long as the
\* changes were made on up-to-date results and no replacement failed.
THEOREM StrandedTheorem == Spec => []NothingStranded
<1>1. IInv => NothingStranded
  <2> SUFFICES ASSUME IInv, validator_update_status = "End",
                      ~replacement_failed, ~outdated_read,
                      NEW v \in Validators, delegation[v] > 0
               PROVE  v \in keys
    BY DEF NothingStranded
  <2>1. keys = ToSet(validator_addrs)
    BY DEF IInv, SetInv, KeysFollow
  <2>2. DelegatedListed
    BY DEF IInv, AllListed, Clean
  <2> QED BY <2>1, <2>2 DEF DelegatedListed, Held
<1> QED BY <1>1, InvariantTheorem, PTL

=============================================================================
