------------------------- MODULE PoolLifecycleProofs -------------------------
(***************************************************************************)
(* Proofs about PoolLifecycle: a pool that takes stakes is complete, its   *)
(* queries have one period, and it never falls back to its initialisation. *)
(*                                                                         *)
(* The reply ids and the query ids are counted apart, one by the contract  *)
(* and one by the chain.  The invariant says that they keep step: the nth  *)
(* query ever registered has the nth id of the range, since every          *)
(* registration takes both and the range is never gone round.  From that a *)
(* key leads to the query registered for it, whatever was registered after.*)
(***************************************************************************)
EXTENDS PoolLifecycle, DataProofs, SequenceTheorems

START == QUERY_REPLY_ID_RANGE_START
RangeSize == QUERY_REPLY_ID_RANGE_END - QUERY_REPLY_ID_RANGE_START + 1

\* The pools whose queries are registered.
Pools == {id \in IcaIds : status[id] \notin {"none", "RegisterEnded"}}

ValidatorsKey(id) == <<<<id, "pool">>, "validators">>
OtherKeys(id) == {<<<<id, "pool">>, "balances">>, <<<<id, "withdraw">>, "balances">>,
                  <<<<id, "pool">>, "delegations">>}
KeysOf(id) == OtherKeys(id) \cup {ValidatorsKey(id)}

\* The host's address for an account is its port.
AddressIsPort ==
    \A id \in DOMAIN info_of_ica_id, kind \in {"pool", "withdraw"} :
        info_of_ica_id[id][kind].ica_addr \in {NoAddr, <<id, kind>>}

OpenedIsRegistered ==
    \A port \in Ports :
        channels[port].state # "none" => port[1] \in DOMAIN info_of_ica_id

\* The nth query has the nth reply id, and every pool has taken four of each.
IdsKeepStep ==
    /\ Len(queries) = 4 * Cardinality(Pools)
    /\ next_query_reply_id = START + (Len(queries) % RangeSize)
    /\ DOMAIN reply_id_to_query_id = START..(START + Len(queries) - 1)
    /\ \A r \in DOMAIN reply_id_to_query_id : reply_id_to_query_id[r] = r - START + 1

\* A key leads to the query registered for it.
KeysFound ==
    /\ \A id \in Pools : KeysOf(id) \subseteq DOMAIN address_to_reply_id
    /\ \A key \in DOMAIN address_to_reply_id :
           /\ address_to_reply_id[key] \in DOMAIN reply_id_to_query_id
           /\ queries[get_query_id(key)].key = key

\* What waits for its first result is a validators query, found by its reply id.
FirstResults ==
    /\ \A q \in DOMAIN query_id_to_reply_id :
           /\ q \in DOMAIN queries
           /\ query_id_to_reply_id[q] = START + q - 1
           /\ query_id_to_reply_id[q] \in reply_id_to_need_update
           /\ queries[q].key[2] = "validators"
    /\ reply_id_to_need_update \subseteq DOMAIN reply_id_to_query_id

\* Until the first result the other three have the default period, which is what
\* the validators query gets then; afterwards all four change together.  What the
\* admin or an era set before the first result is excepted.
PeriodsKept ==
    \A id \in Pools : ~early_period[id] =>
        IF get_query_id(ValidatorsKey(id)) \in DOMAIN query_id_to_reply_id
        THEN \A key \in OtherKeys(id) : queries[get_query_id(key)].period = "default"
        ELSE \A k, l \in KeysOf(id) :
                 queries[get_query_id(k)].period = queries[get_query_id(l)].period

\* An era has made the three queries it waits for fast.
EraFast ==
    \A id \in Pools : status[id] = "EraRunning" =>
        \A key \in OtherKeys(id) : queries[get_query_id(key)].period = "fast"

QueriesKept == IdsKeepStep /\ KeysFound /\ FirstResults /\ PeriodsKept /\ EraFast

\* Every transaction names the pool's withdraw account, and one has been executed
\* before the pool runs.
RewardsSet ==
    \A id \in IcaIds :
        /\ \A i \in DOMAIN txs[id] : txs[id][i].withdraw_address = <<id, "withdraw">>
        /\ \/ status[id] \in Running
           \/ \E i \in DOMAIN txs[id] : txs[id][i].ack = "ok"
           => withdraw_address[id] = <<id, "withdraw">>

AllBacked == \A id \in IcaIds : backed[id]

\* Nothing is in flight before the initialisation or after it, unless InitPool was
\* repeated with an outcome outstanding.
OneOutcome ==
    \A id \in IcaIds :
        /\ id \notin Pools => txs[id] = <<>>
        /\ ~overlapped[id] =>
               Len(txs[id]) <= 1 /\ (status[id] \in Running => txs[id] = <<>>)

TxsKept == RewardsSet /\ OneOutcome

AccountsKept == AddressIsPort /\ OpenedIsRegistered

IInv == TypeOK /\ AccountsKept /\ QueriesKept /\ TxsKept /\ AllBacked

-----------------------------------------------------------------------------
(***************************************************************************)
(* Data.                                                                   *)
(***************************************************************************)
\* Removing an element moves the later ones down.
LEMMA RemoveAtFacts ==
    ASSUME NEW S, NEW s \in Seq(S), NEW i \in DOMAIN s
    PROVE  /\ RemoveAt(s, i) \in Seq(S)
           /\ Len(RemoveAt(s, i)) = Len(s) - 1
           /\ \A j \in 1..Len(s) - 1 :
                  RemoveAt(s, i)[j] = IF j < i THEN s[j] ELSE s[j + 1]
<1> DEFINE a == SubSeq(s, 1, i - 1)
           b == SubSeq(s, i + 1, Len(s))
<1>1. Len(s) \in Nat /\ i \in 1..Len(s) /\ \A j \in 1..Len(s) : s[j] \in S
  OBVIOUS
<1>2. /\ a \in Seq(S) /\ Len(a) = i - 1
      /\ \A j \in 1..(i - 1) : a[j] = s[j]
  <2>1. \A j \in 1..(i - 1) : s[j] \in S
    BY <1>1
  <2>2. i - 1 \in Int
    BY <1>1
  <2>3. /\ a \in Seq(S) /\ Len(a) = IF 1 <= i - 1 THEN i - 1 - 1 + 1 ELSE 0
        /\ \A j \in 1..(i - 1 - 1 + 1) : a[j] = s[1 + j - 1]
    BY <2>1, <2>2, SubSeqProperties
  <2> QED BY <1>1, <2>3
<1>3. /\ b \in Seq(S) /\ Len(b) = Len(s) - i
      /\ \A j \in 1..(Len(s) - i) : b[j] = s[i + j]
  <2>1. \A j \in (i + 1)..Len(s) : s[j] \in S
    BY <1>1
  <2>2. i + 1 \in Int /\ Len(s) \in Int
    BY <1>1
  <2>3. /\ b \in Seq(S) /\ Len(b) = IF i + 1 <= Len(s) THEN Len(s) - (i + 1) + 1 ELSE 0
        /\ \A j \in 1..(Len(s) - (i + 1) + 1) : b[j] = s[i + 1 + j - 1]
    BY <2>1, <2>2, SubSeqProperties
  <2> QED BY <1>1, <2>3
<1> HIDE DEF a, b
<1>4. /\ a \o b \in Seq(S)
      /\ Len(a \o b) = Len(a) + Len(b)
      /\ \A j \in 1..Len(a) + Len(b) :
             (a \o b)[j] = IF j <= Len(a) THEN a[j] ELSE b[j - Len(a)]
  BY <1>2, <1>3, ConcatProperties
<1>5. Len(a \o b) = Len(s) - 1
  BY <1>1, <1>2, <1>3, <1>4
<1>6. ASSUME NEW j \in 1..Len(s) - 1
      PROVE  (a \o b)[j] = IF j < i THEN s[j] ELSE s[j + 1]
  <2>1. j \in 1..Len(a) + Len(b)
    BY <1>1, <1>2, <1>3, <1>6
  <2>2. CASE j < i
    <3>1. j <= Len(a) /\ j \in 1..(i - 1)
      BY <1>1, <1>2, <1>6, <2>2
    <3> QED BY <1>2, <1>4, <2>1, <2>2, <3>1
  <2>3. CASE ~(j < i)
    <3>1. ~(j <= Len(a)) /\ j - Len(a) \in 1..(Len(s) - i) /\ i + (j - Len(a)) = j + 1
      BY <1>1, <1>2, <1>6, <2>3
    <3> QED BY <1>3, <1>4, <2>1, <2>3, <3>1
  <2> QED BY <2>2, <2>3
<1>7. RemoveAt(s, i) = a \o b
  BY DEF RemoveAt, a, b
<1> QED BY <1>4, <1>5, <1>6, <1>7

\* What a number below the size of the range is modulo it.
LEMMA ModSmall ==
    ASSUME NEW n \in Nat \ {0}, NEW a \in 0..(n - 1)
    PROVE  a % n = a
  OBVIOUS

\* A remainder is in range.
LEMMA ModRange ==
    ASSUME NEW n \in Nat \ {0}, NEW a \in Nat
    PROVE  a % n \in 0..(n - 1)
  OBVIOUS

-----------------------------------------------------------------------------
(***************************************************************************)
(* Counting pools and ids.                                                 *)
(***************************************************************************)
\* The range.
LEMMA RangeFacts ==
    /\ START \in Nat /\ RangeSize \in Nat \ {0}
    /\ QUERY_REPLY_ID_RANGE_END = START + RangeSize - 1
BY LifecycleAssumption DEF START, RangeSize

\* There are finitely many accounts.
LEMMA PortsFinite == IsFiniteSet(Ports)
<1>1. IsFiniteSet({"pool", "withdraw"})
  <2>1. IsFiniteSet({"pool"}) /\ IsFiniteSet({"withdraw"})
    BY FS_Singleton
  <2>2. {"pool", "withdraw"} = {"pool"} \cup {"withdraw"}
    OBVIOUS
  <2> QED BY <2>1, <2>2, FS_Union
<1> QED BY <1>1, LifecycleAssumption, FS_Product DEF Ports

\* The closed channels can be counted.
LEMMA ClosedCounted ==
    Cardinality({port \in Ports : channels[port].state = "closed"}) \in Nat
BY PortsFinite, FS_Subset, FS_CardinalityType

\* The initialised pools can be counted, and with one more they still fit.
LEMMA PoolsCounted ==
    /\ IsFiniteSet(Pools) /\ Cardinality(Pools) \in Nat
    /\ \A id \in IcaIds \ Pools :
           /\ Cardinality(Pools \cup {id}) = Cardinality(Pools) + 1
           /\ 4 * (Cardinality(Pools) + 1) <= RangeSize
<1>1. IsFiniteSet(Pools) /\ Cardinality(Pools) \in Nat
  BY LifecycleAssumption, FS_Subset, FS_CardinalityType DEF Pools
<1>2. ASSUME NEW id \in IcaIds \ Pools
      PROVE  /\ Cardinality(Pools \cup {id}) = Cardinality(Pools) + 1
             /\ 4 * (Cardinality(Pools) + 1) <= RangeSize
  <2>1. Cardinality(Pools \cup {id}) = Cardinality(Pools) + 1
    BY <1>1, <1>2, FS_AddElement
  <2>2. Pools \cup {id} \subseteq IcaIds
    BY <1>2 DEF Pools
  <2>3. /\ Cardinality(Pools \cup {id}) <= Cardinality(IcaIds)
        /\ Cardinality(IcaIds) \in Nat
    BY <2>2, LifecycleAssumption, FS_Subset, FS_CardinalityType
  <2>4. 4 * Cardinality(IcaIds) <= RangeSize
    BY RangeAssumption DEF RangeSize
  <2> QED BY <1>1, <2>1, <2>3, <2>4, RangeFacts
<1> QED BY <1>1, <1>2

\* A pool that is initialised gets the four ids that follow the last.
LEMMA ReplyIds ==
    ASSUME IdsKeepStep, NEW id \in IcaIds \ Pools
    PROVE  /\ Len(queries) \in Nat /\ Len(queries) + 4 <= RangeSize
           /\ \A k \in 0..3 : ReplyId(k) = START + Len(queries) + k
           /\ ReplyId(4) = START + ((Len(queries) + 4) % RangeSize)
<1> DEFINE n == Len(queries)
<1>1. n \in Nat /\ n + 4 <= RangeSize
  <2>1. /\ Cardinality(Pools) \in Nat /\ 4 * (Cardinality(Pools) + 1) <= RangeSize
        /\ n = 4 * Cardinality(Pools)
    BY PoolsCounted DEF IdsKeepStep
  <2> QED BY ONLY <2>1, RangeFacts
<1>2. n % RangeSize = n
  BY <1>1, RangeFacts, ModSmall
<1>3. next_query_reply_id - START = n
  BY <1>1, <1>2, RangeFacts DEF IdsKeepStep
<1>4. \A k \in 0..4 : ReplyId(k) = START + ((n + k) % RangeSize)
  BY <1>3 DEF ReplyId, START, RangeSize
<1>5. \A k \in 0..3 : (n + k) % RangeSize = n + k
  BY <1>1, RangeFacts, ModSmall
<1>6. \A k \in 0..3 : ReplyId(k) = START + n + k
  <2> TAKE k \in 0..3
  <2>1. k \in 0..4 /\ k \in Nat
    OBVIOUS
  <2>2. ReplyId(k) = START + ((n + k) % RangeSize) /\ (n + k) % RangeSize = n + k
    BY <1>4, <1>5, <2>1
  <2>3. ReplyId(k) = START + (n + k)
    BY <2>2
  <2>4. n \in Nat /\ START \in Nat
    BY <1>1, RangeFacts
  <2> HIDE DEF n
  <2> QED BY ONLY <2>1, <2>3, <2>4
<1>7. ReplyId(4) = START + ((n + 4) % RangeSize)
  BY <1>4
<1> QED BY <1>1, <1>6, <1>7

-----------------------------------------------------------------------------
(***************************************************************************)
(* Keys and queries.                                                       *)
(***************************************************************************)
\* Where a pool's keys lead is all that its queries depend on.
LEMMA QueriesFrame ==
    ASSUME QueriesKept, UNCHANGED <<id_vars, queries, early_period>>, Pools' = Pools,
           \A id \in Pools : status'[id] = "EraRunning" => status[id] = "EraRunning"
    PROVE  QueriesKept'
<1>1. UNCHANGED <<next_query_reply_id, address_to_reply_id, reply_id_to_query_id,
                  reply_id_to_need_update, query_id_to_reply_id>>
  BY DEF id_vars
<1>2. IdsKeepStep'
  BY <1>1 DEF QueriesKept, IdsKeepStep
<1>3. KeysFound'
  BY <1>1 DEF QueriesKept, KeysFound, get_query_id
<1>4. FirstResults'
  BY <1>1 DEF QueriesKept, FirstResults
<1>5. PeriodsKept'
  BY <1>1 DEF QueriesKept, PeriodsKept, get_query_id
<1>6. EraFast'
  BY <1>1 DEF QueriesKept, EraFast, get_query_id
<1> QED BY <1>2, <1>3, <1>4, <1>5, <1>6 DEF QueriesKept

\* Keys of two pools differ, and so does the validators key of a pool from its
\* other keys.
LEMMA KeysDiffer ==
    ASSUME NEW id, NEW key \in KeysOf(id)
    PROVE  /\ key[1][1] = id
           /\ key[2] = "validators" => key = ValidatorsKey(id)
           /\ key \in OtherKeys(id) => key # ValidatorsKey(id)
BY DEF KeysOf, OtherKeys, ValidatorsKey

\* Keys are addresses with a kind.
LEMMA KeysTyped == \A id \in IcaIds : KeysOf(id) \subseteq Ports \X QueryKind
BY DEF KeysOf, OtherKeys, ValidatorsKey, Ports, QueryKind

\* A pool whose accounts have answered knows their addresses.
LEMMA AddressesKnown ==
    ASSUME TypeOK, AddressIsPort, NEW id \in IcaIds, status[id] # "none"
    PROVE  /\ id \in DOMAIN info_of_ica_id
           /\ PoolAddr(id) = <<id, "pool">>
           /\ WithdrawAddr(id) = <<id, "withdraw">>
<1>1. id \in DOMAIN info_of_ica_id /\ BothKnown(info_of_ica_id, id)
  BY DEF TypeOK
<1>2. \A kind \in {"pool", "withdraw"} : info_of_ica_id[id][kind].ica_addr = <<id, kind>>
  BY <1>1 DEF BothKnown, AddressIsPort
<1> QED BY <1>1, <1>2 DEF PoolAddr, WithdrawAddr

\* Its four keys, at their places.
LEMMA KeysPlaced ==
    ASSUME TypeOK, AddressIsPort, NEW id \in IcaIds, status[id] # "none"
    PROVE  /\ ToSet(QueryKeys(id)) = KeysOf(id)
           /\ \A k \in 1..4 : QueryKeys(id)[k] \in KeysOf(id)
           /\ \A key \in KeysOf(id) :
                  PlaceOf(key, id) \in 1..4 /\ QueryKeys(id)[PlaceOf(key, id)] = key
           /\ PlaceOf(ValidatorsKey(id), id) = 4
           /\ \A key \in OtherKeys(id) : PlaceOf(key, id) # 4
<1> DEFINE w == QueryKeys(id)
<1>1. w = <<<<<<id, "pool">>, "balances">>, <<<<id, "withdraw">>, "balances">>,
            <<<<id, "pool">>, "delegations">>, ValidatorsKey(id)>>
  BY AddressesKnown DEF QueryKeys, ValidatorsKey
<1>2. /\ DOMAIN w = 1..4
      /\ w[1] = <<<<id, "pool">>, "balances">> /\ w[2] = <<<<id, "withdraw">>, "balances">>
      /\ w[3] = <<<<id, "pool">>, "delegations">> /\ w[4] = ValidatorsKey(id)
  BY <1>1
<1>3. \A k \in 1..4 : k = 1 \/ k = 2 \/ k = 3 \/ k = 4
  OBVIOUS
<1> HIDE DEF w
<1>4. \A k \in 1..4 : w[k] \in KeysOf(id)
  BY <1>2, <1>3 DEF KeysOf, OtherKeys
<1>5. \A key \in KeysOf(id) : \E k \in 1..4 : w[k] = key
  BY <1>2 DEF KeysOf, OtherKeys
<1>6. ToSet(w) = KeysOf(id)
  BY <1>2, <1>4, <1>5 DEF ToSet
<1>7. \A key \in KeysOf(id) : PlaceOf(key, id) \in 1..4 /\ w[PlaceOf(key, id)] = key
  BY <1>5 DEF PlaceOf, w
<1>8. PlaceOf(ValidatorsKey(id), id) = 4
  <2>1. ValidatorsKey(id) \in KeysOf(id)
    BY DEF KeysOf
  <2>2. w[1] # ValidatorsKey(id) /\ w[2] # ValidatorsKey(id) /\ w[3] # ValidatorsKey(id)
    BY <1>2 DEF ValidatorsKey
  <2> QED BY <1>3, <1>7, <2>1, <2>2
<1>9. \A key \in OtherKeys(id) : PlaceOf(key, id) # 4
  BY <1>2, <1>7, KeysDiffer DEF KeysOf
<1> QED BY <1>4, <1>6, <1>7, <1>8, <1>9 DEF w

\* What the registration of a pool's queries leaves in the maps.
LEMMA Registration ==
    ASSUME TypeOK, AddressIsPort, IdsKeepStep,
           NEW id \in IcaIds \ Pools, status[id] # "none",
           register_queries(id)
    PROVE  /\ Len(queries) \in Nat /\ Len(queries) + 4 <= RangeSize
           /\ next_query_reply_id' = START + ((Len(queries) + 4) % RangeSize)
           /\ DOMAIN address_to_reply_id' = DOMAIN address_to_reply_id \cup KeysOf(id)
           /\ \A key \in KeysOf(id) :
                  address_to_reply_id'[key] = START + Len(queries) + PlaceOf(key, id) - 1
           /\ \A key \in DOMAIN address_to_reply_id \ KeysOf(id) :
                  address_to_reply_id'[key] = address_to_reply_id[key]
           /\ DOMAIN reply_id_to_query_id' = START..(START + Len(queries) + 3)
           /\ \A r \in DOMAIN reply_id_to_query_id' :
                  reply_id_to_query_id'[r] = r - START + 1
<1> DEFINE n == Len(queries)
           fresh == {ReplyId(k) : k \in 0..3}
           keys == ToSet(QueryKeys(id))
<1>1. /\ n \in Nat /\ n + 4 <= RangeSize
      /\ \A k \in 0..3 : ReplyId(k) = START + n + k
      /\ ReplyId(4) = START + ((n + 4) % RangeSize)
  BY ReplyIds
<1>2. /\ keys = KeysOf(id)
      /\ \A key \in KeysOf(id) : PlaceOf(key, id) \in 1..4
  BY KeysPlaced
<1>3. next_query_reply_id' = START + ((n + 4) % RangeSize)
  BY <1>1 DEF register_queries
<1>4. address_to_reply_id' =
          [key \in DOMAIN address_to_reply_id \cup keys |->
              IF key \in keys THEN ReplyId(PlaceOf(key, id) - 1)
                              ELSE address_to_reply_id[key]]
  BY DEF register_queries, Saved
<1>5. \A key \in keys : address_to_reply_id'[key] = START + n + PlaceOf(key, id) - 1
  <2> TAKE key \in keys
  <2>1. PlaceOf(key, id) \in 1..4
    BY <1>2
  <2>2. ReplyId(PlaceOf(key, id) - 1) = START + n + (PlaceOf(key, id) - 1)
    BY <1>1, <2>1
  <2>3. address_to_reply_id'[key] = ReplyId(PlaceOf(key, id) - 1)
    BY <1>4
  <2>4. START \in Nat /\ n \in Nat
    BY <1>1, RangeFacts
  <2> HIDE DEF n
  <2> QED BY ONLY <2>1, <2>2, <2>3, <2>4
<1>6. fresh = (START + n)..(START + n + 3)
  <2>1. START \in Nat /\ n \in Nat
    BY <1>1, RangeFacts
  <2>2. \A k \in 0..3 : ReplyId(k) \in (START + n)..(START + n + 3)
    BY <1>1, <2>1
  <2>3. \A r \in (START + n)..(START + n + 3) :
            r - START - n \in 0..3 /\ r = START + n + (r - START - n)
    BY <2>1
  <2>4. \A r \in (START + n)..(START + n + 3) : r = ReplyId(r - START - n)
    BY <1>1, <2>3
  <2> QED BY <2>2, <2>3, <2>4
<1>7. reply_id_to_query_id' =
          [r \in DOMAIN reply_id_to_query_id \cup fresh |->
              IF r \in fresh THEN n + CHOOSE k \in 1..4 : ReplyId(k - 1) = r
                             ELSE reply_id_to_query_id[r]]
  BY DEF register_queries, Saved
<1>8. DOMAIN reply_id_to_query_id' = START..(START + n + 3)
  <2>1. DOMAIN reply_id_to_query_id' = DOMAIN reply_id_to_query_id \cup fresh
    BY <1>7
  <2>2. DOMAIN reply_id_to_query_id = START..(START + n - 1)
    BY DEF IdsKeepStep
  <2>3. START \in Nat /\ n \in Nat
    BY <1>1, RangeFacts
  <2> HIDE DEF n, fresh
  <2> QED BY ONLY <1>6, <2>1, <2>2, <2>3
<1>9. \A r \in DOMAIN reply_id_to_query_id' : reply_id_to_query_id'[r] = r - START + 1
  <2> TAKE r \in DOMAIN reply_id_to_query_id'
  <2>1. START \in Nat /\ n \in Nat /\ r \in START..(START + n + 3)
    BY <1>1, <1>8, RangeFacts
  <2>2. CASE r \in fresh
    <3> DEFINE m == CHOOSE k \in 1..4 : ReplyId(k - 1) = r
    <3>1. PICK j \in 0..3 : r = ReplyId(j)
      BY <2>2
    <3>2. j + 1 \in 1..4 /\ (j + 1) - 1 = j
      OBVIOUS
    <3>3. \E k \in 1..4 : ReplyId(k - 1) = r
      BY ONLY <3>1, <3>2
    <3>4. m \in 1..4 /\ ReplyId(m - 1) = r
      BY ONLY <3>3
    <3>5. reply_id_to_query_id'[r] = n + m
      BY <1>7, <2>2
    <3> HIDE DEF m
    <3>6. m - 1 \in 0..3
      BY <3>4
    <3>7. r = START + n + (m - 1)
      BY <1>1, <3>4, <3>6
    <3> HIDE DEF n
    <3> QED BY ONLY <2>1, <3>4, <3>5, <3>7
  <2>3. CASE r \notin fresh
    <3>1. r \in START..(START + n - 1)
      BY <1>6, <2>1, <2>3
    <3>2. r \in DOMAIN reply_id_to_query_id /\ reply_id_to_query_id[r] = r - START + 1
      BY <3>1 DEF IdsKeepStep
    <3> QED BY <1>7, <2>3, <3>2
  <2> QED BY <2>2, <2>3
<1> HIDE DEF keys
<1>10. DOMAIN address_to_reply_id' = DOMAIN address_to_reply_id \cup keys
  BY <1>4
<1>11. \A key \in DOMAIN address_to_reply_id \ keys :
           address_to_reply_id'[key] = address_to_reply_id[key]
  BY <1>4
<1> QED BY <1>1, <1>2, <1>3, <1>5, <1>8, <1>9, <1>10, <1>11

\* The registered queries follow the others.
LEMMA QueriesAppended ==
    ASSUME TypeOK, AddressIsPort, NEW id \in IcaIds, status[id] # "none",
           register_queries(id)
    PROVE  /\ queries' \in Seq(Query) /\ Len(queries') = Len(queries) + 4
           /\ \A q \in 1..Len(queries) : queries'[q] = queries[q]
           /\ \A k \in 1..4 :
                  queries'[Len(queries) + k] =
                      [key |-> QueryKeys(id)[k], period |-> IF k = 4 THEN "first" ELSE "default"]
<1> DEFINE w == [k \in 1..4 |-> [key |-> QueryKeys(id)[k],
                                period |-> IF k = 4 THEN "first" ELSE "default"]]
<1>1. \A k \in 1..4 : w[k] \in Query
  <2>1. \A k \in 1..4 : QueryKeys(id)[k] \in Ports \X QueryKind
    BY KeysPlaced, KeysTyped
  <2> QED BY <2>1 DEF Query
<1>2. w \in Seq(Query) /\ Len(w) = 4
  BY <1>1
<1>3. queries \in Seq(Query)
  BY DEF TypeOK
<1>4. queries' = queries \o w
  BY DEF register_queries
<1>5. \A k \in 1..4 : w[k] = [key |-> QueryKeys(id)[k],
                              period |-> IF k = 4 THEN "first" ELSE "default"]
  OBVIOUS
<1> HIDE DEF w
<1>6. /\ queries \o w \in Seq(Query)
      /\ Len(queries \o w) = Len(queries) + Len(w)
      /\ \A i \in 1..Len(queries) + Len(w) : (queries \o w)[i] =
             IF i <= Len(queries) THEN queries[i] ELSE w[i - Len(queries)]
  BY <1>2, <1>3, ConcatProperties
<1>7. Len(queries) \in Nat
  BY <1>3
<1>8. \A q \in 1..Len(queries) : (queries \o w)[q] = queries[q]
  BY <1>2, <1>6, <1>7
<1>9. \A k \in 1..4 : (queries \o w)[Len(queries) + k] = w[k]
  BY <1>2, <1>6, <1>7
<1> QED BY <1>2, <1>4, <1>5, <1>6, <1>8, <1>9

\* A key of a pool whose queries are registered leads to one of them.
LEMMA KeyLeads ==
    ASSUME TypeOK, IdsKeepStep, KeysFound, NEW key \in DOMAIN address_to_reply_id
    PROVE  /\ address_to_reply_id[key] \in START..(START + Len(queries) - 1)
           /\ get_query_id(key) = address_to_reply_id[key] - START + 1
           /\ get_query_id(key) \in 1..Len(queries)
           /\ queries[get_query_id(key)].key = key
<1> DEFINE r == address_to_reply_id[key]
<1>1. r \in DOMAIN reply_id_to_query_id /\ queries[get_query_id(key)].key = key
  BY DEF KeysFound
<1>2. r \in START..(START + Len(queries) - 1) /\ get_query_id(key) = r - START + 1
  BY <1>1 DEF IdsKeepStep, get_query_id
<1>3. START \in Nat /\ Len(queries) \in Nat
  BY RangeFacts DEF TypeOK
<1> HIDE DEF r
<1>4. get_query_id(key) \in 1..Len(queries)
  BY ONLY <1>2, <1>3
<1> QED BY <1>1, <1>2, <1>4 DEF r

\* Registering a pool's queries leaves those of the others where they were.
LEMMA QueriesRegistered ==
    ASSUME TypeOK, AddressIsPort, QueriesKept,
           NEW id \in IcaIds \ Pools, status[id] # "none",
           register_queries(id), Pools' = Pools \cup {id}, UNCHANGED early_period,
           \A o \in Pools' : status'[o] = "EraRunning" =>
               o # id /\ status[o] = "EraRunning"
    PROVE  QueriesKept'
<1> DEFINE n == Len(queries)
<1> USE DEF QueriesKept
<1>1. /\ n \in Nat /\ START \in Nat /\ Len(queries') = n + 4
      /\ DOMAIN queries = 1..n /\ DOMAIN queries' = 1..(n + 4)
      /\ ReplyId(3) = START + n + 3
  <2>1. queries \in Seq(Query)
    BY DEF TypeOK
  <2>2. queries' \in Seq(Query) /\ Len(queries') = n + 4
    BY QueriesAppended
  <2>3. n \in Nat /\ ReplyId(3) = START + n + 3
    BY ReplyIds
  <2>4. DOMAIN queries = 1..n /\ DOMAIN queries' = 1..Len(queries')
    BY ONLY <2>1, <2>2, SeqFunction
  <2> HIDE DEF n
  <2> QED BY ONLY <2>2, <2>3, <2>4, RangeFacts
<1>2. IdsKeepStep'
  <2>1. Cardinality(Pools) \in Nat /\ Cardinality(Pools') = Cardinality(Pools) + 1
    BY PoolsCounted
  <2>2. n = 4 * Cardinality(Pools)
    BY DEF IdsKeepStep
  <2>3. Len(queries') = 4 * Cardinality(Pools')
    BY ONLY <1>1, <2>1, <2>2
  <2>4. START + n + 3 = START + Len(queries') - 1
    BY ONLY <1>1
  <2>5. next_query_reply_id' = START + (Len(queries') % RangeSize)
    BY <1>1, Registration
  <2>6. /\ DOMAIN reply_id_to_query_id' = START..(START + Len(queries') - 1)
        /\ \A r \in DOMAIN reply_id_to_query_id' :
               reply_id_to_query_id'[r] = r - START + 1
    BY <2>4, Registration
  <2> QED BY <2>3, <2>5, <2>6 DEF IdsKeepStep
<1>3. ASSUME NEW key \in KeysOf(id)
      PROVE  /\ key \in DOMAIN address_to_reply_id'
             /\ address_to_reply_id'[key] \in DOMAIN reply_id_to_query_id'
             /\ get_query_id(key)' = n + PlaceOf(key, id)
             /\ PlaceOf(key, id) \in 1..4
             /\ queries'[get_query_id(key)'].key = key
             /\ PlaceOf(key, id) # 4 => queries'[get_query_id(key)'].period = "default"
  <2> DEFINE k == PlaceOf(key, id)
             r == address_to_reply_id'[key]
  <2>1. k \in 1..4 /\ QueryKeys(id)[k] = key
    BY KeysPlaced
  <2>2. r = START + n + k - 1 /\ key \in DOMAIN address_to_reply_id'
    BY Registration
  <2>3. r \in START..(START + n + 3) /\ r - START + 1 = n + k
    <3> HIDE DEF k, r
    <3> QED BY ONLY <1>1, <2>1, <2>2
  <2>4. r \in DOMAIN reply_id_to_query_id' /\ reply_id_to_query_id'[r] = n + k
    BY <2>3, Registration
  <2>5. get_query_id(key)' = n + k
    BY <2>4 DEF get_query_id
  <2>6. queries'[n + k] =
            [key |-> QueryKeys(id)[k], period |-> IF k = 4 THEN "first" ELSE "default"]
    BY <2>1, QueriesAppended
  <2> QED BY <2>1, <2>2, <2>4, <2>5, <2>6
<1>4. ASSUME NEW key \in DOMAIN address_to_reply_id \ KeysOf(id)
      PROVE  /\ key \in DOMAIN address_to_reply_id'
             /\ address_to_reply_id'[key] \in DOMAIN reply_id_to_query_id'
             /\ get_query_id(key)' = get_query_id(key)
             /\ queries'[get_query_id(key)'] = queries[get_query_id(key)]
  <2> DEFINE r == address_to_reply_id[key]
  <2>1. /\ r \in START..(START + n - 1) /\ get_query_id(key) = r - START + 1
        /\ get_query_id(key) \in 1..n
    BY KeyLeads
  <2>2. key \in DOMAIN address_to_reply_id' /\ address_to_reply_id'[key] = r
    BY Registration
  <2>3. r \in START..(START + n + 3)
    <3> HIDE DEF r
    <3> QED BY ONLY <1>1, <2>1
  <2>4. r \in DOMAIN reply_id_to_query_id' /\ reply_id_to_query_id'[r] = r - START + 1
    BY <2>3, Registration
  <2>5. get_query_id(key)' = get_query_id(key)
    BY <2>1, <2>2, <2>4 DEF get_query_id
  <2>6. queries'[get_query_id(key)] = queries[get_query_id(key)]
    BY <2>1, QueriesAppended
  <2> QED BY <2>2, <2>4, <2>5, <2>6
<1>5. DOMAIN address_to_reply_id' = DOMAIN address_to_reply_id \cup KeysOf(id)
  BY Registration
<1>6. KeysFound'
  <2>1. \A p \in Pools' : KeysOf(p) \subseteq DOMAIN address_to_reply_id'
    BY <1>5 DEF KeysFound
  <2>2. ASSUME NEW key \in DOMAIN address_to_reply_id'
        PROVE  /\ address_to_reply_id'[key] \in DOMAIN reply_id_to_query_id'
               /\ queries'[get_query_id(key)'].key = key
    <3>1. CASE key \in KeysOf(id)
      BY <1>3, <3>1
    <3>2. CASE key \notin KeysOf(id)
      <4>1. key \in DOMAIN address_to_reply_id \ KeysOf(id)
        BY <1>5, <2>2, <3>2
      <4>2. queries[get_query_id(key)].key = key
        BY <4>1, KeyLeads
      <4> QED BY <1>4, <4>1, <4>2
    <3> QED BY <3>1, <3>2
  <2> QED BY <2>1, <2>2 DEF KeysFound
<1>7. /\ DOMAIN query_id_to_reply_id' = DOMAIN query_id_to_reply_id \cup {n + 4}
      /\ query_id_to_reply_id'[n + 4] = START + n + 3
      /\ \A q \in DOMAIN query_id_to_reply_id :
             q # n + 4 => query_id_to_reply_id'[q] = query_id_to_reply_id[q]
      /\ reply_id_to_need_update' = reply_id_to_need_update \cup {START + n + 3}
  BY <1>1 DEF register_queries, Saved
<1>8. \A q \in DOMAIN query_id_to_reply_id : q \in 1..n /\ q # n + 4
  BY <1>1 DEF FirstResults
<1>9. FirstResults'
  <2>1. ASSUME NEW q \in DOMAIN query_id_to_reply_id
        PROVE  /\ q \in DOMAIN queries'
               /\ query_id_to_reply_id'[q] = START + q - 1
               /\ query_id_to_reply_id'[q] \in reply_id_to_need_update'
               /\ queries'[q].key[2] = "validators"
    <3>1. q \in 1..n /\ query_id_to_reply_id'[q] = query_id_to_reply_id[q]
      BY <1>7, <1>8
    <3>2. q \in DOMAIN queries' /\ queries'[q] = queries[q]
      <4>1. \A i \in 1..n : queries'[i] = queries[i]
        BY QueriesAppended
      <4> HIDE DEF n
      <4> QED BY ONLY <1>1, <3>1, <4>1
    <3> QED BY <1>7, <3>1, <3>2 DEF FirstResults
  <2>2. /\ n + 4 \in DOMAIN queries'
        /\ query_id_to_reply_id'[n + 4] = START + (n + 4) - 1
        /\ query_id_to_reply_id'[n + 4] \in reply_id_to_need_update'
        /\ queries'[n + 4].key[2] = "validators"
    <3>1. ValidatorsKey(id) \in KeysOf(id) /\ PlaceOf(ValidatorsKey(id), id) = 4
      BY KeysPlaced DEF KeysOf
    <3>2. queries'[n + 4].key = ValidatorsKey(id)
      <4>1. /\ get_query_id(ValidatorsKey(id))' = n + PlaceOf(ValidatorsKey(id), id)
            /\ queries'[get_query_id(ValidatorsKey(id))'].key = ValidatorsKey(id)
        BY <1>3, <3>1
      <4> QED BY <3>1, <4>1
    <3>3. queries'[n + 4].key[2] = "validators"
      BY <3>2 DEF ValidatorsKey
    <3>4. n + 4 \in DOMAIN queries' /\ START + n + 3 = START + (n + 4) - 1
      BY <1>1
    <3> QED BY <1>7, <3>3, <3>4
  <2>3. reply_id_to_need_update' \subseteq DOMAIN reply_id_to_query_id'
    <3>1. DOMAIN reply_id_to_query_id \subseteq DOMAIN reply_id_to_query_id'
      <4>1. DOMAIN reply_id_to_query_id = START..(START + n - 1)
        BY DEF IdsKeepStep
      <4>2. DOMAIN reply_id_to_query_id' = START..(START + n + 3)
        BY Registration
      <4> QED BY <1>1, <4>1, <4>2
    <3>2. START + n + 3 \in DOMAIN reply_id_to_query_id'
      <4>1. DOMAIN reply_id_to_query_id' = START..(START + n + 3)
        BY Registration
      <4> HIDE DEF n
      <4> QED BY ONLY <1>1, <4>1
    <3> QED BY <1>7, <3>1, <3>2 DEF FirstResults
  <2> QED BY <1>7, <2>1, <2>2, <2>3 DEF FirstResults
<1>11. ASSUME NEW p \in Pools, p # id, NEW key \in KeysOf(p)
       PROVE  /\ get_query_id(key)' = get_query_id(key)
              /\ queries'[get_query_id(key)'] = queries[get_query_id(key)]
              /\ get_query_id(key) \in 1..n
  <2>1. key \notin KeysOf(id)
    BY <1>11, KeysDiffer
  <2>2. key \in DOMAIN address_to_reply_id
    BY DEF KeysFound
  <2> QED BY <1>4, <2>1, <2>2, KeyLeads
<1>10. PeriodsKept'
  <2> SUFFICES ASSUME NEW p \in Pools', ~early_period'[p]
               PROVE  IF get_query_id(ValidatorsKey(p))' \in DOMAIN query_id_to_reply_id'
                      THEN \A key \in OtherKeys(p) :
                               queries'[get_query_id(key)'].period = "default"
                      ELSE \A k, l \in KeysOf(p) :
                               queries'[get_query_id(k)'].period
                                   = queries'[get_query_id(l)'].period
    BY DEF PeriodsKept
  <2>1. CASE p = id
    <3>1. ValidatorsKey(id) \in KeysOf(id) /\ PlaceOf(ValidatorsKey(id), id) = 4
      BY KeysPlaced DEF KeysOf
    <3>2. get_query_id(ValidatorsKey(p))' \in DOMAIN query_id_to_reply_id'
      BY <1>3, <1>7, <2>1, <3>1
    <3>3. \A key \in OtherKeys(p) : queries'[get_query_id(key)'].period = "default"
      <4> TAKE key \in OtherKeys(p)
      <4>1. key \in KeysOf(id) /\ PlaceOf(key, id) # 4
        BY <2>1, KeysPlaced DEF KeysOf
      <4> QED BY <1>3, <4>1
    <3> QED BY <3>2, <3>3
  <2>2. CASE p # id
    <3>1. p \in Pools /\ ~early_period[p]
      BY <2>2
    <3>2. ASSUME NEW key \in KeysOf(p)
          PROVE  /\ get_query_id(key)' = get_query_id(key)
                 /\ queries'[get_query_id(key)'] = queries[get_query_id(key)]
                 /\ get_query_id(key) \in 1..n
      BY <1>11, <2>2, <3>1
    <3>3. get_query_id(ValidatorsKey(p)) # n + 4
      BY <1>1, <3>2 DEF KeysOf
    <3>4. get_query_id(ValidatorsKey(p))' \in DOMAIN query_id_to_reply_id'
              <=> get_query_id(ValidatorsKey(p)) \in DOMAIN query_id_to_reply_id
      BY <1>7, <3>2, <3>3 DEF KeysOf
    <3>5. IF get_query_id(ValidatorsKey(p)) \in DOMAIN query_id_to_reply_id
          THEN \A key \in OtherKeys(p) : queries[get_query_id(key)].period = "default"
          ELSE \A k, l \in KeysOf(p) :
                   queries[get_query_id(k)].period = queries[get_query_id(l)].period
      BY <3>1 DEF PeriodsKept
    <3>6. OtherKeys(p) \subseteq KeysOf(p)
      BY DEF KeysOf
    <3> QED BY <3>2, <3>4, <3>5, <3>6
  <2> QED BY <2>1, <2>2
<1>12. EraFast'
  <2> SUFFICES ASSUME NEW p \in Pools', status'[p] = "EraRunning", NEW key \in OtherKeys(p)
               PROVE  queries'[get_query_id(key)'].period = "fast"
    BY DEF EraFast
  <2>1. p \in Pools /\ p # id /\ status[p] = "EraRunning" /\ key \in KeysOf(p)
    BY DEF KeysOf
  <2> QED BY <1>11, <2>1 DEF EraFast
<1> QED BY <1>2, <1>6, <1>9, <1>10, <1>12

\* What leaves the keys and the maps alone leaves the queries found.
LEMMA KeysFrame ==
    ASSUME TypeOK, IdsKeepStep, KeysFound, Pools' = Pools,
           UNCHANGED <<next_query_reply_id, address_to_reply_id, reply_id_to_query_id>>,
           queries' \in Seq(Query), Len(queries') = Len(queries),
           \A q \in DOMAIN queries : queries'[q].key = queries[q].key
    PROVE  /\ IdsKeepStep' /\ KeysFound'
           /\ DOMAIN queries' = DOMAIN queries
           /\ \A key : get_query_id(key)' = get_query_id(key)
<1>1. \A key : get_query_id(key)' = get_query_id(key)
  BY DEF get_query_id
<1>2. IdsKeepStep'
  BY DEF IdsKeepStep
<1>3. DOMAIN queries = 1..Len(queries) /\ DOMAIN queries' = 1..Len(queries)
  <2>1. queries \in Seq(Query)
    BY DEF TypeOK
  <2> QED BY <2>1, SeqFunction
<1>4. ASSUME NEW key \in DOMAIN address_to_reply_id
      PROVE  queries'[get_query_id(key)].key = key
  BY <1>3, <1>4, KeyLeads
<1>5. KeysFound'
  BY <1>1, <1>4 DEF KeysFound
<1> QED BY <1>1, <1>2, <1>3, <1>5

\* The keys of a pool lead to its own queries, its validators key alone to one that
\* waits for a first result.
LEMMA PoolKeys ==
    ASSUME TypeOK, QueriesKept, NEW p \in Pools, NEW key \in KeysOf(p)
    PROVE  /\ key \in DOMAIN address_to_reply_id
           /\ get_query_id(key) \in DOMAIN queries
           /\ queries[get_query_id(key)].key = key
           /\ get_query_id(key) \in DOMAIN query_id_to_reply_id => key = ValidatorsKey(p)
           /\ \A l \in KeysOf(p) : get_query_id(l) = get_query_id(key) => l = key
           /\ \A o \in Pools : \A l \in KeysOf(o) :
                  get_query_id(l) = get_query_id(key) => o = p
<1> USE DEF QueriesKept
<1>1. \A o \in Pools : \A l \in KeysOf(o) :
          /\ l \in DOMAIN address_to_reply_id
          /\ get_query_id(l) \in 1..Len(queries)
          /\ queries[get_query_id(l)].key = l
  <2> TAKE o \in Pools
  <2> TAKE l \in KeysOf(o)
  <2>1. l \in DOMAIN address_to_reply_id
    BY DEF KeysFound
  <2> QED BY <2>1, KeyLeads
<1>2. DOMAIN queries = 1..Len(queries)
  <2>1. queries \in Seq(Query)
    BY DEF TypeOK
  <2> QED BY <2>1, SeqFunction
<1>3. get_query_id(key) \in DOMAIN query_id_to_reply_id => key = ValidatorsKey(p)
  <2> SUFFICES ASSUME get_query_id(key) \in DOMAIN query_id_to_reply_id
               PROVE  key = ValidatorsKey(p)
    OBVIOUS
  <2>1. queries[get_query_id(key)].key[2] = "validators"
    BY DEF FirstResults
  <2>2. key[2] = "validators"
    BY <1>1, <2>1
  <2> QED BY <2>2, KeysDiffer
<1>4. \A o \in Pools : \A l \in KeysOf(o) : get_query_id(l) = get_query_id(key) => o = p
  BY <1>1, KeysDiffer
<1> QED BY <1>1, <1>2, <1>3, <1>4

\* The first result of a validators query gives it the period of the others.
LEMMA ResultStep ==
    ASSUME TypeOK, QueriesKept, NEW query_id \in DOMAIN queries,
           sudo_kv_query_result(query_id)
    PROVE  /\ QueriesKept'
           /\ queries' \in Seq(Query) /\ Len(queries') = Len(queries)
           /\ DOMAIN query_id_to_reply_id' \subseteq DOMAIN queries'
           /\ reply_id_to_need_update' \subseteq DOMAIN reply_id_to_query_id'
<1> DEFINE r == query_id_to_reply_id[query_id]
           answered == [queries[query_id] EXCEPT !.period = "default"]
<1> USE DEF QueriesKept
<1>1. /\ query_id \in DOMAIN query_id_to_reply_id
      /\ DOMAIN query_id_to_reply_id' = DOMAIN query_id_to_reply_id \ {query_id}
      /\ \A q \in DOMAIN query_id_to_reply_id \ {query_id} :
             query_id_to_reply_id'[q] = query_id_to_reply_id[q]
      /\ reply_id_to_need_update' = reply_id_to_need_update \ {r}
      /\ UNCHANGED <<status, next_query_reply_id, address_to_reply_id,
                     reply_id_to_query_id, early_period>>
  BY DEF sudo_kv_query_result, pool_vars, history_vars
<1>2. r = START + query_id - 1 /\ r \in reply_id_to_need_update
  BY <1>1 DEF FirstResults
<1>3. queries' = [queries EXCEPT ![query_id].period = "default"]
  BY <1>2 DEF sudo_kv_query_result
<1>4. queries \in Seq(Query)
  BY DEF TypeOK
<1>5. DOMAIN queries = 1..Len(queries) /\ Len(queries) \in Nat
  BY <1>4, SeqFunction
<1>6. answered \in Query /\ answered.key = queries[query_id].key
      /\ answered.period = "default"
  <2>1. queries[query_id] \in Query
    BY <1>4
  <2> QED BY ONLY <2>1 DEF Query, answered
<1>7. queries' = [queries EXCEPT ![query_id] = answered]
  BY <1>3
<1> HIDE DEF answered
<1>8. /\ queries' \in Seq(Query) /\ Len(queries') = Len(queries)
      /\ queries'[query_id] = answered
      /\ \A q \in DOMAIN queries : q # query_id => queries'[q] = queries[q]
  BY <1>4, <1>5, <1>6, <1>7
<1>9. \A q \in DOMAIN queries : queries'[q].key = queries[q].key
  BY <1>6, <1>8
<1>10. Pools' = Pools
  BY <1>1 DEF Pools
<1>11. /\ IdsKeepStep' /\ KeysFound'
       /\ DOMAIN queries' = DOMAIN queries
       /\ \A key : get_query_id(key)' = get_query_id(key)
  BY <1>1, <1>8, <1>9, <1>10, KeysFrame
<1>12. FirstResults'
  <2>1. ASSUME NEW q \in DOMAIN query_id_to_reply_id'
        PROVE  /\ q \in DOMAIN queries'
               /\ query_id_to_reply_id'[q] = START + q - 1
               /\ query_id_to_reply_id'[q] \in reply_id_to_need_update'
               /\ queries'[q].key[2] = "validators"
    <3>1. /\ q \in DOMAIN query_id_to_reply_id /\ q # query_id
          /\ query_id_to_reply_id'[q] = query_id_to_reply_id[q]
      BY <1>1, <2>1
    <3>2. /\ q \in DOMAIN queries /\ query_id_to_reply_id[q] = START + q - 1
          /\ query_id_to_reply_id[q] \in reply_id_to_need_update
          /\ queries[q].key[2] = "validators"
      BY <3>1 DEF FirstResults
    <3>3. START + q - 1 # START + query_id - 1
      BY <1>5, <3>1, <3>2, RangeFacts
    <3>4. query_id_to_reply_id[q] # r
      BY <1>2, <3>2, <3>3
    <3> QED BY <1>1, <1>9, <1>11, <3>1, <3>2, <3>4
  <2>2. reply_id_to_need_update' \subseteq DOMAIN reply_id_to_query_id'
    BY <1>1 DEF FirstResults
  <2> QED BY <2>1, <2>2 DEF FirstResults
<1>13. PeriodsKept'
  <2> SUFFICES ASSUME NEW p \in Pools, ~early_period[p]
               PROVE  IF get_query_id(ValidatorsKey(p)) \in DOMAIN query_id_to_reply_id'
                      THEN \A key \in OtherKeys(p) :
                               queries'[get_query_id(key)].period = "default"
                      ELSE \A k, l \in KeysOf(p) :
                               queries'[get_query_id(k)].period
                                   = queries'[get_query_id(l)].period
    BY <1>1, <1>10, <1>11 DEF PeriodsKept
  <2> DEFINE v == get_query_id(ValidatorsKey(p))
  <2>1. /\ ValidatorsKey(p) \in KeysOf(p) /\ OtherKeys(p) \subseteq KeysOf(p)
        /\ \A key \in KeysOf(p) : key = ValidatorsKey(p) \/ key \in OtherKeys(p)
    BY DEF KeysOf
  <2>2. \A key \in KeysOf(p) : get_query_id(key) \in DOMAIN queries
    BY PoolKeys
  <2>3. IF v \in DOMAIN query_id_to_reply_id
        THEN \A key \in OtherKeys(p) : queries[get_query_id(key)].period = "default"
        ELSE \A k, l \in KeysOf(p) :
                 queries[get_query_id(k)].period = queries[get_query_id(l)].period
    BY DEF PeriodsKept
  <2>4. CASE v = query_id
    <3>1. v \notin DOMAIN query_id_to_reply_id' /\ v \in DOMAIN query_id_to_reply_id
      BY <1>1, <2>4
    <3>2. \A key \in OtherKeys(p) : get_query_id(key) # query_id
      BY <2>1, <2>4, PoolKeys, KeysDiffer
    <3>3. \A key \in OtherKeys(p) : queries'[get_query_id(key)].period = "default"
      BY <1>8, <2>1, <2>2, <2>3, <3>1, <3>2
    <3>4. queries'[v].period = "default"
      BY <1>6, <1>8, <2>4
    <3> QED BY <2>1, <3>1, <3>3, <3>4
  <2>5. CASE v # query_id
    <3>1. ASSUME NEW key \in KeysOf(p) PROVE get_query_id(key) # query_id
      BY <1>1, <2>5, PoolKeys
    <3>2. \A key \in KeysOf(p) : queries'[get_query_id(key)] = queries[get_query_id(key)]
      BY <1>8, <2>2, <3>1
    <3>3. v \in DOMAIN query_id_to_reply_id' <=> v \in DOMAIN query_id_to_reply_id
      BY <1>1, <2>5
    <3> QED BY <2>1, <2>3, <3>2, <3>3
  <2> QED BY <2>4, <2>5
<1>14. DOMAIN query_id_to_reply_id' \subseteq DOMAIN queries'
       /\ reply_id_to_need_update' \subseteq DOMAIN reply_id_to_query_id'
  BY <1>12 DEF FirstResults
<1>15. EraFast'
  <2> SUFFICES ASSUME NEW p \in Pools, status[p] = "EraRunning", NEW key \in OtherKeys(p)
               PROVE  queries'[get_query_id(key)].period = "fast"
    BY <1>1, <1>10, <1>11 DEF EraFast
  <2>1. key \in KeysOf(p) /\ key # ValidatorsKey(p)
    BY KeysDiffer DEF KeysOf
  <2>2. get_query_id(key) \in DOMAIN queries /\ get_query_id(key) # query_id
    BY <1>1, <2>1, PoolKeys
  <2> QED BY <1>8, <2>2 DEF EraFast
<1> QED BY <1>8, <1>11, <1>12, <1>13, <1>14, <1>15

\* The period of a pool's queries is set for all four of them.
LEMMA PeriodStep ==
    ASSUME TypeOK, AddressIsPort, QueriesKept, NEW id \in IcaIds,
           NEW period \in {"default", "fast", "custom"}, set_periods(id, period),
           id \in Pools, Pools' = Pools,
           \A o \in Pools : status'[o] = "EraRunning" =>
               IF o = id THEN period = "fast" ELSE status[o] = "EraRunning"
    PROVE  /\ QueriesKept'
           /\ queries' \in Seq(Query) /\ Len(queries') = Len(queries)
<1> USE DEF QueriesKept
<1>1. /\ queries' = get_update_pool_icq_msgs(id, period)
      /\ early_period' = [early_period EXCEPT
             ![id] = /\ period # "default"
                     /\ \E q \in QueryIds(id) : q \in DOMAIN query_id_to_reply_id]
      /\ UNCHANGED <<next_query_reply_id, address_to_reply_id,
                     reply_id_to_query_id, reply_id_to_need_update,
                     query_id_to_reply_id>>
  BY DEF set_periods, id_vars
<1>2. status[id] # "none"
  BY DEF Pools
<1>3. QueryIds(id) = {get_query_id(key) : key \in KeysOf(id)}
  BY <1>2, KeysPlaced DEF QueryIds
<1>4. queries \in Seq(Query)
  BY DEF TypeOK
<1>5. DOMAIN queries = 1..Len(queries) /\ Len(queries) \in Nat
      /\ \A q \in DOMAIN queries : queries[q] \in Query
  BY <1>4, SeqFunction
<1>6. ASSUME NEW q \in DOMAIN queries
      PROVE  /\ queries'[q] \in Query /\ queries'[q].key = queries[q].key
             /\ q \in QueryIds(id) => queries'[q].period = period
             /\ q \notin QueryIds(id) => queries'[q] = queries[q]
  <2>1. queries'[q] = IF q \in QueryIds(id) THEN [queries[q] EXCEPT !.period = period]
                                           ELSE queries[q]
    BY <1>1, <1>6 DEF get_update_pool_icq_msgs
  <2>2. queries[q] \in Query
    BY <1>5, <1>6
  <2> QED BY <2>1, <2>2 DEF Query
<1>7. queries' \in Seq(Query) /\ Len(queries') = Len(queries)
  <2>1. queries' \in [1..Len(queries) -> Query]
    BY <1>1, <1>5, <1>6 DEF get_update_pool_icq_msgs
  <2> QED BY ONLY <1>5, <2>1
<1>8. /\ IdsKeepStep' /\ KeysFound'
      /\ DOMAIN queries' = DOMAIN queries
      /\ \A key : get_query_id(key)' = get_query_id(key)
  BY <1>1, <1>6, <1>7, KeysFrame
<1>9. FirstResults'
  BY <1>1, <1>6, <1>8 DEF FirstResults
<1>11. ASSUME NEW p \in Pools, p # id, NEW key \in KeysOf(p)
       PROVE  queries'[get_query_id(key)] = queries[get_query_id(key)]
  <2>1. get_query_id(key) \in DOMAIN queries /\ get_query_id(key) \notin QueryIds(id)
    BY <1>3, <1>11, PoolKeys
  <2> QED BY <1>6, <2>1
<1>10. PeriodsKept'
  <2> SUFFICES ASSUME NEW p \in Pools, ~early_period'[p]
               PROVE  IF get_query_id(ValidatorsKey(p)) \in DOMAIN query_id_to_reply_id
                      THEN \A key \in OtherKeys(p) :
                               queries'[get_query_id(key)].period = "default"
                      ELSE \A k, l \in KeysOf(p) :
                               queries'[get_query_id(k)].period
                                   = queries'[get_query_id(l)].period
    BY <1>1, <1>8 DEF PeriodsKept
  <2>1. ValidatorsKey(p) \in KeysOf(p) /\ OtherKeys(p) \subseteq KeysOf(p)
    BY DEF KeysOf
  <2>2. early_period \in [IcaIds -> BOOLEAN] /\ p \in IcaIds
    BY DEF TypeOK, Pools
  <2>3. \A key \in KeysOf(p) : get_query_id(key) \in DOMAIN queries
    BY PoolKeys
  <2>4. CASE p = id
    <3>1. \/ period = "default"
          \/ \A q \in QueryIds(id) : q \notin DOMAIN query_id_to_reply_id
      BY <1>1, <2>2, <2>4
    <3>2. \/ period = "default"
          \/ get_query_id(ValidatorsKey(p)) \notin DOMAIN query_id_to_reply_id
      BY <1>3, <2>1, <2>4, <3>1
    <3>3. \A key \in KeysOf(p) : queries'[get_query_id(key)].period = period
      BY <1>3, <1>6, <2>3, <2>4
    <3> QED BY <2>1, <3>2, <3>3
  <2>5. CASE p # id
    <3>1. ~early_period[p]
      BY <1>1, <2>2, <2>5
    <3>3. \A key \in KeysOf(p) : queries'[get_query_id(key)] = queries[get_query_id(key)]
      BY <1>11, <2>5
    <3> QED BY <2>1, <3>1, <3>3 DEF PeriodsKept
  <2> QED BY <2>4, <2>5
<1>12. EraFast'
  <2> SUFFICES ASSUME NEW p \in Pools, status'[p] = "EraRunning", NEW key \in OtherKeys(p)
               PROVE  queries'[get_query_id(key)].period = "fast"
    BY <1>8 DEF EraFast
  <2>1. key \in KeysOf(p)
    BY DEF KeysOf
  <2>2. CASE p = id
    <3>1. get_query_id(key) \in DOMAIN queries /\ get_query_id(key) \in QueryIds(id)
      BY <1>3, <2>1, <2>2, PoolKeys
    <3> QED BY <1>6, <2>2, <3>1
  <2>3. CASE p # id
    <3>1. queries[get_query_id(key)].period = "fast"
      BY <2>3 DEF EraFast
    <3> QED BY <1>11, <2>1, <2>3, <3>1
  <2> QED BY <2>2, <2>3
<1> QED BY <1>7, <1>8, <1>9, <1>10, <1>12

-----------------------------------------------------------------------------
(***************************************************************************)
(* Transactions.                                                           *)
(***************************************************************************)
\* A new transaction is the only one, unless it is noted as an overlap.
LEMMA TxSent ==
    ASSUME TypeOK, AddressIsPort, TxsKept, NEW id \in IcaIds, status[id] # "none",
           set_withdraw_sub_msg(id), UNCHANGED withdraw_address,
           id \in Pools', \A o \in IcaIds \ {id} : status'[o] = status[o],
           status'[id] \notin Running, status[id] \notin Running,
           overlapped' \in [IcaIds -> BOOLEAN],
           \A o \in IcaIds : overlapped[o] => overlapped'[o],
           txs[id] # <<>> => overlapped'[id]
    PROVE  TxsKept' /\ txs' \in [IcaIds -> Seq(Tx)]
<1> DEFINE tx == [channel |-> channels[<<id, "pool">>].id,
                  withdraw_address |-> WithdrawAddr(id), ack |-> "none"]
<1>1. tx \in Tx /\ tx.withdraw_address = <<id, "withdraw">> /\ tx.ack = "none"
  <2>1. <<id, "pool">> \in Ports /\ <<id, "withdraw">> \in Ports
    BY DEF Ports
  <2>2. channels[<<id, "pool">>].id \in Nat
    BY <2>1 DEF TypeOK, Channel
  <2>3. WithdrawAddr(id) = <<id, "withdraw">>
    BY AddressesKnown
  <2> QED BY <2>1, <2>2, <2>3 DEF Tx
<1>2. txs \in [IcaIds -> Seq(Tx)] /\ txs[id] \in Seq(Tx)
  BY DEF TypeOK
<1>3. txs' = [txs EXCEPT ![id] = Append(txs[id], tx)]
  BY <1>2 DEF set_withdraw_sub_msg
<1> HIDE DEF tx
<1>4. /\ Append(txs[id], tx) \in Seq(Tx)
      /\ Len(Append(txs[id], tx)) = Len(txs[id]) + 1
      /\ \A i \in 1..Len(txs[id]) : Append(txs[id], tx)[i] = txs[id][i]
      /\ Append(txs[id], tx)[Len(txs[id]) + 1] = tx
      /\ Len(txs[id]) \in Nat
      /\ DOMAIN Append(txs[id], tx) = 1..(Len(txs[id]) + 1)
      /\ DOMAIN txs[id] = 1..Len(txs[id])
  BY <1>1, <1>2
<1>5. /\ txs' \in [IcaIds -> Seq(Tx)] /\ txs'[id] = Append(txs[id], tx)
      /\ \A o \in IcaIds \ {id} : txs'[o] = txs[o]
  BY <1>2, <1>3, <1>4
<1>6. ASSUME NEW i \in DOMAIN txs'[id]
      PROVE  txs'[id][i] = tx \/ (i \in DOMAIN txs[id] /\ txs'[id][i] = txs[id][i])
  BY <1>4, <1>5, <1>6
<1>7. RewardsSet'
  <2> SUFFICES ASSUME NEW o \in IcaIds
               PROVE  /\ \A i \in DOMAIN txs'[o] :
                             txs'[o][i].withdraw_address = <<o, "withdraw">>
                      /\ \/ status'[o] \in Running
                         \/ \E i \in DOMAIN txs'[o] : txs'[o][i].ack = "ok"
                         => withdraw_address'[o] = <<o, "withdraw">>
    BY DEF RewardsSet
  <2>1. CASE o = id
    <3>1. \A i \in DOMAIN txs'[id] : txs'[id][i].withdraw_address = <<id, "withdraw">>
      BY <1>1, <1>6 DEF TxsKept, RewardsSet
    <3>2. ASSUME NEW i \in DOMAIN txs'[id], txs'[id][i].ack = "ok"
          PROVE  withdraw_address'[id] = <<id, "withdraw">>
      <4>1. i \in DOMAIN txs[id] /\ txs[id][i].ack = "ok"
        BY <1>1, <1>6, <3>2
      <4> QED BY <4>1 DEF TxsKept, RewardsSet
    <3> QED BY <2>1, <3>1, <3>2
  <2>2. CASE o # id
    <3>1. txs'[o] = txs[o] /\ status'[o] = status[o]
      BY <1>5, <2>2
    <3> QED BY <3>1 DEF TxsKept, RewardsSet
  <2> QED BY <2>1, <2>2
<1>8. OneOutcome'
  <2> SUFFICES ASSUME NEW o \in IcaIds
               PROVE  /\ o \notin Pools' => txs'[o] = <<>>
                      /\ ~overlapped'[o] =>
                             /\ Len(txs'[o]) <= 1
                             /\ status'[o] \in Running => txs'[o] = <<>>
    BY DEF OneOutcome
  <2>1. CASE o = id
    <3>1. ~overlapped'[id] => Len(txs'[id]) <= 1
      BY <1>4, <1>5
    <3> QED BY <2>1, <3>1
  <2>2. CASE o # id
    <3>1. txs'[o] = txs[o] /\ status'[o] = status[o]
      BY <1>5, <2>2
    <3>2. o \in Pools' <=> o \in Pools
      BY <3>1 DEF Pools
    <3> QED BY <3>1, <3>2 DEF TxsKept, OneOutcome
  <2> QED BY <2>1, <2>2
<1> QED BY <1>5, <1>7, <1>8 DEF TxsKept

\* An outcome leaves a pool that was initialised once nothing in flight.
LEMMA OutcomeStep ==
    ASSUME TypeOK, TxsKept, NEW id \in IcaIds, NEW i \in DOMAIN txs[id], NEW ack,
           Answered(id, i, ack), NEW s \in {"ActiveEnded", "InitFailed"},
           s = "ActiveEnded" => ack = "ok",
           status' = [status EXCEPT ![id] = s],
           UNCHANGED <<withdraw_address, overlapped>>
    PROVE  /\ TxsKept' /\ txs' \in [IcaIds -> Seq(Tx)]
           /\ id \in Pools /\ Pools' = Pools
           /\ ~overlapped[id] => status[id] \notin Running
<1>1. txs \in [IcaIds -> Seq(Tx)] /\ txs[id] \in Seq(Tx) /\ status \in [IcaIds -> Status]
  BY DEF TypeOK
<1>2. txs' = [txs EXCEPT ![id] = RemoveAt(txs[id], i)] /\ txs[id][i].ack = ack
  BY <1>1 DEF Answered
<1>3. /\ RemoveAt(txs[id], i) \in Seq(Tx)
      /\ Len(RemoveAt(txs[id], i)) = Len(txs[id]) - 1
      /\ \A j \in 1..Len(txs[id]) - 1 :
             RemoveAt(txs[id], i)[j] = IF j < i THEN txs[id][j] ELSE txs[id][j + 1]
  BY <1>1, RemoveAtFacts
<1>4. /\ txs' \in [IcaIds -> Seq(Tx)] /\ txs'[id] = RemoveAt(txs[id], i)
      /\ \A o \in IcaIds \ {id} : txs'[o] = txs[o] /\ status'[o] = status[o]
      /\ status'[id] = s
  BY <1>1, <1>2, <1>3
<1>5. DOMAIN txs[id] = 1..Len(txs[id]) /\ Len(txs[id]) \in Nat /\ txs[id] # <<>>
  BY <1>1, SeqFunction
<1>6. DOMAIN txs'[id] = 1..(Len(txs[id]) - 1)
  BY <1>3, <1>4, SeqFunction
<1>7. ASSUME NEW j \in DOMAIN txs'[id]
      PROVE  \E k \in DOMAIN txs[id] : txs'[id][j] = txs[id][k]
  <2>1. j \in DOMAIN txs[id] /\ j + 1 \in DOMAIN txs[id]
    BY <1>5, <1>6, <1>7
  <2> QED BY <1>3, <1>4, <1>6, <1>7, <2>1
<1>8. id \in Pools /\ (~overlapped[id] => Len(txs[id]) <= 1 /\ status[id] \notin Running)
  BY <1>5 DEF TxsKept, OneOutcome
<1>9. Pools' = Pools
  <2>1. s \notin {"none", "RegisterEnded"} /\ status[id] \notin {"none", "RegisterEnded"}
    BY <1>8 DEF Pools
  <2>2. \A o \in IcaIds : status'[o] \in {"none", "RegisterEnded"}
                            <=> status[o] \in {"none", "RegisterEnded"}
    BY ONLY <1>4, <2>1
  <2> QED BY ONLY <2>2 DEF Pools
<1>10. RewardsSet'
  <2> SUFFICES ASSUME NEW o \in IcaIds
               PROVE  /\ \A j \in DOMAIN txs'[o] :
                             txs'[o][j].withdraw_address = <<o, "withdraw">>
                      /\ \/ status'[o] \in Running
                         \/ \E j \in DOMAIN txs'[o] : txs'[o][j].ack = "ok"
                         => withdraw_address'[o] = <<o, "withdraw">>
    BY DEF RewardsSet
  <2>1. CASE o = id
    <3>1. \A j \in DOMAIN txs'[id] : txs'[id][j].withdraw_address = <<id, "withdraw">>
      BY <1>7 DEF TxsKept, RewardsSet
    <3>2. (\E j \in DOMAIN txs'[id] : txs'[id][j].ack = "ok")
              => \E k \in DOMAIN txs[id] : txs[id][k].ack = "ok"
      BY <1>7
    <3>3. status'[id] \in Running => \E k \in DOMAIN txs[id] : txs[id][k].ack = "ok"
      <4>1. s = "ActiveEnded" \/ s = "InitFailed"
        OBVIOUS
      <4>2. "InitFailed" \notin Running
        BY DEF Running
      <4> QED BY <1>2, <1>4, <4>1, <4>2
    <3> QED BY <2>1, <3>1, <3>2, <3>3 DEF TxsKept, RewardsSet
  <2>2. CASE o # id
    <3>1. txs'[o] = txs[o] /\ status'[o] = status[o]
      BY <1>4, <2>2
    <3> QED BY <3>1 DEF TxsKept, RewardsSet
  <2> QED BY <2>1, <2>2
<1>11. OneOutcome'
  <2> SUFFICES ASSUME NEW o \in IcaIds
               PROVE  /\ o \notin Pools' => txs'[o] = <<>>
                      /\ ~overlapped[o] =>
                             /\ Len(txs'[o]) <= 1
                             /\ status'[o] \in Running => txs'[o] = <<>>
    BY DEF OneOutcome
  <2>1. CASE o = id
    <3>1. ~overlapped[id] => Len(txs'[id]) = 0
      BY <1>3, <1>4, <1>5, <1>8
    <3>2. Len(txs'[id]) = 0 => txs'[id] = <<>>
      BY <1>3, <1>4
    <3> QED BY <1>8, <1>9, <2>1, <3>1, <3>2
  <2>2. CASE o # id
    <3>1. txs'[o] = txs[o] /\ status'[o] = status[o]
      BY <1>4, <2>2
    <3> QED BY <1>9, <3>1 DEF TxsKept, OneOutcome
  <2> QED BY <2>1, <2>2
<1> QED BY <1>4, <1>8, <1>9, <1>10, <1>11 DEF TxsKept

\* The host answers a transaction; the one it executes sets the pool's address.
LEMMA HostAnswer ==
    ASSUME TypeOK, TxsKept, NEW id \in IcaIds, NEW i \in DOMAIN txs[id],
           NEW ack \in {"ok", "error"},
           txs' = [txs EXCEPT ![id][i].ack = ack],
           \/ /\ withdraw_address' =
                     [withdraw_address EXCEPT ![id] = txs[id][i].withdraw_address]
           \/ ack = "error" /\ UNCHANGED withdraw_address,
           UNCHANGED <<status, overlapped>>
    PROVE  /\ TxsKept' /\ txs' \in [IcaIds -> Seq(Tx)]
           /\ withdraw_address' \in [IcaIds -> Ports]
<1> DEFINE tx == [txs[id][i] EXCEPT !.ack = ack]
<1>1. /\ txs \in [IcaIds -> Seq(Tx)] /\ txs[id] \in Seq(Tx)
      /\ withdraw_address \in [IcaIds -> Ports]
  BY DEF TypeOK
<1>2. DOMAIN txs[id] = 1..Len(txs[id]) /\ Len(txs[id]) \in Nat /\ txs[id][i] \in Tx
  BY <1>1, SeqFunction
<1>3. /\ tx \in Tx /\ tx.withdraw_address = txs[id][i].withdraw_address
      /\ tx.ack = ack
  BY ONLY <1>2, ack \in {"ok", "error"} DEF Tx, tx
<1>4. txs' = [txs EXCEPT ![id] = [txs[id] EXCEPT ![i] = tx]]
  BY <1>1
<1> HIDE DEF tx
<1>5. /\ [txs[id] EXCEPT ![i] = tx] \in Seq(Tx)
      /\ Len([txs[id] EXCEPT ![i] = tx]) = Len(txs[id])
      /\ DOMAIN [txs[id] EXCEPT ![i] = tx] = DOMAIN txs[id]
      /\ [txs[id] EXCEPT ![i] = tx][i] = tx
      /\ \A j \in DOMAIN txs[id] : j # i => [txs[id] EXCEPT ![i] = tx][j] = txs[id][j]
  BY <1>1, <1>2, <1>3
<1>6. /\ txs' \in [IcaIds -> Seq(Tx)]
      /\ txs'[id] = [txs[id] EXCEPT ![i] = tx]
      /\ \A o \in IcaIds \ {id} : txs'[o] = txs[o]
  BY <1>1, <1>4, <1>5
<1>7. txs[id][i].withdraw_address = <<id, "withdraw">>
  BY DEF TxsKept, RewardsSet
<1>8. /\ withdraw_address' \in [IcaIds -> Ports]
      /\ \A o \in IcaIds \ {id} : withdraw_address'[o] = withdraw_address[o]
      /\ withdraw_address'[id] = <<id, "withdraw">>
             \/ (ack = "error" /\ withdraw_address'[id] = withdraw_address[id])
  <2>1. <<id, "withdraw">> \in Ports
    BY DEF Ports
  <2> QED BY <1>1, <1>7, <2>1
<1>9. RewardsSet'
  <2> SUFFICES ASSUME NEW o \in IcaIds
               PROVE  /\ \A j \in DOMAIN txs'[o] :
                             txs'[o][j].withdraw_address = <<o, "withdraw">>
                      /\ \/ status'[o] \in Running
                         \/ \E j \in DOMAIN txs'[o] : txs'[o][j].ack = "ok"
                         => withdraw_address'[o] = <<o, "withdraw">>
    BY DEF RewardsSet
  <2>1. CASE o = id
    <3>1. \A j \in DOMAIN txs'[id] : txs'[id][j].withdraw_address = <<id, "withdraw">>
      BY <1>3, <1>5, <1>6 DEF TxsKept, RewardsSet
    <3>2. ASSUME withdraw_address'[id] # <<id, "withdraw">>,
                 NEW j \in DOMAIN txs'[id], txs'[id][j].ack = "ok"
          PROVE  FALSE
      <4>1. ack = "error" /\ withdraw_address'[id] = withdraw_address[id]
        BY <1>8, <3>2
      <4>2. j \in DOMAIN txs[id] /\ txs[id][j].ack = "ok"
        BY <1>3, <1>5, <1>6, <3>2, <4>1
      <4> QED BY <3>2, <4>1, <4>2 DEF TxsKept, RewardsSet
    <3>3. status'[id] \in Running => withdraw_address'[id] = <<id, "withdraw">>
      BY <1>8 DEF TxsKept, RewardsSet
    <3> QED BY <2>1, <3>1, <3>2, <3>3
  <2>2. CASE o # id
    <3>1. txs'[o] = txs[o] /\ withdraw_address'[o] = withdraw_address[o]
      BY <1>6, <1>8, <2>2
    <3> QED BY <3>1 DEF TxsKept, RewardsSet
  <2> QED BY <2>1, <2>2
<1>10. Pools' = Pools
  BY DEF Pools
<1>11. OneOutcome'
  <2> SUFFICES ASSUME NEW o \in IcaIds
               PROVE  /\ o \notin Pools => txs'[o] = <<>>
                      /\ ~overlapped[o] =>
                             /\ Len(txs'[o]) <= 1
                             /\ status[o] \in Running => txs'[o] = <<>>
    BY <1>10 DEF OneOutcome
  <2>1. CASE o = id
    <3>1. txs[id] # <<>>
      BY <1>2
    <3> QED BY <1>5, <1>6, <2>1, <3>1 DEF TxsKept, OneOutcome
  <2>2. CASE o # id
    BY <1>6, <2>2 DEF TxsKept, OneOutcome
  <2> QED BY <2>1, <2>2
<1> QED BY <1>6, <1>8, <1>9, <1>11 DEF TxsKept

\* Nothing else is known of a pool's transactions than whether it runs and whether
\* it is initialised.
LEMMA TxsFrame ==
    ASSUME TxsKept, UNCHANGED <<txs, withdraw_address, overlapped>>, Pools' = Pools,
           \A id \in IcaIds : status'[id] \in Running <=> status[id] \in Running
    PROVE  TxsKept'
<1>1. RewardsSet'
  BY DEF TxsKept, RewardsSet
<1>2. OneOutcome'
  BY DEF TxsKept, OneOutcome
<1> QED BY <1>1, <1>2 DEF TxsKept

-----------------------------------------------------------------------------
(***************************************************************************)
(* The invariant.                                                          *)
(***************************************************************************)
\* The maps of the queries and the histories are in range.
IdTypes ==
    /\ next_query_reply_id \in QUERY_REPLY_ID_RANGE_START..QUERY_REPLY_ID_RANGE_END
    /\ DOMAIN address_to_reply_id \subseteq Ports \X QueryKind
    /\ \A r \in DOMAIN reply_id_to_query_id : reply_id_to_query_id[r] \in DOMAIN queries
    /\ reply_id_to_need_update \subseteq DOMAIN reply_id_to_query_id
    /\ DOMAIN query_id_to_reply_id \subseteq DOMAIN queries
    /\ queries \in Seq(Query)

AccountTypes ==
    /\ DOMAIN info_of_ica_id \subseteq IcaIds
    /\ \A id \in DOMAIN info_of_ica_id :
           info_of_ica_id[id] \in [{"pool", "withdraw"} -> IcaInfo]
    /\ status \in [IcaIds -> Status]
    /\ \A id \in IcaIds : status[id] # "none" <=>
           id \in DOMAIN info_of_ica_id /\ BothKnown(info_of_ica_id, id)

ChannelTypes == channels \in [Ports -> Channel] /\ opened \in 0..MaxChannels

OtherTypes ==
    /\ backed \in [IcaIds -> BOOLEAN]
    /\ txs \in [IcaIds -> Seq(Tx)]
    /\ withdraw_address \in [IcaIds -> Ports]
    /\ overlapped \in [IcaIds -> BOOLEAN] /\ early_period \in [IcaIds -> BOOLEAN]

\* The parts of the type invariant.
LEMMA TypeParts == TypeOK <=> IdTypes /\ AccountTypes /\ ChannelTypes /\ OtherTypes
BY DEF TypeOK, IdTypes, AccountTypes, ChannelTypes, OtherTypes

\* The same after a step.
LEMMA TypePartsNext ==
    ASSUME IdTypes', AccountTypes', ChannelTypes', OtherTypes'
    PROVE  TypeOK'
BY DEF TypeOK, IdTypes, AccountTypes, ChannelTypes, OtherTypes

\* The types of the maps follow from how they keep step.
LEMMA IdsTyped ==
    ASSUME QueriesKept', queries' \in Seq(Query),
           DOMAIN address_to_reply_id' \subseteq Ports \X QueryKind
    PROVE  IdTypes'
<1>1. Len(queries') \in Nat /\ DOMAIN queries' = 1..Len(queries')
  BY SeqFunction
<1>2. next_query_reply_id' \in QUERY_REPLY_ID_RANGE_START..QUERY_REPLY_ID_RANGE_END
  <2>1. Len(queries') % RangeSize \in 0..(RangeSize - 1)
    BY <1>1, RangeFacts, ModRange
  <2>2. next_query_reply_id' = START + (Len(queries') % RangeSize)
    BY DEF QueriesKept, IdsKeepStep
  <2>3. START = QUERY_REPLY_ID_RANGE_START
    BY DEF START
  <2> QED BY ONLY <2>1, <2>2, <2>3, RangeFacts
<1>3. \A r \in DOMAIN reply_id_to_query_id' : reply_id_to_query_id'[r] \in DOMAIN queries'
  <2> TAKE r \in DOMAIN reply_id_to_query_id'
  <2>1. r \in START..(START + Len(queries') - 1) /\ reply_id_to_query_id'[r] = r - START + 1
    BY DEF QueriesKept, IdsKeepStep
  <2> QED BY ONLY <1>1, <2>1, RangeFacts
<1>4. /\ reply_id_to_need_update' \subseteq DOMAIN reply_id_to_query_id'
      /\ DOMAIN query_id_to_reply_id' \subseteq DOMAIN queries'
  BY DEF QueriesKept, FirstResults
<1> QED BY <1>2, <1>3, <1>4 DEF IdTypes

\* A status that changes among those of existing pools leaves the accounts.
LEMMA AccountsFrame ==
    ASSUME AccountTypes, AddressIsPort, UNCHANGED info_of_ica_id,
           status' \in [IcaIds -> Status],
           \A id \in IcaIds : status'[id] = "none" <=> status[id] = "none"
    PROVE  AccountTypes' /\ AddressIsPort'
<1>1. AddressIsPort'
  BY DEF AddressIsPort
<1>2. AccountTypes'
  BY DEF AccountTypes, BothKnown
<1> QED BY <1>1, <1>2

\* So does a channel that closes.
LEMMA ChannelsFrame ==
    ASSUME ChannelTypes, OpenedIsRegistered, UNCHANGED <<info_of_ica_id, opened>>,
           channels' \in [Ports -> Channel],
           \A port \in Ports :
               channels[port].state = "none" => channels'[port].state = "none"
    PROVE  ChannelTypes' /\ OpenedIsRegistered'
<1>1. OpenedIsRegistered'
  BY DEF OpenedIsRegistered
<1>2. ChannelTypes'
  BY DEF ChannelTypes
<1> QED BY <1>1, <1>2

\* A channel that changes its state keeps its type.
LEMMA ChannelTyped ==
    ASSUME ChannelTypes, NEW port \in Ports, NEW s \in {"opening", "open", "closed"},
           channels[port].state # "none",
           channels' = [channels EXCEPT ![port].state = s]
    PROVE  /\ channels' \in [Ports -> Channel]
           /\ \A p \in Ports :
                  channels[p].state = "none" => channels'[p].state = "none"
<1> DEFINE channel == [channels[port] EXCEPT !.state = s]
<1>1. channels \in [Ports -> Channel]
  BY DEF ChannelTypes
<1>2. channel \in Channel /\ channel.state = s
  <2>1. channels[port] \in Channel
    BY <1>1
  <2> QED BY ONLY <2>1, s \in {"opening", "open", "closed"} DEF Channel, channel
<1>3. channels' = [channels EXCEPT ![port] = channel]
  BY <1>1
<1> HIDE DEF channel
<1> QED BY <1>1, <1>2, <1>3

\* RegisterPool: neither account has answered.
LEMMA RegisterStep ==
    ASSUME IInv, NEW id \in IcaIds, execute_register_pool(id)
    PROVE  IInv'
<1> DEFINE none == [kind \in {"pool", "withdraw"} |-> NoInfo]
           P == <<id, "pool">>
           W == <<id, "withdraw">>
<1> USE DEF IInv, AccountsKept
<1>1. /\ id \notin DOMAIN info_of_ica_id
      /\ DOMAIN info_of_ica_id' = DOMAIN info_of_ica_id \cup {id}
      /\ info_of_ica_id'[id] = none
      /\ \A o \in DOMAIN info_of_ica_id : info_of_ica_id'[o] = info_of_ica_id[o]
  BY DEF execute_register_pool, Saved
<1>2. UNCHANGED <<status, backed, id_vars, withdraw_address, queries, txs,
                  overlapped, early_period>>
  BY DEF execute_register_pool, history_vars
<1>3. AccountTypes /\ ChannelTypes /\ OtherTypes /\ IdTypes
  BY TypeParts
<1>4. AccountTypes'
  <2>1. DOMAIN info_of_ica_id' \subseteq IcaIds
    BY <1>1, <1>3 DEF AccountTypes
  <2>2. none \in [{"pool", "withdraw"} -> IcaInfo]
    BY DEF NoInfo, IcaInfo
  <2>3. \A o \in DOMAIN info_of_ica_id' :
            info_of_ica_id'[o] \in [{"pool", "withdraw"} -> IcaInfo]
    BY <1>1, <1>3, <2>2 DEF AccountTypes
  <2>4. ASSUME NEW o \in IcaIds
        PROVE  status'[o] # "none" <=>
                   o \in DOMAIN info_of_ica_id' /\ BothKnown(info_of_ica_id, o)'
    <3>1. CASE o = id
      <4>1. status[id] = "none"
        BY <1>1, <1>3 DEF AccountTypes
      <4>2. ~BothKnown(info_of_ica_id, id)'
        BY <1>1 DEF BothKnown, NoInfo
      <4> QED BY <1>2, <3>1, <4>1, <4>2
    <3>2. CASE o # id
      <4>1. /\ o \in DOMAIN info_of_ica_id' <=> o \in DOMAIN info_of_ica_id
            /\ o \in DOMAIN info_of_ica_id => info_of_ica_id'[o] = info_of_ica_id[o]
        BY <1>1, <3>2
      <4>2. o \in DOMAIN info_of_ica_id =>
                (BothKnown(info_of_ica_id, o)' <=> BothKnown(info_of_ica_id, o))
        BY <4>1 DEF BothKnown
      <4> QED BY <1>2, <1>3, <4>1, <4>2 DEF AccountTypes
    <3> QED BY <3>1, <3>2
  <2> QED BY <1>2, <1>3, <2>1, <2>3, <2>4 DEF AccountTypes
<1>5. AddressIsPort'
  BY <1>1 DEF AddressIsPort, NoInfo
<1>6. P \in Ports /\ W \in Ports /\ P # W
  BY DEF Ports
<1>7. opened \in Nat /\ opened + 2 \in 0..MaxChannels
  <2>1. opened \in 0..MaxChannels /\ MaxChannels \in Nat
    BY <1>3, LifecycleAssumption DEF ChannelTypes
  <2>2. opened + 2 + Cardinality({port \in Ports : channels[port].state = "closed"})
            <= MaxChannels
    BY DEF execute_register_pool, Reopenable
  <2> QED BY <2>1, <2>2, ClosedCounted
<1>8. ChannelTypes' /\ OpenedIsRegistered'
  <2>1. channels' = [channels EXCEPT
            ![P] = [id |-> opened + 1, state |-> "opening"],
            ![W] = [id |-> opened + 2, state |-> "opening"]]
        /\ opened' = opened + 2
    BY DEF execute_register_pool
  <2>2. channels \in [Ports -> Channel]
    BY <1>3 DEF ChannelTypes
  <2>3. /\ [id |-> opened + 1, state |-> "opening"] \in Channel
        /\ [id |-> opened + 2, state |-> "opening"] \in Channel
    BY <1>7 DEF Channel
  <2>4. /\ channels' \in [Ports -> Channel]
        /\ \A port \in Ports : port # P /\ port # W => channels'[port] = channels[port]
    BY <1>6, <2>1, <2>2, <2>3
  <2>5. P[1] = id /\ W[1] = id
    OBVIOUS
  <2> HIDE DEF P, W
  <2>6. OpenedIsRegistered'
    BY <1>1, <2>4, <2>5 DEF OpenedIsRegistered
  <2> QED BY <1>7, <2>1, <2>4, <2>6 DEF ChannelTypes
<1>9. Pools' = Pools
  BY <1>2 DEF Pools
<1>10. QueriesKept'
  BY <1>2, <1>9, QueriesFrame
<1>11. TxsKept'
  BY <1>2, <1>9, TxsFrame
<1>12. OtherTypes' /\ AllBacked'
  BY <1>2, <1>3 DEF OtherTypes, AllBacked
<1>13. IdTypes'
  BY <1>2, <1>3 DEF IdTypes, id_vars
<1> QED BY <1>4, <1>5, <1>8, <1>10, <1>11, <1>12, <1>13, TypePartsNext

\* An account answers, for the first time or again.
LEMMA OpenAckStep ==
    ASSUME IInv, NEW port \in Ports, sudo_open_ack(port)
    PROVE  IInv'
<1> DEFINE id == port[1]
           kind == port[2]
           answer == [ica_addr |-> port, ctrl_channel_id |-> channels[port].id]
           both == BothKnown(Answer(port), id)
<1> USE DEF IInv, AccountsKept
<1>1. AccountTypes /\ ChannelTypes /\ OtherTypes /\ IdTypes
  BY TypeParts
<1>2. id \in IcaIds /\ kind \in {"pool", "withdraw"} /\ port = <<id, kind>> /\ port # NoAddr
  BY DEF Ports, NoAddr
<1>3. /\ channels[port].state = "opening"
      /\ channels' = [channels EXCEPT ![port].state = "open"]
      /\ info_of_ica_id' = Answer(port)
      /\ status' = [status EXCEPT
             ![id] = IF both /\ @ = "none" THEN "RegisterEnded" ELSE @]
      /\ UNCHANGED <<backed, id_vars, opened, withdraw_address, queries, txs,
                     overlapped, early_period>>
  BY DEF sudo_open_ack, history_vars
<1>4. id \in DOMAIN info_of_ica_id
  BY <1>3 DEF OpenedIsRegistered
<1>5. answer \in IcaInfo
  <2>1. channels[port] \in Channel
    BY <1>1 DEF ChannelTypes
  <2> QED BY <2>1 DEF IcaInfo, Channel
<1>6. info_of_ica_id[id] \in [{"pool", "withdraw"} -> IcaInfo]
  BY <1>1, <1>4 DEF AccountTypes
<1>7. info_of_ica_id' = [info_of_ica_id EXCEPT
                            ![id] = [info_of_ica_id[id] EXCEPT ![kind] = answer]]
  BY <1>3, <1>4, <1>6 DEF Answer
<1>8. answer.ica_addr = port
  OBVIOUS
<1> HIDE DEF answer
<1>9. /\ DOMAIN info_of_ica_id' = DOMAIN info_of_ica_id
      /\ info_of_ica_id'[id] = [info_of_ica_id[id] EXCEPT ![kind] = answer]
      /\ \A o \in DOMAIN info_of_ica_id : o # id => info_of_ica_id'[o] = info_of_ica_id[o]
  BY <1>4, <1>7
<1>10. /\ info_of_ica_id'[id] \in [{"pool", "withdraw"} -> IcaInfo]
       /\ info_of_ica_id'[id][kind].ica_addr = port
       /\ \A k \in {"pool", "withdraw"} :
              k # kind => info_of_ica_id'[id][k] = info_of_ica_id[id][k]
  BY <1>2, <1>5, <1>6, <1>8, <1>9
<1>11. AddressIsPort'
  <2>1. ASSUME NEW o \in DOMAIN info_of_ica_id', NEW k \in {"pool", "withdraw"}
        PROVE  info_of_ica_id'[o][k].ica_addr \in {NoAddr, <<o, k>>}
    <3>1. CASE o = id /\ k = kind
      BY <1>2, <1>10, <3>1
    <3>2. CASE ~(o = id /\ k = kind)
      <4>1. o \in DOMAIN info_of_ica_id /\ info_of_ica_id'[o][k] = info_of_ica_id[o][k]
        BY <1>9, <1>10, <2>1, <3>2
      <4> QED BY <4>1 DEF AddressIsPort
    <3> QED BY <3>1, <3>2
  <2> QED BY <2>1 DEF AddressIsPort
<1>12. both <=> BothKnown(info_of_ica_id, id)'
  BY <1>3 DEF BothKnown
<1>13. BothKnown(info_of_ica_id, id) => both
  BY <1>2, <1>10, <1>12 DEF BothKnown
<1> HIDE DEF both
<1>14. /\ status \in [IcaIds -> Status]
       /\ status'[id] = IF both /\ status[id] = "none" THEN "RegisterEnded" ELSE status[id]
       /\ \A o \in IcaIds : o # id => status'[o] = status[o]
  BY <1>1, <1>2, <1>3 DEF AccountTypes
<1>15. status' \in [IcaIds -> Status]
  BY <1>3, <1>14 DEF Status
<1>16. AccountTypes'
  <2>1. \A o \in DOMAIN info_of_ica_id' :
            info_of_ica_id'[o] \in [{"pool", "withdraw"} -> IcaInfo]
    BY <1>1, <1>9, <1>10 DEF AccountTypes
  <2>2. ASSUME NEW o \in IcaIds
        PROVE  status'[o] # "none" <=>
                   o \in DOMAIN info_of_ica_id' /\ BothKnown(info_of_ica_id, o)'
    <3>1. CASE o = id
      <4>1. status[id] # "none" => both
        BY <1>1, <1>2, <1>13 DEF AccountTypes
      <4>2. status'[id] # "none" <=> both
        BY <1>14, <4>1
      <4> QED BY <1>4, <1>9, <1>12, <3>1, <4>2
    <3>2. CASE o # id
      <4>1. o \in DOMAIN info_of_ica_id =>
                (BothKnown(info_of_ica_id, o)' <=> BothKnown(info_of_ica_id, o))
        BY <1>9, <3>2 DEF BothKnown
      <4> QED BY <1>1, <1>9, <1>14, <3>2, <4>1 DEF AccountTypes
    <3> QED BY <3>1, <3>2
  <2> QED BY <1>1, <1>9, <1>15, <2>1, <2>2 DEF AccountTypes
<1>17. ChannelTypes' /\ OpenedIsRegistered'
  <2>1. /\ channels' \in [Ports -> Channel]
        /\ \A p \in Ports : channels[p].state = "none" => channels'[p].state = "none"
    BY <1>1, <1>3, ChannelTyped
  <2>2. OpenedIsRegistered'
    BY <1>9, <2>1 DEF OpenedIsRegistered
  <2> QED BY <1>1, <1>3, <2>1, <2>2 DEF ChannelTypes
<1>18. /\ \A o \in IcaIds : status'[o] \in {"none", "RegisterEnded"}
                                <=> status[o] \in {"none", "RegisterEnded"}
       /\ \A o \in IcaIds : status'[o] \in Running <=> status[o] \in Running
  BY <1>14 DEF Running
<1>19. Pools' = Pools
  BY ONLY <1>18 DEF Pools
<1>20. QueriesKept'
  BY <1>3, <1>19, QueriesFrame
<1>21. TxsKept'
  BY <1>3, <1>18, <1>19, TxsFrame
<1>22. OtherTypes' /\ AllBacked'
  BY <1>1, <1>3 DEF OtherTypes, AllBacked
<1>23. IdTypes'
  BY <1>1, <1>3 DEF IdTypes, id_vars
<1> QED BY <1>11, <1>16, <1>17, <1>20, <1>21, <1>22, <1>23, TypePartsNext

\* What only touches the channels of existing accounts.
LEMMA ChannelStep ==
    ASSUME IInv, UNCHANGED <<pool_vars, id_vars, withdraw_address, queries, txs, history_vars>>,
           channels' \in [Ports -> Channel], opened' \in 0..MaxChannels,
           \A port \in Ports :
               channels[port].state = "none" => channels'[port].state = "none"
    PROVE  IInv'
<1> USE DEF IInv, AccountsKept
<1>1. AccountTypes /\ ChannelTypes /\ OtherTypes /\ IdTypes
  BY TypeParts
<1>2. UNCHANGED <<info_of_ica_id, status, backed, overlapped, early_period>>
  BY DEF pool_vars, history_vars
<1>3. AccountTypes' /\ AddressIsPort'
  <2>1. status' \in [IcaIds -> Status]
    BY <1>1, <1>2 DEF AccountTypes
  <2> QED BY <1>1, <1>2, <2>1, AccountsFrame
<1>4. ChannelTypes' /\ OpenedIsRegistered'
  BY <1>2 DEF ChannelTypes, OpenedIsRegistered
<1>5. Pools' = Pools
  BY <1>2 DEF Pools
<1>6. QueriesKept'
  BY <1>2, <1>5, QueriesFrame
<1>7. TxsKept'
  BY <1>2, <1>5, TxsFrame
<1>8. OtherTypes' /\ AllBacked'
  BY <1>1, <1>2 DEF OtherTypes, AllBacked
<1>9. IdTypes'
  BY <1>1, <1>2 DEF IdTypes, id_vars
<1> QED BY <1>3, <1>4, <1>6, <1>7, <1>8, <1>9, TypePartsNext

\* OpenChannel: under a new id.
LEMMA OpenChannelStep ==
    ASSUME IInv, NEW id \in IcaIds, NEW n \in 1..opened, execute_open_channel(id, n)
    PROVE  IInv'
<1>1. AccountTypes /\ ChannelTypes
  BY TypeParts DEF IInv
<1>2. PICK kind \in {"pool", "withdraw"} :
          /\ channels[<<id, kind>>].state = "closed"
          /\ channels' = [channels EXCEPT
                 ![<<id, kind>>] = [id |-> opened + 1, state |-> "opening"]]
  BY DEF execute_open_channel
<1>3. opened' = opened + 1 /\ opened' \in 0..MaxChannels /\ opened + 1 \in Nat
  BY <1>1, LifecycleAssumption DEF execute_open_channel, ChannelTypes
<1>4. <<id, kind>> \in Ports /\ [id |-> opened + 1, state |-> "opening"] \in Channel
  BY <1>3 DEF Ports, Channel
<1>5. /\ channels' \in [Ports -> Channel]
      /\ \A port \in Ports :
             channels[port].state = "none" => channels'[port].state = "none"
  BY <1>1, <1>2, <1>4 DEF ChannelTypes
<1>6. UNCHANGED <<pool_vars, id_vars, withdraw_address, queries, txs, history_vars>>
  BY DEF execute_open_channel
<1> QED BY <1>3, <1>5, <1>6, ChannelStep

\* Another transaction times out and closes a channel.
LEMMA OtherTimeoutStep ==
    ASSUME IInv, NEW id \in IcaIds, NEW kind \in {"pool", "withdraw"},
           other_tx_times_out(id, kind)
    PROVE  IInv'
<1>1. ChannelTypes
  BY TypeParts DEF IInv
<1>2. <<id, kind>> \in Ports
  BY DEF Ports
<1>3. /\ channels[<<id, kind>>].state = "open"
      /\ channels' = [channels EXCEPT ![<<id, kind>>].state = "closed"]
      /\ UNCHANGED <<pool_vars, id_vars, opened, withdraw_address, queries, txs, history_vars>>
  BY DEF other_tx_times_out
<1>4. opened' \in 0..MaxChannels
  BY <1>1, <1>3 DEF ChannelTypes
<1>5. /\ channels' \in [Ports -> Channel]
      /\ \A port \in Ports :
             channels[port].state = "none" => channels'[port].state = "none"
  BY <1>1, <1>2, <1>3, ChannelTyped
<1> QED BY <1>3, <1>4, <1>5, ChannelStep

\* What changes the status of initialised pools and their transactions only.
LEMMA PoolStep ==
    ASSUME IInv, UNCHANGED <<info_of_ica_id, backed, id_vars, opened, queries, early_period>>,
           channels' \in [Ports -> Channel],
           \A port \in Ports :
               channels[port].state = "none" => channels'[port].state = "none",
           Pools' = Pools, status' \in [IcaIds -> Status],
           \A id \in IcaIds : status'[id] = "none" <=> status[id] = "none",
           \A id \in IcaIds : status'[id] = "EraRunning" => status[id] = "EraRunning",
           TxsKept', txs' \in [IcaIds -> Seq(Tx)], withdraw_address' \in [IcaIds -> Ports],
           overlapped' \in [IcaIds -> BOOLEAN]
    PROVE  IInv'
<1> USE DEF IInv, AccountsKept
<1>1. AccountTypes /\ ChannelTypes /\ OtherTypes /\ IdTypes
  BY TypeParts
<1>2. AccountTypes' /\ AddressIsPort'
  BY <1>1, AccountsFrame
<1>3. ChannelTypes' /\ OpenedIsRegistered'
  BY <1>1, ChannelsFrame
<1>4. QueriesKept'
  BY QueriesFrame DEF Pools
<1>5. OtherTypes' /\ AllBacked'
  BY <1>1 DEF OtherTypes, AllBacked
<1>6. IdTypes'
  BY <1>1 DEF IdTypes, id_vars
<1> QED BY <1>2, <1>3, <1>4, <1>5, <1>6, TypePartsNext

\* The host answers.
LEMMA HostStepKeeps ==
    ASSUME IInv, NEW id \in IcaIds, NEW i \in DOMAIN txs[id],
           host_executes(id, i) \/ host_refuses(id, i)
    PROVE  IInv'
<1>1. AccountTypes /\ ChannelTypes /\ OtherTypes /\ TypeOK /\ TxsKept
  BY TypeParts DEF IInv
<1>2. /\ UNCHANGED <<info_of_ica_id, status, backed, id_vars, opened, queries,
                     overlapped, early_period, channels>>
      /\ TxsKept' /\ txs' \in [IcaIds -> Seq(Tx)]
      /\ withdraw_address' \in [IcaIds -> Ports]
  <2>1. CASE host_executes(id, i)
    <3>1. /\ txs' = [txs EXCEPT ![id][i].ack = "ok"]
          /\ withdraw_address' =
                 [withdraw_address EXCEPT ![id] = txs[id][i].withdraw_address]
          /\ UNCHANGED <<info_of_ica_id, status, backed, id_vars, opened, queries,
                         overlapped, early_period, channels>>
      BY <2>1 DEF host_executes, pool_vars, history_vars
    <3>2. /\ TxsKept' /\ txs' \in [IcaIds -> Seq(Tx)]
          /\ withdraw_address' \in [IcaIds -> Ports]
      BY <1>1, <3>1, HostAnswer
    <3> QED BY <3>1, <3>2
  <2>2. CASE host_refuses(id, i)
    <3>1. /\ txs' = [txs EXCEPT ![id][i].ack = "error"]
          /\ UNCHANGED <<info_of_ica_id, status, backed, id_vars, opened, queries,
                         overlapped, early_period, channels, withdraw_address>>
      BY <2>2 DEF host_refuses, pool_vars, history_vars, chain_vars
    <3>2. /\ TxsKept' /\ txs' \in [IcaIds -> Seq(Tx)]
          /\ withdraw_address' \in [IcaIds -> Ports]
      BY <1>1, <3>1, HostAnswer
    <3> QED BY <3>1, <3>2
  <2> QED BY <2>1, <2>2
<1>3. Pools' = Pools
  BY <1>2 DEF Pools
<1> QED BY <1>1, <1>2, <1>3, PoolStep DEF AccountTypes, ChannelTypes, OtherTypes

\* An outcome reaches a pool that is initialised.
LEMMA OutcomeKeeps ==
    ASSUME IInv, NEW id \in IcaIds, NEW i \in DOMAIN txs[id], NEW ack,
           Answered(id, i, ack), NEW s \in {"ActiveEnded", "InitFailed"},
           s = "ActiveEnded" => ack = "ok",
           status' = [status EXCEPT ![id] = s],
           UNCHANGED <<info_of_ica_id, backed, id_vars, opened, queries, early_period,
                       withdraw_address, overlapped>>,
           channels' \in [Ports -> Channel],
           \A port \in Ports :
               channels[port].state = "none" => channels'[port].state = "none"
    PROVE  IInv'
<1>1. AccountTypes /\ OtherTypes /\ TypeOK /\ TxsKept
  BY TypeParts DEF IInv
<1>2. TxsKept' /\ txs' \in [IcaIds -> Seq(Tx)] /\ id \in Pools /\ Pools' = Pools
  BY <1>1, OutcomeStep
<1>3. /\ status' \in [IcaIds -> Status]
      /\ \A o \in IcaIds : status'[o] = "none" <=> status[o] = "none"
      /\ \A o \in IcaIds : status'[o] = "EraRunning" => status[o] = "EraRunning"
  <2>1. status[id] # "none" /\ s # "none" /\ s # "EraRunning" /\ s \in Status
    BY <1>2 DEF Pools, Status, Running
  <2> QED BY <1>1, <2>1 DEF AccountTypes
<1>4. withdraw_address' \in [IcaIds -> Ports] /\ overlapped' \in [IcaIds -> BOOLEAN]
  BY <1>1 DEF OtherTypes
<1> QED BY <1>2, <1>3, <1>4, PoolStep

\* The callbacks of SetWithdrawAddr.
LEMMA CallbackStep ==
    ASSUME IInv, NEW id \in IcaIds, NEW i \in DOMAIN txs[id],
           \/ sudo_set_withdraw_addr_callback(id, i)
           \/ sudo_error(id, i)
           \/ sudo_timeout(id, i)
    PROVE  IInv'
<1>1. ChannelTypes
  BY TypeParts DEF IInv
<1>2. channels \in [Ports -> Channel] /\ <<id, "pool">> \in Ports
  BY <1>1 DEF ChannelTypes, Ports
<1>3. CASE sudo_set_withdraw_addr_callback(id, i)
  <2>1. /\ Answered(id, i, "ok") /\ status' = [status EXCEPT ![id] = "ActiveEnded"]
        /\ UNCHANGED <<info_of_ica_id, backed, id_vars, opened, queries, early_period,
                       withdraw_address, overlapped, channels>>
    BY <1>3 DEF sudo_set_withdraw_addr_callback, chain_vars, history_vars
  <2> QED BY <1>2, <2>1, OutcomeKeeps
<1>4. CASE sudo_error(id, i)
  <2>1. /\ Answered(id, i, "error") /\ status' = [status EXCEPT ![id] = "InitFailed"]
        /\ UNCHANGED <<info_of_ica_id, backed, id_vars, opened, queries, early_period,
                       withdraw_address, overlapped, channels>>
    BY <1>4 DEF sudo_error, sudo_set_withdraw_addr_failed_callback, chain_vars, history_vars
  <2> QED BY <1>2, <2>1, OutcomeKeeps
<1>5. CASE sudo_timeout(id, i)
  <2>1. /\ Answered(id, i, "none") /\ status' = [status EXCEPT ![id] = "InitFailed"]
        /\ UNCHANGED <<info_of_ica_id, backed, id_vars, opened, queries, early_period,
                       withdraw_address, overlapped>>
    BY <1>5 DEF sudo_timeout, sudo_set_withdraw_addr_failed_callback, history_vars
  <2>2. /\ channels' \in [Ports -> Channel]
        /\ \A port \in Ports :
               channels[port].state = "none" => channels'[port].state = "none"
    <3>1. CASE UNCHANGED channels
      BY <1>2, <3>1
    <3>2. CASE /\ channels[<<id, "pool">>] = [id |-> txs[id][i].channel, state |-> "open"]
               /\ channels' = [channels EXCEPT ![<<id, "pool">>].state = "closed"]
      <4>1. channels[<<id, "pool">>].state # "none"
        BY <3>2
      <4> QED BY <1>1, <1>2, <3>2, <4>1, ChannelTyped
    <3> QED BY <1>5, <3>1, <3>2 DEF sudo_timeout
  <2> QED BY <2>1, <2>2, OutcomeKeeps
<1> QED BY <1>3, <1>4, <1>5

\* InitPool and MigratePool: the amounts back the LSD supply.
LEMMA DealStep ==
    ASSUME IInv, NEW id \in IcaIds, NEW amounts, Backs(amounts), deal_pool(id, amounts)
    PROVE  IInv'
<1> USE DEF IInv, AccountsKept
<1>1. AccountTypes /\ ChannelTypes /\ OtherTypes /\ IdTypes
  BY TypeParts
<1>2. /\ status[id] = "RegisterEnded"
      /\ status' = [status EXCEPT ![id] = "InitStarted"]
      /\ backed' = [backed EXCEPT ![id] = Backs(amounts)]
      /\ register_queries(id)
      /\ set_withdraw_sub_msg(id)
      /\ UNCHANGED <<info_of_ica_id, channels, opened, withdraw_address,
                     overlapped, early_period>>
  BY DEF deal_pool, chain_vars, history_vars
<1>3. id \in IcaIds \ Pools /\ status[id] # "none"
  BY <1>2 DEF Pools
<1>4. /\ status \in [IcaIds -> Status] /\ status' \in [IcaIds -> Status]
      /\ status'[id] = "InitStarted"
      /\ \A o \in IcaIds : o # id => status'[o] = status[o]
  BY <1>1, <1>2 DEF AccountTypes, Status
<1>5. Pools' = Pools \cup {id}
  BY ONLY <1>3, <1>4 DEF Pools
<1>6. QueriesKept'
  BY <1>2, <1>3, <1>5, QueriesRegistered
<1>7. IdTypes'
  <2>1. queries' \in Seq(Query)
    BY <1>2, <1>3, QueriesAppended
  <2>2. DOMAIN address_to_reply_id' = DOMAIN address_to_reply_id \cup KeysOf(id)
    BY <1>2, <1>3, Registration DEF QueriesKept
  <2>3. DOMAIN address_to_reply_id' \subseteq Ports \X QueryKind
    BY <1>1, <2>2, KeysTyped DEF IdTypes
  <2> QED BY <1>6, <2>1, <2>3, IdsTyped
<1>8. TxsKept' /\ txs' \in [IcaIds -> Seq(Tx)]
  <2>1. id \in Pools' /\ status'[id] \notin Running /\ status[id] \notin Running
    BY <1>2, <1>4, <1>5 DEF Running
  <2>2. txs[id] = <<>>
    BY <1>3 DEF TxsKept, OneOutcome
  <2>3. overlapped \in [IcaIds -> BOOLEAN]
    BY <1>1 DEF OtherTypes
  <2> QED BY <1>2, <1>3, <1>4, <2>1, <2>2, <2>3, TxSent
<1>9. AccountTypes' /\ AddressIsPort'
  <2>1. \A o \in IcaIds : status'[o] = "none" <=> status[o] = "none"
    BY <1>3, <1>4
  <2> QED BY <1>1, <1>2, <1>4, <2>1, AccountsFrame
<1>10. ChannelTypes' /\ OpenedIsRegistered'
  BY <1>1, <1>2 DEF ChannelTypes, OpenedIsRegistered
<1>11. OtherTypes' /\ AllBacked'
  BY <1>1, <1>2, <1>8 DEF OtherTypes, AllBacked
<1> QED BY <1>6, <1>7, <1>8, <1>9, <1>10, <1>11, TypePartsNext

\* InitPool starts from nothing.
LEMMA InitPoolStep ==
    ASSUME IInv, NEW id \in IcaIds, execute_init_pool(id)
    PROVE  IInv'
<1> DEFINE nothing == [active |-> 0, total_lsd_token_amount |-> 0, rate |-> CAL_BASE]
<1>1. deal_pool(id, nothing)
  BY DEF execute_init_pool
<1>2. Backs(nothing)
  BY LifecycleAssumption DEF Backs
<1> HIDE DEF nothing
<1> QED BY <1>1, <1>2, DealStep

\* MigratePool refuses a rate other than the one its amounts make, rounded down.
LEMMA MigratePoolStep ==
    ASSUME IInv, NEW id \in IcaIds, NEW param \in MigrateParams,
           execute_migrate_pool(id, param)
    PROVE  IInv'
<1> DEFINE total == param.total_lsd_token_amount
           a == param.active
           r == param.rate
<1>1. total \in Nat /\ a \in Nat /\ r \in Nat /\ CAL_BASE \in Nat
  BY LifecycleAssumption DEF Amounts
<1>2. /\ r = IF total = 0 THEN CAL_BASE ELSE (a * CAL_BASE) \div total
      /\ deal_pool(id, param)
  BY DEF execute_migrate_pool
<1>3. total * r <= a * CAL_BASE
  <2>1. a * CAL_BASE \in Nat
    BY <1>1, MulNat
  <2>2. CASE total = 0
    <3>1. total * r = 0
      BY <1>1, <2>2
    <3> QED BY <2>1, <3>1
  <2>3. CASE total # 0
    <3>1. r = (a * CAL_BASE) \div total
      BY <1>2, <2>3
    <3>2. total \in Nat \ {0}
      BY <1>1, <2>3
    <3>3. ((a * CAL_BASE) \div total) * total <= a * CAL_BASE
      BY ONLY <2>1, <3>2, DivLower
    <3>4. r * total = total * r
      BY ONLY <1>1
    <3> QED BY ONLY <3>1, <3>3, <3>4
  <2> QED BY <2>2, <2>3
<1>4. Backs(param)
  BY <1>3 DEF Backs
<1> QED BY <1>2, <1>4, DealStep

\* A repeated InitPool sends the transaction again.
LEMMA InitAgainStep ==
    ASSUME IInv, NEW id \in IcaIds, init_pool_again(id)
    PROVE  IInv'
<1>1. AccountTypes /\ ChannelTypes /\ OtherTypes /\ TypeOK /\ TxsKept /\ AddressIsPort
  BY TypeParts DEF IInv, AccountsKept
<1>2. /\ status[id] = "InitFailed" /\ set_withdraw_sub_msg(id)
      /\ overlapped' = [overlapped EXCEPT ![id] = @ \/ txs[id] # <<>>]
      /\ UNCHANGED <<info_of_ica_id, status, backed, id_vars, channels, opened,
                     withdraw_address, queries, early_period>>
  BY DEF init_pool_again, pool_vars, chain_vars
<1>3. /\ overlapped' \in [IcaIds -> BOOLEAN]
      /\ \A o \in IcaIds : overlapped[o] => overlapped'[o]
      /\ txs[id] # <<>> => overlapped'[id]
  <2>1. overlapped \in [IcaIds -> BOOLEAN]
    BY <1>1 DEF OtherTypes
  <2>2. (overlapped[id] \/ txs[id] # <<>>) \in BOOLEAN
    OBVIOUS
  <2>3. /\ overlapped' \in [IcaIds -> BOOLEAN]
        /\ overlapped'[id] = (overlapped[id] \/ txs[id] # <<>>)
        /\ \A o \in IcaIds : o # id => overlapped'[o] = overlapped[o]
    BY <1>2, <2>1, <2>2
  <2>4. ASSUME NEW o \in IcaIds, overlapped[o] PROVE overlapped'[o]
    <3>1. CASE o = id
      BY <2>3, <2>4, <3>1
    <3>2. CASE o # id
      BY <2>3, <2>4, <3>2
    <3> QED BY <3>1, <3>2
  <2> QED BY <2>3, <2>4
<1>4. Pools' = Pools /\ id \in Pools'
  BY <1>2 DEF Pools
<1>5. status'[id] \notin Running /\ status[id] \notin Running /\ status[id] # "none"
  BY <1>2 DEF Running
<1>6. TxsKept' /\ txs' \in [IcaIds -> Seq(Tx)]
  BY <1>1, <1>2, <1>3, <1>4, <1>5, TxSent
<1>7. /\ status' \in [IcaIds -> Status] /\ withdraw_address' \in [IcaIds -> Ports]
      /\ channels' \in [Ports -> Channel]
  BY <1>1, <1>2 DEF AccountTypes, OtherTypes, ChannelTypes
<1> QED BY <1>2, <1>3, <1>4, <1>6, <1>7, PoolStep

\* What touches the queries, and no more of a pool than whether its era runs.
LEMMA QueryStep ==
    ASSUME IInv, UNCHANGED <<info_of_ica_id, backed, chain_vars, txs, overlapped,
                             address_to_reply_id>>,
           QueriesKept', queries' \in Seq(Query), early_period' \in [IcaIds -> BOOLEAN],
           Pools' = Pools, status' \in [IcaIds -> Status],
           \A id \in IcaIds : /\ status'[id] = "none" <=> status[id] = "none"
                              /\ status'[id] \in Running <=> status[id] \in Running
    PROVE  IInv'
<1> USE DEF IInv, AccountsKept
<1>1. AccountTypes /\ ChannelTypes /\ OtherTypes /\ IdTypes
  BY TypeParts
<1>2. UNCHANGED <<channels, opened, withdraw_address>>
  BY DEF chain_vars
<1>3. IdTypes'
  <2>1. DOMAIN address_to_reply_id' \subseteq Ports \X QueryKind
    BY <1>1 DEF IdTypes
  <2> QED BY <2>1, IdsTyped
<1>4. AccountTypes' /\ AddressIsPort'
  BY <1>1, <1>2, AccountsFrame
<1>5. ChannelTypes' /\ OpenedIsRegistered'
  BY <1>1, <1>2 DEF ChannelTypes, OpenedIsRegistered
<1>6. TxsKept'
  BY <1>2, TxsFrame
<1>7. OtherTypes' /\ AllBacked'
  BY <1>1, <1>2 DEF OtherTypes, AllBacked
<1> QED BY <1>3, <1>4, <1>5, <1>6, <1>7, TypePartsNext

\* The periods of a running pool, set by the admin or by an era.
LEMMA PeriodsSet ==
    ASSUME IInv, NEW id \in IcaIds, NEW period \in {"default", "fast", "custom"},
           set_periods(id, period), NEW s \in Running, status[id] \in Running,
           status' = [status EXCEPT ![id] = s], s = "EraRunning" => period = "fast"
    PROVE  IInv'
<1>1. /\ TypeOK /\ AddressIsPort /\ QueriesKept /\ early_period \in [IcaIds -> BOOLEAN]
      /\ status \in [IcaIds -> Status]
  BY TypeParts DEF IInv, AccountsKept, OtherTypes, AccountTypes
<1>2. /\ status'[id] = s /\ \A o \in IcaIds : o # id => status'[o] = status[o]
      /\ status' \in [IcaIds -> Status]
  BY <1>1 DEF Status
<1>3. \A o \in IcaIds : /\ status'[o] = "none" <=> status[o] = "none"
                        /\ status'[o] \in {"none", "RegisterEnded"}
                               <=> status[o] \in {"none", "RegisterEnded"}
                        /\ status'[o] \in Running <=> status[o] \in Running
  BY <1>1, <1>2 DEF Running
<1>4. id \in Pools /\ Pools' = Pools
  <2>1. id \in Pools
    BY DEF Pools, Running
  <2> QED BY <1>3, <2>1 DEF Pools
<1>5. \A o \in Pools : status'[o] = "EraRunning" =>
          IF o = id THEN period = "fast" ELSE status[o] = "EraRunning"
  BY <1>2 DEF Pools
<1>6. QueriesKept' /\ queries' \in Seq(Query)
  BY <1>1, <1>4, <1>5, PeriodStep
<1>7. UNCHANGED <<info_of_ica_id, backed, chain_vars, txs, overlapped,
                  address_to_reply_id>>
  BY DEF set_periods, id_vars
<1>8. early_period' \in [IcaIds -> BOOLEAN]
  <2>1. (/\ period # "default"
         /\ \E q \in QueryIds(id) : q \in DOMAIN query_id_to_reply_id) \in BOOLEAN
    OBVIOUS
  <2> QED BY <1>1, <2>1 DEF set_periods
<1> QED BY <1>2, <1>3, <1>4, <1>6, <1>7, <1>8, QueryStep

\* UpdateIcqUpdatePeriod, EraUpdate, EraActive and the first result of a query.
LEMMA PeriodsStep ==
    ASSUME IInv,
           \/ \E id \in IcaIds : update_icq_update_period(id) \/ EraStep(id)
           \/ \E q \in DOMAIN queries : sudo_kv_query_result(q)
    PROVE  IInv'
<1>1. /\ TypeOK /\ AddressIsPort /\ QueriesKept /\ early_period \in [IcaIds -> BOOLEAN]
      /\ status \in [IcaIds -> Status]
  BY TypeParts DEF IInv, AccountsKept, OtherTypes, AccountTypes
<1>2. ASSUME NEW id \in IcaIds, update_icq_update_period(id) \/ EraStep(id) PROVE IInv'
  <2>1. CASE update_icq_update_period(id)
    <3>1. /\ status[id] = "ActiveEnded" /\ set_periods(id, "custom")
          /\ status' = [status EXCEPT ![id] = "ActiveEnded"]
      BY <1>1, <2>1 DEF update_icq_update_period
    <3> QED BY <3>1, PeriodsSet DEF Running
  <2>2. CASE execute_era_update(id)
    <3>1. /\ status[id] = "ActiveEnded" /\ set_periods(id, "fast")
          /\ status' = [status EXCEPT ![id] = "EraRunning"]
      BY <2>2 DEF execute_era_update
    <3> QED BY <3>1, PeriodsSet DEF Running
  <2>3. CASE execute_era_active(id)
    <3>1. /\ status[id] = "EraRunning" /\ set_periods(id, "default")
          /\ status' = [status EXCEPT ![id] = "ActiveEnded"]
      BY <2>3 DEF execute_era_active
    <3> QED BY <3>1, PeriodsSet DEF Running
  <2> QED BY <1>2, <2>1, <2>2, <2>3 DEF EraStep
<1>3. ASSUME NEW q \in DOMAIN queries, sudo_kv_query_result(q) PROVE IInv'
  <2>1. QueriesKept' /\ queries' \in Seq(Query)
    BY <1>1, <1>3, ResultStep
  <2>2. UNCHANGED <<info_of_ica_id, status, backed, chain_vars, txs, overlapped,
                    address_to_reply_id>>
    BY <1>3 DEF sudo_kv_query_result, history_vars, pool_vars
  <2>3. early_period' \in [IcaIds -> BOOLEAN]
    BY <1>1, <1>3 DEF sudo_kv_query_result, history_vars
  <2>4. Pools' = Pools
    BY <2>2 DEF Pools
  <2> QED BY <1>1, <2>1, <2>2, <2>3, <2>4, QueryStep
<1> QED BY <1>2, <1>3

\* Nothing is registered at first.
LEMMA InitKeeps == Init => IInv
<1> SUFFICES ASSUME Init PROVE IInv
  OBVIOUS
<1> USE DEF Init
<1>1. Pools = {} /\ Cardinality(Pools) = 0
  <2>1. Pools = {}
    BY DEF Pools
  <2> QED BY <2>1, FS_EmptySet
<1>2. 0 % RangeSize = 0
  BY RangeFacts, ModSmall
<1>3. IdsKeepStep
  <2>1. Len(queries) = 0 /\ Len(queries) = 4 * Cardinality(Pools)
    BY <1>1
  <2>2. START..(START + Len(queries) - 1) = {}
    BY <2>1, RangeFacts
  <2>3. next_query_reply_id = START + (Len(queries) % RangeSize)
    BY <1>2, <2>1, RangeFacts DEF START
  <2>4. DOMAIN reply_id_to_query_id = {}
    OBVIOUS
  <2> QED BY <2>1, <2>2, <2>3, <2>4 DEF IdsKeepStep
<1>4. QueriesKept
  BY <1>1, <1>3 DEF QueriesKept, KeysFound, FirstResults, PeriodsKept, EraFast
<1>5. TxsKept
  BY DEF TxsKept, RewardsSet, OneOutcome, Running
<1>6. AccountsKept /\ AllBacked
  BY DEF AccountsKept, AddressIsPort, OpenedIsRegistered, AllBacked
<1>7. AccountTypes
  BY DEF AccountTypes, Status
<1>8. ChannelTypes
  BY LifecycleAssumption DEF ChannelTypes, Channel
<1>9. OtherTypes
  <2>1. \A id \in IcaIds : <<id, "pool">> \in Ports
    BY DEF Ports
  <2> QED BY <2>1 DEF OtherTypes
<1>10. IdTypes
  <2>1. next_query_reply_id \in QUERY_REPLY_ID_RANGE_START..QUERY_REPLY_ID_RANGE_END
    BY LifecycleAssumption
  <2>2. queries \in Seq(Query) /\ DOMAIN queries = {}
    OBVIOUS
  <2> QED BY <2>1, <2>2 DEF IdTypes
<1> QED BY <1>4, <1>5, <1>6, <1>7, <1>8, <1>9, <1>10, TypeParts DEF IInv

\* Every step keeps the invariant.
LEMMA NextKeeps == IInv /\ [Next]_vars => IInv'
<1> SUFFICES ASSUME IInv, [Next]_vars PROVE IInv'
  OBVIOUS
<1>1. ASSUME NEW id \in IcaIds, AdminStep(id) PROVE IInv'
  <2>1. CASE execute_register_pool(id)
    BY <2>1, RegisterStep
  <2>2. CASE \E n \in 1..opened : execute_open_channel(id, n)
    BY <2>2, OpenChannelStep
  <2>3. CASE execute_init_pool(id)
    BY <2>3, InitPoolStep
  <2>4. CASE \E param \in MigrateParams : execute_migrate_pool(id, param)
    BY <2>4, MigratePoolStep
  <2>5. CASE init_pool_again(id)
    BY <2>5, InitAgainStep
  <2>6. CASE update_icq_update_period(id)
    BY <2>6, PeriodsStep
  <2> QED BY <1>1, <2>1, <2>2, <2>3, <2>4, <2>5, <2>6 DEF AdminStep
<1>2. ASSUME NEW id \in IcaIds, Callback(id) PROVE IInv'
  BY <1>2, CallbackStep DEF Callback
<1>3. ASSUME NEW id \in IcaIds, HostStep(id) PROVE IInv'
  <2>1. CASE \E i \in DOMAIN txs[id] : host_executes(id, i) \/ host_refuses(id, i)
    BY <2>1, HostStepKeeps
  <2>3. CASE \E kind \in {"pool", "withdraw"} : other_tx_times_out(id, kind)
    BY <2>3, OtherTimeoutStep
  <2> QED BY <1>3, <2>1, <2>3 DEF HostStep
<1>4. ASSUME NEW port \in Ports, sudo_open_ack(port) PROVE IInv'
  BY <1>4, OpenAckStep
<1>5. ASSUME NEW q \in DOMAIN queries, sudo_kv_query_result(q) PROVE IInv'
  BY <1>5, PeriodsStep
<1>7. ASSUME NEW id \in IcaIds, EraStep(id) PROVE IInv'
  BY <1>7, PeriodsStep
<1>6. ASSUME UNCHANGED vars PROVE IInv'
  <2>1. UNCHANGED <<pool_vars, id_vars, chain_vars, queries, txs, history_vars>>
    BY <1>6 DEF vars
  <2>2. UNCHANGED <<channels, opened, withdraw_address>>
    BY <2>1 DEF chain_vars
  <2>3. channels' \in [Ports -> Channel] /\ opened' \in 0..MaxChannels
    BY <2>2, TypeParts DEF IInv, ChannelTypes
  <2> QED BY <2>1, <2>2, <2>3, ChannelStep
<1> QED BY <1>1, <1>2, <1>3, <1>4, <1>5, <1>6, <1>7 DEF Next

\* The invariant holds of every behaviour.
THEOREM LifecycleInvariant == Spec => []IInv
BY InitKeeps, NextKeeps, PTL DEF Spec

\* Every map keeps its keys and values in range, whatever pools are registered and
\* however often their channels are reopened.
THEOREM LifecycleTypeTheorem == Spec => []TypeOK
<1>1. IInv => TypeOK
  BY DEF IInv
<1> QED BY <1>1, LifecycleInvariant, PTL

-----------------------------------------------------------------------------
(***************************************************************************)
(* What it is for.                                                         *)
(***************************************************************************)
\* The four query ids of a pool.
LEMMA PoolQueryIds ==
    ASSUME IInv, NEW id \in Pools
    PROVE  /\ ToSet(QueryKeys(id)) = KeysOf(id)
           /\ QueryIds(id) = {get_query_id(key) : key \in KeysOf(id)}
<1>1. id \in IcaIds /\ status[id] # "none"
  BY DEF Pools
<1>2. ToSet(QueryKeys(id)) = KeysOf(id)
  BY <1>1, KeysPlaced DEF IInv, AccountsKept
<1> QED BY <1>2 DEF QueryIds

\* A pool that takes stakes has its rewards paid to its own withdraw account, finds
\* each of its four queries under its address and kind, and starts from a backed
\* supply, whatever failed and was retried, with any number of pools that fit the
\* range of reply ids.
THEOREM PoolReadyTheorem == Spec => []PoolReady
<1>1. IInv => PoolReady
  <2> SUFFICES ASSUME IInv, NEW id \in IcaIds, status[id] \in Running
               PROVE  /\ withdraw_address[id] = WithdrawAddr(id)
                      /\ \A key \in ToSet(QueryKeys(id)) :
                             queries[get_query_id(key)].key = key
                      /\ backed[id]
    BY DEF PoolReady
  <2>1. id \in Pools /\ status[id] # "none"
    BY DEF Pools, Running
  <2>2. WithdrawAddr(id) = <<id, "withdraw">>
    BY <2>1, AddressesKnown DEF IInv, AccountsKept
  <2>3. withdraw_address[id] = <<id, "withdraw">>
    BY DEF IInv, TxsKept, RewardsSet
  <2>4. \A key \in KeysOf(id) : queries[get_query_id(key)].key = key
    BY <2>1, PoolKeys DEF IInv
  <2>5. backed[id]
    BY DEF IInv, AllBacked
  <2> QED BY <2>1, <2>2, <2>3, <2>4, <2>5, PoolQueryIds
<1> QED BY <1>1, LifecycleInvariant, PTL

\* The three queries an era waits for are fast while it is in progress, and the four
\* queries of a pool agree on their period once its validators query has had its first
\* result, unless EraUpdate or the admin set one before that.
THEOREM PeriodsTheorem == Spec => []PeriodsAgree
<1>1. IInv => PeriodsAgree
  <2> SUFFICES ASSUME IInv, NEW id \in IcaIds, status[id] \in Running
               PROVE  /\ status[id] = "EraRunning" =>
                             \A q \in QueryIds(id) :
                                 queries[q].key[2] # "validators" =>
                                     queries[q].period = "fast"
                      /\ (/\ ~early_period[id]
                          /\ QueryIds(id) \cap DOMAIN query_id_to_reply_id = {}) =>
                             \A p, q \in QueryIds(id) :
                                 queries[p].period = queries[q].period
    BY DEF PeriodsAgree
  <2>1. id \in Pools
    BY DEF Pools, Running
  <2>2. QueryIds(id) = {get_query_id(key) : key \in KeysOf(id)}
    BY <2>1, PoolQueryIds
  <2>3. get_query_id(ValidatorsKey(id)) \in QueryIds(id)
    BY <2>2 DEF KeysOf
  <2>4. ASSUME ~early_period[id], QueryIds(id) \cap DOMAIN query_id_to_reply_id = {}
        PROVE  \A p, q \in QueryIds(id) : queries[p].period = queries[q].period
    <3>1. \A k, l \in KeysOf(id) :
              queries[get_query_id(k)].period = queries[get_query_id(l)].period
      BY <2>1, <2>3, <2>4 DEF IInv, QueriesKept, PeriodsKept
    <3> QED BY <2>2, <3>1
  <2>5. ASSUME status[id] = "EraRunning", NEW q \in QueryIds(id),
               queries[q].key[2] # "validators"
        PROVE  queries[q].period = "fast"
    <3>1. PICK key \in KeysOf(id) : q = get_query_id(key)
      BY <2>2
    <3>2. queries[q].key = key
      BY <2>1, <3>1, PoolKeys DEF IInv
    <3>3. key \in OtherKeys(id)
      BY <2>5, <3>2 DEF KeysOf, ValidatorsKey
    <3> QED BY <2>1, <2>5, <3>1, <3>3 DEF IInv, QueriesKept, EraFast
  <2> QED BY <2>4, <2>5
<1> QED BY <1>1, LifecycleInvariant, PTL

\* The rank of a status.
LEMMA Ranks ==
    /\ \A s \in Status : Rank(s) \in 0..3
    /\ Rank("none") = 0 /\ Rank("RegisterEnded") = 1
    /\ Rank("InitStarted") = 2 /\ Rank("InitFailed") = 2
    /\ \A s \in Running : Rank(s) = 3
BY DEF Rank, Status, Running

\* A step never takes a pool back, unless InitPool was repeated with an outcome
\* outstanding.
LEMMA StepNeverBack ==
    ASSUME IInv, [Next]_vars, NEW id \in IcaIds, ~overlapped[id]
    PROVE  Rank(status'[id]) >= Rank(status[id])
<1>1. /\ status \in [IcaIds -> Status] /\ Rank(status[id]) \in 0..3
      /\ TypeOK /\ TxsKept
  <2>1. status \in [IcaIds -> Status]
    BY DEF IInv, TypeOK
  <2> QED BY <2>1, Ranks DEF IInv
<1>2. CASE status'[id] = status[id]
  BY <1>1, <1>2
<1>3. ASSUME NEW s, NEW o \in IcaIds, status' = [status EXCEPT ![o] = s],
             o = id => Rank(s) \in Nat /\ Rank(s) >= Rank(status[id])
      PROVE  Rank(status'[id]) >= Rank(status[id])
  <2>1. CASE o = id
    BY <1>1, <1>3, <2>1
  <2>2. CASE o # id
    <3>1. status'[id] = status[id]
      BY <1>1, <1>3, <2>2
    <3> QED BY <1>2, <3>1
  <2> QED BY <2>1, <2>2
<1>4. ASSUME NEW o \in IcaIds, AdminStep(o)
      PROVE  Rank(status'[id]) >= Rank(status[id])
  <2>1. CASE \E amounts : deal_pool(o, amounts)
    <3>1. status[o] = "RegisterEnded" /\ status' = [status EXCEPT ![o] = "InitStarted"]
      BY <2>1 DEF deal_pool
    <3>2. o = id => Rank("InitStarted") \in Nat
                        /\ Rank("InitStarted") >= Rank(status[id])
      BY <3>1, Ranks
    <3> QED BY <1>3, <3>1, <3>2
  <2>2. CASE UNCHANGED status
    BY <1>2, <2>2
  <2> QED BY <1>4, <2>1, <2>2 DEF AdminStep, execute_register_pool, execute_open_channel,
          execute_init_pool, execute_migrate_pool, init_pool_again,
          update_icq_update_period, pool_vars
<1>5. ASSUME NEW o \in IcaIds, Callback(o)
      PROVE  Rank(status'[id]) >= Rank(status[id])
  <2>1. ASSUME NEW i \in DOMAIN txs[o], NEW ack, Answered(o, i, ack),
               NEW s \in {"ActiveEnded", "InitFailed"}, s = "ActiveEnded" => ack = "ok",
               status' = [status EXCEPT ![o] = s],
               UNCHANGED <<withdraw_address, overlapped>>
        PROVE  Rank(status'[id]) >= Rank(status[id])
    <3>1. o \in Pools /\ (~overlapped[o] => status[o] \notin Running)
      BY <1>1, <2>1, OutcomeStep
    <3>2. o = id => status[id] \in {"InitStarted", "InitFailed"}
      BY <1>1, <3>1 DEF Pools, Status
    <3>3. Rank(s) \in {2, 3}
      BY Ranks DEF Running
    <3>4. o = id => Rank(s) \in Nat /\ Rank(s) >= Rank(status[id])
      BY <3>2, <3>3, Ranks
    <3> QED BY <1>3, <2>1, <3>4
  <2>2. ASSUME NEW i \in DOMAIN txs[o],
               \/ sudo_set_withdraw_addr_callback(o, i)
               \/ sudo_error(o, i) \/ sudo_timeout(o, i)
        PROVE  Rank(status'[id]) >= Rank(status[id])
    <3>1. CASE sudo_set_withdraw_addr_callback(o, i)
      BY <2>1, <3>1 DEF sudo_set_withdraw_addr_callback, chain_vars, history_vars
    <3>2. CASE sudo_error(o, i)
      BY <2>1, <3>2 DEF sudo_error, sudo_set_withdraw_addr_failed_callback, chain_vars,
                        history_vars
    <3>3. CASE sudo_timeout(o, i)
      BY <2>1, <3>3 DEF sudo_timeout, sudo_set_withdraw_addr_failed_callback, history_vars
    <3> QED BY <2>2, <3>1, <3>2, <3>3
  <2> QED BY <1>5, <2>2 DEF Callback
<1>6. ASSUME NEW o \in IcaIds, HostStep(o)
      PROVE  Rank(status'[id]) >= Rank(status[id])
  <2>1. UNCHANGED status
    BY <1>6 DEF HostStep, host_executes, host_refuses, other_tx_times_out, pool_vars
  <2> QED BY <1>2, <2>1
<1>7. ASSUME NEW port \in Ports, sudo_open_ack(port)
      PROVE  Rank(status'[id]) >= Rank(status[id])
  <2> DEFINE o == port[1]
             both == BothKnown(Answer(port), o)
             s == IF both /\ status[o] = "none" THEN "RegisterEnded" ELSE status[o]
  <2>1. o \in IcaIds
    BY DEF Ports
  <2>2. status' = [status EXCEPT ![o] = s]
    BY <1>1, <1>7, <2>1 DEF sudo_open_ack
  <2> HIDE DEF both
  <2>3. o = id => Rank(s) \in Nat /\ Rank(s) >= Rank(status[id])
    BY <1>1, Ranks
  <2> HIDE DEF s, o
  <2> QED BY <1>3, <2>1, <2>2, <2>3
<1>8. ASSUME NEW q \in DOMAIN queries, sudo_kv_query_result(q)
      PROVE  Rank(status'[id]) >= Rank(status[id])
  BY <1>2, <1>8 DEF sudo_kv_query_result, pool_vars
<1>9. ASSUME UNCHANGED vars
      PROVE  Rank(status'[id]) >= Rank(status[id])
  BY <1>2, <1>9 DEF vars, pool_vars
<1>10. ASSUME NEW o \in IcaIds, EraStep(o)
       PROVE  Rank(status'[id]) >= Rank(status[id])
  <2>1. ASSUME NEW s \in Running, status[o] \in Running,
               status' = [status EXCEPT ![o] = s]
        PROVE  Rank(status'[id]) >= Rank(status[id])
    <3>1. o = id => Rank(s) \in Nat /\ Rank(s) >= Rank(status[id])
      BY <2>1, Ranks
    <3> QED BY <1>3, <2>1, <3>1
  <2> QED BY <1>10, <2>1 DEF EraStep, execute_era_update, execute_era_active, Running
<1> QED BY <1>4, <1>5, <1>6, <1>7, <1>8, <1>9, <1>10 DEF Next

\* A pool that runs is never taken back to its initialisation, and one that exists is
\* never made anew, by a reopened channel or by a late outcome, unless InitPool was
\* repeated with an outcome outstanding.
THEOREM NeverBackTheorem == Spec => NeverBackToInit
<1>1. IInv /\ [Next]_vars =>
          [\A id \in IcaIds :
               ~overlapped[id] => Rank(status'[id]) >= Rank(status[id])]_vars
  BY StepNeverBack
<1> QED BY <1>1, LifecycleInvariant, PTL DEF Spec, NeverBackToInit

=============================================================================
