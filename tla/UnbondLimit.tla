----------------------------- MODULE UnbondLimit -----------------------------
(***************************************************************************)
(* From which validators an era undelegates.  The host lets an account     *)
(* have a limited number of unbondings in progress per validator; the      *)
(* contract keeps its own list of unbonding times, stays away from a       *)
(* validator whose list is full, and drops a time once unbonding_period    *)
(* eras have passed.  The list is written when the outcome comes back, the *)
(* period is counted in eras, and the admin may change an era's length,    *)
(* which sets the period anew, or the period itself, which nothing checks. *)
(*                                                                         *)
(* Abstractions: time is relative (the age of a recorded time, the seconds *)
(* an unbonding has left), so no bound on it is needed.  Of an era only    *)
(* EraUpdate, with the net amount to undelegate as input, EraBond and its  *)
(* outcome are kept; the query EraBond reads is fresh and shows the        *)
(* delegations as they are (EraCycle has the checks for both).             *)
(***************************************************************************)
EXTENDS Integers, SequencesExt, Vec

CONSTANTS
    ValidatorAddrs,          \* sequence of the pool's validators
    MAX_UNBONDINGS,          \* 7 in the code, and on the host
    UNBONDING_SECONDS,       \* three weeks
    MIN_ERA_SECONDS, MAX_ERA_SECONDS,
    InitialDelegation,       \* delegated to each validator at the start
    MaxUnbond,               \* bound: what one era undelegates
    MaxPeriod,               \* bound: the period the admin sets
    AgeLimit                 \* bound: older times are not told apart

Validators == ToSet(ValidatorAddrs)

ASSUME UnbondAssumption ==
    /\ ValidatorAddrs \in Seq(Validators)
    /\ IsInjective(ValidatorAddrs)
    /\ MAX_UNBONDINGS \in Nat \ {0}
    /\ UNBONDING_SECONDS \in Nat \ {0}
    /\ MIN_ERA_SECONDS \in Nat \ {0}
    /\ MAX_ERA_SECONDS \in Nat
    /\ MIN_ERA_SECONDS <= MAX_ERA_SECONDS
    /\ InitialDelegation \in [Validators -> Nat]
    /\ MaxUnbond \in Nat
    /\ MaxPeriod \in Nat
    /\ AgeLimit \in Nat

VARIABLES
    status, era_seconds, unbonding_period,
    unbond_amount,           \* of the snapshot: unbond - bond
    unbonds_time,            \* VALIDATORS_UNBONDS_TIME, as ages, oldest first
    tx,                      \* the EraBond in flight, a sequence of at most one
    delegation,              \* on the host
    entries,                 \* unbondings in progress: the seconds each has left
    dropped_early            \* history, read by no action: EraBond has dropped a
                             \* time whose unbonding may still be in progress

pool_vars == <<status, era_seconds, unbonding_period, unbond_amount>>
vars == <<pool_vars, unbonds_time, tx, delegation, entries, dropped_early>>

Total(amounts) == SumFunctionOnSet(amounts, Validators)

\* The unbonding period execute_config_pool derives from the length of an era.
PeriodFor(seconds) == (UNBONDING_SECONDS + seconds - 1) \div seconds + 1

\* No period that can be in force is as long as the limit.
ASSUME AgeLimitAssumption ==
    \A seconds \in MIN_ERA_SECONDS..MAX_ERA_SECONDS :
        /\ PeriodFor(seconds) * seconds < AgeLimit
        /\ MaxPeriod * seconds < AgeLimit

-----------------------------------------------------------------------------
(***************************************************************************)
(* allocate_unbond_amount.                                                 *)
(***************************************************************************)
Place(v) == CHOOSE i \in DOMAIN ValidatorAddrs : ValidatorAddrs[i] = v

Before(v, w) == \/ delegation[v] > delegation[w]
                \/ delegation[v] = delegation[w] /\ Place(v) < Place(w)

Delegated == {v \in Validators : delegation[v] > 0}

\* The delegations by descending amount.  The sort is stable, so that there is
\* exactly one such order.
sorted_delegations ==
    {order \in [1..Cardinality(Delegated) -> Delegated] :
        \A i, j \in DOMAIN order : i < j => Before(order[i], order[j])}

\* Seeded defect: no time is ever dropped.
WithoutExpiredKept(times) == times

\* At most one time is dropped, the oldest.
WithoutExpired(times) ==
    IF times # <<>> /\ Head(times) > unbonding_period * era_seconds
    THEN Tail(times) ELSE times

\* Seeded defect: one unbonding too many.
FullLate(times) == Len(times) > MAX_UNBONDINGS

Full(times) == Len(times) >= MAX_UNBONDINGS

\* Seeded defect: the delegation is not a limit.
PartOfAll(v, remaining) == remaining

PartOf(v, remaining) ==
    IF delegation[v] < remaining THEN delegation[v] ELSE remaining

\* One validator's turn.  It is in the request when it was allocated something.
Visit(acc, v) ==
    LET times == WithoutExpired(acc.times[v])
        kept == [acc EXCEPT !.times[v] = times]
        part == PartOf(v, acc.remaining)
    IN  IF acc.remaining = 0 THEN acc
        ELSE IF Full(times) THEN kept
        ELSE [kept EXCEPT !.remaining = @ - part, !.allocated[v] = part]

NothingAllocated == [remaining |-> unbond_amount, times |-> unbonds_time,
                     allocated |-> [v \in Validators |-> 0]]

allocate_unbond_amount(order) ==
    LET after[n \in 0..Len(order)] ==
            IF n = 0 THEN NothingAllocated ELSE Visit(after[n - 1], order[n])
    IN  after[Len(order)]

-----------------------------------------------------------------------------
(***************************************************************************)
(* The contract.                                                           *)
(***************************************************************************)
Undelegated == {v \in Validators : tx[1].undelegate[v] > 0}

execute_era_update(amount) ==
    /\ status = "ActiveEnded"
    /\ amount <= Total(delegation)
    /\ status' = "EraUpdateEnded"
    /\ unbond_amount' = amount
    /\ UNCHANGED <<era_seconds, unbonding_period, unbonds_time, tx, delegation,
                   entries, dropped_early>>

\* Some oldest time is dropped before the unbonding time has passed.
DropsEarly(times) ==
    \E v \in Validators : /\ times[v] # unbonds_time[v]
                          /\ Head(unbonds_time[v]) < UNBONDING_SECONDS

\* When the free validators do not cover the amount the call fails, and with it
\* what it did to the lists.
execute_era_bond ==
    /\ status = "EraUpdateEnded"
    /\ \E order \in sorted_delegations :
           LET result == allocate_unbond_amount(order)
           IN  /\ result.remaining = 0
               /\ tx' = <<[undelegate |-> result.allocated, ack |-> "none"]>>
               /\ unbonds_time' = result.times
               /\ dropped_early' = (dropped_early \/ DropsEarly(result.times))
    /\ status' = "BondStarted"
    /\ UNCHANGED <<era_seconds, unbonding_period, unbond_amount, delegation, entries>>

\* The time recorded is that of the callback.
sudo_era_bond_callback ==
    /\ tx # <<>> /\ tx[1].ack = "ok"
    /\ tx' = <<>>
    /\ unbonds_time' = [v \in Validators |->
           IF v \in Undelegated THEN Append(unbonds_time[v], 0) ELSE unbonds_time[v]]
    /\ status' = "ActiveEnded"
    /\ unbond_amount' = 0
    /\ UNCHANGED <<era_seconds, unbonding_period, delegation, entries,
                   dropped_early>>

sudo_era_bond_failed_callback ==
    /\ tx # <<>> /\ tx[1].ack = "error"
    /\ tx' = <<>>
    /\ status' = "EraUpdateEnded"
    /\ UNCHANGED <<era_seconds, unbonding_period, unbond_amount, unbonds_time,
                   delegation, entries, dropped_early>>

\* ConfigPool with unbonding_period, in any status.
execute_config_pool_unbonding_period(period) ==
    /\ unbonding_period' = period
    /\ UNCHANGED <<status, era_seconds, unbond_amount, unbonds_time, tx, delegation,
                   entries, dropped_early>>

\* ConfigPool with era_seconds, in any status.  A period in the same call is
\* overwritten.
execute_config_pool_era_seconds(seconds) ==
    /\ seconds \in MIN_ERA_SECONDS..MAX_ERA_SECONDS
    /\ era_seconds' = seconds
    /\ unbonding_period' = PeriodFor(seconds)
    /\ UNCHANGED <<status, unbond_amount, unbonds_time, tx, delegation, entries,
                   dropped_early>>

-----------------------------------------------------------------------------
(***************************************************************************)
(* The host chain and time (external).                                     *)
(***************************************************************************)
HostTakes ==
    \A v \in Undelegated : /\ Len(entries[v]) < MAX_UNBONDINGS
                           /\ tx[1].undelegate[v] <= delegation[v]

host_executes ==
    /\ tx # <<>> /\ tx[1].ack = "none"
    /\ HostTakes
    /\ tx' = <<[tx[1] EXCEPT !.ack = "ok"]>>
    /\ delegation' = [v \in Validators |->
           delegation[v] - tx[1].undelegate[v]]
    /\ entries' = [v \in Validators |->
           IF v \in Undelegated THEN Append(entries[v], UNBONDING_SECONDS)
                                ELSE entries[v]]
    /\ UNCHANGED <<pool_vars, unbonds_time, dropped_early>>

host_refuses ==
    /\ tx # <<>> /\ tx[1].ack = "none"
    /\ tx' = <<[tx[1] EXCEPT !.ack = "error"]>>
    /\ UNCHANGED <<pool_vars, unbonds_time, delegation, entries, dropped_early>>

\* An era that stakes more than it unstakes delegates again.
host_delegates(v) ==
    /\ status = "ActiveEnded"
    /\ delegation[v] < InitialDelegation[v]
    /\ delegation' = [delegation EXCEPT ![v] = @ + 1]
    /\ UNCHANGED <<pool_vars, unbonds_time, tx, entries, dropped_early>>

second_passes ==
    /\ unbonds_time' = [v \in Validators |->
           [i \in DOMAIN unbonds_time[v] |->
               IF unbonds_time[v][i] < AgeLimit THEN unbonds_time[v][i] + 1
                                                ELSE AgeLimit]]
    /\ entries' = [v \in Validators |->
           Retain([i \in DOMAIN entries[v] |-> entries[v][i] - 1], 0)]
    /\ UNCHANGED <<pool_vars, tx, delegation, dropped_early>>

-----------------------------------------------------------------------------
\* InitPool and MigratePool take the period as it is given.
Init ==
    /\ status = "ActiveEnded"
    /\ era_seconds = MAX_ERA_SECONDS
    /\ unbonding_period \in 0..MaxPeriod
    /\ unbond_amount = 0
    /\ unbonds_time = [v \in Validators |-> <<>>]
    /\ tx = <<>>
    /\ delegation = InitialDelegation
    /\ entries = [v \in Validators |-> <<>>]
    /\ dropped_early = FALSE

Next ==
    \/ \E amount \in 1..MaxUnbond : execute_era_update(amount)
    \/ execute_era_bond
    \/ sudo_era_bond_callback
    \/ sudo_era_bond_failed_callback
    \/ \E period \in 0..MaxPeriod : execute_config_pool_unbonding_period(period)
    \/ \E s \in MIN_ERA_SECONDS..MAX_ERA_SECONDS : execute_config_pool_era_seconds(s)
    \/ host_executes
    \/ host_refuses
    \/ \E v \in Validators : host_delegates(v)
    \/ second_passes

Spec == Init /\ [][Next]_vars

\* Time passes, the keeper calls EraBond while it can be called, outcomes are
\* decided and delivered, and the host does not refuse for ever.
Fairness ==
    /\ WF_vars(second_passes)
    /\ WF_vars(execute_era_bond)
    /\ WF_vars(sudo_era_bond_callback \/ sudo_era_bond_failed_callback)
    /\ WF_vars(host_executes \/ host_refuses)
    /\ SF_vars(host_executes)

FairSpec == Spec /\ Fairness

-----------------------------------------------------------------------------
(***************************************************************************)
(* Properties.                                                             *)
(***************************************************************************)
\* The contract's lists never grow past the limit.
TypeOK ==
    /\ status \in {"ActiveEnded", "EraUpdateEnded", "BondStarted"}
    /\ era_seconds \in MIN_ERA_SECONDS..MAX_ERA_SECONDS
    /\ unbonding_period \in Nat
    /\ unbond_amount \in Nat
    /\ unbonds_time \in [Validators -> Seq(0..AgeLimit)]
    /\ \A v \in Validators : Len(unbonds_time[v]) <= MAX_UNBONDINGS
    /\ tx \in Seq([undelegate : [Validators -> Nat], ack : {"none", "ok", "error"}])
    /\ Len(tx) <= 1
    /\ delegation \in [Validators -> Nat]
    /\ entries \in [Validators -> Seq(1..UNBONDING_SECONDS)]
    /\ dropped_early \in BOOLEAN

\* The host is never asked for an unbonding more than it allows: whatever the
\* delay of the callback and however the admin changes the era's length, the list
\* of a validator is at least as long as its unbondings in progress.  Only a period
\* set shorter than the unbonding time can make EraBond forget one of them.
HostNeverFull ==
    tx # <<>> /\ tx[1].ack = "none" /\ ~dropped_early =>
        \A v \in Undelegated : Len(entries[v]) < MAX_UNBONDINGS

\* EraBond undelegates exactly the snapshot's amount, from no validator more than
\* is delegated to it, over any mixture of full and free validators.
UnbondExact ==
    tx # <<>> /\ tx[1].ack = "none" =>
        /\ Total(tx[1].undelegate) = unbond_amount
        /\ \A v \in Undelegated : tx[1].undelegate[v] <= delegation[v]

\* An era whose unbonding does not fit the free validators goes through in the end.
UnbondGoesThrough == status # "ActiveEnded" ~> status = "ActiveEnded"
=============================================================================
