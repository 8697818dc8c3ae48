-------------------------- MODULE UnbondLimitProofs --------------------------
(***************************************************************************)
(* Proofs about UnbondLimit: the host is never asked for an unbonding it   *)
(* has no room for, and an era undelegates exactly what it has to.         *)
(*                                                                         *)
(* The host's list of a validator and the contract's are never compared by *)
(* the code.  The invariant lays them side by side from the newest entry   *)
(* on: the time an unbonding has left and the age recorded for it never    *)
(* exceed the unbonding time together.  So a recorded time as old as the   *)
(* unbonding time has no unbonding beside it, and as long as only such     *)
(* times are dropped the contract's list stays the longer one.  With the   *)
(* period ConfigPool derives from an era's length only such times are.     *)
(***************************************************************************)
EXTENDS UnbondLimit, DataProofs

Ascending(e) == \A i, j \in 1..Len(e) : i <= j => e[i] <= e[j]

\* r has a time for each entry of e, at the same place from the end, that is not
\* older than the entry.
Matches(e, r) ==
    /\ Len(e) <= Len(r)
    /\ \A i \in 1..Len(e) : e[i] + r[i + (Len(r) - Len(e))] <= UNBONDING_SECONDS

Acked(v) == tx # <<>> /\ tx[1].ack = "ok" /\ v \in Undelegated

\* The recorded times, with the one the callback is about to write.
Recorded(v) == IF Acked(v) THEN Append(unbonds_time[v], 0) ELSE unbonds_time[v]

TxInBondStarted == (tx # <<>>) <=> (status = "BondStarted")

EntriesRecorded ==
    \A v \in Validators :
        /\ Ascending(entries[v])
        /\ ~dropped_early => Matches(entries[v], Recorded(v))

RoomLeft ==
    tx # <<>> /\ tx[1].ack # "error" =>
        \A v \in Undelegated : Len(unbonds_time[v]) < MAX_UNBONDINGS

IInv == TypeOK /\ TxInBondStarted /\ EntriesRecorded /\ RoomLeft /\ UnbondExact

-----------------------------------------------------------------------------
(***************************************************************************)
(* The lists side by side, and the period.                                 *)
(***************************************************************************)
\* The pool has finitely many validators.
LEMMA ValidatorsFinite == IsFiniteSet(Validators)
<1>1. Validators = Elements(ValidatorAddrs)
  BY DEF Validators, ToSet, Elements
<1> QED BY <1>1, UnbondAssumption, InjectiveCounts

\* The ages fit the limit.
LEMMA AgeLimitNat == AgeLimit \in Nat /\ UNBONDING_SECONDS \in Nat
BY UnbondAssumption

\* The period in eras is never shorter than the unbonding time.
LEMMA PeriodCovers ==
    ASSUME NEW s \in Nat \ {0}
    PROVE  PeriodFor(s) \in Nat /\ PeriodFor(s) * s >= UNBONDING_SECONDS
<1> DEFINE a == UNBONDING_SECONDS + s - 1
           q == a \div s
<1>1. a \in Nat /\ a = UNBONDING_SECONDS + s - 1 /\ UNBONDING_SECONDS \in Nat
  BY UnbondAssumption
<1>2. q \in Nat /\ a < (q + 1) * s
  <2> HIDE DEF a
  <2> QED BY <1>1
<1>3. PeriodFor(s) = q + 1
  BY DEF PeriodFor
<1> HIDE DEF a, q
<1>4. (q + 1) * s \in Nat
  BY <1>2, MulNat
<1> QED BY <1>1, <1>2, <1>3, <1>4

\* An unbonding that starts, and the time recorded for it.
LEMMA MatchAppend ==
    ASSUME NEW e \in Seq(1..UNBONDING_SECONDS), NEW r \in Seq(Nat), Matches(e, r)
    PROVE  Matches(Append(e, UNBONDING_SECONDS), Append(r, 0))
<1> DEFINE f == Append(e, UNBONDING_SECONDS)
           s == Append(r, 0)
<1>1. /\ Len(e) \in Nat /\ Len(r) \in Nat /\ UNBONDING_SECONDS \in Nat
      /\ Len(f) = Len(e) + 1 /\ Len(s) = Len(r) + 1
      /\ \A i \in 1..Len(e) : f[i] = e[i]
      /\ \A i \in 1..Len(r) : s[i] = r[i]
      /\ f[Len(e) + 1] = UNBONDING_SECONDS /\ s[Len(r) + 1] = 0
  BY AgeLimitNat
<1> HIDE DEF f, s
<1>2. Len(e) <= Len(r)
  BY DEF Matches
<1>3. ASSUME NEW i \in 1..Len(f)
      PROVE  f[i] + s[i + (Len(s) - Len(f))] <= UNBONDING_SECONDS
  <2>1. CASE i = Len(e) + 1
    <3>1. i + (Len(s) - Len(f)) = Len(r) + 1
      BY <1>1, <2>1
    <3> QED BY <1>1, <2>1, <3>1
  <2>2. CASE i # Len(e) + 1
    <3>1. /\ i \in 1..Len(e)
          /\ i + (Len(s) - Len(f)) = i + (Len(r) - Len(e))
          /\ i + (Len(r) - Len(e)) \in 1..Len(r)
      BY <1>1, <1>2, <2>2
    <3> QED BY <1>1, <3>1 DEF Matches
  <2> QED BY <2>1, <2>2
<1>4. Matches(f, s)
  BY <1>1, <1>2, <1>3 DEF Matches
<1> QED BY <1>4 DEF f, s

\* A time as old as the unbonding time has no unbonding beside it.
LEMMA MatchTail ==
    ASSUME NEW e \in Seq(1..UNBONDING_SECONDS), NEW r \in Seq(Nat), Matches(e, r),
           r # <<>>, Head(r) >= UNBONDING_SECONDS
    PROVE  Matches(e, Tail(r)) /\ Tail(r) \in Seq(Nat)
<1>1. /\ Len(e) \in Nat /\ Len(r) \in Nat \ {0} /\ UNBONDING_SECONDS \in Nat
      /\ Len(Tail(r)) = Len(r) - 1 /\ Tail(r) \in Seq(Nat)
      /\ \A i \in 1..(Len(r) - 1) : Tail(r)[i] = r[i + 1]
      /\ Head(r) = r[1] /\ r[1] \in Nat
  BY AgeLimitNat
<1>2. Len(e) <= Len(r)
  BY DEF Matches
<1>3. Len(e) # Len(r)
  <2> SUFFICES ASSUME Len(e) = Len(r) PROVE FALSE
    OBVIOUS
  <2>1. 1 \in 1..Len(e) /\ 1 + (Len(r) - Len(e)) = 1 /\ e[1] \in 1..UNBONDING_SECONDS
    BY <1>1
  <2>2. e[1] + r[1] <= UNBONDING_SECONDS
    BY <2>1 DEF Matches
  <2> QED BY <1>1, <2>1, <2>2
<1>4. ASSUME NEW i \in 1..Len(e)
      PROVE  e[i] + Tail(r)[i + (Len(Tail(r)) - Len(e))] <= UNBONDING_SECONDS
  <2>1. i + (Len(r) - 1 - Len(e)) \in 1..(Len(r) - 1)
    BY <1>1, <1>2, <1>3
  <2>2. Tail(r)[i + (Len(Tail(r)) - Len(e))] = r[i + (Len(r) - Len(e))]
    BY <1>1, <2>1
  <2> QED BY <2>2 DEF Matches
<1> QED BY <1>1, <1>2, <1>3, <1>4 DEF Matches

\* A second later: every entry has one second less, those at their end are gone,
\* and no time is older by more than a second.
LEMMA MatchOlder ==
    ASSUME NEW e \in Seq(1..UNBONDING_SECONDS), Ascending(e),
           NEW r \in Seq(Nat), Matches(e, r),
           NEW s \in Seq(Nat), Len(s) = Len(r),
           \A i \in 1..Len(r) : s[i] <= r[i] + 1,
           NEW f, f = Retain([i \in DOMAIN e |-> e[i] - 1], 0)
    PROVE  f \in Seq(1..UNBONDING_SECONDS) /\ Ascending(f) /\ Matches(f, s)
<1> DEFINE left == [i \in DOMAIN e |-> e[i] - 1]
<1>0. /\ Len(e) \in Nat /\ Len(r) \in Nat /\ UNBONDING_SECONDS \in Nat
      /\ DOMAIN e = 1..Len(e)
      /\ \A i \in 1..Len(e) : e[i] \in 1..UNBONDING_SECONDS /\ e[i] \in Nat
      /\ \A i \in 1..Len(r) : r[i] \in Nat /\ s[i] \in Nat
  <2>1. UNBONDING_SECONDS \in Nat
    BY AgeLimitNat
  <2>2. \A i \in 1..Len(e) : e[i] \in 1..UNBONDING_SECONDS
    BY ONLY e \in Seq(1..UNBONDING_SECONDS), SeqFunction
  <2>3. \A i \in 1..Len(r) : r[i] \in Nat /\ s[i] \in Nat
    OBVIOUS
  <2>4. Len(e) \in Nat /\ Len(r) \in Nat /\ DOMAIN e = 1..Len(e)
    OBVIOUS
  <2> QED BY <2>1, <2>2, <2>3, <2>4
<1>1. /\ left \in Seq(Nat) /\ Len(left) = Len(e)
      /\ \A i \in 1..Len(e) : left[i] = e[i] - 1 /\ left[i] \in Nat
      /\ Len(e) \in Nat /\ Len(r) \in Nat /\ UNBONDING_SECONDS \in Nat
  <2>1. \A i \in 1..Len(e) : e[i] - 1 \in Nat
    BY <1>0
  <2>2. left \in [1..Len(e) -> Nat]
    BY <1>0, <2>1
  <2>3. left \in Seq(Nat) /\ Len(left) = Len(e)
    BY <1>0, <2>2
  <2> QED BY <1>0, <2>1, <2>3
<1>2. \A i, j \in 1..Len(left) : i <= j => left[i] <= left[j]
  BY <1>1 DEF Ascending
<1>3. f = Retain(left, 0)
  OBVIOUS
<1> HIDE DEF left
<1>4. PICK d \in 0..Len(left) :
          /\ Len(f) = Len(left) - d
          /\ \A i \in 1..(Len(left) - d) : f[i] = left[i + d] /\ left[i + d] > 0
  BY ONLY <1>1, <1>2, <1>3, RetainSuffix
<1>5. f \in Seq(Nat)
  BY <1>1, <1>3, RetainKeeps
<1>6. \A i \in 1..Len(f) : /\ i + d \in 1..Len(e)
                          /\ f[i] = e[i + d] - 1
                          /\ f[i] \in 1..UNBONDING_SECONDS
  <2> SUFFICES ASSUME NEW i \in 1..Len(f)
               PROVE  /\ i + d \in 1..Len(e) /\ f[i] = e[i + d] - 1
                      /\ f[i] \in 1..UNBONDING_SECONDS
    OBVIOUS
  <2>1. i + d \in 1..Len(e) /\ i \in 1..(Len(left) - d)
    BY <1>1, <1>4
  <2>2. f[i] = left[i + d] /\ left[i + d] > 0 /\ left[i + d] = e[i + d] - 1
    BY <1>1, <1>4, <2>1
  <2>3. e[i + d] \in 1..UNBONDING_SECONDS
    BY <1>0, <2>1
  <2>4. UNBONDING_SECONDS \in Nat
    BY <1>0
  <2>5. \A x \in 1..UNBONDING_SECONDS : x - 1 > 0 => x - 1 \in 1..UNBONDING_SECONDS
    BY ONLY <2>4
  <2>6. f[i] \in 1..UNBONDING_SECONDS
    BY ONLY <2>2, <2>3, <2>5
  <2> QED BY ONLY <2>1, <2>2, <2>6
<1>7. f \in Seq(1..UNBONDING_SECONDS)
  <2>1. \A i \in 1..Len(f) : f[i] \in 1..UNBONDING_SECONDS
    BY <1>6
  <2> QED BY ONLY <1>5, <2>1, SeqRetyped
<1>8. Ascending(f)
  <2> SUFFICES ASSUME NEW i \in 1..Len(f), NEW j \in 1..Len(f), i <= j
               PROVE  f[i] <= f[j]
    BY DEF Ascending
  <2>1. i + d \in 1..Len(e) /\ j + d \in 1..Len(e) /\ i + d <= j + d
    BY <1>4, <1>6
  <2>2. e[i + d] <= e[j + d] /\ e[i + d] \in Nat /\ e[j + d] \in Nat
    BY <1>0, <2>1 DEF Ascending
  <2>3. f[i] = e[i + d] - 1 /\ f[j] = e[j + d] - 1
    BY <1>6
  <2>4. \A x, y \in Nat : x <= y => x - 1 <= y - 1
    OBVIOUS
  <2>5. e[i + d] - 1 <= e[j + d] - 1
    BY ONLY <2>2, <2>4
  <2> QED BY ONLY <2>3, <2>5
<1>9. Matches(f, s)
  <2>1. Len(f) = Len(e) - d /\ Len(f) \in Nat /\ Len(e) <= Len(r)
    BY <1>1, <1>4, <1>5 DEF Matches
  <2>2. ASSUME NEW i \in 1..Len(f)
        PROVE  f[i] + s[i + (Len(s) - Len(f))] <= UNBONDING_SECONDS
    <3> DEFINE k == i + d + (Len(r) - Len(e))
    <3>1. k = i + (Len(s) - Len(f)) /\ k \in 1..Len(r) /\ k = (i + d) + (Len(r) - Len(e))
      <4>1. i + d \in 1..Len(e) /\ i \in Nat /\ d \in Nat
        BY <1>4, <1>6
      <4>2. k \in Int /\ k = i + (Len(s) - Len(f))
        BY ONLY <1>0, <2>1, <4>1, Len(s) = Len(r)
      <4> QED BY <1>0, <2>1, <4>1, <4>2
    <3>2. e[i + d] + r[k] <= UNBONDING_SECONDS
      <4>1. i + d \in 1..Len(e)
        BY <1>6
      <4> HIDE DEF k
      <4> QED BY <3>1, <4>1 DEF Matches
    <3> HIDE DEF k
    <3>3. s[k] <= r[k] + 1 /\ s[k] \in Nat /\ r[k] \in Nat
      BY <1>0, <3>1
    <3>4. f[i] = e[i + d] - 1 /\ e[i + d] \in Nat
      BY <1>0, <1>6
    <3>5. f[i] + s[k] <= UNBONDING_SECONDS
      <4>1. \A a, b, c, u \in Nat : a + b <= u /\ c <= b + 1 => (a - 1) + c <= u
        OBVIOUS
      <4>2. (e[i + d] - 1) + s[k] <= UNBONDING_SECONDS
        BY ONLY <1>0, <3>2, <3>3, <3>4, <4>1
      <4> QED BY ONLY <3>4, <4>2
    <3> QED BY ONLY <3>1, <3>5
  <2> QED BY <2>1, <2>2 DEF Matches
<1> QED BY <1>7, <1>8, <1>9

\* What a second does to the host's list, whatever is recorded.
LEMMA EntriesOlder ==
    ASSUME NEW e \in Seq(1..UNBONDING_SECONDS), Ascending(e),
           NEW f, f = Retain([i \in DOMAIN e |-> e[i] - 1], 0)
    PROVE  f \in Seq(1..UNBONDING_SECONDS) /\ Ascending(f)
<1> DEFINE r == [i \in 1..Len(e) |-> 0]
<1>1. Len(e) \in Nat /\ UNBONDING_SECONDS \in Nat
  BY AgeLimitNat
<1>2. \A i \in 1..Len(e) : e[i] \in 1..UNBONDING_SECONDS
  BY ONLY e \in Seq(1..UNBONDING_SECONDS), SeqFunction
<1>3. r \in Seq(Nat) /\ Len(r) = Len(e) /\ \A i \in 1..Len(e) : r[i] = 0
  BY <1>1
<1> HIDE DEF r
<1>4. Matches(e, r)
  <2>1. \A i \in 1..Len(e) : i + (Len(r) - Len(e)) = i
    BY <1>1, <1>3
  <2>2. \A i \in 1..Len(e) : e[i] + r[i] <= UNBONDING_SECONDS
    BY <1>1, <1>2, <1>3
  <2> QED BY <1>1, <1>3, <2>1, <2>2 DEF Matches
<1>5. \A i \in 1..Len(r) : r[i] <= r[i] + 1
  BY <1>3
<1> QED BY ONLY <1>3, <1>4, <1>5, MatchOlder, e \in Seq(1..UNBONDING_SECONDS),
                Ascending(e), f = Retain([i \in DOMAIN e |-> e[i] - 1], 0)

-----------------------------------------------------------------------------
(***************************************************************************)
(* allocate_unbond_amount.                                                 *)
(***************************************************************************)
Accumulators == [remaining : Nat, times : [Validators -> Seq(0..AgeLimit)],
                 allocated : [Validators -> Nat]]

\* What is true of the allocation when the validators in done had their turn.
Allocating(acc, done) ==
    /\ acc \in Accumulators
    /\ Total(acc.allocated) + acc.remaining = unbond_amount
    /\ \A v \in Validators :
           /\ acc.allocated[v] <= delegation[v]
           /\ v \notin done => acc.allocated[v] = 0 /\ acc.times[v] = unbonds_time[v]
           /\ acc.times[v] \in {unbonds_time[v], WithoutExpired(unbonds_time[v])}
           /\ acc.allocated[v] > 0 => Len(acc.times[v]) < MAX_UNBONDINGS

\* A list of ages without its expired one is one of ages, and not longer.
LEMMA WithoutExpiredTyped ==
    ASSUME NEW times \in Seq(0..AgeLimit)
    PROVE  /\ WithoutExpired(times) \in Seq(0..AgeLimit)
           /\ Len(WithoutExpired(times)) <= Len(times)
<1> DEFINE A == 0..AgeLimit
<1>1. times \in Seq(A)
  OBVIOUS
<1> HIDE DEF A
<1>2. times # <<>> => Tail(times) \in Seq(A) /\ Len(Tail(times)) <= Len(times)
  BY <1>1
<1>3. WithoutExpired(times) \in Seq(A) /\ Len(WithoutExpired(times)) <= Len(times)
  BY <1>1, <1>2 DEF WithoutExpired
<1> QED BY <1>3 DEF A

\* One turn gives an accumulator, and changes only the validator's entries.
LEMMA VisitTyped ==
    ASSUME TypeOK, NEW acc \in Accumulators, NEW v \in Validators
    PROVE  Visit(acc, v) \in Accumulators
<1>1. /\ WithoutExpired(acc.times[v]) \in Seq(0..AgeLimit)
      /\ acc.remaining \in Nat /\ delegation[v] \in Nat
      /\ PartOf(v, acc.remaining) \in Nat
      /\ acc.remaining - PartOf(v, acc.remaining) \in Nat
  <2>1. acc.times[v] \in Seq(0..AgeLimit) /\ acc.remaining \in Nat
    BY DEF Accumulators
  <2>2. delegation[v] \in Nat
    BY DEF TypeOK
  <2> QED BY <2>1, <2>2, WithoutExpiredTyped DEF PartOf
<1> QED BY <1>1 DEF Visit, Accumulators

\* One turn of a validator that had none.
LEMMA VisitKeeps ==
    ASSUME TypeOK, NEW acc, NEW done, Allocating(acc, done),
           NEW v \in Validators, v \notin done
    PROVE  Allocating(Visit(acc, v), done \cup {v})
<1> DEFINE new == Visit(acc, v)
           times == WithoutExpired(unbonds_time[v])
           part == PartOf(v, acc.remaining)
<1>1. acc \in Accumulators /\ new \in Accumulators
  BY VisitTyped DEF Allocating
<1>2. /\ acc.times[v] = unbonds_time[v] /\ acc.allocated[v] = 0
      /\ acc.remaining \in Nat /\ delegation[v] \in Nat /\ unbond_amount \in Nat
      /\ acc.times \in [Validators -> Seq(0..AgeLimit)]
      /\ acc.allocated \in [Validators -> Nat]
  BY <1>1 DEF Allocating, Accumulators, TypeOK
<1>3. CASE acc.remaining = 0
  <2>1. new = acc
    BY <1>3 DEF Visit
  <2> QED BY <2>1 DEF Allocating
<1>4. CASE acc.remaining # 0 /\ Full(times)
  <2>1. /\ new.remaining = acc.remaining
        /\ new.allocated = acc.allocated
        /\ new.times = [acc.times EXCEPT ![v] = times]
    BY <1>1, <1>2, <1>4 DEF Visit, Accumulators
  <2> HIDE DEF times, new
  <2>2. ASSUME NEW w \in Validators
        PROVE  /\ new.allocated[w] <= delegation[w]
               /\ w \notin done \cup {v} =>
                      new.allocated[w] = 0 /\ new.times[w] = unbonds_time[w]
               /\ new.times[w] \in {unbonds_time[w], WithoutExpired(unbonds_time[w])}
               /\ new.allocated[w] > 0 => Len(new.times[w]) < MAX_UNBONDINGS
    <3>1. CASE w = v
      <4>1. new.times[v] = times /\ new.allocated[v] = 0
        BY <1>2, <2>1
      <4> QED BY <3>1, <4>1, <1>2 DEF times
    <3>2. CASE w # v
      <4>1. new.times[w] = acc.times[w] /\ new.allocated[w] = acc.allocated[w]
        BY <1>2, <2>1, <3>2
      <4> QED BY <3>2, <4>1 DEF Allocating
    <3> QED BY <3>1, <3>2
  <2>3. Total(new.allocated) + new.remaining = unbond_amount
    BY <2>1 DEF Allocating
  <2> QED BY <1>1, <2>2, <2>3 DEF Allocating, new
<1>5. CASE acc.remaining # 0 /\ ~Full(times)
  <2>1. /\ new.remaining = acc.remaining - part
        /\ new.allocated = [acc.allocated EXCEPT ![v] = part]
        /\ new.times = [acc.times EXCEPT ![v] = times]
    BY <1>1, <1>2, <1>5 DEF Visit, Accumulators
  <2>2. part \in Nat /\ part <= acc.remaining /\ part <= delegation[v]
    BY <1>2 DEF PartOf
  <2>3. Len(times) < MAX_UNBONDINGS
    <3>1. unbonds_time[v] \in Seq(0..AgeLimit)
      BY DEF TypeOK
    <3>2. Len(times) \in Nat
      BY <3>1, WithoutExpiredTyped
    <3> HIDE DEF times
    <3> QED BY <1>5, <3>2, UnbondAssumption DEF Full
  <2> HIDE DEF times, new, part
  <2>4. ASSUME NEW w \in Validators
        PROVE  /\ new.allocated[w] <= delegation[w]
               /\ w \notin done \cup {v} =>
                      new.allocated[w] = 0 /\ new.times[w] = unbonds_time[w]
               /\ new.times[w] \in {unbonds_time[w], WithoutExpired(unbonds_time[w])}
               /\ new.allocated[w] > 0 => Len(new.times[w]) < MAX_UNBONDINGS
    <3>1. CASE w = v
      <4>1. new.times[v] = times /\ new.allocated[v] = part
        BY <1>2, <2>1
      <4> QED BY <3>1, <4>1, <2>2, <2>3 DEF times
    <3>2. CASE w # v
      <4>1. new.times[w] = acc.times[w] /\ new.allocated[w] = acc.allocated[w]
        BY <1>2, <2>1, <3>2
      <4> QED BY <3>2, <4>1 DEF Allocating
    <3> QED BY <3>1, <3>2
  <2>5. Total(new.allocated) + new.remaining = unbond_amount
    <3> DEFINE f == acc.allocated
               g == new.allocated
    <3>1. /\ IsFiniteSet(Validators) /\ v \in Validators
          /\ \A w \in Validators : f[w] \in Int /\ g[w] \in Int
          /\ \A w \in Validators : w # v => g[w] = f[w]
          /\ f[v] = 0 /\ g[v] = part
      BY <1>2, <2>1, <2>2, ValidatorsFinite
    <3>2. Total(f) + acc.remaining = unbond_amount
      BY DEF Allocating
    <3> HIDE DEF f, g
    <3>3. Total(g) = Total(f) - f[v] + g[v]
      BY <3>1, SumUpdate DEF Total
    <3>4. Total(f) \in Int
      BY <3>1, SumInt DEF Total
    <3>5. Total(g) + new.remaining = unbond_amount
      BY <1>2, <2>1, <2>2, <3>1, <3>2, <3>3, <3>4
    <3> QED BY <3>5 DEF g
  <2> QED BY <1>1, <2>4, <2>5 DEF Allocating, new
<1> QED BY <1>3, <1>4, <1>5

\* Each delegation is in the order once.
LEMMA OrderFacts ==
    ASSUME TypeOK, NEW order \in sorted_delegations
    PROVE  /\ Len(order) \in Nat
           /\ \A n \in 1..Len(order) : order[n] \in Validators
           /\ \A m, n \in 1..Len(order) : m < n => order[m] # order[n]
<1>1. Cardinality(Delegated) \in Nat
  <2>1. IsFiniteSet(Delegated)
    BY ValidatorsFinite, FS_Subset DEF Delegated
  <2> QED BY <2>1, FS_CardinalityType
<1>2. order \in [1..Cardinality(Delegated) -> Delegated]
  BY DEF sorted_delegations
<1>3. order \in Seq(Delegated) /\ Len(order) = Cardinality(Delegated)
  BY <1>1, <1>2
<1>4. \A v \in Validators : ~Before(v, v)
  <2> SUFFICES ASSUME NEW v \in Validators PROVE ~Before(v, v)
    OBVIOUS
  <2>1. \E i \in DOMAIN ValidatorAddrs : ValidatorAddrs[i] = v
    BY DEF Validators, ToSet
  <2>2. Place(v) \in DOMAIN ValidatorAddrs
    BY <2>1 DEF Place
  <2>3. ValidatorAddrs \in Seq(Validators)
    BY UnbondAssumption
  <2>4. DOMAIN ValidatorAddrs = 1..Len(ValidatorAddrs) /\ Len(ValidatorAddrs) \in Nat
    BY ONLY <2>3, SeqFunction
  <2>5. Place(v) \in Nat
    BY ONLY <2>2, <2>4
  <2>6. delegation \in [Validators -> Nat]
    BY DEF TypeOK
  <2>7. delegation[v] \in Nat
    BY ONLY <2>6, v \in Validators
  <2> QED BY <2>5, <2>7 DEF Before
<1>5. \A n \in 1..Len(order) : order[n] \in Validators
  BY <1>2, <1>3 DEF Delegated
<1>6. \A m, n \in 1..Len(order) : m < n => Before(order[m], order[n])
  BY <1>2, <1>3 DEF sorted_delegations
<1> QED BY <1>1, <1>3, <1>4, <1>5, <1>6

\* The allocation is computed one validator after the other.
LEMMA AllocationUnfolded ==
    ASSUME TypeOK, NEW order \in sorted_delegations
    PROVE  \E after :
               /\ allocate_unbond_amount(order) = after[Len(order)]
               /\ after[0] = NothingAllocated
               /\ \A n \in 1..Len(order) : after[n] = Visit(after[n - 1], order[n])
<1> DEFINE N == Len(order)
           Next1(g, n) == Visit(g[n - 1], order[n])
           After == CHOOSE g : g = [n \in 0..N |-> IF n = 0 THEN NothingAllocated
                                                   ELSE Next1(g, n)]
           step == [n \in Nat |-> [acc \in Accumulators |->
                       IF n \in 1..N THEN Visit(acc, order[n]) ELSE acc]]
<1>1. N \in Nat /\ \A n \in 1..N : order[n] \in Validators
  BY OrderFacts
<1>2. NothingAllocated \in Accumulators
  BY DEF TypeOK, NothingAllocated, Accumulators
<1>3. step \in [Nat -> [Accumulators -> Accumulators]]
  <2> SUFFICES ASSUME NEW n \in Nat, NEW acc \in Accumulators
               PROVE  (IF n \in 1..N THEN Visit(acc, order[n]) ELSE acc) \in Accumulators
    OBVIOUS
  <2>1. ASSUME n \in 1..N PROVE Visit(acc, order[n]) \in Accumulators
    BY <1>1, <2>1, VisitTyped
  <2> QED BY <2>1
<1>4. PICK g : /\ g \in [0..N -> Accumulators]
               /\ Computes(g, NothingAllocated, step, N)
  <2> HIDE DEF step, N
  <2> QED BY <1>1, <1>2, <1>3, StepsExist
<1>5. \A n \in 1..N : g[n] = Next1(g, n)
  <2> SUFFICES ASSUME NEW n \in 1..N PROVE g[n] = Next1(g, n)
    OBVIOUS
  <2>1. n - 1 \in 0..N /\ n \in Nat
    BY <1>1
  <2>2. g[n - 1] \in Accumulators
    BY <1>4, <2>1
  <2>3. step[n][g[n - 1]] = Visit(g[n - 1], order[n])
    BY <2>1, <2>2
  <2> HIDE DEF step
  <2> QED BY <1>4, <2>3 DEF Computes
<1>6. g = [n \in 0..N |-> IF n = 0 THEN NothingAllocated ELSE Next1(g, n)]
  <2> DEFINE Value(n) == IF n = 0 THEN NothingAllocated ELSE Next1(g, n)
  <2>1. \A n \in 0..N : g[n] = Value(n)
    <3>1. \A n \in 0..N : n = 0 \/ n \in 1..N
      BY <1>1
    <3> HIDE DEF Next1
    <3> QED BY <1>4, <1>5, <3>1 DEF Computes
  <2> HIDE DEF Value
  <2>2. g = [n \in 0..N |-> Value(n)]
    BY <1>4, <2>1
  <2> QED BY <2>2 DEF Value
<1>7. After = [n \in 0..N |-> IF n = 0 THEN NothingAllocated ELSE Next1(After, n)]
  BY <1>6
<1>8. allocate_unbond_amount(order) = After[N]
  BY DEF allocate_unbond_amount
<1> HIDE DEF After
<1>9. /\ After[0] = NothingAllocated
      /\ \A n \in 1..N : After[n] = Next1(After, n)
  <2>1. 0 \in 0..N /\ \A n \in 1..N : n \in 0..N /\ n # 0
    BY <1>1
  <2> DEFINE Value(n) == IF n = 0 THEN NothingAllocated ELSE Next1(After, n)
  <2>2. After = [n \in 0..N |-> Value(n)]
    BY <1>7
  <2>3. Value(0) = NothingAllocated /\ \A n \in 1..N : Value(n) = Next1(After, n)
    BY <2>1
  <2> HIDE DEF Value, Next1, N
  <2>4. \A n \in 0..N : After[n] = Value(n)
    BY ONLY <2>2
  <2> QED BY <2>1, <2>3, <2>4
<1> QED BY <1>8, <1>9

\* What a call of allocate_unbond_amount does, whether it succeeds or not.
LEMMA AllocationKeeps ==
    ASSUME TypeOK, NEW order \in sorted_delegations
    PROVE  \E done : Allocating(allocate_unbond_amount(order), done)
<1> DEFINE N == Len(order)
           Done(n) == {order[i] : i \in 1..n}
<1>1. /\ N \in Nat /\ \A n \in 1..N : order[n] \in Validators
      /\ \A m, n \in 1..N : m < n => order[m] # order[n]
  BY OrderFacts
<1>2. PICK after : /\ allocate_unbond_amount(order) = after[N]
                   /\ after[0] = NothingAllocated
                   /\ \A n \in 1..N : after[n] = Visit(after[n - 1], order[n])
  BY AllocationUnfolded
<1> DEFINE Right == {n \in Nat : Allocating(after[n], Done(n))}
<1>3. Allocating(after[0], Done(0))
  <2> DEFINE none == [v \in Validators |-> 0]
  <2>1. NothingAllocated \in Accumulators /\ unbond_amount \in Nat
    BY DEF TypeOK, NothingAllocated, Accumulators
  <2>2. /\ NothingAllocated.allocated = none
        /\ NothingAllocated.remaining = unbond_amount
        /\ NothingAllocated.times = unbonds_time
    BY DEF NothingAllocated
  <2>3. Total(none) = 0
    BY ValidatorsFinite, SumZero DEF Total
  <2>4. \A v \in Validators : none[v] = 0 /\ delegation[v] \in Nat
    BY DEF TypeOK
  <2> HIDE DEF none
  <2> QED BY <1>2, <2>1, <2>2, <2>3, <2>4 DEF Allocating
<1>4. ASSUME NEW n \in 1..N, n - 1 \in Right PROVE n \in Right
  <2>1. Allocating(after[n - 1], Done(n - 1)) /\ n \in Nat
    BY <1>4
  <2>2. order[n] \in Validators /\ order[n] \notin Done(n - 1)
    BY <1>1
  <2>3. Done(n) = Done(n - 1) \cup {order[n]}
    BY <1>1
  <2> HIDE DEF Done
  <2>4. Allocating(Visit(after[n - 1], order[n]), Done(n - 1) \cup {order[n]})
    BY <2>1, <2>2, VisitKeeps
  <2> QED BY <1>2, <2>1, <2>3, <2>4
<1>5. N \in Right
  <2>1. 0 \in Right
    BY <1>3
  <2> HIDE DEF Right, N
  <2>2. \A n \in 0..N : n \in Right
    BY <1>1, <1>4, <2>1, UpTo
  <2> QED BY <2>2, <1>1
<1> QED BY <1>2, <1>5

-----------------------------------------------------------------------------
(***************************************************************************)
(* The inductive invariant.                                                *)
(***************************************************************************)
Txs == [undelegate : [Validators -> Nat], ack : {"none", "ok", "error"}]

\* What is in flight is a transaction.
LEMMA TxFacts ==
    ASSUME TypeOK, tx # <<>>
    PROVE  tx[1] \in Txs
<1>1. tx \in Seq(Txs)
  BY DEF TypeOK, Txs
<1> QED BY <1>1

\* A list of one transaction.
LEMMA TxOne ==
    ASSUME NEW t \in Txs
    PROVE  /\ <<t>> \in Seq(Txs) /\ Len(<<t>>) <= 1
           /\ <<t>> # <<>> /\ <<t>>[1] = t
OBVIOUS

\* The recorded times are ages, also with the one that is about to be written.
LEMMA RecordedTyped ==
    ASSUME TypeOK, NEW v \in Validators
    PROVE  Recorded(v) \in Seq(Nat) /\ unbonds_time[v] \in Seq(Nat)
<1>1. unbonds_time[v] \in Seq(0..AgeLimit)
  BY DEF TypeOK
<1>2. \A i \in 1..Len(unbonds_time[v]) : unbonds_time[v][i] \in Nat
  <2>1. \A i \in 1..Len(unbonds_time[v]) : unbonds_time[v][i] \in 0..AgeLimit
    BY ONLY <1>1, SeqFunction
  <2> QED BY <2>1
<1>3. unbonds_time[v] \in Seq(Nat)
  BY ONLY <1>1, <1>2, SeqRetyped
<1> QED BY <1>3 DEF Recorded

\* The invariant holds initially.
LEMMA InitIInv == Init => IInv
<1> SUFFICES ASSUME Init PROVE IInv
  OBVIOUS
<1>1. TypeOK
  <2>1. MAX_ERA_SECONDS \in Nat \ {0} /\ MAX_ERA_SECONDS \in MIN_ERA_SECONDS..MAX_ERA_SECONDS
    BY UnbondAssumption
  <2>2. MAX_UNBONDINGS \in Nat
    BY UnbondAssumption
  <2>3. unbonding_period \in Nat
    BY UnbondAssumption DEF Init
  <2>4. unbonds_time \in [Validators -> Seq(0..AgeLimit)]
    BY DEF Init
  <2>5. entries \in [Validators -> Seq(1..UNBONDING_SECONDS)]
    BY DEF Init
  <2>6. \A v \in Validators : Len(unbonds_time[v]) <= MAX_UNBONDINGS
    BY <2>2 DEF Init
  <2>7. tx \in Seq([undelegate : [Validators -> Nat], ack : {"none", "ok", "error"}])
        /\ Len(tx) <= 1
    BY DEF Init
  <2>8. delegation \in [Validators -> Nat]
    BY UnbondAssumption DEF Init
  <2> QED BY <2>1, <2>3, <2>4, <2>5, <2>6, <2>7, <2>8 DEF Init, TypeOK
<1>2. TxInBondStarted /\ RoomLeft /\ UnbondExact
  BY DEF Init, TxInBondStarted, RoomLeft, UnbondExact
<1>3. EntriesRecorded
  <2> SUFFICES ASSUME NEW v \in Validators
               PROVE  Ascending(entries[v]) /\ Matches(entries[v], Recorded(v))
    BY DEF EntriesRecorded
  <2>1. entries[v] = <<>> /\ Recorded(v) = <<>>
    BY DEF Init, Recorded, Acked
  <2> QED BY <2>1 DEF Ascending, Matches
<1> QED BY <1>1, <1>2, <1>3 DEF IInv

\* The steps that touch neither list nor transaction.
LEMMA QuietStep ==
    ASSUME IInv,
           \/ \E amount \in 1..MaxUnbond : execute_era_update(amount)
           \/ \E period \in 0..MaxPeriod : execute_config_pool_unbonding_period(period)
           \/ \E s \in MIN_ERA_SECONDS..MAX_ERA_SECONDS : execute_config_pool_era_seconds(s)
           \/ \E v \in Validators : host_delegates(v)
           \/ UNCHANGED vars
    PROVE  IInv'
<1>0. /\ UNCHANGED <<unbonds_time, tx, entries, dropped_early>>
      /\ \/ UNCHANGED <<status, unbond_amount>>
         \/ status = "ActiveEnded" /\ status' = "EraUpdateEnded"
            /\ unbond_amount' \in Nat /\ UNCHANGED delegation
      /\ era_seconds' \in MIN_ERA_SECONDS..MAX_ERA_SECONDS
      /\ unbonding_period' \in Nat
      /\ delegation' \in [Validators -> Nat]
      /\ \A v \in Validators : delegation[v] <= delegation'[v]
  <2>0. /\ delegation \in [Validators -> Nat] /\ unbond_amount \in Nat
        /\ era_seconds \in MIN_ERA_SECONDS..MAX_ERA_SECONDS /\ unbonding_period \in Nat
    BY DEF IInv, TypeOK
  <2>1. CASE \E amount \in 1..MaxUnbond : execute_era_update(amount)
    BY <2>0, <2>1, UnbondAssumption DEF execute_era_update
  <2>2. CASE \E s \in MIN_ERA_SECONDS..MAX_ERA_SECONDS : execute_config_pool_era_seconds(s)
    <3>1. PICK s \in MIN_ERA_SECONDS..MAX_ERA_SECONDS : execute_config_pool_era_seconds(s)
      BY <2>2
    <3>2. s \in Nat \ {0}
      BY UnbondAssumption
    <3>3. PeriodFor(s) \in Nat
      BY <3>2, PeriodCovers
    <3> QED BY <2>0, <3>1, <3>3 DEF execute_config_pool_era_seconds
  <2>3. CASE \E v \in Validators : host_delegates(v)
    BY <2>0, <2>3 DEF host_delegates, pool_vars
  <2>4. CASE UNCHANGED vars
    BY <2>0, <2>4 DEF vars, pool_vars
  <2>5. CASE \E period \in 0..MaxPeriod : execute_config_pool_unbonding_period(period)
    BY <2>0, <2>5, UnbondAssumption DEF execute_config_pool_unbonding_period
  <2> QED BY <2>1, <2>2, <2>3, <2>4, <2>5
<1>1. TypeOK'
  BY <1>0 DEF IInv, TypeOK
<1>2. TxInBondStarted'
  BY <1>0 DEF IInv, TxInBondStarted
<1>3. EntriesRecorded'
  BY <1>0 DEF IInv, EntriesRecorded, Recorded, Acked, Undelegated, Matches, Ascending
<1>4. RoomLeft'
  BY <1>0 DEF IInv, RoomLeft, Undelegated
<1>5. UnbondExact'
  <2> SUFFICES ASSUME tx # <<>>, tx[1].ack = "none"
               PROVE  /\ Total(tx[1].undelegate) = unbond_amount'
                      /\ \A v \in Undelegated : tx[1].undelegate[v] <= delegation'[v]
    BY <1>0 DEF UnbondExact, Undelegated, Total
  <2>1. status = "BondStarted" /\ unbond_amount' = unbond_amount
    BY <1>0 DEF IInv, TxInBondStarted
  <2>2. tx[1].undelegate \in [Validators -> Nat]
    BY TxFacts DEF IInv, Txs
  <2>3. /\ Total(tx[1].undelegate) = unbond_amount
        /\ \A v \in Undelegated : tx[1].undelegate[v] <= delegation[v]
    BY DEF IInv, UnbondExact
  <2>4. ASSUME NEW v \in Undelegated PROVE tx[1].undelegate[v] <= delegation'[v]
    <3>1. v \in Validators
      BY DEF Undelegated
    <3>2. delegation[v] \in Nat /\ delegation'[v] \in Nat /\ tx[1].undelegate[v] \in Nat
      BY <1>0, <2>2, <3>1 DEF IInv, TypeOK
    <3> QED BY <1>0, <2>3, <3>1, <3>2
  <2> QED BY <2>1, <2>3, <2>4
<1> QED BY <1>1, <1>2, <1>3, <1>4, <1>5 DEF IInv

\* A list for EraBond to use: the same, or without a time as old as the unbonding
\* time.
LEMMA ExpiredMatches ==
    ASSUME NEW e \in Seq(1..UNBONDING_SECONDS), NEW r \in Seq(Nat), Matches(e, r),
           WithoutExpired(r) = r \/ Head(r) >= UNBONDING_SECONDS
    PROVE  Matches(e, WithoutExpired(r))
<1>1. CASE r # <<>> /\ Head(r) > unbonding_period * era_seconds /\ WithoutExpired(r) # r
  BY <1>1, MatchTail DEF WithoutExpired
<1>2. CASE ~(r # <<>> /\ Head(r) > unbonding_period * era_seconds)
  BY <1>2 DEF WithoutExpired
<1>3. CASE WithoutExpired(r) = r
  BY <1>3
<1> QED BY <1>1, <1>2, <1>3

\* EraBond asks only for what the contract's lists have room for.
LEMMA BondStep == IInv /\ execute_era_bond => IInv'
<1> SUFFICES ASSUME IInv, execute_era_bond PROVE IInv'
  OBVIOUS
<1>1. PICK order \in sorted_delegations :
          LET result == allocate_unbond_amount(order)
          IN  /\ result.remaining = 0
              /\ tx' = <<[undelegate |-> result.allocated, ack |-> "none"]>>
              /\ unbonds_time' = result.times
              /\ dropped_early' = (dropped_early \/ DropsEarly(result.times))
  BY DEF execute_era_bond
<1> DEFINE result == allocate_unbond_amount(order)
           t == [undelegate |-> result.allocated, ack |-> "none"]
<1>2. PICK done : Allocating(result, done)
  BY AllocationKeeps DEF IInv
<1>3. /\ result.remaining = 0 /\ tx' = <<t>> /\ unbonds_time' = result.times
      /\ status = "EraUpdateEnded" /\ status' = "BondStarted"
      /\ dropped_early' = (dropped_early \/ DropsEarly(result.times))
      /\ UNCHANGED <<era_seconds, unbonding_period, unbond_amount, delegation, entries>>
  BY <1>1 DEF execute_era_bond
<1> HIDE DEF result
<1>4. /\ result.allocated \in [Validators -> Nat]
      /\ result.times \in [Validators -> Seq(0..AgeLimit)]
      /\ Total(result.allocated) + 0 = unbond_amount
      /\ \A v \in Validators :
            /\ result.allocated[v] <= delegation[v]
            /\ result.times[v] \in {unbonds_time[v], WithoutExpired(unbonds_time[v])}
            /\ result.allocated[v] > 0 => Len(result.times[v]) < MAX_UNBONDINGS
  BY <1>2, <1>3 DEF Allocating, Accumulators
<1>5. /\ t \in Txs /\ tx' \in Seq(Txs) /\ Len(tx') <= 1 /\ tx' # <<>> /\ tx'[1] = t
      /\ t.undelegate = result.allocated /\ t.ack = "none"
  <2>1. t \in Txs
    BY <1>4 DEF Txs
  <2> HIDE DEF t
  <2> QED BY <1>3, <2>1, TxOne DEF t
<1> HIDE DEF t
<1>6. TypeOK'
  <2>1. ASSUME NEW v \in Validators PROVE Len(unbonds_time'[v]) <= MAX_UNBONDINGS
    <3>1. unbonds_time[v] \in Seq(0..AgeLimit) /\ Len(unbonds_time[v]) <= MAX_UNBONDINGS
      BY DEF IInv, TypeOK
    <3>2. Len(WithoutExpired(unbonds_time[v])) <= Len(unbonds_time[v])
          /\ WithoutExpired(unbonds_time[v]) \in Seq(0..AgeLimit)
      BY <3>1, WithoutExpiredTyped
    <3>3. Len(WithoutExpired(unbonds_time[v])) \in Nat /\ Len(unbonds_time[v]) \in Nat
      BY <3>1, <3>2
    <3>4. \/ unbonds_time'[v] = unbonds_time[v]
          \/ unbonds_time'[v] = WithoutExpired(unbonds_time[v])
      BY <1>3, <1>4
    <3>5. MAX_UNBONDINGS \in Nat
      BY UnbondAssumption
    <3> QED BY ONLY <3>1, <3>2, <3>3, <3>4, <3>5
  <2>2. unbonds_time' \in [Validators -> Seq(0..AgeLimit)]
    BY <1>3, <1>4
  <2>3. tx' \in Seq([undelegate : [Validators -> Nat], ack : {"none", "ok", "error"}])
    BY <1>5 DEF Txs
  <2>4. dropped_early' \in BOOLEAN
    BY <1>3 DEF IInv, TypeOK
  <2> QED BY <1>3, <1>5, <2>1, <2>2, <2>3, <2>4 DEF IInv, TypeOK
<1>7. TxInBondStarted'
  BY <1>3, <1>5 DEF TxInBondStarted
<1>8. EntriesRecorded'
  <2> SUFFICES ASSUME NEW v \in Validators
               PROVE  /\ Ascending(entries'[v])
                      /\ ~dropped_early' => Matches(entries'[v], Recorded(v)')
    BY DEF EntriesRecorded
  <2>1. tx = <<>>
    BY <1>3 DEF IInv, TxInBondStarted
  <2>2. Recorded(v) = unbonds_time[v]
    BY <2>1 DEF Recorded, Acked
  <2>3. Recorded(v)' = unbonds_time'[v]
    BY <1>5 DEF Recorded, Acked
  <2>4. Ascending(entries[v]) /\ (~dropped_early => Matches(entries[v], unbonds_time[v]))
    BY <2>2 DEF IInv, EntriesRecorded
  <2>5. ASSUME ~dropped_early' PROVE Matches(entries[v], unbonds_time'[v])
    <3>1. entries[v] \in Seq(1..UNBONDING_SECONDS) /\ unbonds_time[v] \in Seq(Nat)
      BY RecordedTyped DEF IInv, TypeOK
    <3>2. ~dropped_early /\ ~DropsEarly(result.times)
      BY <1>3, <2>5
    <3>3. result.times[v] = unbonds_time[v] \/ ~(Head(unbonds_time[v]) < UNBONDING_SECONDS)
      BY <3>2 DEF DropsEarly
    <3>4. CASE unbonds_time'[v] = unbonds_time[v]
      BY <2>4, <3>2, <3>4
    <3>5. CASE unbonds_time'[v] # unbonds_time[v]
      <4>1. unbonds_time'[v] = WithoutExpired(unbonds_time[v])
        BY <1>3, <1>4, <3>5
      <4>2. unbonds_time[v] # <<>>
        BY <3>5, <4>1 DEF WithoutExpired
      <4>3. Head(unbonds_time[v]) \in Nat /\ UNBONDING_SECONDS \in Nat
        BY <3>1, <4>2, AgeLimitNat
      <4>4. Head(unbonds_time[v]) >= UNBONDING_SECONDS
        BY <1>3, <3>3, <3>5, <4>3
      <4> QED BY <2>4, <3>1, <3>2, <4>1, <4>4, ExpiredMatches
    <3> QED BY <3>4, <3>5
  <2> QED BY <1>3, <2>3, <2>4, <2>5
<1>9. RoomLeft'
  BY <1>3, <1>4, <1>5 DEF RoomLeft, Undelegated
<1>10. UnbondExact'
  <2>1. Total(result.allocated) \in Int
    BY <1>4, ValidatorsFinite, SumInt DEF Total
  <2>2. Total(result.allocated) = unbond_amount
    BY <1>4, <2>1
  <2> QED BY <1>3, <1>4, <1>5, <2>2 DEF UnbondExact, Undelegated, Total
<1> QED BY <1>6, <1>7, <1>8, <1>9, <1>10 DEF IInv

\* The callback writes the time the invariant already counts.
LEMMA CallbackStep == IInv /\ sudo_era_bond_callback => IInv'
<1> SUFFICES ASSUME IInv, sudo_era_bond_callback PROVE IInv'
  OBVIOUS
<1>1. /\ tx # <<>> /\ tx[1].ack = "ok" /\ tx' = <<>>
      /\ unbonds_time' = [v \in Validators |->
             IF v \in Undelegated THEN Append(unbonds_time[v], 0) ELSE unbonds_time[v]]
      /\ status' = "ActiveEnded" /\ unbond_amount' = 0
      /\ UNCHANGED <<era_seconds, unbonding_period, delegation, entries, dropped_early>>
  BY DEF sudo_era_bond_callback
<1>2. \A v \in Validators : unbonds_time'[v] = Recorded(v) /\ Recorded(v)' = Recorded(v)
  BY <1>1 DEF Recorded, Acked
<1>3. TypeOK'
  <2>1. ASSUME NEW v \in Validators
        PROVE  unbonds_time'[v] \in Seq(0..AgeLimit) /\ Len(unbonds_time'[v]) <= MAX_UNBONDINGS
    <3> DEFINE A == 0..AgeLimit
    <3>1. 0 \in A /\ unbonds_time[v] \in Seq(A) /\ Len(unbonds_time[v]) <= MAX_UNBONDINGS
      BY AgeLimitNat DEF IInv, TypeOK
    <3>2. v \in Undelegated => Len(unbonds_time[v]) < MAX_UNBONDINGS
      BY <1>1 DEF IInv, RoomLeft
    <3> HIDE DEF A
    <3>3. /\ Append(unbonds_time[v], 0) \in Seq(A)
          /\ Len(Append(unbonds_time[v], 0)) = Len(unbonds_time[v]) + 1
          /\ Len(unbonds_time[v]) \in Nat
      BY <3>1
    <3>4. unbonds_time'[v] \in Seq(A) /\ Len(unbonds_time'[v]) <= MAX_UNBONDINGS
      BY <1>1, <3>1, <3>2, <3>3, UnbondAssumption
    <3> QED BY <3>4 DEF A
  <2>2. unbonds_time' \in [Validators -> Seq(0..AgeLimit)]
    <3> DEFINE T == Seq(0..AgeLimit)
               Value(v) == IF v \in Undelegated THEN Append(unbonds_time[v], 0)
                                                ELSE unbonds_time[v]
    <3>1. unbonds_time' = [v \in Validators |-> Value(v)]
      BY <1>1
    <3>2. \A v \in Validators : Value(v) \in T
      BY <1>1, <2>1
    <3> HIDE DEF T, Value
    <3>3. unbonds_time' \in [Validators -> T]
      BY <3>1, <3>2
    <3> QED BY <3>3 DEF T
  <2>3. tx' \in Seq([undelegate : [Validators -> Nat], ack : {"none", "ok", "error"}])
        /\ Len(tx') <= 1
    BY <1>1
  <2> QED BY <1>1, <2>1, <2>2, <2>3 DEF IInv, TypeOK
<1>4. TxInBondStarted' /\ RoomLeft' /\ UnbondExact'
  BY <1>1 DEF TxInBondStarted, RoomLeft, UnbondExact
<1>5. EntriesRecorded'
  BY <1>1, <1>2 DEF IInv, EntriesRecorded, Matches, Ascending
<1> QED BY <1>3, <1>4, <1>5 DEF IInv

\* A failed callback writes nothing, and nothing was undelegated.
LEMMA FailedStep == IInv /\ sudo_era_bond_failed_callback => IInv'
<1> SUFFICES ASSUME IInv, sudo_era_bond_failed_callback PROVE IInv'
  OBVIOUS
<1>1. /\ tx # <<>> /\ tx[1].ack = "error" /\ tx' = <<>> /\ status' = "EraUpdateEnded"
      /\ UNCHANGED <<era_seconds, unbonding_period, unbond_amount, unbonds_time,
                     delegation, entries, dropped_early>>
  BY DEF sudo_era_bond_failed_callback
<1>2. TypeOK'
  BY <1>1 DEF IInv, TypeOK
<1>3. TxInBondStarted' /\ RoomLeft' /\ UnbondExact'
  BY <1>1 DEF TxInBondStarted, RoomLeft, UnbondExact
<1>4. EntriesRecorded'
  BY <1>1 DEF IInv, EntriesRecorded, Recorded, Acked, Matches, Ascending
<1> QED BY <1>2, <1>3, <1>4 DEF IInv

\* The host starts unbondings; the callback will record each.
LEMMA HostStep == IInv /\ host_executes => IInv'
<1> SUFFICES ASSUME IInv, host_executes PROVE IInv'
  OBVIOUS
<1> DEFINE t == [tx[1] EXCEPT !.ack = "ok"]
<1>1. /\ tx # <<>> /\ tx[1].ack = "none" /\ HostTakes /\ tx' = <<t>>
      /\ delegation' = [v \in Validators |-> delegation[v] - tx[1].undelegate[v]]
      /\ entries' = [v \in Validators |->
             IF v \in Undelegated THEN Append(entries[v], UNBONDING_SECONDS)
                                  ELSE entries[v]]
      /\ UNCHANGED <<status, era_seconds, unbonding_period, unbond_amount, unbonds_time,
                     dropped_early>>
  BY DEF host_executes, pool_vars
<1>2. /\ tx[1] \in Txs /\ t \in Txs /\ t.undelegate = tx[1].undelegate /\ t.ack = "ok"
      /\ tx[1].undelegate \in [Validators -> Nat]
  BY <1>1, TxFacts DEF IInv, Txs
<1> HIDE DEF t
<1>3. tx' \in Seq(Txs) /\ Len(tx') <= 1 /\ tx' # <<>> /\ tx'[1] = t
  BY <1>1, <1>2, TxOne
<1>4. Undelegated' = Undelegated
  BY <1>2, <1>3 DEF Undelegated
<1>5. ASSUME NEW v \in Validators
      PROVE  /\ entries'[v] \in Seq(1..UNBONDING_SECONDS) /\ Ascending(entries'[v])
             /\ ~dropped_early => Matches(entries'[v], Recorded(v)')
  <2>1. /\ entries[v] \in Seq(1..UNBONDING_SECONDS) /\ Ascending(entries[v])
        /\ ~dropped_early => Matches(entries[v], unbonds_time[v])
        /\ unbonds_time[v] \in Seq(Nat)
    <3>1. Recorded(v) = unbonds_time[v]
      BY <1>1 DEF Recorded, Acked
    <3> QED BY <3>1, RecordedTyped DEF IInv, EntriesRecorded, TypeOK
  <2>2. CASE v \in Undelegated
    <3>1. /\ entries'[v] = Append(entries[v], UNBONDING_SECONDS)
          /\ Recorded(v)' = Append(unbonds_time[v], 0)
      BY <1>1, <1>2, <1>3, <1>4, <2>2 DEF Recorded, Acked
    <3>2. ~dropped_early => Matches(entries'[v], Recorded(v)')
      BY <2>1, <3>1, MatchAppend
    <3>3. Append(entries[v], UNBONDING_SECONDS) \in Seq(1..UNBONDING_SECONDS)
      <4>1. UNBONDING_SECONDS \in 1..UNBONDING_SECONDS
        BY UnbondAssumption
      <4> QED BY ONLY <2>1, <4>1, AppendTyped
    <3>4. Ascending(Append(entries[v], UNBONDING_SECONDS))
      <4> DEFINE e == entries[v]
                 f == Append(e, UNBONDING_SECONDS)
      <4>1. /\ Len(e) \in Nat /\ Len(f) = Len(e) + 1
            /\ \A i \in 1..Len(e) : f[i] = e[i]
            /\ f[Len(e) + 1] = UNBONDING_SECONDS
        BY <2>1
      <4>2. \A i \in 1..Len(e) : e[i] \in 1..UNBONDING_SECONDS
        BY ONLY <2>1, SeqFunction
      <4>3. UNBONDING_SECONDS \in Nat
        BY AgeLimitNat
      <4>4. \A i, j \in 1..Len(e) : i <= j => e[i] <= e[j]
        BY <2>1 DEF Ascending
      <4> HIDE DEF e, f
      <4>5. ASSUME NEW i \in 1..Len(f), NEW j \in 1..Len(f), i <= j PROVE f[i] <= f[j]
        <5>1. CASE j = Len(e) + 1
          BY ONLY <4>1, <4>2, <4>3, <4>5, <5>1
        <5>2. CASE j # Len(e) + 1
          <6>1. i \in 1..Len(e) /\ j \in 1..Len(e)
            BY ONLY <4>1, <4>5, <5>2, i \in 1..Len(f), j \in 1..Len(f)
          <6> QED BY ONLY <4>1, <4>4, <4>5, <6>1
        <5> QED BY <5>1, <5>2
      <4>6. Ascending(f)
        BY ONLY <4>5 DEF Ascending
      <4> QED BY <4>6 DEF e, f
    <3> QED BY <3>1, <3>2, <3>3, <3>4
  <2>3. CASE v \notin Undelegated
    <3>1. entries'[v] = entries[v] /\ Recorded(v)' = unbonds_time[v]
      BY <1>1, <1>4, <2>3 DEF Recorded, Acked
    <3> QED BY <2>1, <3>1
  <2> QED BY <2>2, <2>3
<1>6. TypeOK'
  <2>1. delegation' \in [Validators -> Nat]
    <3>1. ASSUME NEW v \in Validators PROVE delegation[v] - tx[1].undelegate[v] \in Nat
      <4>1. delegation[v] \in Nat /\ tx[1].undelegate[v] \in Nat
        BY <1>2 DEF IInv, TypeOK
      <4>2. tx[1].undelegate[v] > 0 => tx[1].undelegate[v] <= delegation[v]
        BY <1>1 DEF HostTakes, Undelegated
      <4> QED BY <4>1, <4>2
    <3> QED BY <1>1, <3>1
  <2>2. entries' \in [Validators -> Seq(1..UNBONDING_SECONDS)]
    <3> DEFINE T == Seq(1..UNBONDING_SECONDS)
    <3>1. entries' = [v \in Validators |-> entries'[v]]
      BY <1>1
    <3>2. \A v \in Validators : entries'[v] \in T
      BY <1>5
    <3> HIDE DEF T
    <3>3. entries' \in [Validators -> T]
      BY ONLY <3>1, <3>2
    <3> QED BY <3>3 DEF T
  <2>3. tx' \in Seq([undelegate : [Validators -> Nat], ack : {"none", "ok", "error"}])
        /\ Len(tx') <= 1
    BY <1>3 DEF Txs
  <2> QED BY <1>1, <2>1, <2>2, <2>3 DEF IInv, TypeOK
<1>7. TxInBondStarted'
  BY <1>1, <1>3 DEF IInv, TxInBondStarted
<1>8. EntriesRecorded'
  BY <1>1, <1>5 DEF EntriesRecorded
<1>9. RoomLeft'
  BY <1>1, <1>4 DEF IInv, RoomLeft
<1>10. UnbondExact'
  BY <1>2, <1>3 DEF UnbondExact
<1> QED BY <1>6, <1>7, <1>8, <1>9, <1>10 DEF IInv

\* A refusal changes nothing but the outcome.
LEMMA RefuseStep == IInv /\ host_refuses => IInv'
<1> SUFFICES ASSUME IInv, host_refuses PROVE IInv'
  OBVIOUS
<1> DEFINE t == [tx[1] EXCEPT !.ack = "error"]
<1>1. /\ tx # <<>> /\ tx[1].ack = "none" /\ tx' = <<t>>
      /\ UNCHANGED <<status, era_seconds, unbonding_period, unbond_amount, unbonds_time,
                     delegation, entries, dropped_early>>
  BY DEF host_refuses, pool_vars
<1>2. tx[1] \in Txs /\ t \in Txs /\ t.ack = "error"
  BY <1>1, TxFacts DEF IInv, Txs
<1> HIDE DEF t
<1>3. tx' \in Seq(Txs) /\ Len(tx') <= 1 /\ tx' # <<>> /\ tx'[1] = t
  BY <1>1, <1>2, TxOne
<1>4. TypeOK'
  <2>1. tx' \in Seq([undelegate : [Validators -> Nat], ack : {"none", "ok", "error"}])
        /\ Len(tx') <= 1
    BY <1>3 DEF Txs
  <2> QED BY <1>1, <2>1 DEF IInv, TypeOK
<1>5. TxInBondStarted' /\ RoomLeft' /\ UnbondExact'
  BY <1>1, <1>2, <1>3 DEF IInv, TxInBondStarted, RoomLeft, UnbondExact
<1>6. EntriesRecorded'
  BY <1>1, <1>2, <1>3 DEF IInv, EntriesRecorded, Recorded, Acked, Matches, Ascending
<1> QED BY <1>4, <1>5, <1>6 DEF IInv

\* What a second does to the recorded times.
Older(times) == [i \in DOMAIN times |->
                     IF times[i] < AgeLimit THEN times[i] + 1 ELSE AgeLimit]

\* They stay ages, and grow by at most one.
LEMMA OlderTyped ==
    ASSUME NEW times \in Seq(0..AgeLimit)
    PROVE  /\ Older(times) \in Seq(0..AgeLimit) /\ Len(Older(times)) = Len(times)
           /\ \A i \in 1..Len(times) : Older(times)[i] <= times[i] + 1
<1>1. /\ AgeLimit \in Nat /\ Len(times) \in Nat /\ DOMAIN times = 1..Len(times)
      /\ \A i \in 1..Len(times) : times[i] \in 0..AgeLimit
  BY AgeLimitNat, SeqFunction
<1>2. \A i \in 1..Len(times) : /\ Older(times)[i] \in 0..AgeLimit
                              /\ Older(times)[i] <= times[i] + 1
  <2> SUFFICES ASSUME NEW i \in 1..Len(times)
               PROVE  Older(times)[i] \in 0..AgeLimit /\ Older(times)[i] <= times[i] + 1
    OBVIOUS
  <2>1. Older(times)[i] = IF times[i] < AgeLimit THEN times[i] + 1 ELSE AgeLimit
    BY <1>1 DEF Older
  <2>2. times[i] \in 0..AgeLimit
    BY <1>1
  <2> QED BY ONLY <1>1, <2>1, <2>2
<1>3. Older(times) = [i \in 1..Len(times) |-> Older(times)[i]]
  BY <1>1 DEF Older
<1>4. Older(times) \in [1..Len(times) -> 0..AgeLimit]
  BY ONLY <1>2, <1>3
<1>5. Older(times) \in Seq(0..AgeLimit) /\ Len(Older(times)) = Len(times)
  <2> DEFINE A == 0..AgeLimit
  <2> HIDE DEF A
  <2>1. Older(times) \in [1..Len(times) -> A]
    BY <1>4 DEF A
  <2>2. Older(times) \in Seq(A) /\ Len(Older(times)) = Len(times)
    BY ONLY <1>1, <2>1
  <2> QED BY <2>2 DEF A
<1> QED BY <1>2, <1>5

\* A second later the lists are still side by side, whatever has ended.
LEMMA SecondStep == IInv /\ second_passes => IInv'
<1> SUFFICES ASSUME IInv, second_passes PROVE IInv'
  OBVIOUS
<1>1. /\ unbonds_time' = [v \in Validators |-> Older(unbonds_time[v])]
      /\ entries' = [v \in Validators |->
             Retain([i \in DOMAIN entries[v] |-> entries[v][i] - 1], 0)]
      /\ UNCHANGED <<status, era_seconds, unbonding_period, unbond_amount, tx, delegation,
                     dropped_early>>
  BY DEF second_passes, pool_vars, Older
<1>2. Undelegated' = Undelegated /\ \A v \in Validators : Acked(v)' = Acked(v)
  BY <1>1 DEF Acked, Undelegated
<1>3. ASSUME NEW v \in Validators
      PROVE  /\ unbonds_time'[v] \in Seq(0..AgeLimit)
             /\ Len(unbonds_time'[v]) = Len(unbonds_time[v])
             /\ Recorded(v)' \in Seq(Nat) /\ Len(Recorded(v)') = Len(Recorded(v))
             /\ \A i \in 1..Len(Recorded(v)) : Recorded(v)'[i] <= Recorded(v)[i] + 1
  <2> DEFINE r == unbonds_time[v]
             s == Older(r)
  <2>1. unbonds_time'[v] = s
    BY <1>1
  <2>2. r \in Seq(0..AgeLimit)
    BY DEF IInv, TypeOK
  <2>3. r \in Seq(Nat)
    BY RecordedTyped DEF IInv
  <2> HIDE DEF r
  <2>4. /\ s \in Seq(0..AgeLimit) /\ Len(s) = Len(r)
        /\ \A i \in 1..Len(r) : s[i] <= r[i] + 1
    BY <2>2, OlderTyped
  <2> HIDE DEF s
  <2>5. s \in Seq(Nat)
    <3>1. \A i \in 1..Len(s) : s[i] \in 0..AgeLimit
      BY ONLY <2>4, SeqFunction
    <3>2. \A i \in 1..Len(s) : s[i] \in Nat
      BY <3>1
    <3> QED BY ONLY <2>4, <3>2, SeqRetyped
  <2>6. /\ Append(s, 0) \in Seq(Nat)
        /\ Len(Append(s, 0)) = Len(Append(r, 0))
        /\ \A i \in 1..Len(Append(r, 0)) : Append(s, 0)[i] <= Append(r, 0)[i] + 1
    <3>1. /\ Len(Append(r, 0)) = Len(r) + 1 /\ Len(Append(s, 0)) = Len(r) + 1
          /\ Append(r, 0)[Len(r) + 1] = 0 /\ Append(s, 0)[Len(r) + 1] = 0
          /\ \A i \in 1..Len(r) : Append(r, 0)[i] = r[i] /\ Append(s, 0)[i] = s[i]
          /\ Len(r) \in Nat /\ Append(s, 0) \in Seq(Nat)
      BY ONLY <2>3, <2>4, <2>5
    <3>2. \A i \in 1..(Len(r) + 1) : i \in 1..Len(r) \/ i = Len(r) + 1
      BY ONLY <3>1
    <3>3. \A i \in 1..Len(Append(r, 0)) : Append(s, 0)[i] <= Append(r, 0)[i] + 1
      BY ONLY <2>4, <3>1, <3>2
    <3> QED BY <3>1, <3>3
  <2>7. CASE Acked(v)
    <3>1. Recorded(v) = Append(r, 0) /\ Recorded(v)' = Append(s, 0)
      BY <1>2, <2>1, <2>7 DEF Recorded, r
    <3>2. unbonds_time'[v] \in Seq(0..AgeLimit) /\ Len(unbonds_time'[v]) = Len(unbonds_time[v])
      BY <2>1, <2>4 DEF r
    <3> QED BY <2>6, <3>1, <3>2
  <2>8. CASE ~Acked(v)
    <3>1. Recorded(v) = r /\ Recorded(v)' = s
      BY <1>2, <2>1, <2>8 DEF Recorded, r
    <3>2. unbonds_time'[v] \in Seq(0..AgeLimit) /\ Len(unbonds_time'[v]) = Len(unbonds_time[v])
      BY <2>1, <2>4 DEF r
    <3> QED BY <2>4, <2>5, <3>1, <3>2
  <2> QED BY <2>7, <2>8
<1>4. ASSUME NEW v \in Validators
      PROVE  /\ entries'[v] \in Seq(1..UNBONDING_SECONDS) /\ Ascending(entries'[v])
             /\ ~dropped_early => Matches(entries'[v], Recorded(v)')
  <2>1. entries'[v] = Retain([i \in DOMAIN entries[v] |-> entries[v][i] - 1], 0)
    BY <1>1
  <2>2. /\ entries[v] \in Seq(1..UNBONDING_SECONDS) /\ Ascending(entries[v])
        /\ Recorded(v) \in Seq(Nat)
        /\ ~dropped_early => Matches(entries[v], Recorded(v))
    BY RecordedTyped DEF IInv, EntriesRecorded, TypeOK
  <2>3. entries'[v] \in Seq(1..UNBONDING_SECONDS) /\ Ascending(entries'[v])
    BY ONLY <2>1, <2>2, EntriesOlder
  <2>4. ASSUME ~dropped_early PROVE Matches(entries'[v], Recorded(v)')
    BY ONLY <1>3, <2>1, <2>2, <2>4, MatchOlder, v \in Validators
  <2> QED BY <2>3, <2>4
<1>5. TypeOK'
  <2>1. unbonds_time' \in [Validators -> Seq(0..AgeLimit)]
    <3> DEFINE T == Seq(0..AgeLimit)
    <3>1. unbonds_time' = [v \in Validators |-> unbonds_time'[v]]
      BY <1>1
    <3>2. \A v \in Validators : unbonds_time'[v] \in T
      BY <1>3
    <3> HIDE DEF T
    <3>3. unbonds_time' \in [Validators -> T]
      BY ONLY <3>1, <3>2
    <3> QED BY <3>3 DEF T
  <2>2. entries' \in [Validators -> Seq(1..UNBONDING_SECONDS)]
    <3> DEFINE T == Seq(1..UNBONDING_SECONDS)
    <3>1. entries' = [v \in Validators |-> entries'[v]]
      BY <1>1
    <3>2. \A v \in Validators : entries'[v] \in T
      BY <1>4
    <3> HIDE DEF T
    <3>3. entries' \in [Validators -> T]
      BY ONLY <3>1, <3>2
    <3> QED BY <3>3 DEF T
  <2>3. \A v \in Validators : Len(unbonds_time'[v]) <= MAX_UNBONDINGS
    BY <1>3 DEF IInv, TypeOK
  <2> QED BY <1>1, <2>1, <2>2, <2>3 DEF IInv, TypeOK
<1>6. TxInBondStarted'
  BY <1>1 DEF IInv, TxInBondStarted
<1>7. EntriesRecorded'
  BY <1>1, <1>4 DEF EntriesRecorded
<1>8. RoomLeft'
  <2> SUFFICES ASSUME tx # <<>>, tx[1].ack # "error", NEW v \in Undelegated
               PROVE  Len(unbonds_time'[v]) < MAX_UNBONDINGS
    BY <1>1, <1>2 DEF RoomLeft
  <2>1. v \in Validators /\ Len(unbonds_time[v]) < MAX_UNBONDINGS
    BY DEF IInv, RoomLeft, Undelegated
  <2> QED BY <1>3, <2>1
<1>9. UnbondExact'
  BY <1>1 DEF IInv, UnbondExact, Undelegated, Total
<1> QED BY <1>5, <1>6, <1>7, <1>8, <1>9 DEF IInv

\* The inductive invariant: the host's list of a validator lies beside the newest
\* part of the contract's, until EraBond drops a time whose unbonding may still be
\* in progress.
THEOREM InvariantTheorem == Spec => []IInv
<1>1. IInv /\ [Next]_vars => IInv'
  BY QuietStep, BondStep, CallbackStep, FailedStep, HostStep, RefuseStep, SecondStep
     DEF Next
<1> QED BY InitIInv, <1>1, PTL DEF Spec

\* The host has room for every unbonding EraBond asks for, at any delay of the
\* callback and through every change of the era's length and of the period, until a
\* period shorter than the unbonding time makes EraBond drop a time too early.
THEOREM RoomTheorem == Spec => []HostNeverFull
<1>1. IInv => HostNeverFull
  <2> SUFFICES ASSUME IInv, tx # <<>>, tx[1].ack = "none", ~dropped_early,
                      NEW v \in Undelegated
               PROVE  Len(entries[v]) < MAX_UNBONDINGS
    BY DEF HostNeverFull
  <2>1. v \in Validators /\ Len(unbonds_time[v]) < MAX_UNBONDINGS
    BY DEF IInv, RoomLeft, Undelegated
  <2>2. Matches(entries[v], unbonds_time[v])
    <3>1. Recorded(v) = unbonds_time[v]
      BY DEF Recorded, Acked
    <3> QED BY <2>1, <3>1 DEF IInv, EntriesRecorded
  <2>3. Len(entries[v]) \in Nat /\ Len(unbonds_time[v]) \in Nat /\ MAX_UNBONDINGS \in Nat
    BY <2>1, RecordedTyped, UnbondAssumption DEF IInv, TypeOK
  <2> QED BY <2>1, <2>2, <2>3 DEF Matches
<1> QED BY InvariantTheorem, <1>1, PTL

\* EraBond drops no time too early while the period is the one ConfigPool derives
\* from the era's length.
THEOREM PeriodTheorem ==
    Spec => [][unbonding_period = PeriodFor(era_seconds)
                   => dropped_early' = dropped_early]_vars
<1>1. ASSUME IInv, [Next]_vars, unbonding_period = PeriodFor(era_seconds)
      PROVE  dropped_early' = dropped_early
  <2>1. CASE execute_era_bond
    <3>1. PICK order \in sorted_delegations :
              dropped_early' = (dropped_early
                                    \/ DropsEarly(allocate_unbond_amount(order).times))
      BY <2>1 DEF execute_era_bond
    <3> DEFINE result == allocate_unbond_amount(order)
    <3>2. PICK done : Allocating(result, done)
      BY <1>1, AllocationKeeps DEF IInv
    <3> HIDE DEF result
    <3>3. ASSUME NEW v \in Validators, result.times[v] # unbonds_time[v]
          PROVE  ~(Head(unbonds_time[v]) < UNBONDING_SECONDS)
      <4>1. result.times[v] = WithoutExpired(unbonds_time[v])
        BY <3>2, <3>3 DEF Allocating
      <4>2. /\ unbonds_time[v] # <<>>
            /\ Head(unbonds_time[v]) > unbonding_period * era_seconds
        BY <3>3, <4>1 DEF WithoutExpired
      <4>3. unbonds_time[v] \in Seq(Nat)
        BY <1>1, RecordedTyped DEF IInv
      <4>4. Head(unbonds_time[v]) \in Nat /\ UNBONDING_SECONDS \in Nat
        BY <4>2, <4>3, AgeLimitNat
      <4>5. era_seconds \in Nat \ {0}
        BY <1>1, UnbondAssumption DEF IInv, TypeOK
      <4>6. /\ unbonding_period \in Nat
            /\ unbonding_period * era_seconds >= UNBONDING_SECONDS
        BY <1>1, <4>5, PeriodCovers
      <4>7. unbonding_period * era_seconds \in Nat
        BY <4>5, <4>6, MulNat
      <4> QED BY <4>2, <4>4, <4>6, <4>7
    <3>4. ~DropsEarly(result.times)
      BY <3>3 DEF DropsEarly
    <3>5. dropped_early \in BOOLEAN
      BY <1>1 DEF IInv, TypeOK
    <3> QED BY <3>1, <3>4, <3>5 DEF result
  <2>2. CASE ~execute_era_bond
    BY <1>1, <2>2 DEF Next, vars, execute_era_update, sudo_era_bond_callback,
       sudo_era_bond_failed_callback, execute_config_pool_unbonding_period,
       execute_config_pool_era_seconds, host_executes, host_refuses, host_delegates,
       second_passes
  <2> QED BY <2>1, <2>2
<1>2. IInv /\ [Next]_vars => [unbonding_period = PeriodFor(era_seconds)
                                 => dropped_early' = dropped_early]_vars
  BY <1>1
<1> QED BY InvariantTheorem, <1>2, PTL DEF Spec

\* EraBond undelegates the snapshot's amount, no more and no less, and from no
\* validator more than is delegated to it.
THEOREM ExactTheorem == Spec => []UnbondExact
<1>1. IInv => UnbondExact
  BY DEF IInv
<1> QED BY InvariantTheorem, <1>1, PTL

\* The contract's lists never grow past the limit.
THEOREM TypeTheorem == Spec => []TypeOK
<1>1. IInv => TypeOK
  BY DEF IInv
<1> QED BY InvariantTheorem, <1>1, PTL

=============================================================================
