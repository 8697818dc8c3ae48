----------------------------- MODULE LiquidPool -----------------------------
(***************************************************************************)
(* What a pool promises its users, without eras, packets or a host chain:  *)
(* LSD tokens are minted and burned at the current rate, every unstake     *)
(* gives a claim with a number of its own, a claim leaves in one way only, *)
(* by being paid to its owner, and a new rate is never more than what      *)
(* backs the tokens.                                                       *)
(***************************************************************************)
EXTENDS Integers, Functions

CONSTANTS
    Users,
    CAL_BASE,             \* fixed-point scale of the rate
    PRECISION_GAP         \* kept back from every claim

VARIABLES
    supply,               \* LSD tokens
    rate,                 \* value of CAL_BASE LSD tokens
    backing,              \* tokens behind the supply
    claims,               \* open claims: number -> [owner, amount]
    issued,               \* claims ever given
    received              \* paid to each user so far

vars == <<supply, rate, backing, claims, issued, received>>

Init ==
    /\ supply = 0
    /\ rate = CAL_BASE
    /\ backing = 0
    /\ claims = <<>>
    /\ issued = 0
    /\ received = [u \in Users |-> 0]

\* What is paid in is added to the backing.
Stake ==
    /\ rate > 0
    /\ backing' \in Nat
    /\ backing' >= backing
    /\ supply' = supply + ((backing' - backing) * CAL_BASE) \div rate
    /\ UNCHANGED <<rate, claims, issued, received>>

Unstake(user, burn) ==
    LET amount == (burn * rate) \div CAL_BASE
    IN  /\ burn <= supply
        /\ amount > PRECISION_GAP
        /\ supply' = supply - burn
        /\ backing' = backing - amount
        /\ issued' = issued + 1
        /\ claims' = [i \in DOMAIN claims \cup {issued + 1} |->
               IF i = issued + 1
               THEN [owner |-> user, amount |-> amount - PRECISION_GAP]
               ELSE claims[i]]
        /\ UNCHANGED <<rate, received>>

Amounts == [i \in DOMAIN claims |-> claims[i].amount]

\* Several claims of one owner are paid together, each of them in full.
Pay(user, paid) ==
    /\ \A i \in paid : claims[i].owner = user
    /\ claims' = [i \in DOMAIN claims \ paid |-> claims[i]]
    /\ received' = [received EXCEPT ![user] =
           @ + SumFunctionOnSet(Amounts, paid)]
    /\ UNCHANGED <<supply, rate, backing, issued>>

\* Rewards and losses are booked; the fee on a reward is minted.
Reprice ==
    /\ supply' \in Nat /\ rate' \in Nat /\ backing' \in Nat
    /\ supply' >= supply
    /\ supply' * rate' <= backing' * CAL_BASE
    /\ UNCHANGED <<claims, issued, received>>

Next ==
    \/ Stake
    \/ \E user \in Users, burn \in 1..supply : Unstake(user, burn)
    \/ \E user \in Users, paid \in SUBSET DOMAIN claims : Pay(user, paid)
    \/ Reprice

Spec == Init /\ [][Next]_vars
=============================================================================
