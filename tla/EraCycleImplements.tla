------------------------- MODULE EraCycleImplements -------------------------
(***************************************************************************)
(* The era cycle implements LiquidPool.  A claim is an unstake request     *)
(* whose payment the host has not executed: it is gone for its owner at    *)
(* that moment, the contract deletes its record when the outcome comes     *)
(* back.                                                                   *)
(***************************************************************************)
EXTENDS EraCycle

OpenClaims ==
    [i \in DOMAIN unstakes_of_index \ PaidOnHost |->
        [owner |-> unstakes_of_index[i].unstaker,
         amount |-> unstakes_of_index[i].amount]]

Pool == INSTANCE LiquidPool
            WITH supply <- total_lsd_token_amount, backing <- active,
                 claims <- OpenClaims, issued <- next_unstake_index

\* Every step of the contract, the host and the relayers is, seen from outside, a
\* stake, an unstake, a payment, a new rate or nothing: no failed, late or retried
\* packet loses a claim, changes one or gives one back that was paid.  The first
\* request that another payment's failure reopens while it is being paid ends this.
ImplementsLiquidPool ==
    Pool!Init /\ [][misread' = {} => [Pool!Next]_(Pool!vars)]_vars
=============================================================================
