----------------------------- MODULE MCLsdToken -----------------------------
(***************************************************************************)
(* Small instances of LsdToken for TLC.                                    *)
(***************************************************************************)
EXTENDS LsdToken

CONSTANTS a1, a2

MCInitialBalances == {[a \in Accounts |-> 0], [a \in Accounts |-> IF a = a1 THEN 1 ELSE 0]}
MCLegacyAllowances ==
    {[k \in {<<a1, a2>>} |-> [allowance |-> 1, expires |-> 1]],
     [k \in {<<a1, a2>>, <<a2, a1>>} |-> [allowance |-> 1, expires |-> Never]]}
=============================================================================
