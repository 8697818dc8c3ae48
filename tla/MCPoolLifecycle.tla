--------------------------- MODULE MCPoolLifecycle ---------------------------
(***************************************************************************)
(* A small instance of PoolLifecycle for TLC: the queries of two pools     *)
(* just fit the range of reply ids, and a migration may claim a wrong rate.*)
(***************************************************************************)
EXTENDS PoolLifecycle

MCMigrateParams ==
    {[active |-> 3, total_lsd_token_amount |-> 2, rate |-> r] : r \in {3, 4}}
=============================================================================
