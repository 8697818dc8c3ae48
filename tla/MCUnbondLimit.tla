---------------------------- MODULE MCUnbondLimit ----------------------------
(***************************************************************************)
(* A small instance of UnbondLimit for TLC.                                *)
(***************************************************************************)
EXTENDS UnbondLimit

CONSTANTS v1, v2

MCValidatorAddrs == <<v1, v2>>
MCInitialDelegation == v1 :> 2 @@ v2 :> 1
=============================================================================
