--------------------------- MODULE MCValidatorSet ---------------------------
(***************************************************************************)
(* A small instance of ValidatorSet for TLC.                               *)
(***************************************************************************)
EXTENDS ValidatorSet

CONSTANTS v1, v2, v3

MCInitialValidators == <<v1, v2>>
MCNets == {-1, 1}
=============================================================================
