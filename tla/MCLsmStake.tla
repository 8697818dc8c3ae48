----------------------------- MODULE MCLsmStake -----------------------------
(***************************************************************************)
(* A small instance of LsmStake for TLC: one denomination of which a       *)
(* staker holds two coins' worth and one with a single coin.               *)
(***************************************************************************)
EXTENDS LsmStake, TLC

CONSTANTS d1, d2

MCIssued == d1 :> 4 @@ d2 :> 2
=============================================================================
