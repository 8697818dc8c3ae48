----------------------------- MODULE MCEraCycle -----------------------------
(***************************************************************************)
(* Small instances of EraCycle for TLC.  Users are interchangeable: they   *)
(* occur only as owners of unstake requests.                               *)
(***************************************************************************)
EXTENDS EraCycleImplements, TLC

UserSymmetry == Permutations(Users)
=============================================================================
