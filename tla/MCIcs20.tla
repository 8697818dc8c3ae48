------------------------------ MODULE MCIcs20 -------------------------------
(***************************************************************************)
(* Small instances of Ics20 for TLC.  Channels are interchangeable.        *)
(***************************************************************************)
EXTENDS Ics20, TLC

ChannelSymmetry == Permutations(Channels)
=============================================================================
