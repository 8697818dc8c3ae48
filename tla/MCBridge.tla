------------------------------ MODULE MCBridge ------------------------------
(***************************************************************************)
(* Small instances of Bridge for TLC.                                      *)
(***************************************************************************)
EXTENDS Bridge

CONSTANTS r1, r2, r3, r4, deposit, shifted, forged, rid, rid_shifted, id1, id2

\* The shifted content has the id of the deposit.
MCResourceOf == [p \in {deposit, shifted, forged} |->
                    IF p = shifted THEN rid_shifted ELSE rid]
MCProposalIdOf == [p \in {deposit, shifted, forged} |-> IF p = forged THEN id2 ELSE id1]
\* Three relayers, three with a duplicate, and two.
MCRelayerLists == {<<r1, r2, r3>>, <<r1, r2, r2>>, <<r1, r4>>}
=============================================================================
