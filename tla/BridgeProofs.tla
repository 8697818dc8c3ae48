---------------------------- MODULE BridgeProofs ----------------------------
(***************************************************************************)
(* Proofs about Bridge for any relayers, proposals and admin calls.        *)
(***************************************************************************)
EXTENDS Bridge, DataProofs

Voted(id) == {voters[id][i] : i \in DOMAIN voters[id]}

\* The part of the type invariant the proofs about votes need (there the relayers'
\* list is only looked up in).
ProposalTypeOK ==
    /\ threshold \in Nat /\ threshold >= MinThreshold
    /\ voters \in [ProposalIds -> Seq(Relayers)]
    /\ executed \in [ProposalIds -> BOOLEAN]
    /\ minted \in [Proposals -> Nat]

\* A record stores a content under that content's id.
ContentStored ==
    /\ DOMAIN content \subseteq ProposalIds
    /\ \A id \in DOMAIN content : /\ content[id] \in Proposals
                                 /\ ProposalIdOf[content[id]] = id

\* No relayer is counted twice.
VotesCounted ==
    \A id \in ProposalIds : /\ IsFiniteSet(Voted(id))
                            /\ Cardinality(Voted(id)) = Len(voters[id])

DepositedIds == {ProposalIdOf[p] : p \in Made}

\* Only faulty relayers vote under an id no deposit has.
FalseVotes == \A id \in ProposalIds \ DepositedIds : Voted(id) \subseteq Faulty

IInv == /\ ProposalTypeOK /\ ContentStored /\ VotesCounted /\ FalseVotes
        /\ MintedOnce /\ NoFalseMint

\* One vote adds one voter, to one record.
LEMMA VoteAdds ==
    ASSUME ProposalTypeOK, VotesCounted,
           NEW sender \in Relayers, NEW p \in Proposals, NEW id, id = ProposalIdOf[p],
           execute_vote_proposal(sender, p)
    PROVE  /\ id \in ProposalIds /\ voters' \in [ProposalIds -> Seq(Relayers)]
           /\ \A k \in ProposalIds : k # id => Voted(k)' = Voted(k)
           /\ Voted(id)' = Voted(id) \cup {sender}
           /\ Len(voters'[id]) = Cardinality(Voted(id)')
           /\ VotesCounted'
<1>1. voters' = [voters EXCEPT ![id] = Append(voters[id], sender)]
  BY DEF execute_vote_proposal, push_voter
<1>14. id \in ProposalIds
  BY RelayerAssumption
<1>2. voters[id] \in Seq(Relayers)
  BY <1>14 DEF ProposalTypeOK
<1>3. Append(voters[id], sender) \in Seq(Relayers)
  BY <1>2
<1>4. voters' \in [ProposalIds -> Seq(Relayers)]
  BY <1>1, <1>3 DEF ProposalTypeOK
<1>5. voters'[id] = Append(voters[id], sender)
  BY <1>1, <1>14 DEF ProposalTypeOK
<1>6. \A k \in ProposalIds : k # id => voters'[k] = voters[k]
  BY <1>1 DEF ProposalTypeOK
<1>7. Voted(id)' = Voted(id) \cup {sender}
  <2>1. /\ DOMAIN voters'[id] = DOMAIN voters[id] \cup {Len(voters[id]) + 1}
        /\ \A i \in DOMAIN voters[id] : voters'[id][i] = voters[id][i]
        /\ voters'[id][Len(voters[id]) + 1] = sender
    BY <1>2, <1>5
  <2> QED BY <2>1 DEF Voted
<1>8. sender \notin Voted(id)
  BY DEF execute_vote_proposal, ToSet, Voted
<1>9. IsFiniteSet(Voted(id)) /\ Cardinality(Voted(id)) = Len(voters[id])
  BY <1>14 DEF VotesCounted
<1>10. /\ IsFiniteSet(Voted(id) \cup {sender})
       /\ Cardinality(Voted(id) \cup {sender}) = Cardinality(Voted(id)) + 1
  BY <1>8, <1>9, FS_AddElement
<1>11. Len(voters'[id]) = Len(voters[id]) + 1
  BY <1>2, <1>5
<1>12. \A k \in ProposalIds : k # id => Voted(k)' = Voted(k)
  BY <1>6 DEF Voted
<1>13. VotesCounted'
  <2> SUFFICES ASSUME NEW k \in ProposalIds
               PROVE  IsFiniteSet(Voted(k)') /\ Cardinality(Voted(k)') = Len(voters'[k])
    BY DEF VotesCounted
  <2>1. CASE k = id
    BY <2>1, <1>7, <1>9, <1>10, <1>11
  <2>2. CASE k # id
    BY <2>2, <1>6, <1>12 DEF VotesCounted
  <2> QED BY <2>1, <2>2
<1> QED BY <1>4, <1>7, <1>9, <1>10, <1>11, <1>12, <1>13, <1>14

\* A vote counts for what is stored under its id, and stores its content when nothing
\* is.
LEMMA VoteStores ==
    ASSUME ContentStored, NEW sender \in Relayers, NEW p \in Proposals,
           execute_vote_proposal(sender, p)
    PROVE  /\ VotedFor(p) \in Proposals /\ ProposalIdOf[VotedFor(p)] = ProposalIdOf[p]
           /\ \A q \in Proposals :
                  VotedFor(q)' = IF ProposalIdOf[q] = ProposalIdOf[p]
                                 THEN VotedFor(p) ELSE VotedFor(q)
           /\ ContentStored'
<1> DEFINE id == ProposalIdOf[p]
<1>1. id \in ProposalIds
  BY RelayerAssumption
<1>2. content' = [i \in DOMAIN content \cup {id} |->
                     IF i = id THEN VotedFor(p) ELSE content[i]]
  BY DEF execute_vote_proposal, push_voter
<1>3. VotedFor(p) \in Proposals /\ ProposalIdOf[VotedFor(p)] = id
  BY DEF VotedFor, ContentStored
<1>4. /\ DOMAIN content' = DOMAIN content \cup {id} /\ content'[id] = VotedFor(p)
      /\ \A i \in DOMAIN content : i # id => content'[i] = content[i]
  BY <1>2
<1>5. \A q \in Proposals :
          VotedFor(q)' = IF ProposalIdOf[q] = id THEN VotedFor(p) ELSE VotedFor(q)
  BY <1>4 DEF VotedFor
<1>6. ContentStored'
  BY <1>1, <1>3, <1>4 DEF ContentStored
<1> QED BY <1>3, <1>5, <1>6

\* A vote for a deposit that was made, or a faulty relayer's vote for another.
LEMMA VoteStep ==
    ASSUME IInv, NEW sender \in Relayers, NEW p \in Proposals,
           p \in Made \/ sender \in Faulty, execute_vote_proposal(sender, p)
    PROVE  IInv'
<1> DEFINE id == ProposalIdOf[p]
           stored == VotedFor(p)
<1>1. /\ ProposalTypeOK /\ ContentStored /\ VotesCounted /\ FalseVotes
      /\ MintedOnce /\ NoFalseMint
  BY DEF IInv
<1>2. /\ id \in ProposalIds /\ voters' \in [ProposalIds -> Seq(Relayers)]
      /\ \A k \in ProposalIds : k # id => Voted(k)' = Voted(k)
      /\ Voted(id)' = Voted(id) \cup {sender}
      /\ Len(voters'[id]) = Cardinality(Voted(id)')
      /\ VotesCounted'
  BY <1>1, VoteAdds
<1>3. FalseVotes'
  <2> SUFFICES ASSUME NEW k \in ProposalIds \ DepositedIds PROVE Voted(k)' \subseteq Faulty
    BY DEF FalseVotes, DepositedIds
  <2>1. Voted(k) \subseteq Faulty
    BY <1>1 DEF FalseVotes
  <2>2. k = id => sender \in Faulty
    BY DEF DepositedIds
  <2> QED BY <1>2, <2>1, <2>2
<1>4. threshold' = threshold /\ ~executed[id]
  BY DEF execute_vote_proposal, push_voter, info_vars
<1>7. /\ stored \in Proposals /\ ProposalIdOf[stored] = id /\ ContentStored'
      /\ \A q \in Proposals :
             VotedFor(q)' = IF ProposalIdOf[q] = id THEN stored ELSE VotedFor(q)
  BY <1>1, VoteStores
<1>8. \A q \in Proposals : ProposalIdOf[q] \in ProposalIds
                          /\ (ProposalIdOf[q] = id => minted[q] = 0)
  BY <1>1, <1>4, RelayerAssumption DEF MintedOnce, Executed
<1> HIDE DEF id, stored
<1>5. CASE UNCHANGED <<minted, executed>>
  <2>1. \A q \in Proposals : Executed(q)' <=> Executed(q)
    BY <1>4, <1>5, <1>7 DEF Executed
  <2>2. MintedOnce'
    BY <1>1, <1>5, <2>1 DEF MintedOnce
  <2>3. NoFalseMint'
    BY <1>1, <1>5 DEF NoFalseMint, Shadowed
  <2> QED BY <1>1, <1>2, <1>3, <1>4, <1>5, <1>7, <2>2, <2>3 DEF IInv, ProposalTypeOK
<1>6. CASE /\ Len(voters'[id]) >= threshold /\ stored \in Mintable
           /\ minted' = [minted EXCEPT ![stored] = @ + 1]
           /\ executed' = [executed EXCEPT ![id] = TRUE]
  <2>1. stored \in Made \/ Shadowed(stored) # {}
    <3>1. SUFFICES ASSUME stored \notin Made, Shadowed(stored) = {} PROVE FALSE
      OBVIOUS
    <3>2. id \notin DepositedIds
      <4> SUFFICES ASSUME NEW q \in Made, ProposalIdOf[q] = id PROVE FALSE
        BY DEF DepositedIds
      <4>1. q \in Mintable
        BY <1>7, <3>1 DEF Shadowed
      <4>2. q = stored
        BY <1>6, <1>7, <4>1, RecipientAssumption
      <4> QED BY <3>1, <4>2
    <3>3. Voted(id)' \subseteq Faulty
      BY <1>2, <1>3, <3>2 DEF FalseVotes, DepositedIds
    <3>4. /\ Cardinality(Voted(id)') <= Cardinality(Faulty)
          /\ IsFiniteSet(Voted(id)')
      BY <3>3, RelayerAssumption, FS_Subset
    <3>5. Cardinality(Faulty) \in Nat /\ Cardinality(Voted(id)') \in Nat
      BY <3>4, RelayerAssumption, FS_CardinalityType
    <3> QED BY <1>1, <1>2, <1>6, <3>4, <3>5, PolicyAssumption DEF ProposalTypeOK
  <2>2. minted[stored] = 0
    BY <1>7, <1>8
  <2>3. /\ minted' \in [Proposals -> Nat] /\ executed' \in [ProposalIds -> BOOLEAN]
        /\ minted'[stored] = 1 /\ executed'[id]
        /\ \A q \in Proposals : q # stored => minted'[q] = minted[q]
        /\ \A k \in ProposalIds : k # id => executed'[k] = executed[k]
    BY <1>1, <1>2, <1>6, <1>7, <2>2 DEF ProposalTypeOK
  <2>4. MintedOnce'
    <3> SUFFICES ASSUME NEW q \in Proposals
                 PROVE  minted'[q] = IF Executed(q)' THEN 1 ELSE 0
      BY DEF MintedOnce
    <3>1. CASE ProposalIdOf[q] = id
      <4>1. Executed(q)' <=> q = stored
        BY <1>7, <2>3, <3>1 DEF Executed
      <4> QED BY <1>8, <2>3, <3>1, <4>1
    <3>2. CASE ProposalIdOf[q] # id
      <4>1. q # stored /\ (Executed(q)' <=> Executed(q))
        BY <1>7, <1>8, <2>3, <3>2 DEF Executed
      <4> QED BY <1>1, <2>3, <4>1 DEF MintedOnce
    <3> QED BY <3>1, <3>2
  <2>5. NoFalseMint'
    BY <1>1, <2>1, <2>3 DEF NoFalseMint, Shadowed
  <2> QED BY <1>1, <1>2, <1>3, <1>4, <1>7, <2>3, <2>4, <2>5 DEF IInv, ProposalTypeOK
<1> QED BY <1>5, <1>6 DEF execute_vote_proposal, mint, id, stored

\* The invariant is about the proposals, and asks of the threshold only the policy.
LEMMA ProposalsKept ==
    ASSUME IInv, UNCHANGED proposal_vars, threshold' \in Nat, threshold' >= MinThreshold
    PROVE  IInv'
<1>1. UNCHANGED content /\ UNCHANGED voters /\ UNCHANGED executed /\ UNCHANGED minted
  BY DEF proposal_vars
<1>2. ProposalTypeOK'
  BY <1>1 DEF IInv, ProposalTypeOK
<1>3. ContentStored'
  BY <1>1 DEF IInv, ContentStored
<1>4. VotesCounted' /\ FalseVotes'
  BY <1>1 DEF IInv, VotesCounted, FalseVotes, Voted, DepositedIds
<1>5. MintedOnce'
  BY <1>1 DEF IInv, MintedOnce, Executed, VotedFor
<1>6. NoFalseMint'
  BY <1>1 DEF IInv, NoFalseMint, Shadowed
<1> QED BY <1>2, <1>3, <1>4, <1>5, <1>6 DEF IInv

\* The admin's calls leave the proposals alone and keep to the policy.
LEMMA AdminStepKeeps ==
    ASSUME IInv, AdminStep
    PROVE  IInv'
<1>1. UNCHANGED proposal_vars
  BY DEF AdminStep, AdminCall, execute_add_relayer, execute_remove_relayer,
         execute_add_resource_id_to_token, execute_remove_resource_id,
         execute_change_threshold, execute_transfer_admin
<1>2. threshold' \in Nat /\ threshold' >= MinThreshold
  <2>1. CASE \E sender \in Admins : \E n \in MinThreshold..Len(relayers) :
                 execute_change_threshold(sender, n)
    BY <2>1, PolicyAssumption DEF execute_change_threshold
  <2>2. CASE threshold' = threshold
    BY <2>2 DEF IInv, ProposalTypeOK
  <2> QED BY <2>1, <2>2
          DEF AdminStep, execute_add_relayer, execute_remove_relayer, info_vars,
              execute_add_resource_id_to_token, execute_remove_resource_id,
              execute_transfer_admin
<1> QED BY <1>1, <1>2, ProposalsKept

\* The inductive invariant holds in every reachable state.
THEOREM InvariantTheorem == Spec => []IInv
<1>1. Init => IInv
  <2> SUFFICES ASSUME Init PROVE IInv
    OBVIOUS
  <2>1. ProposalTypeOK
    BY PolicyAssumption DEF Init, ProposalTypeOK
  <2>2. \A id \in ProposalIds : Voted(id) = {} /\ Len(voters[id]) = 0
    BY DEF Init, Voted
  <2>3. VotesCounted
    BY <2>2, FS_EmptySet DEF VotesCounted
  <2>4. FalseVotes
    BY <2>2 DEF FalseVotes
  <2>5. MintedOnce /\ NoFalseMint
    BY RelayerAssumption DEF Init, MintedOnce, Executed, NoFalseMint
  <2>6. ContentStored
    BY DEF Init, ContentStored
  <2> QED BY <2>1, <2>3, <2>4, <2>5, <2>6 DEF IInv
<1>2. IInv /\ [Next]_vars => IInv'
  <2> SUFFICES ASSUME IInv, [Next]_vars PROVE IInv'
    OBVIOUS
  <2>1. CASE HonestVote
    BY <2>1, VoteStep, RelayerAssumption DEF HonestVote
  <2>2. CASE FaultyVote
    BY <2>2, VoteStep, RelayerAssumption DEF FaultyVote
  <2>3. CASE AdminStep
    BY <2>3, AdminStepKeeps
  <2>4. CASE UNCHANGED vars
    BY <2>4, ProposalsKept DEF vars, info_vars, IInv, ProposalTypeOK
  <2> QED BY <2>1, <2>2, <2>3, <2>4 DEF Next
<1> QED BY <1>1, <1>2, PTL DEF Spec

\* While fewer relayers are faulty than have to agree, no deposit is invented,
\* whatever relayers are added and removed between the votes and whatever content is
\* stored first under the id of a deposit.
THEOREM NoFalseMintTheorem == Spec => []NoFalseMint
<1>1. IInv => NoFalseMint
  BY DEF IInv
<1> QED BY <1>1, InvariantTheorem, PTL

\* No record is minted twice, nor to another content than the one it stores.
THEOREM MintedOnceTheorem == Spec => []MintedOnce
<1>1. IInv => MintedOnce
  BY DEF IInv
<1> QED BY <1>1, InvariantTheorem, PTL

\* Every step keeps the types and, of the relayers, as many as have to agree.
LEMMA TypeStep ==
    ASSUME TypeOK, RelayersLenMatch, IInv, [Next]_vars
    PROVE  TypeOK' /\ RelayersLenMatch'
<1>1. CASE HonestVote \/ FaultyVote
  <2>1. PICK sender \in Relayers, p \in Proposals : execute_vote_proposal(sender, p)
    BY <1>1, RelayerAssumption DEF HonestVote, FaultyVote
  <2>2. /\ voters' \in [ProposalIds -> Seq(Relayers)]
        /\ ContentStored' /\ VotedFor(p) \in Proposals
    BY <2>1, VoteAdds, VoteStores DEF IInv
  <2>3. minted' \in [Proposals -> Nat] /\ executed' \in [ProposalIds -> BOOLEAN]
    <3>1. CASE UNCHANGED <<minted, executed>>
      BY <3>1 DEF TypeOK
    <3>2. CASE /\ minted' = [minted EXCEPT ![VotedFor(p)] = @ + 1]
               /\ executed' = [executed EXCEPT ![ProposalIdOf[p]] = TRUE]
      <4>1. VotedFor(p) \in Proposals /\ minted \in [Proposals -> Nat]
        BY <2>2 DEF TypeOK
      <4>2. minted' \in [Proposals -> Nat]
        BY <3>2, <4>1
      <4>3. executed' \in [ProposalIds -> BOOLEAN]
        BY <3>2 DEF TypeOK
      <4> QED BY <4>2, <4>3
    <3>3. mint(p) => /\ minted' = [minted EXCEPT ![VotedFor(p)] = @ + 1]
                     /\ executed' = [executed EXCEPT ![ProposalIdOf[p]] = TRUE]
      BY DEF mint
    <3>4. mint(p) \/ UNCHANGED <<minted, executed>>
      BY <2>1 DEF execute_vote_proposal
    <3> QED BY <3>1, <3>2, <3>3, <3>4
  <2>4. UNCHANGED <<admin, threshold, relayers, resource_id_to_token, admin_steps>>
    BY <2>1 DEF execute_vote_proposal, push_voter, info_vars
  <2> QED BY <2>2, <2>3, <2>4 DEF TypeOK, RelayersLenMatch, ContentStored
<1>2. ASSUME AdminStep PROVE TypeOK' /\ RelayersLenMatch'
  <2>1. PICK sender \in Admins :
            \/ \E relayer \in Relayers : execute_add_relayer(sender, relayer)
            \/ \E relayer \in Relayers : execute_remove_relayer(sender, relayer)
            \/ \E resource_id \in ResourceIds, token \in Tokens :
                   execute_add_resource_id_to_token(sender, resource_id, token)
            \/ \E resource_id \in ResourceIds :
                   execute_remove_resource_id(sender, resource_id)
            \/ \E new_threshold \in MinThreshold..Len(relayers) :
                   execute_change_threshold(sender, new_threshold)
            \/ \E new_admin \in Admins : execute_transfer_admin(sender, new_admin)
    BY <1>2 DEF AdminStep
  <2>2. UNCHANGED proposal_vars /\ admin_steps' \in Nat
    <3>1. AdminCall(sender)
      BY <2>1 DEF execute_add_relayer, execute_remove_relayer,
                  execute_add_resource_id_to_token, execute_remove_resource_id,
                  execute_change_threshold, execute_transfer_admin
    <3> QED BY <3>1 DEF AdminCall, TypeOK
  <2>3. Len(relayers) \in Nat
    BY DEF TypeOK
  <2>4. ASSUME NEW relayer \in Relayers, execute_add_relayer(sender, relayer)
        PROVE  TypeOK' /\ RelayersLenMatch'
    <3>1. relayers' \in Seq(Relayers) /\ Len(relayers') = Len(relayers) + 1
      BY <2>4 DEF execute_add_relayer, TypeOK
    <3> QED BY <2>2, <2>3, <2>4, <3>1, PolicyAssumption
            DEF execute_add_relayer, TypeOK, RelayersLenMatch, proposal_vars
  <2>5. ASSUME NEW relayer \in Relayers, execute_remove_relayer(sender, relayer)
        PROVE  TypeOK' /\ RelayersLenMatch'
    <3>1. relayers' \in Seq(Relayers) /\ Len(relayers') >= threshold
      BY <2>5, RetainKeeps DEF execute_remove_relayer, TypeOK
    <3> QED BY <2>2, <2>5, <3>1
            DEF execute_remove_relayer, TypeOK, RelayersLenMatch, proposal_vars
  <2>6. ASSUME NEW resource_id \in ResourceIds, NEW token \in Tokens,
               execute_add_resource_id_to_token(sender, resource_id, token)
        PROVE  TypeOK' /\ RelayersLenMatch'
    <3>1. /\ DOMAIN resource_id_to_token' \subseteq ResourceIds
          /\ resource_id_to_token' \in [DOMAIN resource_id_to_token' -> Tokens]
      BY <2>6 DEF execute_add_resource_id_to_token, TypeOK
    <3> QED BY <2>2, <2>6, <3>1
            DEF execute_add_resource_id_to_token, TypeOK, RelayersLenMatch, proposal_vars,
                info_vars
  <2>7. ASSUME NEW resource_id \in ResourceIds,
               execute_remove_resource_id(sender, resource_id)
        PROVE  TypeOK' /\ RelayersLenMatch'
    <3>1. /\ DOMAIN resource_id_to_token' \subseteq ResourceIds
          /\ resource_id_to_token' \in [DOMAIN resource_id_to_token' -> Tokens]
      BY <2>7 DEF execute_remove_resource_id, TypeOK
    <3> QED BY <2>2, <2>7, <3>1
            DEF execute_remove_resource_id, TypeOK, RelayersLenMatch, proposal_vars, info_vars
  <2>8. ASSUME NEW new_threshold \in MinThreshold..Len(relayers),
               execute_change_threshold(sender, new_threshold)
        PROVE  TypeOK' /\ RelayersLenMatch'
    BY <2>2, <2>3, <2>8, PolicyAssumption
       DEF execute_change_threshold, TypeOK, RelayersLenMatch, proposal_vars
  <2>9. ASSUME NEW new_admin \in Admins, execute_transfer_admin(sender, new_admin)
        PROVE  TypeOK' /\ RelayersLenMatch'
    BY <2>2, <2>9 DEF execute_transfer_admin, TypeOK, RelayersLenMatch, proposal_vars
  <2> QED BY <2>1, <2>4, <2>5, <2>6, <2>7, <2>8, <2>9
<1>3. CASE UNCHANGED vars
  BY <1>3 DEF vars, info_vars, proposal_vars, TypeOK, RelayersLenMatch
<1> QED BY <1>1, <1>2, <1>3 DEF Next

\* The bridge's records keep their types, and there always are as many relayers as
\* have to agree: no admin call leaves deposits that can never be minted for want
\* of relayers.
THEOREM RelayersTheorem == Spec => [](TypeOK /\ RelayersLenMatch)
<1>1. Init => TypeOK /\ RelayersLenMatch
  <2> SUFFICES ASSUME Init PROVE TypeOK /\ RelayersLenMatch
    OBVIOUS
  <2>1. relayers \in Seq(Relayers)
    BY RelayerAssumption DEF Init
  <2>2. threshold \in Nat /\ threshold >= MinThreshold /\ Len(relayers) >= threshold
    BY <2>1, PolicyAssumption DEF Init
  <2>3. /\ DOMAIN resource_id_to_token \subseteq ResourceIds
        /\ resource_id_to_token \in [DOMAIN resource_id_to_token -> Tokens]
    BY DEF Init
  <2>4. voters \in [ProposalIds -> Seq(Relayers)] /\ DOMAIN content = {}
    BY DEF Init
  <2> QED BY <2>1, <2>2, <2>3, <2>4 DEF Init, TypeOK, RelayersLenMatch
<1>2. (TypeOK /\ RelayersLenMatch) /\ IInv /\ [Next]_vars => (TypeOK /\ RelayersLenMatch)'
  BY TypeStep
<1> QED BY <1>1, <1>2, InvariantTheorem, PTL DEF Spec

=============================================================================
