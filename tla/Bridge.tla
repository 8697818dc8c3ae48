------------------------------- MODULE Bridge -------------------------------
(***************************************************************************)
(* The bridge contract: relayers vote for deposits made on another chain,  *)
(* and the vote that reaches the threshold mints the LSD token.  The admin *)
(* may change relayers, threshold and the resource-to-token table between  *)
(* any two votes.                                                          *)
(*                                                                         *)
(* A proposal is kept under the hash of source chain, nonce, resource,     *)
(* recipient and amount.  Resource and recipient are texts put one after   *)
(* the other, and nothing checks the recipient a vote names, so contents   *)
(* that cut the same text elsewhere share one record: the content of the   *)
(* first vote is kept, and the later votes count for it.  At most one of   *)
(* them names an address (a valid address does not end in another one);    *)
(* the token refuses to mint to the others.                                *)
(*                                                                         *)
(* Relayers are honest, voting only for deposits that were made, or        *)
(* faulty.  A call that returns an error changes nothing and is not an     *)
(* action; that includes a vote whose mint the token refuses.              *)
(***************************************************************************)
EXTENDS Integers, SequencesExt, Vec

CONSTANTS
    Relayers,           \* addresses that may be made relayers
    Faulty,             \* those among them that vote for anything
    Admins,             \* addresses that may be admin
    ResourceIds, Tokens,
    Proposals,          \* contents that somebody may vote for
    Made,               \* those that are deposits on the source chain
    Mintable,           \* those whose recipient is an address
    ResourceOf,         \* the resource id of a content
    ProposalIds,
    ProposalIdOf,       \* get_proposal_id of a content
    RelayerLists,       \* relayers given to instantiate (duplicates are accepted)
    MinThreshold,       \* the admin's policy: the threshold is never set lower
    MaxAdminSteps       \* bound: admin calls

ASSUME RelayerAssumption ==
    /\ Faulty \subseteq Relayers
    /\ IsFiniteSet(Faulty)
    /\ RelayerLists \subseteq Seq(Relayers)
    /\ Made \subseteq Proposals
    /\ ResourceOf \in [Proposals -> ResourceIds]
    /\ ProposalIdOf \in [Proposals -> ProposalIds]

\* Contents with the same id cut the same text in two at different places.
ASSUME RecipientAssumption ==
    \A p, q \in Mintable : ProposalIdOf[p] = ProposalIdOf[q] => p = q

\* Fewer relayers are faulty than have to agree.
ASSUME PolicyAssumption ==
    /\ MinThreshold \in Nat \ {0}
    /\ Cardinality(Faulty) < MinThreshold
    /\ MaxAdminSteps \in Nat

VARIABLES
    admin, threshold, relayers,   \* BRIDGE_INFO; relayers is a Vec
    resource_id_to_token,         \* RESOURCE_ID_TO_TOKEN
    content, voters, executed,    \* PROPOSALS; content of the stored ones
    minted,                       \* mints the token contract was asked for
    admin_steps

info_vars == <<admin, threshold, relayers>>
proposal_vars == <<content, voters, executed, minted>>
vars == <<info_vars, resource_id_to_token, proposal_vars, admin_steps>>

-----------------------------------------------------------------------------
\* What a vote for p counts for.
VotedFor(p) == IF ProposalIdOf[p] \in DOMAIN content THEN content[ProposalIdOf[p]] ELSE p

\* The vote is added to the record, which the first vote makes.
push_voter(sender, p) ==
    LET id == ProposalIdOf[p]
    IN  /\ voters' = [voters EXCEPT ![id] = Append(@, sender)]
        /\ content' = [i \in DOMAIN content \cup {id} |->
               IF i = id THEN VotedFor(p) ELSE content[i]]
        /\ UNCHANGED <<info_vars, resource_id_to_token, admin_steps>>

\* The token is the one registered when the last vote arrives; without one, or when
\* the token refuses the recipient, the vote is refused as a whole.
mint(p) ==
    LET stored == VotedFor(p)
    IN  /\ ResourceOf[stored] \in DOMAIN resource_id_to_token
        /\ stored \in Mintable
        /\ minted' = [minted EXCEPT ![stored] = @ + 1]
        /\ executed' = [executed EXCEPT ![ProposalIdOf[p]] = TRUE]

\* Seeded defect: a relayer may vote again.
execute_vote_proposal_repeatable(sender, p) ==
    /\ sender \in ToSet(relayers)
    /\ ~executed[ProposalIdOf[p]]
    /\ push_voter(sender, p)
    /\ IF Len(voters'[ProposalIdOf[p]]) >= threshold
       THEN mint(p) ELSE UNCHANGED <<minted, executed>>

\* Seeded defect: the executed mark is not checked.
execute_vote_proposal_unchecked(sender, p) ==
    /\ sender \in ToSet(relayers)
    /\ sender \notin ToSet(voters[ProposalIdOf[p]])
    /\ push_voter(sender, p)
    /\ IF Len(voters'[ProposalIdOf[p]]) >= threshold
       THEN mint(p) ELSE UNCHANGED <<minted, executed>>

\* Seeded defect: the mint waits for one vote more than the threshold.
execute_vote_proposal_late(sender, p) ==
    /\ sender \in ToSet(relayers)
    /\ sender \notin ToSet(voters[ProposalIdOf[p]])
    /\ ~executed[ProposalIdOf[p]]
    /\ push_voter(sender, p)
    /\ IF Len(voters'[ProposalIdOf[p]]) > threshold
       THEN mint(p) ELSE UNCHANGED <<minted, executed>>

\* The votes cast so far count whether or not their relayers still are relayers.
execute_vote_proposal(sender, p) ==
    /\ sender \in ToSet(relayers)
    /\ sender \notin ToSet(voters[ProposalIdOf[p]])
    /\ ~executed[ProposalIdOf[p]]
    /\ push_voter(sender, p)
    /\ IF Len(voters'[ProposalIdOf[p]]) >= threshold
       THEN mint(p) ELSE UNCHANGED <<minted, executed>>

AdminCall(sender) ==
    /\ sender = admin
    /\ admin_steps < MaxAdminSteps
    /\ admin_steps' = admin_steps + 1
    /\ UNCHANGED proposal_vars

execute_add_relayer(sender, relayer) ==
    /\ AdminCall(sender)
    /\ relayer \notin ToSet(relayers)
    /\ relayers' = Append(relayers, relayer)
    /\ UNCHANGED <<admin, threshold, resource_id_to_token>>

\* Seeded defect: the length is checked before the relayer is taken out.
execute_remove_relayer_late(sender, relayer) ==
    /\ AdminCall(sender)
    /\ relayer \in ToSet(relayers)
    /\ Len(relayers) >= threshold
    /\ relayers' = Retain(relayers, relayer)
    /\ UNCHANGED <<admin, threshold, resource_id_to_token>>

execute_remove_relayer(sender, relayer) ==
    LET retained == Retain(relayers, relayer)
    IN  /\ AdminCall(sender)
        /\ relayer \in ToSet(relayers)
        /\ Len(retained) >= threshold
        /\ relayers' = retained
        /\ UNCHANGED <<admin, threshold, resource_id_to_token>>

execute_add_resource_id_to_token(sender, resource_id, token) ==
    /\ AdminCall(sender)
    /\ resource_id \notin DOMAIN resource_id_to_token
    /\ resource_id_to_token' =
           [r \in DOMAIN resource_id_to_token \cup {resource_id} |->
               IF r = resource_id THEN token ELSE resource_id_to_token[r]]
    /\ UNCHANGED info_vars

execute_remove_resource_id(sender, resource_id) ==
    /\ AdminCall(sender)
    /\ resource_id \in DOMAIN resource_id_to_token
    /\ resource_id_to_token' =
           [r \in DOMAIN resource_id_to_token \ {resource_id} |->
               resource_id_to_token[r]]
    /\ UNCHANGED info_vars

\* The code accepts any value up to the number of relayers, 0 included.
execute_change_threshold(sender, new_threshold) ==
    /\ AdminCall(sender)
    /\ new_threshold >= MinThreshold
    /\ Len(relayers) >= new_threshold
    /\ threshold' = new_threshold
    /\ UNCHANGED <<admin, relayers, resource_id_to_token>>

execute_transfer_admin(sender, new_admin) ==
    /\ AdminCall(sender)
    /\ admin' = new_admin
    /\ UNCHANGED <<threshold, relayers, resource_id_to_token>>

-----------------------------------------------------------------------------
Init ==
    /\ admin \in Admins
    /\ relayers \in RelayerLists
    /\ threshold \in MinThreshold..Len(relayers)
    /\ resource_id_to_token = [r \in {} |-> {}]
    /\ content = [id \in {} |-> {}]
    /\ voters = [id \in ProposalIds |-> <<>>]
    /\ executed = [id \in ProposalIds |-> FALSE]
    /\ minted = [p \in Proposals |-> 0]
    /\ admin_steps = 0

HonestVote ==
    \E sender \in Relayers, p \in Made : execute_vote_proposal(sender, p)

FaultyVote ==
    \E sender \in Faulty, p \in Proposals \ Made : execute_vote_proposal(sender, p)

AdminStep ==
    \E sender \in Admins :
        \/ \E relayer \in Relayers : execute_add_relayer(sender, relayer)
        \/ \E relayer \in Relayers : execute_remove_relayer(sender, relayer)
        \/ \E resource_id \in ResourceIds, token \in Tokens :
               execute_add_resource_id_to_token(sender, resource_id, token)
        \/ \E resource_id \in ResourceIds :
               execute_remove_resource_id(sender, resource_id)
        \/ \E new_threshold \in MinThreshold..Len(relayers) :
               execute_change_threshold(sender, new_threshold)
        \/ \E new_admin \in Admins : execute_transfer_admin(sender, new_admin)

Next == HonestVote \/ FaultyVote \/ AdminStep

Spec == Init /\ [][Next]_vars

\* Every relayer that is not faulty votes, sooner or later, for every deposit.
Fairness ==
    \A r \in Relayers \ Faulty, p \in Made : WF_vars(execute_vote_proposal(r, p))

FairSpec == Spec /\ Fairness

-----------------------------------------------------------------------------
\* The table, the votes and the marks keep their types, whatever the admin does.
TypeOK ==
    /\ admin \in Admins
    /\ threshold \in Nat
    /\ relayers \in Seq(Relayers)
    /\ DOMAIN resource_id_to_token \subseteq ResourceIds
    /\ resource_id_to_token \in [DOMAIN resource_id_to_token -> Tokens]
    /\ DOMAIN content \subseteq ProposalIds
    /\ \A id \in DOMAIN content : content[id] \in Proposals
    /\ voters \in [ProposalIds -> Seq(Relayers)]
    /\ executed \in [ProposalIds -> BOOLEAN]
    /\ minted \in [Proposals -> Nat]
    /\ admin_steps \in Nat

\* Through every change of relayers and threshold there remain as many relayers as
\* have to agree (RelayersLenNotMatch otherwise).
RelayersLenMatch == threshold >= MinThreshold /\ Len(relayers) >= threshold

Executed(p) == executed[ProposalIdOf[p]] /\ VotedFor(p) = p

\* A record is minted once, and to what it stores, however many relayers vote for its
\* contents and however the threshold moves between the votes.
MintedOnce == \A p \in Proposals : minted[p] = IF Executed(p) THEN 1 ELSE 0

\* The deposits whose id p has, and whose recipient is no address.
Shadowed(p) == {q \in Made \ Mintable : ProposalIdOf[q] = ProposalIdOf[p]}

\* A deposit that was never made is never minted: votes of faulty relayers, also of
\* those removed and replaced meanwhile, never reach the threshold, and a content
\* they had stored under the id of a deposit gets the honest votes but no mint,
\* unless the deposit itself names no address.
NoFalseMint ==
    \A p \in Proposals : minted[p] > 0 => p \in Made \/ Shadowed(p) # {}

\* The relayers that are to vote for p still.
ToVote(p) == {r \in Relayers \ Faulty : /\ r \in ToSet(relayers)
                                       /\ r \notin ToSet(voters[ProposalIdOf[p]])}

CanComplete(p) ==
    /\ ResourceOf[p] \in DOMAIN resource_id_to_token
    /\ p \in Mintable
    /\ ToVote(p) # {}
    /\ Len(voters[ProposalIdOf[p]]) + Cardinality(ToVote(p)) >= threshold

\* Once the admin is done, a deposit whose missing votes are still to come, and
\* suffice, is minted, whatever was changed between its first vote and its last;
\* except when another content is stored under its id, which is for good.
DepositMinted ==
    \A p \in Made :
        (admin_steps = MaxAdminSteps /\ CanComplete(p)) ~>
            Executed(p) \/ VotedFor(p) # p
=============================================================================
