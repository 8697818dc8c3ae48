------------------------------ MODULE LsdToken ------------------------------
(***************************************************************************)
(* The LSD token: a cw20 token with several minters, and with allowances   *)
(* kept twice, by owner and by spender.  Every call is one transaction: a  *)
(* call that returns an error changes nothing and is not an action.  Send  *)
(* and SendFrom also call the receiving contract, in the same transaction; *)
(* what it does with the tokens are calls of its own.                      *)
(*                                                                         *)
(* Name, symbol, decimals, marketing data and logo are left out.           *)
(***************************************************************************)
EXTENDS Integers, Sequences, FiniteSets, Functions, Vec

CONSTANTS
    Accounts,           \* addresses of users and contracts
    Amounts,            \* amounts in a call
    Caps,               \* caps instantiate may be given
    NoCap,              \* cap is None
    Expirations,        \* expiration heights a call may give
    Never,              \* an expiration that never comes, the default
    InitialBalances,    \* initial_balances instantiate may be given
    LegacyAllowances,   \* ALLOWANCES an older version may have left
    MaxSupply,          \* bound on total_supply when there is no cap
    MaxAllowance,       \* bound on one allowance
    MaxMinters,         \* bound on the length of minters
    MaxHeight           \* bound on the block height

ASSUME TokenAssumption ==
    /\ Amounts \subseteq Nat /\ Caps \subseteq Nat /\ Expirations \subseteq Nat
    /\ NoCap \notin Nat /\ Never \notin Nat
    /\ IsFiniteSet(Accounts)       \* an address has a bounded length
    /\ InitialBalances \subseteq [Accounts -> Nat]
    /\ \A old \in LegacyAllowances :
           /\ DOMAIN old \subseteq Accounts \X Accounts
           /\ old \in [DOMAIN old -> [allowance : Nat, expires : Expirations \cup {Never}]]

VARIABLES
    balances, total_supply,
    admin, minters, cap,             \* MinterData
    allowances, allowances_spender,  \* keyed <<owner, spender>> and <<spender, owner>>
    migrated,                        \* the stored version is this one
    height

mint_vars == <<admin, minters, cap>>
allowance_vars == <<allowances, allowances_spender>>
vars == <<balances, total_supply, mint_vars, allowance_vars, migrated,
          height>>

Pairs == Accounts \X Accounts
Allowance == [allowance : Nat, expires : Expirations \cup {Never}]
NewAllowance == [allowance |-> 0, expires |-> Never]
Reverse(key) == <<key[2], key[1]>>

IsExpired(expires) == expires # Never /\ height >= expires
Put(map, key, value) ==
    [k \in DOMAIN map \cup {key} |-> IF k = key THEN value ELSE map[k]]
Remove(map, key) == [k \in DOMAIN map \ {key} |-> map[k]]

-----------------------------------------------------------------------------
\* Seeded defect: both balances are computed from the ones before the call.
MovedAtOnce(from, to, amount) ==
    [a \in Accounts |-> IF a = to THEN balances[a] + amount
                        ELSE IF a = from THEN balances[a] - amount
                        ELSE balances[a]]

\* First the sender's balance is lowered, then the recipient's, which may be the
\* same account, is raised.
Moved(from, to, amount) ==
    [[balances EXCEPT ![from] = @ - amount] EXCEPT ![to] = @ + amount]

execute_transfer(sender, recipient, amount) ==
    /\ balances[sender] >= amount
    /\ balances' = Moved(sender, recipient, amount)
    /\ UNCHANGED <<total_supply, mint_vars, allowance_vars, migrated, height>>

execute_send(sender, contract, amount) == execute_transfer(sender, contract, amount)

execute_burn(sender, amount) ==
    /\ balances[sender] >= amount
    /\ total_supply >= amount
    /\ balances' = [balances EXCEPT ![sender] = @ - amount]
    /\ total_supply' = total_supply - amount
    /\ UNCHANGED <<mint_vars, allowance_vars, migrated, height>>

\* Seeded defect: the cap is compared with the supply before the mint.
UnderCapBefore(supply) == cap # NoCap => total_supply <= cap

UnderCap(supply) == cap # NoCap => supply <= cap

execute_mint(sender, recipient, amount) ==
    /\ \E i \in DOMAIN minters : minters[i] = sender
    /\ UnderCap(total_supply + amount)
    /\ total_supply + amount <= MaxSupply
    /\ total_supply' = total_supply + amount
    /\ balances' = [balances EXCEPT ![recipient] = @ + amount]
    /\ UNCHANGED <<mint_vars, allowance_vars, migrated, height>>

\* A minter added twice is listed twice; removing takes out every occurrence.
execute_add_minter(sender, new_minter) ==
    /\ sender = admin
    /\ Len(minters) < MaxMinters
    /\ minters' = Append(minters, new_minter)
    /\ UNCHANGED <<balances, total_supply, admin, cap, allowance_vars, migrated, height>>

execute_remove_minter(sender, remove_minter) ==
    /\ sender = admin
    /\ minters' = Retain(minters, remove_minter)
    /\ UNCHANGED <<balances, total_supply, admin, cap, allowance_vars, migrated, height>>

execute_transfer_admin(sender, new_admin) ==
    /\ sender = admin
    /\ admin' = new_admin
    /\ UNCHANGED <<balances, total_supply, minters, cap, allowance_vars, migrated, height>>

-----------------------------------------------------------------------------
\* expires is a new expiration or None, which keeps the old one.
execute_increase_allowance(sender, spender, amount, expires, none) ==
    LET key == <<sender, spender>>
        Raised(map, k) ==
            LET old == IF k \in DOMAIN map THEN map[k] ELSE NewAllowance
            IN  [allowance |-> old.allowance + amount,
                 expires |-> IF none THEN old.expires ELSE expires]
    IN  /\ spender # sender
        /\ none \/ ~IsExpired(expires)
        /\ Raised(allowances, key).allowance <= MaxAllowance
        /\ allowances' = Put(allowances, key, Raised(allowances, key))
        /\ allowances_spender' =
               Put(allowances_spender, Reverse(key),
                   Raised(allowances_spender, Reverse(key)))
        /\ UNCHANGED <<balances, total_supply, mint_vars, migrated, height>>

\* An amount of at least the allowance removes it, without a look at expires.
execute_decrease_allowance(sender, spender, amount, expires, none) ==
    LET key == <<sender, spender>>
        old == allowances[key]
        new == [allowance |-> old.allowance - amount,
                expires |-> IF none THEN old.expires ELSE expires]
    IN  /\ spender # sender
        /\ key \in DOMAIN allowances
        /\ \/ /\ amount < old.allowance
              /\ none \/ ~IsExpired(expires)
              /\ allowances' = Put(allowances, key, new)
              /\ allowances_spender' = Put(allowances_spender, Reverse(key), new)
           \/ /\ amount >= old.allowance
              /\ allowances' = Remove(allowances, key)
              /\ allowances_spender' = Remove(allowances_spender, Reverse(key))
        /\ UNCHANGED <<balances, total_supply, mint_vars, migrated, height>>

\* Seeded defect: the copy kept by spender is not lowered.
deduct_allowance_once(owner, spender, amount) ==
    LET key == <<owner, spender>>
    IN  /\ key \in DOMAIN allowances
        /\ ~IsExpired(allowances[key].expires)
        /\ allowances[key].allowance >= amount
        /\ allowances' = [allowances EXCEPT ![key].allowance = @ - amount]
        /\ UNCHANGED allowances_spender

deduct_allowance(owner, spender, amount) ==
    LET key == <<owner, spender>>
        Deductible(map, k) == /\ k \in DOMAIN map
                              /\ ~IsExpired(map[k].expires)
                              /\ map[k].allowance >= amount
    IN  /\ Deductible(allowances, key)
        /\ Deductible(allowances_spender, Reverse(key))
        /\ allowances' = [allowances EXCEPT ![key].allowance = @ - amount]
        /\ allowances_spender' =
               [allowances_spender EXCEPT ![Reverse(key)].allowance = @ - amount]

execute_transfer_from(sender, owner, recipient, amount) ==
    /\ deduct_allowance(owner, sender, amount)
    /\ balances[owner] >= amount
    /\ balances' = Moved(owner, recipient, amount)
    /\ UNCHANGED <<total_supply, mint_vars, migrated, height>>

execute_send_from(sender, owner, contract, amount) ==
    execute_transfer_from(sender, owner, contract, amount)

execute_burn_from(sender, owner, amount) ==
    /\ deduct_allowance(owner, sender, amount)
    /\ balances[owner] >= amount
    /\ total_supply >= amount
    /\ balances' = [balances EXCEPT ![owner] = @ - amount]
    /\ total_supply' = total_supply - amount
    /\ UNCHANGED <<mint_vars, migrated, height>>

\* From a version before 0.14.0: build the reverse map.
migrate ==
    /\ ~migrated
    /\ migrated' = TRUE
    /\ allowances_spender' =
           [k \in DOMAIN allowances_spender \cup {Reverse(key) : key \in DOMAIN allowances} |->
               IF Reverse(k) \in DOMAIN allowances THEN allowances[Reverse(k)]
                                                   ELSE allowances_spender[k]]
    /\ UNCHANGED <<balances, total_supply, mint_vars, allowances, height>>

block_passes ==
    /\ height < MaxHeight
    /\ height' = height + 1
    /\ UNCHANGED <<balances, total_supply, mint_vars, allowance_vars, migrated>>

-----------------------------------------------------------------------------
\* instantiate, or the state an older version of the contract has left.
Init ==
    /\ balances \in InitialBalances
    /\ total_supply = SumFunctionOnSet(balances, Accounts)
    /\ cap \in Caps \cup {NoCap}
    /\ UnderCap(total_supply)
    /\ admin \in Accounts
    /\ \E m \in Accounts : minters = <<m>>
    /\ \/ migrated = TRUE /\ allowances = <<>>
       \/ migrated = FALSE /\ allowances \in LegacyAllowances
    /\ allowances_spender = <<>>
    /\ height = 0

OwnerCall ==
    \E sender, other \in Accounts, amount \in Amounts :
        \/ execute_transfer(sender, other, amount)
        \/ execute_send(sender, other, amount)
        \/ execute_burn(sender, amount)
        \/ \E expires \in Expirations \cup {Never}, none \in BOOLEAN :
               \/ execute_increase_allowance(sender, other, amount, expires, none)
               \/ execute_decrease_allowance(sender, other, amount, expires, none)

MinterCall ==
    \E sender, other \in Accounts :
        \/ \E amount \in Amounts : execute_mint(sender, other, amount)
        \/ execute_add_minter(sender, other)
        \/ execute_remove_minter(sender, other)
        \/ execute_transfer_admin(sender, other)

SpenderCall ==
    \E sender, owner \in Accounts, amount \in Amounts :
        \/ \E recipient \in Accounts :
               \/ execute_transfer_from(sender, owner, recipient, amount)
               \/ execute_send_from(sender, owner, recipient, amount)
        \/ execute_burn_from(sender, owner, amount)

Next == \/ migrated /\ (OwnerCall \/ MinterCall \/ SpenderCall)
        \/ migrate
        \/ block_passes

Spec == Init /\ [][Next]_vars

-----------------------------------------------------------------------------
\* Balances, allowances and minter data keep their types.
TypeOK ==
    /\ balances \in [Accounts -> Nat]
    /\ total_supply \in Nat
    /\ admin \in Accounts
    /\ minters \in Seq(Accounts)
    /\ cap \in Caps \cup {NoCap}
    /\ DOMAIN allowances \subseteq Pairs
    /\ \A k \in DOMAIN allowances : allowances[k] \in Allowance
    /\ DOMAIN allowances_spender \subseteq Pairs
    /\ \A k \in DOMAIN allowances_spender : allowances_spender[k] \in Allowance
    /\ migrated \in BOOLEAN /\ height \in Nat

\* The supply is the sum of the balances, through transfers to oneself, spenders
\* that are also recipients, burns and mints.
SupplyIsBalances == total_supply = SumFunctionOnSet(balances, Accounts)

\* The two copies of the allowances agree, whoever wrote them last; also after the
\* migration of a contract that had only one.
AllowancesMirrored ==
    migrated => /\ DOMAIN allowances_spender = {Reverse(k) : k \in DOMAIN allowances}
                /\ \A k \in DOMAIN allowances :
                       allowances_spender[Reverse(k)] = allowances[k]

\* "cap is enforced": the supply never exceeds the cap, over any number of minters,
\* mints and burns.
SupplyWithinCap == cap # NoCap => total_supply <= cap
=============================================================================
