--------------------------- MODULE LsdTokenProofs ---------------------------
(***************************************************************************)
(* Proofs about LsdToken for any accounts, amounts, caps and expirations.  *)
(***************************************************************************)
EXTENDS LsdToken, DataProofs

\* The type invariant without the minters, of which the proofs need nothing.
MapsTypeOK ==
    /\ balances \in [Accounts -> Nat]
    /\ total_supply \in Nat
    /\ cap \in Caps \cup {NoCap}
    /\ DOMAIN allowances \subseteq Pairs
    /\ allowances \in [DOMAIN allowances -> Allowance]
    /\ DOMAIN allowances_spender \subseteq Pairs
    /\ allowances_spender \in [DOMAIN allowances_spender -> Allowance]
    /\ migrated \in BOOLEAN

\* Before the migration there is nothing in the map by spender.
NoneBefore == ~migrated => allowances_spender = <<>>

Mirror(map, reverse) ==
    /\ DOMAIN reverse = {Reverse(k) : k \in DOMAIN map}
    /\ \A k \in DOMAIN map : reverse[Reverse(k)] = map[k]

IInv == MapsTypeOK /\ NoneBefore /\ AllowancesMirrored /\ SupplyIsBalances /\ SupplyWithinCap

-----------------------------------------------------------------------------
\* Reversing a key twice gives it back.
LEMMA ReverseTwice ==
    \A k \in Pairs : Reverse(k) \in Pairs /\ Reverse(Reverse(k)) = k
BY DEF Pairs, Reverse

\* Writing one entry to both maps keeps them each other's mirror.
LEMMA PutMirrors ==
    ASSUME NEW map, NEW reverse, DOMAIN map \subseteq Pairs, Mirror(map, reverse),
           NEW key \in Pairs, NEW value
    PROVE  Mirror(Put(map, key, value), Put(reverse, Reverse(key), value))
<1>1. /\ DOMAIN Put(map, key, value) = DOMAIN map \cup {key}
      /\ DOMAIN Put(reverse, Reverse(key), value) = DOMAIN reverse \cup {Reverse(key)}
  BY DEF Put
<1>2. DOMAIN Put(reverse, Reverse(key), value) =
          {Reverse(k) : k \in DOMAIN Put(map, key, value)}
  BY <1>1 DEF Mirror
<1>3. ASSUME NEW k \in DOMAIN map \cup {key}
      PROVE  Put(reverse, Reverse(key), value)[Reverse(k)] = Put(map, key, value)[k]
  <2>1. k \in Pairs /\ (Reverse(k) = Reverse(key) => k = key)
    BY ReverseTwice
  <2>2. CASE k = key
    BY <2>2 DEF Put
  <2>3. CASE k # key
    BY <2>1, <2>3 DEF Put, Mirror
  <2> QED BY <2>2, <2>3
<1> QED BY <1>1, <1>2, <1>3 DEF Mirror

\* Removing one entry from both maps does, too.
LEMMA RemoveMirrors ==
    ASSUME NEW map, NEW reverse, DOMAIN map \subseteq Pairs, Mirror(map, reverse),
           NEW key \in Pairs
    PROVE  Mirror(Remove(map, key), Remove(reverse, Reverse(key)))
<1>1. /\ DOMAIN Remove(map, key) = DOMAIN map \ {key}
      /\ DOMAIN Remove(reverse, Reverse(key)) = DOMAIN reverse \ {Reverse(key)}
  BY DEF Remove
<1>2. \A k \in DOMAIN map : Reverse(k) = Reverse(key) => k = key
  BY ReverseTwice
<1>3. DOMAIN Remove(reverse, Reverse(key)) = {Reverse(k) : k \in DOMAIN Remove(map, key)}
  BY <1>1, <1>2 DEF Mirror
<1>4. ASSUME NEW k \in DOMAIN map \ {key}
      PROVE  Remove(reverse, Reverse(key))[Reverse(k)] = Remove(map, key)[k]
  BY <1>2, <1>4 DEF Remove, Mirror
<1> QED BY <1>1, <1>3, <1>4 DEF Mirror

\* A map with one entry written or removed keeps its type.
LEMMA MapTypes ==
    ASSUME NEW map, DOMAIN map \subseteq Pairs, map \in [DOMAIN map -> Allowance],
           NEW key \in Pairs, NEW value \in Allowance
    PROVE  /\ DOMAIN Put(map, key, value) \subseteq Pairs
           /\ Put(map, key, value) \in [DOMAIN Put(map, key, value) -> Allowance]
           /\ DOMAIN Remove(map, key) \subseteq Pairs
           /\ Remove(map, key) \in [DOMAIN Remove(map, key) -> Allowance]
           /\ key \in DOMAIN map => [map EXCEPT ![key] = value] = Put(map, key, value)
BY DEF Put, Remove

-----------------------------------------------------------------------------
\* b with a's balance changed by d.
Changed(b, a, d) == [b EXCEPT ![a] = @ + d]

\* What one balance gains the sum of the balances gains.
LEMMA BalanceChange ==
    ASSUME NEW b \in [Accounts -> Int], NEW a \in Accounts, NEW d \in Int,
           NEW c, c = Changed(b, a, d)
    PROVE  /\ c \in [Accounts -> Int]
           /\ SumFunctionOnSet(c, Accounts) = SumFunctionOnSet(b, Accounts) + d
           /\ SumFunctionOnSet(b, Accounts) \in Int
<1>1. /\ a \in Accounts
      /\ \A x \in Accounts : b[x] \in Int /\ c[x] \in Int
      /\ c[a] = b[a] + d
      /\ \A x \in Accounts : x # a => c[x] = b[x]
      /\ c \in [Accounts -> Int]
  BY DEF Changed
<1>2. IsFiniteSet(Accounts)
  BY TokenAssumption
<1>3. SumFunctionOnSet(c, Accounts) = SumFunctionOnSet(b, Accounts) - b[a] + c[a]
  BY ONLY <1>1, <1>2, SumUpdate
<1>4. SumFunctionOnSet(b, Accounts) \in Int
  BY <1>1, <1>2, SumInt
<1>5. SumFunctionOnSet(c, Accounts) = SumFunctionOnSet(b, Accounts) + d
  BY <1>1, <1>3, <1>4
<1> QED BY <1>1, <1>4, <1>5

\* A transfer moves an amount: the sum of the balances stays, also when both
\* accounts are one.
LEMMA MovedKeepsSum ==
    ASSUME MapsTypeOK, NEW from \in Accounts, NEW to \in Accounts, NEW amount \in Amounts,
           balances[from] >= amount
    PROVE  /\ Moved(from, to, amount) \in [Accounts -> Nat]
           /\ SumFunctionOnSet(Moved(from, to, amount), Accounts) =
                  SumFunctionOnSet(balances, Accounts)
<1> DEFINE lowered == [balances EXCEPT ![from] = @ - amount]
<1>1. amount \in Nat /\ -amount \in Int
  BY TokenAssumption
<1>2. balances \in [Accounts -> Int] /\ balances \in [Accounts -> Nat]
  BY DEF MapsTypeOK
<1>3. lowered = Changed(balances, from, -amount)
  BY <1>1, <1>2 DEF Changed
<1>4. /\ lowered \in [Accounts -> Int]
      /\ SumFunctionOnSet(lowered, Accounts) =
             SumFunctionOnSet(balances, Accounts) + (-amount)
      /\ SumFunctionOnSet(balances, Accounts) \in Int
  BY <1>1, <1>2, <1>3, BalanceChange
<1>5. lowered \in [Accounts -> Nat]
  BY <1>1, <1>2
<1> HIDE DEF lowered
<1>6. Moved(from, to, amount) = Changed(lowered, to, amount)
  BY DEF Moved, lowered, Changed
<1>7. SumFunctionOnSet(Moved(from, to, amount), Accounts) =
          SumFunctionOnSet(lowered, Accounts) + amount
  <2>1. to \in Accounts /\ amount \in Int
    BY <1>1
  <2>2. lowered \in [Accounts -> Int]
    BY <1>4
  <2> QED BY ONLY <2>1, <2>2, <1>6, BalanceChange
<1>8. Moved(from, to, amount) \in [Accounts -> Nat]
  BY <1>1, <1>5, <1>6 DEF Changed
<1> QED BY <1>1, <1>4, <1>6, <1>7, <1>8

\* A burn takes from one balance what it takes from the supply.
LEMMA BurnKeepsSupply ==
    ASSUME IInv, NEW from \in Accounts, NEW amount \in Amounts,
           balances[from] >= amount, total_supply >= amount,
           balances' = [balances EXCEPT ![from] = @ - amount],
           total_supply' = total_supply - amount,
           UNCHANGED cap
    PROVE  /\ balances' \in [Accounts -> Nat] /\ total_supply' \in Nat
           /\ SupplyIsBalances' /\ SupplyWithinCap'
<1>1. amount \in Nat /\ -amount \in Int
  BY TokenAssumption
<1>2. balances \in [Accounts -> Int] /\ balances \in [Accounts -> Nat] /\ total_supply \in Nat
  BY DEF IInv, MapsTypeOK
<1>3. balances' = Changed(balances, from, -amount)
  BY <1>1, <1>2 DEF Changed
<1>4. SumFunctionOnSet(balances', Accounts) = SumFunctionOnSet(balances, Accounts) + (-amount)
  <2>1. -amount \in Int /\ from \in Accounts
    BY <1>1
  <2>2. balances \in [Accounts -> Int]
    BY <1>2
  <2> QED BY ONLY <2>1, <2>2, <1>3, BalanceChange
<1>5. balances' \in [Accounts -> Nat] /\ total_supply' \in Nat
  BY <1>1, <1>2
<1>6. SupplyIsBalances'
  BY <1>1, <1>2, <1>4 DEF IInv, SupplyIsBalances
<1>7. SupplyWithinCap'
  <2> SUFFICES ASSUME cap # NoCap PROVE total_supply' <= cap
    BY DEF SupplyWithinCap
  <2>1. cap \in Nat /\ total_supply <= cap
    BY TokenAssumption DEF IInv, MapsTypeOK, SupplyWithinCap
  <2> QED BY <1>1, <1>2, <2>1
<1> QED BY <1>5, <1>6, <1>7

-----------------------------------------------------------------------------
\* The allowances' part of the invariant, and the supply's.
AllowancesOK ==
    /\ DOMAIN allowances \subseteq Pairs
    /\ allowances \in [DOMAIN allowances -> Allowance]
    /\ DOMAIN allowances_spender \subseteq Pairs
    /\ allowances_spender \in [DOMAIN allowances_spender -> Allowance]
    /\ migrated \in BOOLEAN
    /\ NoneBefore
    /\ AllowancesMirrored

SupplyOK ==
    /\ balances \in [Accounts -> Nat] /\ total_supply \in Nat /\ cap \in Caps \cup {NoCap}
    /\ SupplyIsBalances
    /\ SupplyWithinCap

\* The invariant is made of the two parts.
LEMMA Parts ==
    /\ IInv <=> AllowancesOK /\ SupplyOK
    /\ IInv' <=> AllowancesOK' /\ SupplyOK'
BY DEF IInv, MapsTypeOK, AllowancesOK, SupplyOK

\* What the allowances' part needs of a call that leaves the allowances alone.
LEMMA AllowancesSame ==
    ASSUME AllowancesOK, UNCHANGED <<allowance_vars, migrated>>
    PROVE  AllowancesOK'
BY DEF AllowancesOK, allowance_vars, NoneBefore, AllowancesMirrored

\* What the supply's part needs of a call that leaves balances and supply alone.
LEMMA SupplySame ==
    ASSUME SupplyOK, UNCHANGED <<balances, total_supply, cap>>
    PROVE  SupplyOK'
BY DEF SupplyOK, SupplyIsBalances, SupplyWithinCap

\* One entry written to both maps, or removed from both.
LEMMA WrittenToBoth ==
    ASSUME AllowancesOK, migrated, UNCHANGED migrated,
           NEW key \in Pairs, NEW value \in Allowance,
           \/ /\ allowances' = Put(allowances, key, value)
              /\ allowances_spender' = Put(allowances_spender, Reverse(key), value)
           \/ /\ allowances' = Remove(allowances, key)
              /\ allowances_spender' = Remove(allowances_spender, Reverse(key))
    PROVE  AllowancesOK'
<1>1. Reverse(key) \in Pairs
  BY ReverseTwice
<1>2. Mirror(allowances, allowances_spender)
  BY DEF AllowancesOK, AllowancesMirrored, Mirror
<1>3. Mirror(allowances', allowances_spender')
  BY <1>2, PutMirrors, RemoveMirrors DEF AllowancesOK
<1>4. /\ DOMAIN allowances' \subseteq Pairs
      /\ allowances' \in [DOMAIN allowances' -> Allowance]
  BY MapTypes DEF AllowancesOK
<1>5. /\ DOMAIN allowances_spender' \subseteq Pairs
      /\ allowances_spender' \in [DOMAIN allowances_spender' -> Allowance]
  BY <1>1, MapTypes DEF AllowancesOK
<1> QED BY <1>3, <1>4, <1>5 DEF AllowancesOK, NoneBefore, AllowancesMirrored, Mirror

\* The owner raises an allowance: what it was is the same in both maps.
LEMMA IncreaseStep ==
    ASSUME AllowancesOK, migrated, NEW sender \in Accounts, NEW spender \in Accounts,
           NEW amount \in Amounts, NEW expires \in Expirations \cup {Never},
           NEW none \in BOOLEAN,
           execute_increase_allowance(sender, spender, amount, expires, none)
    PROVE  AllowancesOK'
<1> DEFINE key == <<sender, spender>>
           Old(map, k) == IF k \in DOMAIN map THEN map[k] ELSE NewAllowance
           Raised(map, k) == [allowance |-> Old(map, k).allowance + amount,
                              expires |-> IF none THEN Old(map, k).expires ELSE expires]
<1>1. key \in Pairs /\ Reverse(key) \in Pairs /\ Reverse(Reverse(key)) = key
  BY ReverseTwice DEF Pairs
<1>2. /\ allowances' = Put(allowances, key, Raised(allowances, key))
      /\ allowances_spender' = Put(allowances_spender, Reverse(key),
                                   Raised(allowances_spender, Reverse(key)))
      /\ UNCHANGED migrated
  BY DEF execute_increase_allowance
<1>3. Old(allowances_spender, Reverse(key)) = Old(allowances, key)
  <2>1. /\ DOMAIN allowances_spender = {Reverse(k) : k \in DOMAIN allowances}
        /\ \A k \in DOMAIN allowances : allowances_spender[Reverse(k)] = allowances[k]
    BY DEF AllowancesOK, AllowancesMirrored
  <2>2. Reverse(key) \in DOMAIN allowances_spender <=> key \in DOMAIN allowances
    BY <1>1, <2>1, ReverseTwice DEF AllowancesOK
  <2> HIDE DEF key
  <2> QED BY <2>1, <2>2
<1>4. Old(allowances, key) \in Allowance
  <2>1. NewAllowance \in Allowance
    BY DEF NewAllowance, Allowance
  <2> QED BY <2>1 DEF AllowancesOK
<1>5. Raised(allowances, key) \in Allowance
  <2>1. amount \in Nat
    BY TokenAssumption
  <2> HIDE DEF Old
  <2> QED BY <1>4, <2>1 DEF Allowance
<1>6. Raised(allowances_spender, Reverse(key)) = Raised(allowances, key)
  <2> HIDE DEF Old, key
  <2> QED BY <1>3
<1> HIDE DEF Raised, key
<1> QED BY <1>1, <1>2, <1>5, <1>6, WrittenToBoth

\* The owner lowers or removes an allowance; the copy by spender takes what the copy
\* by owner becomes.
LEMMA DecreaseStep ==
    ASSUME AllowancesOK, migrated, NEW sender \in Accounts, NEW spender \in Accounts,
           NEW amount \in Amounts, NEW expires \in Expirations \cup {Never},
           NEW none \in BOOLEAN,
           execute_decrease_allowance(sender, spender, amount, expires, none)
    PROVE  AllowancesOK'
<1> DEFINE key == <<sender, spender>>
           old == allowances[key]
           new == [allowance |-> old.allowance - amount,
                   expires |-> IF none THEN old.expires ELSE expires]
<1>1. key \in Pairs
  BY DEF Pairs
<1>2. key \in DOMAIN allowances /\ UNCHANGED migrated
  BY DEF execute_decrease_allowance
<1>3. old \in Allowance
  BY <1>2 DEF AllowancesOK
<1>4. CASE /\ amount < old.allowance
           /\ allowances' = Put(allowances, key, new)
           /\ allowances_spender' = Put(allowances_spender, Reverse(key), new)
  <2>1. amount \in Nat
    BY TokenAssumption
  <2>2. new \in Allowance
    <3> HIDE DEF old
    <3> QED BY <1>3, <1>4, <2>1 DEF Allowance
  <2> HIDE DEF new, key
  <2> QED BY <1>1, <1>2, <1>4, <2>2, WrittenToBoth
<1>5. CASE /\ allowances' = Remove(allowances, key)
           /\ allowances_spender' = Remove(allowances_spender, Reverse(key))
  <2> HIDE DEF key, old
  <2> QED BY <1>1, <1>2, <1>3, <1>5, WrittenToBoth
<1> QED BY <1>4, <1>5 DEF execute_decrease_allowance

\* A spender's call lowers both copies by the amount.
LEMMA DeductStep ==
    ASSUME AllowancesOK, migrated, UNCHANGED migrated,
           NEW owner \in Accounts, NEW spender \in Accounts, NEW amount \in Amounts,
           deduct_allowance(owner, spender, amount)
    PROVE  AllowancesOK'
<1> DEFINE key == <<owner, spender>>
           old == allowances[key]
           new == [old EXCEPT !.allowance = @ - amount]
<1>1. key \in Pairs /\ Reverse(key) \in Pairs
  BY ReverseTwice DEF Pairs
<1>2. /\ key \in DOMAIN allowances
      /\ old.allowance >= amount
      /\ Reverse(key) \in DOMAIN allowances_spender
      /\ allowances' = [allowances EXCEPT ![key].allowance = @ - amount]
      /\ allowances_spender' =
             [allowances_spender EXCEPT ![Reverse(key)].allowance = @ - amount]
  BY DEF deduct_allowance
<1>3. allowances_spender[Reverse(key)] = old
  BY <1>2 DEF AllowancesOK, AllowancesMirrored
<1>4. old \in Allowance
  BY <1>2 DEF AllowancesOK
<1>5. new \in Allowance
  <2>1. amount \in Nat
    BY TokenAssumption
  <2> HIDE DEF old
  <2> QED BY <1>2, <1>4, <2>1 DEF Allowance
<1>6. /\ allowances' = [allowances EXCEPT ![key] = new]
      /\ allowances_spender' = [allowances_spender EXCEPT ![Reverse(key)] = new]
  BY <1>2, <1>3
<1> HIDE DEF new, key
<1>7. allowances' = Put(allowances, key, new)
  <2>1. DOMAIN allowances \subseteq Pairs /\ allowances \in [DOMAIN allowances -> Allowance]
    BY DEF AllowancesOK
  <2>2. key \in DOMAIN allowances
    BY <1>2
  <2>3. [allowances EXCEPT ![key] = new] = Put(allowances, key, new)
    BY ONLY <1>1, <1>5, <2>1, <2>2, MapTypes
  <2> QED BY ONLY <1>6, <2>3
<1>8. allowances_spender' = Put(allowances_spender, Reverse(key), new)
  <2>1. /\ DOMAIN allowances_spender \subseteq Pairs
        /\ allowances_spender \in [DOMAIN allowances_spender -> Allowance]
    BY DEF AllowancesOK
  <2>2. Reverse(key) \in DOMAIN allowances_spender
    BY <1>2
  <2>3. [allowances_spender EXCEPT ![Reverse(key)] = new]
            = Put(allowances_spender, Reverse(key), new)
    BY ONLY <1>1, <1>5, <2>1, <2>2, MapTypes
  <2> QED BY ONLY <1>6, <2>3
<1> QED BY <1>1, <1>5, <1>7, <1>8, WrittenToBoth

\* The migration builds the missing map.
LEMMA MigrateStep ==
    ASSUME AllowancesOK, migrate
    PROVE  AllowancesOK'
<1> DEFINE old == DOMAIN allowances
<1>1. ~migrated /\ migrated' /\ allowances' = allowances /\ migrated' \in BOOLEAN
  BY DEF migrate
<1>2. DOMAIN allowances_spender = {}
  BY <1>1 DEF AllowancesOK, NoneBefore
<1>3. allowances_spender' =
          [k \in DOMAIN allowances_spender \cup {Reverse(key) : key \in DOMAIN allowances} |->
               IF Reverse(k) \in DOMAIN allowances THEN allowances[Reverse(k)]
                                                   ELSE allowances_spender[k]]
  BY DEF migrate
<1>4. DOMAIN allowances_spender' = {Reverse(k) : k \in old}
  BY <1>2, <1>3
<1>5. \A k \in old : /\ k \in Pairs /\ Reverse(k) \in Pairs /\ Reverse(Reverse(k)) = k
  BY ReverseTwice DEF AllowancesOK
<1>6. \A k \in old : allowances_spender'[Reverse(k)] = allowances[k]
  BY <1>3, <1>4, <1>5
<1>7. \A k \in DOMAIN allowances_spender' : allowances_spender'[k] \in Allowance
  BY <1>4, <1>6 DEF AllowancesOK
<1>8. DOMAIN allowances_spender' \subseteq Pairs
  BY <1>4, <1>5
<1>9. allowances_spender' \in [DOMAIN allowances_spender' -> Allowance]
  <2>1. allowances_spender' = [k \in DOMAIN allowances_spender' |-> allowances_spender'[k]]
    BY <1>3
  <2> QED BY <1>7, <2>1
<1> QED BY <1>1, <1>4, <1>6, <1>8, <1>9
        DEF AllowancesOK, NoneBefore, AllowancesMirrored

\* A transfer, by the owner or by a spender.
LEMMA TransferKeepsSupply ==
    ASSUME SupplyOK, MapsTypeOK, NEW from \in Accounts, NEW to \in Accounts,
           NEW amount \in Amounts, balances[from] >= amount,
           balances' = Moved(from, to, amount), UNCHANGED <<total_supply, cap>>
    PROVE  SupplyOK'
<1>1. /\ balances' \in [Accounts -> Nat]
      /\ SumFunctionOnSet(balances', Accounts) = SumFunctionOnSet(balances, Accounts)
  BY MovedKeepsSum
<1> QED BY <1>1 DEF SupplyOK, SupplyIsBalances, SupplyWithinCap

\* A mint adds to one balance what it adds to the supply, and looks at the cap.
LEMMA MintStep ==
    ASSUME SupplyOK, NEW sender \in Accounts, NEW recipient \in Accounts,
           NEW amount \in Amounts, execute_mint(sender, recipient, amount)
    PROVE  SupplyOK'
<1>1. amount \in Nat /\ amount \in Int
  BY TokenAssumption
<1>2. /\ balances \in [Accounts -> Int] /\ balances \in [Accounts -> Nat]
      /\ total_supply \in Nat
  BY DEF SupplyOK
<1>3. /\ balances' = [balances EXCEPT ![recipient] = @ + amount]
      /\ total_supply' = total_supply + amount
      /\ cap' = cap
      /\ UnderCap(total_supply')
  BY DEF execute_mint, mint_vars
<1>4. SumFunctionOnSet(balances', Accounts) = SumFunctionOnSet(balances, Accounts) + amount
  <2>1. amount \in Int /\ recipient \in Accounts
    BY <1>1
  <2>2. balances \in [Accounts -> Int]
    BY <1>2
  <2>3. balances' = Changed(balances, recipient, amount)
    BY <1>3 DEF Changed
  <2> QED BY ONLY <2>1, <2>2, <2>3, BalanceChange
<1>5. balances' \in [Accounts -> Nat] /\ total_supply' \in Nat
  BY <1>1, <1>2, <1>3
<1> QED BY <1>3, <1>4, <1>5 DEF SupplyOK, SupplyIsBalances, SupplyWithinCap, UnderCap

\* The owner's calls.
LEMMA OwnerCallStep ==
    ASSUME IInv, migrated, OwnerCall
    PROVE  IInv'
<1>1. AllowancesOK /\ SupplyOK /\ MapsTypeOK
  BY Parts DEF IInv
<1>2. PICK sender \in Accounts, other \in Accounts, amount \in Amounts :
          \/ execute_transfer(sender, other, amount)
          \/ execute_send(sender, other, amount)
          \/ execute_burn(sender, amount)
          \/ \E expires \in Expirations \cup {Never}, none \in BOOLEAN :
                 \/ execute_increase_allowance(sender, other, amount, expires, none)
                 \/ execute_decrease_allowance(sender, other, amount, expires, none)
  BY DEF OwnerCall
<1>3. CASE execute_transfer(sender, other, amount) \/ execute_send(sender, other, amount)
  <2>1. execute_transfer(sender, other, amount)
    BY <1>3 DEF execute_send
  <2>2. SupplyOK'
    BY <1>1, <2>1, TransferKeepsSupply DEF execute_transfer, mint_vars
  <2>3. AllowancesOK'
    BY <1>1, <2>1, AllowancesSame DEF execute_transfer
  <2> QED BY <2>2, <2>3, Parts
<1>4. CASE execute_burn(sender, amount)
  <2>1. AllowancesOK'
    BY <1>1, <1>4, AllowancesSame DEF execute_burn
  <2>2. SupplyOK'
    BY <1>1, <1>4, BurnKeepsSupply DEF execute_burn, mint_vars, SupplyOK
  <2> QED BY <2>1, <2>2, Parts
<1>5. CASE \E expires \in Expirations \cup {Never}, none \in BOOLEAN :
               \/ execute_increase_allowance(sender, other, amount, expires, none)
               \/ execute_decrease_allowance(sender, other, amount, expires, none)
  <2>1. AllowancesOK'
    BY <1>1, <1>5, IncreaseStep, DecreaseStep
  <2>2. SupplyOK'
    BY <1>1, <1>5, SupplySame
       DEF execute_increase_allowance, execute_decrease_allowance, mint_vars
  <2> QED BY <2>1, <2>2, Parts
<1> QED BY <1>2, <1>3, <1>4, <1>5

\* The minters' and the admin's calls.
LEMMA MinterCallStep ==
    ASSUME IInv, MinterCall
    PROVE  IInv'
<1>1. AllowancesOK /\ SupplyOK
  BY Parts
<1>2. AllowancesOK'
  <2>1. UNCHANGED <<allowance_vars, migrated>>
    BY DEF MinterCall, execute_mint, execute_add_minter, execute_remove_minter,
           execute_transfer_admin
  <2> QED BY <1>1, <2>1, AllowancesSame
<1>3. SupplyOK'
  <2>1. CASE \E sender, other \in Accounts, amount \in Amounts :
                 execute_mint(sender, other, amount)
    BY <1>1, <2>1, MintStep
  <2>2. CASE UNCHANGED <<balances, total_supply, cap>>
    BY <1>1, <2>2, SupplySame
  <2> QED BY <2>1, <2>2 DEF MinterCall, execute_add_minter, execute_remove_minter,
                            execute_transfer_admin
<1> QED BY <1>2, <1>3, Parts

\* The spenders' calls.
LEMMA SpenderCallStep ==
    ASSUME IInv, migrated, SpenderCall
    PROVE  IInv'
<1>1. AllowancesOK /\ SupplyOK /\ MapsTypeOK
  BY Parts DEF IInv
<1>2. PICK sender \in Accounts, owner \in Accounts, amount \in Amounts :
          \/ \E recipient \in Accounts :
                 \/ execute_transfer_from(sender, owner, recipient, amount)
                 \/ execute_send_from(sender, owner, recipient, amount)
          \/ execute_burn_from(sender, owner, amount)
  BY DEF SpenderCall
<1>3. deduct_allowance(owner, sender, amount) /\ UNCHANGED migrated
  BY <1>2 DEF execute_transfer_from, execute_send_from, execute_burn_from
<1>4. AllowancesOK'
  BY <1>1, <1>3, DeductStep
<1>5. SupplyOK'
  <2>1. CASE \E recipient \in Accounts :
                 execute_transfer_from(sender, owner, recipient, amount)
    BY <1>1, <2>1, TransferKeepsSupply DEF execute_transfer_from, mint_vars
  <2>2. CASE execute_burn_from(sender, owner, amount)
    BY <1>1, <2>2, BurnKeepsSupply DEF execute_burn_from, mint_vars, SupplyOK
  <2> QED BY <1>2, <2>1, <2>2 DEF execute_send_from
<1> QED BY <1>4, <1>5, Parts

\* The inductive invariant holds in every reachable state, from a new contract and
\* from one that an older version has left.
THEOREM InvariantTheorem == Spec => []IInv
<1>1. Init => IInv
  <2> SUFFICES ASSUME Init PROVE AllowancesOK /\ SupplyOK
    BY Parts
  <2>1. SupplyOK
    <3>1. balances \in [Accounts -> Nat]
      BY TokenAssumption DEF Init
    <3>2. SumFunctionOnSet(balances, Accounts) \in Nat
      BY <3>1, SumNat, TokenAssumption
    <3> QED BY <3>1, <3>2 DEF Init, SupplyOK, SupplyIsBalances, SupplyWithinCap, UnderCap
  <2>2. DOMAIN allowances_spender = {} /\ allowances_spender = <<>>
    BY DEF Init
  <2>3. CASE migrated = TRUE /\ allowances = <<>>
    BY <2>1, <2>2, <2>3 DEF AllowancesOK, NoneBefore, AllowancesMirrored
  <2>4. CASE migrated = FALSE /\ allowances \in LegacyAllowances
    <3>1. DOMAIN allowances \subseteq Pairs /\ allowances \in [DOMAIN allowances -> Allowance]
      BY <2>4, TokenAssumption DEF Pairs, Allowance
    <3>2. NoneBefore /\ AllowancesMirrored /\ migrated \in BOOLEAN
      BY <2>2, <2>4 DEF NoneBefore, AllowancesMirrored
    <3>3. /\ DOMAIN allowances_spender \subseteq Pairs
          /\ allowances_spender \in [DOMAIN allowances_spender -> Allowance]
      BY <2>2
    <3> QED BY <2>1, <3>1, <3>2, <3>3 DEF AllowancesOK
  <2> QED BY <2>1, <2>3, <2>4 DEF Init
<1>2. IInv /\ [Next]_vars => IInv'
  <2> SUFFICES ASSUME IInv, [Next]_vars PROVE IInv'
    OBVIOUS
  <2>1. AllowancesOK /\ SupplyOK
    BY Parts
  <2>2. CASE migrated /\ OwnerCall
    BY <2>2, OwnerCallStep
  <2>3. CASE migrated /\ MinterCall
    BY <2>3, MinterCallStep
  <2>4. CASE migrated /\ SpenderCall
    BY <2>4, SpenderCallStep
  <2>5. CASE migrate
    <3>1. SupplyOK'
      BY <2>1, <2>5, SupplySame DEF migrate, mint_vars
    <3> QED BY <2>1, <2>5, <3>1, MigrateStep, Parts
  <2>6. CASE block_passes
    <3>1. UNCHANGED <<balances, total_supply, mint_vars, allowance_vars, migrated>>
      BY <2>6 DEF block_passes
    <3> QED BY <2>1, <3>1, SupplySame, AllowancesSame, Parts DEF mint_vars
  <2>7. CASE UNCHANGED vars
    <3>1. UNCHANGED <<balances, total_supply, mint_vars, allowance_vars, migrated>>
      BY <2>7 DEF vars
    <3> QED BY <2>1, <3>1, SupplySame, AllowancesSame, Parts DEF mint_vars
  <2> QED BY <2>2, <2>3, <2>4, <2>5, <2>6, <2>7 DEF Next
<1> QED BY <1>1, <1>2, PTL DEF Spec

\* The supply is the sum of the balances, however many accounts there are and
\* whoever transfers, mints and burns.
THEOREM SupplyTheorem == Spec => []SupplyIsBalances
<1>1. IInv => SupplyIsBalances
  BY DEF IInv
<1> QED BY <1>1, InvariantTheorem, PTL

\* The maps by owner and by spender agree, after every call of either and after
\* the migration.
THEOREM MirrorTheorem == Spec => []AllowancesMirrored
<1>1. IInv => AllowancesMirrored
  BY DEF IInv
<1> QED BY <1>1, InvariantTheorem, PTL

\* No mint takes the supply over the cap.
THEOREM CapTheorem == Spec => []SupplyWithinCap
<1>1. IInv => SupplyWithinCap
  BY DEF IInv
<1> QED BY <1>1, InvariantTheorem, PTL

=============================================================================
