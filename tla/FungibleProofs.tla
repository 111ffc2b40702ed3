-------------------------- MODULE FungibleProofs ---------------------------
(***************************************************************************)
(* Proofs about money beside nonfungible tokens, for any number of         *)
(* accounts, collections, tokens and owners and any amounts.               *)
(***************************************************************************)
EXTENDS Fungible, NonfungibleProofs

\* The provers of a leaf that names none: the solver, given time for the larger ones, then Zenon.
USE SMTT(15), ZenonT(10)

-----------------------------------------------------------------------------
(* The shapes of a step, and types.                                        *)

MoneyTypes ==
  /\ TotalSupply \in [CollectionIds -> Nat]
  /\ Balance \in [CollectionIds \X Owners -> Nat]
  /\ Spending \in [CollectionIds \X Users \X Users -> Nat]

\* Allowances change in one collection only.
SpendingStep(c) ==
  /\ Spending' \in [CollectionIds \X Users \X Users -> Nat]
  /\ \A p \in CollectionIds \X Users \X Users : p[1] # c => Spending'[p] = Spending[p]

\* A nonnegative budget is left after check_allowed.
LEMMA MoneyAllowedLeft ==
  ASSUME NEW u, NEW from, NEW c, NEW v, NEW b \in Nat, MoneyAllowed(u, from, c, v, b).ok
  PROVE  MoneyAllowed(u, from, c, v, b).left \in Nat
<1>1. Spent(b).left \in Nat /\ ~Failed.ok
  BY Zenon DEF Spent, Failed
<1>2. IndirectlyOwned(u, from, b).ok => IndirectlyOwned(u, from, b).left \in Nat
  BY <1>1, WalkFacts, Zenon DEF IndirectlyOwned
<1> QED BY <1>1, <1>2, Zenon DEF MoneyAllowed

\* What transfer_from and burn_from write to the allowances.
LEMMA SpendingWritten ==
  ASSUME MoneyTypes, NEW u \in Users, NEW from \in Owners, NEW c \in CollectionIds, NEW v \in Nat,
         Spending' = SpendingLeft(u, from, c, v)
  PROVE  SpendingStep(c)
<1>1. Spending \in [CollectionIds \X Users \X Users -> Nat]
  BY Zenon DEF MoneyTypes
<1>2. CASE from \in Users /\ Spending[<<c, from, u>>] >= v
           /\ Spending' = [Spending EXCEPT ![<<c, from, u>>] = @ - v]
  <2>1. <<c, from, u>> \in CollectionIds \X Users \X Users /\ Spending[<<c, from, u>>] - v \in Nat
    BY <1>1, <1>2
  <2> QED BY <1>1, <1>2, <2>1 DEF SpendingStep
<1>3. CASE Spending' = Spending
  BY <1>1, <1>3, Zenon DEF SpendingStep
<1> QED BY <1>2, <1>3, Zenon DEF SpendingLeft, Allowed

LEMMA FtSteps ==
  ASSUME MoneyTypes, FtNext
  PROVE  \/ \E u \in Users, c \in CollectionIds, owners \in OwnerLists, b \in Nat :
              \E data \in [DOMAIN owners -> Nat] : CreateMoney(u, c, owners, data, b)
         \/ \E u \in Users, from, to \in Owners, c \in CollectionIds, v, b \in Nat :
              IsFungible(c) /\ MoveMoney(u, from, to, c, v, b) /\ SpendingStep(c)
         \/ \E owner \in Owners, c \in CollectionIds, v \in Nat :
              IsFungible(c) /\ RemoveMoney(owner, c, v) /\ SpendingStep(c)
         \/ \E c \in CollectionIds :
              IsFungible(c) /\ SpendingStep(c) /\ UNCHANGED <<nftVars, TotalSupply, Balance>>
         \/ \E u \in Users, c \in CollectionIds : DestroyFungible(u, c)
         \/ NftNext /\ UNCHANGED ftVars
<1> DEFINE Moves == \E u \in Users, from, to \in Owners, c \in CollectionIds, v, b \in Nat :
                      IsFungible(c) /\ MoveMoney(u, from, to, c, v, b) /\ SpendingStep(c)
           Removes == \E owner \in Owners, c \in CollectionIds, v \in Nat :
                        IsFungible(c) /\ RemoveMoney(owner, c, v) /\ SpendingStep(c)
           Allows == \E c \in CollectionIds :
                       IsFungible(c) /\ SpendingStep(c) /\ UNCHANGED <<nftVars, TotalSupply, Balance>>
<1>0. Budgets \subseteq Nat /\ Values \subseteq Nat /\ Users \subseteq Owners /\ Spenders \subseteq Users
  BY TokenAssumption, ValueAssumption DEF Owners
<1>1. Spending \in [CollectionIds \X Users \X Users -> Nat]
  BY Zenon DEF MoneyTypes
<1>2. UNCHANGED Spending => \A c \in CollectionIds : SpendingStep(c)
  BY <1>1, Zenon DEF SpendingStep
<1>3. ASSUME CreateMoneyCalls
      PROVE  \E u \in Users, c \in CollectionIds, owners \in OwnerLists, b \in Nat :
               \E data \in [DOMAIN owners -> Nat] : CreateMoney(u, c, owners, data, b)
  <2>1. PICK u \in Users, c \in CollectionIds, owners \in OwnerLists, b \in Budgets :
          \E data \in [DOMAIN owners -> Values] : CreateMoney(u, c, owners, data, b)
    BY <1>3, Zenon DEF CreateMoneyCalls
  <2>2. PICK data \in [DOMAIN owners -> Values] : CreateMoney(u, c, owners, data, b)
    BY <2>1, Zenon
  <2>3. data \in [DOMAIN owners -> Nat]
    BY <1>0, Zenon
  <2> QED BY <1>0, <2>2, <2>3, Zenon
<1>4. ASSUME NEW u \in Users, NEW c \in CollectionIds, NEW v \in Values, BurnMoney(u, c, v) PROVE Removes
  BY <1>0, <1>2, <1>4, Zenon DEF BurnMoney
<1>5. ASSUME NEW u \in Users, NEW c \in CollectionIds, NEW v \in Values, NEW from \in Users,
             NEW spender \in Spenders, ApproveMoneyFrom(u, from, c, spender, v)
      PROVE  Allows
  <2>1. /\ IsFungible(c) /\ UNCHANGED <<nftVars, TotalSupply, Balance>>
        /\ Spending' = [Spending EXCEPT ![<<c, from, spender>>] = v]
    BY <1>5, Zenon DEF ApproveMoneyFrom
  <2>2. <<c, from, spender>> \in CollectionIds \X Users \X Users /\ v \in Nat
    BY <1>0, Zenon
  <2>3. SpendingStep(c)
    BY <1>1, <2>1, <2>2 DEF SpendingStep
  <2> QED BY <2>1, <2>3, Zenon
<1>6. ASSUME NEW u \in Users, NEW c \in CollectionIds, NEW v \in Values, NEW b \in Budgets,
             NEW to \in Owners, TransferMoney(u, to, c, v, b)
      PROVE  Moves
  BY <1>0, <1>2, <1>6, Zenon DEF TransferMoney
<1>7. ASSUME NEW u \in Users, NEW c \in CollectionIds, NEW v \in Values, NEW b \in Budgets,
             NEW from \in Owners, NEW to \in Owners, TransferMoneyFrom(u, from, to, c, v, b)
      PROVE  Moves
  <2>1. /\ IsFungible(c) /\ MoneyAllowed(u, from, c, v, b).ok
        /\ MoveMoney(u, from, to, c, v, MoneyAllowed(u, from, c, v, b).left)
        /\ Spending' = SpendingLeft(u, from, c, v)
    BY <1>7, Zenon DEF TransferMoneyFrom
  <2>2. MoneyAllowed(u, from, c, v, b).left \in Nat /\ v \in Nat
    BY <1>0, <2>1, MoneyAllowedLeft, Zenon
  <2>3. SpendingStep(c)
    BY <2>1, <2>2, SpendingWritten, Zenon
  <2> QED BY <2>1, <2>2, <2>3, Zenon
<1>8. ASSUME NEW u \in Users, NEW c \in CollectionIds, NEW v \in Values, NEW b \in Budgets,
             NEW from \in Owners, BurnMoneyFrom(u, from, c, v, b)
      PROVE  Removes
  <2>1. /\ IsFungible(c) /\ RemoveMoney(from, c, v) /\ Spending' = SpendingLeft(u, from, c, v)
    BY <1>8, Zenon DEF BurnMoneyFrom
  <2>2. v \in Nat
    BY <1>0, Zenon
  <2>3. SpendingStep(c)
    BY <2>1, <2>2, SpendingWritten, Zenon
  <2> QED BY <2>1, <2>2, <2>3, Zenon
<1>9. MoneyCalls => Moves \/ Removes \/ Allows
  <2> HIDE DEF Moves, Removes, Allows
  <2> QED BY <1>4, <1>5, <1>6, <1>7, <1>8, Zenon DEF MoneyCalls
<1> QED BY <1>3, <1>9, Zenon DEF FtNext

\* The lists of owners are without repetition.
LEMMA OwnerListFacts ==
  ASSUME NEW owners \in OwnerLists
  PROVE  owners \in Batches /\ \A i, j \in DOMAIN owners : owners[i] = owners[j] => i = j
BY Zenon DEF OwnerLists

\* What each owner is given by a call that mints.
Gift(owners, data) ==
  [o \in Owners |-> IF \E i \in DOMAIN owners : owners[i] = o
                    THEN data[CHOOSE i \in DOMAIN owners : owners[i] = o] ELSE 0]

LEMMA FiniteOwners == IsFiniteSet(Owners)
<1>1. IsFiniteSet(Users) /\ IsFiniteSet(Tokens) /\ Owners = Users \cup Tokens
  BY UsersAssumption, Kinds, Zenon
<1> QED BY <1>1, FS_Union, Zenon

\* The gifts add up to what is minted.
LEMMA Gifts ==
  ASSUME NEW owners \in OwnerLists, NEW data \in [DOMAIN owners -> Nat]
  PROVE  /\ \A o \in Owners : Gift(owners, data)[o] \in Nat
         /\ \A o \in Owners : Gift(owners, data)[o] # 0 => \E i \in DOMAIN owners : owners[i] = o
         /\ Given(owners, data) = Sum(Gift(owners, data), Owners) /\ Given(owners, data) \in Nat
<1> DEFINE D == DOMAIN owners
           R == {owners[i] : i \in D}
           g == Gift(owners, data)
           f == [i \in D |-> data[i]]
<1>0. /\ IsFiniteSet(D) /\ \A i \in D : owners[i] \in Owners
      /\ \A i, j \in D : owners[i] = owners[j] => i = j
  BY OwnerListFacts, BatchFacts, Zenon
<1>1. \A i \in D : g[owners[i]] = data[i]
  <2>1. ASSUME NEW i \in D PROVE g[owners[i]] = data[i]
    <3> DEFINE j == CHOOSE k \in D : owners[k] = owners[i]
    <3>1. j \in D /\ owners[j] = owners[i]
      BY Zenon
    <3>2. j = i
      BY <1>0, <3>1, Zenon
    <3>3. g[owners[i]] = data[j]
      BY <1>0, Zenon DEF Gift
    <3> QED BY <3>2, <3>3, Zenon
  <2> QED BY <2>1, Zenon
<1>2. \A o \in Owners : o \notin R => g[o] = 0
  BY Zenon DEF Gift
<1>3. \A o \in Owners : g[o] \in Nat
  <2>1. \A i \in D : data[i] \in Nat
    BY Zenon
  <2>2. ASSUME NEW o \in Owners PROVE g[o] \in Nat
    <3>1. CASE o \in R
      <4>1. PICK i \in D : o = owners[i]
        BY <3>1, Zenon
      <4> QED BY <1>1, <2>1, <4>1, Zenon
    <3>2. CASE o \notin R
      BY <1>2, <3>2
    <3> QED BY <3>1, <3>2, Zenon
  <2> QED BY <2>2, Zenon
<1>4. /\ \A i \in D : f[i] \in Nat /\ f[i] = data[i]
      /\ Given(owners, data) = Sum(f, D)
  BY Zenon DEF Given
<1>5. R \in SUBSET Owners
  BY <1>0, Zenon
<1>6. \A o \in Owners : g[o] # 0 => \E i \in D : owners[i] = o
  BY <1>2, Zenon
<1> HIDE DEF g, f, D
<1>7. Sum(f, D) = Sum(g, {owners[i] : i \in D})
  <2>1. \A i \in D : g[owners[i]] = f[i]
    BY <1>1, <1>4, Zenon
  <2> QED BY <1>0, <1>4, <2>1, SumReindex
<1> HIDE DEF R
<1>8. Sum(g, Owners) = Sum(g, R)
  <2>1. \A o \in Owners \ R : g[o] = 0
    BY <1>2, Zenon
  <2> QED BY <1>3, <1>5, <2>1, FiniteOwners, SumSupport, Zenon
<1>9. Sum(f, D) \in Nat
  BY <1>0, <1>4, SumType, Zenon
<1>10. Sum(g, R) = Sum(g, {owners[i] : i \in D})
  BY Zenon DEF R
<1> QED BY <1>3, <1>4, <1>6, <1>7, <1>8, <1>9, <1>10, Zenon DEF g, D

\* What a call that mints money writes.
CreatesMoney(u, c, owners, data) ==
  /\ IsFungible(c)
  /\ TotalSupply' = [TotalSupply EXCEPT ![c] = @ + Given(owners, data)]
  /\ Balance' = [p \in CollectionIds \X Owners |->
       IF p[1] = c THEN Balance[p] + Gift(owners, data)[p[2]] ELSE Balance[p]]
  /\ TokenChildren' = [t \in Tokens |-> IF \E i \in DOMAIN owners : owners[i] = t
       THEN TokenChildren[t] \cup {Money(c)} ELSE TokenChildren[t]]
  /\ NftUntouched /\ UNCHANGED Spending
  /\ \A i \in DOMAIN owners : owners[i] \in Tokens =>
       \E k \in Nat : CheckNesting(u, Money(c), owners[i], k).ok

LEMMA CreateEffect ==
  ASSUME MoneyTypes, NEW u, NEW c \in CollectionIds, NEW owners \in OwnerLists, NEW b \in Nat,
         NEW data \in [DOMAIN owners -> Nat], CreateMoney(u, c, owners, data, b)
  PROVE  CreatesMoney(u, c, owners, data)
<1>1. /\ IsFungible(c) /\ MoneyChecks(u, c, owners, b).ok
      /\ TotalSupply' = [TotalSupply EXCEPT ![c] = @ + Given(owners, data)]
      /\ NftUntouched /\ UNCHANGED Spending
  BY Zenon DEF CreateMoney, SupplyAfter, MoneyTypes
<1>2. TokenChildren' = [t \in Tokens |-> IF \E i \in DOMAIN owners : owners[i] = t
              THEN TokenChildren[t] \cup {Money(c)} ELSE TokenChildren[t]]
  <2> DEFINE R == {owners[i] : i \in DOMAIN owners}
  <2>1. TokenChildren' = [t \in Tokens |->
          IF t \in R THEN TokenChildren[t] \cup {Money(c)} ELSE TokenChildren[t]]
    BY Zenon DEF CreateMoney
  <2>2. \A t : t \in R <=> \E i \in DOMAIN owners : owners[i] = t
    BY Zenon
  <2> HIDE DEF R
  <2> QED BY <2>1, <2>2, Zenon
<1>3. Balance' = [p \in CollectionIds \X Owners |->
              IF p[1] = c THEN Balance[p] + Gift(owners, data)[p[2]] ELSE Balance[p]]
  <2> DEFINE R == {owners[i] : i \in DOMAIN owners}
             given(o) == data[CHOOSE i \in DOMAIN owners : owners[i] = o]
             g == Gift(owners, data)
  <2>1. Balance' = [p \in CollectionIds \X Owners |->
          IF p[1] = c /\ p[2] \in R THEN Balance[p] + given(p[2]) ELSE Balance[p]]
    BY Zenon DEF CreateMoney
  <2>2. \A o \in Owners : g[o] = IF o \in R THEN given(o) ELSE 0
    BY Zenon DEF Gift
  <2> HIDE DEF R, given, g
  <2>3. \A p \in CollectionIds \X Owners : Balance[p] \in Nat /\ p[2] \in Owners
    BY Zenon DEF MoneyTypes
  <2>4. \A p \in CollectionIds \X Owners :
          (IF p[1] = c /\ p[2] \in R THEN Balance[p] + given(p[2]) ELSE Balance[p])
            = IF p[1] = c THEN Balance[p] + g[p[2]] ELSE Balance[p]
    BY <2>2, <2>3
  <2>5. Balance' = [p \in CollectionIds \X Owners |->
              IF p[1] = c THEN Balance[p] + g[p[2]] ELSE Balance[p]]
    BY <2>1, <2>4, Zenon
  <2> QED BY <2>5, Zenon DEF g
<1>4. \A i \in DOMAIN owners : owners[i] \in Tokens =>
        \E k \in Nat : CheckNesting(u, Money(c), owners[i], k).ok
  <2>1. PICK n \in Nat : n = Len(owners) /\ DOMAIN owners = 1..n
    BY OwnerListFacts, BatchFacts, Zenon
  <2>2. PICK item : item = [i \in DOMAIN owners |-> Money(c)]
    BY Zenon
  <2> DEFINE left == CHOOSE f : IsChecks(f, u, item, owners, b, n)
  <2>3. IsChecks(left, u, item, owners, b, n)
    BY ChecksExist, Zenon
  <2>4. MoneyChecks(u, c, owners, b) = left[n]
    <3> DEFINE R(f) == f = [i \in 0..n |-> IF i = 0 THEN Spent(b)
                        ELSE IF ~f[i - 1].ok THEN Failed
                        ELSE NestingIfToken(u, Money(c), owners[i], f[i - 1].left)]
               mc == CHOOSE f : R(f)
    <3>1. MoneyChecks(u, c, owners, b) = mc[n]
      BY <2>1, Zenon DEF MoneyChecks
    <3>2. \A i \in 1..n : item[i] = Money(c)
      BY <2>1, <2>2, Zenon
    <3>3. ASSUME NEW f PROVE IsChecks(f, u, item, owners, b, n) <=> R(f)
      <4>1. \A i \in 0..n : i # 0 => i \in 1..n
        OBVIOUS
      <4> QED BY <3>2, <4>1, Zenon DEF IsChecks
    <3>4. mc = left
      <4> HIDE DEF R
      <4> QED BY <3>3, Zenon
    <3> QED BY <3>1, <3>4, Zenon
  <2> HIDE DEF left
  <2>5. left[n].ok
    BY <1>1, <2>4, Zenon
  <2>6. \A i \in 1..n : owners[i] \in Tokens => \E k \in Nat : CheckNesting(u, item[i], owners[i], k).ok
    BY <2>3, <2>5, ChecksPass, Zenon
  <2> QED BY <2>1, <2>2, <2>6, Zenon
<1> QED BY <1>1, <1>2, <1>3, <1>4, Zenon DEF CreatesMoney

\* What a transfer writes, unless it is of nothing or to the owner itself.
MovesMoney(u, from, to, c, v) ==
  /\ NftUntouched /\ UNCHANGED TotalSupply /\ Balance[<<c, from>>] >= v
  /\ \/ UNCHANGED <<Balance, TokenChildren>>
     \/ /\ from # to
        /\ to \in Tokens => \E k \in Nat : CheckNesting(u, Money(c), to, k).ok
        /\ TokenChildren' = UnnestedWhenEmpty(c, from, v, Nested(TokenChildren, to, Money(c)))
        /\ Balance' = [Balance EXCEPT ![<<c, from>>] = @ - v, ![<<c, to>>] = @ + v]

LEMMA MoveEffect ==
  ASSUME NEW u, NEW from, NEW to, NEW c, NEW v, NEW b \in Nat, MoveMoney(u, from, to, c, v, b)
  PROVE  MovesMoney(u, from, to, c, v)
<1>1. /\ NftUntouched /\ UNCHANGED TotalSupply /\ Balance[<<c, from>>] >= v
      /\ \/ UNCHANGED <<Balance, TokenChildren>>
         \/ /\ from # to
            /\ NestingIfToken(u, Money(c), to, b).ok
            /\ TokenChildren' = UnnestedWhenEmpty(c, from, v, Nested(TokenChildren, to, Money(c)))
            /\ Balance' = [Balance EXCEPT ![<<c, from>>] = @ - v, ![<<c, to>>] = @ + v]
  BY Zenon DEF MoveMoney
<1>2. NestingIfToken(u, Money(c), to, b).ok /\ to \in Tokens
        => \E k \in Nat : CheckNesting(u, Money(c), to, k).ok
  BY Zenon DEF NestingIfToken
<1> QED BY <1>1, <1>2, Zenon DEF MovesMoney

LEMMA RemoveEffect ==
  ASSUME NEW owner, NEW c, NEW v, RemoveMoney(owner, c, v)
  PROVE  /\ NftUntouched /\ TotalSupply[c] >= v /\ Balance[<<c, owner>>] >= v
         /\ TokenChildren' = UnnestedWhenEmpty(c, owner, v, TokenChildren)
         /\ Balance' = [Balance EXCEPT ![<<c, owner>>] = @ - v]
         /\ TotalSupply' = [TotalSupply EXCEPT ![c] = @ - v]
BY Zenon DEF RemoveMoney

\* Lists of children stay typed when money is nested and unnested.
LEMMA ChildrenTyped ==
  ASSUME NEW children \in [Tokens -> SUBSET Items], NEW c \in CollectionIds, NEW o, NEW v
  PROVE  /\ Nested(children, o, Money(c)) \in [Tokens -> SUBSET Items]
         /\ UnnestedWhenEmpty(c, o, v, children) \in [Tokens -> SUBSET Items]
<1>1. Money(c) \in Items
  BY TokenAssumption DEF Money, Items
<1> QED BY <1>1, Zenon DEF Nested, UnnestedWhenEmpty, Unnested

LEMMA MoneyTypesInit == FtInit => NftTypes /\ MoneyTypes /\ ModesStored
<1>1. FtInit => NftInit /\ CollectionInit
  BY Zenon DEF FtInit, NftInit
<1>2. FtInit => MoneyTypes
  BY DEF FtInit, MoneyInit, MoneyTypes
<1> QED BY <1>1, <1>2, NftTypesInit, ModesInit, Zenon

\* The calls for money leave the tokens' types alone.
LEMMA NftUntouchedTypes ==
  ASSUME NftTypes, NftUntouched, TokenChildren' \in [Tokens -> SUBSET Items] PROVE NftTypes'
BY Zenon DEF NftTypes, NftUntouched

LEMMA MoneyTypesNext ==
  ASSUME NftTypes, MoneyTypes, [FtNext]_moneyVars PROVE NftTypes' /\ MoneyTypes'
<1>0. /\ TotalSupply \in [CollectionIds -> Nat] /\ Balance \in [CollectionIds \X Owners -> Nat]
      /\ Spending \in [CollectionIds \X Users \X Users -> Nat]
      /\ TokenChildren \in [Tokens -> SUBSET Items]
  BY Zenon DEF MoneyTypes, NftTypes
<1>1. ASSUME NEW u \in Users, NEW c \in CollectionIds, NEW owners \in OwnerLists, NEW b \in Nat,
             NEW data \in [DOMAIN owners -> Nat], CreateMoney(u, c, owners, data, b)
      PROVE  NftTypes' /\ MoneyTypes'
  <2> DEFINE g == Gift(owners, data)
  <2>1. /\ TotalSupply' = [TotalSupply EXCEPT ![c] = @ + Given(owners, data)]
        /\ Balance' = [p \in CollectionIds \X Owners |->
             IF p[1] = c THEN Balance[p] + g[p[2]] ELSE Balance[p]]
        /\ TokenChildren' = [t \in Tokens |-> IF \E i \in DOMAIN owners : owners[i] = t
              THEN TokenChildren[t] \cup {Money(c)} ELSE TokenChildren[t]]
        /\ NftUntouched /\ UNCHANGED Spending
    <3>1. CreatesMoney(u, c, owners, data)
      BY <1>1, CreateEffect, Zenon
    <3> QED BY <3>1, Zenon DEF CreatesMoney
  <2>2. Given(owners, data) \in Nat /\ \A o \in Owners : g[o] \in Nat
    BY Gifts, Zenon
  <2> HIDE DEF g
  <2>3. Money(c) \in Items
    BY TokenAssumption DEF Money, Items
  <2>4. TokenChildren' \in [Tokens -> SUBSET Items]
    BY <1>0, <2>1, <2>3, Zenon
  <2>5. Balance' \in [CollectionIds \X Owners -> Nat]
    BY <1>0, <2>1, <2>2
  <2>6. TotalSupply' \in [CollectionIds -> Nat]
    BY <1>0, <2>1, <2>2
  <2> QED BY <1>0, <2>1, <2>4, <2>5, <2>6, NftUntouchedTypes, Zenon DEF MoneyTypes
<1>2. ASSUME NEW u \in Users, NEW from \in Owners, NEW to \in Owners, NEW c \in CollectionIds,
             NEW v \in Nat, NEW b \in Nat, MoveMoney(u, from, to, c, v, b), SpendingStep(c)
      PROVE  NftTypes' /\ MoneyTypes'
  <2>1. /\ NftUntouched /\ UNCHANGED TotalSupply /\ Balance[<<c, from>>] >= v
        /\ \/ UNCHANGED <<Balance, TokenChildren>>
           \/ /\ from # to
              /\ TokenChildren' = UnnestedWhenEmpty(c, from, v, Nested(TokenChildren, to, Money(c)))
              /\ Balance' = [Balance EXCEPT ![<<c, from>>] = @ - v, ![<<c, to>>] = @ + v]
    <3>1. MovesMoney(u, from, to, c, v)
      BY <1>2, MoveEffect, Zenon
    <3> QED BY <3>1, Zenon DEF MovesMoney
  <2>2. TokenChildren' \in [Tokens -> SUBSET Items]
    <3>1. PICK children : children = Nested(TokenChildren, to, Money(c))
      BY Zenon
    <3>2. children \in [Tokens -> SUBSET Items]
      BY <1>0, <3>1, ChildrenTyped, Zenon
    <3> QED BY <1>0, <2>1, <3>1, <3>2, ChildrenTyped
  <2>3. Balance' \in [CollectionIds \X Owners -> Nat]
    <3>1. <<c, from>> \in CollectionIds \X Owners /\ <<c, to>> \in CollectionIds \X Owners
      BY Zenon
    <3> QED BY <1>0, <2>1, <3>1, SMTT(60)
  <2> QED BY <1>0, <1>2, <2>1, <2>2, <2>3, NftUntouchedTypes, Zenon DEF MoneyTypes, SpendingStep
<1>3. ASSUME NEW owner \in Owners, NEW c \in CollectionIds, NEW v \in Nat, RemoveMoney(owner, c, v),
             SpendingStep(c)
      PROVE  NftTypes' /\ MoneyTypes'
  <2>1. /\ NftUntouched /\ TotalSupply[c] >= v /\ Balance[<<c, owner>>] >= v
        /\ TokenChildren' = UnnestedWhenEmpty(c, owner, v, TokenChildren)
        /\ Balance' = [Balance EXCEPT ![<<c, owner>>] = @ - v]
        /\ TotalSupply' = [TotalSupply EXCEPT ![c] = @ - v]
    BY <1>3, RemoveEffect
  <2>2. TokenChildren' \in [Tokens -> SUBSET Items]
    BY <1>0, <2>1, ChildrenTyped, Zenon
  <2>3. Balance' \in [CollectionIds \X Owners -> Nat] /\ TotalSupply' \in [CollectionIds -> Nat]
    BY <1>0, <2>1
  <2> QED BY <1>3, <2>1, <2>2, <2>3, NftUntouchedTypes, Zenon DEF MoneyTypes, SpendingStep
<1>4. ASSUME NEW c \in CollectionIds, SpendingStep(c), UNCHANGED <<nftVars, TotalSupply, Balance>>
      PROVE  NftTypes' /\ MoneyTypes'
  BY <1>4, Zenon DEF NftTypes, nftVars, tokenVars, MoneyTypes, SpendingStep
<1>5. ASSUME NEW u \in Users, NEW c \in CollectionIds, DestroyFungible(u, c)
      PROVE  NftTypes' /\ MoneyTypes'
  <2>1. /\ TotalSupply' = [TotalSupply EXCEPT ![c] = 0] /\ UNCHANGED tokenVars
        /\ Balance' = [p \in CollectionIds \X Owners |-> IF p[1] = c THEN 0 ELSE Balance[p]]
        /\ Spending' = [p \in CollectionIds \X Users \X Users |-> IF p[1] = c THEN 0 ELSE Spending[p]]
    BY <1>5, Zenon DEF DestroyFungible, AllowancesCleared
  <2>2. NftTypes'
    BY <2>1, Zenon DEF tokenVars, NftTypes
  <2> QED BY <1>0, <2>1, <2>2, Zenon DEF MoneyTypes
<1>6. ASSUME [NftNext]_nftVars, UNCHANGED ftVars PROVE NftTypes' /\ MoneyTypes'
  BY <1>6, NftTypesNext, Zenon DEF MoneyTypes, ftVars
<1> QED BY <1>1, <1>2, <1>3, <1>4, <1>5, <1>6, FtSteps, Zenon DEF moneyVars

\* To the collections, the token pallets do nothing but destroy.
LEMMA CollectionPart ==
  /\ [NftNext]_nftVars => [CollectionNext]_collectionVars
  /\ [FtNext]_moneyVars => [CollectionNext]_collectionVars
<1>1. ASSUME [NftNext]_nftVars PROVE [CollectionNext]_collectionVars
  <2>1. CASE \E u \in Users, c \in CollectionIds : DestroyNft(u, c)
    BY <2>1, Zenon DEF DestroyNft, CollectionNext
  <2>2. CASE Configure
    BY <2>2, Zenon DEF CollectionNext
  <2>3. ASSUME NEW u, NEW c, NEW owners, NEW b, CreateMultipleItems(u, c, owners, b)
        PROVE  UNCHANGED collectionVars
    BY <2>3, Zenon DEF CreateMultipleItems
  <2>4. ASSUME NEW u, NEW from, NEW to, NEW t, NEW b, TransferInternal(u, from, to, t, b)
        PROVE  UNCHANGED collectionVars
    BY <2>4, Zenon DEF TransferInternal
  <2>5. ASSUME NEW owner, NEW t, BurnAsOwner(owner, t) PROVE UNCHANGED collectionVars
    BY <2>5, Zenon DEF BurnAsOwner
  <2>6. Approves \/ UNCHANGED nftVars => UNCHANGED collectionVars
    BY Zenon DEF Approves, nftVars
  <2> QED BY <1>1, <2>1, <2>2, <2>3, <2>4, <2>5, <2>6, NftSteps, Zenon
<1>2. ASSUME [FtNext]_moneyVars PROVE [CollectionNext]_collectionVars
  <2>1. ASSUME MoneyCalls \/ CreateMoneyCalls PROVE UNCHANGED collectionVars
    <3>1. NftUntouched => UNCHANGED collectionVars
      BY Zenon DEF NftUntouched
    <3>2. ASSUME CreateMoneyCalls PROVE UNCHANGED collectionVars
      BY <3>1, <3>2, Zenon DEF CreateMoneyCalls, CreateMoney
    <3>3. ASSUME NEW u, NEW from, NEW to, NEW c, NEW v, NEW b,
                 \/ TransferMoney(u, to, c, v, b) \/ TransferMoneyFrom(u, from, to, c, v, b)
          PROVE  UNCHANGED collectionVars
      BY <3>1, <3>3, Zenon DEF TransferMoney, TransferMoneyFrom, MoveMoney
    <3>4. ASSUME NEW u, NEW from, NEW c, NEW v, NEW b, BurnMoney(u, c, v) \/ BurnMoneyFrom(u, from, c, v, b)
          PROVE  UNCHANGED collectionVars
      BY <3>1, <3>4, Zenon DEF BurnMoney, BurnMoneyFrom, RemoveMoney
    <3>5. ASSUME NEW u, NEW from, NEW c, NEW spender, NEW v, ApproveMoneyFrom(u, from, c, spender, v)
          PROVE  UNCHANGED collectionVars
      BY <3>5, Zenon DEF ApproveMoneyFrom, nftVars
    <3>6. ASSUME MoneyCalls PROVE UNCHANGED collectionVars
      BY <3>3, <3>4, <3>5, <3>6, Zenon DEF MoneyCalls
    <3> QED BY <2>1, <3>2, <3>6, Zenon
  <2>2. CASE \E u \in Users, c \in CollectionIds : DestroyFungible(u, c)
    BY <2>2, Zenon DEF DestroyFungible, CollectionNext
  <2>3. CASE UNCHANGED moneyVars
    BY <2>3, Zenon DEF moneyVars, nftVars
  <2> QED BY <1>1, <1>2, <2>1, <2>2, <2>3, Zenon DEF FtNext
<1> QED BY <1>1, <1>2, Zenon

-----------------------------------------------------------------------------
(* The supply.                                                             *)

\* The balances of a collection as one family of naturals.
LEMMA BalanceFamily ==
  ASSUME MoneyTypes, NEW c \in CollectionIds
  PROVE  \A o \in Owners : BalancesOf(c)[o] = Balance[<<c, o>>] /\ BalancesOf(c)[o] \in Nat
BY Zenon DEF MoneyTypes, BalancesOf

\* Taking an amount from one owner, or moving it from one to another.
LEMMA SumTaken ==
  ASSUME NEW S, IsFiniteSet(S), NEW x \in S, NEW v \in Nat,
         NEW f, \A y \in S : f[y] \in Nat, NEW h, \A y \in S : h[y] \in Nat,
         h[x] = f[x] - v, \A y \in S \ {x} : h[y] = f[y]
  PROVE  Sum(h, S) = Sum(f, S) - v
<1>1. Sum(h, S) = Sum(f, S) - f[x] + h[x]
  BY SumUpdate
<1>2. Sum(f, S) \in Nat
  BY SumType, Zenon
<1> QED BY <1>1, <1>2

LEMMA SumMoved ==
  ASSUME NEW S, IsFiniteSet(S), NEW x \in S, NEW y \in S, x # y, NEW v \in Nat,
         NEW f, \A z \in S : f[z] \in Nat, NEW h, \A z \in S : h[z] \in Nat,
         h[x] = f[x] - v, h[y] = f[y] + v, \A z \in S \ {x, y} : h[z] = f[z]
  PROVE  Sum(h, S) = Sum(f, S)
<1>1. PICK m : m = [z \in S |-> IF z = x THEN h[x] ELSE f[z]]
  BY Zenon
<1>2. /\ \A z \in S : m[z] \in Nat
      /\ m[x] = f[x] - v /\ \A z \in S \ {x} : m[z] = f[z]
  BY <1>1, Zenon
<1>3. \A z \in S \ {y} : h[z] = m[z]
  BY <1>1, Zenon
<1>4. Sum(m, S) = Sum(f, S) - v
  BY <1>2, SumTaken
<1>5. Sum(h, S) = Sum(m, S) - m[y] + h[y]
  BY <1>2, <1>3, SumUpdate
<1>6. m[y] = f[y] /\ Sum(f, S) \in Nat
  BY <1>2, SumType, Zenon
<1> QED BY <1>4, <1>5, <1>6

LEMMA SupplyNext ==
  ASSUME MoneyTypes, MoneyTypes', SupplyIsSum, [FtNext]_moneyVars PROVE SupplyIsSum'
<1> SUFFICES ASSUME NEW d \in CollectionIds PROVE TotalSupply'[d] = Sum(BalancesOf(d)', Owners)
  BY Zenon DEF SupplyIsSum
<1>0. /\ TotalSupply \in [CollectionIds -> Nat] /\ Balance \in [CollectionIds \X Owners -> Nat]
      /\ TotalSupply[d] = Sum(BalancesOf(d), Owners)
  BY Zenon DEF MoneyTypes, SupplyIsSum
<1>1. PICK f, h : f = BalancesOf(d) /\ h = BalancesOf(d)'
  BY Zenon
<1>2. /\ \A o \in Owners : f[o] = Balance[<<d, o>>] /\ f[o] \in Nat
      /\ \A o \in Owners : h[o] = Balance'[<<d, o>>] /\ h[o] \in Nat
  <2>1. h = [o \in Owners |-> Balance'[<<d, o>>]]
    BY <1>1, Zenon DEF BalancesOf
  <2> QED BY <1>1, <2>1, BalanceFamily, Zenon DEF MoneyTypes
<1>3. IsFiniteSet(Owners)
  BY FiniteOwners, Zenon
<1>4. SUFFICES TotalSupply'[d] = Sum(h, Owners)
  BY <1>1, Zenon
<1>5. ASSUME TotalSupply'[d] = TotalSupply[d], \A o \in Owners : Balance'[<<d, o>>] = Balance[<<d, o>>]
      PROVE  TotalSupply'[d] = Sum(h, Owners)
  <2>1. \A o \in Owners : f[o] = h[o]
    BY <1>2, <1>5, Zenon
  <2>2. Sum(f, Owners) = Sum(h, Owners)
    BY <2>1, SumCongruence, Zenon
  <2> QED BY <1>0, <1>1, <1>5, <2>2, Zenon
<1>6. ASSUME NEW u \in Users, NEW c \in CollectionIds, NEW owners \in OwnerLists, NEW b \in Nat,
             NEW data \in [DOMAIN owners -> Nat], CreateMoney(u, c, owners, data, b)
      PROVE  TotalSupply'[d] = Sum(h, Owners)
  <2>1. PICK g : g = Gift(owners, data)
    BY Zenon
  <2>2. /\ TotalSupply' = [TotalSupply EXCEPT ![c] = @ + Given(owners, data)]
        /\ Balance' = [p \in CollectionIds \X Owners |->
             IF p[1] = c THEN Balance[p] + g[p[2]] ELSE Balance[p]]
    <3>1. CreatesMoney(u, c, owners, data)
      BY <1>6, CreateEffect, Zenon
    <3> QED BY <2>1, <3>1, Zenon DEF CreatesMoney
  <2>3. /\ \A o \in Owners : g[o] \in Nat
        /\ Given(owners, data) = Sum(g, Owners) /\ Given(owners, data) \in Nat
    BY <2>1, Gifts, Zenon
  <2>4. CASE d = c
    <3>1. \A o \in Owners : h[o] = f[o] + g[o]
      BY <1>2, <2>2, <2>4, Zenon
    <3>2. Sum(h, Owners) = Sum(f, Owners) + Sum(g, Owners)
      BY <1>2, <1>3, <2>3, <3>1, SumAdd, Zenon
    <3> QED BY <1>0, <1>1, <2>2, <2>3, <2>4, <3>2, Zenon
  <2>5. CASE d # c
    <3>1. TotalSupply'[d] = TotalSupply[d] /\ \A o \in Owners : Balance'[<<d, o>>] = Balance[<<d, o>>]
      BY <1>0, <2>2, <2>5, Zenon
    <3> QED BY <1>5, <3>1, Zenon
  <2> QED BY <2>4, <2>5, Zenon
<1>7. ASSUME NEW u \in Users, NEW from \in Owners, NEW to \in Owners, NEW c \in CollectionIds,
             NEW v \in Nat, NEW b \in Nat, MoveMoney(u, from, to, c, v, b)
      PROVE  TotalSupply'[d] = Sum(h, Owners)
  <2>1. /\ UNCHANGED TotalSupply /\ Balance[<<c, from>>] >= v
        /\ \/ UNCHANGED Balance
           \/ /\ from # to
              /\ Balance' = [Balance EXCEPT ![<<c, from>>] = @ - v, ![<<c, to>>] = @ + v]
    <3>1. MovesMoney(u, from, to, c, v)
      BY <1>7, MoveEffect, Zenon
    <3> QED BY <3>1, Zenon DEF MovesMoney
  <2>2. CASE UNCHANGED Balance
    BY <1>5, <2>1, <2>2, Zenon
  <2>3. CASE from # to /\ Balance' = [Balance EXCEPT ![<<c, from>>] = @ - v, ![<<c, to>>] = @ + v]
    <3>1. CASE d # c
      <4>1. \A o \in Owners : Balance'[<<d, o>>] = Balance[<<d, o>>]
        BY <1>0, <2>3, <3>1, Zenon
      <4> QED BY <1>5, <2>1, <4>1, Zenon
    <3>2. CASE d = c
      <4>1. /\ h[from] = f[from] - v /\ f[from] >= v /\ h[to] = f[to] + v
            /\ \A o \in Owners \ {from, to} : h[o] = f[o]
        BY <1>0, <1>2, <2>1, <2>3, <3>2, Zenon
      <4>2. (\A o \in Owners : f[o] \in Nat) /\ (\A o \in Owners : h[o] \in Nat)
        BY <1>2, Zenon
      <4>3. Sum(h, Owners) = Sum(f, Owners)
        BY <1>3, <2>3, <4>1, <4>2, SumMoved, SMTT(60)
      <4> QED BY <1>0, <1>1, <2>1, <4>3, Zenon
    <3> QED BY <3>1, <3>2, Zenon
  <2> QED BY <2>1, <2>2, <2>3, Zenon
<1>8. ASSUME NEW owner \in Owners, NEW c \in CollectionIds, NEW v \in Nat, RemoveMoney(owner, c, v)
      PROVE  TotalSupply'[d] = Sum(h, Owners)
  <2>1. /\ TotalSupply[c] >= v /\ Balance[<<c, owner>>] >= v
        /\ Balance' = [Balance EXCEPT ![<<c, owner>>] = @ - v]
        /\ TotalSupply' = [TotalSupply EXCEPT ![c] = @ - v]
    BY <1>8, RemoveEffect
  <2>2. CASE d # c
    <3>1. TotalSupply'[d] = TotalSupply[d] /\ \A o \in Owners : Balance'[<<d, o>>] = Balance[<<d, o>>]
      BY <1>0, <2>1, <2>2, Zenon
    <3> QED BY <1>5, <3>1, Zenon
  <2>3. CASE d = c
    <3>1. h[owner] = f[owner] - v /\ \A o \in Owners \ {owner} : h[o] = f[o]
      BY <1>0, <1>2, <2>1, <2>3, Zenon
    <3>2. (\A o \in Owners : f[o] \in Nat) /\ (\A o \in Owners : h[o] \in Nat)
      BY <1>2, Zenon
    <3>3. Sum(h, Owners) = Sum(f, Owners) - v
      BY <1>3, <3>1, <3>2, SumTaken, ZenonT(60)
    <3>4. TotalSupply'[d] = TotalSupply[d] - v
      BY <1>0, <2>1, <2>3, Zenon
    <3> QED BY <1>0, <1>1, <3>3, <3>4, Zenon
  <2> QED BY <2>2, <2>3, Zenon
<1>9. ASSUME NEW u \in Users, NEW c \in CollectionIds, DestroyFungible(u, c)
      PROVE  TotalSupply'[d] = Sum(h, Owners)
  <2>1. /\ TotalSupply' = [TotalSupply EXCEPT ![c] = 0]
        /\ Balance' = [p \in CollectionIds \X Owners |-> IF p[1] = c THEN 0 ELSE Balance[p]]
    BY <1>9, Zenon DEF DestroyFungible
  <2>2. CASE d # c
    <3>1. TotalSupply'[d] = TotalSupply[d] /\ \A o \in Owners : Balance'[<<d, o>>] = Balance[<<d, o>>]
      BY <1>0, <2>1, <2>2, Zenon
    <3> QED BY <1>5, <3>1, Zenon
  <2>3. CASE d = c
    <3>1. \A o \in Owners : h[o] = 0
      BY <1>2, <2>1, <2>3, Zenon
    <3>2. Sum(h, Owners) = 0
      BY <3>1, SumZero, Zenon
    <3> QED BY <1>0, <2>1, <2>3, <3>2, Zenon
  <2> QED BY <2>2, <2>3, Zenon
<1>10. CASE UNCHANGED <<TotalSupply, Balance>>
  BY <1>5, <1>10, Zenon
<1>11. UNCHANGED ftVars \/ UNCHANGED moneyVars => UNCHANGED <<TotalSupply, Balance>>
  BY Zenon DEF ftVars, moneyVars
<1> QED BY <1>6, <1>7, <1>8, <1>9, <1>10, <1>11, FtSteps, Zenon

\* The money of a collection is always what its owners have.
THEOREM SupplyCorrect == FtSpec => []SupplyIsSum
<1>1. FtInit => SupplyIsSum
  <2> SUFFICES ASSUME FtInit, NEW c \in CollectionIds PROVE TotalSupply[c] = Sum(BalancesOf(c), Owners)
    BY Zenon DEF SupplyIsSum
  <2>1. PICK f : f = BalancesOf(c)
    BY Zenon
  <2>2. TotalSupply[c] = 0 /\ \A o \in Owners : f[o] = 0
    BY <2>1, Zenon DEF FtInit, MoneyInit, BalancesOf
  <2> QED BY <2>1, <2>2, SumZero, Zenon
<1>2. NftTypes /\ MoneyTypes /\ [FtNext]_moneyVars => NftTypes' /\ MoneyTypes'
  BY MoneyTypesNext, Zenon
<1>3. MoneyTypes /\ MoneyTypes' /\ SupplyIsSum /\ [FtNext]_moneyVars => SupplyIsSum'
  BY SupplyNext, Zenon
<1> QED BY <1>1, <1>2, <1>3, MoneyTypesInit, PTL DEF FtSpec

-----------------------------------------------------------------------------
(* Rows of a pallet belong to collections of its mode.                     *)

\* What has passed the nesting check is a token of an existing nonfungible collection.
LEMMA NestedUnder ==
  ASSUME NftTypes, NEW u, NEW item, NEW under \in Tokens, NEW k \in Nat,
         CheckNesting(u, item, under, k).ok
  PROVE  IsNft(under[1]) /\ TokenData[under] # NotFound
<1>1. IsNft(under[1])
  BY NestingFacts, Zenon
<1>2. PICK j \in Nat : GetCheckedTopmostOwner(TokenData, under, item, j).ok
  BY NestingFacts, Zenon
<1>3. DOMAIN TokenData = Tokens /\ NotFound \notin Tokens
  BY Kinds, Zenon DEF NftTypes
<1>4. ASSUME TokenData[under] = NotFound PROVE FALSE
  <2>1. PICK S : S = {under}
    BY Zenon
  <2>2. S \in SUBSET DOMAIN TokenData /\ under \in S
        /\ \A s \in S : s = item \/ TokenData[s] = NotFound \/ TokenData[s] \in S
    BY <1>3, <1>4, <2>1, Zenon
  <2>3. NotFound \notin DOMAIN TokenData
    BY <1>3, Zenon
  <2> QED BY <1>2, <2>2, <2>3, WalkLeaves
<1> QED BY <1>1, <1>4, Zenon

\* A collection keeps its mode until it is destroyed.
LEMMA ModeSteps ==
  ASSUME ModesStored, NEW d \in CollectionIds
  PROVE  /\ UNCHANGED collectionVars => (IsNft(d)' <=> IsNft(d)) /\ (IsFungible(d)' <=> IsFungible(d))
         /\ Configure => (IsNft(d) => IsNft(d)') /\ (IsFungible(d) => IsFungible(d)')
         /\ \A u \in Users, c \in CollectionIds : CommonDestroy(u, c) /\ d # c =>
              (IsNft(d)' <=> IsNft(d)) /\ (IsFungible(d)' <=> IsFungible(d))
<1>1. CollectionById'[d] = CollectionById[d] =>
        (IsNft(d)' <=> IsNft(d)) /\ (IsFungible(d)' <=> IsFungible(d))
  BY Zenon DEF IsNft, IsFungible, Exists
<1>2. UNCHANGED collectionVars => CollectionById'[d] = CollectionById[d]
  BY Zenon DEF collectionVars
<1>3. \A u \in Users, c \in CollectionIds : CommonDestroy(u, c) /\ d # c =>
        CollectionById'[d] = CollectionById[d]
  BY DestroyModes, Zenon
<1>4. Configure /\ Exists(d) => Exists(d)' /\ CollectionById'[d].mode = CollectionById[d].mode
  BY ConfigureModes, Zenon DEF ModesUnchanged
<1>5. Configure => (IsNft(d) => IsNft(d)') /\ (IsFungible(d) => IsFungible(d)')
  BY <1>4, Zenon DEF IsNft, IsFungible
<1> QED BY <1>1, <1>2, <1>3, <1>5, Zenon

\* No collection is of both modes, and destroying one ends it.
LEMMA OneMode ==
  ASSUME NEW c PROVE ~(IsNft(c) /\ IsFungible(c))
BY Zenon DEF IsNft, IsFungible

NoMoney(c) ==
  /\ TotalSupply[c] = 0 /\ \A o \in Owners : Balance[<<c, o>>] = 0
  /\ \A u, v \in Users : Spending[<<c, u, v>>] = 0
MoneyHasCollection == \A c \in CollectionIds : ~IsFungible(c) => NoMoney(c)

\* Money and allowances are only in fungible collections.
LEMMA MoneyHasCollectionNext ==
  ASSUME ModesStored, MoneyTypes, MoneyHasCollection, [FtNext]_moneyVars PROVE MoneyHasCollection'
<1> SUFFICES ASSUME NEW d \in CollectionIds, ~IsFungible(d)' PROVE NoMoney(d)'
  BY Zenon DEF MoneyHasCollection
<1>0. /\ TotalSupply \in [CollectionIds -> Nat] /\ Balance \in [CollectionIds \X Owners -> Nat]
      /\ Spending \in [CollectionIds \X Users \X Users -> Nat]
  BY Zenon DEF MoneyTypes
<1>1. ASSUME TotalSupply'[d] = TotalSupply[d], \A o \in Owners : Balance'[<<d, o>>] = Balance[<<d, o>>],
             \A u, v \in Users : Spending'[<<d, u, v>>] = Spending[<<d, u, v>>], ~IsFungible(d)
      PROVE  NoMoney(d)'
  BY <1>1 DEF MoneyHasCollection, NoMoney
<1>2. ASSUME NftUntouched PROVE ~IsFungible(d)
  BY <1>2, ModeSteps, Zenon DEF NftUntouched
<1>3. ASSUME NEW c, SpendingStep(c), c # d
      PROVE  \A u, v \in Users : Spending'[<<d, u, v>>] = Spending[<<d, u, v>>]
  BY <1>3, Zenon DEF SpendingStep
<1>4. ASSUME NEW u \in Users, NEW c \in CollectionIds, NEW owners \in OwnerLists, NEW b \in Nat,
             NEW data \in [DOMAIN owners -> Nat], CreateMoney(u, c, owners, data, b)
      PROVE  NoMoney(d)'
  <2>1. PICK g : g = Gift(owners, data)
    BY Zenon
  <2>2. /\ IsFungible(c) /\ NftUntouched /\ UNCHANGED Spending
        /\ TotalSupply' = [TotalSupply EXCEPT ![c] = @ + Given(owners, data)]
        /\ Balance' = [p \in CollectionIds \X Owners |->
             IF p[1] = c THEN Balance[p] + g[p[2]] ELSE Balance[p]]
    <3>1. CreatesMoney(u, c, owners, data)
      BY <1>4, CreateEffect, Zenon
    <3> QED BY <2>1, <3>1, Zenon DEF CreatesMoney
  <2>3. ~IsFungible(d) /\ c # d
    BY <1>2, <2>2, Zenon
  <2>4. TotalSupply'[d] = TotalSupply[d] /\ \A o \in Owners : Balance'[<<d, o>>] = Balance[<<d, o>>]
    BY <1>0, <2>2, <2>3, Zenon
  <2> QED BY <1>1, <2>2, <2>3, <2>4, Zenon
<1>5. ASSUME NEW u \in Users, NEW from \in Owners, NEW to \in Owners, NEW c \in CollectionIds,
             NEW v \in Nat, NEW b \in Nat,
             IsFungible(c), MoveMoney(u, from, to, c, v, b), SpendingStep(c)
      PROVE  NoMoney(d)'
  <2>1. /\ NftUntouched /\ UNCHANGED TotalSupply
        /\ \/ UNCHANGED Balance
           \/ Balance' = [Balance EXCEPT ![<<c, from>>] = @ - v, ![<<c, to>>] = @ + v]
    <3>1. MovesMoney(u, from, to, c, v)
      BY <1>5, MoveEffect, Zenon
    <3> QED BY <3>1, Zenon DEF MovesMoney
  <2>2. ~IsFungible(d) /\ c # d
    BY <1>2, <1>5, <2>1, Zenon
  <2>3. \A o \in Owners : Balance'[<<d, o>>] = Balance[<<d, o>>]
    BY <1>0, <2>1, <2>2, Zenon
  <2> QED BY <1>1, <1>3, <1>5, <2>1, <2>2, <2>3, Zenon
<1>6. ASSUME NEW owner \in Owners, NEW c \in CollectionIds, NEW v \in Nat,
             IsFungible(c), RemoveMoney(owner, c, v), SpendingStep(c)
      PROVE  NoMoney(d)'
  <2>1. /\ NftUntouched
        /\ Balance' = [Balance EXCEPT ![<<c, owner>>] = @ - v]
        /\ TotalSupply' = [TotalSupply EXCEPT ![c] = @ - v]
    BY <1>6, RemoveEffect
  <2>2. ~IsFungible(d) /\ c # d
    BY <1>2, <1>6, <2>1, Zenon
  <2>3. TotalSupply'[d] = TotalSupply[d] /\ \A o \in Owners : Balance'[<<d, o>>] = Balance[<<d, o>>]
    BY <1>0, <2>1, <2>2, Zenon
  <2> QED BY <1>1, <1>3, <1>6, <2>2, <2>3, Zenon
<1>7. ASSUME NEW c \in CollectionIds, IsFungible(c), SpendingStep(c),
             UNCHANGED <<nftVars, TotalSupply, Balance>>
      PROVE  NoMoney(d)'
  <2>1. ~IsFungible(d) /\ c # d
    BY <1>7, ModeSteps, Zenon DEF nftVars
  <2> QED BY <1>1, <1>3, <1>7, <2>1, Zenon
<1>8. ASSUME NEW u \in Users, NEW c \in CollectionIds, DestroyFungible(u, c) PROVE NoMoney(d)'
  <2>1. /\ CommonDestroy(u, c)
        /\ TotalSupply' = [TotalSupply EXCEPT ![c] = 0]
        /\ Balance' = [p \in CollectionIds \X Owners |-> IF p[1] = c THEN 0 ELSE Balance[p]]
        /\ Spending' = [p \in CollectionIds \X Users \X Users |-> IF p[1] = c THEN 0 ELSE Spending[p]]
    BY <1>8, Zenon DEF DestroyFungible, AllowancesCleared
  <2>2. CASE d = c
    BY <1>0, <2>1, <2>2, Zenon DEF NoMoney
  <2>3. CASE d # c
    <3>1. ~IsFungible(d)
      BY <2>1, <2>3, ModeSteps, Zenon
    <3>2. TotalSupply'[d] = TotalSupply[d] /\ \A o \in Owners : Balance'[<<d, o>>] = Balance[<<d, o>>]
      BY <1>0, <2>1, <2>3, Zenon
    <3>3. \A x, y \in Users : Spending'[<<d, x, y>>] = Spending[<<d, x, y>>]
      BY <1>0, <2>1, <2>3, Zenon
    <3> QED BY <1>1, <3>1, <3>2, <3>3, Zenon
  <2> QED BY <2>2, <2>3, Zenon
<1>9. ASSUME UNCHANGED ftVars, ~IsFungible(d) PROVE NoMoney(d)'
  BY <1>1, <1>9, Zenon DEF ftVars
<1>10. ASSUME NftNext, UNCHANGED ftVars PROVE NoMoney(d)'
  <2>1. \/ UNCHANGED collectionVars
        \/ \E u \in Users, c \in CollectionIds : IsNft(c) /\ CommonDestroy(u, c)
        \/ Configure
    <3>1. ASSUME NEW u, NEW c, NEW owners, NEW b, CreateMultipleItems(u, c, owners, b)
          PROVE  UNCHANGED collectionVars
      BY <3>1, Zenon DEF CreateMultipleItems
    <3>2. ASSUME NEW u, NEW from, NEW to, NEW t, NEW b, TransferInternal(u, from, to, t, b)
          PROVE  UNCHANGED collectionVars
      BY <3>2, Zenon DEF TransferInternal
    <3>3. ASSUME NEW owner, NEW t, BurnAsOwner(owner, t) PROVE UNCHANGED collectionVars
      BY <3>3, Zenon DEF BurnAsOwner
    <3>4. Approves => UNCHANGED collectionVars
      BY Zenon DEF Approves
    <3>5. ASSUME NEW u, NEW c, DestroyNft(u, c) PROVE IsNft(c) /\ CommonDestroy(u, c)
      BY <3>5, Zenon DEF DestroyNft
    <3> QED BY <1>10, <3>1, <3>2, <3>3, <3>4, <3>5, NftSteps, Zenon
  <2>2. UNCHANGED collectionVars \/ Configure => ~IsFungible(d)
    BY ModeSteps, Zenon
  <2>3. ASSUME NEW u \in Users, NEW c \in CollectionIds, IsNft(c), CommonDestroy(u, c)
        PROVE  ~IsFungible(d)
    BY <2>3, OneMode, ModeSteps, Zenon
  <2> QED BY <1>9, <1>10, <2>1, <2>2, <2>3, Zenon
<1>11. CASE UNCHANGED moneyVars
  BY <1>1, <1>11, ModeSteps, Zenon DEF moneyVars, nftVars, ftVars
<1> QED BY <1>4, <1>5, <1>6, <1>7, <1>8, <1>10, <1>11, FtSteps, Zenon

NoTokens(c) ==
  /\ TokensMinted[c] = 0 /\ TokensBurnt[c] = 0
  /\ \A t \in Tokens : t[1] = c =>
       TokenData[t] = NotFound /\ TokenChildren[t] = {} /\ Allowance[t] = NoSpender
  /\ \A p \in CollectionAllowance : p[1] # c
TokensHaveCollection == \A c \in CollectionIds : ~IsNft(c) => NoTokens(c)

\* Calls for tokens change the rows of nonfungible collections only.
LEMMA TokensHaveCollectionNft ==
  ASSUME ModesStored, NftTypes, TokensHaveCollection, NftNext PROVE TokensHaveCollection'
<1> SUFFICES ASSUME NEW d \in CollectionIds, ~IsNft(d)' PROVE NoTokens(d)'
  BY Zenon DEF TokensHaveCollection
<1>0. /\ TokenData \in [Tokens -> Owners \cup {NotFound}] /\ TokenChildren \in [Tokens -> SUBSET Items]
      /\ TokensMinted \in [CollectionIds -> Nat] /\ TokensBurnt \in [CollectionIds -> Nat]
      /\ Allowance \in [Tokens -> Users \cup {NoSpender}]
  BY Zenon DEF NftTypes
<1>1. ASSUME ~IsNft(d), TokensMinted'[d] = TokensMinted[d], TokensBurnt'[d] = TokensBurnt[d],
             \A t \in Tokens : t[1] = d => /\ TokenData'[t] = TokenData[t]
                                           /\ TokenChildren'[t] \subseteq TokenChildren[t]
                                           /\ Allowance'[t] = Allowance[t],
             \A p \in CollectionAllowance' : p[1] = d => p \in CollectionAllowance
      PROVE  NoTokens(d)'
  BY <1>1, Zenon DEF TokensHaveCollection, NoTokens
<1>2. UNCHANGED collectionVars => ~IsNft(d)
  BY ModeSteps, Zenon
<1>3. ASSUME NEW u \in Users, NEW c \in CollectionIds, NEW owners \in Batches, NEW b \in Nat,
             CreateMultipleItems(u, c, owners, b)
      PROVE  NoTokens(d)'
  <2> DEFINE new == BatchTokens(c, owners)
  <2>1. /\ new \in SUBSET Tokens
        /\ \A t \in new : t[1] = c /\ t[2] - TokensMinted[c] \in DOMAIN owners
                          /\ t = <<c, TokensMinted[c] + (t[2] - TokensMinted[c])>>
        /\ TokenData' = [t \in Tokens |-> IF t \in new THEN owners[t[2] - TokensMinted[c]] ELSE TokenData[t]]
        /\ TokenChildren' = [p \in Tokens |-> TokenChildren[p] \cup
              {t \in new : owners[t[2] - TokensMinted[c]] = p}]
        /\ TokensMinted' = [TokensMinted EXCEPT ![c] = TokensMinted[c] + Len(owners)]
        /\ UNCHANGED <<TokensBurnt, Allowance, CollectionAllowance, collectionVars>>
    <3>1. \A t \in new : t[1] = c /\ t[2] - TokensMinted[c] \in DOMAIN owners /\ new \in SUBSET Tokens
                         /\ TokensMinted[c] \in Nat
      BY <1>3, NewFacts, Zenon
    <3>2. \A t \in new : t = <<c, TokensMinted[c] + (t[2] - TokensMinted[c])>>
      BY <3>1, Kinds
    <3>3. new \in SUBSET Tokens
      BY <3>1, Zenon
    <3> HIDE DEF new
    <3> QED BY <1>3, <3>1, <3>2, <3>3, NewFacts DEF new
  <2> HIDE DEF new
  <2>2. IsNft(c) /\ MintChecks(u, c, owners, b).ok
    BY <1>3, Zenon DEF CreateMultipleItems
  <2>3. ~IsNft(d) /\ d # c
    BY <1>2, <2>1, <2>2, Zenon
  <2>4. ASSUME NEW t \in Tokens, t[1] = d PROVE TokenChildren'[t] \subseteq TokenChildren[t]
    <3>1. \A i \in DOMAIN owners : owners[i] \in Tokens => IsNft(owners[i][1])
      <4>1. ASSUME NEW i \in DOMAIN owners, owners[i] \in Tokens PROVE IsNft(owners[i][1])
        <5>1. PICK k \in Nat : CheckNesting(u, <<c, TokensMinted[c] + i>>, owners[i], k).ok
          BY <2>2, <4>1, MintChecked, Zenon
        <5> QED BY <4>1, <5>1, NestedUnder, Zenon
      <4> QED BY <4>1, Zenon
    <3>2. \A s \in new : owners[s[2] - TokensMinted[c]] # t
      BY <2>1, <2>3, <2>4, <3>1, Zenon
    <3> QED BY <2>1, <3>2, Zenon
  <2>5. \A t \in Tokens : t[1] = d => TokenData'[t] = TokenData[t]
    BY <2>1, <2>3, Zenon
  <2>6. TokensMinted'[d] = TokensMinted[d]
    BY <1>0, <2>1, <2>3, Zenon
  <2> QED BY <1>1, <2>1, <2>3, <2>4, <2>5, <2>6, Zenon
<1>4. ASSUME NEW u \in Users, NEW from \in Owners, NEW to \in Owners, NEW t \in Tokens, NEW b \in Nat,
             IsNft(t[1]), TransferInternal(u, from, to, t, b)
      PROVE  NoTokens(d)'
  <2>1. /\ NestingIfToken(u, t, to, b).ok
        /\ TokenChildren' = Unnested(Nested(TokenChildren, to, t), from, t)
        /\ TokenData' = [TokenData EXCEPT ![t] = to]
        /\ Allowance' = [Allowance EXCEPT ![t] = NoSpender]
        /\ UNCHANGED <<TokensMinted, TokensBurnt, CollectionAllowance, collectionVars>>
    BY <1>4, Zenon DEF TransferInternal, Renested, ClearedAllowance
  <2>2. ~IsNft(d) /\ t[1] # d
    BY <1>2, <1>4, <2>1, Zenon
  <2>3. to \in Tokens => to[1] # d
    BY <2>1, <2>2, NestedUnder, Zenon DEF NestingIfToken
  <2>4. \A s \in Tokens : s[1] = d => TokenData'[s] = TokenData[s] /\ Allowance'[s] = Allowance[s]
    BY <1>0, <2>1, <2>2, Zenon
  <2>5. \A s \in Tokens : s[1] = d => TokenChildren'[s] \subseteq TokenChildren[s]
    BY <1>0, <2>1, <2>3, Zenon DEF Nested, Unnested
  <2> QED BY <1>1, <2>1, <2>2, <2>4, <2>5, Zenon
<1>5. ASSUME NEW owner \in Owners, NEW t \in Tokens, BurnAsOwner(owner, t) PROVE NoTokens(d)'
  <2>1. /\ IsNft(t[1])
        /\ TokenChildren' = Unnested(TokenChildren, owner, t)
        /\ TokensBurnt' = [TokensBurnt EXCEPT ![t[1]] = @ + 1]
        /\ TokenData' = [TokenData EXCEPT ![t] = NotFound]
        /\ Allowance' = [Allowance EXCEPT ![t] = NoSpender]
        /\ UNCHANGED <<TokensMinted, CollectionAllowance, collectionVars>>
    BY <1>5, Zenon DEF BurnAsOwner, ClearedAllowance
  <2>2. ~IsNft(d) /\ t[1] # d /\ t[1] \in CollectionIds
    BY <1>2, <2>1, Kinds, Zenon
  <2>3. \A s \in Tokens : s[1] = d => TokenData'[s] = TokenData[s] /\ Allowance'[s] = Allowance[s]
    BY <1>0, <2>1, <2>2, Zenon
  <2>4. \A s \in Tokens : s[1] = d => TokenChildren'[s] \subseteq TokenChildren[s]
    BY <1>0, <2>1, Zenon DEF Unnested
  <2>5. TokensBurnt'[d] = TokensBurnt[d]
    BY <1>0, <2>1, <2>2, Zenon
  <2> QED BY <1>1, <2>1, <2>2, <2>3, <2>4, <2>5, Zenon
<1>6. ASSUME Approves PROVE NoTokens(d)'
  <2>1. /\ UNCHANGED <<TokenData, TokenChildren, TokensMinted, TokensBurnt, collectionVars>>
        /\ ~IsNft(d)
    BY <1>2, <1>6, Zenon DEF Approves
  <2>2. \A s \in Tokens : s[1] = d => Allowance'[s] = Allowance[s]
    BY <1>0, <1>6, <2>1, Zenon DEF Approves
  <2>3. \A p \in CollectionAllowance' : p[1] = d => p \in CollectionAllowance
    BY <1>6, <2>1 DEF Approves
  <2> QED BY <1>1, <2>1, <2>2, <2>3, Zenon
<1>7. ASSUME NEW u \in Users, NEW c \in CollectionIds, DestroyNft(u, c) PROVE NoTokens(d)'
  <2>1. /\ CommonDestroy(u, c)
        /\ TokenData' = [t \in Tokens |-> IF t[1] = c THEN NotFound ELSE TokenData[t]]
        /\ TokenChildren' = [t \in Tokens |-> IF t[1] = c THEN {} ELSE TokenChildren[t]]
        /\ TokensMinted' = [TokensMinted EXCEPT ![c] = 0]
        /\ TokensBurnt' = [TokensBurnt EXCEPT ![c] = 0]
        /\ Allowance' = [t \in Tokens |-> IF t[1] = c THEN NoSpender ELSE Allowance[t]]
        /\ CollectionAllowance' = {p \in CollectionAllowance : p[1] # c}
    BY <1>7, Zenon DEF DestroyNft, ResetBurnt, WithoutOperators
  <2>2. CASE d = c
    BY <1>0, <2>1, <2>2, Zenon DEF NoTokens
  <2>3. CASE d # c
    <3>1. ~IsNft(d)
      BY <2>1, <2>3, ModeSteps, Zenon
    <3>2. TokensMinted'[d] = TokensMinted[d] /\ TokensBurnt'[d] = TokensBurnt[d]
      BY <1>0, <2>1, <2>3, Zenon
    <3>3. \A t \in Tokens : t[1] = d => /\ TokenData'[t] = TokenData[t]
                                        /\ TokenChildren'[t] \subseteq TokenChildren[t]
                                        /\ Allowance'[t] = Allowance[t]
      BY <2>1, <2>3, Zenon
    <3>4. \A p \in CollectionAllowance' : p[1] = d => p \in CollectionAllowance
      BY <2>1, Zenon
    <3> QED BY <1>1, <3>1, <3>2, <3>3, <3>4, Zenon
  <2> QED BY <2>2, <2>3, Zenon
<1>8. ASSUME Configure, UNCHANGED tokenVars PROVE NoTokens(d)'
  <2>1. ~IsNft(d)
    BY <1>8, ModeSteps, Zenon
  <2> QED BY <1>1, <1>8, <2>1, Zenon DEF tokenVars
<1> QED BY <1>3, <1>4, <1>5, <1>6, <1>7, <1>8, NftSteps, Zenon

\* Tokens, children and approvals are only in nonfungible collections.
LEMMA TokensHaveCollectionNext ==
  ASSUME ModesStored, NftTypes, MoneyTypes, TokensHaveCollection, [FtNext]_moneyVars
  PROVE  TokensHaveCollection'
<1>1. ASSUME UNCHANGED <<collectionVars, TokenData, TokensMinted, TokensBurnt, Allowance,
                         CollectionAllowance>>,
             \A t \in Tokens : IsNft(t[1]) \/ TokenChildren'[t] \subseteq TokenChildren[t]
      PROVE  TokensHaveCollection'
  <2> SUFFICES ASSUME NEW d \in CollectionIds, ~IsNft(d)' PROVE NoTokens(d)'
    BY Zenon DEF TokensHaveCollection
  <2>1. ~IsNft(d)
    BY <1>1, ModeSteps, Zenon
  <2> QED BY <1>1, <2>1 DEF TokensHaveCollection, NoTokens
<1>2. ASSUME NEW u \in Users, NEW c \in CollectionIds, NEW owners \in OwnerLists, NEW b \in Nat,
             NEW data \in [DOMAIN owners -> Nat], CreateMoney(u, c, owners, data, b)
      PROVE  TokensHaveCollection'
  <2>1. /\ TokenChildren' = [t \in Tokens |-> IF \E i \in DOMAIN owners : owners[i] = t
             THEN TokenChildren[t] \cup {Money(c)} ELSE TokenChildren[t]]
        /\ NftUntouched
        /\ \A i \in DOMAIN owners : owners[i] \in Tokens =>
             \E k \in Nat : CheckNesting(u, Money(c), owners[i], k).ok
    <3>1. CreatesMoney(u, c, owners, data)
      BY <1>2, CreateEffect, Zenon
    <3> QED BY <3>1, Zenon DEF CreatesMoney
  <2>2. ASSUME NEW t \in Tokens PROVE IsNft(t[1]) \/ TokenChildren'[t] \subseteq TokenChildren[t]
    <3>1. CASE \E i \in DOMAIN owners : owners[i] = t
      <4>1. PICK k \in Nat : CheckNesting(u, Money(c), t, k).ok
        BY <2>1, <3>1, Zenon
      <4> QED BY <4>1, NestedUnder, Zenon
    <3>2. CASE ~\E i \in DOMAIN owners : owners[i] = t
      BY <2>1, <3>2, Zenon
    <3> QED BY <3>1, <3>2, Zenon
  <2> QED BY <1>1, <2>1, <2>2, Zenon DEF NftUntouched
<1>3. ASSUME NEW u \in Users, NEW from \in Owners, NEW to \in Owners, NEW c \in CollectionIds,
             NEW v \in Nat, NEW b \in Nat, MoveMoney(u, from, to, c, v, b)
      PROVE  TokensHaveCollection'
  <2>1. /\ NftUntouched
        /\ \/ UNCHANGED TokenChildren
           \/ /\ to \in Tokens => \E k \in Nat : CheckNesting(u, Money(c), to, k).ok
              /\ TokenChildren' = UnnestedWhenEmpty(c, from, v, Nested(TokenChildren, to, Money(c)))
    <3>1. /\ NftUntouched /\ UNCHANGED TotalSupply /\ Balance[<<c, from>>] >= v
          /\ \/ UNCHANGED <<Balance, TokenChildren>>
             \/ /\ from # to
                /\ to \in Tokens => \E k \in Nat : CheckNesting(u, Money(c), to, k).ok
                /\ TokenChildren' = UnnestedWhenEmpty(c, from, v, Nested(TokenChildren, to, Money(c)))
                /\ Balance' = [Balance EXCEPT ![<<c, from>>] = @ - v, ![<<c, to>>] = @ + v]
      <4>1. MovesMoney(u, from, to, c, v)
        BY <1>3, MoveEffect, Zenon
      <4> QED BY <4>1, Zenon DEF MovesMoney
    <3> QED BY <3>1, Zenon
  <2>2. CASE UNCHANGED TokenChildren
    BY <1>1, <2>1, <2>2, Zenon DEF NftUntouched
  <2>3. CASE /\ to \in Tokens => \E k \in Nat : CheckNesting(u, Money(c), to, k).ok
             /\ TokenChildren' = UnnestedWhenEmpty(c, from, v, Nested(TokenChildren, to, Money(c)))
    <3>1. to \in Tokens => IsNft(to[1])
      BY <2>3, NestedUnder, Zenon
    <3>2. TokenChildren \in [Tokens -> SUBSET Items]
      BY Zenon DEF NftTypes
    <3>3. \A t \in Tokens : t = to \/ TokenChildren'[t] \subseteq TokenChildren[t]
      BY <2>3, <3>2, Zenon DEF UnnestedWhenEmpty, Nested, Unnested
    <3>4. \A t \in Tokens : IsNft(t[1]) \/ TokenChildren'[t] \subseteq TokenChildren[t]
      BY <3>1, <3>3, Zenon
    <3> QED BY <1>1, <2>1, <3>4, Zenon DEF NftUntouched
  <2> QED BY <2>1, <2>2, <2>3, Zenon
<1>4. ASSUME NEW owner \in Owners, NEW c \in CollectionIds, NEW v \in Nat, RemoveMoney(owner, c, v)
      PROVE  TokensHaveCollection'
  <2>1. NftUntouched /\ TokenChildren' = UnnestedWhenEmpty(c, owner, v, TokenChildren)
    BY <1>4, RemoveEffect, Zenon
  <2>2. TokenChildren \in [Tokens -> SUBSET Items]
    BY Zenon DEF NftTypes
  <2>3. \A t \in Tokens : TokenChildren'[t] \subseteq TokenChildren[t]
    BY <2>1, <2>2, Zenon DEF UnnestedWhenEmpty, Unnested
  <2> QED BY <1>1, <2>1, <2>3, Zenon DEF NftUntouched
<1>5. UNCHANGED nftVars => TokensHaveCollection'
  BY <1>1, Zenon DEF nftVars, tokenVars
<1>6. ASSUME NEW u \in Users, NEW c \in CollectionIds, DestroyFungible(u, c)
      PROVE  TokensHaveCollection'
  <2>1. IsFungible(c) /\ CommonDestroy(u, c) /\ UNCHANGED tokenVars
    BY <1>6, Zenon DEF DestroyFungible
  <2> SUFFICES ASSUME NEW d \in CollectionIds, ~IsNft(d)' PROVE NoTokens(d)'
    BY Zenon DEF TokensHaveCollection
  <2>2. ~IsNft(d)
    BY <2>1, OneMode, ModeSteps, Zenon
  <2>3. NoTokens(d)
    BY <2>2, Zenon DEF TokensHaveCollection
  <2> QED BY <2>1, <2>3, Zenon DEF NoTokens, tokenVars
<1>7. UNCHANGED moneyVars => UNCHANGED nftVars
  BY Zenon DEF moneyVars
<1> QED BY <1>2, <1>3, <1>4, <1>5, <1>6, <1>7, FtSteps, TokensHaveCollectionNft, Zenon

\* What every theorem below starts from.
MoneyBase == NftTypes /\ MoneyTypes /\ ModesStored /\ MoneyHasCollection /\ TokensHaveCollection

LEMMA MoneyBaseInit == FtInit => MoneyBase
<1>1. FtInit => MoneyHasCollection
  BY Zenon DEF FtInit, MoneyInit, MoneyHasCollection, NoMoney
<1>2. FtInit => TokensHaveCollection
  <2> SUFFICES ASSUME FtInit, NEW c \in CollectionIds PROVE NoTokens(c)
    BY Zenon DEF TokensHaveCollection
  <2> QED BY Zenon DEF FtInit, NftInit, TokenInit, NoTokens
<1> QED BY <1>1, <1>2, MoneyTypesInit, Zenon DEF MoneyBase

LEMMA MoneyBaseNext == MoneyBase /\ [FtNext]_moneyVars => MoneyBase'
BY MoneyTypesNext, CollectionPart, ModesNext, MoneyHasCollectionNext, TokensHaveCollectionNext, Zenon
   DEF MoneyBase

\* A destroyed collection leaves nothing behind in the maps of its pallet, and nothing is
\* there before it is created either.
THEOREM NothingLeftBehind == FtSpec => []NothingOutlivesCollection
<1>1. MoneyBase => NothingOutlivesCollection
  <2> SUFFICES ASSUME MoneyBase, NEW c \in CollectionIds, ~Exists(c)
               PROVE  NoTokens(c) /\ NoMoney(c)
    BY Zenon DEF NothingOutlivesCollection, NoTokens, NoMoney
  <2>1. ~IsNft(c) /\ ~IsFungible(c)
    BY Zenon DEF IsNft, IsFungible
  <2> QED BY <2>1, Zenon DEF MoneyBase, MoneyHasCollection, TokensHaveCollection
<1> QED BY <1>1, MoneyBaseInit, MoneyBaseNext, PTL DEF FtSpec

-----------------------------------------------------------------------------
(* Money in tokens.                                                        *)

MoneyNested ==
  \A c \in CollectionIds, o \in Tokens : Balance[<<c, o>>] > 0 =>
    TokenData[o] # NotFound /\ Money(c) \in TokenChildren[o]

\* Calls for tokens end no token that has children, and unnest only nonfungible tokens.
LEMMA ItemStaysNested ==
  ASSUME NftTypes, NftNext, NEW item, ~(item \in Tokens /\ IsNft(item[1])),
         NEW o \in Tokens, TokenData[o] # NotFound, item \in TokenChildren[o]
  PROVE  TokenData'[o] # NotFound /\ item \in TokenChildren'[o]
<1>0. TokenData \in [Tokens -> Owners \cup {NotFound}] /\ TokenChildren \in [Tokens -> SUBSET Items]
  BY Zenon DEF NftTypes
<1>1. NotFound \notin Owners
  BY Kinds, Zenon
<1>2. ASSUME NEW u \in Users, NEW c \in CollectionIds, NEW owners \in Batches, NEW b \in Nat,
             CreateMultipleItems(u, c, owners, b)
      PROVE  TokenData'[o] # NotFound /\ item \in TokenChildren'[o]
  <2> DEFINE new == BatchTokens(c, owners)
  <2>1. /\ TokenData' = [t \in Tokens |-> IF t \in new THEN owners[t[2] - TokensMinted[c]] ELSE TokenData[t]]
        /\ TokenChildren' = [p \in Tokens |-> TokenChildren[p] \cup
              {t \in new : owners[t[2] - TokensMinted[c]] = p}]
        /\ \A t \in new : t[2] - TokensMinted[c] \in DOMAIN owners
    BY <1>2, NewFacts
  <2> HIDE DEF new
  <2>2. \A i \in DOMAIN owners : owners[i] # NotFound
    BY <1>1, BatchFacts, Zenon
  <2>3. TokenData'[o] # NotFound
    BY <1>0, <2>1, <2>2, Zenon
  <2>4. item \in TokenChildren'[o]
    BY <1>0, <2>1, Zenon
  <2> QED BY <2>3, <2>4, Zenon
<1>3. ASSUME NEW u \in Users, NEW from \in Owners, NEW to \in Owners, NEW t \in Tokens, NEW b \in Nat,
             IsNft(t[1]), TransferInternal(u, from, to, t, b)
      PROVE  TokenData'[o] # NotFound /\ item \in TokenChildren'[o]
  <2>1. /\ TokenChildren' = Unnested(Nested(TokenChildren, to, t), from, t)
        /\ TokenData' = [TokenData EXCEPT ![t] = to]
    BY <1>3, Zenon DEF TransferInternal, Renested
  <2>0. item # t
    BY <1>3, Zenon
  <2>2. TokenData'[o] # NotFound
    BY <1>0, <1>1, <2>1, Zenon
  <2>3. item \in TokenChildren'[o]
    BY <1>0, <2>0, <2>1, Zenon DEF Unnested, Nested
  <2> QED BY <2>2, <2>3, Zenon
<1>4. ASSUME NEW owner \in Owners, NEW t \in Tokens, BurnAsOwner(owner, t)
      PROVE  TokenData'[o] # NotFound /\ item \in TokenChildren'[o]
  <2>1. /\ TokenChildren[t] = {}
        /\ TokenChildren' = Unnested(TokenChildren, owner, t)
        /\ TokenData' = [TokenData EXCEPT ![t] = NotFound]
    BY <1>4, Zenon DEF BurnAsOwner
  <2>2. o # t /\ item # t
    BY <1>0, <1>4, <2>1, Zenon DEF BurnAsOwner
  <2>3. item \in TokenChildren'[o]
    BY <1>0, <2>1, <2>2, Zenon DEF Unnested
  <2> QED BY <1>0, <2>1, <2>2, <2>3, Zenon
<1>5. ASSUME NEW u \in Users, NEW c \in CollectionIds, DestroyNft(u, c)
      PROVE  TokenData'[o] # NotFound /\ item \in TokenChildren'[o]
  <2>1. /\ ~HasTokens(c)
        /\ TokenData' = [t \in Tokens |-> IF t[1] = c THEN NotFound ELSE TokenData[t]]
        /\ TokenChildren' = [t \in Tokens |-> IF t[1] = c THEN {} ELSE TokenChildren[t]]
    BY <1>5, Zenon DEF DestroyNft
  <2>2. o[1] # c
    BY <1>0, <2>1, Zenon DEF HasTokens
  <2> QED BY <1>0, <2>1, <2>2, Zenon
<1>6. ASSUME UNCHANGED <<TokenData, TokenChildren>>
      PROVE  TokenData'[o] # NotFound /\ item \in TokenChildren'[o]
  BY <1>0, <1>6, Zenon
<1>7. Approves \/ UNCHANGED tokenVars => UNCHANGED <<TokenData, TokenChildren>>
  BY Zenon DEF Approves, tokenVars
<1> QED BY <1>2, <1>3, <1>4, <1>5, <1>6, <1>7, NftSteps, Zenon

\* Money that a token has is listed with its children for as long as it is there.
LEMMA MoneyNestedNext ==
  ASSUME NftTypes, MoneyTypes, MoneyNested, [FtNext]_moneyVars PROVE MoneyNested'
<1> USE DEF Money
<1>0. /\ TokenData \in [Tokens -> Owners \cup {NotFound}] /\ TokenChildren \in [Tokens -> SUBSET Items]
      /\ Balance \in [CollectionIds \X Owners -> Nat] /\ Tokens \subseteq Owners
  BY Kinds, Zenon DEF NftTypes, MoneyTypes
<1>1. ASSUME UNCHANGED <<TokenData, TokenChildren, Balance>> PROVE MoneyNested'
  BY <1>1, Zenon DEF MoneyNested
<1>2. ASSUME NEW u \in Users, NEW c \in CollectionIds, NEW owners \in OwnerLists, NEW b \in Nat,
             NEW data \in [DOMAIN owners -> Nat], CreateMoney(u, c, owners, data, b)
      PROVE  MoneyNested'
  <2>1. PICK g : g = Gift(owners, data)
    BY Zenon
  <2>2. /\ Balance' = [p \in CollectionIds \X Owners |->
             IF p[1] = c THEN Balance[p] + g[p[2]] ELSE Balance[p]]
        /\ TokenChildren' = [t \in Tokens |-> IF \E i \in DOMAIN owners : owners[i] = t
             THEN TokenChildren[t] \cup {Money(c)} ELSE TokenChildren[t]]
        /\ NftUntouched
        /\ \A i \in DOMAIN owners : owners[i] \in Tokens =>
             \E k \in Nat : CheckNesting(u, Money(c), owners[i], k).ok
    <3>1. CreatesMoney(u, c, owners, data)
      BY <1>2, CreateEffect, Zenon
    <3> QED BY <2>1, <3>1, Zenon DEF CreatesMoney
  <2>3. \A o \in Owners : g[o] \in Nat /\ (g[o] # 0 => \E i \in DOMAIN owners : owners[i] = o)
    BY <2>1, Gifts, Zenon
  <2>4. UNCHANGED TokenData
    BY <2>2, Zenon DEF NftUntouched
  <2> SUFFICES ASSUME NEW d \in CollectionIds, NEW o \in Tokens, Balance'[<<d, o>>] > 0
               PROVE  TokenData[o] # NotFound /\ Money(d) \in TokenChildren'[o]
    BY <2>4, Zenon DEF MoneyNested
  <2>5. CASE d = c /\ g[o] # 0
    <3>1. PICK i \in DOMAIN owners : owners[i] = o
      BY <1>0, <2>3, <2>5, Zenon
    <3>2. PICK k \in Nat : CheckNesting(u, Money(c), o, k).ok
      BY <2>2, <3>1, Zenon
    <3>3. TokenData[o] # NotFound
      BY <3>2, NestedUnder, Zenon
    <3> QED BY <2>2, <2>5, <3>1, <3>3, Zenon
  <2>6. CASE d # c \/ g[o] = 0
    <3>1. Balance'[<<d, o>>] = Balance[<<d, o>>]
      BY <1>0, <2>2, <2>6
    <3>2. TokenData[o] # NotFound /\ Money(d) \in TokenChildren[o]
      BY <3>1, Zenon DEF MoneyNested
    <3> QED BY <2>2, <3>2, Zenon
  <2> QED BY <2>5, <2>6, Zenon
<1>3. ASSUME NEW u \in Users, NEW from \in Owners, NEW to \in Owners, NEW c \in CollectionIds,
             NEW v \in Nat, NEW b \in Nat, MoveMoney(u, from, to, c, v, b)
      PROVE  MoneyNested'
  <2>1. /\ NftUntouched /\ UNCHANGED TotalSupply /\ Balance[<<c, from>>] >= v
        /\ \/ UNCHANGED <<Balance, TokenChildren>>
           \/ /\ from # to
              /\ to \in Tokens => \E k \in Nat : CheckNesting(u, Money(c), to, k).ok
              /\ TokenChildren' = UnnestedWhenEmpty(c, from, v, Nested(TokenChildren, to, Money(c)))
              /\ Balance' = [Balance EXCEPT ![<<c, from>>] = @ - v, ![<<c, to>>] = @ + v]
    <3>1. MovesMoney(u, from, to, c, v)
      BY <1>3, MoveEffect, Zenon
    <3> QED BY <3>1, Zenon DEF MovesMoney
  <2>2. UNCHANGED TokenData
    BY <2>1, Zenon DEF NftUntouched
  <2>3. CASE UNCHANGED <<Balance, TokenChildren>>
    BY <1>1, <2>2, <2>3, Zenon
  <2>4. CASE /\ from # to
             /\ to \in Tokens => \E k \in Nat : CheckNesting(u, Money(c), to, k).ok
             /\ TokenChildren' = UnnestedWhenEmpty(c, from, v, Nested(TokenChildren, to, Money(c)))
             /\ Balance' = [Balance EXCEPT ![<<c, from>>] = @ - v, ![<<c, to>>] = @ + v]
    <3> SUFFICES ASSUME NEW d \in CollectionIds, NEW o \in Tokens, Balance'[<<d, o>>] > 0
                 PROVE  TokenData[o] # NotFound /\ Money(d) \in TokenChildren'[o]
      BY <2>2, Zenon DEF MoneyNested
    <3>1. PICK children : children = Nested(TokenChildren, to, Money(c))
      BY Zenon
    <3>2. /\ children \in [Tokens -> SUBSET Items]
          /\ \A t \in Tokens : TokenChildren[t] \subseteq children[t]
          /\ to \in Tokens => Money(c) \in children[to]
      <4>1. Money(c) \in Items
        BY TokenAssumption DEF Items
      <4> QED BY <1>0, <3>1, <4>1, Zenon DEF Nested
    <3>3. CASE d = c /\ o = to
      <4>1. TokenData[o] # NotFound
        BY <2>4, <3>3, NestedUnder, Zenon
      <4>2. Money(c) \in TokenChildren'[o]
        BY <2>4, <3>1, <3>2, <3>3, Zenon DEF UnnestedWhenEmpty, Unnested
      <4> QED BY <3>3, <4>1, <4>2, Zenon
    <3>4. CASE d = c /\ o = from
      <4>1. Balance'[<<d, o>>] = Balance[<<d, o>>] - v
        BY <1>0, <2>4, <3>4, Zenon
      <4>2. Balance[<<c, from>>] # v /\ Balance[<<d, o>>] > 0
        BY <1>0, <3>4, <4>1
      <4>3. TokenData[o] # NotFound /\ Money(d) \in TokenChildren[o]
        BY <4>2, Zenon DEF MoneyNested
      <4>4. TokenChildren' = children
        BY <2>4, <3>1, <4>2, Zenon DEF UnnestedWhenEmpty
      <4> QED BY <3>2, <4>3, <4>4, Zenon
    <3>5. CASE ~(d = c /\ o \in {from, to})
      <4>1. Balance'[<<d, o>>] = Balance[<<d, o>>]
        BY <1>0, <2>4, <3>5, Zenon
      <4>2. TokenData[o] # NotFound /\ Money(d) \in children[o]
        BY <3>2, <4>1, Zenon DEF MoneyNested
      <4>3. d # c => Money(d) # Money(c)
        BY Zenon
      <4>4. Money(d) \in TokenChildren'[o]
        BY <2>4, <3>1, <3>2, <3>5, <4>2, <4>3, Zenon DEF UnnestedWhenEmpty, Unnested
      <4> QED BY <4>2, <4>4, Zenon
    <3> QED BY <3>3, <3>4, <3>5, Zenon
  <2> QED BY <2>1, <2>3, <2>4, Zenon
<1>4. ASSUME NEW owner \in Owners, NEW c \in CollectionIds, NEW v \in Nat, RemoveMoney(owner, c, v)
      PROVE  MoneyNested'
  <2>1. /\ NftUntouched /\ Balance[<<c, owner>>] >= v
        /\ TokenChildren' = UnnestedWhenEmpty(c, owner, v, TokenChildren)
        /\ Balance' = [Balance EXCEPT ![<<c, owner>>] = @ - v]
    BY <1>4, RemoveEffect
  <2>2. UNCHANGED TokenData
    BY <2>1, Zenon DEF NftUntouched
  <2> SUFFICES ASSUME NEW d \in CollectionIds, NEW o \in Tokens, Balance'[<<d, o>>] > 0
               PROVE  TokenData[o] # NotFound /\ Money(d) \in TokenChildren'[o]
    BY <2>2, Zenon DEF MoneyNested
  <2>3. CASE d = c /\ o = owner
    <3>1. Balance'[<<d, o>>] = Balance[<<d, o>>] - v
      BY <1>0, <2>1, <2>3, Zenon
    <3>2. Balance[<<c, owner>>] # v /\ Balance[<<d, o>>] > 0
      BY <1>0, <2>3, <3>1
    <3> QED BY <2>1, <3>2, Zenon DEF MoneyNested, UnnestedWhenEmpty
  <2>4. CASE ~(d = c /\ o = owner)
    <3>1. Balance'[<<d, o>>] = Balance[<<d, o>>]
      BY <1>0, <2>1, <2>4, Zenon
    <3>2. TokenData[o] # NotFound /\ Money(d) \in TokenChildren[o]
      BY <3>1, Zenon DEF MoneyNested
    <3>3. d # c => Money(d) # Money(c)
      BY Zenon
    <3>4. Money(d) \in TokenChildren'[o]
      BY <1>0, <2>1, <2>4, <3>2, <3>3, Zenon DEF UnnestedWhenEmpty, Unnested
    <3> QED BY <3>2, <3>4, Zenon
  <2> QED BY <2>3, <2>4, Zenon
<1>5. ASSUME NEW u \in Users, NEW c \in CollectionIds, DestroyFungible(u, c) PROVE MoneyNested'
  <2>1. /\ Balance' = [p \in CollectionIds \X Owners |-> IF p[1] = c THEN 0 ELSE Balance[p]]
        /\ UNCHANGED <<TokenData, TokenChildren>>
    BY <1>5, Zenon DEF DestroyFungible, tokenVars
  <2> SUFFICES ASSUME NEW d \in CollectionIds, NEW o \in Tokens, Balance'[<<d, o>>] > 0
               PROVE  TokenData[o] # NotFound /\ Money(d) \in TokenChildren[o]
    BY <2>1, Zenon DEF MoneyNested
  <2>2. Balance'[<<d, o>>] = Balance[<<d, o>>]
    BY <1>0, <2>1
  <2> QED BY <2>2, Zenon DEF MoneyNested
<1>6. UNCHANGED <<nftVars, Balance>> \/ UNCHANGED moneyVars => UNCHANGED <<TokenData, TokenChildren, Balance>>
  BY Zenon DEF moneyVars, nftVars, tokenVars, ftVars
<1>7. ASSUME NftNext, UNCHANGED ftVars PROVE MoneyNested'
  <2>1. \A d \in CollectionIds : Money(d) \notin Tokens
    BY Kinds, Zenon
  <2>2. UNCHANGED Balance
    BY <1>7, Zenon DEF ftVars
  <2> SUFFICES ASSUME NEW d \in CollectionIds, NEW o \in Tokens, Balance[<<d, o>>] > 0
               PROVE  TokenData'[o] # NotFound /\ Money(d) \in TokenChildren'[o]
    BY <2>2, Zenon DEF MoneyNested
  <2>3. TokenData[o] # NotFound /\ Money(d) \in TokenChildren[o]
    BY Zenon DEF MoneyNested
  <2> QED BY <1>7, <2>1, <2>3, ItemStaysNested, Zenon
<1> QED BY <1>1, <1>2, <1>3, <1>4, <1>5, <1>6, <1>7, FtSteps, Zenon

\* Money is never out of reach: it is in an existing collection, and a token that has it
\* exists and lists it, so that the token can not be burned.
THEOREM MoneyStaysReachable == FtSpec => []MoneyReachable
<1>1. FtInit => MoneyNested
  <2> SUFFICES ASSUME FtInit, NEW c \in CollectionIds, NEW o \in Tokens PROVE ~(Balance[<<c, o>>] > 0)
    BY Zenon DEF MoneyNested
  <2>1. Balance[<<c, o>>] = 0
    BY Kinds, Zenon DEF FtInit, MoneyInit
  <2> QED BY <2>1
<1>2. MoneyBase /\ MoneyNested => MoneyReachable
  <2> SUFFICES ASSUME MoneyBase, MoneyNested, NEW c \in CollectionIds, NEW o \in Owners,
                      Balance[<<c, o>>] > 0
               PROVE  /\ IsFungible(c)
                      /\ o \in Tokens => TokenData[o] # NotFound /\ Money(c) \in TokenChildren[o]
    BY Zenon DEF MoneyReachable
  <2>1. ~NoMoney(c)
    BY DEF NoMoney
  <2> QED BY <2>1, Zenon DEF MoneyBase, MoneyHasCollection, MoneyNested
<1>3. MoneyBase /\ MoneyNested /\ [FtNext]_moneyVars => MoneyNested'
  BY MoneyNestedNext, Zenon DEF MoneyBase
<1> QED BY <1>1, <1>2, <1>3, MoneyBaseInit, MoneyBaseNext, PTL DEF FtSpec

-----------------------------------------------------------------------------
(* Who takes money.                                                        *)

\* Passing check_allowed means being entitled, and an allowance is used up.
LEMMA MoneyAllowedEntitled ==
  ASSUME NftTypes, MoneyTypes, NEW u \in Users, NEW from \in Owners, NEW c \in CollectionIds,
         NEW v \in Nat, NEW b \in Nat, MoneyAllowed(u, from, c, v, b).ok,
         Spending' = SpendingLeft(u, from, c, v)
  PROVE  MoneyEntitled(u, c, from, v)
<1>1. ~Failed.ok
  BY Zenon DEF Failed
<1>2. \/ SameAccount(u, from) \/ IgnoresRestrictions(u, c)
      \/ from \in Tokens /\ IndirectlyOwned(u, from, b).ok
      \/ ~SameAccount(u, from) /\ from \notin Tokens /\ Allowed(c, from, u) >= v
  BY <1>1, Zenon DEF MoneyAllowed
<1>3. CASE SameAccount(u, from) \/ IgnoresRestrictions(u, c)
  BY <1>3, Zenon DEF MoneyEntitled
<1>4. CASE from \in Tokens /\ IndirectlyOwned(u, from, b).ok
  <2>1. TopOf(from) = u
    BY <1>4, TopFound, Zenon
  <2> QED BY <1>4, <2>1, Zenon DEF MoneyEntitled
<1>5. CASE ~SameAccount(u, from) /\ from \notin Tokens /\ Allowed(c, from, u) >= v
  <2>1. from \in Users
    BY <1>5, Kinds, Zenon
  <2>2. Allowed(c, from, u) = Spending[<<c, from, u>>] /\ Allowed(c, from, u)' = Spending'[<<c, from, u>>]
    BY <2>1, Zenon DEF Allowed
  <2>3. Spending' = [Spending EXCEPT ![<<c, from, u>>] = @ - v]
    BY <1>5, <2>1, Zenon DEF SpendingLeft
  <2>4. Spending \in [CollectionIds \X Users \X Users -> Nat] /\ <<c, from, u>> \in CollectionIds \X Users \X Users
    BY <2>1, Zenon DEF MoneyTypes
  <2>5. Spending'[<<c, from, u>>] = Spending[<<c, from, u>>] - v
    BY <2>3, <2>4, Zenon
  <2> QED BY <1>5, <2>2, <2>5, Zenon DEF MoneyEntitled
<1> QED BY <1>2, <1>3, <1>4, <1>5, Zenon

\* A call takes only money that its caller is entitled to, and uses its allowance up.
THEOREM MoneyTakenByEntitled == FtSpec => MoneyTakenByEntitledOnly
<1> DEFINE P == \A c \in CollectionIds, from \in Owners : Balance'[<<c, from>>] < Balance[<<c, from>>] =>
                  LET v == Balance[<<c, from>>] - Balance'[<<c, from>>] IN
                  Exists(c) => \A u \in Users : MoneyTakenBy(u, c, from, v) => MoneyEntitled(u, c, from, v)
<1>1. ASSUME MoneyBase, MoneyBase' PROVE P
  <2> SUFFICES ASSUME NEW c \in CollectionIds, NEW from \in Owners,
                      Balance'[<<c, from>>] < Balance[<<c, from>>], NEW u \in Users,
                      MoneyTakenBy(u, c, from, Balance[<<c, from>>] - Balance'[<<c, from>>])
               PROVE  MoneyEntitled(u, c, from, Balance[<<c, from>>] - Balance'[<<c, from>>])
    BY Zenon
  <2>1. NftTypes /\ MoneyTypes /\ Balance \in [CollectionIds \X Owners -> Nat]
        /\ Balance' \in [CollectionIds \X Owners -> Nat]
        /\ Users \subseteq Owners /\ Budgets \subseteq Nat
    BY <1>1, TokenAssumption, Zenon DEF MoneyBase, MoneyTypes, Owners
  <2>2. PICK v : v = Balance[<<c, from>>] - Balance'[<<c, from>>]
    BY Zenon
  <2>3. v \in Nat /\ MoneyTakenBy(u, c, from, v)
    BY <2>1, <2>2
  <2>4. from = u => MoneyEntitled(u, c, from, v)
    BY Zenon DEF MoneyEntitled, SameAccount
  <2>5. ASSUME BurnMoney(u, c, v) PROVE from = u
    <3>1. Balance' = [Balance EXCEPT ![<<c, u>>] = @ - v]
      BY <2>5, Zenon DEF BurnMoney, RemoveMoney
    <3> QED BY <2>1, <3>1
  <2>6. ASSUME NEW b \in Budgets, NEW to \in Owners, TransferMoney(u, to, c, v, b) PROVE from = u
    <3>1. \/ UNCHANGED Balance
          \/ Balance' = [Balance EXCEPT ![<<c, u>>] = @ - v, ![<<c, to>>] = @ + v]
      BY <2>6, Zenon DEF TransferMoney, MoveMoney
    <3>2. CASE UNCHANGED Balance
      BY <2>1, <3>2
    <3>3. CASE Balance' = [Balance EXCEPT ![<<c, u>>] = @ - v, ![<<c, to>>] = @ + v]
      <4>1. CASE from # u /\ from # to
        BY <2>1, <3>3, <4>1
      <4>2. CASE from # u /\ from = to
        <5>1. Balance'[<<c, from>>] = Balance[<<c, from>>] + v
          BY <2>1, <3>3, <4>2, Zenon
        <5> QED BY <2>1, <2>3, <5>1
      <4> QED BY <4>1, <4>2, Zenon
    <3> QED BY <3>1, <3>2, <3>3, Zenon
  <2>7. ASSUME NEW b \in Budgets,
               \/ BurnMoneyFrom(u, from, c, v, b)
               \/ \E to \in Owners : TransferMoneyFrom(u, from, to, c, v, b)
        PROVE  MoneyEntitled(u, c, from, v)
    <3>1. MoneyAllowed(u, from, c, v, b).ok /\ Spending' = SpendingLeft(u, from, c, v)
      BY <2>7, Zenon DEF BurnMoneyFrom, TransferMoneyFrom
    <3>2. b \in Nat
      BY <2>1, Zenon
    <3> QED BY <2>1, <2>3, <3>1, <3>2, MoneyAllowedEntitled, Zenon
  <2>8. MoneyEntitled(u, c, from, v)
    BY <2>3, <2>4, <2>5, <2>6, <2>7, Zenon DEF MoneyTakenBy
  <2> QED BY <2>2, <2>8, Zenon
<1>2. MoneyBase /\ [FtNext]_moneyVars => [P]_moneyVars
  BY <1>1, MoneyBaseNext, Zenon
<1> HIDE DEF P
<1>3. FtSpec => [][P]_moneyVars
  BY <1>2, MoneyBaseInit, MoneyBaseNext, PTL DEF FtSpec
<1> QED BY <1>3, Zenon DEF P, MoneyTakenByEntitledOnly
=============================================================================
