------------------------------ MODULE Fungible ------------------------------
(***************************************************************************)
(* pallets/fungible: collections of money, beside the collections of       *)
(* nonfungible tokens.  Money may be owned by a token; it is then nested   *)
(* in that token as item 0 of its collection, which keeps the token from   *)
(* being burned.                                                           *)
(***************************************************************************)
EXTENDS Nonfungible, Sums

CONSTANTS
  Values,           \* amounts that the calls are made with, 0 among them
  MaxValue          \* u128::MAX

ASSUME ValueAssumption == MaxValue \in Nat /\ Values \subseteq 0..MaxValue

VARIABLES
  TotalSupply,      \* collection -> money in it
  Balance,          \* collection and owner -> money
  Spending          \* Allowance: collection, owner and spender -> money

ftVars == <<TotalSupply, Balance, Spending>>
moneyVars == <<nftVars, ftVars>>

IsFungible(c) == Exists(c) /\ CollectionById[c].mode = "Fungible"
Money(c) == <<c, 0>>

MoneyInit ==
  /\ TotalSupply = [c \in CollectionIds |-> 0]
  /\ Balance = [p \in CollectionIds \X Owners |-> 0]
  /\ Spending = [p \in CollectionIds \X Users \X Users |-> 0]

FtInit == NftInit /\ MoneyInit

\* Only TokenChildren of the nonfungible pallet is ever written.
NftUntouched ==
  UNCHANGED <<collectionVars, TokenData, Owned, AccountBalance, TokensMinted, TokensBurnt,
              Allowance, CollectionAllowance>>

-----------------------------------------------------------------------------
(* Minting: data maps owners to amounts and is walked in some order.       *)

FirstGiven(owners, data) == data[1]
Given(owners, data) == Sum([i \in DOMAIN owners |-> data[i]], DOMAIN owners)
SupplyAfter(c, owners, data) == TotalSupply[c] + Given(owners, data)

MoneyChecks(u, c, owners, budget) ==
  LET left[i \in 0..Len(owners)] ==
        IF i = 0 THEN Spent(budget)
        ELSE IF ~left[i - 1].ok THEN Failed
        ELSE NestingIfToken(u, Money(c), owners[i], left[i - 1].left)
  IN  left[Len(owners)]

CreateMoney(u, c, owners, data, budget) ==
  LET receivers == {owners[i] : i \in DOMAIN owners}
      given(o) == data[CHOOSE i \in DOMAIN owners : owners[i] = o]
  IN
  /\ IsFungible(c)
  /\ MayMint(u, c, receivers)
  /\ SupplyAfter(c, owners, data) <= MaxValue
  /\ MoneyChecks(u, c, owners, budget).ok
  /\ TotalSupply' = [TotalSupply EXCEPT ![c] = SupplyAfter(c, owners, data)]
  /\ Balance' = [p \in CollectionIds \X Owners |->
       IF p[1] = c /\ p[2] \in receivers THEN Balance[p] + given(p[2]) ELSE Balance[p]]
  /\ TokenChildren' = [t \in Tokens |->
       IF t \in receivers THEN TokenChildren[t] \cup {Money(c)} ELSE TokenChildren[t]]
  /\ NftUntouched /\ UNCHANGED Spending

-----------------------------------------------------------------------------
(* Transfers and burning.                                                  *)

AlwaysUnnested(c, from, amount, children) == Unnested(children, from, Money(c))
UnnestedWhenEmpty(c, from, amount, children) ==
  IF Balance[<<c, from>>] = amount THEN Unnested(children, from, Money(c)) ELSE children

\* transfer_internal, without the allowance that transfer_from writes afterwards.
MoveMoney(depositor, from, to, c, amount, budget) ==
  /\ Limit(c, "transfers_enabled")
  /\ Accessible(c, {from, to})
  /\ Balance[<<c, from>>] >= amount
  /\ IF from = to \/ amount = 0
     THEN UNCHANGED <<Balance, TokenChildren>>
     ELSE /\ Balance[<<c, to>>] + amount <= MaxValue
          /\ NestingIfToken(depositor, Money(c), to, budget).ok
          /\ TokenChildren' = UnnestedWhenEmpty(c, from, amount, Nested(TokenChildren, to, Money(c)))
          /\ Balance' = [Balance EXCEPT ![<<c, from>>] = @ - amount, ![<<c, to>>] = @ + amount]
  /\ NftUntouched /\ UNCHANGED TotalSupply

RemoveMoney(owner, c, amount) ==
  /\ TotalSupply[c] >= amount
  /\ Balance[<<c, owner>>] >= amount
  /\ Accessible(c, {owner})
  /\ TokenChildren' = UnnestedWhenEmpty(c, owner, amount, TokenChildren)
  /\ Balance' = [Balance EXCEPT ![<<c, owner>>] = @ - amount]
  /\ TotalSupply' = [TotalSupply EXCEPT ![c] = @ - amount]
  /\ NftUntouched

\* check_allowed, and the allowance that is left: a collection admin uses up what it
\* was allowed and may go beyond, others may not.
SameAccount(u, from) == from \in Users /\ AsSub[u] = AsSub[from]
Allowed(c, from, spender) == IF from \in Users THEN Spending[<<c, from, spender>>] ELSE 0

MoneyAllowed(spender, from, c, amount, budget) ==
  IF SameAccount(spender, from) THEN Spent(budget)
  ELSE IF ~Accessible(c, {spender}) THEN Failed
  ELSE IF IgnoresRestrictions(spender, c) THEN Spent(budget)
  ELSE IF from \in Tokens THEN IndirectlyOwned(spender, from, budget)
  ELSE IF Allowed(c, from, spender) >= amount THEN Spent(budget)
  ELSE Failed

SpendingKept(spender, from, c, amount) == Spending
SpendingLeft(spender, from, c, amount) ==
  IF from \in Users /\ ~SameAccount(spender, from) /\ Allowed(c, from, spender) >= amount
  THEN [Spending EXCEPT ![<<c, from, spender>>] = @ - amount] ELSE Spending

TransferMoney(u, to, c, amount, budget) ==
  /\ IsFungible(c)
  /\ MoveMoney(u, u, to, c, amount, budget)
  /\ UNCHANGED Spending

TransferMoneyFrom(spender, from, to, c, amount, budget) ==
  LET allowed == MoneyAllowed(spender, from, c, amount, budget) IN
  /\ IsFungible(c)
  /\ allowed.ok
  /\ MoveMoney(spender, from, to, c, amount, allowed.left)
  /\ Spending' = SpendingLeft(spender, from, c, amount)

BurnMoney(u, c, amount) ==
  /\ IsFungible(c)
  /\ RemoveMoney(u, c, amount)
  /\ UNCHANGED Spending

BurnMoneyFrom(spender, from, c, amount, budget) ==
  /\ IsFungible(c)
  /\ MoneyAllowed(spender, from, c, amount, budget).ok
  /\ RemoveMoney(from, c, amount)
  /\ Spending' = SpendingLeft(spender, from, c, amount)

\* set_allowance and set_allowance_from, where sender and from are mirrors.
ApproveMoneyFrom(sender, from, c, spender, amount) ==
  /\ IsFungible(c)
  /\ AsSub[sender] = AsSub[from]
  /\ Accessible(c, {sender, from, spender})
  /\ \/ Balance[<<c, from>>] >= amount
     \/ IgnoresRestrictions(sender, c) \/ IgnoresRestrictions(from, c)
  /\ Spending' = [Spending EXCEPT ![<<c, from, spender>>] = amount]
  /\ UNCHANGED <<nftVars, TotalSupply, Balance>>

AllowancesKept(c) == Spending
AllowancesCleared(c) ==
  [p \in CollectionIds \X Users \X Users |-> IF p[1] = c THEN 0 ELSE Spending[p]]
DestroyFungible(u, c) ==
  /\ IsFungible(c)
  /\ TotalSupply[c] = 0
  /\ CommonDestroy(u, c)
  /\ TotalSupply' = [TotalSupply EXCEPT ![c] = 0]
  /\ Balance' = [p \in CollectionIds \X Owners |-> IF p[1] = c THEN 0 ELSE Balance[p]]
  /\ Spending' = AllowancesCleared(c)
  /\ UNCHANGED tokenVars

-----------------------------------------------------------------------------
OwnerLists == {owners \in Batches : \A i, j \in DOMAIN owners : owners[i] = owners[j] => i = j}

MoneyCalls ==
  \E u \in Users, c \in CollectionIds, v \in Values :
    \/ BurnMoney(u, c, v)
    \/ \E from \in Users, spender \in Spenders : ApproveMoneyFrom(u, from, c, spender, v)
    \/ \E b \in Budgets :
         \/ \E to \in Owners : TransferMoney(u, to, c, v, b)
         \/ \E from, to \in Owners : TransferMoneyFrom(u, from, to, c, v, b)
         \/ \E from \in Owners : BurnMoneyFrom(u, from, c, v, b)

CreateMoneyCalls ==
  \E u \in Users, c \in CollectionIds, owners \in OwnerLists, b \in Budgets :
    \E data \in [DOMAIN owners -> Values] : CreateMoney(u, c, owners, data, b)

FtNext ==
  \/ MoneyCalls \/ CreateMoneyCalls
  \/ \E u \in Users, c \in CollectionIds : DestroyFungible(u, c)
  \/ NftNext /\ UNCHANGED ftVars

FtSpec == FtInit /\ [][FtNext]_moneyVars

-----------------------------------------------------------------------------
(* Properties.                                                             *)

BalancesOf(c) == [o \in Owners |-> Balance[<<c, o>>]]

\* The money of a collection is what its owners have, through every transfer, batch
\* with several receivers and burn: TotalSupply and Balance are written apart.
SupplyIsSum == \A c \in CollectionIds : TotalSupply[c] = Sum(BalancesOf(c), Owners)

\* Money is never out of reach: a token that has money exists and lists it as a child,
\* so that it can not be burned, and its collection exists.
MoneyReachable ==
  \A c \in CollectionIds, o \in Owners : Balance[<<c, o>>] > 0 =>
    /\ IsFungible(c)
    /\ o \in Tokens => TokenData[o] # NotFound /\ Money(c) \in TokenChildren[o]

\* A destroyed collection leaves nothing behind in the maps of its pallet.
NothingOutlivesCollection ==
  \A c \in CollectionIds : ~Exists(c) =>
    /\ TokensMinted[c] = 0 /\ TokensBurnt[c] = 0
    /\ \A t \in Tokens : t[1] = c =>
         TokenData[t] = NotFound /\ TokenChildren[t] = {} /\ Allowance[t] = NoSpender
    /\ \A p \in CollectionAllowance : p[1] # c
    /\ TotalSupply[c] = 0 /\ \A o \in Owners : Balance[<<c, o>>] = 0
    /\ \A u, v \in Users : Spending[<<c, u, v>>] = 0

\* Who may take v of an owner's money: the owner's own account, the account at the top
\* of the token that has it, an admin where owner_can_transfer is set, and a spender
\* with an allowance, which the call uses up.
MoneyEntitled(u, c, from, v) ==
  \/ SameAccount(u, from)
  \/ from \in Tokens /\ TopOf(from) = u
  \/ IgnoresRestrictions(u, c)
  \/ Allowed(c, from, u) >= v /\ Allowed(c, from, u)' = Allowed(c, from, u) - v
MoneyTakenBy(u, c, from, v) ==
  \E b \in Budgets :
    \/ BurnMoney(u, c, v) \/ BurnMoneyFrom(u, from, c, v, b)
    \/ \E to \in Owners : TransferMoney(u, to, c, v, b) \/ TransferMoneyFrom(u, from, to, c, v, b)

\* An account's call takes only money that it is entitled to, and uses its allowance up
\* (check_allowed, transfer_from, burn_from).
MoneyTakenByEntitledOnly ==
  [][\A c \in CollectionIds, from \in Owners : Balance'[<<c, from>>] < Balance[<<c, from>>] =>
       LET v == Balance[<<c, from>>] - Balance'[<<c, from>>] IN
       Exists(c) => \A u \in Users : MoneyTakenBy(u, c, from, v) => MoneyEntitled(u, c, from, v)]_moneyVars
=============================================================================
