---------------------------- MODULE Nonfungible ----------------------------
(***************************************************************************)
(* pallets/nonfungible: tokens with one owner, which may be a token they   *)
(* are nested in.  Minting, transfers, burning and approvals, together     *)
(* with the collection calls of Collections.  Amounts are 1: a call with   *)
(* amount 0 checks and changes nothing, except that approving 0 revokes.   *)
(***************************************************************************)
EXTENDS Collections, Structure, Sequences

CONSTANTS
  MaxTokens,        \* bound: token ids of a collection
  MaxBatch,         \* bound: tokens minted by one call
  Budgets,          \* nesting budgets of a call: the 5 of pallet-unique, or by gas
  Spenders,         \* accounts that are approved
  NoSpender         \* Allowance = None

Tokens == CollectionIds \X (1..MaxTokens)
Items == CollectionIds \X (0..MaxTokens)  \* what nests: 0 stands for fungible money
Owners == Users \cup Tokens
NoToken == <<0, 0>>                       \* for_nest = None

ASSUME TokenAssumption ==
  /\ MaxTokens \in Nat /\ MaxBatch \in Nat /\ Budgets \subseteq Nat
  /\ \A u \in Users \cup {NotFound, NoSpender} : u \notin Nat \X Nat
  /\ NotFound \notin Users /\ NoSpender \notin Users /\ Spenders \subseteq Users

VARIABLES
  TokenData,          \* token -> owner, NotFound when it does not exist
  TokenChildren,      \* token -> items nested in it
  Owned,              \* pairs of an owner and a token
  AccountBalance,     \* collection and owner -> number of tokens
  TokensMinted, TokensBurnt,
  Allowance,          \* token -> approved spender
  CollectionAllowance \* collection, owner and the operator of all its tokens

tokenVars == <<TokenData, TokenChildren, Owned, AccountBalance, TokensMinted, TokensBurnt,
               Allowance, CollectionAllowance>>
nftVars == <<collectionVars, tokenVars>>

IsNft(c) == Exists(c) /\ CollectionById[c].mode = "NFT"

-----------------------------------------------------------------------------
(* Rights.  An operator that walks gives the budget that is left.          *)

\* check_nesting for `nestee` under token `under`.  Sender is an account, whose
\* walk is itself; the second walk of an admin goes on with what the first left.
CheckNesting(sender, nestee, under, budget) ==
  LET c == under[1]
      nesting == Permission(c, "nesting")
      walk == GetCheckedTopmostOwner(TokenData, under, nestee, budget)
      again == IF ~nesting.token_owner THEN walk
               ELSE IF walk.ok THEN GetCheckedTopmostOwner(TokenData, under, nestee, walk.left)
               ELSE Failed
  IN  IF ~IsNft(c) \/ nestee[1] \notin nesting.restricted THEN Failed
      ELSE IF nesting.token_owner /\ walk.ok /\ walk.top = sender THEN walk
      ELSE IF nesting.collection_admin /\ IsOwnerOrAdmin(sender, c) THEN again
      ELSE Failed

Spent(budget) == [ok |-> TRUE, top |-> NotFound, left |-> budget]
NestingIfToken(sender, nestee, to, budget) ==
  IF to \in Tokens THEN CheckNesting(sender, nestee, to, budget) ELSE Spent(budget)

Nested(children, under, item) ==
  IF under \in Tokens THEN [children EXCEPT ![under] = @ \cup {item}] ELSE children
Unnested(children, under, item) ==
  IF under \in Tokens THEN [children EXCEPT ![under] = @ \ {item}] ELSE children

AnyTop(spender, from, budget) == Spent(budget)
IndirectlyOwned(spender, from, budget) ==
  LET walk == GetCheckedTopmostOwner(TokenData, from, NoToken, budget) IN
  IF walk.ok /\ walk.top = spender THEN walk ELSE Failed

Approved(spender, from, t) == Allowance[t] = spender \/ <<t[1], from, spender>> \in CollectionAllowance

\* check_allowed.  A nested token can only be taken by the account at its top.
CheckAllowed(spender, from, t, budget) ==
  LET c == t[1]
      mirror == from \in Users /\ AsSub[spender] = AsSub[from]
  IN  IF mirror THEN Spent(budget)
      ELSE IF ~Accessible(c, {spender}) THEN Failed
      ELSE IF IgnoresRestrictions(spender, c) THEN Spent(budget)
      ELSE IF from \in Tokens THEN IndirectlyOwned(spender, from, budget)
      ELSE IF Approved(spender, from, t) THEN Spent(budget)
      ELSE Failed

-----------------------------------------------------------------------------
TokenInit ==
  /\ TokenData = [t \in Tokens |-> NotFound]
  /\ TokenChildren = [t \in Tokens |-> {}]
  /\ Owned = {} /\ CollectionAllowance = {}
  /\ AccountBalance = [p \in CollectionIds \X Owners |-> 0]
  /\ TokensMinted = [c \in CollectionIds |-> 0]
  /\ TokensBurnt = [c \in CollectionIds |-> 0]
  /\ Allowance = [t \in Tokens |-> NoSpender]

NftInit == CollectionInit /\ TokenInit

MayMint(u, c, owners) ==
  \/ IsOwnerOrAdmin(u, c)
  \/ Permission(c, "mint_mode") /\ AllowListed(c, {u} \cup owners)

\* Budget left after checking the nesting of the first i new tokens.
MintChecks(u, c, owners, budget) ==
  LET left[i \in 0..Len(owners)] ==
        IF i = 0 THEN Spent(budget)
        ELSE IF ~left[i - 1].ok THEN Failed
        ELSE NestingIfToken(u, <<c, TokensMinted[c] + i>>, owners[i], left[i - 1].left)
  IN  left[Len(owners)]

CountDistinct(owners, o) == IF \E i \in DOMAIN owners : owners[i] = o THEN 1 ELSE 0
Minted(owners, o) == Cardinality({i \in DOMAIN owners : owners[i] = o})

LastMinted(c) == TokensMinted[c]
MintedAfter(c, owners) == LastMinted(c) + Len(owners)

\* All checks come before the first write, so that no token of the batch can be
\* nested in another one.
CreateMultipleItems(u, c, owners, budget) ==
  LET first == LastMinted(c)
      new == {<<c, first + i>> : i \in DOMAIN owners}
      ownerOf(t) == owners[t[2] - first]
  IN
  /\ IsNft(c)
  /\ MayMint(u, c, {owners[i] : i \in DOMAIN owners})
  /\ first + Len(owners) <= MaxTokens
  /\ MintedAfter(c, owners) <= Limit(c, "token_limit")
  /\ \A i \in DOMAIN owners : AccountBalance[<<c, owners[i]>>] + Minted(owners, owners[i])
       <= Limit(c, "account_token_ownership_limit")
  /\ MintChecks(u, c, owners, budget).ok
  /\ TokenData' = [t \in Tokens |-> IF t \in new THEN ownerOf(t) ELSE TokenData[t]]
  /\ TokenChildren' = [p \in Tokens |-> TokenChildren[p] \cup {t \in new : ownerOf(t) = p}]
  /\ Owned' = Owned \cup {<<ownerOf(t), t>> : t \in new}
  /\ AccountBalance' = [p \in CollectionIds \X Owners |->
       IF p[1] = c THEN AccountBalance[p] + Minted(owners, p[2]) ELSE AccountBalance[p]]
  /\ TokensMinted' = [TokensMinted EXCEPT ![c] = MintedAfter(c, owners)]
  /\ UNCHANGED <<TokensBurnt, Allowance, CollectionAllowance, collectionVars>>

\* transfer_internal: nests under the new owner first, then unnests from the old one.
MovedOwned(from, to, t) == (Owned \ {<<from, t>>}) \cup {<<to, t>>}
NestOnly(from, to, t) == Nested(TokenChildren, to, t)
Renested(from, to, t) == Unnested(Nested(TokenChildren, to, t), from, t)
SameAllowance(t) == Allowance
ClearedAllowance(t) == [Allowance EXCEPT ![t] = NoSpender]

TransferInternal(depositor, from, to, t, budget) ==
  LET c == t[1] IN
  /\ Limit(c, "transfers_enabled")
  /\ TokenData[t] = from
  /\ Accessible(c, {from, to})
  /\ AccountBalance[<<c, from>>] >= 1
  /\ from # to => AccountBalance[<<c, to>>] + 1 <= Limit(c, "account_token_ownership_limit")
  /\ NestingIfToken(depositor, t, to, budget).ok
  /\ TokenChildren' = Renested(from, to, t)
  /\ TokenData' = [TokenData EXCEPT ![t] = to]
  /\ AccountBalance' = IF from = to THEN AccountBalance
       ELSE [AccountBalance EXCEPT ![<<c, from>>] = @ - 1, ![<<c, to>>] = @ + 1]
  /\ Owned' = IF from = to THEN Owned ELSE MovedOwned(from, to, t)
  /\ Allowance' = ClearedAllowance(t)
  /\ UNCHANGED <<TokensMinted, TokensBurnt, CollectionAllowance, collectionVars>>

Transfer(u, to, t, budget) ==
  /\ IsNft(t[1])
  /\ TransferInternal(u, u, to, t, budget)

TransferFrom(spender, from, to, t, budget) ==
  LET allowed == CheckAllowed(spender, from, t, budget) IN
  /\ IsNft(t[1])
  /\ allowed.ok
  /\ TransferInternal(spender, from, to, t, allowed.left)

\* burn: only what has no children can go.
BurnAsOwner(owner, t) ==
  LET c == t[1] IN
  /\ IsNft(c)
  /\ TokenData[t] = owner
  /\ Accessible(c, {owner})
  /\ TokenChildren[t] = {}
  /\ AccountBalance[<<c, owner>>] >= 1
  /\ AccountBalance' = [AccountBalance EXCEPT ![<<c, owner>>] = @ - 1]
  /\ TokenChildren' = Unnested(TokenChildren, owner, t)
  /\ Owned' = Owned \ {<<owner, t>>}
  /\ TokensBurnt' = [TokensBurnt EXCEPT ![c] = @ + 1]
  /\ TokenData' = [TokenData EXCEPT ![t] = NotFound]
  /\ Allowance' = ClearedAllowance(t)
  /\ UNCHANGED <<TokensMinted, CollectionAllowance, collectionVars>>

BurnFrom(spender, from, t, budget) ==
  /\ IsNft(t[1])
  /\ CheckAllowed(spender, from, t, budget).ok
  /\ BurnAsOwner(from, t)

\* set_allowance and set_allowance_from, where sender and from are mirrors.  A
\* collection that lets its admins transfer lets them approve as well.
MayApprove(sender, from, t) ==
  \/ TokenData[t] = from
  \/ IgnoresRestrictions(sender, t[1]) \/ IgnoresRestrictions(from, t[1])
ApproveFrom(sender, from, t, spender) ==
  /\ IsNft(t[1])
  /\ AsSub[sender] = AsSub[from]
  /\ Accessible(t[1], {sender, from} \cup ({spender} \ {NoSpender}))
  /\ TokenData[t] # NotFound
  /\ MayApprove(sender, from, t)
  /\ Allowance' = [Allowance EXCEPT ![t] = spender]
  /\ UNCHANGED <<TokenData, TokenChildren, Owned, AccountBalance, TokensMinted, TokensBurnt,
                 CollectionAllowance, collectionVars>>

SetAllowanceForAll(owner, operator, c, approve) ==
  /\ IsNft(c)
  /\ Accessible(c, {owner, operator})
  /\ CollectionAllowance' = IF approve THEN CollectionAllowance \cup {<<c, owner, operator>>}
                            ELSE CollectionAllowance \ {<<c, owner, operator>>}
  /\ UNCHANGED <<TokenData, TokenChildren, Owned, AccountBalance, TokensMinted, TokensBurnt,
                 Allowance, collectionVars>>

\* destroy_collection: every map of the pallet loses the rows of the collection.
ResetBurnt(c) == [TokensBurnt EXCEPT ![c] = 0]
WithoutOperators(c) == {p \in CollectionAllowance : p[1] # c}
HasTokens(c) == \E t \in Tokens : t[1] = c /\ TokenData[t] # NotFound
DestroyNft(u, c) ==
  /\ IsNft(c)
  /\ ~HasTokens(c)
  /\ CommonDestroy(u, c)
  /\ TokenData' = [t \in Tokens |-> IF t[1] = c THEN NotFound ELSE TokenData[t]]
  /\ TokenChildren' = [t \in Tokens |-> IF t[1] = c THEN {} ELSE TokenChildren[t]]
  /\ Owned' = {p \in Owned : p[2][1] # c}
  /\ TokensMinted' = [TokensMinted EXCEPT ![c] = 0]
  /\ TokensBurnt' = ResetBurnt(c)
  /\ Allowance' = [t \in Tokens |-> IF t[1] = c THEN NoSpender ELSE Allowance[t]]
  /\ AccountBalance' = [p \in CollectionIds \X Owners |-> IF p[1] = c THEN 0 ELSE AccountBalance[p]]
  /\ CollectionAllowance' = WithoutOperators(c)

-----------------------------------------------------------------------------
Batches == UNION {[1..n -> Owners] : n \in 1..MaxBatch}

MintCalls ==
  \E u \in Users, c \in CollectionIds, owners \in Batches, b \in Budgets :
    CreateMultipleItems(u, c, owners, b)
\* Calls that name another owner than the token's fail.
TransferCalls ==
  \E u \in Users, t \in Tokens, to \in Owners, b \in Budgets :
    Transfer(u, to, t, b) \/ \E from \in {TokenData[t]} \cap Owners : TransferFrom(u, from, to, t, b)
BurnCalls ==
  \E u \in Users, t \in Tokens :
    BurnAsOwner(u, t) \/ \E from \in {TokenData[t]} \cap Owners, b \in Budgets : BurnFrom(u, from, t, b)
ApproveCalls ==
  \E u \in Users :
    \/ \E from \in Users, t \in Tokens, spender \in Spenders \cup {NoSpender} : ApproveFrom(u, from, t, spender)
    \/ \E operator \in Spenders, c \in CollectionIds, approve \in BOOLEAN :
         SetAllowanceForAll(u, operator, c, approve)
TokenCalls == MintCalls \/ TransferCalls \/ BurnCalls \/ ApproveCalls

NftNext ==
  \/ TokenCalls
  \/ \E u \in Users, c \in CollectionIds : DestroyNft(u, c)
  \/ Configure /\ UNCHANGED tokenVars

NftSpec == NftInit /\ [][NftNext]_nftVars

-----------------------------------------------------------------------------
Existing == {t \in Tokens : TokenData[t] # NotFound}

\* Index and counters agree with the tokens, through batches with repeated owners,
\* transfers to oneself, burning and destruction: Owned lists every token under its
\* owner, a balance is the number of an owner's tokens, minted less burnt tokens are
\* the existing ones, and none has an id that was not minted yet.
IndexExact ==
  /\ Owned = {<<TokenData[t], t>> : t \in Existing}
  /\ \A c \in CollectionIds :
       /\ \A o \in Owners :
            AccountBalance[<<c, o>>] = Cardinality({t \in Tokens : t[1] = c /\ TokenData[t] = o})
       /\ TokensMinted[c] - TokensBurnt[c] = Cardinality({t \in Existing : t[1] = c})
       /\ \A t \in Existing : t[2] <= TokensMinted[t[1]]

\* A token has no child that is not nested in it: such a child could never be
\* removed and its parent never be burned.
ChildrenAreNested == \A p \in Tokens, t \in Tokens : t \in TokenChildren[p] => TokenData[t] = p

\* No token is nested, directly or indirectly, in itself: every set of tokens has a
\* member whose owner is outside of it.
NoCycle == \A S \in SUBSET Tokens : S # {} => \E t \in S : TokenData[t] \notin S

\* An approval is for the owner's time only: it never survives a change of owner or
\* the token's end.
ApprovalEndsWithOwner ==
  [][\A t \in Tokens : TokenData'[t] # TokenData[t] => Allowance'[t] = NoSpender]_nftVars

\* Who may take a token away, whatever the budget: its owner's own account, the
\* account at the top of the tokens it is nested in, an approved spender or operator,
\* and the collection's owner and admins where owner_can_transfer is set.
TopOf(t) == ParentChain(TokenData, t, Cardinality(Tokens) + 1)[Cardinality(Tokens) + 1]
Entitled(u, t) ==
  \/ TopOf(t) = u
  \/ TokenData[t] \in Users /\ AsSub[TokenData[t]] = AsSub[u]
  \/ Allowance[t] = u \/ <<t[1], TokenData[t], u>> \in CollectionAllowance
  \/ IgnoresRestrictions(u, t[1])
TakenBy(u, t) ==
  \E b \in Budgets :
    IF TokenData'[t] = NotFound THEN BurnAsOwner(u, t) \/ BurnFrom(u, TokenData[t], t, b)
    ELSE Transfer(u, TokenData'[t], t, b) \/ TransferFrom(u, TokenData[t], TokenData'[t], t, b)

\* An account's call takes only tokens that the account is entitled to, at any depth
\* of nesting (check_allowed).
TakenByEntitledOnly ==
  [][\A t \in Existing : TokenData'[t] # TokenData[t] =>
       \A u \in Users : TakenBy(u, t) => Entitled(u, t)]_nftVars

\* What the documentation of burn says: a burned token has no nested tokens, so that
\* the parent of a nested token exists.
NestedParentExists == \A t \in Existing : TokenData[t] \in Tokens => TokenData[t] \in Existing
=============================================================================
