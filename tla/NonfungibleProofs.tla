------------------------- MODULE NonfungibleProofs -------------------------
(***************************************************************************)
(* Proofs about nonfungible tokens, for any number of accounts,            *)
(* collections and tokens, any batches and any nesting budget.             *)
(***************************************************************************)
EXTENDS Nonfungible, SumTheorems, TLAPS

\* The provers of a leaf that names none: the solver, given time for the larger ones, then Zenon.
USE SMTT(15), ZenonT(10)

-----------------------------------------------------------------------------
(* Walking up from a token.                                                *)

\* The parent of what a walk has reached.
Up(owner, x) == IF x \in DOMAIN owner THEN owner[x] ELSE x
IsChain(p, owner, t, n) == p = [i \in 0..n |-> IF i = 0 THEN t ELSE Up(owner, p[i - 1])]

\* Chains of any length exist, so that ParentChain is one.
LEMMA ChainExists ==
  ASSUME NEW owner, NEW t, NEW n \in Nat
  PROVE  \E p : IsChain(p, owner, t, n)
<1> DEFINE Chains == {k \in Nat : \E p : IsChain(p, owner, t, k)}
<1>1. 0 \in Chains
  <2> DEFINE p == [i \in 0..0 |-> t]
  <2>1. p = [i \in 0..0 |-> IF i = 0 THEN t ELSE Up(owner, p[i - 1])]
    OBVIOUS
  <2> QED BY <2>1, Zenon DEF IsChain
<1>2. ASSUME NEW k \in Chains PROVE k + 1 \in Chains
  <2>1. PICK p : p = [i \in 0..k |-> IF i = 0 THEN t ELSE Up(owner, p[i - 1])]
    BY <1>2, Zenon DEF IsChain
  <2> DEFINE q == [i \in 0..k + 1 |-> IF i <= k THEN p[i] ELSE Up(owner, p[k])]
             r == [i \in 0..k + 1 |-> IF i = 0 THEN t ELSE Up(owner, q[i - 1])]
  <2>2. ASSUME NEW i \in 0..k + 1 PROVE q[i] = r[i]
    <3>1. CASE i = 0
      BY <2>1, <3>1
    <3>2. CASE i # 0 /\ i <= k
      <4>1. q[i] = Up(owner, p[i - 1]) /\ q[i - 1] = p[i - 1]
        BY <2>1, <3>2
      <4> QED BY <3>2, <4>1, Zenon
    <3>3. CASE i = k + 1
      <4>1. q[i] = Up(owner, p[k]) /\ q[i - 1] = p[k]
        BY <3>3
      <4> QED BY <3>3, <4>1
    <3> QED BY <3>1, <3>2, <3>3
  <2>3. q = r
    BY <2>2, Zenon
  <2>4. IsChain(q, owner, t, k + 1)
    BY <2>3, Zenon DEF IsChain
  <2> HIDE DEF q
  <2> QED BY <2>4
<1>3. Chains = Nat
  <2> HIDE DEF Chains
  <2>1. Chains \in SUBSET Nat
    BY Zenon DEF Chains
  <2> QED BY <1>1, <1>2, <2>1, InductiveSet, Zenon
<1> QED BY <1>3, Zenon

\* A chain starts at the token and goes on to the parent.
LEMMA ChainStep ==
  ASSUME NEW owner, NEW t, NEW n \in Nat
  PROVE  /\ ParentChain(owner, t, n)[0] = t
         /\ \A i \in 1..n : ParentChain(owner, t, n)[i] = Up(owner, ParentChain(owner, t, n)[i - 1])
<1> DEFINE c == CHOOSE p : IsChain(p, owner, t, n)
<1>1. IsChain(c, owner, t, n)
  BY ChainExists, Zenon
<1>2. ParentChain(owner, t, n) = c
  BY Zenon DEF ParentChain, Up, IsChain
<1>3. c[0] = t /\ \A i \in 1..n : c[i] = Up(owner, c[i - 1])
  <2> HIDE DEF c
  <2> QED BY <1>1 DEF IsChain
<1> HIDE DEF c
<1> QED BY <1>2, <1>3, Zenon

\* What a successful walk has seen: the steps from the token to the account at the top,
\* none of them at the nestee.
WalkPath(owner, t, nestee, p, n, top) ==
  /\ p[0] = t /\ \A i \in 1..n : p[i] = Up(owner, p[i - 1])
  /\ p[n] = top /\ top \notin DOMAIN owner /\ top # NotFound
  /\ \A i \in 1..n - 1 : p[i] \in DOMAIN owner
  /\ \A i \in 0..n - 1 : p[i] # nestee

LEMMA WalkFacts ==
  ASSUME NEW owner, NEW t, NEW nestee, NEW budget \in Nat,
         GetCheckedTopmostOwner(owner, t, nestee, budget).ok
  PROVE  LET walk == GetCheckedTopmostOwner(owner, t, nestee, budget) IN
         /\ walk.left \in Nat
         /\ \E p : \E n \in Nat \ {0} : WalkPath(owner, t, nestee, p, n, walk.top)
<1> DEFINE walk == GetCheckedTopmostOwner(owner, t, nestee, budget)
           p == ParentChain(owner, t, budget)
           E == Exits(owner, t, budget)
           n == FirstExit(owner, t, budget)
<1>1. E # {} /\ p[n] # NotFound /\ AvoidsNestee(owner, t, nestee, budget)
      /\ walk = [ok |-> TRUE, top |-> p[n], left |-> budget - n]
  BY Zenon DEF GetCheckedTopmostOwner, Failed
<1>2. E \in SUBSET Nat /\ E \in SUBSET (1..budget)
  BY DEF Exits
<1>3. \E e \in E : \A m \in E : e <= m
  BY <1>1, <1>2, LeastNatural, Zenon
<1>4. n \in E /\ \A m \in E : n <= m
  BY <1>3, Zenon DEF FirstExit
<1>5. n \in 1..budget /\ p[n] \notin DOMAIN owner /\ \A i \in 1..n - 1 : p[i] \in DOMAIN owner
  BY <1>2, <1>4 DEF Exits
<1>6. p[0] = t /\ \A i \in 1..budget : p[i] = Up(owner, p[i - 1])
  BY ChainStep
<1>7. t # nestee /\ \A i \in 1..n - 1 : p[i] # nestee
  BY <1>1, Zenon DEF AvoidsNestee
<1> HIDE DEF p, n, E, walk
<1>8. \A i \in 0..n - 1 : p[i] # nestee
  BY <1>5, <1>6, <1>7
<1>9. WalkPath(owner, t, nestee, p, n, p[n])
  BY <1>1, <1>5, <1>6, <1>8 DEF WalkPath
<1>10. walk.left \in Nat /\ walk.top = p[n] /\ n \in Nat \ {0}
  BY <1>1, <1>5
<1> QED BY <1>9, <1>10, Zenon DEF walk

\* A walk does not get out of a set of tokens that every owner leads back into, but by
\* the nestee or a token that does not exist.
LEMMA WalkLeaves ==
  ASSUME NEW owner, NotFound \notin DOMAIN owner, NEW t, NEW nestee, NEW budget \in Nat,
         GetCheckedTopmostOwner(owner, t, nestee, budget).ok,
         NEW S \in SUBSET DOMAIN owner, t \in S,
         \A s \in S : s = nestee \/ owner[s] = NotFound \/ owner[s] \in S
  PROVE  FALSE
<1>0. PICK top, p : \E n \in Nat \ {0} : WalkPath(owner, t, nestee, p, n, top)
  BY WalkFacts, Zenon
<1>1. PICK n \in Nat \ {0} : WalkPath(owner, t, nestee, p, n, top)
  BY <1>0, Zenon
<1> DEFINE G == {i \in Nat : i <= n => p[i] \in S}
<1>2. 0 \in G
  BY <1>1, Zenon DEF WalkPath
<1>3. ASSUME NEW i \in G PROVE i + 1 \in G
  <2> SUFFICES ASSUME i + 1 <= n PROVE p[i + 1] \in S
    OBVIOUS
  <2>1. i \in Nat /\ p[i] \in S
    BY <1>3
  <2>2. p[i] # nestee /\ p[i + 1] = owner[p[i]]
    BY <1>1, <2>1 DEF WalkPath, Up
  <2>3. p[i + 1] # NotFound
    <3>1. CASE i + 1 = n
      BY <1>1, <3>1, Zenon DEF WalkPath
    <3>2. CASE i + 1 < n
      BY <1>1, <2>1, <3>2 DEF WalkPath
    <3> QED BY <2>1, <3>1, <3>2
  <2> QED BY <2>1, <2>2, <2>3, Zenon
<1>4. G = Nat
  <2>1. G \in SUBSET Nat
    BY Zenon
  <2> HIDE DEF G
  <2> QED BY <1>2, <1>3, <2>1, InductiveSet, Zenon
<1>5. p[n] \in S
  BY <1>4
<1> QED BY <1>1, <1>5, Zenon DEF WalkPath

-----------------------------------------------------------------------------
(* The shapes of a step.                                                   *)

\* Accounts, tokens and the marks of what is missing are told apart.
LEMMA Kinds ==
  /\ IsFiniteSet(Tokens) /\ Tokens \subseteq CollectionIds \X Nat /\ Tokens \subseteq Owners
  /\ \A t \in Tokens : t[1] \in CollectionIds /\ t[2] \in Nat /\ t = <<t[1], t[2]>> /\ t[2] <= MaxTokens
  /\ \A c \in CollectionIds, n \in 1..MaxTokens : <<c, n>> \in Tokens
  /\ Tokens \cap Users = {} /\ NotFound \notin Owners /\ NoSpender \notin Users
  /\ Owners = Users \cup Tokens /\ NoToken \notin Tokens /\ Tokens \subseteq Items
  /\ \A c : <<c, 0>> \notin Tokens
<1>1. IsFiniteSet(CollectionIds) /\ IsFiniteSet(1..MaxTokens)
  BY CollectionAssumption, TokenAssumption, FS_Interval DEF CollectionIds
<1>2. IsFiniteSet(Tokens)
  BY <1>1, FS_Product, Zenon DEF Tokens
<1>3. CollectionIds \subseteq Nat /\ MaxTokens \in Nat /\ 0 \notin CollectionIds
  BY CollectionAssumption, TokenAssumption DEF CollectionIds
<1>4. Tokens \subseteq CollectionIds \X Nat /\ Tokens \subseteq Nat \X Nat
  <2>1. \A A, B, C, D : A \subseteq B /\ C \subseteq D => A \X C \subseteq B \X D
    BY Zenon
  <2>2. 1..MaxTokens \subseteq Nat
    BY <1>3
  <2> QED BY <1>3, <2>1, <2>2, Zenon DEF Tokens
<1>5. Tokens \cap Users = {} /\ NotFound \notin Tokens
  BY <1>4, TokenAssumption, Zenon
<1>6. NoToken \notin Tokens /\ Tokens \subseteq Items /\ \A c : <<c, 0>> \notin Tokens
  BY <1>3 DEF NoToken, Tokens, Items
<1>7. \A t \in Tokens : t[1] \in CollectionIds /\ t[2] \in Nat /\ t = <<t[1], t[2]>> /\ t[2] <= MaxTokens
  BY <1>3 DEF Tokens
<1>8. \A c \in CollectionIds, n \in 1..MaxTokens : <<c, n>> \in Tokens
  BY Zenon DEF Tokens
<1> QED BY <1>2, <1>4, <1>5, <1>6, <1>7, <1>8, TokenAssumption, Zenon DEF Owners

\* A nonnegative budget is left after every check.
LEMMA AllowedLeft ==
  ASSUME NEW u, NEW from, NEW t, NEW b \in Nat, CheckAllowed(u, from, t, b).ok
  PROVE  CheckAllowed(u, from, t, b).left \in Nat
<1>1. Spent(b).left \in Nat /\ ~Failed.ok
  BY Zenon DEF Spent, Failed
<1>2. IndirectlyOwned(u, from, b).ok => IndirectlyOwned(u, from, b).left \in Nat
  BY <1>1, WalkFacts, Zenon DEF IndirectlyOwned
<1> QED BY <1>1, <1>2, Zenon DEF CheckAllowed

\* Minting, moving, burning, approving, destroying and configuring is all there is.
Approves ==
  /\ UNCHANGED <<TokenData, TokenChildren, Owned, AccountBalance, TokensMinted, TokensBurnt,
                 collectionVars>>
  /\ \/ /\ UNCHANGED CollectionAllowance
        /\ \E t \in Tokens, spender \in Users \cup {NoSpender} :
             /\ IsNft(t[1]) /\ TokenData[t] # NotFound
             /\ Allowance' = [Allowance EXCEPT ![t] = spender]
     \/ /\ UNCHANGED Allowance
        /\ \E c \in CollectionIds, owner, operator \in Users :
             /\ IsNft(c)
             /\ \/ CollectionAllowance' = CollectionAllowance \cup {<<c, owner, operator>>}
                \/ CollectionAllowance' = CollectionAllowance \ {<<c, owner, operator>>}

LEMMA NftSteps ==
  ASSUME NftNext
  PROVE  \/ \E u \in Users, c \in CollectionIds, owners \in Batches, b \in Nat :
              CreateMultipleItems(u, c, owners, b)
         \/ \E u \in Users, from, to \in Owners, t \in Tokens, b \in Nat :
              IsNft(t[1]) /\ TransferInternal(u, from, to, t, b)
         \/ \E owner \in Owners, t \in Tokens : BurnAsOwner(owner, t)
         \/ Approves
         \/ \E u \in Users, c \in CollectionIds : DestroyNft(u, c)
         \/ Configure /\ UNCHANGED tokenVars
<1>0. Budgets \subseteq Nat /\ Users \subseteq Owners /\ Spenders \subseteq Users
  BY TokenAssumption, Zenon DEF Owners
<1>1. ASSUME MintCalls
      PROVE  \E u \in Users, c \in CollectionIds, owners \in Batches, b \in Nat :
               CreateMultipleItems(u, c, owners, b)
  BY <1>0, <1>1, Zenon DEF MintCalls
<1>2. ASSUME TransferCalls
      PROVE  \E u \in Users, from, to \in Owners, t \in Tokens, b \in Nat :
               IsNft(t[1]) /\ TransferInternal(u, from, to, t, b)
  <2>1. PICK u \in Users, t \in Tokens, to \in Owners, b \in Budgets :
          \/ Transfer(u, to, t, b)
          \/ \E from \in {TokenData[t]} \cap Owners : TransferFrom(u, from, to, t, b)
    BY <1>2, Zenon DEF TransferCalls
  <2>2. CASE Transfer(u, to, t, b)
    BY <1>0, <2>2, Zenon DEF Transfer
  <2>3. CASE \E from \in Owners : TransferFrom(u, from, to, t, b)
    <3>1. PICK from \in Owners : TransferFrom(u, from, to, t, b)
      BY <2>3, Zenon
    <3>2. IsNft(t[1]) /\ CheckAllowed(u, from, t, b).ok
          /\ TransferInternal(u, from, to, t, CheckAllowed(u, from, t, b).left)
      BY <3>1, Zenon DEF TransferFrom
    <3>3. CheckAllowed(u, from, t, b).left \in Nat
      BY <1>0, <3>2, AllowedLeft, Zenon
    <3> QED BY <3>2, <3>3, Zenon
  <2> QED BY <2>1, <2>2, <2>3, Zenon
<1>3. ASSUME BurnCalls PROVE \E owner \in Owners, t \in Tokens : BurnAsOwner(owner, t)
  BY <1>0, <1>3, Zenon DEF BurnCalls, BurnFrom
<1>4. ASSUME ApproveCalls PROVE Approves
  <2>1. PICK u \in Users :
          \/ \E from \in Users, t \in Tokens, spender \in Spenders \cup {NoSpender} :
               ApproveFrom(u, from, t, spender)
          \/ \E operator \in Spenders, c \in CollectionIds, approve \in BOOLEAN :
               SetAllowanceForAll(u, operator, c, approve)
    BY <1>4, Zenon DEF ApproveCalls
  <2>2. ASSUME NEW from \in Users, NEW t \in Tokens, NEW spender \in Spenders \cup {NoSpender},
               ApproveFrom(u, from, t, spender)
        PROVE  Approves
    <3>1. /\ UNCHANGED <<TokenData, TokenChildren, Owned, AccountBalance, TokensMinted, TokensBurnt,
                         CollectionAllowance, collectionVars>>
          /\ IsNft(t[1]) /\ TokenData[t] # NotFound
          /\ Allowance' = [Allowance EXCEPT ![t] = spender]
      BY <2>2, Zenon DEF ApproveFrom
    <3> QED BY <1>0, <3>1, Zenon DEF Approves
  <2>3. ASSUME NEW operator \in Spenders, NEW c \in CollectionIds, NEW approve \in BOOLEAN,
               SetAllowanceForAll(u, operator, c, approve)
        PROVE  Approves
    <3>1. /\ UNCHANGED <<TokenData, TokenChildren, Owned, AccountBalance, TokensMinted, TokensBurnt,
                         Allowance, collectionVars>>
          /\ IsNft(c)
          /\ \/ CollectionAllowance' = CollectionAllowance \cup {<<c, u, operator>>}
             \/ CollectionAllowance' = CollectionAllowance \ {<<c, u, operator>>}
      BY <2>3, Zenon DEF SetAllowanceForAll
    <3> QED BY <1>0, <3>1, Zenon DEF Approves
  <2> QED BY <2>1, <2>2, <2>3, Zenon
<1> QED BY <1>1, <1>2, <1>3, <1>4, Zenon DEF NftNext, TokenCalls

-----------------------------------------------------------------------------
(* Types.                                                                  *)

NftTypes ==
  /\ TokenData \in [Tokens -> Owners \cup {NotFound}]
  /\ TokenChildren \in [Tokens -> SUBSET Items]
  /\ AccountBalance \in [CollectionIds \X Owners -> Nat]
  /\ TokensMinted \in [CollectionIds -> Nat] /\ TokensBurnt \in [CollectionIds -> Nat]
  /\ Allowance \in [Tokens -> Users \cup {NoSpender}]
  /\ CollectionAllowance \in SUBSET (CollectionIds \X Users \X Users)

\* A batch is a sequence of owners, and each receives a natural number of tokens.
LEMMA BatchFacts ==
  ASSUME NEW owners \in Batches
  PROVE  /\ Len(owners) \in Nat \ {0} /\ DOMAIN owners = 1..Len(owners)
         /\ \A i \in DOMAIN owners : owners[i] \in Owners
         /\ IsFiniteSet(DOMAIN owners)
         /\ \A o : IsFiniteSet({i \in DOMAIN owners : owners[i] = o}) /\ Minted(owners, o) \in Nat
<1>1. PICK n \in 1..MaxBatch : owners \in [1..n -> Owners]
  BY Zenon DEF Batches
<1>2. n \in Nat \ {0}
  BY TokenAssumption
<1>3. owners \in Seq(Owners) /\ Len(owners) = n
  BY <1>1, <1>2
<1>4. IsFiniteSet(DOMAIN owners)
  BY <1>1, <1>2, FS_Interval
<1>5. ASSUME NEW o
      PROVE  IsFiniteSet({i \in DOMAIN owners : owners[i] = o}) /\ Minted(owners, o) \in Nat
  <2> DEFINE I == {i \in DOMAIN owners : owners[i] = o}
  <2>1. IsFiniteSet(I)
    BY <1>4, FS_Subset, Zenon
  <2> QED BY <2>1, FS_CardinalityType, Zenon DEF Minted
<1> QED BY <1>1, <1>2, <1>3, <1>4, <1>5, Zenon

\* The tokens of a batch have the next ids, which were not in use.
BatchTokens(c, owners) == {<<c, TokensMinted[c] + i>> : i \in DOMAIN owners}

LEMMA NewFacts ==
  ASSUME NftTypes, NEW c \in CollectionIds, NEW owners \in Batches, NEW u, NEW b,
         CreateMultipleItems(u, c, owners, b)
  PROVE  /\ TokensMinted[c] \in Nat
         /\ BatchTokens(c, owners) \in SUBSET Tokens
         /\ \A t \in BatchTokens(c, owners) :
              /\ t[1] = c /\ t[2] - TokensMinted[c] \in DOMAIN owners /\ t[2] > TokensMinted[c]
              /\ t[2] <= TokensMinted[c] + Len(owners)
         /\ TokenData' = [t \in Tokens |-> IF t \in BatchTokens(c, owners)
                            THEN owners[t[2] - TokensMinted[c]] ELSE TokenData[t]]
         /\ TokenChildren' = [p \in Tokens |-> TokenChildren[p] \cup
              {t \in BatchTokens(c, owners) : owners[t[2] - TokensMinted[c]] = p}]
         /\ Owned' = Owned \cup {<<owners[t[2] - TokensMinted[c]], t>> : t \in BatchTokens(c, owners)}
         /\ AccountBalance' = [p \in CollectionIds \X Owners |->
              IF p[1] = c THEN AccountBalance[p] + Minted(owners, p[2]) ELSE AccountBalance[p]]
         /\ TokensMinted' = [TokensMinted EXCEPT ![c] = TokensMinted[c] + Len(owners)]
         /\ UNCHANGED <<TokensBurnt, Allowance, CollectionAllowance, collectionVars>>
<1>1. TokensMinted[c] \in Nat /\ TokensMinted[c] + Len(owners) <= MaxTokens
  BY Zenon DEF NftTypes, CreateMultipleItems, LastMinted
<1>2. Len(owners) \in Nat /\ DOMAIN owners = 1..Len(owners) /\ MaxTokens \in Nat
  BY BatchFacts, TokenAssumption, Zenon
<1>3. \A i \in DOMAIN owners : TokensMinted[c] + i \in 1..MaxTokens
  BY <1>1, <1>2
<1>4. BatchTokens(c, owners) \in SUBSET Tokens
  BY <1>3, Kinds, Zenon DEF BatchTokens
<1>5. \A t \in BatchTokens(c, owners) :
        /\ t[1] = c /\ t[2] - TokensMinted[c] \in DOMAIN owners /\ t[2] > TokensMinted[c]
        /\ t[2] <= TokensMinted[c] + Len(owners)
  BY <1>1, <1>2 DEF BatchTokens
<1>6. /\ TokenData' = [t \in Tokens |-> IF t \in BatchTokens(c, owners)
                            THEN owners[t[2] - TokensMinted[c]] ELSE TokenData[t]]
      /\ TokenChildren' = [p \in Tokens |-> TokenChildren[p] \cup
              {t \in BatchTokens(c, owners) : owners[t[2] - TokensMinted[c]] = p}]
      /\ Owned' = Owned \cup {<<owners[t[2] - TokensMinted[c]], t>> : t \in BatchTokens(c, owners)}
  BY Zenon DEF CreateMultipleItems, LastMinted, BatchTokens
<1>7. /\ AccountBalance' = [p \in CollectionIds \X Owners |->
              IF p[1] = c THEN AccountBalance[p] + Minted(owners, p[2]) ELSE AccountBalance[p]]
      /\ TokensMinted' = [TokensMinted EXCEPT ![c] = TokensMinted[c] + Len(owners)]
      /\ UNCHANGED <<TokensBurnt, Allowance, CollectionAllowance, collectionVars>>
  BY Zenon DEF CreateMultipleItems, LastMinted, MintedAfter
<1> QED BY <1>1, <1>4, <1>5, <1>6, <1>7, Zenon

LEMMA NftTypesInit == NftInit => NftTypes
BY Kinds DEF NftInit, TokenInit, NftTypes

LEMMA NftTypesNext == NftTypes /\ [NftNext]_nftVars => NftTypes'
<1> SUFFICES ASSUME NftTypes, [NftNext]_nftVars PROVE NftTypes'
  BY Zenon
<1>1. ASSUME NEW u \in Users, NEW c \in CollectionIds, NEW owners \in Batches, NEW b \in Nat,
             CreateMultipleItems(u, c, owners, b)
      PROVE  NftTypes'
  <2> DEFINE new == BatchTokens(c, owners)
             own(t) == owners[t[2] - TokensMinted[c]]
  <2>1. /\ TokensMinted[c] \in Nat /\ new \in SUBSET Tokens
        /\ \A t \in new : t[2] - TokensMinted[c] \in DOMAIN owners
        /\ TokenData' = [t \in Tokens |-> IF t \in new THEN own(t) ELSE TokenData[t]]
        /\ TokenChildren' = [p \in Tokens |-> TokenChildren[p] \cup {t \in new : own(t) = p}]
        /\ AccountBalance' = [p \in CollectionIds \X Owners |->
             IF p[1] = c THEN AccountBalance[p] + Minted(owners, p[2]) ELSE AccountBalance[p]]
        /\ TokensMinted' = [TokensMinted EXCEPT ![c] = TokensMinted[c] + Len(owners)]
        /\ UNCHANGED <<TokensBurnt, Allowance, CollectionAllowance>>
    BY <1>1, NewFacts, ZenonT(60)
  <2>2. \A t \in new : own(t) \in Owners
    BY <2>1, BatchFacts, Zenon
  <2>3. TokenData' \in [Tokens -> Owners \cup {NotFound}]
    <3> HIDE DEF new, own
    <3> QED BY <2>1, <2>2, Zenon DEF NftTypes
  <2>4. TokenChildren' \in [Tokens -> SUBSET Items]
    <3> HIDE DEF new, own
    <3>1. \A p \in Tokens : {t \in new : own(t) = p} \subseteq Items
      BY <2>1, Kinds, Zenon
    <3> QED BY <2>1, <3>1, Zenon DEF NftTypes
  <2>5. AccountBalance' \in [CollectionIds \X Owners -> Nat]
    <3>1. \A o : Minted(owners, o) \in Nat
      BY BatchFacts, Zenon
    <3> QED BY <2>1, <3>1 DEF NftTypes
  <2>6. TokensMinted' \in [CollectionIds -> Nat]
    BY <2>1, BatchFacts DEF NftTypes
  <2> QED BY <2>1, <2>3, <2>4, <2>5, <2>6, Zenon DEF NftTypes
<1>2. ASSUME NEW u \in Users, NEW from \in Owners, NEW to \in Owners, NEW t \in Tokens, NEW b \in Nat,
             TransferInternal(u, from, to, t, b)
      PROVE  NftTypes'
  <2>1. /\ TokenChildren' = Renested(from, to, t) /\ TokenData' = [TokenData EXCEPT ![t] = to]
        /\ AccountBalance' = IF from = to THEN AccountBalance
             ELSE [AccountBalance EXCEPT ![<<t[1], from>>] = @ - 1, ![<<t[1], to>>] = @ + 1]
        /\ AccountBalance[<<t[1], from>>] >= 1
        /\ Allowance' = [Allowance EXCEPT ![t] = NoSpender]
        /\ UNCHANGED <<TokensMinted, TokensBurnt, CollectionAllowance>>
    BY <1>2, Zenon DEF TransferInternal, ClearedAllowance
  <2>2. TokenChildren' \in [Tokens -> SUBSET Items]
    BY <2>1, Kinds, ZenonT(60) DEF NftTypes, Renested, Nested, Unnested
  <2>3. AccountBalance' \in [CollectionIds \X Owners -> Nat]
    <3>1. <<t[1], from>> \in CollectionIds \X Owners /\ <<t[1], to>> \in CollectionIds \X Owners
      BY Kinds, Zenon
    <3>2. from # to => <<t[1], from>> # <<t[1], to>>
      BY Zenon
    <3> QED BY <2>1, <3>1, <3>2 DEF NftTypes
  <2> QED BY <2>1, <2>2, <2>3, Zenon DEF NftTypes
<1>3. ASSUME NEW owner \in Owners, NEW t \in Tokens, BurnAsOwner(owner, t)
      PROVE  NftTypes'
  <2>1. /\ AccountBalance' = [AccountBalance EXCEPT ![<<t[1], owner>>] = @ - 1]
        /\ AccountBalance[<<t[1], owner>>] >= 1
        /\ TokenChildren' = Unnested(TokenChildren, owner, t)
        /\ TokensBurnt' = [TokensBurnt EXCEPT ![t[1]] = @ + 1]
        /\ TokenData' = [TokenData EXCEPT ![t] = NotFound]
        /\ Allowance' = [Allowance EXCEPT ![t] = NoSpender]
        /\ UNCHANGED <<TokensMinted, CollectionAllowance>>
    BY <1>3, Zenon DEF BurnAsOwner, ClearedAllowance
  <2>2. TokenChildren' \in [Tokens -> SUBSET Items]
    BY <2>1, Zenon DEF NftTypes, Unnested
  <2>3. t[1] \in CollectionIds /\ <<t[1], owner>> \in CollectionIds \X Owners
    BY Kinds, Zenon
  <2>4. AccountBalance' \in [CollectionIds \X Owners -> Nat] /\ TokensBurnt' \in [CollectionIds -> Nat]
    BY <2>1, <2>3 DEF NftTypes
  <2> QED BY <2>1, <2>2, <2>4, Zenon DEF NftTypes
<1>4. CASE Approves
  <2>1. UNCHANGED <<TokenData, TokenChildren, AccountBalance, TokensMinted, TokensBurnt>>
    BY <1>4, Zenon DEF Approves
  <2>2. Allowance' \in [Tokens -> Users \cup {NoSpender}]
    BY <1>4, Zenon DEF Approves, NftTypes
  <2>3. CollectionAllowance' \in SUBSET (CollectionIds \X Users \X Users)
    BY <1>4 DEF Approves, NftTypes
  <2> QED BY <2>1, <2>2, <2>3, Zenon DEF NftTypes
<1>5. ASSUME NEW u \in Users, NEW c \in CollectionIds, DestroyNft(u, c) PROVE NftTypes'
  BY <1>5, Zenon DEF DestroyNft, NftTypes, ResetBurnt, WithoutOperators
<1>6. CASE UNCHANGED tokenVars
  BY <1>6, Zenon DEF tokenVars, NftTypes
<1> QED BY <1>1, <1>2, <1>3, <1>4, <1>5, <1>6, NftSteps, Zenon DEF nftVars

-----------------------------------------------------------------------------
(* Index and counters.                                                     *)

HeldIn(data, c, o) == {t \in Tokens : t[1] = c /\ data[t] = o}
Holds(c, o) == HeldIn(TokenData, c, o)
LiveIn(c) == {t \in Existing : t[1] = c}

\* Ids that are shifted, in one collection, are as many as before.
Shifted(c, f, I) == {<<c, f + i>> : i \in I}
LEMMA ShiftedIds ==
  ASSUME NEW I \in SUBSET Nat, IsFiniteSet(I), NEW c, NEW f \in Nat
  PROVE  IsFiniteSet(Shifted(c, f, I)) /\ Cardinality(Shifted(c, f, I)) = Cardinality(I)
<1> DEFINE T == {<<c, f + i>> : i \in I}
           s == [i \in I |-> <<c, f + i>>]
<1>1. s \in Surjection(I, T)
  BY Zenon DEF Surjection
<1>2. s \in Injection(I, T)
  <2>1. s \in [I -> T]
    BY Zenon
  <2>2. \A i, j \in I : s[i] = s[j] => i = j
    OBVIOUS
  <2> HIDE DEF s, T
  <2> QED BY <2>1, <2>2, Zenon DEF Injection, IsInjective
<1> HIDE DEF s, T
<1>3. IsFiniteSet(T) /\ Cardinality(T) = Cardinality(I)
  BY <1>1, <1>2, FS_Surjection, Zenon
<1> QED BY <1>3, Zenon DEF T, Shifted

\* Sets of tokens are finite.
LEMMA FiniteTokens ==
  /\ \A S \in SUBSET Tokens : IsFiniteSet(S) /\ Cardinality(S) \in Nat
  /\ \A c, o : Holds(c, o) \in SUBSET Tokens /\ LiveIn(c) \in SUBSET Tokens
<1>1. IsFiniteSet(Tokens)
  BY Kinds, Zenon
<1> QED BY <1>1, FS_Subset, FS_CardinalityType, Zenon DEF Holds, HeldIn, LiveIn, Existing

\* The tokens of every owner are counted in AccountBalance, those of a collection by the
\* ids minted and burnt.
IndexOf(c) ==
  /\ \A o \in Owners : AccountBalance[<<c, o>>] = Cardinality(Holds(c, o))
  /\ TokensMinted[c] - TokensBurnt[c] = Cardinality(LiveIn(c))

LEMMA IndexForm ==
  IndexExact <=>
    /\ Owned = {<<TokenData[t], t>> : t \in Existing}
    /\ \A c \in CollectionIds : IndexOf(c)
    /\ \A c \in CollectionIds : \A t \in Existing : t[2] <= TokensMinted[t[1]]
BY Zenon DEF IndexExact, IndexOf, Holds, HeldIn, LiveIn

\* Minting keeps the index exact.
LEMMA IndexMint ==
  ASSUME NftTypes, IndexExact, NEW c \in CollectionIds, NEW owners \in Batches, NEW u, NEW b,
         CreateMultipleItems(u, c, owners, b)
  PROVE  IndexExact'
<1> DEFINE first == TokensMinted[c]
           new == BatchTokens(c, owners)
           own(t) == owners[t[2] - first]
<1>1. /\ first \in Nat /\ new \in SUBSET Tokens
      /\ \A t \in new : t[1] = c /\ t[2] - first \in DOMAIN owners /\ t[2] > first
                        /\ t[2] <= first + Len(owners)
      /\ TokenData' = [t \in Tokens |-> IF t \in new THEN own(t) ELSE TokenData[t]]
      /\ Owned' = Owned \cup {<<own(t), t>> : t \in new}
      /\ AccountBalance' = [p \in CollectionIds \X Owners |->
           IF p[1] = c THEN AccountBalance[p] + Minted(owners, p[2]) ELSE AccountBalance[p]]
      /\ TokensMinted' = [TokensMinted EXCEPT ![c] = first + Len(owners)]
      /\ TokensBurnt' = TokensBurnt
  BY NewFacts, Zenon
<1>2. /\ Len(owners) \in Nat /\ DOMAIN owners = 1..Len(owners)
      /\ \A i \in DOMAIN owners : owners[i] \in Owners
      /\ IsFiniteSet(DOMAIN owners)
      /\ \A o : IsFiniteSet({i \in DOMAIN owners : owners[i] = o}) /\ Minted(owners, o) \in Nat
  BY BatchFacts, Zenon
<1>3. /\ Owned = {<<TokenData[t], t>> : t \in Existing}
      /\ \A d \in CollectionIds : IndexOf(d)
      /\ \A t \in Existing : t[2] <= TokensMinted[t[1]]
  BY IndexForm, CollectionAssumption, Kinds, Zenon DEF Existing
<1>4. /\ TokenData \in [Tokens -> Owners \cup {NotFound}]
      /\ AccountBalance \in [CollectionIds \X Owners -> Nat]
      /\ TokensMinted \in [CollectionIds -> Nat] /\ TokensBurnt \in [CollectionIds -> Nat]
  BY Zenon DEF NftTypes
<1>4a. /\ \A d \in CollectionIds : TokensMinted'[d] = IF d = c THEN first + Len(owners) ELSE TokensMinted[d]
       /\ \A d \in CollectionIds : TokensMinted[d] \in Nat
       /\ TokensBurnt' = TokensBurnt /\ Len(owners) \in Nat
  BY <1>1, <1>2, <1>4, Zenon
<1>5. \A t \in new : TokenData[t] = NotFound /\ own(t) \in Owners /\ own(t) # NotFound
  <2>1. \A t \in new : t \notin Existing
    BY <1>1, <1>3, <1>4, Kinds
  <2>2. \A t \in new : own(t) \in Owners
    BY <1>1, <1>2, Zenon
  <2> HIDE DEF own, new
  <2> QED BY <1>1, <2>1, <2>2, Kinds, Zenon DEF Existing
<1>6. new = Shifted(c, first, DOMAIN owners)
  BY Zenon DEF BatchTokens, Shifted
<1>7. Existing' = Existing \cup new
  <2> HIDE DEF own, new
  <2> QED BY <1>1, <1>5, Zenon DEF Existing
<1>8. Owned' = {<<TokenData'[t], t>> : t \in Existing'}
  <2> HIDE DEF own, new
  <2>1. \A t \in Existing : t \in Tokens /\ t \notin new /\ TokenData'[t] = TokenData[t]
    BY <1>1, <1>5, Zenon DEF Existing
  <2>2. \A t \in new : TokenData'[t] = own(t)
    BY <1>1, Zenon
  <2>3. {<<TokenData'[t], t>> : t \in Existing'}
          = {<<TokenData'[t], t>> : t \in Existing} \cup {<<TokenData'[t], t>> : t \in new}
    BY <1>7, Zenon
  <2> QED BY <1>1, <1>3, <2>1, <2>2, <2>3, Zenon
<1>9. \A t \in Existing' : t[2] <= TokensMinted'[t[1]]
  <2> HIDE DEF own, new
  <2>1. ASSUME NEW t \in Existing PROVE t[2] <= TokensMinted'[t[1]]
    <3>1. t \in Tokens /\ t[1] \in CollectionIds /\ t[2] \in Nat /\ t[2] <= TokensMinted[t[1]]
      BY <1>3, Kinds, Zenon DEF Existing
    <3> QED BY <1>4a, <3>1
  <2>2. \A t \in new : t[2] <= TokensMinted'[t[1]]
    BY <1>1, <1>4a, Zenon
  <2> QED BY <1>7, <2>1, <2>2, Zenon
<1>10. ASSUME NEW d \in CollectionIds, NEW o \in Owners
       PROVE  AccountBalance'[<<d, o>>] = Cardinality(Holds(d, o)')
  <2>1. AccountBalance[<<d, o>>] = Cardinality(Holds(d, o)) /\ AccountBalance[<<d, o>>] \in Nat
    BY <1>3, <1>4, Zenon DEF IndexOf
  <2>2. CASE d # c
    <3> HIDE DEF own, new
    <3>1. Holds(d, o)' = Holds(d, o)
      BY <1>1, <2>2, Zenon DEF Holds, HeldIn
    <3> QED BY <1>1, <2>1, <2>2, <3>1, Zenon
  <2>3. CASE d = c
    <3> DEFINE I == {i \in DOMAIN owners : owners[i] = o}
               N == Shifted(c, first, I)
    <3>1. I \in SUBSET Nat /\ IsFiniteSet(I) /\ Cardinality(I) = Minted(owners, o)
      <4>1. I \in SUBSET Nat
        BY <1>2
      <4>2. IsFiniteSet(I) /\ Cardinality(I) = Minted(owners, o)
        BY <1>2, Zenon DEF Minted
      <4> QED BY <4>1, <4>2, Zenon
    <3>2. IsFiniteSet(N) /\ Cardinality(N) = Minted(owners, o)
      <4> HIDE DEF I, first
      <4> QED BY <1>1, <3>1, ShiftedIds, Zenon
    <3>3. N = {t \in new : own(t) = o}
      <4>1. ASSUME NEW t \in new, own(t) = o PROVE t \in N
        <5>1. PICK i \in DOMAIN owners : t = <<c, first + i>>
          BY <1>6, Zenon DEF Shifted
        <5>2. t[2] - first = i
          BY <1>1, <1>2, <5>1
        <5> QED BY <4>1, <5>1, <5>2, Zenon DEF Shifted
      <4>2. ASSUME NEW i \in I PROVE <<c, first + i>> \in new /\ own(<<c, first + i>>) = o
        <5>1. (first + i) - first = i /\ i \in DOMAIN owners
          BY <1>1, <1>2
        <5> QED BY <1>6, <5>1, Zenon DEF Shifted
      <4> HIDE DEF new, own, I
      <4> QED BY <4>1, <4>2, Zenon DEF Shifted
    <3>4. Holds(c, o)' = Holds(c, o) \cup N /\ Holds(c, o) \cap N = {}
      <4> HIDE DEF new, own, N
      <4>1. NotFound # o
        BY Kinds, Zenon
      <4> QED BY <1>1, <1>5, <3>3, <4>1, Zenon DEF Holds, HeldIn
    <3>5. IsFiniteSet(Holds(c, o)) /\ IsFiniteSet(N)
      BY <3>2, FiniteTokens, Zenon
    <3>6. Cardinality(Holds(c, o) \cup N) = Cardinality(Holds(c, o)) + Cardinality(N)
      <4> HIDE DEF N
      <4>1. PICK H : H = Holds(c, o)
        BY Zenon
      <4> QED BY <3>4, <3>5, <4>1, CardinalityDisjoint, Zenon
    <3> HIDE DEF N
    <3>7. AccountBalance'[<<d, o>>] = AccountBalance[<<d, o>>] + Minted(owners, o)
      BY <1>1, <2>3, Zenon
    <3> QED BY <2>1, <2>3, <3>2, <3>4, <3>6, <3>7, Zenon
  <2> QED BY <2>2, <2>3, Zenon
<1>11. ASSUME NEW d \in CollectionIds
       PROVE  TokensMinted'[d] - TokensBurnt'[d] = Cardinality(LiveIn(d)')
  <2>1. TokensMinted[d] - TokensBurnt[d] = Cardinality(LiveIn(d))
        /\ TokensMinted[d] \in Nat /\ TokensBurnt[d] \in Nat
    BY <1>3, <1>4, Zenon DEF IndexOf
  <2>2. CASE d # c
    <3> HIDE DEF own, new
    <3>1. LiveIn(d)' = LiveIn(d)
      <4>1. \A t \in new : t[1] = c
        BY <1>1, Zenon
      <4> QED BY <1>7, <2>2, <4>1, Zenon DEF LiveIn
    <3> QED BY <1>4a, <2>1, <2>2, <3>1, Zenon
  <2>3. CASE d = c
    <3>1. IsFiniteSet(new) /\ Cardinality(new) = Cardinality(DOMAIN owners)
      <4>1. DOMAIN owners \in SUBSET Nat
        BY <1>2
      <4> HIDE DEF new, first
      <4> QED BY <1>1, <1>2, <1>6, <4>1, ShiftedIds, Zenon
    <3>2. Cardinality(DOMAIN owners) = Len(owners)
      BY <1>2, FS_Interval
    <3> HIDE DEF own, new
    <3>3. LiveIn(c)' = LiveIn(c) \cup new /\ LiveIn(c) \cap new = {}
      BY <1>1, <1>5, <1>7, Zenon DEF LiveIn, Existing
    <3>4. Cardinality(LiveIn(c) \cup new) = Cardinality(LiveIn(c)) + Cardinality(new)
      <4>1. PICK H : H = LiveIn(c)
        BY Zenon
      <4>2. PICK N : N = new
        BY Zenon
      <4>3. IsFiniteSet(H) /\ IsFiniteSet(N) /\ H \cap N = {}
        BY <3>1, <3>3, <4>1, <4>2, FiniteTokens, Zenon
      <4> QED BY <4>1, <4>2, <4>3, CardinalityDisjoint, Zenon
    <3>5. TokensMinted'[c] = TokensMinted[c] + Len(owners) /\ TokensBurnt'[c] = TokensBurnt[c]
          /\ Len(owners) \in Nat
      BY <1>4a, Zenon
    <3>6. Cardinality(LiveIn(c)') = Cardinality(LiveIn(c)) + Len(owners)
      BY <3>1, <3>2, <3>3, <3>4, Zenon
    <3> QED BY <2>1, <2>3, <3>5, <3>6
  <2> QED BY <2>2, <2>3, Zenon
<1>12. IndexExact' <=> /\ Owned' = {<<TokenData'[t], t>> : t \in Existing'}
                       /\ \A d \in CollectionIds : IndexOf(d)'
                       /\ \A d \in CollectionIds : \A t \in Existing' : t[2] <= TokensMinted'[t[1]]
  BY Zenon DEF IndexExact, IndexOf, Holds, HeldIn, LiveIn
<1>13. \A d \in CollectionIds : IndexOf(d)'
  BY <1>10, <1>11, Zenon DEF IndexOf
<1> QED BY <1>8, <1>9, <1>12, <1>13, Zenon

\* How many tokens of collection d an owner o has after token t went to another owner.
CountMoved(data, after, t, to, d, o) ==
  Cardinality(HeldIn(after, d, o)) =
    IF d = t[1] /\ o = data[t] THEN Cardinality(HeldIn(data, d, o)) - 1
    ELSE IF d = t[1] /\ o = to THEN Cardinality(HeldIn(data, d, o)) + 1
    ELSE Cardinality(HeldIn(data, d, o))

\* One token that changes hands, or ends.
LEMMA HoldsMoved ==
  ASSUME NEW data, NEW t \in Tokens, NEW to, data[t] # to,
         NEW after, after[t] = to, \A s \in Tokens \ {t} : after[s] = data[s], NEW d, NEW o
  PROVE  CountMoved(data, after, t, to, d, o)
<1> DEFINE from == data[t]
<1>1. PICK H : H = HeldIn(data, d, o)
  BY Zenon
<1>2. IsFiniteSet(H)
  BY <1>1, Kinds, FS_Subset, Zenon DEF HeldIn
<1>3. CASE d = t[1] /\ o = from
  <2>1. HeldIn(after, d, o) = H \ {t} /\ t \in H
    BY <1>1, <1>3 DEF HeldIn
  <2>2. Cardinality(H \ {t}) = Cardinality(H) - 1
    BY <1>2, <2>1, FS_RemoveElement, Zenon
  <2> QED BY <1>1, <1>3, <2>1, <2>2, Zenon DEF CountMoved
<1>4. CASE d = t[1] /\ o = to /\ o # from
  <2>1. HeldIn(after, d, o) = H \cup {t} /\ t \notin H
    BY <1>1, <1>4, Zenon DEF HeldIn
  <2>2. Cardinality(H \cup {t}) = Cardinality(H) + 1
    BY <1>2, <2>1, FS_AddElement, Zenon
  <2> QED BY <1>1, <1>4, <2>1, <2>2, Zenon DEF CountMoved
<1>5. CASE d # t[1] \/ (o # from /\ o # to)
  <2>1. HeldIn(after, d, o) = H
    BY <1>1, <1>5, Zenon DEF HeldIn
  <2> QED BY <1>1, <1>5, <2>1, Zenon DEF CountMoved
<1> QED BY <1>3, <1>4, <1>5, Zenon

\* Transfers keep the index exact, those to the owner itself included.
LEMMA IndexMove ==
  ASSUME NftTypes, IndexExact, NEW u, NEW from \in Owners, NEW to \in Owners, NEW t \in Tokens, NEW b,
         TransferInternal(u, from, to, t, b)
  PROVE  IndexExact'
<1>1. /\ TokenData[t] = from /\ TokenData' = [TokenData EXCEPT ![t] = to]
      /\ AccountBalance[<<t[1], from>>] >= 1
      /\ AccountBalance' = IF from = to THEN AccountBalance
           ELSE [AccountBalance EXCEPT ![<<t[1], from>>] = @ - 1, ![<<t[1], to>>] = @ + 1]
      /\ Owned' = IF from = to THEN Owned ELSE (Owned \ {<<from, t>>}) \cup {<<to, t>>}
      /\ UNCHANGED <<TokensMinted, TokensBurnt>>
  BY Zenon DEF TransferInternal, MovedOwned
<1>2. /\ TokenData \in [Tokens -> Owners \cup {NotFound}]
      /\ AccountBalance \in [CollectionIds \X Owners -> Nat]
      /\ t[1] \in CollectionIds /\ NotFound \notin Owners
  BY Kinds, Zenon DEF NftTypes
<1>3. Existing' = Existing /\ t \in Existing
  BY <1>1, <1>2, Zenon DEF Existing
<1>4. CASE from = to
  <2>1. TokenData' = TokenData
    BY <1>1, <1>2, <1>4, Zenon
  <2> QED BY <1>1, <1>4, <2>1 DEF IndexExact, Existing
<1>5. CASE from # to
  <2>1. Owned = {<<TokenData[s], s>> : s \in Existing} /\ \A d \in CollectionIds : IndexOf(d)
    BY IndexForm, Zenon
  <2>2. Owned' = {<<TokenData'[s], s>> : s \in Existing'}
    <3>1. ASSUME NEW x \in Owned' PROVE x \in {<<TokenData'[s], s>> : s \in Existing'}
      <4>1. CASE x = <<to, t>>
        BY <1>1, <1>2, <1>3, <4>1, Zenon
      <4>2. CASE x # <<to, t>>
        <5>1. PICK s \in Existing : x = <<TokenData[s], s>> /\ x # <<from, t>>
          BY <1>1, <1>5, <2>1, <3>1, <4>2, Zenon
        <5>2. s # t /\ TokenData'[s] = TokenData[s]
          BY <1>1, <1>2, <5>1, Zenon DEF Existing
        <5> QED BY <1>3, <5>1, <5>2, Zenon
      <4> QED BY <4>1, <4>2, Zenon
    <3>2. ASSUME NEW s \in Existing PROVE <<TokenData'[s], s>> \in Owned'
      <4>1. CASE s = t
        BY <1>1, <1>2, <1>5, <4>1, Zenon
      <4>2. CASE s # t
        <5>1. TokenData'[s] = TokenData[s] /\ <<TokenData[s], s>> \in Owned
          BY <1>1, <1>2, <2>1, <4>2, Zenon DEF Existing
        <5> QED BY <1>1, <1>5, <4>2, <5>1
      <4> QED BY <4>1, <4>2, Zenon
    <3> QED BY <1>3, <3>1, <3>2, Zenon
  <2>3. ASSUME NEW d \in CollectionIds PROVE IndexOf(d)'
    <3>1. ASSUME NEW o \in Owners PROVE AccountBalance'[<<d, o>>] = Cardinality(Holds(d, o)')
      <4>1. AccountBalance[<<d, o>>] = Cardinality(Holds(d, o)) /\ AccountBalance[<<d, o>>] \in Nat
        BY <1>2, <2>1, Zenon DEF IndexOf
      <4>2. AccountBalance'[<<d, o>>] =
              IF d = t[1] /\ o = from THEN AccountBalance[<<d, o>>] - 1
              ELSE IF d = t[1] /\ o = to THEN AccountBalance[<<d, o>>] + 1
              ELSE AccountBalance[<<d, o>>]
        BY <1>1, <1>2, <1>5, Zenon
      <4>3. Cardinality(Holds(d, o)') =
              IF d = t[1] /\ o = from THEN Cardinality(Holds(d, o)) - 1
              ELSE IF d = t[1] /\ o = to THEN Cardinality(Holds(d, o)) + 1
              ELSE Cardinality(Holds(d, o))
        <5>1. Holds(d, o) = HeldIn(TokenData, d, o) /\ Holds(d, o)' = HeldIn(TokenData', d, o)
          BY Zenon DEF Holds, HeldIn
        <5>2. PICK data, after : data = TokenData /\ after = TokenData'
          BY Zenon
        <5>3. /\ data[t] = from /\ data[t] # to /\ after[t] = to
              /\ \A s \in Tokens \ {t} : after[s] = data[s]
          BY <1>1, <1>2, <1>5, <5>2, Zenon
        <5>4. CountMoved(data, after, t, to, d, o)
          BY <5>3, HoldsMoved, Zenon
        <5> QED BY <5>1, <5>2, <5>3, <5>4, Zenon DEF CountMoved
      <4> QED BY <4>1, <4>2, <4>3
    <3>2. LiveIn(d)' = LiveIn(d)
      BY <1>3, Zenon DEF LiveIn
    <3>3. TokensMinted[d] - TokensBurnt[d] = Cardinality(LiveIn(d))
      BY <2>1, Zenon DEF IndexOf
    <3> QED BY <1>1, <3>1, <3>2, <3>3, Zenon DEF IndexOf
  <2>4. \A d \in CollectionIds : \A s \in Existing' : s[2] <= TokensMinted'[s[1]]
    BY <1>1, <1>3, IndexForm, Zenon
  <2>5. IndexExact' <=> /\ Owned' = {<<TokenData'[s], s>> : s \in Existing'}
                        /\ \A d \in CollectionIds : IndexOf(d)'
                        /\ \A d \in CollectionIds : \A s \in Existing' : s[2] <= TokensMinted'[s[1]]
    BY Zenon DEF IndexExact, IndexOf, Holds, LiveIn, HeldIn
  <2> QED BY <2>2, <2>3, <2>4, <2>5, Zenon
<1> QED BY <1>4, <1>5, Zenon

\* Burning keeps the index exact.
LEMMA IndexBurn ==
  ASSUME NftTypes, IndexExact, NEW owner \in Owners, NEW t \in Tokens, BurnAsOwner(owner, t)
  PROVE  IndexExact'
<1>1. /\ TokenData[t] = owner /\ TokenData' = [TokenData EXCEPT ![t] = NotFound]
      /\ AccountBalance[<<t[1], owner>>] >= 1
      /\ AccountBalance' = [AccountBalance EXCEPT ![<<t[1], owner>>] = @ - 1]
      /\ Owned' = Owned \ {<<owner, t>>}
      /\ TokensBurnt' = [TokensBurnt EXCEPT ![t[1]] = @ + 1] /\ TokensMinted' = TokensMinted
  BY Zenon DEF BurnAsOwner
<1>2. /\ TokenData \in [Tokens -> Owners \cup {NotFound}]
      /\ AccountBalance \in [CollectionIds \X Owners -> Nat]
      /\ TokensMinted \in [CollectionIds -> Nat] /\ TokensBurnt \in [CollectionIds -> Nat]
      /\ t[1] \in CollectionIds /\ NotFound \notin Owners
  BY Kinds, Zenon DEF NftTypes
<1>3. Existing' = Existing \ {t} /\ t \in Existing
  BY <1>1, <1>2, Zenon DEF Existing
<1>4. Owned = {<<TokenData[s], s>> : s \in Existing} /\ \A d \in CollectionIds : IndexOf(d)
  BY IndexForm, Zenon
<1>5. Owned' = {<<TokenData'[s], s>> : s \in Existing'}
  <2>1. \A s \in Existing \ {t} : TokenData'[s] = TokenData[s]
    BY <1>1, <1>2, Zenon DEF Existing
  <2>2. ASSUME NEW x \in Owned' PROVE x \in {<<TokenData'[s], s>> : s \in Existing'}
    <3>1. PICK s \in Existing : x = <<TokenData[s], s>> /\ x # <<owner, t>>
      BY <1>1, <1>4, <2>2, Zenon
    <3> QED BY <1>1, <1>3, <2>1, <3>1, Zenon
  <2>3. ASSUME NEW s \in Existing' PROVE <<TokenData'[s], s>> \in Owned'
    <3>1. <<TokenData[s], s>> \in Owned /\ s # t
      BY <1>3, <1>4, <2>3, Zenon
    <3> QED BY <1>1, <1>3, <2>1, <2>3, <3>1
  <2> QED BY <2>2, <2>3, Zenon
<1>6. ASSUME NEW d \in CollectionIds PROVE IndexOf(d)'
  <2>1. ASSUME NEW o \in Owners PROVE AccountBalance'[<<d, o>>] = Cardinality(Holds(d, o)')
    <3>1. AccountBalance[<<d, o>>] = Cardinality(Holds(d, o)) /\ AccountBalance[<<d, o>>] \in Nat
      BY <1>2, <1>4, Zenon DEF IndexOf
    <3>2. AccountBalance'[<<d, o>>] =
            IF d = t[1] /\ o = owner THEN AccountBalance[<<d, o>>] - 1 ELSE AccountBalance[<<d, o>>]
      BY <1>1, <1>2, Zenon
    <3>3. o # NotFound /\ owner # NotFound
      BY <1>2, Zenon
    <3>4. Cardinality(Holds(d, o)') =
            IF d = t[1] /\ o = owner THEN Cardinality(Holds(d, o)) - 1 ELSE Cardinality(Holds(d, o))
      <4>1. Holds(d, o) = HeldIn(TokenData, d, o) /\ Holds(d, o)' = HeldIn(TokenData', d, o)
        BY Zenon DEF Holds, HeldIn
      <4>2. PICK data, after : data = TokenData /\ after = TokenData'
        BY Zenon
      <4>3. /\ data[t] = owner /\ data[t] # NotFound /\ after[t] = NotFound
            /\ \A s \in Tokens \ {t} : after[s] = data[s]
        BY <1>1, <1>2, <3>3, <4>2, Zenon
      <4>4. CountMoved(data, after, t, NotFound, d, o)
        BY <4>3, HoldsMoved, Zenon
      <4> QED BY <3>3, <4>1, <4>2, <4>3, <4>4, Zenon DEF CountMoved
    <3> QED BY <3>1, <3>2, <3>4
  <2>2. TokensMinted[d] - TokensBurnt[d] = Cardinality(LiveIn(d)) /\ IsFiniteSet(LiveIn(d))
    BY <1>4, FiniteTokens, Zenon DEF IndexOf
  <2>3. CASE d # t[1]
    <3>1. LiveIn(d)' = LiveIn(d)
      BY <1>3, <2>3, Zenon DEF LiveIn
    <3> QED BY <1>1, <1>2, <2>1, <2>2, <2>3, <3>1, Zenon DEF IndexOf
  <2>4. CASE d = t[1]
    <3>1. LiveIn(d)' = LiveIn(d) \ {t} /\ t \in LiveIn(d)
      BY <1>3, <2>4, Zenon DEF LiveIn
    <3>2. Cardinality(LiveIn(d)') = Cardinality(LiveIn(d)) - 1
      <4>1. PICK H : H = LiveIn(d)
        BY Zenon
      <4> QED BY <2>2, <3>1, <4>1, FS_RemoveElement, Zenon
    <3>3. TokensMinted'[d] - TokensBurnt'[d] = (TokensMinted[d] - TokensBurnt[d]) - 1
      BY <1>1, <1>2, <2>4
    <3> QED BY <2>1, <2>2, <3>2, <3>3, Zenon DEF IndexOf
  <2> QED BY <2>3, <2>4, Zenon
<1>7. \A d \in CollectionIds : \A s \in Existing' : s[2] <= TokensMinted'[s[1]]
  BY <1>1, <1>3, IndexForm, Zenon
<1>8. IndexExact' <=> /\ Owned' = {<<TokenData'[s], s>> : s \in Existing'}
                      /\ \A d \in CollectionIds : IndexOf(d)'
                      /\ \A d \in CollectionIds : \A s \in Existing' : s[2] <= TokensMinted'[s[1]]
  BY Zenon DEF IndexExact, IndexOf, Holds, LiveIn, HeldIn
<1> QED BY <1>5, <1>6, <1>7, <1>8, Zenon

\* Destroying a collection without tokens keeps the index exact.
LEMMA IndexDestroy ==
  ASSUME NftTypes, IndexExact, NEW u, NEW c \in CollectionIds, DestroyNft(u, c)
  PROVE  IndexExact'
<1>1. /\ \A t \in Tokens : t[1] = c => TokenData[t] = NotFound
      /\ TokenData' = [t \in Tokens |-> IF t[1] = c THEN NotFound ELSE TokenData[t]]
      /\ Owned' = {p \in Owned : p[2][1] # c}
      /\ TokensMinted' = [TokensMinted EXCEPT ![c] = 0] /\ TokensBurnt' = [TokensBurnt EXCEPT ![c] = 0]
      /\ AccountBalance' = [p \in CollectionIds \X Owners |-> IF p[1] = c THEN 0 ELSE AccountBalance[p]]
  BY Zenon DEF DestroyNft, HasTokens, ResetBurnt
<1>2. /\ TokenData \in [Tokens -> Owners \cup {NotFound}] /\ NotFound \notin Owners
      /\ TokensMinted \in [CollectionIds -> Nat] /\ TokensBurnt \in [CollectionIds -> Nat]
  BY Kinds, Zenon DEF NftTypes
<1>3. TokenData' = TokenData
  BY <1>1, <1>2, Zenon
<1>4. Existing' = Existing /\ \A t \in Existing : t[1] # c
  BY <1>1, <1>3, Zenon DEF Existing
<1>5. Owned = {<<TokenData[s], s>> : s \in Existing} /\ \A d \in CollectionIds : IndexOf(d)
  BY IndexForm, Zenon
<1>6. Owned' = Owned
  BY <1>1, <1>4, <1>5
<1>7. ASSUME NEW d \in CollectionIds PROVE IndexOf(d)'
  <2>1. CASE d # c
    <3>1. LiveIn(d)' = LiveIn(d) /\ \A o \in Owners : Holds(d, o)' = Holds(d, o)
      BY <1>3, <1>4, Zenon DEF Holds, LiveIn, HeldIn
    <3>2. /\ TokensMinted'[d] = TokensMinted[d] /\ TokensBurnt'[d] = TokensBurnt[d]
          /\ \A o \in Owners : AccountBalance'[<<d, o>>] = AccountBalance[<<d, o>>]
      BY <1>1, <1>2, <2>1, Zenon
    <3>3. IndexOf(d)
      BY <1>5, Zenon
    <3> QED BY <3>1, <3>2, <3>3, Zenon DEF IndexOf
  <2>2. CASE d = c
    <3>1. LiveIn(c)' = {} /\ \A o \in Owners : Holds(c, o)' = {}
      BY <1>1, <1>2, <1>3, <1>4 DEF Holds, LiveIn, HeldIn
    <3>2. Cardinality({}) = 0
      BY FS_EmptySet, Zenon
    <3>3. /\ TokensMinted'[c] = 0 /\ TokensBurnt'[c] = 0
          /\ \A o \in Owners : AccountBalance'[<<c, o>>] = 0
      BY <1>1, <1>2, Zenon
    <3> QED BY <2>2, <3>1, <3>2, <3>3 DEF IndexOf
  <2> QED BY <2>1, <2>2, Zenon
<1>8. \A d \in CollectionIds : \A s \in Existing' : s[2] <= TokensMinted'[s[1]]
  <2>1. ASSUME NEW s \in Existing PROVE s[2] <= TokensMinted'[s[1]]
    <3>1. s[1] \in CollectionIds /\ s[1] # c /\ s[2] <= TokensMinted[s[1]]
      BY <1>4, IndexForm, Kinds, Zenon DEF Existing
    <3> QED BY <1>1, <1>2, <3>1, Zenon
  <2> QED BY <1>4, <2>1, Zenon
<1>9. IndexExact' <=> /\ Owned' = {<<TokenData'[s], s>> : s \in Existing'}
                      /\ \A d \in CollectionIds : IndexOf(d)'
                      /\ \A d \in CollectionIds : \A s \in Existing' : s[2] <= TokensMinted'[s[1]]
  BY Zenon DEF IndexExact, IndexOf, Holds, LiveIn, HeldIn
<1> QED BY <1>3, <1>4, <1>5, <1>6, <1>7, <1>8, <1>9, Zenon

LEMMA IndexInit == NftInit => IndexExact
<1> SUFFICES ASSUME NftInit PROVE IndexExact
  BY Zenon
<1>1. /\ TokenData = [t \in Tokens |-> NotFound] /\ Owned = {}
      /\ AccountBalance = [p \in CollectionIds \X Owners |-> 0]
      /\ TokensMinted = [c \in CollectionIds |-> 0] /\ TokensBurnt = [c \in CollectionIds |-> 0]
  BY Zenon DEF NftInit, TokenInit
<1>2. Existing = {} /\ \A c \in CollectionIds, o \in Owners : Holds(c, o) = {} /\ LiveIn(c) = {}
  BY <1>1, Kinds, Zenon DEF Existing, Holds, LiveIn, HeldIn
<1>3. Cardinality({}) = 0
  BY FS_EmptySet, Zenon
<1>4. \A c \in CollectionIds : LiveIn(c) = {}
  BY <1>2, Zenon DEF LiveIn
<1>5. ASSUME NEW c \in CollectionIds PROVE IndexOf(c)
  <2>1. TokensMinted[c] - TokensBurnt[c] = 0
    BY <1>1
  <2>2. Cardinality(LiveIn(c)) = 0
    BY <1>3, <1>4, Zenon
  <2>3. ASSUME NEW o \in Owners PROVE AccountBalance[<<c, o>>] = 0
    BY <1>1, Zenon
  <2>4. \A o \in Owners : Cardinality(Holds(c, o)) = 0
    BY <1>2, <1>3, Zenon
  <2> QED BY <2>1, <2>2, <2>3, <2>4, Zenon DEF IndexOf
<1>6. {<<TokenData[t], t>> : t \in Existing} = {}
  BY <1>2, Zenon
<1> QED BY <1>1, <1>2, <1>5, <1>6, IndexForm, Zenon

LEMMA IndexNext == NftTypes /\ IndexExact /\ [NftNext]_nftVars => IndexExact'
<1> SUFFICES ASSUME NftTypes, IndexExact, [NftNext]_nftVars PROVE IndexExact'
  BY Zenon
<1>1. CASE UNCHANGED <<TokenData, Owned, AccountBalance, TokensMinted, TokensBurnt>>
  BY <1>1, Zenon DEF IndexExact, Existing
<1>2. UNCHANGED nftVars \/ UNCHANGED tokenVars \/ Approves
        => UNCHANGED <<TokenData, Owned, AccountBalance, TokensMinted, TokensBurnt>>
  BY Zenon DEF nftVars, tokenVars, Approves
<1> QED BY <1>1, <1>2, NftSteps, IndexMint, IndexMove, IndexBurn, IndexDestroy, Zenon

\* The index by owner, the balances and the counters of every collection agree with the
\* tokens, for batches of any size.
THEOREM IndexCorrect == NftSpec => []IndexExact
BY NftTypesInit, NftTypesNext, IndexInit, IndexNext, PTL DEF NftSpec

-----------------------------------------------------------------------------
(* Nesting.                                                                *)

\* A successful check has walked from the new parent to an account.
LEMMA NestingFacts ==
  ASSUME NEW u, NEW nestee, NEW under, NEW b \in Nat, CheckNesting(u, nestee, under, b).ok
  PROVE  /\ IsNft(under[1]) /\ CheckNesting(u, nestee, under, b).left \in Nat
         /\ \E k \in Nat : GetCheckedTopmostOwner(TokenData, under, nestee, k).ok
<1> DEFINE nesting == Permission(under[1], "nesting")
           walk == GetCheckedTopmostOwner(TokenData, under, nestee, b)
           again == GetCheckedTopmostOwner(TokenData, under, nestee, walk.left)
<1>1. ~Failed.ok
  BY Zenon DEF Failed
<1>2. /\ IsNft(under[1])
      /\ \/ CheckNesting(u, nestee, under, b) = walk
         \/ walk.ok /\ CheckNesting(u, nestee, under, b) = again
  BY <1>1, Zenon DEF CheckNesting
<1>3. walk.ok => walk.left \in Nat
  BY WalkFacts, Zenon
<1>4. walk.ok /\ again.ok => again.left \in Nat
  <2> SUFFICES ASSUME walk.ok, again.ok PROVE again.left \in Nat
    BY Zenon
  <2>1. PICK k : k = walk.left
    BY Zenon
  <2>2. k \in Nat /\ GetCheckedTopmostOwner(TokenData, under, nestee, k).ok
    BY <1>3, <2>1, Zenon
  <2>3. GetCheckedTopmostOwner(TokenData, under, nestee, k).left \in Nat
    BY <2>2, WalkFacts, Zenon
  <2> QED BY <2>1, <2>3, Zenon
<1> HIDE DEF walk
<1>5. CASE CheckNesting(u, nestee, under, b) = walk
  BY <1>2, <1>3, <1>5, Zenon DEF walk
<1>6. CASE walk.ok /\ CheckNesting(u, nestee, under, b) = again
  BY <1>2, <1>3, <1>4, <1>6, Zenon
<1> QED BY <1>2, <1>5, <1>6, Zenon

\* The checks of a batch, one after the other, on the budget that the earlier ones left.
IsChecks(left, u, item, owners, b, n) ==
  left = [i \in 0..n |-> IF i = 0 THEN Spent(b)
                         ELSE IF ~left[i - 1].ok THEN Failed
                         ELSE NestingIfToken(u, item[i], owners[i], left[i - 1].left)]

LEMMA ChecksExist ==
  ASSUME NEW u, NEW item, NEW owners, NEW b, NEW n \in Nat
  PROVE  \E left : IsChecks(left, u, item, owners, b, n)
<1> DEFINE St(i, x) == IF ~x.ok THEN Failed ELSE NestingIfToken(u, item[i], owners[i], x.left)
           Is(left, k) == left = [i \in 0..k |-> IF i = 0 THEN Spent(b) ELSE St(i, left[i - 1])]
           G == {k \in Nat : \E left : IsChecks(left, u, item, owners, b, k)}
<1>0. \A left, k : IsChecks(left, u, item, owners, b, k) <=> Is(left, k)
  BY Zenon DEF IsChecks
<1> HIDE DEF St
<1>1. 0 \in G
  <2> DEFINE p == [i \in 0..0 |-> Spent(b)]
  <2>1. Is(p, 0)
    OBVIOUS
  <2> HIDE DEF p, Is
  <2> QED BY <1>0, <2>1, Zenon
<1>2. ASSUME NEW k \in G PROVE k + 1 \in G
  <2>1. PICK p : Is(p, k)
    BY <1>0, <1>2
  <2> DEFINE q == [i \in 0..k + 1 |-> IF i <= k THEN p[i] ELSE St(k + 1, p[k])]
             r == [i \in 0..k + 1 |-> IF i = 0 THEN Spent(b) ELSE St(i, q[i - 1])]
  <2>2. ASSUME NEW i \in 0..k + 1 PROVE q[i] = r[i]
    <3>1. CASE i = 0
      BY <2>1, <3>1
    <3>2. CASE i # 0 /\ i <= k
      <4>1. q[i] = St(i, p[i - 1]) /\ q[i - 1] = p[i - 1]
        BY <2>1, <3>2
      <4> QED BY <3>2, <4>1, Zenon
    <3>3. CASE i = k + 1
      <4>1. q[i] = St(i, p[k]) /\ q[i - 1] = p[k]
        BY <3>3
      <4> QED BY <3>3, <4>1
    <3> QED BY <3>1, <3>2, <3>3
  <2>3. Is(q, k + 1)
    BY <2>2, Zenon
  <2> HIDE DEF q, Is
  <2> QED BY <1>0, <2>3
<1>3. G = Nat
  <2>1. G \in SUBSET Nat
    BY Zenon
  <2> HIDE DEF G
  <2> QED BY <1>1, <1>2, <2>1, InductiveSet, Zenon
<1> QED BY <1>3, Zenon

\* When the last of the checks passes, all have passed.
LEMMA ChecksPass ==
  ASSUME NEW u, NEW item, NEW owners, NEW b \in Nat, NEW n \in Nat,
         NEW left, IsChecks(left, u, item, owners, b, n), left[n].ok
  PROVE  \A i \in 1..n : owners[i] \in Tokens =>
           \E k \in Nat : CheckNesting(u, item[i], owners[i], k).ok
<1> DEFINE D == {k \in Nat : k <= n => left[n - k].ok}
           L == {k \in Nat : k <= n => left[k].left \in Nat}
<1>0. ~Failed.ok /\ Spent(b).left \in Nat
  BY Zenon DEF Failed, Spent
<1>1. left[0] = Spent(b) /\ \A i \in 1..n : left[i] =
        IF ~left[i - 1].ok THEN Failed ELSE NestingIfToken(u, item[i], owners[i], left[i - 1].left)
  BY DEF IsChecks
<1>2. D = Nat
  <2>1. 0 \in D
    OBVIOUS
  <2>2. ASSUME NEW k \in D PROVE k + 1 \in D
    <3> SUFFICES ASSUME k + 1 <= n PROVE left[n - (k + 1)].ok
      OBVIOUS
    <3>1. n - k \in 1..n /\ (n - k) - 1 = n - (k + 1) /\ left[n - k].ok
      OBVIOUS
    <3> QED BY <1>0, <1>1, <3>1, Zenon
  <2>3. D \in SUBSET Nat
    BY Zenon
  <2> HIDE DEF D
  <2> QED BY <2>1, <2>2, <2>3, InductiveSet, Zenon
<1>3. \A i \in 0..n : left[i].ok
  <2>1. ASSUME NEW i \in 0..n PROVE left[i].ok
    <3>1. n - i \in Nat /\ n - i <= n /\ n - (n - i) = i
      OBVIOUS
    <3>2. n - i \in D
      <4> HIDE DEF D
      <4> QED BY <1>2, <3>1, Zenon
    <3> QED BY <3>1, <3>2, Zenon
  <2> QED BY <2>1, Zenon
<1>4. L = Nat
  <2>1. 0 \in L
    BY <1>0, <1>1, Zenon
  <2>2. ASSUME NEW k \in L PROVE k + 1 \in L
    <3> SUFFICES ASSUME k + 1 <= n PROVE left[k + 1].left \in Nat
      OBVIOUS
    <3>1. k \in Nat /\ k + 1 \in 1..n /\ (k + 1) - 1 = k /\ left[k].left \in Nat
      OBVIOUS
    <3>2. left[k + 1] = NestingIfToken(u, item[k + 1], owners[k + 1], left[k].left) /\ left[k + 1].ok
      BY <1>1, <1>3, <3>1
    <3>3. CASE owners[k + 1] \in Tokens
      BY <3>1, <3>2, <3>3, NestingFacts, Zenon DEF NestingIfToken
    <3>4. CASE owners[k + 1] \notin Tokens
      BY <3>1, <3>2, <3>4 DEF NestingIfToken, Spent
    <3> QED BY <3>3, <3>4, Zenon
  <2>3. L \in SUBSET Nat
    BY Zenon
  <2> HIDE DEF L
  <2> QED BY <2>1, <2>2, <2>3, InductiveSet, Zenon
<1>5. ASSUME NEW i \in 1..n, owners[i] \in Tokens
      PROVE  \E k \in Nat : CheckNesting(u, item[i], owners[i], k).ok
  <2>1. i - 1 \in 0..n /\ i - 1 \in L /\ i \in 0..n
    BY <1>4
  <2>2. left[i - 1].left \in Nat /\ left[i - 1].ok /\ left[i].ok
    BY <1>3, <2>1
  <2>3. left[i] = CheckNesting(u, item[i], owners[i], left[i - 1].left)
    BY <1>1, <1>5, <2>2, Zenon DEF NestingIfToken
  <2> QED BY <2>2, <2>3, Zenon
<1> QED BY <1>5, Zenon

\* Each new token of a batch that goes to a token has passed the nesting check.
LEMMA MintChecked ==
  ASSUME NEW u, NEW c, NEW owners \in Batches, NEW b \in Nat, MintChecks(u, c, owners, b).ok
  PROVE  \A i \in DOMAIN owners : owners[i] \in Tokens =>
           \E k \in Nat : CheckNesting(u, <<c, TokensMinted[c] + i>>, owners[i], k).ok
<1>1. PICK item : item = [i \in DOMAIN owners |-> <<c, TokensMinted[c] + i>>]
  BY Zenon
<1>2. PICK n \in Nat : n = Len(owners) /\ DOMAIN owners = 1..n
  BY BatchFacts, Zenon
<1> DEFINE left == CHOOSE f : IsChecks(f, u, item, owners, b, n)
<1>3. IsChecks(left, u, item, owners, b, n)
  BY ChecksExist, Zenon
<1>4. MintChecks(u, c, owners, b) = left[n]
  <2> DEFINE mc == CHOOSE f : f = [i \in 0..n |-> IF i = 0 THEN Spent(b)
                      ELSE IF ~f[i - 1].ok THEN Failed
                      ELSE NestingIfToken(u, <<c, TokensMinted[c] + i>>, owners[i], f[i - 1].left)]
  <2>1. MintChecks(u, c, owners, b) = mc[n]
    BY <1>2, Zenon DEF MintChecks
  <2>2. \A i \in 1..n : item[i] = <<c, TokensMinted[c] + i>>
    BY <1>1, <1>2, Zenon
  <2>3. ASSUME NEW f
        PROVE  IsChecks(f, u, item, owners, b, n) <=>
                 f = [i \in 0..n |-> IF i = 0 THEN Spent(b)
                      ELSE IF ~f[i - 1].ok THEN Failed
                      ELSE NestingIfToken(u, <<c, TokensMinted[c] + i>>, owners[i], f[i - 1].left)]
    <3>1. \A i \in 0..n : i # 0 => i \in 1..n
      OBVIOUS
    <3> QED BY <2>2, <3>1, Zenon DEF IsChecks
  <2>4. mc = left
    BY <2>3, ZenonT(60)
  <2> QED BY <2>1, <2>4, Zenon
<1> HIDE DEF left
<1>5. \A i \in 1..n : owners[i] \in Tokens => \E k \in Nat : CheckNesting(u, item[i], owners[i], k).ok
  <2>1. left[n].ok
    BY <1>4, Zenon
  <2> QED BY <1>3, <2>1, ChecksPass, Zenon
<1> QED BY <1>1, <1>2, <1>5, Zenon

\* Minting closes no cycle: a new token is in no chain yet.
LEMMA CycleMint ==
  ASSUME NftTypes, IndexExact, NoCycle, NEW u, NEW c \in CollectionIds, NEW owners \in Batches,
         NEW b \in Nat, CreateMultipleItems(u, c, owners, b)
  PROVE  NoCycle'
<1> DEFINE first == TokensMinted[c]
           new == BatchTokens(c, owners)
           own(t) == owners[t[2] - first]
<1>1. /\ first \in Nat /\ new \in SUBSET Tokens
      /\ \A t \in new : t[1] = c /\ t[2] - first \in DOMAIN owners /\ t[2] > first
      /\ TokenData' = [t \in Tokens |-> IF t \in new THEN own(t) ELSE TokenData[t]]
  BY NewFacts, ZenonT(60)
<1>2. /\ TokenData \in [Tokens -> Owners \cup {NotFound}] /\ DOMAIN TokenData = Tokens
      /\ NotFound \notin Tokens
  BY Kinds, Zenon DEF NftTypes
<1>3. \A t \in new : TokenData[t] = NotFound
  <2>1. \A t \in Existing : t[2] <= TokensMinted[t[1]]
    BY IndexForm, Kinds, Zenon DEF Existing
  <2>2. ASSUME NEW t \in new PROVE t \notin Existing
    <3>1. t \in Tokens /\ t[1] = c /\ t[2] > first /\ t[2] \in Nat
      BY <1>1, Kinds, Zenon
    <3> QED BY <1>1, <2>1, <3>1
  <2> QED BY <1>1, <2>2, Zenon DEF Existing
<1>4. MintChecks(u, c, owners, b).ok
  BY Zenon DEF CreateMultipleItems
<1> SUFFICES ASSUME NEW S \in SUBSET Tokens, S # {}, \A t \in S : TokenData'[t] \in S
             PROVE  FALSE
  BY Zenon DEF NoCycle
<1>5. CASE \E t \in S : t \in new
  <2>1. PICK t \in S : t \in new
    BY <1>5, Zenon
  <2>2. own(t) \in S /\ own(t) \in Tokens /\ t[2] - first \in DOMAIN owners
    BY <1>1, <2>1, Zenon
  <2>3. PICK i \in DOMAIN owners : i = t[2] - first /\ owners[i] \in S /\ owners[i] \in Tokens
    BY <2>2, Zenon
  <2>4. PICK k \in Nat : CheckNesting(u, <<c, TokensMinted[c] + i>>, owners[i], k).ok
    BY <1>4, <2>3, MintChecked, Zenon
  <2>5. PICK nestee : \E j \in Nat : GetCheckedTopmostOwner(TokenData, owners[i], nestee, j).ok
    BY <2>4, NestingFacts, Zenon
  <2>6. PICK m \in Nat : GetCheckedTopmostOwner(TokenData, owners[i], nestee, m).ok
    BY <2>5, Zenon
  <2>7. \A s \in S : s = nestee \/ TokenData[s] = NotFound \/ TokenData[s] \in S
    <3> HIDE DEF new, own
    <3> QED BY <1>1, <1>3, Zenon
  <2>8. PICK owner : owner = TokenData
    BY Zenon
  <2>9. PICK o : o = owners[i]
    BY Zenon
  <2>10. /\ GetCheckedTopmostOwner(owner, o, nestee, m).ok /\ o \in S
         /\ S \in SUBSET DOMAIN owner /\ NotFound \notin DOMAIN owner
         /\ \A s \in S : s = nestee \/ owner[s] = NotFound \/ owner[s] \in S
    BY <1>2, <2>3, <2>6, <2>7, <2>8, <2>9, Zenon
  <2> QED BY <2>10, WalkLeaves
<1>6. CASE \A t \in S : t \notin new
  <2> HIDE DEF new, own
  <2>1. \A t \in S : TokenData[t] \in S
    BY <1>1, <1>6, Zenon
  <2> QED BY <2>1, Zenon DEF NoCycle
<1> QED BY <1>5, <1>6, Zenon

\* A transfer closes no cycle: the walk from the new owner has not met the token.
LEMMA CycleMove ==
  ASSUME NftTypes, NoCycle, NEW u, NEW from \in Owners, NEW to \in Owners, NEW t \in Tokens,
         NEW b \in Nat, TransferInternal(u, from, to, t, b)
  PROVE  NoCycle'
<1>1. TokenData' = [TokenData EXCEPT ![t] = to] /\ NestingIfToken(u, t, to, b).ok
  BY Zenon DEF TransferInternal
<1>2. /\ TokenData \in [Tokens -> Owners \cup {NotFound}] /\ DOMAIN TokenData = Tokens
      /\ NotFound \notin Tokens
  BY Kinds, Zenon DEF NftTypes
<1> SUFFICES ASSUME NEW S \in SUBSET Tokens, S # {}, \A s \in S : TokenData'[s] \in S
             PROVE  FALSE
  BY Zenon DEF NoCycle
<1>3. \A s \in S : s = t \/ TokenData[s] \in S
  BY <1>1, <1>2, Zenon
<1>4. CASE t \in S
  <2>1. to \in S /\ to \in Tokens
    BY <1>1, <1>2, <1>4, Zenon
  <2>2. PICK m \in Nat : GetCheckedTopmostOwner(TokenData, to, t, m).ok
    BY <1>1, <2>1, NestingFacts, Zenon DEF NestingIfToken
  <2>3. PICK owner : owner = TokenData
    BY Zenon
  <2>4. /\ GetCheckedTopmostOwner(owner, to, t, m).ok
        /\ S \in SUBSET DOMAIN owner /\ NotFound \notin DOMAIN owner
        /\ \A s \in S : s = t \/ owner[s] = NotFound \/ owner[s] \in S
    BY <1>2, <1>3, <2>2, <2>3, Zenon
  <2> QED BY <2>1, <2>4, WalkLeaves
<1>5. CASE t \notin S
  <2>1. \A s \in S : TokenData[s] \in S
    BY <1>3, <1>5, Zenon
  <2> QED BY <2>1, Zenon DEF NoCycle
<1> QED BY <1>4, <1>5, Zenon

LEMMA CycleNext == NftTypes /\ IndexExact /\ NoCycle /\ [NftNext]_nftVars => NoCycle'
<1> SUFFICES ASSUME NftTypes, IndexExact, NoCycle, [NftNext]_nftVars PROVE NoCycle'
  BY Zenon
<1>0. TokenData \in [Tokens -> Owners \cup {NotFound}] /\ NotFound \notin Tokens
  BY Kinds, Zenon DEF NftTypes
<1>1. ASSUME \A t \in Tokens : TokenData'[t] \in {TokenData[t], NotFound} PROVE NoCycle'
  BY <1>0, <1>1, Zenon DEF NoCycle
<1>2. ASSUME NEW owner \in Owners, NEW t \in Tokens, BurnAsOwner(owner, t)
      PROVE  \A s \in Tokens : TokenData'[s] \in {TokenData[s], NotFound}
  BY <1>0, <1>2, Zenon DEF BurnAsOwner
<1>3. ASSUME NEW u \in Users, NEW c \in CollectionIds, DestroyNft(u, c)
      PROVE  \A s \in Tokens : TokenData'[s] \in {TokenData[s], NotFound}
  BY <1>3, Zenon DEF DestroyNft
<1>4. UNCHANGED nftVars \/ UNCHANGED tokenVars \/ Approves
        => \A s \in Tokens : TokenData'[s] \in {TokenData[s], NotFound}
  BY Zenon DEF nftVars, tokenVars, Approves
<1> QED BY <1>1, <1>2, <1>3, <1>4, NftSteps, CycleMint, CycleMove, Zenon

\* No token is ever nested in itself, directly or through others, at any depth.
THEOREM NestingAcyclic == NftSpec => []NoCycle
<1>1. NftInit => NoCycle
  BY Kinds DEF NftInit, TokenInit, NoCycle
<1> QED BY <1>1, NftTypesInit, NftTypesNext, IndexInit, IndexNext, CycleNext, PTL DEF NftSpec

\* Children are added and removed together with the owner.
LEMMA ChildrenNext == NftTypes /\ IndexExact /\ ChildrenAreNested /\ [NftNext]_nftVars => ChildrenAreNested'
<1> SUFFICES ASSUME NftTypes, IndexExact, ChildrenAreNested, [NftNext]_nftVars,
                    NEW p \in Tokens, NEW s \in Tokens, s \in TokenChildren'[p]
             PROVE  TokenData'[s] = p
  BY Zenon DEF ChildrenAreNested
<1>0. /\ TokenData \in [Tokens -> Owners \cup {NotFound}] /\ NotFound \notin Owners
      /\ TokenChildren \in [Tokens -> SUBSET Items] /\ Tokens \subseteq Owners
      /\ s \in TokenChildren[p] => TokenData[s] = p
  BY Kinds, Zenon DEF NftTypes, ChildrenAreNested
<1>1. ASSUME NEW u \in Users, NEW c \in CollectionIds, NEW owners \in Batches, NEW b \in Nat,
             CreateMultipleItems(u, c, owners, b)
      PROVE  TokenData'[s] = p
  <2> DEFINE first == TokensMinted[c]
             new == BatchTokens(c, owners)
             own(t) == owners[t[2] - first]
  <2>1. /\ first \in Nat /\ new \in SUBSET Tokens
        /\ \A t \in new : t[1] = c /\ t[2] > first
        /\ TokenData' = [t \in Tokens |-> IF t \in new THEN own(t) ELSE TokenData[t]]
        /\ TokenChildren' = [q \in Tokens |-> TokenChildren[q] \cup {t \in new : own(t) = q}]
    BY <1>1, NewFacts, ZenonT(60)
  <2>2. s \in TokenChildren[p] => s \notin new
    <3>1. \A t \in Existing : t[2] <= TokensMinted[t[1]]
      BY IndexForm, Kinds, Zenon DEF Existing
    <3>2. s \in TokenChildren[p] => s \in Existing
      BY <1>0, Zenon DEF Existing
    <3>3. s \in new => s[1] = c /\ s[2] > first /\ s[2] \in Nat
      BY <2>1, Kinds, Zenon
    <3> QED BY <2>1, <3>1, <3>2, <3>3
  <2> HIDE DEF new, own
  <2> QED BY <1>0, <2>1, <2>2, Zenon
<1>2. ASSUME NEW u \in Users, NEW from \in Owners, NEW to \in Owners, NEW t \in Tokens, NEW b \in Nat,
             TransferInternal(u, from, to, t, b)
      PROVE  TokenData'[s] = p
  <2>1. /\ TokenData[t] = from /\ TokenData' = [TokenData EXCEPT ![t] = to]
        /\ TokenChildren' = Renested(from, to, t)
    BY <1>2, Zenon DEF TransferInternal
  <2>2. CASE s # t
    <3>1. s \in TokenChildren[p]
      BY <1>0, <2>1, <2>2, Zenon DEF Renested, Nested, Unnested
    <3> QED BY <1>0, <2>1, <2>2, <3>1, Zenon
  <2>3. CASE s = t /\ p = to
    BY <1>0, <2>1, <2>3, Zenon
  <2>4. CASE s = t /\ p # to
    <3>1. s \in TokenChildren[p] /\ p # from
      BY <1>0, <2>1, <2>4, Zenon DEF Renested, Nested, Unnested
    <3> QED BY <1>0, <2>1, <2>4, <3>1, Zenon
  <2> QED BY <2>2, <2>3, <2>4, Zenon
<1>3. ASSUME NEW owner \in Owners, NEW t \in Tokens, BurnAsOwner(owner, t) PROVE TokenData'[s] = p
  <2>1. /\ TokenData[t] = owner /\ TokenData' = [TokenData EXCEPT ![t] = NotFound]
        /\ TokenChildren' = Unnested(TokenChildren, owner, t)
    BY <1>3, Zenon DEF BurnAsOwner
  <2>2. s \in TokenChildren[p] /\ (s = t => p # owner)
    BY <1>0, <2>1, Zenon DEF Unnested
  <2> QED BY <1>0, <2>1, <2>2, Zenon
<1>4. ASSUME NEW u \in Users, NEW c \in CollectionIds, DestroyNft(u, c) PROVE TokenData'[s] = p
  <2>1. /\ \A t \in Tokens : t[1] = c => TokenData[t] = NotFound
        /\ TokenData' = [t \in Tokens |-> IF t[1] = c THEN NotFound ELSE TokenData[t]]
        /\ TokenChildren' = [t \in Tokens |-> IF t[1] = c THEN {} ELSE TokenChildren[t]]
    BY <1>4, Zenon DEF DestroyNft, HasTokens
  <2> QED BY <1>0, <2>1, Zenon
<1>5. CASE UNCHANGED nftVars \/ UNCHANGED tokenVars \/ Approves
  BY <1>0, <1>5, Zenon DEF nftVars, tokenVars, Approves
<1> QED BY <1>1, <1>2, <1>3, <1>4, <1>5, NftSteps, Zenon

\* A token lists no child that is not nested in it.
THEOREM ChildrenCorrect == NftSpec => []ChildrenAreNested
<1>1. NftInit => ChildrenAreNested
  BY Zenon DEF NftInit, TokenInit, ChildrenAreNested
<1> QED BY <1>1, NftTypesInit, NftTypesNext, IndexInit, IndexNext, ChildrenNext, PTL DEF NftSpec

-----------------------------------------------------------------------------
(* Approvals.                                                              *)

\* No approval waits for a token that does not exist yet, or any more.
NoApprovalAhead == \A t \in Tokens : TokenData[t] = NotFound => Allowance[t] = NoSpender

\* Every change of owner clears the approval; a token starts without one.
LEMMA ApprovalSteps ==
  ASSUME NftTypes, IndexExact, NoApprovalAhead, [NftNext]_nftVars
  PROVE  /\ NoApprovalAhead'
         /\ \A t \in Tokens : TokenData'[t] # TokenData[t] => Allowance'[t] = NoSpender
<1>0. /\ TokenData \in [Tokens -> Owners \cup {NotFound}] /\ NotFound \notin Owners
      /\ Allowance \in [Tokens -> Users \cup {NoSpender}]
  BY Kinds, Zenon DEF NftTypes
<1> DEFINE Ends == \A t \in Tokens : TokenData'[t] # TokenData[t] => Allowance'[t] = NoSpender
<1>1. ASSUME NEW u \in Users, NEW c \in CollectionIds, NEW owners \in Batches, NEW b \in Nat,
             CreateMultipleItems(u, c, owners, b)
      PROVE  NoApprovalAhead' /\ Ends
  <2> DEFINE new == BatchTokens(c, owners)
             own(t) == owners[t[2] - TokensMinted[c]]
  <2>1. /\ TokensMinted[c] \in Nat /\ new \in SUBSET Tokens
        /\ \A t \in new : t[1] = c /\ t[2] > TokensMinted[c] /\ t[2] - TokensMinted[c] \in DOMAIN owners
        /\ TokenData' = [t \in Tokens |-> IF t \in new THEN own(t) ELSE TokenData[t]]
        /\ Allowance' = Allowance
    BY <1>1, NewFacts, ZenonT(60)
  <2>2. \A t \in new : TokenData[t] = NotFound
    <3>1. \A t \in Existing : t[2] <= TokensMinted[t[1]]
      BY IndexForm, Kinds, Zenon DEF Existing
    <3>2. ASSUME NEW t \in new PROVE t \notin Existing
      <4>1. t \in Tokens /\ t[1] = c /\ t[2] > TokensMinted[c] /\ t[2] \in Nat
        BY <2>1, Kinds, Zenon
      <4> QED BY <2>1, <3>1, <4>1
    <3> QED BY <2>1, <3>2, Zenon DEF Existing
  <2>3. \A t \in new : own(t) \in Owners
    BY <2>1, BatchFacts, Zenon
  <2> HIDE DEF new, own
  <2>4. \A t \in Tokens : TokenData'[t] = TokenData[t] \/ TokenData[t] = NotFound
    BY <2>1, <2>2, Zenon
  <2>5. \A t \in Tokens : TokenData'[t] = NotFound => TokenData[t] = NotFound
    BY <1>0, <2>1, <2>3, Zenon
  <2> QED BY <2>1, <2>4, <2>5, Zenon DEF NoApprovalAhead
<1>2. ASSUME NEW t \in Tokens, NEW to, TokenData' = [TokenData EXCEPT ![t] = to],
             Allowance' = [Allowance EXCEPT ![t] = NoSpender]
      PROVE  NoApprovalAhead' /\ Ends
  <2>1. /\ \A s \in Tokens \ {t} : TokenData'[s] = TokenData[s] /\ Allowance'[s] = Allowance[s]
        /\ Allowance'[t] = NoSpender
    BY <1>0, <1>2, Zenon
  <2> QED BY <2>1, Zenon DEF NoApprovalAhead
<1>3. ASSUME NEW u \in Users, NEW from \in Owners, NEW to \in Owners, NEW t \in Tokens, NEW b \in Nat,
             TransferInternal(u, from, to, t, b)
      PROVE  NoApprovalAhead' /\ Ends
  BY <1>2, <1>3, Zenon DEF TransferInternal, ClearedAllowance
<1>4. ASSUME NEW owner \in Owners, NEW t \in Tokens, BurnAsOwner(owner, t)
      PROVE  NoApprovalAhead' /\ Ends
  BY <1>2, <1>4, Zenon DEF BurnAsOwner, ClearedAllowance
<1>5. CASE Approves
  BY <1>0, <1>5, Zenon DEF Approves, NoApprovalAhead
<1>6. ASSUME NEW u \in Users, NEW c \in CollectionIds, DestroyNft(u, c)
      PROVE  NoApprovalAhead' /\ Ends
  <2>1. /\ TokenData' = [t \in Tokens |-> IF t[1] = c THEN NotFound ELSE TokenData[t]]
        /\ Allowance' = [t \in Tokens |-> IF t[1] = c THEN NoSpender ELSE Allowance[t]]
    BY <1>6, Zenon DEF DestroyNft
  <2> QED BY <2>1, Zenon DEF NoApprovalAhead
<1>7. CASE UNCHANGED nftVars \/ UNCHANGED tokenVars
  BY <1>7, Zenon DEF nftVars, tokenVars, NoApprovalAhead
<1> QED BY <1>1, <1>3, <1>4, <1>5, <1>6, <1>7, NftSteps, Zenon

\* An approval never survives a change of owner, nor the end of the token.
THEOREM ApprovalsEnd == NftSpec => ApprovalEndsWithOwner
<1> DEFINE Ends == \A t \in Tokens : TokenData'[t] # TokenData[t] => Allowance'[t] = NoSpender
<1>1. NftInit => NoApprovalAhead
  BY Zenon DEF NftInit, TokenInit, NoApprovalAhead
<1>2. NftTypes /\ IndexExact /\ NoApprovalAhead /\ [NftNext]_nftVars => NoApprovalAhead' /\ [Ends]_nftVars
  BY ApprovalSteps, Zenon
<1> QED BY <1>1, <1>2, NftTypesInit, NftTypesNext, IndexInit, IndexNext, PTL
        DEF NftSpec, ApprovalEndsWithOwner

-----------------------------------------------------------------------------
(* Who may take a token.                                                   *)

\* The tokens on a path to an account are different ones, so that no path is longer than
\* there are tokens.
LEMMA PathBound ==
  ASSUME NEW owner, DOMAIN owner = Tokens, NEW t \in Tokens, NEW nestee, NEW p,
         NEW n \in Nat \ {0}, NEW top, WalkPath(owner, t, nestee, p, n, top)
  PROVE  n <= Cardinality(Tokens)
<1>1. \A i \in 0..n - 1 : p[i] \in Tokens
  BY DEF WalkPath
<1>2. ASSUME NEW i \in 0..n - 1, NEW j \in 0..n - 1, i < j, p[i] = p[j] PROVE FALSE
  <2> DEFINE G == {k \in Nat : j + k <= n => p[i + k] = p[j + k]}
  <2>1. 0 \in G
    BY <1>2
  <2>2. ASSUME NEW k \in G PROVE k + 1 \in G
    <3> SUFFICES ASSUME j + (k + 1) <= n PROVE p[i + (k + 1)] = p[j + (k + 1)]
      OBVIOUS
    <3>1. p[i + k] = p[j + k] /\ i + (k + 1) \in 1..n /\ j + (k + 1) \in 1..n
      BY <1>2
    <3>2. (i + (k + 1)) - 1 = i + k /\ (j + (k + 1)) - 1 = j + k
      BY <1>2
    <3> QED BY <3>1, <3>2, Zenon DEF WalkPath
  <2>3. G = Nat
    <3>1. G \in SUBSET Nat
      BY Zenon
    <3> HIDE DEF G
    <3> QED BY <2>1, <2>2, <3>1, InductiveSet, Zenon
  <2>4. n - j \in Nat /\ j + (n - j) = n /\ i + (n - j) \in 1..n - 1
    BY <1>2
  <2>5. n - j \in G
    <3> HIDE DEF G
    <3> QED BY <2>3, <2>4, Zenon
  <2>6. p[i + (n - j)] = p[n]
    BY <2>4, <2>5
  <2> QED BY <2>4, <2>6, Zenon DEF WalkPath
<1> DEFINE D == 0..n - 1
           f == [i \in D |-> p[i]]
<1>3. f \in [D -> Tokens]
  BY <1>1, Zenon
<1>4. \A i, j \in D : f[i] = f[j] => i = j
  <2>1. \A i, j \in D : i < j \/ j < i \/ i = j
    OBVIOUS
  <2> QED BY <1>2, <2>1, Zenon
<1>5. f \in Injection(D, Tokens)
  <2> HIDE DEF f, D
  <2> QED BY <1>3, <1>4, Zenon DEF Injection, IsInjective
<1>6. Cardinality(D) <= Cardinality(Tokens)
  <2> HIDE DEF f, D
  <2> QED BY <1>5, FS_Injection, Kinds, Zenon
<1>7. Cardinality(D) = n
  BY FS_Interval
<1> QED BY <1>6, <1>7, Zenon

\* The account that a walk ends at is the one at the top of the token.
LEMMA PathEnds ==
  ASSUME NEW owner, DOMAIN owner = Tokens, NEW t \in Tokens, NEW nestee, NEW p,
         NEW n \in Nat \ {0}, NEW top, WalkPath(owner, t, nestee, p, n, top)
  PROVE  ParentChain(owner, t, Cardinality(Tokens) + 1)[Cardinality(Tokens) + 1] = top
<1>0. PICK N \in Nat : N = Cardinality(Tokens)
  BY FiniteTokens, Zenon
<1>1. n <= N
  BY <1>0, PathBound, Zenon
<1>2. PICK q : q = ParentChain(owner, t, N + 1)
  BY Zenon
<1>3. q[0] = t /\ \A i \in 1..N + 1 : q[i] = Up(owner, q[i - 1])
  BY <1>2, ChainStep
<1>4. /\ p[0] = t /\ \A i \in 1..n : p[i] = Up(owner, p[i - 1])
      /\ p[n] = top /\ Up(owner, top) = top
  BY Zenon DEF WalkPath, Up
<1> DEFINE G == {k \in Nat : k <= N + 1 => q[k] = IF k <= n THEN p[k] ELSE top}
<1>5. 0 \in G
  BY <1>3, <1>4
<1>6. ASSUME NEW k \in G PROVE k + 1 \in G
  <2> SUFFICES ASSUME k + 1 <= N + 1 PROVE q[k + 1] = IF k + 1 <= n THEN p[k + 1] ELSE top
    OBVIOUS
  <2>1. k \in Nat /\ k + 1 \in 1..N + 1 /\ (k + 1) - 1 = k /\ q[k + 1] = Up(owner, q[k])
        /\ q[k] = IF k <= n THEN p[k] ELSE top
    BY <1>3
  <2>2. CASE k + 1 <= n
    BY <1>4, <2>1, <2>2
  <2>3. CASE k >= n
    <3>1. q[k] = top
      BY <1>4, <2>1, <2>3
    <3> QED BY <1>4, <2>1, <2>3, <3>1
  <2> QED BY <2>1, <2>2, <2>3
<1>7. G = Nat
  <2>1. G \in SUBSET Nat
    BY Zenon
  <2> HIDE DEF G
  <2> QED BY <1>5, <1>6, <2>1, InductiveSet, Zenon
<1>8. N + 1 \in G
  <2> HIDE DEF G
  <2> QED BY <1>7
<1>9. q[N + 1] = top
  BY <1>1, <1>8
<1> QED BY <1>0, <1>2, <1>9, Zenon

\* A path from the parent is, after the token itself, a path from the token.
LEMMA PathFromChild ==
  ASSUME NEW owner, DOMAIN owner = Tokens, NEW t \in Tokens, owner[t] \in Tokens,
         NEW nestee, t # nestee, NEW p, NEW n \in Nat \ {0}, NEW top,
         WalkPath(owner, owner[t], nestee, p, n, top)
  PROVE  \E q : WalkPath(owner, t, nestee, q, n + 1, top)
<1> DEFINE q == [i \in 0..n + 1 |-> IF i = 0 THEN t ELSE p[i - 1]]
<1>1. q[0] = t /\ q[n + 1] = p[n] /\ \A i \in 1..n + 1 : q[i] = p[i - 1]
  OBVIOUS
<1> HIDE DEF q
<1>2. ASSUME NEW i \in 1..n + 1 PROVE q[i] = Up(owner, q[i - 1])
  <2>1. CASE i = 1
    BY <1>1, <2>1 DEF WalkPath, Up
  <2>2. CASE i # 1
    <3>1. i - 1 \in 1..n /\ i - 1 \in 1..n + 1 /\ (i - 1) - 1 \in 0..n
      BY <2>2
    <3>2. p[i - 1] = Up(owner, p[(i - 1) - 1])
      BY <3>1, Zenon DEF WalkPath
    <3> QED BY <1>1, <3>1, <3>2, Zenon
  <2> QED BY <2>1, <2>2, Zenon
<1>3. ASSUME NEW i \in 1..(n + 1) - 1 PROVE q[i] \in DOMAIN owner
  <2>1. CASE i = 1
    BY <1>1, <2>1 DEF WalkPath
  <2>2. CASE i # 1
    <3>1. i - 1 \in 1..n - 1 /\ i \in 1..n + 1
      BY <2>2
    <3> QED BY <1>1, <3>1, Zenon DEF WalkPath
  <2> QED BY <2>1, <2>2, Zenon
<1>4. ASSUME NEW i \in 0..(n + 1) - 1 PROVE q[i] # nestee
  <2>1. CASE i = 0
    BY <1>1, <2>1, Zenon
  <2>2. CASE i # 0
    <3>1. i - 1 \in 0..n - 1 /\ i \in 1..n + 1
      BY <2>2
    <3> QED BY <1>1, <3>1, Zenon DEF WalkPath
  <2> QED BY <2>1, <2>2, Zenon
<1> QED BY <1>1, <1>2, <1>3, <1>4, Zenon DEF WalkPath

\* Who a walk from a token has found to be the owner of what the token has is at its top,
\* and at the top of the tokens nested in it.
LEMMA TopFound ==
  ASSUME NftTypes, NEW u, NEW from \in Tokens, NEW b \in Nat, IndirectlyOwned(u, from, b).ok
  PROVE  TopOf(from) = u /\ \A t \in Tokens : TokenData[t] = from => TopOf(t) = u
<1>1. PICK owner : owner = TokenData
  BY Zenon
<1>2. /\ GetCheckedTopmostOwner(owner, from, NoToken, b).ok
      /\ GetCheckedTopmostOwner(owner, from, NoToken, b).top = u
  BY <1>1, Zenon DEF IndirectlyOwned, Failed
<1>3. PICK p : \E n \in Nat \ {0} : WalkPath(owner, from, NoToken, p, n, u)
  BY <1>2, WalkFacts, Zenon
<1>4. PICK n \in Nat \ {0} : WalkPath(owner, from, NoToken, p, n, u)
  BY <1>3, Zenon
<1>5. DOMAIN owner = Tokens /\ NoToken \notin Tokens
  BY <1>1, Kinds, Zenon DEF NftTypes
<1>6. TopOf(from) = u
  <2>1. ParentChain(owner, from, Cardinality(Tokens) + 1)[Cardinality(Tokens) + 1] = u
    BY <1>4, <1>5, PathEnds, Zenon
  <2> QED BY <1>1, <2>1, Zenon DEF TopOf
<1>7. ASSUME NEW t \in Tokens, TokenData[t] = from PROVE TopOf(t) = u
  <2>1. owner[t] = from /\ t # NoToken
    BY <1>1, <1>5, <1>7, Zenon
  <2>2. PICK q : WalkPath(owner, t, NoToken, q, n + 1, u)
    BY <1>4, <1>5, <2>1, PathFromChild, Zenon
  <2>3. n + 1 \in Nat \ {0}
    OBVIOUS
  <2>4. ParentChain(owner, t, Cardinality(Tokens) + 1)[Cardinality(Tokens) + 1] = u
    BY <1>5, <2>2, <2>3, PathEnds, Zenon
  <2> QED BY <1>1, <2>4, Zenon DEF TopOf
<1> QED BY <1>6, <1>7, Zenon

\* Passing check_allowed means being entitled, whatever the budget.
LEMMA AllowedEntitled ==
  ASSUME NftTypes, NEW u \in Users, NEW t \in Tokens, TokenData[t] \in Owners, NEW b \in Nat,
         CheckAllowed(u, TokenData[t], t, b).ok
  PROVE  Entitled(u, t)
<1>0. ~Failed.ok /\ DOMAIN TokenData = Tokens
  BY Zenon DEF Failed, NftTypes
<1>1. \/ TokenData[t] \in Users /\ AsSub[u] = AsSub[TokenData[t]]
      \/ IgnoresRestrictions(u, t[1])
      \/ Approved(u, TokenData[t], t)
      \/ TokenData[t] \in Tokens /\ IndirectlyOwned(u, TokenData[t], b).ok
  BY <1>0, Zenon DEF CheckAllowed
<1>2. CASE TokenData[t] \in Tokens /\ IndirectlyOwned(u, TokenData[t], b).ok
  <2>1. PICK from : from = TokenData[t]
    BY Zenon
  <2> QED BY <1>2, <2>1, TopFound, Zenon DEF Entitled
<1>3. CASE Approved(u, TokenData[t], t)
  BY <1>3, Zenon DEF Approved, Entitled
<1> QED BY <1>1, <1>2, <1>3, Zenon DEF Entitled

\* A call takes only tokens that its caller is entitled to, at any depth of nesting.
THEOREM TokensTakenByEntitled == NftSpec => TakenByEntitledOnly
<1> DEFINE Takes == \A t \in Existing : TokenData'[t] # TokenData[t] =>
             \A u \in Users : TakenBy(u, t) => Entitled(u, t)
<1>1. ASSUME NftTypes, NEW t \in Existing, NEW u \in Users, TakenBy(u, t) PROVE Entitled(u, t)
  <2>0. /\ t \in Tokens /\ TokenData[t] \in Owners /\ Budgets \subseteq Nat
    BY <1>1, TokenAssumption, Zenon DEF Existing, NftTypes
  <2>1. PICK b \in Budgets :
          \/ BurnAsOwner(u, t) \/ BurnFrom(u, TokenData[t], t, b)
          \/ Transfer(u, TokenData'[t], t, b) \/ TransferFrom(u, TokenData[t], TokenData'[t], t, b)
    BY <1>1, Zenon DEF TakenBy
  <2>2. CASE BurnAsOwner(u, t) \/ Transfer(u, TokenData'[t], t, b)
    <3>1. TokenData[t] = u
      BY <2>2, Zenon DEF BurnAsOwner, Transfer, TransferInternal
    <3> QED BY <3>1, Zenon DEF Entitled
  <2>3. CASE BurnFrom(u, TokenData[t], t, b) \/ TransferFrom(u, TokenData[t], TokenData'[t], t, b)
    <3>1. CheckAllowed(u, TokenData[t], t, b).ok
      BY <2>3, Zenon DEF BurnFrom, TransferFrom
    <3> QED BY <1>1, <2>0, <3>1, AllowedEntitled, Zenon
  <2> QED BY <2>1, <2>2, <2>3, Zenon
<1>2. NftTypes /\ [NftNext]_nftVars => [Takes]_nftVars
  BY <1>1, Zenon
<1> QED BY <1>2, NftTypesInit, NftTypesNext, PTL DEF NftSpec, TakenByEntitledOnly

-----------------------------------------------------------------------------
(* The modes of collections, for the pallets beside this one.              *)

\* A stored collection is a record with a mode.
HasMode(r) == r = [f \in DOMAIN r |-> r[f]] /\ "mode" \in DOMAIN r

\* Collections are stored under the ids given out so far, each with a mode.
ModesStored ==
  /\ CreatedCollectionCount \in Nat
  /\ CollectionById = [c \in CollectionIds |-> CollectionById[c]]
  /\ \A c \in CollectionIds : Exists(c) => c <= CreatedCollectionCount /\ HasMode(CollectionById[c])

\* No collection that exists is destroyed or gets another mode.
ModesUnchanged ==
  \A c \in CollectionIds :
    Exists(c) => Exists(c)' /\ CollectionById'[c].mode = CollectionById[c].mode

\* Saving a collection with a changed field other than the mode.
LEMMA FieldsKeepMode ==
  ASSUME NEW r, HasMode(r), NEW x
  PROVE  /\ HasMode([r EXCEPT !.owner = x]) /\ [r EXCEPT !.owner = x].mode = r.mode
         /\ HasMode([r EXCEPT !.sponsorship = x]) /\ [r EXCEPT !.sponsorship = x].mode = r.mode
         /\ HasMode([r EXCEPT !.limits = x]) /\ [r EXCEPT !.limits = x].mode = r.mode
         /\ HasMode([r EXCEPT !.permissions = x]) /\ [r EXCEPT !.permissions = x].mode = r.mode
<1>1. HasMode([r EXCEPT !.owner = x]) /\ [r EXCEPT !.owner = x].mode = r.mode
  BY Zenon DEF HasMode
<1>2. HasMode([r EXCEPT !.sponsorship = x]) /\ [r EXCEPT !.sponsorship = x].mode = r.mode
  BY Zenon DEF HasMode
<1>3. HasMode([r EXCEPT !.limits = x]) /\ [r EXCEPT !.limits = x].mode = r.mode
  BY Zenon DEF HasMode
<1>4. HasMode([r EXCEPT !.permissions = x]) /\ [r EXCEPT !.permissions = x].mode = r.mode
  BY Zenon DEF HasMode
<1> QED BY <1>1, <1>2, <1>3, <1>4, Zenon

LEMMA ModeExists == ASSUME NEW r, HasMode(r) PROVE r # NoCollection
BY Zenon DEF HasMode, NoCollection, Nothing

LEMMA SavedModes ==
  ASSUME ModesStored, NEW d \in CollectionIds, Exists(d), NEW r, Save(d, r),
         HasMode(CollectionById[d]) => HasMode(r) /\ r.mode = CollectionById[d].mode
  PROVE  ModesStored' /\ ModesUnchanged
<1>1. /\ CreatedCollectionCount' = CreatedCollectionCount /\ CreatedCollectionCount \in Nat
      /\ CollectionById = [c \in CollectionIds |-> CollectionById[c]]
      /\ CollectionById' = [CollectionById EXCEPT ![d] = r]
  BY Zenon DEF Save, counts, ModesStored
<1>2. /\ CollectionById'[d] = r /\ \A c \in CollectionIds \ {d} : CollectionById'[c] = CollectionById[c]
      /\ CollectionById' = [c \in CollectionIds |-> CollectionById'[c]]
  BY <1>1, Zenon
<1>3. d <= CreatedCollectionCount /\ HasMode(r) /\ r.mode = CollectionById[d].mode
  BY Zenon DEF ModesStored
<1>4. ASSUME NEW c \in CollectionIds
      PROVE  /\ Exists(c)' => c <= CreatedCollectionCount' /\ HasMode(CollectionById'[c])
             /\ Exists(c) => Exists(c)' /\ CollectionById'[c].mode = CollectionById[c].mode
  <2>1. CASE c = d
    <3>1. r # NoCollection
      BY <1>3, ModeExists, Zenon
    <3> QED BY <1>1, <1>2, <1>3, <2>1, <3>1, Zenon DEF Exists
  <2>2. CASE c # d
    BY <1>1, <1>2, <2>2, Zenon DEF Exists, ModesStored
  <2> QED BY <2>1, <2>2, Zenon
<1> QED BY <1>1, <1>2, <1>4, Zenon DEF ModesStored, ModesUnchanged

LEMMA ModesInit == CollectionInit => ModesStored
BY DEF CollectionInit, ModesStored, Exists

\* Configuring destroys nothing, and an existing collection keeps its mode.
LEMMA ConfigureModes == ASSUME ModesStored, Configure PROVE ModesStored' /\ ModesUnchanged
<1> DEFINE Goal == ModesStored' /\ ModesUnchanged
<1>1. ASSUME CreateCalls PROVE Goal
  <2>1. PICK id, r : /\ id = CreatedCollectionCount + 1 /\ id \in CollectionIds /\ HasMode(r)
                     /\ CreatedCollectionCount' = id
                     /\ CollectionById' = [CollectionById EXCEPT ![id] = r]
    <3>1. PICK u, mode, input, admins : CreateCollection(u, mode, input, admins)
      BY <1>1, Zenon DEF CreateCalls
    <3>2. \A a, b, c, d, e :
            HasMode([owner |-> a, mode |-> b, sponsorship |-> c, limits |-> d, permissions |-> e])
      BY DEF HasMode
    <3> QED BY <3>1, <3>2, Zenon DEF CreateCollection, NewId
  <2>2. /\ CollectionById = [c \in CollectionIds |-> CollectionById[c]] /\ CreatedCollectionCount \in Nat
        /\ \A c \in CollectionIds : Exists(c) => c <= CreatedCollectionCount /\ HasMode(CollectionById[c])
    BY Zenon DEF ModesStored
  <2>3. /\ CollectionById'[id] = r /\ \A c \in CollectionIds \ {id} : CollectionById'[c] = CollectionById[c]
        /\ CollectionById' = [c \in CollectionIds |-> CollectionById'[c]]
    BY <2>1, <2>2, Zenon
  <2>4. ~Exists(id)
    BY <2>1, <2>2
  <2>5. ASSUME NEW c \in CollectionIds
        PROVE  /\ Exists(c)' => c <= CreatedCollectionCount' /\ HasMode(CollectionById'[c])
               /\ Exists(c) => CollectionById'[c] = CollectionById[c] /\ Exists(c)'
    <3>0. c \in Int /\ id \in Int
      BY <2>1, <2>2 DEF CollectionIds
    <3> QED BY <2>1, <2>2, <2>3, <2>4, <3>0 DEF Exists
  <2> QED BY <2>1, <2>2, <2>3, <2>5 DEF ModesStored, ModesUnchanged
<1>2. ASSUME NEW u, NEW c, NEW user, NEW allowed,
             \/ ToggleAllowlist(u, c, user, allowed) \/ AddCollectionAdmin(u, c, user)
             \/ RemoveCollectionAdmin(u, c, user)
      PROVE  Goal
  <2>1. CollectionById' = CollectionById /\ CreatedCollectionCount' = CreatedCollectionCount
    BY <1>2, Zenon DEF ToggleAllowlist, AddCollectionAdmin, RemoveCollectionAdmin, counts
  <2> QED BY <2>1, Zenon DEF ModesStored, ModesUnchanged, Exists
<1>3. ASSUME NEW c \in CollectionIds, Exists(c), NEW x,
             \/ Save(c, [CollectionById[c] EXCEPT !.owner = x])
             \/ Save(c, [CollectionById[c] EXCEPT !.sponsorship = x])
             \/ Save(c, [CollectionById[c] EXCEPT !.limits = x])
             \/ Save(c, [CollectionById[c] EXCEPT !.permissions = x])
      PROVE  Goal
  <2>1. PICK r : /\ Save(c, r)
                 /\ HasMode(CollectionById[c]) => HasMode(r) /\ r.mode = CollectionById[c].mode
    BY <1>3, FieldsKeepMode, ZenonT(60)
  <2> QED BY <1>3, <2>1, SavedModes, Zenon
<1>4. ASSUME MemberCalls PROVE Goal
  BY <1>2, <1>3, <1>4, Zenon DEF MemberCalls, ChangeOwner
<1>5. ASSUME SponsorCalls PROVE Goal
  BY <1>3, <1>5, Zenon DEF SponsorCalls, SetSponsor, ConfirmSponsorship, RemoveSponsor
<1>6. ASSUME LimitCalls PROVE Goal
  BY <1>3, <1>6, Zenon DEF LimitCalls, SetCollectionLimits, SetCollectionPermissions, SetTransfersEnabled
<1>7. ASSUME PromotionCalls PROVE Goal
  BY <1>3, <1>7, UsersAssumption, Zenon DEF PromotionCalls, SponsorCollection, StopSponsoringCollection, CollectionIds
<1> QED BY <1>1, <1>4, <1>5, <1>6, <1>7, Zenon DEF Configure

\* Destroying a collection leaves the others as they are.
LEMMA DestroyModes ==
  ASSUME ModesStored, NEW u, NEW c \in CollectionIds, CommonDestroy(u, c)
  PROVE  /\ ModesStored' /\ ~Exists(c)'
         /\ \A d \in CollectionIds \ {c} : CollectionById'[d] = CollectionById[d]
<1>1. /\ CollectionById' = [CollectionById EXCEPT ![c] = NoCollection]
      /\ CreatedCollectionCount' = CreatedCollectionCount /\ CreatedCollectionCount \in Nat
      /\ CollectionById = [d \in CollectionIds |-> CollectionById[d]]
  BY Zenon DEF CommonDestroy, ModesStored
<1>2. /\ CollectionById'[c] = NoCollection
      /\ \A d \in CollectionIds \ {c} : CollectionById'[d] = CollectionById[d]
      /\ CollectionById' = [d \in CollectionIds |-> CollectionById'[d]]
  BY <1>1, Zenon
<1> QED BY <1>1, <1>2, Zenon DEF ModesStored, Exists

LEMMA ModesNext == ModesStored /\ [CollectionNext]_collectionVars => ModesStored'
<1>1. ModesStored /\ UNCHANGED collectionVars => ModesStored'
  BY Zenon DEF ModesStored, Exists, collectionVars
<1> QED BY <1>1, ConfigureModes, DestroyModes, Zenon DEF CollectionNext
=============================================================================
