-------------------------- MODULE RefungibleTotals --------------------------
(***************************************************************************)
(* Proofs about split tokens beside nonfungible tokens and money, for any  *)
(* number of accounts, collections, tokens, owners and pieces.  Here, what *)
(* each step does to the pieces, their types and their totals; what        *)
(* follows from it is in RefungibleProofs.                                 *)
(***************************************************************************)
EXTENDS Refungible, FungibleProofs

\* The provers of a leaf that names none: the solver, given time for the larger ones, then Zenon.
USE SMTT(15), ZenonT(10)

-----------------------------------------------------------------------------
(* Sums and counts.                                                        *)

\* Who has the whole sum leaves nothing to the others.
LEMMA SumAllInOne ==
  ASSUME NEW S, IsFiniteSet(S), NEW x \in S, NEW f, \A y \in S : f[y] \in Nat, Sum(f, S) = f[x]
  PROVE  \A y \in S \ {x} : f[y] = 0
<1>1. Sum(f, S) = f[x] + Sum(f, S \ {x}) /\ Sum(f, S \ {x}) \in Nat
  BY SumSplit, Zenon
<1>2. Sum(f, S \ {x}) = 0
  BY <1>1
<1>3. IsFiniteSet(S \ {x})
  BY FS_Subset, Zenon
<1>4. ASSUME NEW y \in S \ {x} PROVE f[y] = 0
  <2>1. f[y] <= Sum(f, S \ {x})
    BY <1>3, SumBound, Zenon
  <2> QED BY <1>2, <2>1
<1> QED BY <1>4, Zenon

\* Renaming the members of a set keeps their number.
LEMMA ImageCount ==
  ASSUME NEW S, IsFiniteSet(S), NEW b, \A x, y \in S : b[x] = b[y] => x = y,
         NEW T, T = {b[x] : x \in S}
  PROVE  IsFiniteSet(T) /\ Cardinality(T) = Cardinality(S)
<1>1. PICK s : s = [x \in S |-> b[x]]
  BY Zenon
<1>2. s \in Surjection(S, T)
  BY <1>1, Zenon DEF Surjection
<1>3. s \in Injection(S, T)
  <2>1. s \in [S -> T]
    BY <1>1, Zenon
  <2>2. \A x, y \in S : s[x] = s[y] => x = y
    BY <1>1, Zenon
  <2> QED BY <2>1, <2>2, Zenon DEF Injection, IsInjective
<1> QED BY <1>2, <1>3, FS_Surjection, Zenon

-----------------------------------------------------------------------------
(* The shapes of a step, and types.                                        *)

AllowancesTyped == PieceAllowance \in [Tokens \X Users \X Users -> Nat]

PieceTypes ==
  /\ Split \in SUBSET Tokens /\ PieceOwned \in SUBSET (Owners \X Tokens)
  /\ TotalPieces \in [Tokens -> Nat] /\ Pieces \in [Tokens \X Owners -> Nat]
  /\ PieceBalance \in [CollectionIds \X Owners -> Nat]
  /\ PiecesMinted \in [CollectionIds -> Nat] /\ AllowancesTyped

\* A call that mints lists an owner at most once for each token, and its tokens are
\* numbered from 1.
GoodShares(shares) ==
  /\ \E n \in Nat \ {0} : DOMAIN shares = 1..n /\ Len(shares) = n
  /\ \E m \in Nat \ {0} : NewTokens(shares) = 1..m
  /\ \A i \in DOMAIN shares : /\ shares[i].token \in Nat \ {0} /\ shares[i].owner \in Owners
                              /\ shares[i].pieces \in MintedPieces
  /\ \A i, j \in DOMAIN shares :
       shares[i].token = shares[j].token /\ shares[i].owner = shares[j].owner => i = j

LEMMA SeveralOwnersGood ==
  ASSUME NEW owners \in OwnerLists, NEW data \in [DOMAIN owners -> MintedPieces]
  PROVE  GoodShares(ForSeveralOwners(owners, data))
<1>1. PICK n \in Nat \ {0} : n = Len(owners) /\ DOMAIN owners = 1..n
  BY OwnerListFacts, BatchFacts, Zenon
<1>2. /\ \A i \in 1..n : owners[i] \in Owners /\ data[i] \in MintedPieces
      /\ \A i, j \in 1..n : owners[i] = owners[j] => i = j
  BY <1>1, OwnerListFacts, BatchFacts, Zenon
<1>3. PICK shares : shares = ForSeveralOwners(owners, data)
  BY Zenon
<1>4. shares = [i \in 1..n |-> [token |-> 1, owner |-> owners[i], pieces |-> data[i]]]
  BY <1>1, <1>3, Zenon DEF ForSeveralOwners, Share
<1>5. DOMAIN shares = 1..n /\ \A i \in 1..n :
        shares[i].token = 1 /\ shares[i].owner = owners[i] /\ shares[i].pieces = data[i]
  BY <1>4, Zenon
<1>6. Len(shares) = n
  BY <1>1, <1>4
<1>7. NewTokens(shares) = 1..1
  BY <1>1, <1>5 DEF NewTokens
<1> QED BY <1>1, <1>2, <1>3, <1>5, <1>6, <1>7 DEF GoodShares

LEMMA OneOwnerEachGood ==
  ASSUME NEW owners \in Batches, NEW data \in [DOMAIN owners -> MintedPieces]
  PROVE  GoodShares(ForOneOwnerEach(owners, data))
<1>1. PICK n \in Nat \ {0} : n = Len(owners) /\ DOMAIN owners = 1..n
  BY BatchFacts, Zenon
<1>2. \A i \in 1..n : owners[i] \in Owners /\ data[i] \in MintedPieces
  BY <1>1, BatchFacts, Zenon
<1>3. PICK shares : shares = ForOneOwnerEach(owners, data)
  BY Zenon
<1>4. shares = [i \in 1..n |-> [token |-> i, owner |-> owners[i], pieces |-> data[i]]]
  BY <1>1, <1>3, Zenon DEF ForOneOwnerEach, Share
<1>5. DOMAIN shares = 1..n /\ \A i \in 1..n :
        shares[i].token = i /\ shares[i].owner = owners[i] /\ shares[i].pieces = data[i]
  BY <1>4, Zenon
<1>6. Len(shares) = n
  BY <1>1, <1>4
<1>7. NewTokens(shares) = 1..n
  BY <1>1, <1>5 DEF NewTokens
<1> QED BY <1>1, <1>2, <1>3, <1>5, <1>6, <1>7 DEF GoodShares

\* A nonnegative budget is left after check_allowed.
LEMMA PiecesAllowedLeft ==
  ASSUME NEW u, NEW from, NEW t, NEW v, NEW b \in Nat, MayTakePieces(u, from, t, v, b).ok
  PROVE  MayTakePieces(u, from, t, v, b).left \in Nat
<1>1. Spent(b).left \in Nat /\ ~Failed.ok
  BY Zenon DEF Spent, Failed
<1>2. IndirectlyOwned(u, from, b).ok => IndirectlyOwned(u, from, b).left \in Nat
  BY <1>1, WalkFacts, Zenon DEF IndirectlyOwned
<1> QED BY <1>1, <1>2, Zenon DEF MayTakePieces

\* What a call leaves of the allowances are allowances.
LEMMA AllowancesStayTyped ==
  ASSUME AllowancesTyped, NEW u \in Users, NEW from \in Owners, NEW t \in Tokens, NEW v \in Nat
  PROVE  /\ AllowanceAfterBurn(PieceAllowance, t, v) \in [Tokens \X Users \X Users -> Nat]
         /\ \A allowance \in [Tokens \X Users \X Users -> Nat] :
              PieceAllowanceLeft(allowance, u, from, t, v) \in [Tokens \X Users \X Users -> Nat]
<1>1. PieceAllowance \in [Tokens \X Users \X Users -> Nat]
  BY Zenon DEF AllowancesTyped
<1>2. AllowanceAfterBurn(PieceAllowance, t, v) \in [Tokens \X Users \X Users -> Nat]
  BY <1>1, Zenon DEF AllowanceAfterBurn
<1>3. ASSUME NEW allowance \in [Tokens \X Users \X Users -> Nat]
      PROVE  PieceAllowanceLeft(allowance, u, from, t, v) \in [Tokens \X Users \X Users -> Nat]
  <2>1. CASE from \in Users /\ PieceAllowance[<<t, from, u>>] >= v
    <3>1. PieceAllowance[<<t, from, u>>] - v \in Nat
      BY <1>1, <2>1
    <3> QED BY <3>1, Zenon DEF PieceAllowanceLeft
  <2>2. CASE ~(from \in Users /\ PieceAllowance[<<t, from, u>>] >= v)
    BY <2>2, Zenon DEF PieceAllowanceLeft, PiecesAllowed
  <2> QED BY <2>1, <2>2, Zenon
<1> QED BY <1>2, <1>3, Zenon

RightsOnly ==
  UNCHANGED <<moneyVars, Split, TotalPieces, Pieces, PieceOwned, PieceBalance, PiecesMinted>>

LEMMA RftSteps ==
  ASSUME PieceTypes, RftNext
  PROVE  \/ \E u \in Users, c \in CollectionIds, b \in Nat :
              \E shares : GoodShares(shares) /\ CreatePieces(u, c, shares, b)
         \/ \E u \in Users, from, to \in Owners, t \in Tokens, v, b \in Nat :
              IsRft(t[1]) /\ MovePieces(u, from, to, t, v, b) /\ AllowancesTyped'
         \/ \E owner \in Owners, t \in Tokens, v \in Nat :
              IsRft(t[1]) /\ RemovePieces(owner, t, v) /\ AllowancesTyped'
         \/ \E u \in Users, t \in Tokens, v \in Nat : Repartition(u, t, v)
         \/ RightsOnly /\ AllowancesTyped'
         \/ \E u \in Users, c \in CollectionIds : DestroyRft(u, c)
         \/ FtNext /\ UNCHANGED rftVars
<1> DEFINE Creates == \E u \in Users, c \in CollectionIds, b \in Nat :
                        \E shares : GoodShares(shares) /\ CreatePieces(u, c, shares, b)
           Moves == \E u \in Users, from, to \in Owners, t \in Tokens, v, b \in Nat :
                      IsRft(t[1]) /\ MovePieces(u, from, to, t, v, b) /\ AllowancesTyped'
           Removes == \E owner \in Owners, t \in Tokens, v \in Nat :
                        IsRft(t[1]) /\ RemovePieces(owner, t, v) /\ AllowancesTyped'
           Repartitions == \E u \in Users, t \in Tokens, v \in Nat : Repartition(u, t, v)
           Allows == RightsOnly /\ AllowancesTyped'
<1>0. Budgets \subseteq Nat /\ Values \subseteq Nat /\ Users \subseteq Owners /\ Spenders \subseteq Users
  BY TokenAssumption, ValueAssumption DEF Owners
<1>1. AllowancesTyped /\ PieceAllowance \in [Tokens \X Users \X Users -> Nat]
  BY Zenon DEF PieceTypes, AllowancesTyped
<1>2. UNCHANGED PieceAllowance => AllowancesTyped'
  BY <1>1, Zenon DEF AllowancesTyped
<1>3. ASSUME CreatePieceCalls PROVE Creates
  <2>1. PICK u \in Users, c \in CollectionIds, owners \in Batches, b \in Budgets :
          \E data \in [DOMAIN owners -> MintedPieces] :
            \/ owners \in OwnerLists /\ CreatePieces(u, c, ForSeveralOwners(owners, data), b)
            \/ CreatePieces(u, c, ForOneOwnerEach(owners, data), b)
    BY <1>3, Zenon DEF CreatePieceCalls
  <2>2. PICK data \in [DOMAIN owners -> MintedPieces] :
            \/ owners \in OwnerLists /\ CreatePieces(u, c, ForSeveralOwners(owners, data), b)
            \/ CreatePieces(u, c, ForOneOwnerEach(owners, data), b)
    BY <2>1, Zenon
  <2>3. b \in Nat
    BY <1>0, Zenon
  <2>4. CASE owners \in OwnerLists /\ CreatePieces(u, c, ForSeveralOwners(owners, data), b)
    BY <2>3, <2>4, SeveralOwnersGood, Zenon
  <2>5. CASE CreatePieces(u, c, ForOneOwnerEach(owners, data), b)
    BY <2>3, <2>5, OneOwnerEachGood, Zenon
  <2> QED BY <2>2, <2>4, <2>5, Zenon
<1>4. ASSUME NEW u \in Users, NEW t \in Tokens, NEW v \in Values, BurnPieces(u, t, v) PROVE Removes
  <2>1. /\ IsRft(t[1]) /\ RemovePieces(u, t, v) /\ v \in Nat
        /\ PieceAllowance' = AllowanceAfterBurn(PieceAllowance, t, v)
    BY <1>0, <1>4, Zenon DEF BurnPieces
  <2>2. AllowancesTyped'
    BY <1>0, <1>1, <2>1, AllowancesStayTyped, Zenon DEF AllowancesTyped
  <2> QED BY <1>0, <2>1, <2>2, Zenon
<1>5. ASSUME NEW u \in Users, NEW t \in Tokens, NEW v \in Values, Repartition(u, t, v) PROVE Repartitions
  BY <1>0, <1>5, Zenon
<1>6. ASSUME NEW u \in Users, NEW t \in Tokens, NEW v \in Values, NEW from \in Users,
             NEW spender \in Spenders, ApprovePiecesFrom(u, from, t, spender, v)
      PROVE  Allows
  <2>1. RightsOnly /\ PieceAllowance' = [PieceAllowance EXCEPT ![<<t, from, spender>>] = v]
    BY <1>6, Zenon DEF ApprovePiecesFrom, RightsOnly
  <2>2. <<t, from, spender>> \in Tokens \X Users \X Users /\ v \in Nat
    BY <1>0, Zenon
  <2>3. AllowancesTyped'
    BY <1>1, <2>1, <2>2, Zenon DEF AllowancesTyped
  <2> QED BY <2>1, <2>3, Zenon
<1>7. ASSUME NEW u \in Users, NEW t \in Tokens, NEW v \in Values, NEW b \in Budgets, NEW to \in Owners,
             TransferPieces(u, to, t, v, b)
      PROVE  Moves
  BY <1>0, <1>2, <1>7, Zenon DEF TransferPieces
<1>8. ASSUME NEW u \in Users, NEW t \in Tokens, NEW v \in Values, NEW b \in Budgets,
             NEW from \in Owners, NEW to \in Owners, TransferPiecesFrom(u, from, to, t, v, b)
      PROVE  Moves
  <2>1. /\ IsRft(t[1]) /\ MayTakePieces(u, from, t, v, b).ok
        /\ MovePieces(u, from, to, t, v, MayTakePieces(u, from, t, v, b).left)
        /\ PieceAllowance' = PieceAllowanceLeft(PieceAllowance, u, from, t, v)
    BY <1>8, Zenon DEF TransferPiecesFrom
  <2>2. MayTakePieces(u, from, t, v, b).left \in Nat /\ v \in Nat
    BY <1>0, <2>1, PiecesAllowedLeft, Zenon
  <2>3. AllowancesTyped'
    BY <1>1, <2>1, <2>2, AllowancesStayTyped, Zenon DEF AllowancesTyped
  <2> QED BY <2>1, <2>2, <2>3, Zenon
<1>9. ASSUME NEW u \in Users, NEW t \in Tokens, NEW v \in Values, NEW b \in Budgets,
             NEW from \in Owners, BurnPiecesFrom(u, from, t, v, b)
      PROVE  Removes
  <2>1. PICK allowance : allowance = AllowanceAfterBurn(PieceAllowance, t, v)
    BY Zenon
  <2>2. /\ IsRft(t[1]) /\ RemovePieces(from, t, v) /\ v \in Nat
        /\ PieceAllowance' = PieceAllowanceLeft(allowance, u, from, t, v)
    BY <1>0, <1>9, <2>1, Zenon DEF BurnPiecesFrom
  <2>3. allowance \in [Tokens \X Users \X Users -> Nat]
    BY <1>1, <2>1, <2>2, AllowancesStayTyped, Zenon
  <2>4. AllowancesTyped'
    BY <1>1, <2>2, <2>3, AllowancesStayTyped, Zenon DEF AllowancesTyped
  <2> QED BY <2>2, <2>4, Zenon
<1>10. ASSUME NEW u, NEW operator, NEW c, NEW approve, SetPieceOperator(u, operator, c, approve)
       PROVE  Allows
  BY <1>2, <1>10, Zenon DEF SetPieceOperator, RightsOnly
<1>11. ASSUME PieceCalls PROVE Moves \/ Removes \/ Repartitions \/ Allows
  <2>1. \A t : Holders(t) \subseteq Owners
    BY Zenon DEF Holders
  <2> HIDE DEF Moves, Removes, Repartitions, Allows
  <2> QED BY <1>4, <1>5, <1>6, <1>7, <1>8, <1>9, <1>11, <2>1, ZenonT(60) DEF PieceCalls
<1> HIDE DEF Creates, Moves, Removes, Repartitions, Allows
<1>12. \/ Creates \/ Moves \/ Removes \/ Repartitions \/ Allows
       \/ \E u \in Users, c \in CollectionIds : DestroyRft(u, c)
       \/ FtNext /\ UNCHANGED rftVars
  BY <1>3, <1>10, <1>11, Zenon DEF RftNext, PieceSteps
<1> QED BY <1>12, Zenon DEF Creates, Moves, Removes, Repartitions, Allows

-----------------------------------------------------------------------------
(* Minting.                                                                *)

\* The shares of a call that give somebody pieces of a token, and what they give.
SharesFor(c, first, shares, t, o) ==
  {i \in DOMAIN shares : <<c, first + shares[i].token>> = t /\ shares[i].owner = o /\ shares[i].pieces > 0}
Gain(c, first, shares) ==
  [p \in Tokens \X Owners |->
     IF SharesFor(c, first, shares, p[1], p[2]) # {}
     THEN shares[CHOOSE i \in SharesFor(c, first, shares, p[1], p[2]) : TRUE].pieces ELSE 0]

\* Each share gives its owner its pieces, and nobody else gains.
LEMMA GainFacts ==
  ASSUME NEW shares, GoodShares(shares), NEW c \in CollectionIds, NEW first \in Nat,
         \A i \in DOMAIN shares : <<c, first + shares[i].token>> \in Tokens
  PROVE  /\ Gain(c, first, shares) \in [Tokens \X Owners -> Nat]
         /\ \A i \in DOMAIN shares :
              Gain(c, first, shares)[<< <<c, first + shares[i].token>>, shares[i].owner>>] = shares[i].pieces
         /\ \A t \in Tokens, o \in Owners : Gain(c, first, shares)[<<t, o>>] > 0 =>
              \E i \in DOMAIN shares : <<c, first + shares[i].token>> = t /\ shares[i].owner = o
                                       /\ shares[i].pieces > 0
         /\ \A t \in Tokens, o \in Owners :
              SharesFor(c, first, shares, t, o) # {} <=> Gain(c, first, shares)[<<t, o>>] > 0
<1> DEFINE D == DOMAIN shares
           F(t, o) == SharesFor(c, first, shares, t, o)
           g == Gain(c, first, shares)
<1>0. /\ \A i \in D : shares[i].token \in Nat /\ shares[i].owner \in Owners /\ shares[i].pieces \in Nat
      /\ \A i, j \in D : shares[i].token = shares[j].token /\ shares[i].owner = shares[j].owner => i = j
  BY PieceAssumption, Zenon DEF GoodShares
<1>1. \A t \in Tokens, o \in Owners :
        g[<<t, o>>] = IF F(t, o) # {} THEN shares[CHOOSE i \in F(t, o) : TRUE].pieces ELSE 0
  BY DEF Gain
<1>2. ASSUME NEW t \in Tokens, NEW o \in Owners
      PROVE  /\ g[<<t, o>>] \in Nat
             /\ g[<<t, o>>] > 0 => \E i \in D : i \in F(t, o)
             /\ \A i \in F(t, o) : i \in D /\ <<c, first + shares[i].token>> = t /\ shares[i].owner = o
                                   /\ shares[i].pieces > 0
             /\ \A i \in F(t, o) : g[<<t, o>>] = shares[i].pieces
  <2>1. \A i \in F(t, o) : i \in D /\ <<c, first + shares[i].token>> = t /\ shares[i].owner = o
                           /\ shares[i].pieces > 0
    BY Zenon DEF SharesFor
  <2>2. \A i, j \in F(t, o) : i = j
    <3>1. ASSUME NEW i \in F(t, o), NEW j \in F(t, o) PROVE i = j
      <4>1. first + shares[i].token = first + shares[j].token
        BY <2>1
      <4>2. shares[i].token = shares[j].token /\ shares[i].owner = shares[j].owner
        BY <1>0, <2>1, <4>1
      <4> QED BY <1>0, <2>1, <4>2, Zenon
    <3> QED BY <3>1, Zenon
  <2> HIDE DEF F, g
  <2>3. CASE F(t, o) = {}
    BY <1>1, <2>3
  <2>4. CASE F(t, o) # {}
    <3>1. PICK k \in F(t, o) : k = CHOOSE i \in F(t, o) : TRUE
      BY <2>4, Zenon
    <3>2. g[<<t, o>>] = shares[k].pieces
      BY <1>1, <2>4, <3>1, Zenon
    <3>3. \A i \in F(t, o) : g[<<t, o>>] = shares[i].pieces
      BY <2>2, <3>2, Zenon
    <3> QED BY <1>0, <2>1, <3>1, <3>2, <3>3, Zenon
  <2> QED BY <2>3, <2>4, <2>1, Zenon
<1>3. ASSUME NEW i \in D
      PROVE  g[<< <<c, first + shares[i].token>>, shares[i].owner>>] = shares[i].pieces
  <2>1. PICK t \in Tokens, o \in Owners : t = <<c, first + shares[i].token>> /\ o = shares[i].owner
    BY <1>0, Zenon
  <2>2. CASE shares[i].pieces > 0
    <3>1. i \in F(t, o)
      BY <2>1, <2>2, Zenon DEF SharesFor
    <3> HIDE DEF F, g
    <3> QED BY <1>2, <2>1, <3>1
  <2>3. CASE shares[i].pieces = 0
    <3>1. ASSUME NEW j \in F(t, o) PROVE FALSE
      <4>1. j \in D /\ <<c, first + shares[j].token>> = t /\ shares[j].owner = o /\ shares[j].pieces > 0
        BY <1>2, <3>1, Zenon
      <4>2. first + shares[i].token = first + shares[j].token
        BY <2>1, <4>1
      <4>3. shares[i].token = shares[j].token /\ shares[i].owner = shares[j].owner
        BY <1>0, <2>1, <4>1, <4>2, SMTT(60)
      <4>4. i = j
        BY <1>0, <4>1, <4>3, Zenon
      <4> QED BY <2>3, <4>1, <4>4
    <3>2. F(t, o) = {}
      BY <3>1, Zenon
    <3> HIDE DEF F, g
    <3> QED BY <1>1, <2>1, <2>3, <3>2, Zenon
  <2> QED BY <1>0, <2>2, <2>3
<1>4. g \in [Tokens \X Owners -> Nat]
  <2>1. g = [p \in Tokens \X Owners |-> g[p]]
    BY DEF Gain
  <2>2. \A p \in Tokens \X Owners : g[p] \in Nat
    <3>1. ASSUME NEW p \in Tokens \X Owners PROVE g[p] \in Nat
      <4>1. PICK t \in Tokens, o \in Owners : p = <<t, o>>
        OBVIOUS
      <4> HIDE DEF g
      <4> QED BY <1>2, <4>1, Zenon
    <3> QED BY <3>1, Zenon
  <2> HIDE DEF g
  <2> QED BY <2>1, <2>2, Zenon
<1> HIDE DEF g
<1>5. ASSUME NEW t \in Tokens, NEW o \in Owners, g[<<t, o>>] > 0
      PROVE  \E i \in DOMAIN shares : <<c, first + shares[i].token>> = t /\ shares[i].owner = o
                                      /\ shares[i].pieces > 0
  <2>1. PICK i \in D : i \in F(t, o)
    BY <1>2, <1>5, Zenon
  <2> QED BY <1>2, <2>1, Zenon
<1>6. ASSUME NEW t \in Tokens, NEW o \in Owners PROVE F(t, o) # {} <=> g[<<t, o>>] > 0
  <2> HIDE DEF F
  <2> QED BY <1>2
<1> QED BY <1>3, <1>4, <1>5, <1>6, Zenon DEF g

\* What a call that mints writes: new tokens, and the pieces of them that everybody gains.
CreatesPieces(u, c, new, gain) ==
  /\ IsRft(c) /\ new \in SUBSET Tokens /\ gain \in [Tokens \X Owners -> Nat]
  /\ \A t \in new : t[1] = c /\ t[2] > PiecesMinted[c] /\ t[2] <= PiecesMinted'[c]
  /\ \A t \in Tokens, o \in Owners : gain[<<t, o>>] > 0 => t \in new
  /\ \A o, t \in Tokens : gain[<<t, o>>] > 0 => \E k \in Nat : CheckNesting(u, t, o, k).ok
  /\ Split' = Split \cup new
  /\ TotalPieces' = [t \in Tokens |-> IF t \in new THEN Sum([o \in Owners |-> gain[<<t, o>>]], Owners)
                                      ELSE TotalPieces[t]]
  /\ Pieces' = [p \in Tokens \X Owners |-> IF gain[p] > 0 THEN gain[p] ELSE Pieces[p]]
  /\ PieceOwned' = PieceOwned \cup {p \in Owners \X new : gain[<<p[2], p[1]>>] > 0}
  /\ TokenChildren' = [o \in Tokens |-> TokenChildren[o] \cup {t \in new : gain[<<t, o>>] > 0}]
  /\ PiecesMinted' \in [CollectionIds -> Nat] /\ PiecesMinted'[c] >= PiecesMinted[c]
  /\ \A d \in CollectionIds \ {c} : PiecesMinted'[d] = PiecesMinted[d]
  /\ PieceBalance' \in [CollectionIds \X Owners -> Nat]
  /\ \A d \in CollectionIds \ {c}, o \in Owners : PieceBalance'[<<d, o>>] = PieceBalance[<<d, o>>]
  /\ 0 \notin MintedPieces =>
       /\ \A t \in new : \E o \in Owners : gain[<<t, o>>] > 0
       /\ \A o \in Owners : PieceBalance'[<<c, o>>] =
            PieceBalance[<<c, o>>] + Cardinality({t \in new : gain[<<t, o>>] > 0})
  /\ OthersUntouched /\ UNCHANGED PieceAllowance

\* The nesting of every share is checked.
LEMMA SharesChecked ==
  ASSUME NEW u, NEW c, NEW shares, GoodShares(shares), NEW b \in Nat, ShareChecks(u, c, shares, b).ok
  PROVE  \A i \in DOMAIN shares : shares[i].owner \in Tokens =>
           \E k \in Nat : CheckNesting(u, <<c, PiecesMinted[c] + shares[i].token>>, shares[i].owner, k).ok
<1>1. PICK n \in Nat : n = Len(shares) /\ DOMAIN shares = 1..n
  BY Zenon DEF GoodShares
<1>2. PICK item, owners : /\ item = [i \in 1..n |-> <<c, PiecesMinted[c] + shares[i].token>>]
                          /\ owners = [i \in 1..n |-> shares[i].owner]
  BY Zenon
<1> DEFINE left == CHOOSE f : IsChecks(f, u, item, owners, b, n)
<1>3. IsChecks(left, u, item, owners, b, n)
  BY ChecksExist, Zenon
<1>4. ShareChecks(u, c, shares, b) = left[n]
  <2> DEFINE R(f) == f = [i \in 0..n |-> IF i = 0 THEN Spent(b)
                      ELSE IF ~f[i - 1].ok THEN Failed
                      ELSE NestingIfToken(u, <<c, PiecesMinted[c] + shares[i].token>>, shares[i].owner, f[i - 1].left)]
             mc == CHOOSE f : R(f)
  <2>1. ShareChecks(u, c, shares, b) = mc[n]
    BY <1>1, Zenon DEF ShareChecks
  <2>2. \A i \in 1..n : item[i] = <<c, PiecesMinted[c] + shares[i].token>> /\ owners[i] = shares[i].owner
    BY <1>2, Zenon
  <2>3. ASSUME NEW f PROVE IsChecks(f, u, item, owners, b, n) <=> R(f)
    <3>1. \A i \in 0..n : i # 0 => i \in 1..n
      OBVIOUS
    <3> QED BY <2>2, <3>1, Zenon DEF IsChecks
  <2>4. mc = left
    <3> HIDE DEF R
    <3> QED BY <2>3, Zenon
  <2> QED BY <2>1, <2>4, Zenon
<1> HIDE DEF left
<1>5. left[n].ok
  BY <1>4, Zenon
<1>6. \A i \in 1..n : owners[i] \in Tokens => \E k \in Nat : CheckNesting(u, item[i], owners[i], k).ok
  BY <1>3, <1>5, ChecksPass, Zenon
<1> QED BY <1>1, <1>2, <1>6, Zenon

LEMMA PieceCreateEffect ==
  ASSUME PieceTypes, NEW u, NEW c \in CollectionIds, NEW shares, GoodShares(shares), NEW b \in Nat,
         CreatePieces(u, c, shares, b)
  PROVE  \E new, gain : CreatesPieces(u, c, new, gain)
<1> DEFINE D == DOMAIN shares
<1>1. PICK first \in Nat, m \in Nat \ {0} : first = PiecesMinted[c] /\ NewTokens(shares) = 1..m
  BY Zenon DEF PieceTypes, GoodShares
<1>2. PICK new : new = {<<c, first + n>> : n \in 1..m}
  BY Zenon
<1>3. PICK gain : gain = Gain(c, first, shares)
  BY Zenon
<1>4. IsFiniteSet(new) /\ Cardinality(new) = m
  <2>1. IsFiniteSet(1..m) /\ Cardinality(1..m) = m
    BY FS_Interval
  <2>2. PICK I \in SUBSET Nat : I = 1..m
    OBVIOUS
  <2>3. IsFiniteSet(Shifted(c, first, I)) /\ Cardinality(Shifted(c, first, I)) = Cardinality(I)
    BY <2>1, <2>2, ShiftedIds, Zenon
  <2>4. new = Shifted(c, first, I)
    BY <1>2, <2>2, Zenon DEF Shifted
  <2> QED BY <2>1, <2>2, <2>3, <2>4, Zenon
<1>5. /\ IsRft(c) /\ first + m <= MaxTokens /\ ShareChecks(u, c, shares, b).ok
      /\ Split' = Split \cup new
      /\ TotalPieces' = [t \in Tokens |-> IF t \in new THEN TotalOf(shares, t[2] - first) ELSE TotalPieces[t]]
      /\ PiecesMinted' = [PiecesMinted EXCEPT ![c] = first + m]
      /\ PieceBalance' = [p \in CollectionIds \X Owners |->
           IF p[1] = c THEN PieceBalance[p] + ShareCount(shares, p[2]) ELSE PieceBalance[p]]
      /\ OthersUntouched /\ UNCHANGED PieceAllowance
  BY <1>1, <1>2, <1>4, Zenon DEF CreatePieces
<1>6. /\ Pieces' = [p \in Tokens \X Owners |->
           IF SharesFor(c, first, shares, p[1], p[2]) # {}
           THEN shares[CHOOSE i \in SharesFor(c, first, shares, p[1], p[2]) : TRUE].pieces ELSE Pieces[p]]
      /\ PieceOwned' = PieceOwned \cup {p \in Owners \X new : SharesFor(c, first, shares, p[2], p[1]) # {}}
      /\ TokenChildren' = [o \in Tokens |-> TokenChildren[o] \cup
           {t \in new : SharesFor(c, first, shares, t, o) # {}}]
  BY <1>1, <1>2 DEF CreatePieces, SharesFor
<1>7. new \in SUBSET Tokens /\ \A t \in new : t[1] = c /\ t[2] > first /\ t[2] <= first + m
  <2>1. \A n \in 1..m : first + n \in 1..MaxTokens /\ first + n > first /\ first + n <= first + m
    BY <1>5, TokenAssumption
  <2> QED BY <1>2, <2>1, Kinds
<1>8. \A i \in D : shares[i].token \in 1..m /\ <<c, first + shares[i].token>> \in new
  BY <1>1, <1>2, Zenon DEF NewTokens
<1>9. /\ gain \in [Tokens \X Owners -> Nat]
      /\ \A i \in D : gain[<< <<c, first + shares[i].token>>, shares[i].owner>>] = shares[i].pieces
      /\ \A t \in Tokens, o \in Owners : gain[<<t, o>>] > 0 =>
           \E i \in D : <<c, first + shares[i].token>> = t /\ shares[i].owner = o /\ shares[i].pieces > 0
      /\ \A t \in Tokens, o \in Owners : SharesFor(c, first, shares, t, o) # {} <=> gain[<<t, o>>] > 0
  <2>1. \A i \in DOMAIN shares : <<c, first + shares[i].token>> \in Tokens
    BY <1>7, <1>8, Zenon
  <2>2. /\ Gain(c, first, shares) \in [Tokens \X Owners -> Nat]
        /\ \A i \in DOMAIN shares :
             Gain(c, first, shares)[<< <<c, first + shares[i].token>>, shares[i].owner>>] = shares[i].pieces
        /\ \A t \in Tokens, o \in Owners : Gain(c, first, shares)[<<t, o>>] > 0 =>
             \E i \in DOMAIN shares : <<c, first + shares[i].token>> = t /\ shares[i].owner = o
                                      /\ shares[i].pieces > 0
        /\ \A t \in Tokens, o \in Owners :
             SharesFor(c, first, shares, t, o) # {} <=> Gain(c, first, shares)[<<t, o>>] > 0
    BY <2>1, GainFacts, Zenon
  <2> QED BY <1>3, <2>2
<1>10. \A t \in Tokens, o \in Owners : gain[<<t, o>>] > 0 => t \in new
  BY <1>8, <1>9
<1>11. ASSUME NEW o \in Tokens, NEW t \in Tokens, gain[<<t, o>>] > 0
       PROVE  \E k \in Nat : CheckNesting(u, t, o, k).ok
  <2>1. PICK i \in D : <<c, first + shares[i].token>> = t /\ shares[i].owner = o
    BY <1>9, <1>11, Kinds
  <2>2. PICK k \in Nat : CheckNesting(u, <<c, PiecesMinted[c] + shares[i].token>>, shares[i].owner, k).ok
    BY <1>5, <2>1, SharesChecked, Zenon
  <2> QED BY <1>1, <2>1, <2>2, Zenon
<1>12. Pieces' = [p \in Tokens \X Owners |-> IF gain[p] > 0 THEN gain[p] ELSE Pieces[p]]
  <2>1. ASSUME NEW p \in Tokens \X Owners
        PROVE  (IF SharesFor(c, first, shares, p[1], p[2]) # {}
                THEN shares[CHOOSE i \in SharesFor(c, first, shares, p[1], p[2]) : TRUE].pieces ELSE Pieces[p])
                 = IF gain[p] > 0 THEN gain[p] ELSE Pieces[p]
    <3>1. PICK F : F = SharesFor(c, first, shares, p[1], p[2])
      BY Zenon
    <3>2. F # {} <=> gain[p] > 0
      BY <1>9, <3>1
    <3>3. gain[p] = IF F # {} THEN shares[CHOOSE i \in F : TRUE].pieces ELSE 0
      BY <1>3, <3>1 DEF Gain
    <3> QED BY <3>1, <3>2, <3>3, Zenon
  <2> QED BY <1>6, <2>1, Zenon
<1>13. /\ PieceOwned' = PieceOwned \cup {p \in Owners \X new : gain[<<p[2], p[1]>>] > 0}
       /\ TokenChildren' = [o \in Tokens |-> TokenChildren[o] \cup {t \in new : gain[<<t, o>>] > 0}]
  <2>1. \A p \in Owners \X new : SharesFor(c, first, shares, p[2], p[1]) # {} <=> gain[<<p[2], p[1]>>] > 0
    BY <1>7, <1>9, Zenon
  <2>2. \A o \in Tokens, t \in new : SharesFor(c, first, shares, t, o) # {} <=> gain[<<t, o>>] > 0
    BY <1>7, <1>9, Kinds, Zenon
  <2>3. {p \in Owners \X new : SharesFor(c, first, shares, p[2], p[1]) # {}}
          = {p \in Owners \X new : gain[<<p[2], p[1]>>] > 0}
    BY <2>1, Zenon
  <2>4. \A o \in Tokens : {t \in new : SharesFor(c, first, shares, t, o) # {}} = {t \in new : gain[<<t, o>>] > 0}
    BY <2>2, Zenon
  <2> QED BY <1>6, <2>3, <2>4, Zenon
<1>14. /\ IsFiniteSet(D)
       /\ \A i \in D : /\ shares[i].token \in Nat /\ shares[i].owner \in Owners
                       /\ shares[i].pieces \in MintedPieces /\ shares[i].pieces \in Nat
       /\ \A i, j \in D : shares[i].token = shares[j].token /\ shares[i].owner = shares[j].owner => i = j
  <2>1. PICK n \in Nat : D = 1..n
    BY Zenon DEF GoodShares
  <2>2. IsFiniteSet(D)
    BY <2>1, FS_Interval
  <2>3. \A i \in D : /\ shares[i].token \in Nat /\ shares[i].owner \in Owners
                    /\ shares[i].pieces \in MintedPieces /\ shares[i].pieces \in Nat
    BY PieceAssumption, Zenon DEF GoodShares
  <2>4. \A i, j \in D : shares[i].token = shares[j].token /\ shares[i].owner = shares[j].owner => i = j
    BY Zenon DEF GoodShares
  <2> QED BY <2>2, <2>3, <2>4, Zenon
<1>15. ASSUME NEW t \in new
       PROVE  TotalOf(shares, t[2] - first) = Sum([o \in Owners |-> gain[<<t, o>>]], Owners)
  <2>1. PICK f, own, g : /\ f = [i \in D |-> shares[i].pieces] /\ own = [i \in D |-> shares[i].owner]
                         /\ g = [o \in Owners |-> gain[<<t, o>>]]
    BY Zenon
  <2>2. PICK I \in SUBSET D : I = {i \in D : shares[i].token = t[2] - first}
    BY Zenon
  <2>3. TotalOf(shares, t[2] - first) = Sum(f, I)
    BY <2>1, <2>2, Zenon DEF TotalOf
  <2>4. IsFiniteSet(I)
    BY <1>14, <2>2, FS_Subset, Zenon
  <2>5. t \in Tokens /\ t = <<c, first + (t[2] - first)>> /\ t[2] \in Nat
    BY <1>7, Kinds
  <2>6. \A i \in I : f[i] \in Nat /\ own[i] \in Owners
    BY <1>14, <2>1, <2>2, Zenon
  <2>7. \A i, j \in I : own[i] = own[j] => i = j
    BY <1>14, <2>1, <2>2, Zenon
  <2>8. \A o \in Owners : g[o] = gain[<<t, o>>] /\ g[o] \in Nat
    BY <1>9, <2>1, <2>5, Zenon
  <2>9. \A i \in I : g[own[i]] = f[i]
    <3>1. ASSUME NEW i \in I PROVE g[own[i]] = f[i]
      <4>1. i \in D /\ own[i] = shares[i].owner /\ f[i] = shares[i].pieces /\ shares[i].token = t[2] - first
        BY <2>1, <2>2, Zenon
      <4>2. <<c, first + shares[i].token>> = t
        BY <2>5, <4>1, Zenon
      <4>3. gain[<<t, shares[i].owner>>] = shares[i].pieces
        BY <1>9, <4>1, <4>2, Zenon
      <4> QED BY <2>6, <2>8, <4>1, <4>3, Zenon
    <3> QED BY <3>1, Zenon
  <2>10. PICK O \in SUBSET Owners : O = {own[i] : i \in I}
    BY <2>6, Zenon
  <2>11. ASSUME NEW o \in Owners \ O PROVE g[o] = 0
    <3>1. g[o] = gain[<<t, o>>] /\ g[o] \in Nat
      BY <2>8, Zenon
    <3>2. CASE gain[<<t, o>>] > 0
      <4>1. PICK i \in D : <<c, first + shares[i].token>> = t /\ shares[i].owner = o
        BY <1>9, <2>5, <3>2, ZenonT(60)
      <4>2. first + shares[i].token = t[2] /\ shares[i].token \in Nat
        BY <1>14, <4>1, Zenon
      <4>3. i \in I
        BY <2>2, <2>5, <4>2
      <4>4. own[i] = o
        BY <2>1, <4>1, Zenon
      <4> QED BY <2>10, <4>3, <4>4, Zenon
    <3>3. CASE ~(gain[<<t, o>>] > 0)
      BY <3>1, <3>3
    <3> QED BY <3>2, <3>3, Zenon
  <2>12. Sum(f, I) = Sum(g, {own[i] : i \in I})
    BY <2>4, <2>6, <2>7, <2>9, SumReindex, SMTT(60)
  <2>13. \A o \in Owners : g[o] \in Nat
    BY <2>8, Zenon
  <2>14. Sum(g, Owners) = Sum(g, O)
    BY <2>11, <2>13, FiniteOwners, SumSupport, Zenon
  <2> QED BY <2>1, <2>3, <2>10, <2>12, <2>14, Zenon
<1>16. \A o : ShareCount(shares, o) \in Nat
  <2>1. \A o : IsFiniteSet({i \in D : shares[i].owner = o})
    BY <1>14, FS_Subset, Zenon
  <2> QED BY <2>1, FS_CardinalityType, Zenon DEF ShareCount
<1>17. ASSUME 0 \notin MintedPieces, NEW t \in new PROVE \E o \in Owners : gain[<<t, o>>] > 0
  <2>1. PICK n \in 1..m : t = <<c, first + n>>
    BY <1>2, Zenon
  <2>2. PICK i \in D : shares[i].token = n
    BY <1>1, Zenon DEF NewTokens
  <2>3. gain[<<t, shares[i].owner>>] = shares[i].pieces /\ shares[i].pieces > 0
    BY <1>9, <1>14, <1>17, <2>1, <2>2, SMTT(60)
  <2> QED BY <1>14, <2>3, Zenon
<1>18. ASSUME 0 \notin MintedPieces, NEW o \in Owners
       PROVE  ShareCount(shares, o) = Cardinality({t \in new : gain[<<t, o>>] > 0})
  <2>1. PICK id : id = [i \in D |-> <<c, first + shares[i].token>>]
    BY Zenon
  <2>2. PICK J \in SUBSET D : J = {i \in D : shares[i].owner = o}
    BY Zenon
  <2>3. PICK T : T = {t \in new : gain[<<t, o>>] > 0}
    BY Zenon
  <2>4. IsFiniteSet(J) /\ ShareCount(shares, o) = Cardinality(J)
    BY <1>14, <2>2, FS_Subset, Zenon DEF ShareCount
  <2>5. \A i, j \in J : id[i] = id[j] => i = j
    <3>1. ASSUME NEW i \in J, NEW j \in J, id[i] = id[j] PROVE i = j
      <4>1. first + shares[i].token = first + shares[j].token
        BY <2>1, <3>1, Zenon
      <4>2. shares[i].token = shares[j].token /\ shares[i].owner = shares[j].owner
        BY <1>14, <2>2, <4>1
      <4> QED BY <1>14, <4>2, Zenon
    <3> QED BY <3>1, Zenon
  <2>6. T = {id[i] : i \in J}
    <3>1. ASSUME NEW t \in T PROVE \E i \in J : t = id[i]
      <4>1. t \in Tokens /\ gain[<<t, o>>] > 0
        BY <1>7, <2>3, Zenon
      <4>2. PICK i \in D : <<c, first + shares[i].token>> = t /\ shares[i].owner = o
        BY <1>9, <4>1, ZenonT(60)
      <4> QED BY <2>1, <2>2, <4>2, Zenon
    <3>2. ASSUME NEW i \in J PROVE id[i] \in T
      <4>1. id[i] = <<c, first + shares[i].token>> /\ id[i] \in new /\ shares[i].owner = o
        BY <1>8, <2>1, <2>2, Zenon
      <4>2. gain[<<id[i], o>>] = shares[i].pieces /\ shares[i].pieces > 0
        <5>1. gain[<<id[i], o>>] = shares[i].pieces
          BY <1>9, <4>1, Zenon
        <5>2. shares[i].pieces \in MintedPieces /\ shares[i].pieces \in Nat
          BY <1>14, Zenon
        <5>3. shares[i].pieces # 0
          BY <1>18, <5>2, Zenon
        <5> QED BY <5>1, <5>2, <5>3, SMTT(60)
      <4> QED BY <2>3, <4>1, <4>2, Zenon
    <3> QED BY <3>1, <3>2, Zenon
  <2>7. Cardinality(T) = Cardinality(J)
    BY <2>4, <2>5, <2>6, ImageCount
  <2> QED BY <2>3, <2>4, <2>7, Zenon
<1>19. /\ PiecesMinted' \in [CollectionIds -> Nat] /\ PiecesMinted'[c] = first + m
       /\ \A d \in CollectionIds \ {c} : PiecesMinted'[d] = PiecesMinted[d]
  BY <1>5, SMTT(60) DEF PieceTypes
<1>20. /\ PieceBalance' \in [CollectionIds \X Owners -> Nat]
       /\ \A d \in CollectionIds \ {c}, o \in Owners : PieceBalance'[<<d, o>>] = PieceBalance[<<d, o>>]
       /\ \A o \in Owners : PieceBalance'[<<c, o>>] = PieceBalance[<<c, o>>] + ShareCount(shares, o)
  BY <1>5, <1>16, SMTT(60) DEF PieceTypes
<1>21. TotalPieces' = [t \in Tokens |-> IF t \in new THEN Sum([o \in Owners |-> gain[<<t, o>>]], Owners)
                                        ELSE TotalPieces[t]]
  BY <1>5, <1>15, Zenon
<1>22. \A t \in new : t[1] = c /\ t[2] > PiecesMinted[c] /\ t[2] <= PiecesMinted'[c]
  BY <1>1, <1>7, <1>19, Zenon
<1>23. PiecesMinted'[c] >= PiecesMinted[c]
  BY <1>1, <1>19
<1>24. \A o, t \in Tokens : gain[<<t, o>>] > 0 => \E k \in Nat : CheckNesting(u, t, o, k).ok
  BY <1>11, Zenon
<1>25. 0 \notin MintedPieces =>
         /\ \A t \in new : \E o \in Owners : gain[<<t, o>>] > 0
         /\ \A o \in Owners : PieceBalance'[<<c, o>>] =
              PieceBalance[<<c, o>>] + Cardinality({t \in new : gain[<<t, o>>] > 0})
  BY <1>17, <1>18, <1>20, Zenon
<1>26. CreatesPieces(u, c, new, gain)
  BY <1>5, <1>7, <1>9, <1>10, <1>12, <1>13, <1>19, <1>20, <1>21, <1>22, <1>23, <1>24, <1>25, Zenon
     DEF CreatesPieces
<1> QED BY <1>26, Zenon

-----------------------------------------------------------------------------
(* Moving and removing.                                                    *)

\* What a transfer writes, unless it is of nothing or to the owner itself.
MovesPieces(u, from, to, t, v) ==
  /\ from # to /\ v # 0
  /\ to \in Tokens => \E k \in Nat : CheckNesting(u, t, to, k).ok
  /\ TokenChildren' = ChildrenAfter(t, from, v, Nested(TokenChildren, to, t))
  /\ Pieces' = [Pieces EXCEPT ![<<t, from>>] = @ - v, ![<<t, to>>] = @ + v]
  /\ PieceOwned' = IF Pieces[<<t, to>>] = 0 THEN OwnedAfter(t, from, v) \cup {<<to, t>>}
                   ELSE OwnedAfter(t, from, v)
  /\ PieceBalance' = IF Pieces[<<t, to>>] = 0 THEN [CountAfter(t, from, v) EXCEPT ![<<t[1], to>>] = @ + 1]
                     ELSE CountAfter(t, from, v)

LEMMA PieceMoveEffect ==
  ASSUME NEW u, NEW from, NEW to, NEW t, NEW v, NEW b \in Nat, MovePieces(u, from, to, t, v, b)
  PROVE  /\ OthersUntouched /\ UNCHANGED <<Split, TotalPieces, PiecesMinted>>
         /\ Pieces[<<t, from>>] > 0 /\ Pieces[<<t, from>>] >= v
         /\ Leaves(t, from, v) => PieceBalance[<<t[1], from>>] >= 1
         /\ \/ UNCHANGED <<Pieces, PieceOwned, PieceBalance, TokenChildren>>
            \/ MovesPieces(u, from, to, t, v)
<1>1. /\ OthersUntouched /\ UNCHANGED <<Split, TotalPieces, PiecesMinted>>
      /\ Pieces[<<t, from>>] > 0 /\ Pieces[<<t, from>>] >= v
      /\ Leaves(t, from, v) => PieceBalance[<<t[1], from>>] >= 1
  BY Zenon DEF MovePieces
<1>2. CASE from = to \/ v = 0
  <2>1. UNCHANGED <<Pieces, PieceOwned, PieceBalance, TokenChildren>>
    BY <1>2, Zenon DEF MovePieces
  <2> QED BY <1>1, <2>1, Zenon
<1>3. CASE ~(from = to \/ v = 0)
  <2>1. /\ NestingIfToken(u, t, to, b).ok
        /\ TokenChildren' = ChildrenAfter(t, from, v, Nested(TokenChildren, to, t))
        /\ Pieces' = [Pieces EXCEPT ![<<t, from>>] = @ - v, ![<<t, to>>] = @ + v]
        /\ PieceOwned' = IF Pieces[<<t, to>>] = 0 THEN OwnedAfter(t, from, v) \cup {<<to, t>>}
                         ELSE OwnedAfter(t, from, v)
        /\ PieceBalance' = IF Pieces[<<t, to>>] = 0
                           THEN [CountAfter(t, from, v) EXCEPT ![<<t[1], to>>] = @ + 1]
                           ELSE CountAfter(t, from, v)
    BY <1>3, Zenon DEF MovePieces
  <2>2. to \in Tokens => \E k \in Nat : CheckNesting(u, t, to, k).ok
    BY <2>1, Zenon DEF NestingIfToken
  <2>3. MovesPieces(u, from, to, t, v)
    BY <1>3, <2>1, <2>2, Zenon DEF MovesPieces
  <2> QED BY <1>1, <2>3, Zenon
<1> QED BY <1>2, <1>3, Zenon

PieceSums == \A t \in Tokens : TotalPieces[t] = Sum(PiecesOf(t), Owners)

\* The pieces of a token as one family of naturals.
LEMMA PieceFamily ==
  ASSUME PieceTypes, NEW t \in Tokens
  PROVE  \A o \in Owners : PiecesOf(t)[o] = Pieces[<<t, o>>] /\ PiecesOf(t)[o] \in Nat
BY Zenon DEF PieceTypes, PiecesOf

\* When somebody has all pieces, nobody else has one.
LEMMA SoleOwner ==
  ASSUME PieceTypes, PieceSums, NEW t \in Tokens, NEW o \in Owners, TotalPieces[t] = Pieces[<<t, o>>]
  PROVE  \A p \in Owners \ {o} : Pieces[<<t, p>>] = 0
<1>1. PICK f : f = PiecesOf(t)
  BY Zenon
<1>2. \A p \in Owners : f[p] = Pieces[<<t, p>>] /\ f[p] \in Nat
  BY <1>1, PieceFamily, Zenon
<1>3. Sum(f, Owners) = f[o]
  BY <1>1, <1>2, Zenon DEF PieceSums
<1>4. \A p \in Owners : f[p] \in Nat
  BY <1>2, Zenon
<1>5. \A p \in Owners \ {o} : f[p] = 0
  BY <1>3, <1>4, FiniteOwners, SumAllInOne, Zenon
<1> QED BY <1>2, <1>5, Zenon

\* What burning writes.  With the last pieces nobody else loses any.
RemovesPieces(owner, t, v) ==
  /\ Pieces[<<t, owner>>] > 0 /\ Pieces[<<t, owner>>] >= v /\ TotalPieces[t] >= v
  /\ TotalPieces[t] = v => Pieces[<<t, owner>>] = v
  /\ Leaves(t, owner, v) => PieceBalance[<<t[1], owner>>] >= 1
  /\ PieceOwned' = OwnedAfter(t, owner, v)
  /\ PieceBalance' = CountAfter(t, owner, v)
  /\ TokenChildren' = ChildrenAfter(t, owner, v, TokenChildren)
  /\ TotalPieces' = [TotalPieces EXCEPT ![t] = @ - v]
  /\ Pieces' = [Pieces EXCEPT ![<<t, owner>>] = @ - v]
  /\ Split' = IF TotalPieces[t] = v THEN Split \ {t} ELSE Split
  /\ OthersUntouched /\ UNCHANGED PiecesMinted

LEMMA PieceRemoveEffect ==
  ASSUME PieceTypes, PieceSums, NEW owner \in Owners, NEW t \in Tokens, NEW v \in Nat,
         RemovePieces(owner, t, v)
  PROVE  RemovesPieces(owner, t, v)
<1>0. TotalPieces \in [Tokens -> Nat] /\ Pieces \in [Tokens \X Owners -> Nat]
  BY Zenon DEF PieceTypes
<1>1. /\ Pieces[<<t, owner>>] > 0 /\ TotalPieces[t] >= v
      /\ IF TotalPieces[t] = v THEN Pieces[<<t, owner>>] = v ELSE Pieces[<<t, owner>>] >= v
      /\ Leaves(t, owner, v) => PieceBalance[<<t[1], owner>>] >= 1
      /\ PieceOwned' = OwnedAfter(t, owner, v)
      /\ PieceBalance' = CountAfter(t, owner, v)
      /\ TokenChildren' = ChildrenAfter(t, owner, v, TokenChildren)
      /\ TotalPieces' = [TotalPieces EXCEPT ![t] = @ - v]
      /\ Split' = IF TotalPieces[t] = v THEN Split \ {t} ELSE Split
      /\ OthersUntouched /\ UNCHANGED PiecesMinted
  BY Zenon DEF RemovePieces
<1>2. Pieces' = [p \in Tokens \X Owners |->
        CASE p = <<t, owner>> -> Pieces[p] - v
          [] p[1] = t /\ p[2] # owner /\ TotalPieces[t] = v -> 0
          [] OTHER -> Pieces[p]]
  BY Zenon DEF RemovePieces
<1>3. TotalPieces[t] = v => \A o \in Owners \ {owner} : Pieces[<<t, o>>] = 0
  BY <1>1, SoleOwner, Zenon
<1>4. ASSUME NEW p \in Tokens \X Owners
      PROVE  (CASE p = <<t, owner>> -> Pieces[p] - v
                [] p[1] = t /\ p[2] # owner /\ TotalPieces[t] = v -> 0
                [] OTHER -> Pieces[p])
               = IF p = <<t, owner>> THEN Pieces[p] - v ELSE Pieces[p]
  <2>1. CASE p = <<t, owner>>
    BY <2>1, Zenon
  <2>2. CASE p # <<t, owner>> /\ p[1] = t /\ p[2] # owner /\ TotalPieces[t] = v
    <3>1. p = <<t, p[2]>> /\ p[2] \in Owners \ {owner}
      BY <2>2
    <3>2. Pieces[p] = 0
      BY <1>3, <2>2, <3>1, Zenon
    <3> QED BY <2>2, <3>2, Zenon
  <2>3. CASE p # <<t, owner>> /\ ~(p[1] = t /\ p[2] # owner /\ TotalPieces[t] = v)
    BY <2>3, Zenon
  <2> QED BY <2>1, <2>2, <2>3, Zenon
<1>5. Pieces' = [p \in Tokens \X Owners |-> IF p = <<t, owner>> THEN Pieces[p] - v ELSE Pieces[p]]
  BY <1>2, <1>4, Zenon
<1>6. Pieces' = [Pieces EXCEPT ![<<t, owner>>] = @ - v]
  BY <1>0, <1>5, Zenon
<1> QED BY <1>0, <1>1, <1>6, Zenon DEF RemovesPieces

-----------------------------------------------------------------------------
(* Types.                                                                  *)

\* Lists of children stay typed when pieces are nested and unnested.
LEMMA PieceChildrenTyped ==
  ASSUME NEW children \in [Tokens -> SUBSET Items], NEW t \in Tokens, NEW o, NEW v
  PROVE  /\ Nested(children, o, t) \in [Tokens -> SUBSET Items]
         /\ ChildrenAfter(t, o, v, children) \in [Tokens -> SUBSET Items]
<1>1. t \in Items
  BY Kinds, Zenon
<1> QED BY <1>1, Zenon DEF Nested, ChildrenAfter, Unnested

\* An owner that leaves is counted once less.
LEMMA CountTyped ==
  ASSUME PieceTypes, NEW t \in Tokens, NEW o \in Owners, NEW v,
         Leaves(t, o, v) => PieceBalance[<<t[1], o>>] >= 1
  PROVE  /\ CountAfter(t, o, v) \in [CollectionIds \X Owners -> Nat]
         /\ OwnedAfter(t, o, v) \in SUBSET (Owners \X Tokens)
<1>1. PieceBalance \in [CollectionIds \X Owners -> Nat] /\ PieceOwned \in SUBSET (Owners \X Tokens)
      /\ <<t[1], o>> \in CollectionIds \X Owners
  BY Kinds, Zenon DEF PieceTypes
<1>2. CASE Leaves(t, o, v)
  <2>1. PieceBalance[<<t[1], o>>] - 1 \in Nat
    BY <1>1, <1>2
  <2> QED BY <1>1, <1>2, <2>1, Zenon DEF CountAfter, OwnedAfter
<1>3. CASE ~Leaves(t, o, v)
  BY <1>1, <1>3, Zenon DEF CountAfter, OwnedAfter
<1> QED BY <1>2, <1>3, Zenon

\* The calls for pieces leave tokens and money alone.
LEMMA OthersUntouchedTypes ==
  ASSUME NftTypes, MoneyTypes, OthersUntouched, TokenChildren' \in [Tokens -> SUBSET Items]
  PROVE  NftTypes' /\ MoneyTypes'
<1>1. NftTypes'
  BY NftUntouchedTypes, Zenon DEF OthersUntouched
<1> QED BY <1>1, Zenon DEF OthersUntouched, MoneyTypes, ftVars

\* Taking from one amount and adding to another.
LEMMA AmountMoved ==
  ASSUME NEW S, NEW f \in [S -> Nat], NEW p \in S, NEW q \in S, p # q, NEW v \in Nat, f[p] >= v,
         NEW g, g = [f EXCEPT ![p] = @ - v, ![q] = @ + v]
  PROVE  g \in [S -> Nat]
OBVIOUS

LEMMA PieceTypesInit == RftInit => NftTypes /\ MoneyTypes /\ ModesStored /\ PieceTypes
<1>1. RftInit => PieceTypes
  BY DEF RftInit, PieceInit, PieceTypes, AllowancesTyped
<1> QED BY <1>1, MoneyTypesInit, Zenon DEF RftInit

LEMMA PieceTypesNext ==
  ASSUME NftTypes, MoneyTypes, PieceTypes, PieceSums, [RftNext]_pieceVars
  PROVE  NftTypes' /\ MoneyTypes' /\ PieceTypes'
<1>0. /\ Split \in SUBSET Tokens /\ PieceOwned \in SUBSET (Owners \X Tokens)
      /\ TotalPieces \in [Tokens -> Nat] /\ Pieces \in [Tokens \X Owners -> Nat]
      /\ PieceBalance \in [CollectionIds \X Owners -> Nat]
      /\ PiecesMinted \in [CollectionIds -> Nat] /\ AllowancesTyped
      /\ TokenChildren \in [Tokens -> SUBSET Items]
  BY Zenon DEF PieceTypes, NftTypes
<1>1. ASSUME NEW u \in Users, NEW c \in CollectionIds, NEW b \in Nat, NEW shares, GoodShares(shares),
             CreatePieces(u, c, shares, b)
      PROVE  NftTypes' /\ MoneyTypes' /\ PieceTypes'
  <2>1. PICK new, gain : CreatesPieces(u, c, new, gain)
    BY <1>1, PieceCreateEffect, Zenon
  <2>2. /\ new \in SUBSET Tokens /\ gain \in [Tokens \X Owners -> Nat]
        /\ Split' = Split \cup new
        /\ PieceOwned' = PieceOwned \cup {p \in Owners \X new : gain[<<p[2], p[1]>>] > 0}
        /\ PiecesMinted' \in [CollectionIds -> Nat]
        /\ PieceBalance' \in [CollectionIds \X Owners -> Nat]
        /\ OthersUntouched /\ UNCHANGED PieceAllowance
    BY <2>1, Zenon DEF CreatesPieces
  <2>3. TotalPieces' \in [Tokens -> Nat]
    <3>1. TotalPieces' = [t \in Tokens |-> IF t \in new THEN Sum([o \in Owners |-> gain[<<t, o>>]], Owners)
                                           ELSE TotalPieces[t]]
      BY <2>1, Zenon DEF CreatesPieces
    <3>2. ASSUME NEW t \in Tokens PROVE Sum([o \in Owners |-> gain[<<t, o>>]], Owners) \in Nat
      <4>1. PICK g : g = [o \in Owners |-> gain[<<t, o>>]]
        BY Zenon
      <4>2. \A o \in Owners : g[o] \in Nat
        BY <2>2, <4>1, Zenon
      <4> QED BY <4>1, <4>2, FiniteOwners, SumType, Zenon
    <3> QED BY <1>0, <3>1, <3>2, Zenon
  <2>4. Pieces' \in [Tokens \X Owners -> Nat]
    <3>1. Pieces' = [p \in Tokens \X Owners |-> IF gain[p] > 0 THEN gain[p] ELSE Pieces[p]]
      BY <2>1, Zenon DEF CreatesPieces
    <3> QED BY <1>0, <2>2, <3>1, Zenon
  <2>5. TokenChildren' \in [Tokens -> SUBSET Items]
    <3>1. TokenChildren' = [o \in Tokens |-> TokenChildren[o] \cup {t \in new : gain[<<t, o>>] > 0}]
      BY <2>1, Zenon DEF CreatesPieces
    <3>2. new \subseteq Items
      BY <2>2, Kinds, Zenon
    <3> QED BY <1>0, <3>1, <3>2, Zenon
  <2>6. PieceTypes'
    BY <1>0, <2>2, <2>3, <2>4, Zenon DEF PieceTypes, AllowancesTyped
  <2> QED BY <2>2, <2>5, <2>6, OthersUntouchedTypes, Zenon
<1>2. ASSUME NEW u \in Users, NEW from \in Owners, NEW to \in Owners, NEW t \in Tokens, NEW v \in Nat,
             NEW b \in Nat, MovePieces(u, from, to, t, v, b), AllowancesTyped'
      PROVE  NftTypes' /\ MoneyTypes' /\ PieceTypes'
  <2>1. /\ OthersUntouched /\ UNCHANGED <<Split, TotalPieces, PiecesMinted>>
        /\ Pieces[<<t, from>>] > 0 /\ Pieces[<<t, from>>] >= v
        /\ Leaves(t, from, v) => PieceBalance[<<t[1], from>>] >= 1
        /\ \/ UNCHANGED <<Pieces, PieceOwned, PieceBalance, TokenChildren>>
           \/ MovesPieces(u, from, to, t, v)
    BY <1>2, PieceMoveEffect, Zenon
  <2>2. CASE UNCHANGED <<Pieces, PieceOwned, PieceBalance, TokenChildren>>
    <3>1. PieceTypes'
      BY <1>0, <1>2, <2>1, <2>2, Zenon DEF PieceTypes
    <3> QED BY <1>0, <2>1, <2>2, <3>1, OthersUntouchedTypes, Zenon
  <2>3. CASE MovesPieces(u, from, to, t, v)
    <3>1. PICK children, owned, count :
            /\ children = Nested(TokenChildren, to, t)
            /\ owned = OwnedAfter(t, from, v) /\ count = CountAfter(t, from, v)
      BY Zenon
    <3>2. /\ children \in [Tokens -> SUBSET Items] /\ owned \in SUBSET (Owners \X Tokens)
          /\ count \in [CollectionIds \X Owners -> Nat]
      BY <1>0, <2>1, <3>1, PieceChildrenTyped, CountTyped, Zenon
    <3>3. TokenChildren' \in [Tokens -> SUBSET Items]
      BY <2>3, <3>1, <3>2, PieceChildrenTyped, Zenon DEF MovesPieces
    <3>4. Pieces' \in [Tokens \X Owners -> Nat]
      <4>1. /\ <<t, from>> \in Tokens \X Owners /\ <<t, to>> \in Tokens \X Owners /\ <<t, from>> # <<t, to>>
            /\ Pieces' = [Pieces EXCEPT ![<<t, from>>] = @ - v, ![<<t, to>>] = @ + v]
        BY <2>3, Zenon DEF MovesPieces
      <4> QED BY <1>0, <2>1, <4>1, AmountMoved, Zenon
    <3>5. PieceOwned' \in SUBSET (Owners \X Tokens)
      BY <2>3, <3>1, <3>2 DEF MovesPieces
    <3>6. PieceBalance' \in [CollectionIds \X Owners -> Nat]
      <4>1. PieceBalance' = count \/ PieceBalance' = [count EXCEPT ![<<t[1], to>>] = @ + 1]
        BY <2>3, <3>1, Zenon DEF MovesPieces
      <4>2. <<t[1], to>> \in CollectionIds \X Owners
        BY Kinds, Zenon
      <4>3. count[<<t[1], to>>] + 1 \in Nat
        BY <3>2, <4>2
      <4> QED BY <3>2, <4>1, <4>2, <4>3, Zenon
    <3>7. PieceTypes'
      BY <1>0, <1>2, <2>1, <3>4, <3>5, <3>6, Zenon DEF PieceTypes
    <3> QED BY <2>1, <3>3, <3>7, OthersUntouchedTypes, Zenon
  <2> QED BY <2>1, <2>2, <2>3, Zenon
<1>3. ASSUME NEW owner \in Owners, NEW t \in Tokens, NEW v \in Nat, RemovePieces(owner, t, v), AllowancesTyped'
      PROVE  NftTypes' /\ MoneyTypes' /\ PieceTypes'
  <2>1. RemovesPieces(owner, t, v)
    BY <1>3, PieceRemoveEffect, Zenon
  <2>2. /\ Pieces[<<t, owner>>] >= v /\ TotalPieces[t] >= v
        /\ Leaves(t, owner, v) => PieceBalance[<<t[1], owner>>] >= 1
        /\ TotalPieces' = [TotalPieces EXCEPT ![t] = @ - v]
        /\ Pieces' = [Pieces EXCEPT ![<<t, owner>>] = @ - v]
        /\ Split' \subseteq Split
        /\ OthersUntouched /\ UNCHANGED PiecesMinted
    BY <2>1, Zenon DEF RemovesPieces
  <2>3. TokenChildren' \in [Tokens -> SUBSET Items]
    BY <1>0, <2>1, PieceChildrenTyped, Zenon DEF RemovesPieces
  <2>4. PieceOwned' \in SUBSET (Owners \X Tokens) /\ PieceBalance' \in [CollectionIds \X Owners -> Nat]
    BY <2>1, <2>2, CountTyped, Zenon DEF RemovesPieces
  <2>5. TotalPieces' \in [Tokens -> Nat] /\ Pieces' \in [Tokens \X Owners -> Nat]
    BY <1>0, <2>2
  <2>6. PieceTypes'
    BY <1>0, <1>3, <2>2, <2>4, <2>5, Zenon DEF PieceTypes
  <2> QED BY <2>2, <2>3, <2>6, OthersUntouchedTypes, Zenon
<1>4. ASSUME NEW u \in Users, NEW t \in Tokens, NEW v \in Nat, Repartition(u, t, v)
      PROVE  NftTypes' /\ MoneyTypes' /\ PieceTypes'
  <2>1. /\ Pieces' = [Pieces EXCEPT ![<<t, u>>] = v] /\ TotalPieces' = [TotalPieces EXCEPT ![t] = v]
        /\ UNCHANGED <<moneyVars, Split, PieceOwned, PieceBalance, PiecesMinted, PieceAllowance>>
    BY <1>4, Zenon DEF Repartition
  <2>2. PieceTypes'
    BY <1>0, <2>1, Zenon DEF PieceTypes, AllowancesTyped
  <2> QED BY <2>1, <2>2, Zenon DEF moneyVars, nftVars, tokenVars, ftVars, NftTypes, MoneyTypes
<1>5. ASSUME RightsOnly, AllowancesTyped' PROVE NftTypes' /\ MoneyTypes' /\ PieceTypes'
  BY <1>5, Zenon DEF RightsOnly, moneyVars, nftVars, tokenVars, ftVars, NftTypes, MoneyTypes, PieceTypes
<1>6. ASSUME NEW u \in Users, NEW c \in CollectionIds, DestroyRft(u, c)
      PROVE  NftTypes' /\ MoneyTypes' /\ PieceTypes'
  <2>1. /\ PiecesMinted' = [PiecesMinted EXCEPT ![c] = 0]
        /\ PieceOwned' = {p \in PieceOwned : p[2][1] # c}
        /\ PieceBalance' = [p \in CollectionIds \X Owners |-> IF p[1] = c THEN 0 ELSE PieceBalance[p]]
        /\ TotalPieces' = [t \in Tokens |-> IF t[1] = c THEN 0 ELSE TotalPieces[t]]
        /\ Pieces' = [p \in Tokens \X Owners |-> IF p[1][1] = c THEN 0 ELSE Pieces[p]]
        /\ PieceAllowance' = [p \in Tokens \X Users \X Users |-> IF p[1][1] = c THEN 0 ELSE PieceAllowance[p]]
        /\ UNCHANGED <<tokenVars, ftVars, Split>>
    BY <1>6, Zenon DEF DestroyRft
  <2>2. PieceTypes'
    BY <1>0, <2>1, Zenon DEF PieceTypes, AllowancesTyped
  <2> QED BY <2>1, <2>2, Zenon DEF tokenVars, ftVars, NftTypes, MoneyTypes
<1>7. ASSUME [FtNext]_moneyVars, UNCHANGED rftVars PROVE NftTypes' /\ MoneyTypes' /\ PieceTypes'
  <2>1. NftTypes' /\ MoneyTypes'
    BY <1>7, MoneyTypesNext, Zenon
  <2>2. PieceTypes'
    BY <1>7, Zenon DEF rftVars, PieceTypes, AllowancesTyped
  <2> QED BY <2>1, <2>2, Zenon
<1> QED BY <1>1, <1>2, <1>3, <1>4, <1>5, <1>6, <1>7, RftSteps, Zenon DEF pieceVars

-----------------------------------------------------------------------------
(* Totals.                                                                 *)

\* Pieces are of minted tokens of refungible collections.
PiecesHaveCollection ==
  \A t \in Tokens, o \in Owners : Pieces[<<t, o>>] > 0 => IsRft(t[1]) /\ t[2] <= PiecesMinted[t[1]]

\* Nobody has pieces of a token that is being minted.
GainIsAll(new, gain) ==
  \A t \in new, o \in Owners : Pieces[<<t, o>>] = 0 /\ Pieces'[<<t, o>>] = gain[<<t, o>>]

LEMMA NewUnowned ==
  ASSUME PieceTypes, PiecesHaveCollection, NEW u, NEW c \in CollectionIds, NEW new, NEW gain,
         CreatesPieces(u, c, new, gain)
  PROVE  GainIsAll(new, gain)
<1>1. /\ new \in SUBSET Tokens /\ gain \in [Tokens \X Owners -> Nat]
      /\ \A t \in new : t[1] = c /\ t[2] > PiecesMinted[c]
      /\ Pieces' = [p \in Tokens \X Owners |-> IF gain[p] > 0 THEN gain[p] ELSE Pieces[p]]
  BY Zenon DEF CreatesPieces
<1>2. Pieces \in [Tokens \X Owners -> Nat] /\ PiecesMinted \in [CollectionIds -> Nat]
  BY Zenon DEF PieceTypes
<1>3. ASSUME NEW t \in new, NEW o \in Owners
      PROVE  Pieces[<<t, o>>] = 0 /\ Pieces'[<<t, o>>] = gain[<<t, o>>]
  <2>1. t \in Tokens /\ t[2] \in Nat /\ t[1] = c /\ ~(t[2] <= PiecesMinted[c])
    BY <1>1, <1>2, Kinds
  <2>2. ~(Pieces[<<t, o>>] > 0)
    BY <2>1, Zenon DEF PiecesHaveCollection
  <2>3. Pieces[<<t, o>>] = 0 /\ gain[<<t, o>>] \in Nat
    BY <1>1, <1>2, <2>1, <2>2
  <2> QED BY <1>1, <2>1, <2>3
<1> QED BY <1>3, Zenon DEF GainIsAll

LEMMA PieceSumsNext ==
  ASSUME PieceTypes, PieceTypes', PieceSums, PiecesHaveCollection, [RftNext]_pieceVars PROVE PieceSums'
<1> SUFFICES ASSUME NEW s \in Tokens PROVE TotalPieces'[s] = Sum(PiecesOf(s)', Owners)
  BY Zenon DEF PieceSums
<1>0. /\ TotalPieces \in [Tokens -> Nat] /\ Pieces \in [Tokens \X Owners -> Nat]
      /\ TotalPieces[s] = Sum(PiecesOf(s), Owners)
  BY Zenon DEF PieceTypes, PieceSums
<1>1. PICK f, h : f = PiecesOf(s) /\ h = PiecesOf(s)'
  BY Zenon
<1>2. /\ \A o \in Owners : f[o] = Pieces[<<s, o>>] /\ f[o] \in Nat
      /\ \A o \in Owners : h[o] = Pieces'[<<s, o>>] /\ h[o] \in Nat
  <2>1. h = [o \in Owners |-> Pieces'[<<s, o>>]]
    BY <1>1, Zenon DEF PiecesOf
  <2> QED BY <1>1, <2>1, PieceFamily, Zenon DEF PieceTypes
<1>3. IsFiniteSet(Owners) /\ (\A o \in Owners : f[o] \in Nat) /\ (\A o \in Owners : h[o] \in Nat)
  BY <1>2, FiniteOwners, Zenon
<1>4. SUFFICES TotalPieces'[s] = Sum(h, Owners)
  BY <1>1, Zenon
<1>5. ASSUME TotalPieces'[s] = TotalPieces[s], \A o \in Owners : Pieces'[<<s, o>>] = Pieces[<<s, o>>]
      PROVE  TotalPieces'[s] = Sum(h, Owners)
  <2>1. \A o \in Owners : f[o] = h[o]
    BY <1>2, <1>5, Zenon
  <2>2. Sum(f, Owners) = Sum(h, Owners)
    BY <2>1, SumCongruence, Zenon
  <2> QED BY <1>0, <1>1, <1>5, <2>2, Zenon
<1>6. ASSUME NEW u \in Users, NEW c \in CollectionIds, NEW b \in Nat, NEW shares, GoodShares(shares),
             CreatePieces(u, c, shares, b)
      PROVE  TotalPieces'[s] = Sum(h, Owners)
  <2>1. PICK new, gain : CreatesPieces(u, c, new, gain)
    BY <1>6, PieceCreateEffect, Zenon
  <2>2. /\ TotalPieces' = [t \in Tokens |-> IF t \in new THEN Sum([o \in Owners |-> gain[<<t, o>>]], Owners)
                                           ELSE TotalPieces[t]]
        /\ Pieces' = [p \in Tokens \X Owners |-> IF gain[p] > 0 THEN gain[p] ELSE Pieces[p]]
        /\ \A t \in Tokens, o \in Owners : gain[<<t, o>>] > 0 => t \in new
    BY <2>1, Zenon DEF CreatesPieces
  <2>3. CASE s \in new
    <3>1. PICK g : g = [o \in Owners |-> gain[<<s, o>>]]
      BY Zenon
    <3>2. \A o \in Owners : g[o] = h[o]
      <4>1. \A t \in new, o \in Owners : Pieces[<<t, o>>] = 0 /\ Pieces'[<<t, o>>] = gain[<<t, o>>]
        <5>1. GainIsAll(new, gain)
          BY <1>6, <2>1, NewUnowned, Zenon
        <5> QED BY <5>1, Zenon DEF GainIsAll
      <4> QED BY <1>2, <2>3, <3>1, <4>1, Zenon
    <3>3. Sum(g, Owners) = Sum(h, Owners)
      BY <3>2, SumCongruence, Zenon
    <3> QED BY <2>2, <2>3, <3>1, <3>3, Zenon
  <2>4. CASE s \notin new
    <3>1. TotalPieces'[s] = TotalPieces[s] /\ \A o \in Owners : Pieces'[<<s, o>>] = Pieces[<<s, o>>]
      BY <2>2, <2>4, Zenon
    <3> QED BY <1>5, <3>1, Zenon
  <2> QED BY <2>3, <2>4, Zenon
<1>7. ASSUME NEW u \in Users, NEW from \in Owners, NEW to \in Owners, NEW t \in Tokens, NEW v \in Nat,
             NEW b \in Nat, MovePieces(u, from, to, t, v, b)
      PROVE  TotalPieces'[s] = Sum(h, Owners)
  <2>1. /\ OthersUntouched /\ UNCHANGED <<Split, TotalPieces, PiecesMinted>>
        /\ Pieces[<<t, from>>] > 0 /\ Pieces[<<t, from>>] >= v
        /\ Leaves(t, from, v) => PieceBalance[<<t[1], from>>] >= 1
        /\ \/ UNCHANGED <<Pieces, PieceOwned, PieceBalance, TokenChildren>>
           \/ MovesPieces(u, from, to, t, v)
    BY <1>7, PieceMoveEffect, Zenon
  <2>2. CASE UNCHANGED Pieces
    BY <1>5, <2>1, <2>2, Zenon
  <2>3. CASE from # to /\ Pieces' = [Pieces EXCEPT ![<<t, from>>] = @ - v, ![<<t, to>>] = @ + v]
    <3>1. CASE s # t
      <4>1. \A o \in Owners : Pieces'[<<s, o>>] = Pieces[<<s, o>>]
        BY <1>0, <2>3, <3>1, Zenon
      <4> QED BY <1>5, <2>1, <4>1, Zenon
    <3>2. CASE s = t
      <4>1. /\ h[from] = f[from] - v /\ h[to] = f[to] + v
            /\ \A o \in Owners \ {from, to} : h[o] = f[o]
        BY <1>0, <1>2, <2>3, <3>2, Zenon
      <4>2. Sum(h, Owners) = Sum(f, Owners)
        BY <1>3, <2>3, <4>1, SumMoved
      <4> QED BY <1>0, <1>1, <2>1, <4>2, Zenon
    <3> QED BY <3>1, <3>2, Zenon
  <2> QED BY <2>1, <2>2, <2>3, Zenon DEF MovesPieces
<1>8. ASSUME NEW owner \in Owners, NEW t \in Tokens, NEW v \in Nat, RemovePieces(owner, t, v)
      PROVE  TotalPieces'[s] = Sum(h, Owners)
  <2>0. RemovesPieces(owner, t, v)
    BY <1>8, PieceRemoveEffect, Zenon
  <2>1. /\ TotalPieces' = [TotalPieces EXCEPT ![t] = @ - v]
        /\ Pieces' = [Pieces EXCEPT ![<<t, owner>>] = @ - v]
    BY <2>0, Zenon DEF RemovesPieces
  <2>2. CASE s # t
    <3>1. TotalPieces'[s] = TotalPieces[s] /\ \A o \in Owners : Pieces'[<<s, o>>] = Pieces[<<s, o>>]
      BY <1>0, <2>1, <2>2, Zenon
    <3> QED BY <1>5, <3>1, Zenon
  <2>3. CASE s = t
    <3>1. h[owner] = f[owner] - v /\ \A o \in Owners \ {owner} : h[o] = f[o]
      BY <1>0, <1>2, <2>1, <2>3, Zenon
    <3>2. Sum(h, Owners) = Sum(f, Owners) - v
      BY <1>3, <3>1, SumTaken, Zenon
    <3>3. TotalPieces'[s] = TotalPieces[s] - v
      BY <1>0, <2>1, <2>3, Zenon
    <3> QED BY <1>0, <1>1, <3>2, <3>3, Zenon
  <2> QED BY <2>2, <2>3, Zenon
<1>9. ASSUME NEW u \in Users, NEW t \in Tokens, NEW v \in Nat, Repartition(u, t, v)
      PROVE  TotalPieces'[s] = Sum(h, Owners)
  <2>1. /\ TotalPieces[t] = Pieces[<<t, u>>] /\ u \in Owners
        /\ Pieces' = [Pieces EXCEPT ![<<t, u>>] = v] /\ TotalPieces' = [TotalPieces EXCEPT ![t] = v]
    BY <1>9, Kinds, Zenon DEF Repartition, OwnsAll
  <2>2. CASE s # t
    <3>1. TotalPieces'[s] = TotalPieces[s] /\ \A o \in Owners : Pieces'[<<s, o>>] = Pieces[<<s, o>>]
      BY <1>0, <2>1, <2>2, Zenon
    <3> QED BY <1>5, <3>1, Zenon
  <2>3. CASE s = t
    <3>1. \A o \in Owners \ {u} : Pieces[<<t, o>>] = 0
      BY <2>1, SoleOwner, Zenon
    <3>2. h[u] = v /\ \A o \in Owners \ {u} : h[o] = 0
      BY <1>0, <1>2, <2>1, <2>3, <3>1, Zenon
    <3>3. Sum(h, Owners) = Sum(h, {u})
      BY <1>3, <2>1, <3>2, SumSupport, Zenon
    <3>4. Sum(h, {u}) = h[u]
      BY <1>3, <2>1, SumSingleton, Zenon
    <3> QED BY <1>0, <2>1, <2>3, <3>2, <3>3, <3>4, Zenon
  <2> QED BY <2>2, <2>3, Zenon
<1>10. ASSUME NEW u \in Users, NEW c \in CollectionIds, DestroyRft(u, c) PROVE TotalPieces'[s] = Sum(h, Owners)
  <2>1. /\ TotalPieces' = [t \in Tokens |-> IF t[1] = c THEN 0 ELSE TotalPieces[t]]
        /\ Pieces' = [p \in Tokens \X Owners |-> IF p[1][1] = c THEN 0 ELSE Pieces[p]]
    BY <1>10, Zenon DEF DestroyRft
  <2>2. CASE s[1] # c
    <3>1. TotalPieces'[s] = TotalPieces[s] /\ \A o \in Owners : Pieces'[<<s, o>>] = Pieces[<<s, o>>]
      BY <2>1, <2>2, Zenon
    <3> QED BY <1>5, <3>1, Zenon
  <2>3. CASE s[1] = c
    <3>1. \A o \in Owners : h[o] = 0
      BY <1>2, <2>1, <2>3, Zenon
    <3>2. Sum(h, Owners) = 0
      BY <3>1, SumZero, Zenon
    <3> QED BY <2>1, <2>3, <3>2, Zenon
  <2> QED BY <2>2, <2>3, Zenon
<1>11. CASE UNCHANGED <<TotalPieces, Pieces>>
  BY <1>5, <1>11, Zenon
<1>12. RightsOnly \/ UNCHANGED rftVars \/ UNCHANGED pieceVars => UNCHANGED <<TotalPieces, Pieces>>
  BY Zenon DEF RightsOnly, rftVars, pieceVars
<1> QED BY <1>6, <1>7, <1>8, <1>9, <1>10, <1>11, <1>12, RftSteps, Zenon

\* A collection keeps its mode until it is destroyed.
LEMMA RftModeSteps ==
  ASSUME ModesStored, NEW d \in CollectionIds
  PROVE  /\ UNCHANGED collectionVars => (IsRft(d)' <=> IsRft(d))
         /\ Configure => (IsRft(d) => IsRft(d)')
         /\ \A u \in Users, c \in CollectionIds : CommonDestroy(u, c) /\ d # c => (IsRft(d)' <=> IsRft(d))
<1>1. CollectionById'[d] = CollectionById[d] => (IsRft(d)' <=> IsRft(d))
  BY Zenon DEF IsRft, Exists
<1>2. UNCHANGED collectionVars => CollectionById'[d] = CollectionById[d]
  BY Zenon DEF collectionVars
<1>3. \A u \in Users, c \in CollectionIds : CommonDestroy(u, c) /\ d # c =>
        CollectionById'[d] = CollectionById[d]
  BY DestroyModes, Zenon
<1>4. Configure /\ Exists(d) => Exists(d)' /\ CollectionById'[d].mode = CollectionById[d].mode
  BY ConfigureModes, Zenon DEF ModesUnchanged
<1>5. Configure => (IsRft(d) => IsRft(d)')
  BY <1>4, Zenon DEF IsRft
<1> QED BY <1>1, <1>2, <1>3, <1>5, Zenon

\* The calls for tokens and money destroy no refungible collection.
LEMMA RftStaysRft ==
  ASSUME ModesStored, MoneyTypes, [FtNext]_moneyVars, NEW d \in CollectionIds, IsRft(d)
  PROVE  IsRft(d)'
<1>1. ASSUME NEW u \in Users, NEW c \in CollectionIds, IsNft(c) \/ IsFungible(c), CommonDestroy(u, c)
      PROVE  IsRft(d)'
  <2>1. c # d
    BY <1>1, Zenon DEF IsNft, IsFungible, IsRft
  <2> QED BY <1>1, <2>1, RftModeSteps, Zenon
<1>2. UNCHANGED collectionVars \/ Configure => IsRft(d)'
  BY RftModeSteps, Zenon
<1>3. ASSUME NftNext PROVE IsRft(d)'
  <2>1. ASSUME NEW u, NEW c, NEW owners, NEW b, CreateMultipleItems(u, c, owners, b)
        PROVE  UNCHANGED collectionVars
    BY <2>1, Zenon DEF CreateMultipleItems
  <2>2. ASSUME NEW u, NEW from, NEW to, NEW t, NEW b, TransferInternal(u, from, to, t, b)
        PROVE  UNCHANGED collectionVars
    BY <2>2, Zenon DEF TransferInternal
  <2>3. ASSUME NEW owner, NEW t, BurnAsOwner(owner, t) PROVE UNCHANGED collectionVars
    BY <2>3, Zenon DEF BurnAsOwner
  <2>4. Approves => UNCHANGED collectionVars
    BY Zenon DEF Approves
  <2>5. ASSUME NEW u \in Users, NEW c \in CollectionIds, DestroyNft(u, c) PROVE IsRft(d)'
    BY <1>1, <2>5, Zenon DEF DestroyNft
  <2> QED BY <1>2, <1>3, <2>1, <2>2, <2>3, <2>4, <2>5, NftSteps, Zenon
<1>4. NftUntouched => UNCHANGED collectionVars
  BY Zenon DEF NftUntouched
<1>5. ASSUME NEW u, NEW c, NEW owners, NEW data, NEW b, CreateMoney(u, c, owners, data, b)
      PROVE  IsRft(d)'
  BY <1>2, <1>4, <1>5, Zenon DEF CreateMoney
<1>6. ASSUME NEW u, NEW from, NEW to, NEW c, NEW v, NEW b, MoveMoney(u, from, to, c, v, b)
      PROVE  IsRft(d)'
  BY <1>2, <1>4, <1>6, Zenon DEF MoveMoney
<1>7. ASSUME NEW owner, NEW c, NEW v, RemoveMoney(owner, c, v) PROVE IsRft(d)'
  BY <1>2, <1>4, <1>7, Zenon DEF RemoveMoney
<1>8. UNCHANGED nftVars \/ UNCHANGED moneyVars => IsRft(d)'
  BY <1>2, Zenon DEF nftVars, moneyVars
<1>9. ASSUME NEW u \in Users, NEW c \in CollectionIds, DestroyFungible(u, c) PROVE IsRft(d)'
  BY <1>1, <1>9, Zenon DEF DestroyFungible
<1> QED BY <1>3, <1>5, <1>6, <1>7, <1>8, <1>9, FtSteps, Zenon

\* Also a token without pieces has an id that was minted.
SplitMinted == \A t \in Split : t[2] <= PiecesMinted[t[1]]

LEMMA SplitMintedNext ==
  ASSUME PieceTypes, PieceSums, SplitMinted, [RftNext]_pieceVars PROVE SplitMinted'
<1> SUFFICES ASSUME NEW s \in Split' PROVE s[2] <= PiecesMinted'[s[1]]
  BY Zenon DEF SplitMinted
<1>0. Split \in SUBSET Tokens /\ PiecesMinted \in [CollectionIds -> Nat]
  BY Zenon DEF PieceTypes
<1>1. ASSUME Split' \subseteq Split, UNCHANGED PiecesMinted PROVE s[2] <= PiecesMinted'[s[1]]
  BY <1>1, Zenon DEF SplitMinted
<1>2. ASSUME NEW u \in Users, NEW c \in CollectionIds, NEW b \in Nat, NEW shares, GoodShares(shares),
             CreatePieces(u, c, shares, b)
      PROVE  s[2] <= PiecesMinted'[s[1]]
  <2>1. PICK new, gain : CreatesPieces(u, c, new, gain)
    BY <1>2, PieceCreateEffect, Zenon
  <2>2. /\ \A t \in new : t[1] = c /\ t[2] <= PiecesMinted'[c]
        /\ Split' = Split \cup new
        /\ PiecesMinted' \in [CollectionIds -> Nat] /\ PiecesMinted'[c] >= PiecesMinted[c]
        /\ \A d \in CollectionIds \ {c} : PiecesMinted'[d] = PiecesMinted[d]
    BY <2>1, Zenon DEF CreatesPieces
  <2>3. CASE s \in new
    BY <2>2, <2>3, Zenon
  <2>4. CASE s \in Split
    <3>1. s[1] \in CollectionIds /\ s[2] \in Nat /\ s[2] <= PiecesMinted[s[1]]
      BY <1>0, <2>4, Kinds, Zenon DEF SplitMinted
    <3>2. PiecesMinted'[s[1]] >= PiecesMinted[s[1]] /\ PiecesMinted'[s[1]] \in Nat
      BY <1>0, <2>2, <3>1
    <3> QED BY <1>0, <3>1, <3>2
  <2> QED BY <2>2, <2>3, <2>4, Zenon
<1>3. ASSUME NEW u, NEW from, NEW to, NEW t, NEW v, NEW b, MovePieces(u, from, to, t, v, b)
      PROVE  s[2] <= PiecesMinted'[s[1]]
  BY <1>1, <1>3, Zenon DEF MovePieces
<1>4. ASSUME NEW owner, NEW t, NEW v, RemovePieces(owner, t, v) PROVE s[2] <= PiecesMinted'[s[1]]
  BY <1>1, <1>4, Zenon DEF RemovePieces
<1>5. ASSUME NEW u, NEW t, NEW v, Repartition(u, t, v) PROVE s[2] <= PiecesMinted'[s[1]]
  BY <1>1, <1>5, Zenon DEF Repartition
<1>6. ASSUME NEW u \in Users, NEW c \in CollectionIds, DestroyRft(u, c) PROVE s[2] <= PiecesMinted'[s[1]]
  <2>1. s[1] # c /\ s \in Split /\ PiecesMinted' = [PiecesMinted EXCEPT ![c] = 0]
    BY <1>6, Zenon DEF DestroyRft
  <2>2. s[1] \in CollectionIds /\ s[2] <= PiecesMinted[s[1]]
    BY <1>0, <2>1, Kinds, Zenon DEF SplitMinted
  <2> QED BY <1>0, <2>1, <2>2, Zenon
<1>7. RightsOnly \/ UNCHANGED rftVars \/ UNCHANGED pieceVars => s[2] <= PiecesMinted'[s[1]]
  BY <1>1, Zenon DEF RightsOnly, rftVars, pieceVars
<1> QED BY <1>2, <1>3, <1>4, <1>5, <1>6, <1>7, RftSteps, Zenon

LEMMA PiecesHaveCollectionNext ==
  ASSUME ModesStored, MoneyTypes, PieceTypes, PieceSums, SplitMinted, PiecesHaveCollection,
         [RftNext]_pieceVars
  PROVE  PiecesHaveCollection'
<1> SUFFICES ASSUME NEW s \in Tokens, NEW o \in Owners, Pieces'[<<s, o>>] > 0
             PROVE  IsRft(s[1])' /\ s[2] <= PiecesMinted'[s[1]]
  BY Zenon DEF PiecesHaveCollection
<1>0. /\ Pieces \in [Tokens \X Owners -> Nat] /\ PiecesMinted \in [CollectionIds -> Nat]
      /\ s[1] \in CollectionIds /\ s[2] \in Nat
  BY Kinds, Zenon DEF PieceTypes
<1>1. ASSUME IsRft(s[1]) => IsRft(s[1])', PiecesMinted'[s[1]] = PiecesMinted[s[1]], Pieces[<<s, o>>] > 0
      PROVE  IsRft(s[1])' /\ s[2] <= PiecesMinted'[s[1]]
  BY <1>1, Zenon DEF PiecesHaveCollection
<1>2. UNCHANGED collectionVars => (IsRft(s[1])' <=> IsRft(s[1]))
  BY <1>0, RftModeSteps, Zenon
<1>3. OthersUntouched => UNCHANGED collectionVars
  BY Zenon DEF OthersUntouched, NftUntouched
<1>4. ASSUME NEW u \in Users, NEW c \in CollectionIds, NEW b \in Nat, NEW shares, GoodShares(shares),
             CreatePieces(u, c, shares, b)
      PROVE  IsRft(s[1])' /\ s[2] <= PiecesMinted'[s[1]]
  <2>1. PICK new, gain : CreatesPieces(u, c, new, gain)
    BY <1>4, PieceCreateEffect, Zenon
  <2>2. /\ IsRft(c) /\ OthersUntouched /\ gain \in [Tokens \X Owners -> Nat]
        /\ \A t \in new : t[1] = c /\ t[2] <= PiecesMinted'[c]
        /\ \A t \in Tokens, p \in Owners : gain[<<t, p>>] > 0 => t \in new
        /\ Pieces' = [p \in Tokens \X Owners |-> IF gain[p] > 0 THEN gain[p] ELSE Pieces[p]]
        /\ PiecesMinted' \in [CollectionIds -> Nat] /\ PiecesMinted'[c] >= PiecesMinted[c]
        /\ \A d \in CollectionIds \ {c} : PiecesMinted'[d] = PiecesMinted[d]
    BY <2>1, Zenon DEF CreatesPieces
  <2>3. CASE gain[<<s, o>>] > 0
    <3>1. s \in new /\ s[1] = c
      BY <2>2, <2>3, Zenon
    <3> QED BY <1>2, <1>3, <2>2, <3>1, Zenon
  <2>4. CASE ~(gain[<<s, o>>] > 0)
    <3>1. Pieces[<<s, o>>] > 0
      BY <2>2, <2>4, Zenon
    <3>2. IsRft(s[1]) /\ s[2] <= PiecesMinted[s[1]]
      BY <3>1, Zenon DEF PiecesHaveCollection
    <3>3. PiecesMinted'[s[1]] >= PiecesMinted[s[1]] /\ PiecesMinted'[s[1]] \in Nat
      BY <1>0, <2>2
    <3> QED BY <1>0, <1>2, <1>3, <2>2, <3>2, <3>3
  <2> QED BY <2>3, <2>4, Zenon
<1>5. ASSUME NEW u \in Users, NEW from \in Owners, NEW to \in Owners, NEW t \in Tokens, NEW v \in Nat,
             NEW b \in Nat, IsRft(t[1]), MovePieces(u, from, to, t, v, b)
      PROVE  IsRft(s[1])' /\ s[2] <= PiecesMinted'[s[1]]
  <2>1. /\ OthersUntouched /\ UNCHANGED <<Split, TotalPieces, PiecesMinted>>
        /\ Pieces[<<t, from>>] > 0 /\ Pieces[<<t, from>>] >= v
        /\ Leaves(t, from, v) => PieceBalance[<<t[1], from>>] >= 1
        /\ \/ UNCHANGED <<Pieces, PieceOwned, PieceBalance, TokenChildren>>
           \/ MovesPieces(u, from, to, t, v)
    BY <1>5, PieceMoveEffect, Zenon
  <2>2. Pieces' = Pieces \/ Pieces' = [Pieces EXCEPT ![<<t, from>>] = @ - v, ![<<t, to>>] = @ + v]
    BY <2>1, Zenon DEF MovesPieces
  <2>3. CASE s # t
    <3>1. Pieces[<<s, o>>] > 0
      BY <1>0, <2>2, <2>3, Zenon
    <3> QED BY <1>1, <1>2, <1>3, <2>1, <3>1, Zenon
  <2>4. CASE s = t
    <3>1. s[2] <= PiecesMinted[s[1]]
      BY <2>1, <2>4, Zenon DEF PiecesHaveCollection
    <3> QED BY <1>2, <1>3, <1>5, <2>1, <2>4, <3>1, Zenon
  <2> QED BY <2>3, <2>4, Zenon
<1>6. ASSUME NEW owner \in Owners, NEW t \in Tokens, NEW v \in Nat, RemovePieces(owner, t, v)
      PROVE  IsRft(s[1])' /\ s[2] <= PiecesMinted'[s[1]]
  <2>1. /\ Pieces[<<t, owner>>] > 0
        /\ Pieces' = [Pieces EXCEPT ![<<t, owner>>] = @ - v]
        /\ OthersUntouched /\ UNCHANGED PiecesMinted
    <3>1. RemovesPieces(owner, t, v)
      BY <1>6, PieceRemoveEffect, Zenon
    <3> QED BY <3>1, Zenon DEF RemovesPieces
  <2>2. Pieces[<<s, o>>] > 0
    BY <1>0, <2>1, Zenon
  <2> QED BY <1>1, <1>2, <1>3, <2>1, <2>2, Zenon
<1>7. ASSUME NEW u \in Users, NEW t \in Tokens, NEW v \in Nat, Repartition(u, t, v)
      PROVE  IsRft(s[1])' /\ s[2] <= PiecesMinted'[s[1]]
  <2>1. /\ IsRft(t[1]) /\ t \in Split /\ u \in Owners
        /\ Pieces' = [Pieces EXCEPT ![<<t, u>>] = v]
        /\ UNCHANGED <<moneyVars, PiecesMinted>>
    BY <1>7, Kinds, Zenon DEF Repartition, OwnsAll
  <2>2. CASE <<s, o>> = <<t, u>>
    <3>1. s[2] <= PiecesMinted'[s[1]]
      BY <2>1, <2>2, Zenon DEF SplitMinted
    <3> QED BY <1>2, <2>1, <2>2, <3>1, Zenon DEF moneyVars, nftVars
  <2>3. CASE <<s, o>> # <<t, u>>
    <3>1. Pieces[<<s, o>>] > 0
      BY <1>0, <2>1, <2>3, Zenon
    <3> QED BY <1>1, <1>2, <2>1, <3>1, Zenon DEF moneyVars, nftVars
  <2> QED BY <2>2, <2>3, Zenon
<1>8. ASSUME NEW u \in Users, NEW c \in CollectionIds, DestroyRft(u, c)
      PROVE  IsRft(s[1])' /\ s[2] <= PiecesMinted'[s[1]]
  <2>1. /\ CommonDestroy(u, c) /\ PiecesMinted' = [PiecesMinted EXCEPT ![c] = 0]
        /\ Pieces' = [p \in Tokens \X Owners |-> IF p[1][1] = c THEN 0 ELSE Pieces[p]]
    BY <1>8, Zenon DEF DestroyRft
  <2>2. s[1] # c /\ Pieces[<<s, o>>] > 0
    BY <2>1
  <2>3. PiecesMinted'[s[1]] = PiecesMinted[s[1]]
    BY <1>0, <2>1, <2>2, Zenon
  <2> QED BY <1>0, <1>1, <2>1, <2>2, <2>3, RftModeSteps, Zenon
<1>9. ASSUME [FtNext]_moneyVars, UNCHANGED rftVars PROVE IsRft(s[1])' /\ s[2] <= PiecesMinted'[s[1]]
  BY <1>0, <1>1, <1>9, RftStaysRft, Zenon DEF rftVars
<1>10. ASSUME RightsOnly PROVE IsRft(s[1])' /\ s[2] <= PiecesMinted'[s[1]]
  BY <1>1, <1>2, <1>10, Zenon DEF RightsOnly, moneyVars, nftVars
<1> QED BY <1>4, <1>5, <1>6, <1>7, <1>8, <1>9, <1>10, RftSteps, Zenon DEF pieceVars

\* What every theorem below starts from.
PieceBase ==
  /\ NftTypes /\ MoneyTypes /\ ModesStored /\ PieceTypes
  /\ PieceSums /\ SplitMinted /\ PiecesHaveCollection

LEMMA PieceBaseInit == RftInit => PieceBase
<1> SUFFICES ASSUME RftInit PROVE PieceBase
  BY Zenon
<1>1. /\ Split = {} /\ TotalPieces = [t \in Tokens |-> 0] /\ Pieces = [p \in Tokens \X Owners |-> 0]
  BY Zenon DEF RftInit, PieceInit
<1>2. ASSUME NEW t \in Tokens PROVE TotalPieces[t] = Sum(PiecesOf(t), Owners)
  <2>1. PICK f : f = PiecesOf(t)
    BY Zenon
  <2>2. \A o \in Owners : f[o] = 0
    BY <1>1, <2>1, Zenon DEF PiecesOf
  <2> QED BY <1>1, <2>1, <2>2, SumZero, Zenon
<1>3. PieceSums /\ SplitMinted
  BY <1>1, <1>2, Zenon DEF PieceSums, SplitMinted
<1>4. PiecesHaveCollection
  BY <1>1 DEF PiecesHaveCollection
<1> QED BY <1>3, <1>4, PieceTypesInit, Zenon DEF PieceBase

LEMMA PieceBaseNext == PieceBase /\ [RftNext]_pieceVars => PieceBase'
<1> SUFFICES ASSUME PieceBase, [RftNext]_pieceVars PROVE PieceBase'
  BY Zenon
<1>0. /\ NftTypes /\ MoneyTypes /\ ModesStored /\ PieceTypes
      /\ PieceSums /\ SplitMinted /\ PiecesHaveCollection
  BY Zenon DEF PieceBase
<1>1. NftTypes' /\ MoneyTypes' /\ PieceTypes'
  BY <1>0, PieceTypesNext, Zenon
<1>2. [CollectionNext]_collectionVars
  <2>1. OthersUntouched \/ RightsOnly \/ UNCHANGED pieceVars => UNCHANGED collectionVars
    BY Zenon DEF OthersUntouched, NftUntouched, RightsOnly, moneyVars, nftVars, pieceVars
  <2>2. ASSUME NEW u, NEW c, NEW shares, NEW b, CreatePieces(u, c, shares, b) PROVE OthersUntouched
    BY <2>2, Zenon DEF CreatePieces
  <2>3. ASSUME NEW u, NEW from, NEW to, NEW t, NEW v, NEW b, MovePieces(u, from, to, t, v, b)
        PROVE  OthersUntouched
    BY <2>3, Zenon DEF MovePieces
  <2>4. ASSUME NEW owner, NEW t, NEW v, RemovePieces(owner, t, v) PROVE OthersUntouched
    BY <2>4, Zenon DEF RemovePieces
  <2>5. ASSUME NEW u, NEW t, NEW v, Repartition(u, t, v) PROVE UNCHANGED collectionVars
    BY <2>5, Zenon DEF Repartition, moneyVars, nftVars
  <2>6. ASSUME NEW u \in Users, NEW c \in CollectionIds, DestroyRft(u, c) PROVE CollectionNext
    BY <2>6, Zenon DEF DestroyRft, CollectionNext
  <2> QED BY <1>0, <2>1, <2>2, <2>3, <2>4, <2>5, <2>6, CollectionPart, RftSteps, Zenon
<1>3. ModesStored'
  BY <1>0, <1>2, ModesNext, Zenon
<1>4. PieceSums' /\ SplitMinted' /\ PiecesHaveCollection'
  BY <1>0, <1>1, PieceSumsNext, SplitMintedNext, PiecesHaveCollectionNext, Zenon
<1> QED BY <1>1, <1>3, <1>4, Zenon DEF PieceBase
=============================================================================
