----------------------------- MODULE Refungible -----------------------------
(***************************************************************************)
(* pallets/refungible: tokens that are split into pieces with many owners, *)
(* beside the collections of tokens and of money.  Pieces may be owned by  *)
(* a nonfungible token; the split token is then nested in it.              *)
(***************************************************************************)
EXTENDS Fungible

CONSTANTS
  MintedPieces,     \* numbers of pieces that are minted to one owner
  MaxPieces         \* MAX_REFUNGIBLE_PIECES

ASSUME PieceAssumption == MaxPieces \in Nat /\ MintedPieces \subseteq Nat

VARIABLES
  Split,            \* keys of TotalSupply: the tokens that exist
  TotalPieces,      \* TotalSupply
  Pieces,           \* Balance: token and owner -> pieces
  PieceOwned,       \* Owned: owner and token
  PieceBalance,     \* AccountBalance: collection and owner -> tokens with a piece
  PiecesMinted, PiecesBurnt,  \* TokensMinted, TokensBurnt
  PieceAllowance,   \* Allowance: token, owner and spender -> pieces
  PieceOperators    \* CollectionAllowance: collection, owner and operator

rftVars == <<Split, TotalPieces, Pieces, PieceOwned, PieceBalance, PiecesMinted, PiecesBurnt,
             PieceAllowance, PieceOperators>>
pieceVars == <<moneyVars, rftVars>>

IsRft(c) == Exists(c) /\ CollectionById[c].mode = "ReFungible"

PieceInit ==
  /\ Split = {} /\ PieceOwned = {} /\ PieceOperators = {}
  /\ TotalPieces = [t \in Tokens |-> 0]
  /\ Pieces = [p \in Tokens \X Owners |-> 0]
  /\ PieceBalance = [p \in CollectionIds \X Owners |-> 0]
  /\ PiecesMinted = [c \in CollectionIds |-> 0]
  /\ PiecesBurnt = [c \in CollectionIds |-> 0]
  /\ PieceAllowance = [p \in Tokens \X Users \X Users |-> 0]

\* Of the other pallets only TokenChildren is ever written.
OthersUntouched == NftUntouched /\ UNCHANGED ftVars

-----------------------------------------------------------------------------
(* Minting.  A call lists shares: the number of the new token, an owner    *)
(* and its pieces.  It makes either one token for several owners or        *)
(* several tokens for one owner each.                                      *)

Share(i, o, v) == [token |-> i, owner |-> o, pieces |-> v]
ForSeveralOwners(owners, data) == [i \in DOMAIN owners |-> Share(1, owners[i], data[i])]
ForOneOwnerEach(owners, data) == [i \in DOMAIN owners |-> Share(i, owners[i], data[i])]

NewTokens(shares) == {shares[i].token : i \in DOMAIN shares}
TotalOf(shares, n) == Sum([i \in DOMAIN shares |-> shares[i].pieces], {i \in DOMAIN shares : shares[i].token = n})
ShareCount(shares, o) == Cardinality({i \in DOMAIN shares : shares[i].owner = o})

\* check_nesting for every share, with one budget.
ShareChecks(u, c, shares, budget) ==
  LET left[i \in 0..Len(shares)] ==
        IF i = 0 THEN Spent(budget)
        ELSE IF ~left[i - 1].ok THEN Failed
        ELSE NestingIfToken(u, <<c, PiecesMinted[c] + shares[i].token>>, shares[i].owner, left[i - 1].left)
  IN  left[Len(shares)]

CreatePieces(u, c, shares, budget) ==
  LET first == PiecesMinted[c]
      new == {<<c, first + n>> : n \in NewTokens(shares)}
      receivers == {shares[i].owner : i \in DOMAIN shares}
      given(t, o) == {i \in DOMAIN shares : <<c, first + shares[i].token>> = t
                                            /\ shares[i].owner = o /\ shares[i].pieces > 0}
      piecesOf(t, o) == shares[CHOOSE i \in given(t, o) : TRUE].pieces
  IN
  /\ IsRft(c)
  /\ MayMint(u, c, receivers)
  /\ \A n \in NewTokens(shares) : TotalOf(shares, n) <= MaxPieces
  /\ first + Cardinality(new) <= MaxTokens
  /\ first + Cardinality(new) < Limit(c, "token_limit")
  /\ \A o \in receivers : PieceBalance[<<c, o>>] + ShareCount(shares, o)
       <= Limit(c, "account_token_ownership_limit")
  /\ ShareChecks(u, c, shares, budget).ok
  /\ Split' = Split \cup new
  /\ TotalPieces' = [t \in Tokens |-> IF t \in new THEN TotalOf(shares, t[2] - first) ELSE TotalPieces[t]]
  /\ Pieces' = [p \in Tokens \X Owners |-> IF given(p[1], p[2]) # {} THEN piecesOf(p[1], p[2]) ELSE Pieces[p]]
  /\ PieceOwned' = PieceOwned \cup {p \in Owners \X new : given(p[2], p[1]) # {}}
  /\ TokenChildren' = [o \in Tokens |-> TokenChildren[o] \cup {t \in new : given(t, o) # {}}]
  /\ PiecesMinted' = [PiecesMinted EXCEPT ![c] = first + Cardinality(new)]
  /\ PieceBalance' = [p \in CollectionIds \X Owners |->
       IF p[1] = c THEN PieceBalance[p] + ShareCount(shares, p[2]) ELSE PieceBalance[p]]
  /\ OthersUntouched /\ UNCHANGED <<PiecesBurnt, PieceAllowance, PieceOperators>>

-----------------------------------------------------------------------------
(* Transfers and burning.                                                  *)

\* An owner whose last piece goes leaves the index, the count and the nesting.
LeavesAlways(t, from, amount) == TRUE
Leaves(t, from, amount) == Pieces[<<t, from>>] = amount
OwnedAfter(t, from, amount) == IF Leaves(t, from, amount) THEN PieceOwned \ {<<from, t>>} ELSE PieceOwned
CountAfter(t, from, amount) ==
  IF Leaves(t, from, amount) THEN [PieceBalance EXCEPT ![<<t[1], from>>] = @ - 1] ELSE PieceBalance
ChildrenLeft(t, from, amount, children) == Unnested(children, from, t)
ChildrenAfter(t, from, amount, children) ==
  IF Leaves(t, from, amount) THEN Unnested(children, from, t) ELSE children

\* transfer_internal, without the allowance that transfer_from writes afterwards.
MovePieces(depositor, from, to, t, amount, budget) ==
  LET c == t[1]
      joins == from # to /\ amount # 0 /\ Pieces[<<t, to>>] = 0
  IN
  /\ Limit(c, "transfers_enabled")
  /\ Accessible(c, {from, to})
  /\ Pieces[<<t, from>>] > 0 /\ Pieces[<<t, from>>] >= amount
  /\ Leaves(t, from, amount) => PieceBalance[<<c, from>>] >= 1
  /\ joins => PieceBalance[<<c, to>>] + 1 <= Limit(c, "account_token_ownership_limit")
  /\ IF from = to \/ amount = 0
     THEN UNCHANGED <<Pieces, PieceOwned, PieceBalance, TokenChildren>>
     ELSE /\ NestingIfToken(depositor, t, to, budget).ok
          /\ TokenChildren' = ChildrenAfter(t, from, amount, Nested(TokenChildren, to, t))
          /\ Pieces' = [Pieces EXCEPT ![<<t, from>>] = @ - amount, ![<<t, to>>] = @ + amount]
          /\ PieceOwned' = IF joins THEN OwnedAfter(t, from, amount) \cup {<<to, t>>}
                           ELSE OwnedAfter(t, from, amount)
          /\ PieceBalance' = IF joins THEN [CountAfter(t, from, amount) EXCEPT ![<<c, to>>] = @ + 1]
                             ELSE CountAfter(t, from, amount)
  /\ OthersUntouched
  /\ UNCHANGED <<Split, TotalPieces, PiecesMinted, PiecesBurnt, PieceOperators>>

\* burn: with the last piece the token goes, and every allowance for it.
RemovePieces(owner, t, amount) ==
  LET c == t[1]
      last == TotalPieces[t] = amount
  IN
  /\ Pieces[<<t, owner>>] > 0
  /\ TotalPieces[t] >= amount
  /\ IF last THEN Pieces[<<t, owner>>] = amount ELSE Pieces[<<t, owner>>] >= amount
  /\ Leaves(t, owner, amount) => PieceBalance[<<c, owner>>] >= 1
  /\ PieceOwned' = OwnedAfter(t, owner, amount)
  /\ PieceBalance' = CountAfter(t, owner, amount)
  /\ TokenChildren' = ChildrenAfter(t, owner, amount, TokenChildren)
  /\ TotalPieces' = [TotalPieces EXCEPT ![t] = @ - amount]
  /\ Pieces' = [p \in Tokens \X Owners |->
       CASE p = <<t, owner>> -> Pieces[p] - amount
         [] p[1] = t /\ p[2] # owner /\ last -> 0
         [] OTHER -> Pieces[p]]
  /\ Split' = IF last THEN Split \ {t} ELSE Split
  /\ PiecesBurnt' = IF last THEN [PiecesBurnt EXCEPT ![c] = @ + 1] ELSE PiecesBurnt
  /\ OthersUntouched /\ UNCHANGED <<PiecesMinted, PieceOperators>>

AllowanceAfterBurn(allowance, t, amount) ==
  IF TotalPieces[t] = amount
  THEN [p \in Tokens \X Users \X Users |-> IF p[1] = t THEN 0 ELSE allowance[p]] ELSE allowance

\* check_allowed, and the allowance that is left.
PiecesAllowed(t, from, spender) == IF from \in Users THEN PieceAllowance[<<t, from, spender>>] ELSE 0
MayTakePieces(spender, from, t, amount, budget) ==
  LET c == t[1] IN
  IF SameAccount(spender, from) THEN Spent(budget)
  ELSE IF ~Accessible(c, {spender}) THEN Failed
  ELSE IF IgnoresRestrictions(spender, c) THEN Spent(budget)
  ELSE IF from \in Tokens THEN IndirectlyOwned(spender, from, budget)
  ELSE IF PiecesAllowed(t, from, spender) >= amount \/ <<c, from, spender>> \in PieceOperators
  THEN Spent(budget) ELSE Failed

PieceAllowanceKept(allowance, spender, from, t, amount) == allowance
PieceAllowanceLeft(allowance, spender, from, t, amount) ==
  IF from \in Users /\ ~SameAccount(spender, from) /\ PiecesAllowed(t, from, spender) >= amount
  THEN [allowance EXCEPT ![<<t, from, spender>>] = PieceAllowance[<<t, from, spender>>] - amount]
  ELSE allowance

TransferPieces(u, to, t, amount, budget) ==
  /\ IsRft(t[1])
  /\ MovePieces(u, u, to, t, amount, budget)
  /\ UNCHANGED PieceAllowance

TransferPiecesFrom(spender, from, to, t, amount, budget) ==
  LET allowed == MayTakePieces(spender, from, t, amount, budget) IN
  /\ IsRft(t[1])
  /\ allowed.ok
  /\ MovePieces(spender, from, to, t, amount, allowed.left)
  /\ PieceAllowance' = PieceAllowanceLeft(PieceAllowance, spender, from, t, amount)

BurnPieces(u, t, amount) ==
  /\ IsRft(t[1])
  /\ RemovePieces(u, t, amount)
  /\ PieceAllowance' = AllowanceAfterBurn(PieceAllowance, t, amount)

\* The allowance that is left is written last, also when the token is gone.
BurnPiecesFrom(spender, from, t, amount, budget) ==
  /\ IsRft(t[1])
  /\ MayTakePieces(spender, from, t, amount, budget).ok
  /\ RemovePieces(from, t, amount)
  /\ PieceAllowance' =
       PieceAllowanceLeft(AllowanceAfterBurn(PieceAllowance, t, amount), spender, from, t, amount)

\* repartition: the owner of all pieces says how many there are.
OwnsAll(u, t) == t \in Split /\ TotalPieces[t] = Pieces[<<t, u>>]
Repartition(u, t, amount) ==
  /\ IsRft(t[1])
  /\ amount > 0 /\ amount <= MaxPieces
  /\ OwnsAll(u, t)
  /\ Pieces' = [Pieces EXCEPT ![<<t, u>>] = amount]
  /\ TotalPieces' = [TotalPieces EXCEPT ![t] = amount]
  /\ UNCHANGED <<moneyVars, Split, PieceOwned, PieceBalance, PiecesMinted, PiecesBurnt,
                 PieceAllowance, PieceOperators>>

\* set_allowance and set_allowance_from, where sender and from are mirrors.
ApprovePiecesFrom(sender, from, t, spender, amount) ==
  /\ IsRft(t[1])
  /\ AsSub[sender] = AsSub[from]
  /\ Accessible(t[1], {sender, from, spender})
  /\ \/ Pieces[<<t, from>>] >= amount
     \/ t \in Split /\ (IgnoresRestrictions(sender, t[1]) \/ IgnoresRestrictions(from, t[1]))
  /\ PieceAllowance' = [PieceAllowance EXCEPT ![<<t, from, spender>>] = amount]
  /\ UNCHANGED <<moneyVars, Split, TotalPieces, Pieces, PieceOwned, PieceBalance, PiecesMinted,
                 PiecesBurnt, PieceOperators>>

SetPieceOperator(owner, operator, c, approve) ==
  /\ IsRft(c)
  /\ Accessible(c, {owner, operator})
  /\ PieceOperators' = IF approve THEN PieceOperators \cup {<<c, owner, operator>>}
                       ELSE PieceOperators \ {<<c, owner, operator>>}
  /\ UNCHANGED <<moneyVars, Split, TotalPieces, Pieces, PieceOwned, PieceBalance, PiecesMinted,
                 PiecesBurnt, PieceAllowance>>

\* destroy_collection clears every map but CollectionAllowance.
DestroyRft(u, c) ==
  /\ IsRft(c)
  /\ ~\E t \in Split : t[1] = c
  /\ CommonDestroy(u, c)
  /\ PiecesMinted' = [PiecesMinted EXCEPT ![c] = 0]
  /\ PiecesBurnt' = [PiecesBurnt EXCEPT ![c] = 0]
  /\ PieceOwned' = {p \in PieceOwned : p[2][1] # c}
  /\ PieceBalance' = [p \in CollectionIds \X Owners |-> IF p[1] = c THEN 0 ELSE PieceBalance[p]]
  /\ TotalPieces' = [t \in Tokens |-> IF t[1] = c THEN 0 ELSE TotalPieces[t]]
  /\ Pieces' = [p \in Tokens \X Owners |-> IF p[1][1] = c THEN 0 ELSE Pieces[p]]
  /\ PieceAllowance' = [p \in Tokens \X Users \X Users |-> IF p[1][1] = c THEN 0 ELSE PieceAllowance[p]]
  /\ UNCHANGED <<tokenVars, ftVars, Split, PieceOperators>>

-----------------------------------------------------------------------------
\* Calls that take from an owner without pieces fail.
Holders(t) == {o \in Owners : Pieces[<<t, o>>] > 0}
PieceCalls ==
  \E u \in Users, t \in Tokens, v \in Values :
    \/ BurnPieces(u, t, v) \/ Repartition(u, t, v)
    \/ \E from \in Users, spender \in Spenders : ApprovePiecesFrom(u, from, t, spender, v)
    \/ \E b \in Budgets :
         \/ \E to \in Owners : TransferPieces(u, to, t, v, b)
         \/ \E from \in Holders(t), to \in Owners : TransferPiecesFrom(u, from, to, t, v, b)
         \/ \E from \in Holders(t) : BurnPiecesFrom(u, from, t, v, b)

CreatePieceCalls ==
  \E u \in Users, c \in CollectionIds, owners \in Batches, b \in Budgets :
    \E data \in [DOMAIN owners -> MintedPieces] :
      \/ owners \in OwnerLists /\ CreatePieces(u, c, ForSeveralOwners(owners, data), b)
      \/ CreatePieces(u, c, ForOneOwnerEach(owners, data), b)

PieceSteps ==
  \/ PieceCalls \/ CreatePieceCalls
  \/ \E u \in Users, c \in CollectionIds :
       DestroyRft(u, c) \/ \E operator \in Spenders, approve \in BOOLEAN : SetPieceOperator(u, operator, c, approve)

RftInit == FtInit /\ PieceInit
RftNext ==
  \/ PieceSteps
  \/ FtNext /\ UNCHANGED rftVars
RftSpec == RftInit /\ [][RftNext]_pieceVars

-----------------------------------------------------------------------------
(* Properties.                                                             *)

PiecesOf(t) == [o \in Owners |-> Pieces[<<t, o>>]]

\* A token exists exactly while somebody has pieces of it, its total is the sum of
\* them, and the index and the count of an owner's tokens agree with them: through
\* splits, partial burns, several mints at once and repartitions, although the last
\* burn has to be noticed from the total alone and the index is written apart.
PiecesExact ==
  /\ \A t \in Tokens : TotalPieces[t] = Sum(PiecesOf(t), Owners)
  /\ Split = {t \in Tokens : \E o \in Owners : Pieces[<<t, o>>] > 0}
  /\ PieceOwned = {p \in Owners \X Tokens : Pieces[<<p[2], p[1]>>] > 0}
  /\ \A c \in CollectionIds, o \in Owners :
       PieceBalance[<<c, o>>] = Cardinality({p \in PieceOwned : p[1] = o /\ p[2][1] = c})

\* Pieces are never out of reach: a token that owns some exists and lists them as a child.
PiecesReachable ==
  \A t, o \in Tokens : Pieces[<<t, o>>] > 0 => TokenData[o] # NotFound /\ t \in TokenChildren[o]

\* Who may take v pieces of an owner, and what it costs.
PiecesEntitled(u, t, from, v) ==
  \/ SameAccount(u, from)
  \/ from \in Tokens /\ TopOf(from) = u
  \/ IgnoresRestrictions(u, t[1]) \/ <<t[1], from, u>> \in PieceOperators
  \/ PiecesAllowed(t, from, u) >= v /\ PiecesAllowed(t, from, u)' = PiecesAllowed(t, from, u) - v
PiecesTakenBy(u, t, from, v) ==
  \E b \in Budgets :
    IF TotalPieces'[t] < TotalPieces[t]
    THEN BurnPieces(u, t, v) \/ BurnPiecesFrom(u, from, t, v, b)
    ELSE \E to \in Owners :
           /\ Pieces'[<<t, to>>] > Pieces[<<t, to>>]
           /\ TransferPieces(u, to, t, v, b) \/ TransferPiecesFrom(u, from, to, t, v, b)

\* An account's call takes only pieces that it is entitled to, and uses its allowance up
\* (check_allowed, transfer_from, burn_from).  Repartition concerns the caller alone.
PiecesTakenByEntitledOnly ==
  [][\A t \in Split, from \in Owners : Pieces'[<<t, from>>] < Pieces[<<t, from>>] =>
       LET v == Pieces[<<t, from>>] - Pieces'[<<t, from>>] IN
       \A u \in Users : PiecesTakenBy(u, t, from, v) => PiecesEntitled(u, t, from, v)]_pieceVars

\* What the storage comment says of Owned: it enumerates the tokens of an account, so
\* that whoever has pieces of a token is found in it.
OwnersEnumerated == \A t \in Tokens, o \in Owners : Pieces[<<t, o>>] > 0 => <<o, t>> \in PieceOwned
=============================================================================
