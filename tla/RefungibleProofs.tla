-------------------------- MODULE RefungibleProofs --------------------------
(***************************************************************************)
(* What pieces are owned, counted, reachable and taken: the theorems about *)
(* split tokens, on top of RefungibleTotals.                               *)
(***************************************************************************)
EXTENDS RefungibleTotals

\* The provers of a leaf that names none: the solver, given time for the larger ones, then Zenon.
USE SMTT(15), ZenonT(10)

-----------------------------------------------------------------------------
(* The index of owned tokens and its counts.                               *)

Holding(pieces, c, o) == {t \in Tokens : t[1] = c /\ pieces[<<t, o>>] > 0}

PieceIndex ==
  /\ \A t \in Tokens : t \in Split <=> \E o \in Owners : Pieces[<<t, o>>] > 0
  /\ \A o \in Owners, t \in Tokens : <<o, t>> \in PieceOwned <=> Pieces[<<t, o>>] > 0
  /\ \A c \in CollectionIds, o \in Owners : PieceBalance[<<c, o>>] = Cardinality(Holding(Pieces, c, o))

LEMMA FiniteHolding ==
  ASSUME NEW pieces, NEW c, NEW o
  PROVE  IsFiniteSet(Holding(pieces, c, o)) /\ Cardinality(Holding(pieces, c, o)) \in Nat
BY FiniteTokens, Zenon DEF Holding

SameIn(before, after, c, o) ==
  \A t \in Tokens : t[1] = c => (after[<<t, o>>] > 0 <=> before[<<t, o>>] > 0)

SameBeside(before, after, t, o) == \A s \in Tokens \ {t} : after[<<s, o>>] > 0 <=> before[<<s, o>>] > 0

\* How a change of one owner's pieces of one token changes the number of its tokens.
LEMMA HoldingKept ==
  ASSUME NEW before, NEW after, NEW c, NEW o,
         SameIn(before, after, c, o)
  PROVE  Holding(after, c, o) = Holding(before, c, o)
BY Zenon DEF Holding, SameIn

LEMMA HoldingLeft ==
  ASSUME NEW before, NEW after, NEW t \in Tokens, NEW o, before[<<t, o>>] > 0, ~(after[<<t, o>>] > 0),
         SameBeside(before, after, t, o)
  PROVE  Cardinality(Holding(after, t[1], o)) = Cardinality(Holding(before, t[1], o)) - 1
<1>1. t \in Holding(before, t[1], o) /\ Holding(after, t[1], o) = Holding(before, t[1], o) \ {t}
  BY ZenonT(30) DEF Holding, SameBeside
<1> DEFINE H == Holding(before, t[1], o)
<1>2. IsFiniteSet(H) /\ t \in H /\ Holding(after, t[1], o) = H \ {t}
  BY <1>1, FiniteHolding, Zenon
<1> HIDE DEF H
<1>3. Cardinality(H \ {t}) = Cardinality(H) - 1
  BY <1>2, FS_RemoveElement, Zenon
<1> QED BY <1>2, <1>3, Zenon DEF H

LEMMA HoldingJoined ==
  ASSUME NEW before, NEW after, NEW t \in Tokens, NEW o, ~(before[<<t, o>>] > 0), after[<<t, o>>] > 0,
         SameBeside(before, after, t, o)
  PROVE  Cardinality(Holding(after, t[1], o)) = Cardinality(Holding(before, t[1], o)) + 1
<1>1. t \notin Holding(before, t[1], o) /\ Holding(after, t[1], o) = Holding(before, t[1], o) \cup {t}
  BY Zenon DEF Holding, SameBeside
<1> DEFINE H == Holding(before, t[1], o)
<1>2. IsFiniteSet(H) /\ t \notin H /\ Holding(after, t[1], o) = H \cup {t}
  BY <1>1, FiniteHolding, Zenon
<1> HIDE DEF H
<1>3. Cardinality(H \cup {t}) = Cardinality(H) + 1
  BY <1>2, FS_AddElement, Zenon
<1> QED BY <1>2, <1>3, Zenon DEF H

\* Nothing to do when the same owners have the same tokens.
LEMMA IndexKept ==
  ASSUME PieceIndex, UNCHANGED <<Split, PieceOwned, PieceBalance>>,
         \A t \in Tokens, o \in Owners : Pieces'[<<t, o>>] > 0 <=> Pieces[<<t, o>>] > 0
  PROVE  PieceIndex'
<1>1. ASSUME NEW c \in CollectionIds, NEW o \in Owners PROVE Holding(Pieces', c, o) = Holding(Pieces, c, o)
  <2>1. SameIn(Pieces, Pieces', c, o)
    BY Zenon DEF SameIn
  <2> QED BY <2>1, HoldingKept
<1> QED BY <1>1, Zenon DEF PieceIndex

LEMMA IndexCreated ==
  ASSUME PieceTypes, PiecesHaveCollection, PieceIndex, 0 \notin MintedPieces, NEW u,
         NEW c \in CollectionIds, NEW new, NEW gain, CreatesPieces(u, c, new, gain)
  PROVE  PieceIndex'
<1>1. /\ new \in SUBSET Tokens /\ gain \in [Tokens \X Owners -> Nat]
      /\ \A t \in new : t[1] = c
      /\ \A t \in Tokens, o \in Owners : gain[<<t, o>>] > 0 => t \in new
      /\ Split' = Split \cup new
      /\ Pieces' = [p \in Tokens \X Owners |-> IF gain[p] > 0 THEN gain[p] ELSE Pieces[p]]
      /\ PieceOwned' = PieceOwned \cup {p \in Owners \X new : gain[<<p[2], p[1]>>] > 0}
      /\ \A d \in CollectionIds \ {c}, o \in Owners : PieceBalance'[<<d, o>>] = PieceBalance[<<d, o>>]
      /\ \A t \in new : \E o \in Owners : gain[<<t, o>>] > 0
      /\ \A o \in Owners : PieceBalance'[<<c, o>>] =
           PieceBalance[<<c, o>>] + Cardinality({t \in new : gain[<<t, o>>] > 0})
  BY Zenon DEF CreatesPieces
<1>2. /\ \A t \in new, o \in Owners : Pieces[<<t, o>>] = 0 /\ Pieces'[<<t, o>>] = gain[<<t, o>>]
      /\ \A t \in Tokens \ new, o \in Owners : Pieces'[<<t, o>>] = Pieces[<<t, o>>]
  <2>1. \A t \in new, o \in Owners : Pieces[<<t, o>>] = 0 /\ Pieces'[<<t, o>>] = gain[<<t, o>>]
    <3>1. GainIsAll(new, gain)
      BY NewUnowned, Zenon
    <3> QED BY <3>1, Zenon DEF GainIsAll
  <2>2. \A t \in Tokens \ new, o \in Owners : Pieces'[<<t, o>>] = Pieces[<<t, o>>]
    BY <1>1, Zenon
  <2> QED BY <2>1, <2>2, Zenon
<1>3. /\ \A t \in Tokens : t \in Split <=> \E o \in Owners : Pieces[<<t, o>>] > 0
      /\ \A o \in Owners, t \in Tokens : <<o, t>> \in PieceOwned <=> Pieces[<<t, o>>] > 0
      /\ \A d \in CollectionIds, o \in Owners : PieceBalance[<<d, o>>] = Cardinality(Holding(Pieces, d, o))
  BY Zenon DEF PieceIndex
<1>4. \A t \in Tokens : t \in Split' <=> \E o \in Owners : Pieces'[<<t, o>>] > 0
  BY <1>1, <1>2, <1>3, Zenon
<1>5. ASSUME NEW o \in Owners, NEW t \in Tokens PROVE <<o, t>> \in PieceOwned' <=> Pieces'[<<t, o>>] > 0
  <2>1. <<o, t>> \in PieceOwned' <=> (<<o, t>> \in PieceOwned \/ (t \in new /\ gain[<<t, o>>] > 0))
    BY <1>1, Zenon
  <2>2. CASE t \in new
    <3>1. Pieces[<<t, o>>] = 0 /\ Pieces'[<<t, o>>] = gain[<<t, o>>]
      BY <1>2, <2>2, Zenon
    <3> QED BY <1>3, <2>1, <2>2, <3>1
  <2>3. CASE t \notin new
    BY <1>2, <1>3, <2>1, <2>3, Zenon
  <2> QED BY <2>2, <2>3, Zenon
<1>6. ASSUME NEW d \in CollectionIds, NEW o \in Owners
      PROVE  PieceBalance'[<<d, o>>] = Cardinality(Holding(Pieces', d, o))
  <2>1. CASE d # c
    <3>1. SameIn(Pieces, Pieces', d, o)
      BY <1>1, <1>2, <2>1, Zenon DEF SameIn
    <3>2. Holding(Pieces', d, o) = Holding(Pieces, d, o)
      BY <3>1, HoldingKept
    <3> QED BY <1>1, <1>3, <2>1, <3>2, Zenon
  <2>2. CASE d = c
    <3>1. PICK A, B : A = Holding(Pieces, c, o) /\ B = {t \in new : gain[<<t, o>>] > 0}
      BY Zenon
    <3>2. Holding(Pieces', c, o) = A \cup B /\ A \cap B = {}
      <4>1. \A t \in A : t \notin new
        <5>1. ~(0 > 0)
          OBVIOUS
        <5> QED BY <1>2, <3>1, <5>1, Zenon DEF Holding
      <4>2. \A t \in Holding(Pieces', c, o) : t \in A \/ t \in B
        BY <1>1, <1>2, <3>1, Zenon DEF Holding
      <4>3. \A t \in A : t \in Holding(Pieces', c, o)
        BY <1>1, <1>2, <3>1, <4>1, Zenon DEF Holding
      <4>4. \A t \in B : t \in Holding(Pieces', c, o) /\ t \in new
        BY <1>1, <1>2, <3>1, Zenon DEF Holding
      <4> QED BY <4>1, <4>2, <4>3, <4>4, Zenon
    <3>3. IsFiniteSet(A) /\ IsFiniteSet(B)
      <4>1. A \in SUBSET Tokens /\ B \in SUBSET Tokens
        BY <1>1, <3>1, Zenon DEF Holding
      <4> QED BY <4>1, FiniteTokens, Zenon
    <3>4. Cardinality(A \cup B) = Cardinality(A) + Cardinality(B)
      BY <3>2, <3>3, CardinalityDisjoint, Zenon
    <3> QED BY <1>1, <1>3, <2>2, <3>1, <3>2, <3>4, Zenon
  <2> QED BY <2>1, <2>2, Zenon
<1> QED BY <1>4, <1>5, <1>6, Zenon DEF PieceIndex

LEMMA IndexMoved ==
  ASSUME PieceTypes, PieceIndex, NEW u, NEW from \in Owners, NEW to \in Owners, NEW t \in Tokens,
         NEW v \in Nat, MovesPieces(u, from, to, t, v), Pieces[<<t, from>>] > 0, Pieces[<<t, from>>] >= v,
         UNCHANGED Split
  PROVE  PieceIndex'
<1>0. /\ Pieces \in [Tokens \X Owners -> Nat] /\ PieceBalance \in [CollectionIds \X Owners -> Nat]
      /\ t[1] \in CollectionIds
  BY Kinds, Zenon DEF PieceTypes
<1>1. /\ from # to /\ v > 0
      /\ Pieces' = [Pieces EXCEPT ![<<t, from>>] = @ - v, ![<<t, to>>] = @ + v]
      /\ PieceOwned' = IF Pieces[<<t, to>>] = 0 THEN OwnedAfter(t, from, v) \cup {<<to, t>>}
                       ELSE OwnedAfter(t, from, v)
      /\ PieceBalance' = IF Pieces[<<t, to>>] = 0 THEN [CountAfter(t, from, v) EXCEPT ![<<t[1], to>>] = @ + 1]
                         ELSE CountAfter(t, from, v)
  BY DEF MovesPieces
<1>2. /\ Pieces'[<<t, from>>] = Pieces[<<t, from>>] - v
      /\ Pieces'[<<t, to>>] = Pieces[<<t, to>>] + v /\ Pieces[<<t, to>>] \in Nat
      /\ \A s \in Tokens, o \in Owners : <<s, o>> # <<t, from>> /\ <<s, o>> # <<t, to>> =>
           Pieces'[<<s, o>>] = Pieces[<<s, o>>]
  BY <1>0, <1>1, Zenon
<1>3. /\ \A s \in Tokens : s \in Split <=> \E o \in Owners : Pieces[<<s, o>>] > 0
      /\ \A o \in Owners, s \in Tokens : <<o, s>> \in PieceOwned <=> Pieces[<<s, o>>] > 0
      /\ \A d \in CollectionIds, o \in Owners : PieceBalance[<<d, o>>] = Cardinality(Holding(Pieces, d, o))
  BY Zenon DEF PieceIndex
<1>4. /\ Leaves(t, from, v) <=> ~(Pieces'[<<t, from>>] > 0)
      /\ Pieces'[<<t, to>>] > 0
      /\ ~(Pieces[<<t, to>>] > 0) <=> Pieces[<<t, to>>] = 0
  <2>1. PICK p, q : p = Pieces[<<t, from>>] /\ q = Pieces[<<t, to>>]
    OBVIOUS
  <2>2. p \in Nat /\ q \in Nat
    BY <1>0, <2>1, Zenon
  <2>3. Pieces'[<<t, from>>] = p - v /\ Pieces'[<<t, to>>] = q + v /\ p >= v /\ v > 0
    BY <1>1, <1>2, <2>1, Zenon
  <2>4. (p = v <=> ~(p - v > 0)) /\ q + v > 0 /\ (~(q > 0) <=> q = 0)
    BY <2>2, <2>3
  <2> QED BY <2>1, <2>3, <2>4, Zenon DEF Leaves
<1>5. ASSUME NEW s \in Tokens PROVE s \in Split' <=> \E o \in Owners : Pieces'[<<s, o>>] > 0
  <2>1. CASE s = t
    BY <1>3, <1>4, <2>1, Zenon
  <2>2. CASE s # t
    BY <1>2, <1>3, <2>2, Zenon
  <2> QED BY <2>1, <2>2, Zenon
<1>6. ASSUME NEW o \in Owners, NEW s \in Tokens PROVE <<o, s>> \in PieceOwned' <=> Pieces'[<<s, o>>] > 0
  <2>1. \A p : p \in PieceOwned' <=>
          \/ p \in PieceOwned /\ ~(Leaves(t, from, v) /\ p = <<from, t>>)
          \/ Pieces[<<t, to>>] = 0 /\ p = <<to, t>>
    BY <1>1, Zenon DEF OwnedAfter
  <2>2. CASE s = t /\ o = from
    BY <1>1, <1>3, <1>4, <2>1, <2>2
  <2>3. CASE s = t /\ o = to
    BY <1>1, <1>3, <1>4, <2>1, <2>3, Zenon
  <2>4. CASE ~(s = t /\ o \in {from, to})
    BY <1>2, <1>3, <2>1, <2>4
  <2> QED BY <2>2, <2>3, <2>4, Zenon
<1>7. ASSUME NEW d \in CollectionIds, NEW o \in Owners
      PROVE  PieceBalance'[<<d, o>>] = Cardinality(Holding(Pieces', d, o))
  <2>1. PICK count : count = CountAfter(t, from, v)
    BY Zenon
  <2>2. /\ count \in [CollectionIds \X Owners -> Int]
        /\ count[<<d, o>>] = IF Leaves(t, from, v) /\ <<d, o>> = <<t[1], from>> THEN PieceBalance[<<d, o>>] - 1
                             ELSE PieceBalance[<<d, o>>]
    BY <1>0, <2>1 DEF CountAfter
  <2>3. PieceBalance'[<<d, o>>] = IF Pieces[<<t, to>>] = 0 /\ <<d, o>> = <<t[1], to>> THEN count[<<d, o>>] + 1
                                  ELSE count[<<d, o>>]
    BY <1>1, <2>1, <2>2, Zenon
  <2>4. SameBeside(Pieces, Pieces', t, o)
    BY <1>2, Zenon DEF SameBeside
  <2>5. CASE d = t[1] /\ o = from
    <3>1. CASE Leaves(t, from, v)
      <4>1. PieceBalance'[<<d, o>>] = PieceBalance[<<d, o>>] - 1
        BY <1>1, <2>2, <2>3, <2>5, <3>1, Zenon
      <4>2. Cardinality(Holding(Pieces', t[1], o)) = Cardinality(Holding(Pieces, t[1], o)) - 1
        <5>1. Pieces[<<t, o>>] > 0 /\ ~(Pieces'[<<t, o>>] > 0)
          BY <1>4, <2>5, <3>1, Zenon
        <5> QED BY <2>4, <5>1, HoldingLeft
      <4> QED BY <1>3, <2>5, <4>1, <4>2, Zenon
    <3>2. CASE ~Leaves(t, from, v)
      <4>1. PieceBalance'[<<d, o>>] = PieceBalance[<<d, o>>]
        BY <1>1, <2>2, <2>3, <2>5, <3>2, Zenon
      <4>2. SameIn(Pieces, Pieces', d, o)
        BY <1>4, <2>4, <2>5, <3>2, Zenon DEF SameIn, SameBeside
      <4>3. Holding(Pieces', d, o) = Holding(Pieces, d, o)
        BY <4>2, HoldingKept
      <4> QED BY <1>3, <4>1, <4>3, Zenon
    <3> QED BY <3>1, <3>2, Zenon
  <2>6. CASE d = t[1] /\ o = to
    <3>1. CASE Pieces[<<t, to>>] = 0
      <4>1. PieceBalance'[<<d, o>>] = PieceBalance[<<d, o>>] + 1
        BY <1>1, <2>2, <2>3, <2>6, <3>1, Zenon
      <4>2. Cardinality(Holding(Pieces', t[1], o)) = Cardinality(Holding(Pieces, t[1], o)) + 1
        <5>1. ~(Pieces[<<t, o>>] > 0) /\ Pieces'[<<t, o>>] > 0
          BY <1>4, <2>6, <3>1, Zenon
        <5> QED BY <2>4, <5>1, HoldingJoined
      <4> QED BY <1>3, <2>6, <4>1, <4>2, Zenon
    <3>2. CASE Pieces[<<t, to>>] # 0
      <4>1. PieceBalance'[<<d, o>>] = PieceBalance[<<d, o>>]
        BY <1>1, <2>2, <2>3, <2>6, <3>2, Zenon
      <4>2. SameIn(Pieces, Pieces', d, o)
        BY <1>4, <2>4, <2>6, <3>2, Zenon DEF SameIn, SameBeside
      <4>3. Holding(Pieces', d, o) = Holding(Pieces, d, o)
        BY <4>2, HoldingKept
      <4> QED BY <1>3, <4>1, <4>3, Zenon
    <3> QED BY <3>1, <3>2, Zenon
  <2>7. CASE ~(d = t[1] /\ o \in {from, to})
    <3>1. PieceBalance'[<<d, o>>] = PieceBalance[<<d, o>>]
      BY <2>2, <2>3, <2>7, Zenon
    <3>2. SameIn(Pieces, Pieces', d, o)
      BY <1>2, <2>7, Zenon DEF SameIn
    <3>3. Holding(Pieces', d, o) = Holding(Pieces, d, o)
      BY <3>2, HoldingKept
    <3> QED BY <1>3, <3>1, <3>3, Zenon
  <2> QED BY <2>5, <2>6, <2>7, Zenon
<1> QED BY <1>5, <1>6, <1>7, Zenon DEF PieceIndex

LEMMA IndexRemoved ==
  ASSUME PieceTypes, PieceTypes', PieceSums', PieceIndex, NEW owner \in Owners, NEW t \in Tokens,
         NEW v \in Nat, RemovesPieces(owner, t, v)
  PROVE  PieceIndex'
<1>0. /\ Pieces \in [Tokens \X Owners -> Nat] /\ PieceBalance \in [CollectionIds \X Owners -> Nat]
      /\ TotalPieces \in [Tokens -> Nat] /\ t[1] \in CollectionIds /\ Pieces' \in [Tokens \X Owners -> Nat]
  BY Kinds, Zenon DEF PieceTypes
<1>1. /\ Pieces[<<t, owner>>] > 0 /\ Pieces[<<t, owner>>] >= v
      /\ TotalPieces[t] >= v /\ (TotalPieces[t] = v => Pieces[<<t, owner>>] = v)
      /\ PieceOwned' = OwnedAfter(t, owner, v)
      /\ PieceBalance' = CountAfter(t, owner, v)
      /\ TotalPieces' = [TotalPieces EXCEPT ![t] = @ - v]
      /\ Pieces' = [Pieces EXCEPT ![<<t, owner>>] = @ - v]
      /\ Split' = IF TotalPieces[t] = v THEN Split \ {t} ELSE Split
  BY Zenon DEF RemovesPieces
<1>2. /\ Pieces'[<<t, owner>>] = Pieces[<<t, owner>>] - v
      /\ \A s \in Tokens, o \in Owners : <<s, o>> # <<t, owner>> => Pieces'[<<s, o>>] = Pieces[<<s, o>>]
  BY <1>0, <1>1, Zenon
<1>3. /\ \A s \in Tokens : s \in Split <=> \E o \in Owners : Pieces[<<s, o>>] > 0
      /\ \A o \in Owners, s \in Tokens : <<o, s>> \in PieceOwned <=> Pieces[<<s, o>>] > 0
      /\ \A d \in CollectionIds, o \in Owners : PieceBalance[<<d, o>>] = Cardinality(Holding(Pieces, d, o))
  BY Zenon DEF PieceIndex
<1>4. Leaves(t, owner, v) <=> ~(Pieces'[<<t, owner>>] > 0)
  BY <1>0, <1>1, <1>2 DEF Leaves
<1>5. TotalPieces[t] = v <=> ~\E o \in Owners : Pieces'[<<t, o>>] > 0
  <2>1. PICK h : h = PiecesOf(t)'
    BY Zenon
  <2>2. \A o \in Owners : h[o] = Pieces'[<<t, o>>] /\ h[o] \in Nat
    BY <1>0, <2>1, Zenon DEF PiecesOf
  <2>3. Sum(h, Owners) = TotalPieces[t] - v
    BY <1>0, <1>1, <2>1, Zenon DEF PieceSums
  <2>4. ASSUME NEW o \in Owners, Pieces'[<<t, o>>] > 0, TotalPieces[t] = v PROVE FALSE
    <3>1. h[o] <= Sum(h, Owners)
      <4>1. \A p \in Owners : h[p] \in Nat
        BY <2>2, Zenon
      <4> QED BY <4>1, FiniteOwners, SumBound, Zenon
    <3>2. Sum(h, Owners) = 0
      BY <1>0, <2>3, <2>4
    <3>3. h[o] > 0 /\ h[o] \in Nat
      BY <2>2, <2>4, Zenon
    <3> QED BY <3>1, <3>2, <3>3
  <2>5. ASSUME ~\E o \in Owners : Pieces'[<<t, o>>] > 0 PROVE TotalPieces[t] = v
    <3>1. \A o \in Owners : h[o] = 0
      BY <2>2, <2>5
    <3>2. Sum(h, Owners) = 0
      BY <3>1, SumZero, Zenon
    <3>3. TotalPieces[t] \in Nat
      BY <1>0, Zenon
    <3> QED BY <2>3, <3>2, <3>3
  <2> QED BY <2>4, <2>5, Zenon
<1>6. ASSUME NEW s \in Tokens PROVE s \in Split' <=> \E o \in Owners : Pieces'[<<s, o>>] > 0
  <2>1. CASE s = t
    BY <1>1, <1>3, <1>5, <2>1, Zenon
  <2>2. CASE s # t
    BY <1>1, <1>2, <1>3, <2>2, Zenon
  <2> QED BY <2>1, <2>2, Zenon
<1>7. ASSUME NEW o \in Owners, NEW s \in Tokens PROVE <<o, s>> \in PieceOwned' <=> Pieces'[<<s, o>>] > 0
  <2>1. \A p : p \in PieceOwned' <=> p \in PieceOwned /\ ~(Leaves(t, owner, v) /\ p = <<owner, t>>)
    BY <1>1, Zenon DEF OwnedAfter
  <2>2. CASE s = t /\ o = owner
    BY <1>1, <1>3, <1>4, <2>1, <2>2, Zenon
  <2>3. CASE ~(s = t /\ o = owner)
    BY <1>2, <1>3, <2>1, <2>3, Zenon
  <2> QED BY <2>2, <2>3, Zenon
<1>8. ASSUME NEW d \in CollectionIds, NEW o \in Owners
      PROVE  PieceBalance'[<<d, o>>] = Cardinality(Holding(Pieces', d, o))
  <2>1. PieceBalance'[<<d, o>>] =
          IF Leaves(t, owner, v) /\ <<d, o>> = <<t[1], owner>> THEN PieceBalance[<<d, o>>] - 1
          ELSE PieceBalance[<<d, o>>]
    BY <1>0, <1>1, Zenon DEF CountAfter
  <2>2. CASE Leaves(t, owner, v) /\ d = t[1] /\ o = owner
    <3>1. SameBeside(Pieces, Pieces', t, o)
      BY <1>2, Zenon DEF SameBeside
    <3>2. Cardinality(Holding(Pieces', t[1], o)) = Cardinality(Holding(Pieces, t[1], o)) - 1
      <4>1. Pieces[<<t, o>>] > 0 /\ ~(Pieces'[<<t, o>>] > 0)
        BY <1>1, <1>4, <2>2, Zenon
      <4> QED BY <3>1, <4>1, HoldingLeft
    <3> QED BY <1>3, <2>1, <2>2, <3>2, Zenon
  <2>3. CASE ~(Leaves(t, owner, v) /\ d = t[1] /\ o = owner)
    <3>1. PieceBalance'[<<d, o>>] = PieceBalance[<<d, o>>]
      BY <2>1, <2>3, Zenon
    <3>2. ASSUME NEW s \in Tokens, s[1] = d PROVE Pieces'[<<s, o>>] > 0 <=> Pieces[<<s, o>>] > 0
      <4>1. CASE s = t /\ o = owner
        BY <1>1, <1>4, <2>3, <3>2, <4>1, Zenon
      <4>2. CASE ~(s = t /\ o = owner)
        BY <1>2, <4>2, Zenon
      <4> QED BY <4>1, <4>2, Zenon
    <3>3. Holding(Pieces', d, o) = Holding(Pieces, d, o)
      <4>1. SameIn(Pieces, Pieces', d, o)
        BY <3>2, Zenon DEF SameIn
      <4> QED BY <4>1, HoldingKept
    <3> QED BY <1>3, <3>1, <3>3, Zenon
  <2> QED BY <2>2, <2>3, Zenon
<1> QED BY <1>6, <1>7, <1>8, Zenon DEF PieceIndex

LEMMA PieceIndexInit == RftInit => PieceIndex
<1> SUFFICES ASSUME RftInit PROVE PieceIndex
  BY Zenon
<1>1. /\ Split = {} /\ PieceOwned = {} /\ Pieces = [p \in Tokens \X Owners |-> 0]
      /\ PieceBalance = [p \in CollectionIds \X Owners |-> 0]
  BY Zenon DEF RftInit, PieceInit
<1>2. \A t \in Tokens, o \in Owners : ~(Pieces[<<t, o>>] > 0)
  <2>1. \A t \in Tokens, o \in Owners : Pieces[<<t, o>>] = 0
    BY <1>1, Zenon
  <2>2. ~(0 > 0)
    OBVIOUS
  <2> QED BY <2>1, <2>2, Zenon
<1>3. ASSUME NEW c \in CollectionIds, NEW o \in Owners
      PROVE  PieceBalance[<<c, o>>] = Cardinality(Holding(Pieces, c, o))
  <2>1. Holding(Pieces, c, o) = {}
    BY <1>2, <1>3, Zenon DEF Holding
  <2> QED BY <1>1, <2>1, FS_EmptySet, Zenon
<1> QED BY <1>1, <1>2, <1>3, Zenon DEF PieceIndex

\* Only collections without tokens are destroyed.
LEMMA IndexDestroyed ==
  ASSUME PieceTypes, PieceIndex, NEW u, NEW c \in CollectionIds, DestroyRft(u, c) PROVE PieceIndex'
<1>1. /\ ~\E t \in Split : t[1] = c
      /\ PieceOwned' = {p \in PieceOwned : p[2][1] # c}
      /\ PieceBalance' = [p \in CollectionIds \X Owners |-> IF p[1] = c THEN 0 ELSE PieceBalance[p]]
      /\ Pieces' = [p \in Tokens \X Owners |-> IF p[1][1] = c THEN 0 ELSE Pieces[p]]
      /\ UNCHANGED Split
  BY Zenon DEF DestroyRft
<1>2. /\ \A t \in Tokens : t \in Split <=> \E o \in Owners : Pieces[<<t, o>>] > 0
      /\ \A o \in Owners, t \in Tokens : <<o, t>> \in PieceOwned <=> Pieces[<<t, o>>] > 0
      /\ \A d \in CollectionIds, o \in Owners : PieceBalance[<<d, o>>] = Cardinality(Holding(Pieces, d, o))
  BY Zenon DEF PieceIndex
<1>3. \A t \in Tokens, o \in Owners : t[1] = c => ~(Pieces[<<t, o>>] > 0)
  BY <1>1, <1>2, Zenon
<1>4. ASSUME NEW t \in Tokens, NEW o \in Owners PROVE Pieces'[<<t, o>>] > 0 <=> Pieces[<<t, o>>] > 0
  <2>1. CASE t[1] = c
    <3>1. Pieces'[<<t, o>>] = 0 /\ ~(Pieces[<<t, o>>] > 0)
      BY <1>1, <1>3, <2>1, Zenon
    <3>2. ~(0 > 0)
      OBVIOUS
    <3> QED BY <3>1, <3>2, Zenon
  <2>2. CASE t[1] # c
    BY <1>1, <2>2, Zenon
  <2> QED BY <2>1, <2>2, Zenon
<1>5. PieceOwned' = PieceOwned
  <2>1. ASSUME NEW p \in PieceOwned PROVE p[2][1] # c
    <3>1. PICK o \in Owners, t \in Tokens : p = <<o, t>>
      BY <2>1 DEF PieceTypes
    <3> QED BY <1>2, <1>3, <2>1, <3>1, Zenon
  <2> QED BY <1>1, <2>1, Zenon
<1>6. PieceBalance' = PieceBalance
  <2>0. PieceBalance \in [CollectionIds \X Owners -> Nat]
    BY Zenon DEF PieceTypes
  <2>1. ASSUME NEW o \in Owners PROVE PieceBalance[<<c, o>>] = 0
    <3>1. Holding(Pieces, c, o) = {}
      BY <1>3, Zenon DEF Holding
    <3> QED BY <1>2, <3>1, FS_EmptySet, Zenon
  <2>2. ASSUME NEW p \in CollectionIds \X Owners
        PROVE  (IF p[1] = c THEN 0 ELSE PieceBalance[p]) = PieceBalance[p]
    <3>1. p = <<p[1], p[2]>> /\ p[2] \in Owners
      OBVIOUS
    <3> QED BY <2>1, <3>1, Zenon
  <2> QED BY <1>1, <2>0, <2>2, Zenon
<1> QED BY <1>1, <1>4, <1>5, <1>6, IndexKept, Zenon

LEMMA PieceIndexNext ==
  ASSUME 0 \notin MintedPieces, PieceBase, PieceBase', PieceIndex, [RftNext]_pieceVars PROVE PieceIndex'
<1>0. /\ PieceTypes /\ PieceSums /\ PiecesHaveCollection /\ PieceTypes' /\ PieceSums'
      /\ Pieces \in [Tokens \X Owners -> Nat]
  BY Zenon DEF PieceBase, PieceTypes
<1>1. ASSUME NEW u \in Users, NEW c \in CollectionIds, NEW b \in Nat, NEW shares, GoodShares(shares),
             CreatePieces(u, c, shares, b)
      PROVE  PieceIndex'
  <2>1. PICK new, gain : CreatesPieces(u, c, new, gain)
    BY <1>0, <1>1, PieceCreateEffect, Zenon
  <2> QED BY <1>0, <2>1, IndexCreated, Zenon
<1>2. ASSUME NEW u \in Users, NEW from \in Owners, NEW to \in Owners, NEW t \in Tokens, NEW v \in Nat,
             NEW b \in Nat, MovePieces(u, from, to, t, v, b)
      PROVE  PieceIndex'
  <2>1. /\ OthersUntouched /\ UNCHANGED <<Split, TotalPieces, PiecesMinted>>
        /\ Pieces[<<t, from>>] > 0 /\ Pieces[<<t, from>>] >= v
        /\ Leaves(t, from, v) => PieceBalance[<<t[1], from>>] >= 1
        /\ \/ UNCHANGED <<Pieces, PieceOwned, PieceBalance, TokenChildren>>
           \/ MovesPieces(u, from, to, t, v)
    BY <1>2, PieceMoveEffect, Zenon
  <2>2. CASE UNCHANGED <<Pieces, PieceOwned, PieceBalance, TokenChildren>>
    BY <2>1, <2>2, IndexKept, Zenon
  <2>3. CASE MovesPieces(u, from, to, t, v)
    BY <1>0, <2>1, <2>3, IndexMoved, Zenon
  <2> QED BY <2>1, <2>2, <2>3, Zenon
<1>3. ASSUME NEW owner \in Owners, NEW t \in Tokens, NEW v \in Nat, RemovePieces(owner, t, v)
      PROVE  PieceIndex'
  <2>1. RemovesPieces(owner, t, v)
    BY <1>0, <1>3, PieceRemoveEffect, Zenon
  <2> QED BY <1>0, <2>1, IndexRemoved, Zenon
<1>4. ASSUME NEW u \in Users, NEW t \in Tokens, NEW v \in Nat, Repartition(u, t, v) PROVE PieceIndex'
  <2>1. /\ v > 0 /\ t \in Split /\ TotalPieces[t] = Pieces[<<t, u>>] /\ u \in Owners
        /\ Pieces' = [Pieces EXCEPT ![<<t, u>>] = v]
        /\ UNCHANGED <<Split, PieceOwned, PieceBalance>>
    BY <1>4, Kinds, Zenon DEF Repartition, OwnsAll
  <2>2. \A o \in Owners \ {u} : Pieces[<<t, o>>] = 0
    BY <1>0, <2>1, SoleOwner, Zenon
  <2>3. PICK o \in Owners : Pieces[<<t, o>>] > 0
    BY <2>1, Zenon DEF PieceIndex
  <2>4. Pieces[<<t, u>>] > 0
    <3>1. o = u
      BY <2>2, <2>3
    <3> QED BY <2>3, <3>1, Zenon
  <2>5. \A s \in Tokens, p \in Owners : Pieces'[<<s, p>>] > 0 <=> Pieces[<<s, p>>] > 0
    BY <1>0, <2>1, <2>4, Zenon
  <2> QED BY <2>1, <2>5, IndexKept, Zenon
<1>5. ASSUME NEW u \in Users, NEW c \in CollectionIds, DestroyRft(u, c) PROVE PieceIndex'
  BY <1>0, <1>5, IndexDestroyed, Zenon
<1>6. RightsOnly \/ UNCHANGED rftVars \/ UNCHANGED pieceVars => PieceIndex'
  BY IndexKept, Zenon DEF RightsOnly, rftVars, pieceVars
<1> QED BY <1>0, <1>1, <1>2, <1>3, <1>4, <1>5, <1>6, RftSteps, Zenon

\* When no owner is minted no pieces, the totals, the index and the counts agree with the
\* pieces that everybody has, through every order of the calls.
THEOREM PiecesCorrect ==
  ASSUME 0 \notin MintedPieces
  PROVE  RftSpec => []PiecesExact
<1>1. PieceBase /\ PieceIndex => PiecesExact
  <2> SUFFICES ASSUME PieceBase, PieceIndex PROVE PiecesExact
    BY Zenon
  <2>1. /\ \A t \in Tokens : t \in Split <=> \E o \in Owners : Pieces[<<t, o>>] > 0
        /\ \A o \in Owners, t \in Tokens : <<o, t>> \in PieceOwned <=> Pieces[<<t, o>>] > 0
        /\ \A c \in CollectionIds, o \in Owners : PieceBalance[<<c, o>>] = Cardinality(Holding(Pieces, c, o))
        /\ Split \in SUBSET Tokens /\ PieceOwned \in SUBSET (Owners \X Tokens)
        /\ \A t \in Tokens : TotalPieces[t] = Sum(PiecesOf(t), Owners)
    BY Zenon DEF PieceIndex, PieceBase, PieceTypes, PieceSums
  <2>2. Split = {t \in Tokens : \E o \in Owners : Pieces[<<t, o>>] > 0}
    BY <2>1, Zenon
  <2>3. PieceOwned = {p \in Owners \X Tokens : Pieces[<<p[2], p[1]>>] > 0}
    <3>1. ASSUME NEW p \in Owners \X Tokens PROVE p \in PieceOwned <=> Pieces[<<p[2], p[1]>>] > 0
      <4>1. p = <<p[1], p[2]>> /\ p[1] \in Owners /\ p[2] \in Tokens
        OBVIOUS
      <4> QED BY <2>1, <4>1, Zenon
    <3> QED BY <2>1, <3>1, Zenon
  <2>4. ASSUME NEW c \in CollectionIds, NEW o \in Owners
        PROVE  PieceBalance[<<c, o>>] = Cardinality({p \in PieceOwned : p[1] = o /\ p[2][1] = c})
    <3>1. PICK S, T, b : /\ S = Holding(Pieces, c, o) /\ b = [t \in S |-> <<o, t>>]
                         /\ T = {p \in PieceOwned : p[1] = o /\ p[2][1] = c}
      BY Zenon
    <3>2. \A t : t \in S <=> t \in Tokens /\ t[1] = c /\ <<o, t>> \in PieceOwned
      BY <2>1, <3>1, Zenon DEF Holding
    <3>3. \A p \in PieceOwned : p = <<p[1], p[2]>> /\ p[2] \in Tokens
      BY <2>1
    <3>4. T = {b[t] : t \in S}
      <4>1. ASSUME NEW p \in T PROVE p \in {b[t] : t \in S}
        <5>1. p \in PieceOwned /\ p[1] = o /\ p[2][1] = c
          BY <3>1, Zenon
        <5>2. p = <<o, p[2]>> /\ p[2] \in S
          BY <3>2, <3>3, <5>1, Zenon
        <5> QED BY <3>1, <5>2, Zenon
      <4>2. ASSUME NEW t \in S PROVE b[t] \in T
        BY <3>1, <3>2, Zenon
      <4> QED BY <4>1, <4>2, Zenon
    <3>5. IsFiniteSet(S)
      BY <3>1, FiniteHolding, Zenon
    <3>6. \A x, y \in S : b[x] = b[y] => x = y
      BY <3>1, Zenon
    <3>7. Cardinality(T) = Cardinality(S)
      BY <3>4, <3>5, <3>6, ImageCount
    <3> QED BY <2>1, <3>1, <3>7, Zenon
  <2> QED BY <2>1, <2>2, <2>3, <2>4, Zenon DEF PiecesExact
<1>2. PieceBase /\ PieceBase' /\ PieceIndex /\ [RftNext]_pieceVars => PieceIndex'
  BY PieceIndexNext, Zenon
<1> QED BY <1>1, <1>2, PieceIndexInit, PieceBaseInit, PieceBaseNext, PTL DEF RftSpec

-----------------------------------------------------------------------------
(* Pieces in tokens.                                                       *)

\* Calls for money leave the split tokens among the children of a token alone.
LEMMA TokenStaysNested ==
  ASSUME NftTypes, MoneyTypes, [FtNext]_moneyVars, NEW item \in Tokens, ~IsNft(item[1]),
         NEW o \in Tokens, TokenData[o] # NotFound, item \in TokenChildren[o]
  PROVE  TokenData'[o] # NotFound /\ item \in TokenChildren'[o]
<1>0. TokenChildren \in [Tokens -> SUBSET Items]
  BY Zenon DEF NftTypes
<1>1. /\ \A c : Money(c) # item
      /\ NftUntouched => UNCHANGED TokenData
  BY Kinds, Zenon DEF Money, NftUntouched
<1>2. ASSUME NEW c, NEW p, NEW v
      PROVE  /\ item \in Nested(TokenChildren, p, Money(c))[o]
             /\ \A children \in [Tokens -> SUBSET Items] : item \in children[o] =>
                  item \in UnnestedWhenEmpty(c, p, v, children)[o]
  BY <1>0, <1>1, Zenon DEF Nested, UnnestedWhenEmpty, Unnested
<1>3. ASSUME NEW u \in Users, NEW c \in CollectionIds, NEW owners \in OwnerLists, NEW b \in Nat,
             NEW data \in [DOMAIN owners -> Nat], CreateMoney(u, c, owners, data, b)
      PROVE  TokenData'[o] # NotFound /\ item \in TokenChildren'[o]
  <2>1. /\ TokenChildren' = [t \in Tokens |-> IF \E i \in DOMAIN owners : owners[i] = t
             THEN TokenChildren[t] \cup {Money(c)} ELSE TokenChildren[t]]
        /\ NftUntouched
    <3>1. CreatesMoney(u, c, owners, data)
      BY <1>3, CreateEffect, Zenon
    <3> QED BY <3>1, Zenon DEF CreatesMoney
  <2> QED BY <1>1, <2>1, Zenon
<1>4. ASSUME NEW u \in Users, NEW from \in Owners, NEW to \in Owners, NEW c \in CollectionIds,
             NEW v \in Nat, NEW b \in Nat, MoveMoney(u, from, to, c, v, b)
      PROVE  TokenData'[o] # NotFound /\ item \in TokenChildren'[o]
  <2>1. PICK children : children = Nested(TokenChildren, to, Money(c))
    BY Zenon
  <2>2. children \in [Tokens -> SUBSET Items] /\ item \in children[o]
    BY <1>0, <1>2, <2>1, ChildrenTyped, Zenon
  <2>3. NftUntouched /\ (UNCHANGED TokenChildren \/ TokenChildren' = UnnestedWhenEmpty(c, from, v, children))
    <3>1. MovesMoney(u, from, to, c, v)
      BY <1>4, MoveEffect, Zenon
    <3> QED BY <2>1, <3>1, Zenon DEF MovesMoney
  <2> QED BY <1>1, <1>2, <2>2, <2>3, Zenon
<1>5. ASSUME NEW owner \in Owners, NEW c \in CollectionIds, NEW v \in Nat, RemoveMoney(owner, c, v)
      PROVE  TokenData'[o] # NotFound /\ item \in TokenChildren'[o]
  <2>1. NftUntouched /\ TokenChildren' = UnnestedWhenEmpty(c, owner, v, TokenChildren)
    BY <1>5, RemoveEffect, Zenon
  <2> QED BY <1>0, <1>1, <1>2, <2>1, Zenon
<1>6. ASSUME UNCHANGED <<TokenData, TokenChildren>>
      PROVE  TokenData'[o] # NotFound /\ item \in TokenChildren'[o]
  BY <1>6, Zenon
<1>7. ASSUME NEW u, NEW c, DestroyFungible(u, c) PROVE UNCHANGED <<TokenData, TokenChildren>>
  BY <1>7, Zenon DEF DestroyFungible, tokenVars
<1>8. UNCHANGED nftVars \/ UNCHANGED moneyVars => UNCHANGED <<TokenData, TokenChildren>>
  BY Zenon DEF moneyVars, nftVars, tokenVars
<1>9. NftNext => TokenData'[o] # NotFound /\ item \in TokenChildren'[o]
  BY ItemStaysNested, Zenon
<1> QED BY <1>3, <1>4, <1>5, <1>6, <1>7, <1>8, <1>9, FtSteps, Zenon

LEMMA PiecesReachableNext ==
  ASSUME PieceBase, PiecesReachable, [RftNext]_pieceVars PROVE PiecesReachable'
<1> SUFFICES ASSUME NEW s \in Tokens, NEW o \in Tokens, Pieces'[<<s, o>>] > 0
             PROVE  TokenData'[o] # NotFound /\ s \in TokenChildren'[o]
  BY Zenon DEF PiecesReachable
<1>0. /\ NftTypes /\ MoneyTypes /\ PieceTypes /\ PieceSums /\ PiecesHaveCollection
      /\ Pieces \in [Tokens \X Owners -> Nat] /\ TokenChildren \in [Tokens -> SUBSET Items]
      /\ Tokens \subseteq Owners /\ Tokens \subseteq Items /\ Tokens \cap Users = {}
  BY Kinds, Zenon DEF PieceBase, PieceTypes, NftTypes
<1>1. Pieces[<<s, o>>] > 0 => TokenData[o] # NotFound /\ s \in TokenChildren[o]
  BY Zenon DEF PiecesReachable
<1>2. OthersUntouched => UNCHANGED TokenData
  BY Zenon DEF OthersUntouched, NftUntouched
<1>3. ASSUME NEW u \in Users, NEW c \in CollectionIds, NEW b \in Nat, NEW shares, GoodShares(shares),
             CreatePieces(u, c, shares, b)
      PROVE  TokenData'[o] # NotFound /\ s \in TokenChildren'[o]
  <2>1. PICK new, gain : CreatesPieces(u, c, new, gain)
    BY <1>0, <1>3, PieceCreateEffect, Zenon
  <2>2. /\ OthersUntouched
        /\ \A t \in Tokens, p \in Owners : gain[<<t, p>>] > 0 => t \in new
        /\ \A p, t \in Tokens : gain[<<t, p>>] > 0 => \E k \in Nat : CheckNesting(u, t, p, k).ok
        /\ Pieces' = [p \in Tokens \X Owners |-> IF gain[p] > 0 THEN gain[p] ELSE Pieces[p]]
        /\ TokenChildren' = [p \in Tokens |-> TokenChildren[p] \cup {t \in new : gain[<<t, p>>] > 0}]
    BY <2>1, Zenon DEF CreatesPieces
  <2>3. CASE gain[<<s, o>>] > 0
    <3>1. TokenData[o] # NotFound
      BY <1>0, <2>2, <2>3, NestedUnder, Zenon
    <3> QED BY <1>0, <1>2, <2>2, <2>3, <3>1, Zenon
  <2>4. CASE ~(gain[<<s, o>>] > 0)
    <3>1. Pieces[<<s, o>>] > 0
      BY <1>0, <2>2, <2>4, Zenon
    <3> QED BY <1>1, <1>2, <2>2, <3>1, Zenon
  <2> QED BY <2>3, <2>4, Zenon
<1>4. ASSUME NEW u \in Users, NEW from \in Owners, NEW to \in Owners, NEW t \in Tokens, NEW v \in Nat,
             NEW b \in Nat, MovePieces(u, from, to, t, v, b)
      PROVE  TokenData'[o] # NotFound /\ s \in TokenChildren'[o]
  <2>1. /\ OthersUntouched /\ UNCHANGED <<Split, TotalPieces, PiecesMinted>>
        /\ Pieces[<<t, from>>] > 0 /\ Pieces[<<t, from>>] >= v
        /\ Leaves(t, from, v) => PieceBalance[<<t[1], from>>] >= 1
        /\ \/ UNCHANGED <<Pieces, PieceOwned, PieceBalance, TokenChildren>>
           \/ MovesPieces(u, from, to, t, v)
    BY <1>4, PieceMoveEffect, Zenon
  <2>2. CASE UNCHANGED <<Pieces, PieceOwned, PieceBalance, TokenChildren>>
    BY <1>1, <1>2, <2>1, <2>2, Zenon
  <2>3. CASE MovesPieces(u, from, to, t, v)
    <3>1. PICK children : children = Nested(TokenChildren, to, t)
      BY Zenon
    <3>2. /\ from # to /\ v > 0
          /\ to \in Tokens => \E k \in Nat : CheckNesting(u, t, to, k).ok
          /\ TokenChildren' = ChildrenAfter(t, from, v, children)
          /\ Pieces' = [Pieces EXCEPT ![<<t, from>>] = @ - v, ![<<t, to>>] = @ + v]
      BY <2>3, <3>1 DEF MovesPieces
    <3>3. /\ children \in [Tokens -> SUBSET Items]
          /\ \A p \in Tokens : TokenChildren[p] \subseteq children[p]
          /\ to \in Tokens => t \in children[to]
      BY <1>0, <3>1, Zenon DEF Nested
    <3>4. CASE s = t /\ o = to
      <4>1. TokenData[o] # NotFound
        BY <1>0, <3>2, <3>4, NestedUnder, Zenon
      <4>2. t \in TokenChildren'[o]
        BY <3>2, <3>3, <3>4, Zenon DEF ChildrenAfter, Unnested
      <4> QED BY <1>2, <2>1, <3>4, <4>1, <4>2, Zenon
    <3>5. CASE s = t /\ o = from
      <4>1. Pieces'[<<s, o>>] = Pieces[<<s, o>>] - v
        BY <1>0, <3>2, <3>5, Zenon
      <4>2. ~Leaves(t, from, v) /\ Pieces[<<s, o>>] > 0
        BY <1>0, <3>2, <3>5, <4>1 DEF Leaves
      <4>3. TokenChildren' = children
        BY <3>2, <4>2, Zenon DEF ChildrenAfter
      <4> QED BY <1>1, <1>2, <2>1, <3>3, <4>2, <4>3, Zenon
    <3>6. CASE ~(s = t /\ o \in {from, to})
      <4>1. Pieces'[<<s, o>>] = Pieces[<<s, o>>]
        BY <1>0, <3>2, <3>6, Zenon
      <4>2. TokenData[o] # NotFound /\ s \in children[o]
        BY <1>1, <3>3, <4>1, Zenon
      <4>3. s \in TokenChildren'[o]
        BY <3>2, <3>3, <3>6, <4>2, Zenon DEF ChildrenAfter, Unnested
      <4> QED BY <1>2, <2>1, <4>2, <4>3, Zenon
    <3> QED BY <3>4, <3>5, <3>6, Zenon
  <2> QED BY <2>1, <2>2, <2>3, Zenon
<1>5. ASSUME NEW owner \in Owners, NEW t \in Tokens, NEW v \in Nat, RemovePieces(owner, t, v)
      PROVE  TokenData'[o] # NotFound /\ s \in TokenChildren'[o]
  <2>1. /\ Pieces[<<t, owner>>] >= v /\ OthersUntouched
        /\ TokenChildren' = ChildrenAfter(t, owner, v, TokenChildren)
        /\ Pieces' = [Pieces EXCEPT ![<<t, owner>>] = @ - v]
    <3>1. RemovesPieces(owner, t, v)
      BY <1>0, <1>5, PieceRemoveEffect, Zenon
    <3> QED BY <3>1, Zenon DEF RemovesPieces
  <2>2. Pieces[<<s, o>>] > 0
    BY <1>0, <2>1
  <2>3. CASE s = t /\ o = owner
    <3>1. ~Leaves(t, owner, v)
      BY <1>0, <2>1, <2>3 DEF Leaves
    <3> QED BY <1>1, <1>2, <2>1, <2>2, <3>1, Zenon DEF ChildrenAfter
  <2>4. CASE ~(s = t /\ o = owner)
    <3>1. s \in TokenChildren'[o]
      BY <1>0, <1>1, <2>1, <2>2, <2>4, Zenon DEF ChildrenAfter, Unnested
    <3> QED BY <1>1, <1>2, <2>1, <2>2, <3>1, Zenon
  <2> QED BY <2>3, <2>4, Zenon
<1>6. ASSUME NEW u \in Users, NEW t \in Tokens, NEW v \in Nat, Repartition(u, t, v)
      PROVE  TokenData'[o] # NotFound /\ s \in TokenChildren'[o]
  <2>1. Pieces' = [Pieces EXCEPT ![<<t, u>>] = v] /\ UNCHANGED <<TokenData, TokenChildren>>
    BY <1>6, Zenon DEF Repartition, moneyVars, nftVars, tokenVars
  <2>2. o # u
    BY <1>0, Zenon
  <2>3. Pieces[<<s, o>>] > 0
    BY <1>0, <2>1, <2>2, Zenon
  <2> QED BY <1>1, <2>1, <2>3, Zenon
<1>7. ASSUME NEW u \in Users, NEW c \in CollectionIds, DestroyRft(u, c)
      PROVE  TokenData'[o] # NotFound /\ s \in TokenChildren'[o]
  <2>1. /\ Pieces' = [p \in Tokens \X Owners |-> IF p[1][1] = c THEN 0 ELSE Pieces[p]]
        /\ UNCHANGED <<TokenData, TokenChildren>>
    BY <1>7, Zenon DEF DestroyRft, tokenVars
  <2>2. Pieces[<<s, o>>] > 0
    BY <1>0, <2>1
  <2> QED BY <1>1, <2>1, <2>2, Zenon
<1>8. ASSUME [FtNext]_moneyVars, UNCHANGED rftVars PROVE TokenData'[o] # NotFound /\ s \in TokenChildren'[o]
  <2>1. Pieces[<<s, o>>] > 0
    BY <1>8, Zenon DEF rftVars
  <2>2. ~IsNft(s[1])
    BY <1>0, <2>1, Zenon DEF PiecesHaveCollection, IsNft, IsRft
  <2> QED BY <1>0, <1>1, <1>8, <2>1, <2>2, TokenStaysNested, Zenon
<1>9. ASSUME RightsOnly PROVE TokenData'[o] # NotFound /\ s \in TokenChildren'[o]
  BY <1>1, <1>9, Zenon DEF RightsOnly, moneyVars, nftVars, tokenVars
<1> QED BY <1>0, <1>3, <1>4, <1>5, <1>6, <1>7, <1>8, <1>9, RftSteps, Zenon DEF pieceVars

\* Pieces are never out of reach: a token that has some exists and lists them, so that it
\* can not be burned.
THEOREM PiecesStayReachable == RftSpec => []PiecesReachable
<1>1. RftInit => PiecesReachable
  <2> SUFFICES ASSUME RftInit, NEW t \in Tokens, NEW o \in Tokens PROVE ~(Pieces[<<t, o>>] > 0)
    BY Zenon DEF PiecesReachable
  <2>1. Pieces[<<t, o>>] = 0
    BY Kinds, Zenon DEF RftInit, PieceInit
  <2> QED BY <2>1
<1>2. PieceBase /\ PiecesReachable /\ [RftNext]_pieceVars => PiecesReachable'
  BY PiecesReachableNext, Zenon
<1> QED BY <1>1, <1>2, PieceBaseInit, PieceBaseNext, PTL DEF RftSpec

-----------------------------------------------------------------------------
(* Who takes pieces.                                                       *)

\* Passing check_allowed means being entitled, and an allowance is used up.
LEMMA PiecesAllowedEntitled ==
  ASSUME NftTypes, PieceTypes, NEW u \in Users, NEW from \in Owners, NEW t \in Tokens, NEW v \in Nat,
         NEW b \in Nat, MayTakePieces(u, from, t, v, b).ok,
         NEW allowance \in [Tokens \X Users \X Users -> Nat],
         PieceAllowance' = PieceAllowanceLeft(allowance, u, from, t, v)
  PROVE  PiecesEntitled(u, t, from, v)
<1>1. ~Failed.ok
  BY Zenon DEF Failed
<1>2. \/ SameAccount(u, from) \/ IgnoresRestrictions(u, t[1])
      \/ <<t[1], from, u>> \in PieceOperators
      \/ from \in Tokens /\ IndirectlyOwned(u, from, b).ok
      \/ ~SameAccount(u, from) /\ from \notin Tokens /\ PiecesAllowed(t, from, u) >= v
  BY <1>1, Zenon DEF MayTakePieces
<1>3. CASE \/ SameAccount(u, from) \/ IgnoresRestrictions(u, t[1]) \/ <<t[1], from, u>> \in PieceOperators
  BY <1>3, Zenon DEF PiecesEntitled
<1>4. CASE from \in Tokens /\ IndirectlyOwned(u, from, b).ok
  <2>1. TopOf(from) = u
    BY <1>4, TopFound, Zenon
  <2> QED BY <1>4, <2>1, Zenon DEF PiecesEntitled
<1>5. CASE ~SameAccount(u, from) /\ from \notin Tokens /\ PiecesAllowed(t, from, u) >= v
  <2>1. from \in Users /\ <<t, from, u>> \in Tokens \X Users \X Users
    BY <1>5, Kinds, Zenon
  <2>2. /\ PiecesAllowed(t, from, u) = PieceAllowance[<<t, from, u>>]
        /\ PiecesAllowed(t, from, u)' = PieceAllowance'[<<t, from, u>>]
    BY <2>1, Zenon DEF PiecesAllowed
  <2>3. PieceAllowance' = [allowance EXCEPT ![<<t, from, u>>] = PieceAllowance[<<t, from, u>>] - v]
    BY <1>5, <2>1, Zenon DEF PieceAllowanceLeft
  <2>4. PieceAllowance'[<<t, from, u>>] = PieceAllowance[<<t, from, u>>] - v
    BY <2>1, <2>3, Zenon
  <2> QED BY <1>5, <2>2, <2>4, Zenon DEF PiecesEntitled
<1> QED BY <1>2, <1>3, <1>4, <1>5, Zenon

\* A call takes only pieces that its caller is entitled to, and uses its allowance up.
THEOREM PiecesTakenByEntitled == RftSpec => PiecesTakenByEntitledOnly
<1> DEFINE P == \A t \in Split, from \in Owners : Pieces'[<<t, from>>] < Pieces[<<t, from>>] =>
                  LET v == Pieces[<<t, from>>] - Pieces'[<<t, from>>] IN
                  \A u \in Users : PiecesTakenBy(u, t, from, v) => PiecesEntitled(u, t, from, v)
<1>1. ASSUME PieceBase, PieceBase' PROVE P
  <2> SUFFICES ASSUME NEW t \in Split, NEW from \in Owners,
                      Pieces'[<<t, from>>] < Pieces[<<t, from>>], NEW u \in Users,
                      PiecesTakenBy(u, t, from, Pieces[<<t, from>>] - Pieces'[<<t, from>>])
               PROVE  PiecesEntitled(u, t, from, Pieces[<<t, from>>] - Pieces'[<<t, from>>])
    BY Zenon
  <2>1. /\ NftTypes /\ PieceTypes /\ PieceSums /\ AllowancesTyped
        /\ t \in Tokens /\ Pieces \in [Tokens \X Owners -> Nat] /\ Pieces' \in [Tokens \X Owners -> Nat]
        /\ PieceAllowance \in [Tokens \X Users \X Users -> Nat]
        /\ u \in Owners /\ Budgets \subseteq Nat
    BY <1>1, TokenAssumption, Zenon DEF PieceBase, PieceTypes, AllowancesTyped, Owners
  <2>2. PICK v : v = Pieces[<<t, from>>] - Pieces'[<<t, from>>]
    BY Zenon
  <2>3. v \in Nat /\ PiecesTakenBy(u, t, from, v)
    BY <2>1, <2>2
  <2>4. from = u => PiecesEntitled(u, t, from, v)
    BY Zenon DEF PiecesEntitled, SameAccount
  <2>5. ASSUME BurnPieces(u, t, v) PROVE from = u
    <3>1. RemovePieces(u, t, v)
      BY <2>5, Zenon DEF BurnPieces
    <3>2. Pieces' = [Pieces EXCEPT ![<<t, u>>] = @ - v]
      <4>1. RemovesPieces(u, t, v)
        BY <2>1, <2>3, <3>1, PieceRemoveEffect, Zenon
      <4> QED BY <4>1, Zenon DEF RemovesPieces
    <3> QED BY <2>1, <3>2
  <2>6. ASSUME NEW b \in Budgets, NEW to \in Owners, TransferPieces(u, to, t, v, b) PROVE from = u
    <3>1. \/ UNCHANGED Pieces
          \/ Pieces' = [Pieces EXCEPT ![<<t, u>>] = @ - v, ![<<t, to>>] = @ + v]
      BY <2>6, Zenon DEF TransferPieces, MovePieces
    <3>2. CASE UNCHANGED Pieces
      BY <2>1, <3>2
    <3>3. CASE Pieces' = [Pieces EXCEPT ![<<t, u>>] = @ - v, ![<<t, to>>] = @ + v]
      <4>1. CASE from # u /\ from # to
        BY <2>1, <3>3, <4>1
      <4>2. CASE from # u /\ from = to
        <5>1. Pieces'[<<t, from>>] = Pieces[<<t, from>>] + v
          BY <2>1, <3>3, <4>2, Zenon
        <5> QED BY <2>1, <2>3, <5>1
      <4> QED BY <4>1, <4>2, Zenon
    <3> QED BY <3>1, <3>2, <3>3, Zenon
  <2>7. ASSUME NEW b \in Budgets, BurnPiecesFrom(u, from, t, v, b) PROVE PiecesEntitled(u, t, from, v)
    <3>1. PICK allowance : allowance = AllowanceAfterBurn(PieceAllowance, t, v)
      BY Zenon
    <3>2. /\ MayTakePieces(u, from, t, v, b).ok /\ b \in Nat
          /\ PieceAllowance' = PieceAllowanceLeft(allowance, u, from, t, v)
      BY <2>1, <2>7, <3>1, Zenon DEF BurnPiecesFrom
    <3>3. allowance \in [Tokens \X Users \X Users -> Nat]
      BY <2>1, <2>3, <3>1, AllowancesStayTyped, Zenon
    <3> QED BY <2>1, <2>3, <3>2, <3>3, PiecesAllowedEntitled, Zenon
  <2>8. ASSUME NEW b \in Budgets, NEW to \in Owners, TransferPiecesFrom(u, from, to, t, v, b)
        PROVE  PiecesEntitled(u, t, from, v)
    <3>1. /\ MayTakePieces(u, from, t, v, b).ok /\ b \in Nat
          /\ PieceAllowance' = PieceAllowanceLeft(PieceAllowance, u, from, t, v)
      BY <2>1, <2>8, Zenon DEF TransferPiecesFrom
    <3> QED BY <2>1, <2>3, <3>1, PiecesAllowedEntitled, ZenonT(60)
  <2>9. PiecesEntitled(u, t, from, v)
    BY <2>3, <2>4, <2>5, <2>6, <2>7, <2>8, Zenon DEF PiecesTakenBy
  <2> QED BY <2>2, <2>9, Zenon
<1>2. PieceBase /\ [RftNext]_pieceVars => [P]_pieceVars
  BY <1>1, PieceBaseNext, Zenon
<1> HIDE DEF P
<1>3. RftSpec => [][P]_pieceVars
  BY <1>2, PieceBaseInit, PieceBaseNext, PTL DEF RftSpec
<1> QED BY <1>3, Zenon DEF P, PiecesTakenByEntitledOnly
=============================================================================
