------------------------ MODULE AppPromotionProofs ------------------------
(***************************************************************************)
(* Proofs about the staking pallet, for every set of stakers, every pair   *)
(* of hash orders, every interval, rate and limit.                         *)
(***************************************************************************)
EXTENDS AppPromotion, SumTheorems, TLAPS

\* The provers of a leaf that names none: the solver, given time for the larger ones, then Zenon.
USE SMTT(15), ZenonT(10)

-----------------------------------------------------------------------------
(* Interest.                                                               *)

\* One interval's income of a natural is a natural (Perbill * x never goes negative).
LEMMA IntervalIncomeType == \A x \in Nat : IntervalIncome(x) \in Nat
<1> SUFFICES ASSUME NEW x \in Nat PROVE IntervalIncome(x) \in Nat
  BY Zenon
<1>1. RateNum \in Nat /\ RateDen \in Nat \ {0}
  BY ParamAssumption, Zenon
<1>2. x * RateNum \in Nat
  BY <1>1
<1>3. 2 * (x * RateNum) \in Nat /\ 2 * x * RateNum = 2 * (x * RateNum)
  BY <1>1, <1>2
<1>4. 2 * x * RateNum + RateDen - 1 \in Nat /\ 2 * RateDen \in Nat \ {0}
  BY <1>1, <1>3
<1>5. \A p \in Nat, q \in Nat \ {0} : p \div q \in Nat
  OBVIOUS
<1> QED BY <1>4, <1>5, Zenon DEF IntervalIncome

\* The loop of calculate_income is well defined and never loses money: compounding
\* gives a natural that is at least the base.
LEMMA CompoundType ==
  ASSUME NEW base \in Nat, NEW iters \in Nat
  PROVE  Compound(base, iters) \in Nat /\ Compound(base, iters) >= base
<1> DEFINE step(g, n) ==
             [i \in 0..n |-> IF i = 0 THEN base ELSE g[i - 1] + IntervalIncome(g[i - 1])]
           defined == {n \in Nat : \E g : g = step(g, n)}
<1>1. 0 \in defined
  <2> DEFINE g == [i \in 0..0 |-> base]
  <2>1. g = step(g, 0)
    OBVIOUS
  <2> QED BY <2>1, Zenon
<1>2. ASSUME NEW n \in defined PROVE n + 1 \in defined
  <2>1. PICK g : g = step(g, n)
    BY <1>2, Zenon
  <2> DEFINE h == [i \in 0..(n + 1) |-> IF i = n + 1 THEN g[n] + IntervalIncome(g[n]) ELSE g[i]]
  <2>2. ASSUME NEW i \in 0..(n + 1)
        PROVE  h[i] = IF i = 0 THEN base ELSE h[i - 1] + IntervalIncome(h[i - 1])
    <3>1. n \in Nat
      BY Zenon
    <3>2. CASE i = n + 1
      <4>1. i # 0 /\ i - 1 = n /\ n \in 0..(n + 1) /\ n # n + 1
        BY <3>1, <3>2
      <4>2. h[i] = g[n] + IntervalIncome(g[n]) /\ h[i - 1] = g[n]
        BY <4>1, <3>2, Zenon
      <4> QED BY <4>1, <4>2, Zenon
    <3>3. CASE i # n + 1
      <4>1. i \in 0..n
        BY <3>1, <3>3
      <4>2. h[i] = g[i]
        BY <3>3, Zenon
      <4>3. g[i] = IF i = 0 THEN base ELSE g[i - 1] + IntervalIncome(g[i - 1])
        BY <2>1, <4>1, Zenon
      <4>4. i # 0 => h[i - 1] = g[i - 1]
        BY <3>1, <4>1
      <4> QED BY <4>2, <4>3, <4>4, Zenon
    <3> QED BY <3>2, <3>3, Zenon
  <2>3. h = step(h, n + 1)
    <3>1. h = [i \in 0..(n + 1) |-> h[i]]
      BY Zenon
    <3> HIDE DEF h
    <3> DEFINE r == step(h, n + 1)
    <3>2. r = [i \in 0..(n + 1) |-> r[i]]
      BY Zenon
    <3>3. \A i \in 0..(n + 1) : h[i] = r[i]
      BY <2>2, Zenon
    <3> HIDE DEF r
    <3>4. h = r
      BY <3>1, <3>2, <3>3, Zenon
    <3> QED BY <3>4, Zenon DEF r
  <2> HIDE DEF h
  <2>4. \E x : x = step(x, n + 1)
    BY <2>3, Zenon
  <2>5. n + 1 \in Nat
    OBVIOUS
  <2> QED BY <2>4, <2>5, Zenon
<1>3. iters \in defined
  <2> HIDE DEF defined
  <2>1. defined \in SUBSET Nat
    BY Zenon DEF defined
  <2> QED BY <1>1, <1>2, <2>1, InductiveSet, Zenon
<1> DEFINE c == CHOOSE g : g = step(g, iters)
<1>4. c = step(c, iters)
  BY <1>3, Zenon
<1>5. Compound(base, iters) = c[iters]
  BY Zenon DEF Compound
<1> HIDE DEF c
<1> DEFINE good == {i \in Nat : i <= iters => c[i] \in Nat /\ c[i] >= base}
<1>6. 0 \in good
  BY <1>4
<1>7. ASSUME NEW i \in good PROVE i + 1 \in good
  <2> SUFFICES ASSUME i + 1 <= iters PROVE c[i + 1] \in Nat /\ c[i + 1] >= base
    OBVIOUS
  <2>1. i + 1 \in 0..iters /\ i + 1 # 0 /\ (i + 1) - 1 = i
    OBVIOUS
  <2>2. c[i + 1] = c[i] + IntervalIncome(c[i])
    BY <1>4, <2>1, Zenon
  <2>3. c[i] \in Nat /\ c[i] >= base
    BY <1>7
  <2>4. IntervalIncome(c[i]) \in Nat
    BY <2>3, IntervalIncomeType, Zenon
  <2> QED BY <2>2, <2>3, <2>4
<1>8. iters \in good
  <2> HIDE DEF good
  <2>1. good \in SUBSET Nat
    BY Zenon DEF good
  <2> QED BY <1>6, <1>7, <2>1, InductiveSet, Zenon
<1> QED BY <1>5, <1>8

\* Recalculation blocks: the current one is not in the future, a new stake's first
\* one is.
LEMMA RecalcBlocks ==
  ASSUME NEW r \in Nat
  PROVE  /\ CurrentRecalcBlock(r) \in Nat /\ CurrentRecalcBlock(r) <= r
         /\ FirstRecalcBlock(r) \in Nat /\ FirstRecalcBlock(r) > r
<1> DEFINE q == r \div Interval
<1>1. Interval \in Nat \ {0}
  BY ParamAssumption, Zenon
<1>2. q \in Nat /\ q * Interval <= r /\ r < q * Interval + Interval
  BY <1>1
<1> HIDE DEF q
<1>3. q * Interval \in Nat /\ (q + 1) * Interval = q * Interval + Interval
      /\ (q + 2) * Interval = q * Interval + 2 * Interval
  BY <1>1, <1>2
<1>4. CurrentRecalcBlock(r) = q * Interval
  BY Zenon DEF CurrentRecalcBlock, q
<1>5. FirstRecalcBlock(r) = (q + 1) * Interval \/ FirstRecalcBlock(r) = (q + 2) * Interval
  BY Zenon DEF FirstRecalcBlock, q
<1> QED BY <1>1, <1>2, <1>3, <1>4, <1>5

\* The current recalculation block never moves back.
LEMMA RecalcMonotone ==
  ASSUME NEW r \in Nat, NEW t \in Nat, r <= t
  PROVE  CurrentRecalcBlock(r) <= CurrentRecalcBlock(t)
<1> DEFINE p == r \div Interval
           q == t \div Interval
<1>1. Interval \in Nat \ {0}
  BY ParamAssumption, Zenon
<1>2. p \in Nat /\ p * Interval <= r /\ q \in Nat /\ t < q * Interval + Interval
  BY <1>1
<1> HIDE DEF p, q
<1>3. p * Interval < (q + 1) * Interval
  BY <1>1, <1>2
<1>4. p <= q
  <2> SUFFICES ASSUME p >= q + 1 PROVE FALSE
    BY <1>2
  <2>1. PICK d \in Nat : p = (q + 1) + d
    <3>1. p - (q + 1) \in Nat /\ p = (q + 1) + (p - (q + 1))
      BY <1>2
    <3> QED BY <3>1, Zenon
  <2>2. p * Interval = (q + 1) * Interval + d * Interval /\ d * Interval \in Nat
    BY <1>1, <1>2, <2>1
  <2> QED BY <1>1, <1>2, <1>3, <2>2
<1>5. PICK e \in Nat : q = p + e
  <2>1. q - p \in Nat /\ q = p + (q - p)
    BY <1>2, <1>4
  <2> QED BY <2>1, Zenon
<1>6. q * Interval = p * Interval + e * Interval /\ e * Interval \in Nat /\ p * Interval \in Nat
  BY <1>1, <1>2, <1>5
<1> QED BY <1>6 DEF CurrentRecalcBlock, p, q

-----------------------------------------------------------------------------
(* The sums of the model are naturals.                                     *)

\* The keys of the storage maps form finite sets.
LEMMA FiniteDomains ==
  IsFiniteSet(Relays) /\ IsFiniteSet(Blocks) /\ IsFiniteSet(Keys)
<1>1. MaxRelay \in Int /\ MaxBlock \in Int /\ 0 \in Int
  BY ParamAssumption
<1>2. IsFiniteSet(Relays) /\ IsFiniteSet(Blocks)
  BY <1>1, FS_Interval, Zenon DEF Relays, Blocks
<1> QED BY <1>2, StakersAssumption, FS_Product, Zenon DEF Keys

\* What a queue of pending unstakes owes to an account.
LEMMA QueuedForType ==
  ASSUME NEW queue \in Seq(Stakers \X Nat), NEW s
  PROVE  QueuedFor(queue, s) \in Nat
<1> DEFINE f == [i \in DOMAIN queue |-> IF queue[i][1] = s THEN queue[i][2] ELSE 0]
<1>1. DOMAIN queue = 1..Len(queue) /\ Len(queue) \in Int /\ 1 \in Int
  OBVIOUS
<1>2. IsFiniteSet(DOMAIN queue)
  BY <1>1, FS_Interval, Zenon
<1>3. \A i \in DOMAIN queue : f[i] \in Nat
  <2> TAKE i \in DOMAIN queue
  <2>1. queue[i] \in Stakers \X Nat
    OBVIOUS
  <2> QED BY <2>1, Zenon
<1> HIDE DEF f
<1>4. Sum(f, DOMAIN queue) \in Nat
  BY <1>2, <1>3, SumType, Zenon
<1> QED BY <1>4, Zenon DEF QueuedFor, f

\* What an account has staked over any set of relay blocks.
LEMMA StakeSumType ==
  ASSUME TypeOK, NEW s \in Stakers, NEW S \in SUBSET Relays
  PROVE  Sum([b \in Relays |-> Staked[<<s, b>>].amount], S) \in Nat
<1> DEFINE f == [b \in Relays |-> Staked[<<s, b>>].amount]
<1>1. \A b \in Relays : f[b] \in Nat
  BY Zenon DEF TypeOK, Keys
<1>2. IsFiniteSet(S)
  BY FiniteDomains, FS_Subset, Zenon
<1> HIDE DEF f
<1>3. Sum(f, S) \in Nat
  BY <1>1, <1>2, SumType, Zenon
<1> QED BY <1>3, Zenon DEF f

\* The income that payout_stakers computes for a record and for a page of records.
LEMMA IncomeType ==
  ASSUME TypeOK, NEW S \in SUBSET Keys
  PROVE  /\ \A k \in S : IncomeOf(k) \in Nat
         /\ IncomeIn(S) \in Nat
<1>1. ASSUME NEW k \in S PROVE IncomeOf(k) \in Nat
  <2>1. Staked[k] \in [amount : Nat, recalc : Nat] /\ relay \in Nat
    BY ParamAssumption DEF TypeOK, Relays
  <2>2. CurrentRecalcBlock(relay) \in Nat
    BY <2>1, RecalcBlocks, Zenon
  <2>3. CASE Due(k)
    <3>1. CurrentRecalcBlock(relay) - Staked[k].recalc \in Nat
      BY <2>1, <2>2, <2>3 DEF Due
    <3>2. \A p \in Nat : p \div Interval + 1 \in Nat
      BY ParamAssumption
    <3>3. Iters(k) \in Nat
      BY <3>1, <3>2, Zenon DEF Iters
    <3>4. Compound(Staked[k].amount, Iters(k)) \in Nat
          /\ Compound(Staked[k].amount, Iters(k)) >= Staked[k].amount
      BY <2>1, <3>3, CompoundType, Zenon
    <3> QED BY <2>1, <2>3, <3>4 DEF IncomeOf, CalculateIncome
  <2>4. CASE ~Due(k)
    BY <2>4, Zenon DEF IncomeOf
  <2> QED BY <2>3, <2>4, Zenon
<1> DEFINE f == [k \in S |-> IncomeOf(k)]
<1>2. \A k \in S : f[k] \in Nat
  BY <1>1, Zenon
<1>3. IsFiniteSet(S)
  BY FiniteDomains, FS_Subset, Zenon
<1> HIDE DEF f
<1>4. Sum(f, S) \in Nat
  BY <1>2, <1>3, SumType, Zenon
<1> QED BY <1>1, <1>4, Zenon DEF IncomeIn, f

-----------------------------------------------------------------------------
(* The iteration order and the pages of payout_stakers.                    *)

\* The record a page saves is the last one of the page in iteration order.
LEMMA SavedRecordIsLast ==
  ASSUME NEW V \in SUBSET Keys, V # {}
  PROVE  SavedRecord(V) \in V /\ \A l \in V \ {SavedRecord(V)} : Before(l, SavedRecord(V))
<1>1. IsFiniteSet(V)
  BY FiniteDomains, FS_Subset, Zenon
<1> DEFINE rank == [k \in V |-> StakerRank[k[1]]]
           ranks == {rank[k] : k \in V}
<1>2. rank \in Surjection(V, ranks)
  BY Zenon DEF Surjection
<1>3. IsFiniteSet(ranks) /\ ranks # {} /\ ranks \in SUBSET Nat
  <2>1. IsFiniteSet(ranks)
    BY <1>1, <1>2, FS_Surjection, Zenon
  <2>2. \A k \in V : rank[k] \in Nat
    BY RankAssumption, Zenon DEF Keys
  <2> QED BY <2>1, <2>2, Zenon
<1>4. PICK m \in ranks : \A x \in ranks : x <= m
  BY <1>3, GreatestNatural, Zenon
<1> DEFINE top == {k \in V : StakerRank[k[1]] = m}
           brank == [k \in top |-> BlockRank[k[2]]]
           branks == {brank[k] : k \in top}
<1>5. brank \in Surjection(top, branks)
  BY Zenon DEF Surjection
<1>6. IsFiniteSet(branks) /\ branks # {} /\ branks \in SUBSET Nat
  <2>1. IsFiniteSet(top)
    BY <1>1, FS_Subset, Zenon
  <2>2. IsFiniteSet(branks)
    BY <1>5, <2>1, FS_Surjection, Zenon
  <2>3. \A k \in top : brank[k] \in Nat
    BY RankAssumption, Zenon DEF Keys
  <2>4. top # {}
    BY <1>4, Zenon
  <2> QED BY <2>2, <2>3, <2>4, Zenon
<1>7. PICK n \in branks : \A x \in branks : x <= n
  BY <1>6, GreatestNatural, Zenon
<1>8. PICK k \in top : BlockRank[k[2]] = n
  BY <1>7, Zenon
<1>9. ASSUME NEW l \in V \ {k} PROVE Before(l, k)
  <2>1. l \in Keys /\ k \in Keys
    BY Zenon
  <2>2. /\ StakerRank[l[1]] \in Nat /\ StakerRank[k[1]] \in Nat
        /\ BlockRank[l[2]] \in Nat /\ BlockRank[k[2]] \in Nat
    BY <2>1, RankAssumption, Zenon DEF Keys
  <2>3. StakerRank[l[1]] <= StakerRank[k[1]]
    BY <1>4, <1>8, Zenon
  <2>4. CASE StakerRank[l[1]] = StakerRank[k[1]]
    <3>1. l[1] = k[1]
      BY <2>1, <2>4, RankAssumption, Zenon DEF Keys
    <3>2. l \in top
      BY <1>8, <2>4, Zenon
    <3>3. BlockRank[l[2]] <= BlockRank[k[2]]
      BY <1>7, <1>8, <3>2, Zenon
    <3>4. BlockRank[l[2]] # BlockRank[k[2]]
      <4> SUFFICES ASSUME BlockRank[l[2]] = BlockRank[k[2]] PROVE FALSE
        BY Zenon
      <4>1. l[2] = k[2]
        BY <2>1, RankAssumption, Zenon DEF Keys
      <4> QED BY <2>1, <3>1, <4>1 DEF Keys
    <3> QED BY <2>2, <3>1, <3>3, <3>4 DEF Before
  <2> QED BY <2>2, <2>3, <2>4 DEF Before
<1>10. \E x \in V : \A l \in V \ {x} : Before(l, x)
  BY <1>8, <1>9, Zenon
<1> QED BY <1>10, Zenon DEF SavedRecord

\* Iteration order is total: of two records, one comes first.
LEMMA BeforeTotal ==
  ASSUME NEW k \in Keys, NEW l \in Keys, k # l, ~Before(k, l)
  PROVE  Before(l, k)
<1>1. /\ StakerRank[l[1]] \in Nat /\ StakerRank[k[1]] \in Nat
      /\ BlockRank[l[2]] \in Nat /\ BlockRank[k[2]] \in Nat
  BY RankAssumption, Zenon DEF Keys
<1>2. StakerRank[l[1]] = StakerRank[k[1]] => l[1] = k[1]
  BY RankAssumption, Zenon DEF Keys
<1>3. BlockRank[l[2]] = BlockRank[k[2]] => l[2] = k[2]
  BY RankAssumption, Zenon DEF Keys
<1>4. l[1] = k[1] => l[2] # k[2]
  BY DEF Keys
<1> QED BY <1>1, <1>2, <1>3, <1>4 DEF Before

\* A page is a prefix: what it leaves behind comes after everything it handles.
LEMMA PageIsPrefix ==
  ASSUME NEW n \in Nat, NEW k \in Visited(n), NEW l \in Remaining \ Visited(n)
  PROVE  Before(k, l)
<1> DEFINE stakers == {x[1] : x \in Remaining}
           below(x) == {s \in stakers : StakerRank[s] < StakerRank[x[1]]}
<1>1. Remaining \in SUBSET Keys /\ k \in Remaining
  BY Zenon DEF Remaining, Records, Visited
<1>2. stakers \in SUBSET Stakers
  BY <1>1, Zenon DEF Keys
<1>3. IsFiniteSet(below(k)) /\ IsFiniteSet(below(l))
  BY <1>2, StakersAssumption, FS_Subset, Zenon
<1>4. /\ Cardinality(below(k)) < n /\ ~(Cardinality(below(l)) < n)
      /\ Cardinality(below(k)) \in Nat /\ Cardinality(below(l)) \in Nat
  BY <1>3, FS_CardinalityType, Zenon DEF Visited
<1>5. ~(StakerRank[l[1]] <= StakerRank[k[1]])
  <2> SUFFICES ASSUME StakerRank[l[1]] <= StakerRank[k[1]] PROVE FALSE
    BY Zenon
  <2>1. \A s \in stakers : StakerRank[s] \in Nat
    BY <1>2, RankAssumption, Zenon
  <2>2. below(l) \in SUBSET below(k)
    BY <1>1, <2>1
  <2>3. Cardinality(below(l)) <= Cardinality(below(k))
    BY <1>3, <2>2, FS_Subset, Zenon
  <2> QED BY <1>4, <2>3
<1>6. StakerRank[l[1]] \in Nat /\ StakerRank[k[1]] \in Nat
  BY <1>1, RankAssumption, Zenon DEF Keys
<1> QED BY <1>5, <1>6 DEF Before

-----------------------------------------------------------------------------
(* Type correctness.                                                       *)

\* The storage defaults are well typed.
LEMMA TypeInit == Init => TypeOK
<1> SUFFICES ASSUME Init PROVE TypeOK
  BY Zenon
<1>1. <<>> \in Seq(Stakers \X Nat)
  OBVIOUS
<1>2. PendingUnstake \in [Blocks -> Seq(Stakers \X Nat)]
  BY <1>1, Zenon DEF Init
<1>3. Staked \in [Keys -> [amount : Nat, recalc : Nat]]
  BY Zenon DEF Init, NoStake
<1>4. StakesPerAccount \in [Stakers -> 0..StakeLimit] /\ relay \in Relays /\ block \in Blocks
  BY ParamAssumption DEF Init, Relays, Blocks
<1> QED BY <1>2, <1>3, <1>4, ParamAssumption, Zenon DEF Init, TypeOK

\* on_initialize keeps the types.
LEMMA TypeNewBlock == TypeOK /\ NewBlock => TypeOK'
<1> SUFFICES ASSUME TypeOK, NewBlock PROVE TypeOK'
  BY Zenon
<1>1. block' \in Blocks /\ relay' \in Relays
  BY ParamAssumption DEF NewBlock, TypeOK, Relays, Blocks
<1>2. ASSUME NEW b \in Blocks, NEW s \in Stakers PROVE Thaw(s, PendingAt(b, s)) \in Nat
  <2>1. PendingAt(b, s) \in Nat
    BY QueuedForType, Zenon DEF TypeOK, PendingAt
  <2> QED BY <2>1 DEF Thaw, TypeOK
<1>3. frozen' \in [Stakers -> Nat]
  BY <1>1, <1>2 DEF NewBlock, TypeOK
<1>4. PendingUnstake' \in [Blocks -> Seq(Stakers \X Nat)]
  <2>1. <<>> \in Seq(Stakers \X Nat)
    OBVIOUS
  <2> QED BY <2>1, Zenon DEF NewBlock, TypeOK
<1>5. skipped' \subseteq Blocks
  BY <1>1, Zenon DEF NewBlock, TypeOK
<1> QED BY <1>1, <1>3, <1>4, <1>5, Zenon DEF NewBlock, TypeOK, history

\* stake keeps the types; its limit check bounds the counter.
LEMMA TypeStake ==
  ASSUME TypeOK, NEW s \in Stakers, NEW a \in Amounts, Stake(s, a)
  PROVE  TypeOK'
<1>1. a \in Nat /\ relay \in Nat /\ <<s, relay>> \in Keys
  BY ParamAssumption DEF TypeOK, Relays, Keys
<1>2. FirstRecalcBlock(relay) \in Nat
  BY <1>1, RecalcBlocks, Zenon
<1>3. Staked' \in [Keys -> [amount : Nat, recalc : Nat]]
  <2>1. Staked[<<s, relay>>].amount + a \in Nat
    BY <1>1 DEF TypeOK
  <2> QED BY <1>2, <2>1, Zenon DEF Stake, TypeOK
<1>4. frozen' \in [Stakers -> Nat] /\ TotalStaked' \in Nat
  <2>1. /\ frozen' = [frozen EXCEPT ![s] = @ + a] /\ TotalStaked' = TotalStaked + a
        /\ frozen \in [Stakers -> Nat] /\ TotalStaked \in Nat
    BY Zenon DEF Stake, TypeOK
  <2> QED BY <1>1, <2>1
<1>5. StakesPerAccount' \in [Stakers -> 0..StakeLimit]
  BY ParamAssumption, SMTT(20) DEF Stake, TypeOK, UnderStakeLimit
<1> QED BY <1>3, <1>4, <1>5, Zenon DEF Stake, TypeOK, clock, history

\* Appending to a queue of pending unstakes keeps its type.
LEMMA QueueType ==
  ASSUME TypeOK, NEW s \in Stakers, NEW a \in Nat, CanQueue, Queue(s, a)
  PROVE  PendingUnstake' \in [Blocks -> Seq(Stakers \X Nat)]
<1>1. PendingUnstake[UnpendingBlock] \in Seq(Stakers \X Nat)
  BY Zenon DEF CanQueue, TypeOK
<1>2. Append(PendingUnstake[UnpendingBlock], <<s, a>>) \in Seq(Stakers \X Nat)
  BY <1>1
<1> QED BY <1>2, Zenon DEF Queue, CanQueue, TypeOK

\* unstake_all keeps the types.
LEMMA TypeUnstakeAll ==
  ASSUME TypeOK, NEW s \in Stakers, UnstakeAll(s)
  PROVE  TypeOK'
<1>1. StakedBy(s) \in Nat
  BY StakeSumType, Zenon DEF StakedBy
<1>2. PendingUnstake' \in [Blocks -> Seq(Stakers \X Nat)]
  BY <1>1, QueueType, Zenon DEF UnstakeAll
<1>3. TotalStaked' \in Nat
  BY <1>1 DEF UnstakeAll, TypeOK
<1>4. Staked' \in [Keys -> [amount : Nat, recalc : Nat]]
  BY Zenon DEF UnstakeAll, TypeOK, NoStake
<1>5. StakesPerAccount' \in [Stakers -> 0..StakeLimit]
  BY ParamAssumption DEF UnstakeAll, TypeOK
<1> QED BY <1>2, <1>3, <1>4, <1>5, Zenon DEF UnstakeAll, TypeOK, clock, history, accounts

\* unstake_partial deletes a finite number of records.
LEMMA DeletedFinite ==
  ASSUME NEW s \in Stakers, NEW a \in Nat
  PROVE  IsFiniteSet(Deleted(s, a)) /\ DeletedCount(s, a) \in Nat
<1>1. Deleted(s, a) \in SUBSET Keys
  BY Zenon DEF Deleted, RecordsOf, Records
<1> QED BY <1>1, FiniteDomains, FS_Subset, FS_CardinalityType, Zenon DEF DeletedCount

\* What unstake_partial still has to take when it reaches a record.
LEMMA LeftForType ==
  ASSUME TypeOK, NEW k \in Keys, NEW a \in Nat
  PROVE  LeftFor(k, a) \in Nat
<1>1. k[1] \in Stakers /\ {b \in Relays : b < k[2]} \in SUBSET Relays
  BY Zenon DEF Keys
<1>2. OlderThan(k) \in Nat
  BY <1>1, StakeSumType, Zenon DEF OlderThan
<1> QED BY <1>2 DEF LeftFor

\* unstake_partial keeps the types: no subtraction goes below zero.
LEMMA TypeUnstakePartial ==
  ASSUME TypeOK, NEW s \in Stakers, NEW a \in Amounts, UnstakePartial(s, a)
  PROVE  TypeOK'
<1>1. a \in Nat
  BY ParamAssumption, Zenon
<1>2. PendingUnstake' \in [Blocks -> Seq(Stakers \X Nat)]
  BY <1>1, QueueType, Zenon DEF UnstakePartial
<1>3. TotalStaked' \in Nat
  BY <1>1 DEF UnstakePartial, TypeOK
<1>4. StakesPerAccount' \in [Stakers -> 0..StakeLimit]
  <2>1. DeletedCount(s, a) \in Nat
    BY <1>1, DeletedFinite, Zenon
  <2>2. StakesPerAccount[s] - DeletedCount(s, a) \in 0..StakeLimit
    <3>1. StakesPerAccount[s] \in 0..StakeLimit
      BY Zenon DEF TypeOK
    <3>2. StakesPerAccount[s] >= DeletedCount(s, a)
      BY Zenon DEF UnstakePartial
    <3>3. StakeLimit \in Nat
      BY ParamAssumption, Zenon
    <3> QED BY <2>1, <3>1, <3>2, <3>3
  <2> QED BY <2>2, Zenon DEF UnstakePartial, TypeOK
<1>5. Staked' \in [Keys -> [amount : Nat, recalc : Nat]]
  <2>1. ASSUME NEW k \in RecordsOf(s) \ Deleted(s, a)
        PROVE  [Staked[k] EXCEPT !.amount = @ - LeftFor(k, a)] \in [amount : Nat, recalc : Nat]
    <3>1. k \in Keys
      BY Zenon DEF RecordsOf, Records
    <3>2. LeftFor(k, a) \in Nat /\ Staked[k] \in [amount : Nat, recalc : Nat]
      BY <1>1, <3>1, LeftForType, Zenon DEF TypeOK
    <3>3. LeftFor(k, a) < Staked[k].amount
      BY <3>2 DEF Deleted
    <3> QED BY <3>2, <3>3
  <2>2. ASSUME NEW k \in Keys PROVE Staked'[k] \in [amount : Nat, recalc : Nat]
    <3>1. NoStake \in [amount : Nat, recalc : Nat] /\ Staked[k] \in [amount : Nat, recalc : Nat]
      BY Zenon DEF TypeOK, NoStake
    <3>2. CASE k \in Deleted(s, a)
      BY <3>1, <3>2, Zenon DEF UnstakePartial
    <3>3. CASE k \in RecordsOf(s) \ Deleted(s, a)
      BY <2>1, <3>3, Zenon DEF UnstakePartial
    <3>4. CASE k \notin Deleted(s, a) /\ k \notin RecordsOf(s) \ Deleted(s, a)
      BY <3>1, <3>4, Zenon DEF UnstakePartial
    <3> QED BY <3>2, <3>3, <3>4, Zenon
  <2> QED BY <2>2, Zenon DEF UnstakePartial
<1> QED BY <1>2, <1>3, <1>4, <1>5, Zenon DEF UnstakePartial, TypeOK, clock, history, accounts

\* A page is a set of keys.
LEMMA VisitedKeys ==
  ASSUME NEW n
  PROVE  Visited(n) \in SUBSET Remaining /\ Remaining \in SUBSET Records /\ Records \in SUBSET Keys
BY Zenon DEF Visited, Remaining, Records

\* A page that does not finish the sweep handles at least one staker.
LEMMA PageNotEmpty ==
  ASSUME NEW n \in 1..MaxPayout, Visited(n) # Remaining
  PROVE  Visited(n) # {}
<1>1. Remaining # {} /\ Remaining \in SUBSET Keys
  BY VisitedKeys, Zenon
<1>2. PICK k \in Remaining : \A l \in Remaining : StakerRank[k[1]] <= StakerRank[l[1]]
  <2> DEFINE ranks == {StakerRank[l[1]] : l \in Remaining}
  <2>1. ranks \in SUBSET Nat /\ ranks # {}
    BY <1>1, RankAssumption DEF Keys
  <2>2. PICK m \in ranks : \A x \in ranks : m <= x
    BY <2>1, LeastNatural, Zenon
  <2> QED BY <2>2, Zenon
<1>3. {s \in {l[1] : l \in Remaining} : StakerRank[s] < StakerRank[k[1]]} = {}
  <2>1. \A l \in Remaining : ~(StakerRank[l[1]] < StakerRank[k[1]])
    BY <1>1, <1>2, RankAssumption DEF Keys
  <2> QED BY <2>1, Zenon
<1>4. Cardinality({s \in {l[1] : l \in Remaining} : StakerRank[s] < StakerRank[k[1]]}) < n
  <2>1. Cardinality({}) = 0 /\ 0 < n
    BY FS_EmptySet, ParamAssumption
  <2> QED BY <1>3, <2>1, Zenon
<1>5. k \in Visited(n)
  BY <1>4, Zenon DEF Visited
<1> QED BY <1>5, Zenon

\* payout_stakers keeps the types.
LEMMA TypePayout ==
  ASSUME TypeOK, NEW n \in 1..MaxPayout, PayoutStakers(n)
  PROVE  TypeOK'
<1> DEFINE V == Visited(n)
<1>1. V \in SUBSET Keys
  BY VisitedKeys, Zenon
<1>2. relay \in Nat /\ CurrentRecalcBlock(relay) \in Nat /\ Interval \in Nat
  <2>1. relay \in Nat /\ Interval \in Nat
    BY ParamAssumption DEF TypeOK, Relays
  <2> QED BY <2>1, RecalcBlocks, Zenon
<1>3. \A k \in V : IncomeOf(k) \in Nat
  BY <1>1, IncomeType, Zenon
<1>4. IncomeIn(V) \in Nat
  BY <1>1, IncomeType, Zenon
<1>5. \A s \in Stakers : PaidTo(V, s) \in Nat
  BY <1>1, IncomeType, Zenon DEF PaidTo
<1> HIDE DEF V
<1>6. treasury' \in Nat /\ TotalStaked' \in Nat
  BY <1>4 DEF PayoutStakers, TypeOK, TotalAfterPayout, V
<1>7. free' \in [Stakers -> Nat] /\ frozen' \in [Stakers -> Nat]
  <2>1. /\ free' = [s \in Stakers |-> free[s] + PaidTo(V, s)]
        /\ frozen' = [s \in Stakers |-> frozen[s] + PaidTo(V, s)]
    BY Zenon DEF PayoutStakers, V
  <2>2. \A s \in Stakers : free[s] \in Nat /\ frozen[s] \in Nat
    BY Zenon DEF TypeOK
  <2> QED BY <1>5, <2>1, <2>2, SMTT(20)
<1>8. Staked' \in [Keys -> [amount : Nat, recalc : Nat]]
  <2>1. Staked' = [k \in Keys |-> IF k \in V /\ Due(k)
                                THEN [amount |-> Staked[k].amount + IncomeOf(k),
                                      recalc |-> CurrentRecalcBlock(relay) + Interval]
                                ELSE Staked[k]]
    BY Zenon DEF PayoutStakers, V
  <2>2. \A k \in Keys : Staked[k] \in [amount : Nat, recalc : Nat]
    BY Zenon DEF TypeOK
  <2>3. CurrentRecalcBlock(relay) + Interval \in Nat
    BY <1>2
  <2> QED BY <1>3, <2>1, <2>2, <2>3, SMTT(20)
<1>9. PreviousCalculatedRecord' \in Keys \cup {NoRecord}
  <2>1. CASE V = Remaining
    BY <2>1, Zenon DEF PayoutStakers, V
  <2>2. CASE V # Remaining
    <3>1. V # {}
      BY <2>2, PageNotEmpty, Zenon DEF V
    <3>2. SavedRecord(V) \in V
      BY <1>1, <3>1, SavedRecordIsLast, Zenon DEF V
    <3> QED BY <1>1, <2>2, <3>2, Zenon DEF PayoutStakers, V
  <2> QED BY <2>1, <2>2, Zenon
<1>10. sweepFrom' \in Nat /\ sweptTo' \in Nat
  BY <1>2, Zenon DEF PayoutStakers, TypeOK
<1> QED BY <1>6, <1>7, <1>8, <1>9, <1>10, Zenon DEF PayoutStakers, TypeOK, clock

\* resolve_skipped_blocks keeps the types.
LEMMA TypeResolve ==
  ASSUME TypeOK, NEW b \in Blocks, ResolveSkippedBlock(b)
  PROVE  TypeOK'
<1>1. \A s \in Stakers : PendingAt(b, s) \in Nat
  BY QueuedForType, Zenon DEF TypeOK, PendingAt
<1>2. frozen' \in [Stakers -> Nat]
  <2>1. \A s \in Stakers : Thaw(s, PendingAt(b, s)) \in Nat
    BY <1>1 DEF Thaw, TypeOK
  <2> QED BY <2>1, Zenon DEF ResolveSkippedBlock
<1>3. PendingUnstake' \in [Blocks -> Seq(Stakers \X Nat)]
  <2>1. <<>> \in Seq(Stakers \X Nat)
    OBVIOUS
  <2> QED BY <2>1, Zenon DEF ResolveSkippedBlock, TypeOK
<1> QED BY <1>2, <1>3, Zenon DEF ResolveSkippedBlock, TypeOK, clock, history

\* The rest of the chain keeps the types.
LEMMA TypeEnvironment == TypeOK /\ Environment => TypeOK'
<1> SUFFICES ASSUME TypeOK, Environment PROVE TypeOK'
  BY Zenon
<1>1. CASE SetAdminAddress
  BY <1>1, Zenon DEF SetAdminAddress, TypeOK, clock, accounts, history
<1>2. CASE \E on \in BOOLEAN : SetMaintenance(on)
  BY <1>2, Zenon DEF SetMaintenance, TypeOK, accounts, history
<1>3. ASSUME NEW s \in Stakers, Release(s) PROVE TypeOK'
  BY <1>3 DEF Release, TypeOK, clock, history
<1>4. ASSUME NEW s \in Stakers, NEW a \in OtherAmounts, Spend(s, a) PROVE TypeOK'
  BY <1>4, ParamAssumption, SMTT(60) DEF Spend, TypeOK, clock, history
<1>5. ASSUME NEW s \in Stakers, NEW a \in OtherAmounts, Hold(s, a) PROVE TypeOK'
  BY <1>5, ParamAssumption DEF Hold, TypeOK, clock, history
<1> QED BY <1>1, <1>2, <1>3, <1>4, <1>5, Zenon DEF Environment

\* A step of any kind keeps the types.
LEMMA TypeNext == TypeOK /\ [Next]_vars => TypeOK'
<1> SUFFICES ASSUME TypeOK, [Next]_vars PROVE TypeOK'
  BY Zenon
<1>1. CASE UNCHANGED vars
  BY <1>1, Zenon DEF vars, TypeOK
<1>2. CASE NewBlock
  BY <1>2, TypeNewBlock, Zenon
<1>3. CASE Environment
  BY <1>3, TypeEnvironment, Zenon
<1>4. CASE Call
  BY <1>4, TypeStake, TypeUnstakeAll, TypeUnstakePartial, TypePayout, TypeResolve, Zenon DEF Call
<1> QED BY <1>1, <1>2, <1>3, <1>4, Zenon DEF Next

\* The state of the pallet and of the balances it touches is well typed in every
\* reachable state: no amount goes below zero, the stake counter stays within its
\* limit, and the saved record is a key of the map.
THEOREM TypeCorrect == Spec => []TypeOK
<1>1. Init => TypeOK
  BY TypeInit, Zenon
<1>2. TypeOK /\ [Next]_vars => TypeOK'
  BY TypeNext, Zenon
<1> QED BY <1>1, <1>2, PTL DEF Spec

-----------------------------------------------------------------------------
(* Paging of payout_stakers.  SweepComplete alone is not inductive: a new  *)
(* stake, and a record that a page finds not yet due, must fall behind     *)
(* both sweep marks, which holds because the marks are never ahead of the  *)
(* current recalculation block.                                            *)

SweepInv ==
  /\ SweepComplete
  /\ sweepFrom <= CurrentRecalcBlock(relay) /\ sweptTo <= CurrentRecalcBlock(relay)

\* Nothing is staked at the start.
LEMMA SweepInit == Init => SweepInv
<1> SUFFICES ASSUME Init PROVE SweepInv
  BY Zenon
<1>1. CurrentRecalcBlock(0) \in Nat
  BY RecalcBlocks, Zenon
<1> QED BY <1>1 DEF Init, SweepInv, SweepComplete, Records, NoStake

\* A step that takes records away, or leaves them, and keeps the recalculation
\* blocks of the others cannot disturb the sweep.
LEMMA SweepShrink ==
  ASSUME TypeOK, TypeOK', SweepInv, relay <= relay',
         UNCHANGED <<PreviousCalculatedRecord, sweepFrom, sweptTo>>,
         \A k \in Records' : k \in Records /\ Staked'[k].recalc = Staked[k].recalc
  PROVE  SweepInv'
<1>1. sweepFrom' <= CurrentRecalcBlock(relay') /\ sweptTo' <= CurrentRecalcBlock(relay')
  <2>1. relay \in Nat /\ relay' \in Nat /\ sweepFrom \in Nat /\ sweptTo \in Nat
    BY ParamAssumption DEF TypeOK, Relays
  <2>2. CurrentRecalcBlock(relay) \in Nat /\ CurrentRecalcBlock(relay') \in Nat
        /\ CurrentRecalcBlock(relay) <= CurrentRecalcBlock(relay')
    BY <2>1, RecalcBlocks, RecalcMonotone, Zenon
  <2> QED BY <2>1, <2>2 DEF SweepInv
<1>2. SweepComplete'
  <2>1. \A k \in Records' : Staked'[k].recalc > sweptTo'
    BY Zenon DEF SweepInv, SweepComplete
  <2>2. ASSUME PreviousCalculatedRecord' # NoRecord, NEW k \in Records',
               ~Before(PreviousCalculatedRecord', k)
        PROVE  Staked'[k].recalc > sweepFrom'
    BY <2>2, Zenon DEF SweepInv, SweepComplete
  <2> QED BY <2>1, <2>2, Zenon DEF SweepComplete, Before
<1> QED BY <1>1, <1>2, Zenon DEF SweepInv, CurrentRecalcBlock

\* A new stake is first due after the current relay block, hence after both marks.
LEMMA SweepStake ==
  ASSUME TypeOK, TypeOK', SweepInv, NEW s \in Stakers, NEW a \in Amounts, Stake(s, a)
  PROVE  SweepInv'
<1>1. relay \in Nat /\ sweepFrom \in Nat /\ sweptTo \in Nat /\ relay' = relay
      /\ UNCHANGED <<PreviousCalculatedRecord, sweepFrom, sweptTo>>
  BY ParamAssumption DEF TypeOK, Relays, Stake, clock, history
<1>2. /\ FirstRecalcBlock(relay) \in Nat /\ FirstRecalcBlock(relay) > relay
      /\ CurrentRecalcBlock(relay) \in Nat /\ CurrentRecalcBlock(relay) <= relay
  BY <1>1, RecalcBlocks, Zenon
<1>3. FirstRecalcBlock(relay) > sweepFrom /\ FirstRecalcBlock(relay) > sweptTo
  BY <1>1, <1>2 DEF SweepInv
<1>4. ASSUME NEW k \in Records'
      PROVE  \/ Staked'[k].recalc = FirstRecalcBlock(relay)
             \/ k \in Records /\ Staked'[k].recalc = Staked[k].recalc
  <2>1. k \in Keys /\ <<s, relay>> \in Keys
    BY Zenon DEF Records, TypeOK, Keys
  <2>2. CASE k = <<s, relay>>
    BY <2>1, <2>2, Zenon DEF Stake, TypeOK
  <2>3. CASE k # <<s, relay>>
    <3>1. Staked'[k] = Staked[k]
      BY <2>1, <2>3, Zenon DEF Stake, TypeOK
    <3> QED BY <3>1, Zenon DEF Records
  <2> QED BY <2>2, <2>3, Zenon
<1>5. SweepComplete'
  <2>1. \A k \in Records' : Staked'[k].recalc > sweptTo'
    BY <1>1, <1>3, <1>4, Zenon DEF SweepInv, SweepComplete
  <2>2. ASSUME PreviousCalculatedRecord' # NoRecord, NEW k \in Records',
               ~Before(PreviousCalculatedRecord', k)
        PROVE  Staked'[k].recalc > sweepFrom'
    BY <1>1, <1>3, <1>4, <2>2, Zenon DEF SweepInv, SweepComplete
  <2> QED BY <2>1, <2>2, Zenon DEF SweepComplete, Before
<1> QED BY <1>1, <1>5, SMTT(20) DEF SweepInv, CurrentRecalcBlock

\* A page pays or passes over every record up to the one it saves; the last page of a
\* sweep leaves none behind.
LEMMA SweepPayout ==
  ASSUME TypeOK, TypeOK', SweepInv, NEW n \in 1..MaxPayout, PayoutStakers(n)
  PROVE  SweepInv'
<1> DEFINE V == Visited(n)
           cur == CurrentRecalcBlock(relay)
           began == IF PreviousCalculatedRecord = NoRecord THEN cur ELSE sweepFrom
<1>1. V \in SUBSET Remaining /\ Remaining \in SUBSET Records /\ Records \in SUBSET Keys
  BY VisitedKeys, SMTT(20)
<1>2. /\ relay \in Nat /\ relay' = relay /\ cur \in Nat /\ Interval \in Nat \ {0}
      /\ sweepFrom \in Nat /\ sweptTo \in Nat
  <2>1. relay \in Nat /\ Interval \in Nat \ {0} /\ sweepFrom \in Nat /\ sweptTo \in Nat
    BY ParamAssumption DEF TypeOK, Relays
  <2> QED BY <2>1, RecalcBlocks, Zenon DEF PayoutStakers, clock
<1>3. began \in Nat /\ began <= cur /\ sweptTo <= cur
  BY <1>2, SMTT(20) DEF SweepInv
<1>4. /\ sweepFrom' = began
      /\ sweptTo' = IF V = Remaining THEN began ELSE sweptTo
      /\ PreviousCalculatedRecord' = IF V = Remaining THEN NoRecord ELSE SavedRecord(V)
      /\ Staked' = [k \in Keys |-> IF k \in V /\ Due(k)
                                THEN [amount |-> Staked[k].amount + IncomeOf(k),
                                      recalc |-> cur + Interval]
                                ELSE Staked[k]]
  BY Zenon DEF PayoutStakers
<1> HIDE DEF V, cur, began
<1>5. ASSUME NEW k \in Records' PROVE k \in Records /\ Staked'[k].recalc \in Nat
  <2>1. k \in Keys /\ Staked'[k] # NoStake
    BY Zenon DEF Records, NoStake
  <2>2. k \in V \/ Staked'[k] = Staked[k]
    BY <1>4, <2>1, Zenon
  <2>3. k \in Records
    BY <1>1, <2>1, <2>2, Zenon DEF Records
  <2> QED BY <2>1, <2>3, Zenon DEF TypeOK
<1>6. ASSUME NEW k \in Records', k \in V PROVE Staked'[k].recalc > cur
  <2>1. k \in Keys /\ Staked[k].recalc \in Nat
    BY <1>1, <1>6, Zenon DEF TypeOK
  <2>2. CASE Due(k)
    BY <1>2, <1>4, <1>6, <2>1, <2>2
  <2>3. CASE ~Due(k)
    BY <1>2, <1>4, <2>1, <2>3 DEF Due, cur
  <2> QED BY <2>2, <2>3, Zenon
<1>7. ASSUME NEW k \in Records', k \notin V PROVE Staked'[k] = Staked[k] /\ k \in Keys
  BY <1>1, <1>4, <1>5, <1>7, Zenon
<1>8. ASSUME NEW k \in Records', k \notin Remaining PROVE Staked'[k].recalc > began
  <2>1. k \notin V /\ Staked'[k] = Staked[k] /\ k \in Records
    BY <1>1, <1>5, <1>7, <1>8, Zenon
  <2>2. PreviousCalculatedRecord # NoRecord /\ ~Before(PreviousCalculatedRecord, k)
    BY <1>8, <2>1, Zenon DEF Remaining
  <2> QED BY <2>1, <2>2, Zenon DEF SweepInv, SweepComplete, began
<1>9. \A k \in Records' : Staked'[k].recalc > sweptTo'
  <2> SUFFICES ASSUME NEW k \in Records' PROVE Staked'[k].recalc > sweptTo'
    BY Zenon
  <2>1. CASE V = Remaining
    BY <1>2, <1>3, <1>4, <1>5, <1>6, <1>8, <2>1, SMTT(20)
  <2>2. CASE V # Remaining /\ k \in V
    BY <1>2, <1>3, <1>4, <1>5, <1>6, <2>2, SMTT(20)
  <2>3. CASE V # Remaining /\ k \notin V
    <3>1. Staked'[k] = Staked[k] /\ k \in Records
      BY <1>5, <1>7, <2>3, Zenon
    <3> QED BY <1>4, <2>3, <3>1, Zenon DEF SweepInv, SweepComplete
  <2> QED BY <2>1, <2>2, <2>3, Zenon
<1>10. ASSUME PreviousCalculatedRecord' # NoRecord, NEW k \in Records',
              ~Before(PreviousCalculatedRecord', k)
       PROVE  Staked'[k].recalc > sweepFrom'
  <2>1. V # Remaining /\ PreviousCalculatedRecord' = SavedRecord(V)
    BY <1>4, <1>10, SMTT(20)
  <2>2. CASE k \in V
    BY <1>2, <1>3, <1>4, <1>5, <1>6, <2>2
  <2>3. CASE k \in Remaining \ V
    <3>1. PICK v \in V : TRUE
      <4>1. V # {}
        BY <1>1, <2>1, PageNotEmpty, Zenon DEF V
      <4> QED BY <4>1, Zenon
    <3>2. SavedRecord(V) \in V
      BY <1>1, <3>1, SavedRecordIsLast, Zenon
    <3>3. Before(SavedRecord(V), k)
      BY <2>3, <3>2, PageIsPrefix, SMTT(20) DEF V
    <3> QED BY <1>10, <2>1, <3>3, Zenon
  <2>4. CASE k \notin Remaining
    BY <1>4, <1>8, <2>4, Zenon
  <2> QED BY <2>2, <2>3, <2>4, Zenon
<1>11. SweepComplete'
  BY <1>9, <1>10, SMTT(20) DEF SweepComplete, Before
<1>12. sweepFrom' <= cur /\ sweptTo' <= cur
  BY <1>3, <1>4, Zenon
<1> QED BY <1>2, <1>11, <1>12, Zenon DEF SweepInv, cur, CurrentRecalcBlock

\* Every step keeps the sweep invariant.
LEMMA SweepNext == TypeOK /\ TypeOK' /\ SweepInv /\ [Next]_vars => SweepInv'
<1> SUFFICES ASSUME TypeOK, TypeOK', SweepInv, [Next]_vars PROVE SweepInv'
  BY Zenon
<1>0. relay \in Nat /\ relay' \in Nat
  BY ParamAssumption DEF TypeOK, Relays
<1>1. ASSUME UNCHANGED <<Staked, PreviousCalculatedRecord, sweepFrom, sweptTo>>, relay <= relay'
      PROVE  SweepInv'
  <2>1. \A k \in Records' : k \in Records /\ Staked'[k].recalc = Staked[k].recalc
    BY <1>1, Zenon DEF Records, NoStake
  <2> QED BY <1>1, <2>1, SweepShrink, Zenon
<1>2. CASE UNCHANGED vars
  BY <1>0, <1>1, <1>2 DEF vars
<1>3. CASE NewBlock
  <2>1. relay <= relay'
    BY <1>0, <1>3, ParamAssumption, SMTT(20) DEF NewBlock
  <2> QED BY <1>1, <1>3, <2>1, Zenon DEF NewBlock, history
<1>4. CASE Environment
  BY <1>0, <1>1, <1>4 DEF Environment, SetAdminAddress, SetMaintenance, Spend, Hold, Release,
       clock, history
<1>5. ASSUME NEW b \in Blocks, ResolveSkippedBlock(b) PROVE SweepInv'
  BY <1>0, <1>1, <1>5, SMTT(20) DEF ResolveSkippedBlock, clock, history
<1>6. ASSUME NEW s \in Stakers, UnstakeAll(s) PROVE SweepInv'
  <2>1. \A k \in Records' : k \in Records /\ Staked'[k].recalc = Staked[k].recalc
    BY <1>6, Zenon DEF UnstakeAll, Records, NoStake
  <2>2. UNCHANGED <<relay, PreviousCalculatedRecord, sweepFrom, sweptTo>>
    BY <1>6, Zenon DEF UnstakeAll, clock, history
  <2>3. relay <= relay'
    BY <1>0, <2>2
  <2> QED BY <2>1, <2>2, <2>3, SweepShrink, SMTT(20)
<1>7. ASSUME NEW s \in Stakers, NEW a \in Amounts, UnstakePartial(s, a) PROVE SweepInv'
  <2>1. ASSUME NEW k \in Records' PROVE k \in Records /\ Staked'[k].recalc = Staked[k].recalc
    <3>1. k \in Keys /\ Staked'[k] # NoStake
      BY Zenon DEF Records, NoStake
    <3>2. Staked' = [l \in Keys |->
                      CASE l \in Deleted(s, a) -> NoStake
                        [] l \in RecordsOf(s) \ Deleted(s, a) ->
                             [Staked[l] EXCEPT !.amount = @ - LeftFor(l, a)]
                        [] OTHER -> Staked[l]]
      BY <1>7, Zenon DEF UnstakePartial
    <3>3. k \notin Deleted(s, a)
      BY <3>1, <3>2, Zenon
    <3>4. CASE k \in RecordsOf(s)
      <4>1. Staked'[k] = [Staked[k] EXCEPT !.amount = @ - LeftFor(k, a)]
        BY <3>1, <3>2, <3>3, <3>4, Zenon
      <4>2. Staked[k] \in [amount : Nat, recalc : Nat]
        BY <3>1, Zenon DEF TypeOK
      <4> QED BY <3>4, <4>1, <4>2, Zenon DEF RecordsOf
    <3>5. CASE k \notin RecordsOf(s)
      <4>1. Staked'[k] = Staked[k]
        BY <3>1, <3>2, <3>3, <3>5, Zenon
      <4> QED BY <3>1, <4>1, Zenon DEF Records
    <3> QED BY <3>4, <3>5, Zenon
  <2>2. UNCHANGED <<relay, PreviousCalculatedRecord, sweepFrom, sweptTo>>
    BY <1>7, Zenon DEF UnstakePartial, clock, history
  <2>3. relay <= relay'
    BY <1>0, <2>2
  <2> QED BY <2>1, <2>2, <2>3, SweepShrink, Zenon
<1>8. CASE Call
  BY <1>5, <1>6, <1>7, <1>8, SweepStake, SweepPayout, Zenon DEF Call
<1> QED BY <1>2, <1>3, <1>4, <1>8, Zenon DEF Next

\* Paging of payout_stakers is complete: whatever is staked, unstaked and paid between
\* two pages, a finished sweep has paid every record up to the block at which the
\* sweep began, and the records up to the saved one are paid already.
THEOREM SweepCorrect == Spec => []SweepComplete
<1>1. Init => TypeOK /\ SweepInv
  BY TypeInit, SweepInit, Zenon
<1>2. TypeOK /\ SweepInv /\ [Next]_vars => TypeOK' /\ SweepInv'
  BY TypeNext, SweepNext, Zenon
<1>3. SweepInv => SweepComplete
  BY Zenon DEF SweepInv
<1> QED BY <1>1, <1>2, <1>3, PTL DEF Spec

-----------------------------------------------------------------------------
\* No call queues for a block that has begun, and the hook empties the queue of each
\* block it runs for.
LEMMA PendNext == TypeOK /\ OnlySkippedBlocksPend /\ [Next]_vars => OnlySkippedBlocksPend'
<1> SUFFICES ASSUME TypeOK, OnlySkippedBlocksPend, [Next]_vars PROVE OnlySkippedBlocksPend'
  BY Zenon
<1>0. block \in Nat /\ Blocks \subseteq Nat /\ PendingInterval \in Nat \ {0}
      /\ PendingUnstake \in [Blocks -> Seq(Stakers \X Nat)]
  BY ParamAssumption DEF TypeOK, Blocks
<1>1. ASSUME UNCHANGED <<PendingUnstake, block, skipped>> PROVE OnlySkippedBlocksPend'
  BY <1>1, Zenon DEF OnlySkippedBlocksPend
<1>2. CASE UNCHANGED vars
  BY <1>1, <1>2, Zenon DEF vars
<1>3. CASE NewBlock
  BY <1>0, <1>3, SMTT(20) DEF NewBlock, OnlySkippedBlocksPend
<1>4. CASE Environment
  BY <1>1, <1>4, Zenon DEF Environment, SetAdminAddress, SetMaintenance, Spend, Hold, Release, clock
<1>5. ASSUME NEW s \in Stakers, NEW a \in Nat, Queue(s, a), UNCHANGED <<block, skipped>>
      PROVE  OnlySkippedBlocksPend'
  <2>1. \A b \in Blocks : b <= block => PendingUnstake'[b] = PendingUnstake[b]
    BY <1>0, <1>5 DEF Queue, UnpendingBlock
  <2> QED BY <1>5, <2>1, Zenon DEF OnlySkippedBlocksPend
<1>6. ASSUME NEW b \in Blocks, ResolveSkippedBlock(b) PROVE OnlySkippedBlocksPend'
  BY <1>0, <1>6, Zenon DEF ResolveSkippedBlock, OnlySkippedBlocksPend, clock
<1>7. ASSUME NEW s \in Stakers, UnstakeAll(s) PROVE OnlySkippedBlocksPend'
  <2>1. StakedBy(s) \in Nat
    BY StakeSumType, Zenon DEF StakedBy
  <2>2. Queue(s, StakedBy(s)) /\ UNCHANGED <<block, skipped>>
    BY <1>7, Zenon DEF UnstakeAll, clock
  <2> QED BY <1>5, <2>1, <2>2, Zenon
<1>8. ASSUME NEW s \in Stakers, NEW a \in Amounts, UnstakePartial(s, a)
      PROVE  OnlySkippedBlocksPend'
  BY <1>5, <1>8, ParamAssumption, Zenon DEF UnstakePartial, clock
<1>9. ASSUME NEW s \in Stakers, NEW a \in Amounts, Stake(s, a) PROVE OnlySkippedBlocksPend'
  BY <1>1, <1>9, SMTT(20) DEF Stake, clock
<1>10. ASSUME NEW n \in 1..MaxPayout, PayoutStakers(n) PROVE OnlySkippedBlocksPend'
  BY <1>1, <1>10, Zenon DEF PayoutStakers, clock
<1>11. CASE Call
  BY <1>6, <1>7, <1>8, <1>9, <1>10, <1>11, Zenon DEF Call
<1> QED BY <1>2, <1>3, <1>4, <1>11, Zenon DEF Next

\* An unstake left behind in the queue of a past block is there only because the block
\* was initialised in maintenance mode, so resolve_skipped_blocks is the only
\* repair the pallet needs.
THEOREM PendCorrect == Spec => []OnlySkippedBlocksPend
<1>1. Init => TypeOK /\ OnlySkippedBlocksPend
  BY TypeInit, Zenon DEF Init, OnlySkippedBlocksPend
<1>2. TypeOK /\ OnlySkippedBlocksPend /\ [Next]_vars => TypeOK' /\ OnlySkippedBlocksPend'
  BY TypeNext, PendNext, Zenon
<1> QED BY <1>1, <1>2, PTL DEF Spec

-----------------------------------------------------------------------------
(* The queue of unstakes, as its keys show it.                             *)

PendingKeys == {b \in Blocks : PendingUnstake[b] # <<>>}
KeyQueue == [block |-> block, maintenance |-> maintenance, pending |-> PendingKeys]

\* Steps that leave PendingUnstake and the clock alone are invisible.
LEMMA QueueKept ==
  ASSUME UNCHANGED <<block, maintenance, PendingUnstake>>
  PROVE  KeyQueue' = KeyQueue
BY Zenon DEF KeyQueue, PendingKeys

\* on_initialize empties the queue of the block that begins, unless under maintenance.
LEMMA QueueNewBlock ==
  ASSUME TypeOK, NewBlock
  PROVE  KeyQueue' = UQ!Initialized(KeyQueue)
<1>1. PendingUnstake \in [Blocks -> Seq(Stakers \X Nat)] /\ block \in Nat /\ block' = block + 1
      /\ maintenance' = maintenance
  BY DEF TypeOK, NewBlock, Blocks
<1>2. CASE maintenance
  <2>1. PendingUnstake' = PendingUnstake
    BY <1>2, Zenon DEF NewBlock
  <2>2. PendingKeys' = PendingKeys
    BY <2>1, Zenon DEF PendingKeys
  <2> QED BY <1>1, <1>2, <2>2, Zenon DEF KeyQueue, UQ!Initialized, UQ!Queue
<1>3. CASE ~maintenance
  <2>1. PendingUnstake' = [PendingUnstake EXCEPT ![block + 1] = <<>>]
    BY <1>3, Zenon DEF NewBlock
  <2>2. PendingKeys' = PendingKeys \ {block + 1}
    BY <1>1, <2>1, Zenon DEF PendingKeys
  <2> QED BY <1>1, <1>3, <2>2, Zenon DEF KeyQueue, UQ!Initialized, UQ!Queue
<1> QED BY <1>2, <1>3, Zenon

\* Both unstaking calls make the key of the block PendingInterval ahead appear.
LEMMA QueueUnstaked ==
  ASSUME TypeOK, ~maintenance, CanQueue, NEW s \in Stakers, NEW amount \in Nat,
         Queue(s, amount), UNCHANGED <<block, maintenance>>
  PROVE  UQ!Unstake
<1>1. PendingUnstake \in [Blocks -> Seq(Stakers \X Nat)]
  BY Zenon DEF TypeOK
<1>2. UnpendingBlock \in Blocks /\ UnpendingBlock = block + PendingInterval
  BY Zenon DEF CanQueue, UnpendingBlock
<1>3. PendingUnstake'[UnpendingBlock] # <<>>
      /\ \A b \in Blocks \ {UnpendingBlock} : PendingUnstake'[b] = PendingUnstake[b]
  <2>1. PendingUnstake[UnpendingBlock] \in Seq(Stakers \X Nat) /\ <<s, amount>> \in Stakers \X Nat
    BY <1>1, <1>2, Zenon
  <2>2. Len(Append(PendingUnstake[UnpendingBlock], <<s, amount>>)) # 0
    BY <2>1
  <2> QED BY <1>1, <1>2, <2>2 DEF Queue
<1>4. PendingKeys' = PendingKeys \cup {block + PendingInterval}
  BY <1>2, <1>3, Zenon DEF PendingKeys
<1>5. KeyQueue' = UQ!Unstaked(KeyQueue)
  BY <1>4, Zenon DEF KeyQueue, UQ!Unstaked, UQ!Queue
<1> QED BY <1>5, Zenon DEF UQ!Unstake, KeyQueue, PendingKeys

\* resolve_skipped_blocks removes past keys only.
LEMMA QueueResolved ==
  ASSUME TypeOK, NEW b \in Blocks, ResolveSkippedBlock(b)
  PROVE  UQ!Resolve
<1>1. PendingUnstake \in [Blocks -> Seq(Stakers \X Nat)]
  BY Zenon DEF TypeOK
<1>2. PendingUnstake' = [PendingUnstake EXCEPT ![b] = <<>>] /\ UNCHANGED <<block, maintenance>>
  BY Zenon DEF ResolveSkippedBlock, clock
<1>3. PendingKeys' = PendingKeys \ {b} /\ b \in PendingKeys
  BY <1>1, <1>2, Zenon DEF PendingKeys, ResolveSkippedBlock
<1>4. KeyQueue' = UQ!Resolved(KeyQueue, {b})
  BY <1>2, <1>3, Zenon DEF KeyQueue, UQ!Resolved, UQ!Queue
<1>5. ~maintenance /\ UQ!MayResolve(KeyQueue, {b}) /\ {b} \in SUBSET KeyQueue.pending
  BY <1>3, Zenon DEF ResolveSkippedBlock, UQ!MayResolve, KeyQueue
<1> QED BY <1>4, <1>5, Zenon DEF UQ!Resolve, KeyQueue, PendingKeys

\* Every step of the pallet is a step of the queue or invisible in it.
LEMMA QueueNext == TypeOK /\ [Next]_vars => UQ!Next \/ KeyQueue' = KeyQueue
<1> SUFFICES ASSUME TypeOK, [Next]_vars PROVE UQ!Next \/ KeyQueue' = KeyQueue
  BY Zenon
<1>1. CASE NewBlock
  BY <1>1, QueueNewBlock, Zenon DEF UQ!Next, KeyQueue, PendingKeys
<1>2. ASSUME NEW n \in 1..MaxPayout, PayoutStakers(n) PROVE KeyQueue' = KeyQueue
  BY <1>2, QueueKept, Zenon DEF PayoutStakers, clock
<1>3. ASSUME NEW b \in Blocks, ResolveSkippedBlock(b) PROVE UQ!Next
  BY <1>3, QueueResolved, Zenon DEF UQ!Next
<1>4. ASSUME NEW s \in Stakers, UnstakeAll(s) PROVE UQ!Next
  <2>1. StakedBy(s) \in Nat
    BY StakeSumType, Zenon DEF StakedBy
  <2>2. UQ!Unstake
    BY <1>4, <2>1, QueueUnstaked, Zenon DEF UnstakeAll, clock
  <2> QED BY <2>2, Zenon DEF UQ!Next
<1>5. ASSUME NEW s \in Stakers, NEW a \in Amounts, UnstakePartial(s, a) PROVE UQ!Next
  <2>1. a \in Nat
    BY ParamAssumption, Zenon
  <2>2. UQ!Unstake
    BY <1>5, <2>1, QueueUnstaked, Zenon DEF UnstakePartial, clock
  <2> QED BY <2>2, Zenon DEF UQ!Next
<1>6. ASSUME NEW s \in Stakers, NEW a \in Amounts, Stake(s, a) PROVE KeyQueue' = KeyQueue
  BY <1>6, QueueKept, Zenon DEF Stake, clock
<1>7. ASSUME NEW on \in BOOLEAN, SetMaintenance(on) PROVE UQ!Next
  <2>1. maintenance' = on /\ UNCHANGED <<block, PendingUnstake>>
    BY <1>7, Zenon DEF SetMaintenance
  <2> QED BY <1>7, <2>1, Zenon DEF UQ!Next, UQ!Switch, UQ!Queue
<1>8. CASE SetAdminAddress
  BY <1>8, QueueKept, Zenon DEF SetAdminAddress, clock
<1>9. ASSUME NEW s \in Stakers,
             Release(s) \/ \E a \in OtherAmounts : Spend(s, a) \/ Hold(s, a)
      PROVE  KeyQueue' = KeyQueue
  BY <1>9, QueueKept, Zenon DEF Release, Spend, Hold, clock
<1>10. CASE UNCHANGED vars
  BY <1>10, QueueKept, Zenon DEF vars
<1> QED BY <1>1, <1>2, <1>3, <1>4, <1>5, <1>6, <1>7, <1>8, <1>9, <1>10, Zenon DEF Next, Call, Environment

\* The staking pallet implements the queue of unstakes that the repair script relies on:
\* its steps, seen through the queue's keys, are steps of UnstakeQueue.
THEOREM QueueImplemented == Spec => ImplementsUnstakeQueue
<1>1. Init => UQ!Init
  BY Zenon DEF Init, UQ!Init, UQ!Queue
<1>2. TypeOK /\ [Next]_vars => UQ!Next \/ KeyQueue' = KeyQueue
  BY QueueNext, Zenon
<1>3. TypeOK /\ [Next]_vars => [UQ!Next]_KeyQueue
  BY <1>2, Zenon
<1> QED BY <1>1, <1>3, TypeCorrect, PTL DEF Spec, ImplementsUnstakeQueue, UQ!Spec, KeyQueue, PendingKeys
-----------------------------------------------------------------------------
(* The ledger: what the four calls that write amounts do to the stake of   *)
(* an account, to what waits for it and to the totals.                     *)

\* Records that keep their amounts keep the account's stake.
LEMMA StakeKept ==
  ASSUME NEW s \in Stakers,
         \A b \in Relays : Staked'[<<s, b>>].amount = Staked[<<s, b>>].amount
  PROVE  StakedBy(s)' = StakedBy(s)
<1> DEFINE f == [b \in Relays |-> Staked[<<s, b>>].amount]
           g == [b \in Relays |-> Staked'[<<s, b>>].amount]
<1>1. \A b \in Relays : g[b] = f[b]
  BY Zenon
<1> HIDE DEF f, g
<1>2. Sum(g, Relays) = Sum(f, Relays)
  BY <1>1, SumCongruence, Zenon
<1>3. StakedBy(s) = Sum(f, Relays) /\ StakedBy(s)' = Sum(g, Relays)
  BY Zenon DEF StakedBy, f, g
<1> QED BY <1>2, <1>3, Zenon

\* stake adds its amount to the stake of the caller, whether or not there was a
\* record of this relay block, and touches nobody else's.
LEMMA StakeAdds ==
  ASSUME TypeOK, TypeOK', NEW s \in Stakers, NEW a \in Amounts, Stake(s, a)
  PROVE  /\ StakedBy(s)' = StakedBy(s) + a
         /\ \A r \in Stakers \ {s} : StakedBy(r)' = StakedBy(r)
<1> DEFINE f == [b \in Relays |-> Staked[<<s, b>>].amount]
           g == [b \in Relays |-> Staked'[<<s, b>>].amount]
<1>1. a \in Nat /\ relay \in Relays /\ <<s, relay>> \in Keys /\ IsFiniteSet(Relays)
  BY ParamAssumption, FiniteDomains, Zenon DEF TypeOK, Keys
<1>2. \A b \in Relays : f[b] \in Nat /\ g[b] \in Nat
  BY Zenon DEF TypeOK, Keys
<1>3. Staked' = [Staked EXCEPT ![<<s, relay>>] =
                   [amount |-> @.amount + a, recalc |-> FirstRecalcBlock(relay)]]
  BY Zenon DEF Stake
<1>4. Staked'[<<s, relay>>].amount = Staked[<<s, relay>>].amount + a
  BY <1>1, <1>3, Zenon DEF TypeOK
<1>5. \A k \in Keys : k # <<s, relay>> => Staked'[k] = Staked[k]
  BY <1>3, Zenon DEF TypeOK
<1>6. g[relay] = f[relay] + a /\ \A b \in Relays \ {relay} : g[b] = f[b]
  BY <1>1, <1>4, <1>5, Zenon DEF Keys
<1> HIDE DEF f, g
<1>7. Sum(g, Relays) = Sum(f, Relays) - f[relay] + g[relay]
  BY <1>1, <1>2, <1>6, SumUpdate
<1>8. Sum(f, Relays) \in Nat
  BY <1>1, <1>2, SumType, Zenon
<1>9. StakedBy(s)' = StakedBy(s) + a
  <2>1. StakedBy(s) = Sum(f, Relays) /\ StakedBy(s)' = Sum(g, Relays)
    BY Zenon DEF StakedBy, f, g
  <2>2. f[relay] \in Nat
    BY <1>1, <1>2, Zenon
  <2> QED BY <1>1, <1>6, <1>7, <1>8, <2>1, <2>2
<1>10. ASSUME NEW r \in Stakers \ {s} PROVE StakedBy(r)' = StakedBy(r)
  <2>1. \A b \in Relays : Staked'[<<r, b>>].amount = Staked[<<r, b>>].amount
    BY <1>5, Zenon DEF Keys
  <2> QED BY <2>1, StakeKept, Zenon
<1> QED BY <1>9, <1>10, Zenon

\* unstake_all leaves the caller without a stake.
LEMMA StakeCleared ==
  ASSUME TypeOK, NEW s \in Stakers, UnstakeAll(s)
  PROVE  /\ StakedBy(s)' = 0
         /\ \A r \in Stakers \ {s} : StakedBy(r)' = StakedBy(r)
<1>1. \A k \in Keys : Staked'[k] = IF k[1] = s THEN NoStake ELSE Staked[k]
  BY Zenon DEF UnstakeAll
<1> DEFINE g == [b \in Relays |-> Staked'[<<s, b>>].amount]
<1>2. \A b \in Relays : g[b] = 0
  BY <1>1 DEF Keys, NoStake
<1> HIDE DEF g
<1>3. StakedBy(s)' = 0
  <2>1. Sum(g, Relays) = 0
    BY <1>2, SumZero, Zenon
  <2> QED BY <2>1, Zenon DEF StakedBy, g
<1>4. ASSUME NEW r \in Stakers \ {s} PROVE StakedBy(r)' = StakedBy(r)
  <2>1. \A b \in Relays : Staked'[<<r, b>>].amount = Staked[<<r, b>>].amount
    BY <1>1, Zenon DEF Keys
  <2> QED BY <2>1, StakeKept, Zenon
<1> QED BY <1>3, <1>4, Zenon

\* The loop of unstake_partial: taking from the terms f in order, from each as much
\* as is still wanted, takes what is wanted or everything.
LEMMA TakenInOrder ==
  ASSUME NEW m \in Nat, NEW f, \A b \in 0..m : f[b] \in Nat, NEW a \in Nat,
         NEW taken, \A b \in 0..m :
           LET before == Sum(f, {d \in 0..m : d < b})
               left == IF before >= a THEN 0 ELSE a - before
           IN  taken[b] = IF left >= f[b] THEN f[b] ELSE left
  PROVE  Sum(taken, 0..m) = IF a <= Sum(f, 0..m) THEN a ELSE Sum(f, 0..m)
<1> DEFINE below(n) == {d \in 0..m : d < n}
           least(x) == IF a <= x THEN a ELSE x
           good == {n \in Nat : n <= m + 1 => Sum(taken, below(n)) = least(Sum(f, below(n)))}
<1>1. IsFiniteSet(0..m)
  <2>1. 0 \in Int /\ m \in Int
    OBVIOUS
  <2> QED BY <2>1, FS_Interval, Zenon
<1>2. ASSUME NEW n PROVE IsFiniteSet(below(n)) /\ Sum(f, below(n)) \in Nat
  <2> DEFINE B == below(n)
  <2>1. IsFiniteSet(B) /\ \A b \in B : f[b] \in Nat
    BY <1>1, FS_Subset, Zenon
  <2> HIDE DEF B
  <2>2. Sum(f, B) \in Nat
    BY <2>1, SumType, Zenon
  <2> QED BY <2>1, <2>2, Zenon DEF B
<1>3. ASSUME NEW b \in 0..m PROVE taken[b] \in Nat
  <2>1. Sum(f, below(b)) \in Nat /\ f[b] \in Nat
    BY <1>2, Zenon
  <2> QED BY <2>1
<1>4. 0 \in good
  <2>1. below(0) = {}
    OBVIOUS
  <2>2. Sum(taken, {}) = 0 /\ Sum(f, {}) = 0
    BY SumEmpty, Zenon
  <2>3. Sum(taken, below(0)) = least(Sum(f, below(0)))
    BY <2>1, <2>2
  <2> QED BY <2>3, Zenon
<1>5. ASSUME NEW n \in good PROVE n + 1 \in good
  <2> SUFFICES ASSUME n + 1 <= m + 1
               PROVE  Sum(taken, below(n + 1)) = least(Sum(f, below(n + 1)))
    OBVIOUS
  <2> DEFINE B == below(n)
  <2>1. n \in Nat /\ n \in 0..m /\ below(n + 1) = B \cup {n} /\ n \notin B
    OBVIOUS
  <2>2. IsFiniteSet(B) /\ \A b \in B \cup {n} : f[b] \in Nat /\ taken[b] \in Nat
    BY <1>2, <1>3, <2>1, Zenon
  <2>3. Sum(taken, B) = least(Sum(f, B))
    BY <2>1
  <2>4. taken[n] = LET left == IF Sum(f, B) >= a THEN 0 ELSE a - Sum(f, B)
                   IN  IF left >= f[n] THEN f[n] ELSE left
    BY <2>1, Zenon
  <2> HIDE DEF B
  <2>5. Sum(f, B \cup {n}) = Sum(f, B) + f[n] /\ Sum(f, B) \in Nat
    BY <2>1, <2>2, SumExtend, Zenon
  <2>6. Sum(taken, B \cup {n}) = Sum(taken, B) + taken[n] /\ Sum(taken, B) \in Nat
    BY <2>1, <2>2, SumExtend, Zenon
  <2>7. Sum(taken, B \cup {n}) = least(Sum(f, B \cup {n}))
    <3>1. f[n] \in Nat
      BY <2>2, Zenon
    <3> QED BY <2>3, <2>4, <2>5, <2>6, <3>1
  <2> QED BY <2>1, <2>7, Zenon
<1>6. m + 1 \in good
  <2> HIDE DEF good
  <2>1. good \in SUBSET Nat
    BY Zenon DEF good
  <2>2. good = Nat
    BY <1>4, <1>5, <2>1, InductiveSet, Zenon
  <2> QED BY <2>2
<1>7. below(m + 1) = 0..m
  OBVIOUS
<1>8. Sum(taken, below(m + 1)) = least(Sum(f, below(m + 1)))
  BY <1>6
<1> QED BY <1>7, <1>8, Zenon
\* unstake_partial takes exactly its amount from the stake of the caller: the loop
\* ends with the records it deleted and the one it lowered making up the amount.
LEMMA StakeTaken ==
  ASSUME TypeOK, TypeOK', NEW s \in Stakers, NEW a \in Amounts, UnstakePartial(s, a)
  PROVE  /\ StakedBy(s)' = StakedBy(s) - a
         /\ \A r \in Stakers \ {s} : StakedBy(r)' = StakedBy(r)
<1> DEFINE f == [b \in Relays |-> Staked[<<s, b>>].amount]
           g == [b \in Relays |-> Staked'[<<s, b>>].amount]
           left(b) == LeftFor(<<s, b>>, a)
           taken == [b \in Relays |-> IF left(b) >= f[b] THEN f[b] ELSE left(b)]
<1>1. a \in Nat /\ MaxRelay \in Nat /\ Relays = 0..MaxRelay /\ IsFiniteSet(Relays)
      /\ a <= StakedBy(s)
  BY ParamAssumption, FiniteDomains, Zenon DEF Relays, UnstakePartial
<1>2. \A b \in Relays : f[b] \in Nat /\ g[b] \in Nat
  BY Zenon DEF TypeOK, Keys
<1>3. Staked' = [l \in Keys |->
                  CASE l \in Deleted(s, a) -> NoStake
                    [] l \in RecordsOf(s) \ Deleted(s, a) ->
                         [Staked[l] EXCEPT !.amount = @ - LeftFor(l, a)]
                    [] OTHER -> Staked[l]]
  BY Zenon DEF UnstakePartial
<1>4. ASSUME NEW b \in Relays PROVE left(b) \in Nat /\ taken[b] \in Nat
  <2>1. <<s, b>> \in Keys
    BY Zenon DEF Keys
  <2>2. left(b) \in Nat
    BY <1>1, <2>1, LeftForType, Zenon
  <2> QED BY <1>2, <2>2, Zenon
<1>5. ASSUME NEW b \in Relays PROVE f[b] = g[b] + taken[b]
  <2>1. <<s, b>> \in Keys /\ Staked[<<s, b>>] \in [amount : Nat, recalc : Nat]
        /\ f[b] = Staked[<<s, b>>].amount /\ g[b] = Staked'[<<s, b>>].amount
    BY Zenon DEF TypeOK, Keys
  <2>2. left(b) \in Nat /\ f[b] \in Nat
    BY <1>2, <1>4, Zenon
  <2>3. <<s, b>> \in RecordsOf(s) <=> Staked[<<s, b>>] # NoStake
    BY <2>1, Zenon DEF RecordsOf, Records
  <2>4. <<s, b>> \in Deleted(s, a) <=> <<s, b>> \in RecordsOf(s) /\ left(b) >= f[b]
    BY <2>1, Zenon DEF Deleted
  <2>5. CASE <<s, b>> \in Deleted(s, a)
    <3>1. g[b] = 0
      BY <1>3, <2>1, <2>5, Zenon DEF NoStake
    <3> QED BY <2>2, <2>4, <2>5, <3>1
  <2>6. CASE <<s, b>> \in RecordsOf(s) \ Deleted(s, a)
    <3>1. g[b] = f[b] - left(b)
      BY <1>3, <2>1, <2>6, Zenon
    <3> QED BY <2>2, <2>4, <2>6, <3>1
  <2>7. CASE <<s, b>> \notin RecordsOf(s)
    <3>1. <<s, b>> \notin Deleted(s, a)
      BY <2>4, <2>7, Zenon
    <3>2. Staked'[<<s, b>>] = Staked[<<s, b>>]
      BY <1>3, <2>1, <2>7, <3>1, ZenonT(60)
    <3>3. f[b] = 0 /\ g[b] = 0
      BY <2>1, <2>3, <2>7, <3>2 DEF NoStake
    <3> QED BY <2>2, <3>3
  <2> QED BY <2>5, <2>6, <2>7, Zenon
<1>6. ASSUME NEW b \in Relays
      PROVE  left(b) = LET before == Sum(f, {d \in Relays : d < b})
                       IN  IF before >= a THEN 0 ELSE a - before
  BY Zenon DEF LeftFor, OlderThan
<1>7. StakedBy(s) = Sum(f, Relays) /\ StakedBy(s)' = Sum(g, Relays)
  BY Zenon DEF StakedBy
<1>8. \A b \in Relays : taken[b] = IF left(b) >= f[b] THEN f[b] ELSE left(b)
  BY Zenon
<1> HIDE DEF f, g, taken, left
<1>9. Sum(taken, Relays) = a
  <2>1. \A b \in 0..MaxRelay :
          LET before == Sum(f, {d \in 0..MaxRelay : d < b})
              rest == IF before >= a THEN 0 ELSE a - before
          IN  taken[b] = IF rest >= f[b] THEN f[b] ELSE rest
    BY <1>1, <1>6, <1>8, Zenon
  <2>2. \A b \in 0..MaxRelay : f[b] \in Nat
    BY <1>1, <1>2, Zenon
  <2>3. Sum(taken, 0..MaxRelay) = IF a <= Sum(f, 0..MaxRelay) THEN a ELSE Sum(f, 0..MaxRelay)
    <3>1. MaxRelay \in Nat /\ a \in Nat
      BY <1>1, Zenon
    <3> QED BY ONLY <2>1, <2>2, <3>1, TakenInOrder, Zenon
  <2> QED BY <1>1, <1>7, <2>3, Zenon
<1>10. Sum(f, Relays) = Sum(g, Relays) + Sum(taken, Relays)
  BY <1>1, <1>2, <1>4, <1>5, SumAdd, Zenon
<1>11. Sum(g, Relays) \in Nat
  BY <1>1, <1>2, SumType, Zenon
<1>12. StakedBy(s)' = StakedBy(s) - a
  BY <1>1, <1>7, <1>9, <1>10, <1>11
<1>13. ASSUME NEW r \in Stakers \ {s} PROVE StakedBy(r)' = StakedBy(r)
  <2>1. ASSUME NEW b \in Relays PROVE Staked'[<<r, b>>] = Staked[<<r, b>>]
    <3>1. <<r, b>> \in Keys /\ <<r, b>> \notin RecordsOf(s) /\ <<r, b>> \notin Deleted(s, a)
      BY Zenon DEF Keys, RecordsOf, Deleted
    <3> QED BY <1>3, <3>1, Zenon
  <2> QED BY <2>1, StakeKept, Zenon
<1> QED BY <1>12, <1>13, Zenon
\* A page pays each staker what it adds to the staker's records.
LEMMA StakePaid ==
  ASSUME TypeOK, TypeOK', NEW n \in 1..MaxPayout, PayoutStakers(n), NEW s \in Stakers
  PROVE  StakedBy(s)' = StakedBy(s) + PaidTo(Visited(n), s)
<1> DEFINE V == Visited(n)
           own == {k \in V : k[1] = s}
           at == {b \in Relays : <<s, b>> \in V}
           f == [b \in Relays |-> Staked[<<s, b>>].amount]
           g == [b \in Relays |-> Staked'[<<s, b>>].amount]
           paid == [b \in Relays |-> IF <<s, b>> \in V THEN IncomeOf(<<s, b>>) ELSE 0]
           income == [k \in own |-> IncomeOf(k)]
           key == [b \in at |-> <<s, b>>]
<1>1. V \in SUBSET Keys /\ own \in SUBSET Keys /\ IsFiniteSet(Relays) /\ IsFiniteSet(at)
  <2>1. V \in SUBSET Keys /\ IsFiniteSet(Relays)
    BY VisitedKeys, FiniteDomains, Zenon
  <2>2. at \in SUBSET Relays
    BY Zenon
  <2> QED BY <2>1, <2>2, FS_Subset, Zenon
<1>2. \A k \in V : IncomeOf(k) \in Nat
  BY <1>1, IncomeType, Zenon
<1>3. \A b \in Relays : f[b] \in Nat /\ g[b] \in Nat /\ paid[b] \in Nat
  BY <1>2, Zenon DEF TypeOK, Keys
<1>4. ASSUME NEW b \in Relays PROVE g[b] = f[b] + paid[b]
  <2>1. Staked' = [k \in Keys |-> IF k \in V /\ Due(k)
                                THEN [amount |-> Staked[k].amount + IncomeOf(k),
                                      recalc |-> CurrentRecalcBlock(relay) + Interval]
                                ELSE Staked[k]]
    BY Zenon DEF PayoutStakers
  <2>2. <<s, b>> \in Keys
    BY Zenon DEF Keys
  <2>3. ~Due(<<s, b>>) => IncomeOf(<<s, b>>) = 0
    BY Zenon DEF IncomeOf
  <2> HIDE DEF V
  <2>4. CASE <<s, b>> \in V /\ Due(<<s, b>>)
    BY <2>1, <2>2, <2>4, Zenon
  <2>5. CASE ~(<<s, b>> \in V /\ Due(<<s, b>>))
    <3>1. g[b] = f[b] /\ paid[b] = 0
      BY <2>1, <2>2, <2>3, <2>5, Zenon
    <3>2. f[b] \in Nat
      BY <1>3, Zenon
    <3> QED BY <3>1, <3>2
  <2> QED BY <2>4, <2>5, Zenon
<1>5. PaidTo(V, s) = Sum(income, own)
  BY Zenon DEF PaidTo, IncomeIn
<1>6. {key[b] : b \in at} = own
  <2>1. ASSUME NEW k \in own PROVE k[2] \in at /\ key[k[2]] = k
    <3>1. k \in V /\ k \in Keys /\ k[1] = s
      BY <1>1, Zenon
    <3>2. k[2] \in Relays /\ k = <<s, k[2]>>
      BY <3>1 DEF Keys
    <3> QED BY <3>1, <3>2, Zenon
  <2>2. \A b \in at : key[b] \in own
    BY Zenon
  <2> HIDE DEF own, at, key
  <2> QED BY <2>1, <2>2, Zenon
<1>7. /\ \A b, d \in at : key[b] = key[d] => b = d
      /\ \A b \in at : income[key[b]] = paid[b]
      /\ at \in SUBSET Relays /\ \A b \in Relays \ at : paid[b] = 0
  BY Zenon
<1>8. StakedBy(s) = Sum(f, Relays) /\ StakedBy(s)' = Sum(g, Relays)
  BY Zenon DEF StakedBy
<1> HIDE DEF V, own, at, f, g, paid, income, key
<1>9. Sum(g, Relays) = Sum(f, Relays) + Sum(paid, Relays)
  BY <1>1, <1>3, <1>4, SumAdd, Zenon
<1>10. Sum(paid, Relays) = Sum(paid, at)
  BY <1>1, <1>3, <1>7, SumSupport, Zenon
<1>11. Sum(paid, at) = Sum(income, own)
  <2>1. \A b \in at : paid[b] \in Nat
    BY <1>3, <1>7, Zenon
  <2>2. Sum(paid, at) = Sum(income, {key[b] : b \in at})
    BY <1>1, <1>7, <2>1, SumReindex
  <2> QED BY <1>6, <2>2, Zenon
<1> QED BY <1>5, <1>8, <1>9, <1>10, <1>11, Zenon DEF V

\* What a page takes from the treasury is what its stakers get.
LEMMA PageIncome ==
  ASSUME TypeOK, NEW V \in SUBSET Keys
  PROVE  IncomeIn(V) = Sum([s \in Stakers |-> PaidTo(V, s)], Stakers)
<1> DEFINE f == [k \in V |-> IncomeOf(k)]
           p == [k \in V |-> k[1]]
           part == [s \in Stakers |-> PaidTo(V, s)]
<1>1. IsFiniteSet(V) /\ IsFiniteSet(Stakers)
  BY FiniteDomains, FS_Subset, StakersAssumption, Zenon
<1>2. \A k \in V : f[k] \in Nat
  BY IncomeType, Zenon
<1>3. p \in [V -> Stakers]
  BY Zenon DEF Keys
<1>4. ASSUME NEW s \in Stakers PROVE part[s] = Sum(f, {k \in V : p[k] = s})
  <2> DEFINE own == {k \in V : k[1] = s}
             income == [k \in own |-> IncomeOf(k)]
  <2>1. {k \in V : p[k] = s} = own
    BY Zenon
  <2>2. \A k \in own : income[k] = f[k]
    BY Zenon
  <2>3. part[s] = Sum(income, own)
    BY Zenon DEF PaidTo, IncomeIn
  <2> HIDE DEF own, income, f
  <2>4. Sum(income, own) = Sum(f, own)
    BY <2>2, SumCongruence, Zenon
  <2> QED BY <2>1, <2>3, <2>4, Zenon
<1>5. IncomeIn(V) = Sum(f, V)
  BY Zenon DEF IncomeIn
<1> HIDE DEF f, p, part
<1>6. Sum(f, V) = Sum(part, Stakers)
  BY <1>1, <1>2, <1>3, <1>4, SumPartition
<1> QED BY <1>5, <1>6, Zenon DEF part
\* A queue with nothing in it owes nothing.
LEMMA QueuedNothing == \A s : QueuedFor(<<>>, s) = 0
<1> SUFFICES ASSUME NEW s PROVE QueuedFor(<<>>, s) = 0
  BY Zenon
<1>1. DOMAIN <<>> = {}
  OBVIOUS
<1> QED BY <1>1, SumEmpty, Zenon DEF QueuedFor

\* One more entry in a queue adds its amount for its account and nothing for others.
LEMMA QueuedMore ==
  ASSUME NEW queue \in Seq(Stakers \X Nat), NEW s \in Stakers, NEW a \in Nat, NEW r \in Stakers
  PROVE  QueuedFor(Append(queue, <<s, a>>), r)
           = QueuedFor(queue, r) + (IF r = s THEN a ELSE 0)
<1> DEFINE long == Append(queue, <<s, a>>)
           D == DOMAIN queue
           n == Len(queue) + 1
           f == [i \in D |-> IF queue[i][1] = r THEN queue[i][2] ELSE 0]
           g == [i \in DOMAIN long |-> IF long[i][1] = r THEN long[i][2] ELSE 0]
<1>1. Len(queue) \in Nat /\ D = 1..Len(queue) /\ DOMAIN long = D \cup {n} /\ n \notin D
  OBVIOUS
<1>2. IsFiniteSet(D)
  <2>1. 1 \in Int /\ Len(queue) \in Int
    OBVIOUS
  <2> QED BY <1>1, <2>1, FS_Interval, Zenon
<1>3. \A i \in D : queue[i] \in Stakers \X Nat /\ long[i] = queue[i]
  OBVIOUS
<1>4. long[n] = <<s, a>>
  OBVIOUS
<1>5. \A i \in D : g[i] = f[i] /\ f[i] \in Nat
  BY <1>1, <1>3, Zenon
<1>6. g[n] = (IF r = s THEN a ELSE 0) /\ g[n] \in Nat
  BY <1>1, <1>4
<1>7. QueuedFor(queue, r) = Sum(f, D) /\ QueuedFor(long, r) = Sum(g, D \cup {n})
  BY <1>1, Zenon DEF QueuedFor
<1> HIDE DEF long, D, n, f, g
<1>8. Sum(g, D \cup {n}) = Sum(g, D) + g[n]
  BY <1>1, <1>2, <1>5, <1>6, SumExtend, Zenon
<1>9. Sum(g, D) = Sum(f, D)
  BY <1>5, SumCongruence, Zenon
<1> QED BY <1>6, <1>7, <1>8, <1>9, Zenon DEF long

\* What waits for an account is a natural, at least what one block owes it.
LEMMA PendingType ==
  ASSUME TypeOK, NEW s \in Stakers
  PROVE  /\ PendingOf(s) \in Nat
         /\ \A b \in Blocks : PendingAt(b, s) \in Nat /\ PendingAt(b, s) <= PendingOf(s)
<1> DEFINE f == [b \in Blocks |-> PendingAt(b, s)]
<1>1. \A b \in Blocks : f[b] \in Nat
  BY QueuedForType, Zenon DEF PendingAt, TypeOK
<1>2. IsFiniteSet(Blocks)
  BY FiniteDomains, Zenon
<1>3. PendingOf(s) = Sum(f, Blocks) /\ \A b \in Blocks : f[b] = PendingAt(b, s)
  BY Zenon DEF PendingOf
<1> HIDE DEF f
<1>4. Sum(f, Blocks) \in Nat /\ \A b \in Blocks : f[b] <= Sum(f, Blocks)
  BY <1>1, <1>2, SumType, SumBound, Zenon
<1> QED BY <1>1, <1>3, <1>4, Zenon

\* When the queue of one block changes, so does what waits, by the same difference.
LEMMA PendingUpdate ==
  ASSUME TypeOK, TypeOK', NEW s \in Stakers, NEW b \in Blocks,
         \A d \in Blocks \ {b} : PendingUnstake'[d] = PendingUnstake[d]
  PROVE  PendingOf(s)' = PendingOf(s) - PendingAt(b, s) + PendingAt(b, s)'
<1> DEFINE f == [d \in Blocks |-> PendingAt(d, s)]
           g == [d \in Blocks |-> QueuedFor(PendingUnstake'[d], s)]
<1>1. \A d \in Blocks : f[d] \in Nat /\ g[d] \in Nat
  BY QueuedForType, Zenon DEF PendingAt, TypeOK
<1>2. \A d \in Blocks \ {b} : g[d] = f[d]
  BY Zenon DEF PendingAt
<1>3. IsFiniteSet(Blocks)
  BY FiniteDomains, Zenon
<1>4. /\ PendingOf(s) = Sum(f, Blocks) /\ PendingOf(s)' = Sum(g, Blocks)
      /\ f[b] = PendingAt(b, s) /\ g[b] = PendingAt(b, s)'
  BY Zenon DEF PendingOf, PendingAt
<1> HIDE DEF f, g
<1>5. Sum(g, Blocks) = Sum(f, Blocks) - f[b] + g[b]
  BY <1>1, <1>2, <1>3, SumUpdate
<1> QED BY <1>4, <1>5, Zenon

\* Emptying the queue of one block settles what that block owes.
LEMMA PendingSettled ==
  ASSUME TypeOK, TypeOK', NEW s \in Stakers, NEW b \in Blocks,
         PendingUnstake' = [PendingUnstake EXCEPT ![b] = <<>>]
  PROVE  PendingOf(s)' = PendingOf(s) - PendingAt(b, s)
<1>1. PendingUnstake'[b] = <<>> /\ \A d \in Blocks \ {b} : PendingUnstake'[d] = PendingUnstake[d]
  BY Zenon DEF TypeOK
<1>2. PendingAt(b, s)' = 0
  BY <1>1, QueuedNothing, Zenon DEF PendingAt
<1>3. PendingOf(s)' = PendingOf(s) - PendingAt(b, s) + PendingAt(b, s)'
  BY <1>1, PendingUpdate, Zenon
<1>4. PendingOf(s) \in Nat /\ PendingAt(b, s) \in Nat
  BY PendingType, Zenon
<1> QED BY <1>2, <1>3, <1>4

\* An unstake waits for its own account only.
LEMMA PendingQueued ==
  ASSUME TypeOK, TypeOK', NEW s \in Stakers, NEW a \in Nat, CanQueue, Queue(s, a),
         NEW r \in Stakers
  PROVE  PendingOf(r)' = PendingOf(r) + (IF r = s THEN a ELSE 0)
<1>1. PICK b \in Blocks : b = UnpendingBlock
  BY Zenon DEF CanQueue
<1>2. PendingUnstake[b] \in Seq(Stakers \X Nat)
      /\ PendingUnstake'[b] = Append(PendingUnstake[b], <<s, a>>)
      /\ \A d \in Blocks \ {b} : PendingUnstake'[d] = PendingUnstake[d]
  BY <1>1, Zenon DEF Queue, TypeOK
<1>3. PendingAt(b, r)' = PendingAt(b, r) + (IF r = s THEN a ELSE 0)
  <2>1. PICK queue \in Seq(Stakers \X Nat) : queue = PendingUnstake[b]
    BY <1>2, Zenon
  <2>2. QueuedFor(Append(queue, <<s, a>>), r) = QueuedFor(queue, r) + (IF r = s THEN a ELSE 0)
    BY QueuedMore, ZenonT(60)
  <2> QED BY <1>2, <2>1, <2>2, Zenon DEF PendingAt
<1>4. PendingOf(r)' = PendingOf(r) - PendingAt(b, r) + PendingAt(b, r)'
  BY <1>1, <1>2, PendingUpdate, Zenon
<1>5. PendingOf(r) \in Nat /\ PendingAt(b, r) \in Nat
  BY <1>1, PendingType, Zenon
<1> QED BY <1>3, <1>4, <1>5
\* What an account has staked is a natural.
LEMMA StakedByType == TypeOK => \A s \in Stakers : StakedBy(s) \in Nat
BY StakeSumType, Zenon DEF StakedBy

\* A thaw of an amount that is frozen does not saturate.
LEMMA ThawExact ==
  ASSUME TypeOK, FreezeExact, NEW s \in Stakers, NEW b \in Blocks
  PROVE  Thaw(s, PendingAt(b, s)) = frozen[s] - PendingAt(b, s)
<1>1. PendingAt(b, s) <= PendingOf(s) /\ PendingOf(s) \in Nat /\ PendingAt(b, s) \in Nat
  BY PendingType, Zenon
<1>2. StakedBy(s) \in Nat /\ frozen[s] = StakedBy(s) + PendingOf(s)
  BY StakedByType, Zenon DEF FreezeExact
<1> QED BY <1>1, <1>2 DEF Thaw

\* The balances of an account stay consistent when its queue of one block is paid out:
\* both the block hook and resolve_skipped_blocks do this.
LEMMA FreezeThawed ==
  ASSUME TypeOK, TypeOK', FreezeExact, NEW b \in Blocks,
         PendingUnstake' = [PendingUnstake EXCEPT ![b] = <<>>],
         frozen' = [s \in Stakers |-> Thaw(s, PendingAt(b, s))],
         UNCHANGED <<Staked, free, held>>
  PROVE  FreezeExact'
<1> SUFFICES ASSUME NEW s \in Stakers
             PROVE  frozen'[s] = StakedBy(s)' + PendingOf(s)' /\ frozen'[s] <= free'[s] + held'[s]
  BY Zenon DEF FreezeExact
<1>1. frozen'[s] = frozen[s] - PendingAt(b, s)
  BY ThawExact, Zenon
<1>2. PendingOf(s)' = PendingOf(s) - PendingAt(b, s)
  BY PendingSettled, Zenon
<1>3. StakedBy(s)' = StakedBy(s)
  BY StakeKept, Zenon
<1>4. frozen[s] = StakedBy(s) + PendingOf(s) /\ frozen[s] <= free[s] + held[s]
  BY Zenon DEF FreezeExact
<1>5. PendingOf(s) \in Nat /\ PendingAt(b, s) \in Nat /\ StakedBy(s) \in Nat
  BY PendingType, StakedByType, Zenon
<1>6. frozen[s] \in Nat /\ free[s] \in Nat /\ held[s] \in Nat
  BY Zenon DEF TypeOK
<1> QED BY <1>1, <1>2, <1>3, <1>4, <1>5, <1>6

\* A call that moves an amount from the stake of an account to the queue leaves what
\* is frozen.
LEMMA FreezeUnstaked ==
  ASSUME TypeOK, TypeOK', FreezeExact, NEW s \in Stakers, NEW a \in Nat, CanQueue, Queue(s, a),
         StakedBy(s)' = StakedBy(s) - a, \A r \in Stakers \ {s} : StakedBy(r)' = StakedBy(r),
         UNCHANGED <<free, held, frozen>>
  PROVE  FreezeExact'
<1> SUFFICES ASSUME NEW r \in Stakers
             PROVE  frozen'[r] = StakedBy(r)' + PendingOf(r)' /\ frozen'[r] <= free'[r] + held'[r]
  BY Zenon DEF FreezeExact
<1>1. PendingOf(r)' = PendingOf(r) + (IF r = s THEN a ELSE 0)
  BY PendingQueued, Zenon
<1>2. StakedBy(r)' = StakedBy(r) - (IF r = s THEN a ELSE 0)
  <2>1. StakedBy(r) \in Nat
    BY StakedByType, Zenon
  <2> QED BY <2>1
<1>3. PendingOf(r) \in Nat /\ StakedBy(r) \in Nat
  BY PendingType, StakedByType, Zenon
<1>4. frozen[r] = StakedBy(r) + PendingOf(r) /\ frozen[r] <= free[r] + held[r]
  BY Zenon DEF FreezeExact
<1> QED BY <1>1, <1>2, <1>3, <1>4

\* A step that leaves the stakes, the queue and the freezes.
LEMMA FreezeKept ==
  ASSUME FreezeExact, UNCHANGED <<Staked, PendingUnstake, frozen>>,
         \A s \in Stakers : frozen[s] <= free'[s] + held'[s]
  PROVE  FreezeExact'
<1>1. \A s \in Stakers : StakedBy(s)' = StakedBy(s) /\ PendingOf(s)' = PendingOf(s)
  BY Zenon DEF StakedBy, PendingOf, PendingAt
<1> QED BY <1>1, Zenon DEF FreezeExact

\* Every step keeps the freezes exact.
LEMMA FreezeNext == TypeOK /\ TypeOK' /\ FreezeExact /\ [Next]_vars => FreezeExact'
<1> SUFFICES ASSUME TypeOK, TypeOK', FreezeExact, [Next]_vars PROVE FreezeExact'
  BY Zenon
<1>0. /\ \A s \in Stakers : free[s] \in Nat /\ held[s] \in Nat /\ frozen[s] \in Nat
      /\ \A s \in Stakers : frozen[s] <= free[s] + held[s]
      /\ free \in [Stakers -> Nat] /\ held \in [Stakers -> Nat] /\ frozen \in [Stakers -> Nat]
  BY Zenon DEF TypeOK, FreezeExact
<1>1. ASSUME UNCHANGED <<Staked, PendingUnstake, free, held, frozen>> PROVE FreezeExact'
  BY <1>0, <1>1, FreezeKept, Zenon
<1>2. CASE UNCHANGED vars
  BY <1>1, <1>2, Zenon DEF vars
<1>3. CASE NewBlock
  <2>1. UNCHANGED <<Staked, free, held>> /\ block + 1 \in Blocks
    BY <1>3, ParamAssumption, Zenon DEF NewBlock, TypeOK, Blocks
  <2>2. CASE maintenance
    <3>1. UNCHANGED <<PendingUnstake, frozen>>
      BY <1>3, <2>2, Zenon DEF NewBlock
    <3> QED BY <1>1, <2>1, <3>1, Zenon
  <2>3. CASE ~maintenance
    <3>1. PICK b \in Blocks : b = block + 1
      BY <2>1, Zenon
    <3>2. /\ PendingUnstake' = [PendingUnstake EXCEPT ![b] = <<>>]
          /\ frozen' = [s \in Stakers |-> Thaw(s, PendingAt(b, s))]
      BY <1>3, <2>3, <3>1, Zenon DEF NewBlock
    <3> QED BY <2>1, <3>2, FreezeThawed, Zenon
  <2> QED BY <2>2, <2>3, Zenon
<1>4. ASSUME NEW b \in Blocks, ResolveSkippedBlock(b) PROVE FreezeExact'
  BY <1>4, FreezeThawed, Zenon DEF ResolveSkippedBlock
<1>5. ASSUME NEW s \in Stakers, NEW a \in Amounts, Stake(s, a) PROVE FreezeExact'
  <2> SUFFICES ASSUME NEW r \in Stakers
               PROVE  frozen'[r] = StakedBy(r)' + PendingOf(r)' /\ frozen'[r] <= free'[r] + held'[r]
    BY Zenon DEF FreezeExact
  <2>1. StakedBy(s)' = StakedBy(s) + a /\ \A q \in Stakers \ {s} : StakedBy(q)' = StakedBy(q)
    BY <1>5, StakeAdds, Zenon
  <2>2. /\ frozen' = [frozen EXCEPT ![s] = @ + a] /\ UNCHANGED <<PendingUnstake, free, held>>
        /\ a <= free[s] - frozen[s]
    BY <1>5, Zenon DEF Stake, Available
  <2>3. PendingOf(r)' = PendingOf(r)
    BY <2>2, Zenon DEF PendingOf, PendingAt
  <2>4. a \in Nat /\ PendingOf(r) \in Nat /\ StakedBy(r) \in Nat
    BY PendingType, StakedByType, ParamAssumption, Zenon
  <2>5. frozen[r] = StakedBy(r) + PendingOf(r)
    BY Zenon DEF FreezeExact
  <2>6. CASE r = s
    <3>1. frozen'[r] = frozen[r] + a
      BY <1>0, <2>2, <2>6, Zenon
    <3> QED BY <1>0, <2>1, <2>2, <2>3, <2>4, <2>5, <2>6, <3>1
  <2>7. CASE r # s
    <3>1. frozen'[r] = frozen[r] /\ StakedBy(r)' = StakedBy(r)
      BY <1>0, <2>1, <2>2, <2>7, Zenon
    <3> QED BY <1>0, <2>2, <2>3, <2>5, <3>1, Zenon
  <2> QED BY <2>6, <2>7, Zenon
<1>6. ASSUME NEW s \in Stakers, UnstakeAll(s) PROVE FreezeExact'
  <2>1. PICK a \in Nat : a = StakedBy(s)
    BY StakedByType, Zenon
  <2>2. CanQueue /\ Queue(s, a) /\ UNCHANGED <<free, held, frozen>>
    BY <1>6, <2>1, Zenon DEF UnstakeAll, accounts
  <2>3. StakedBy(s)' = StakedBy(s) - a /\ \A r \in Stakers \ {s} : StakedBy(r)' = StakedBy(r)
    BY <1>6, <2>1, StakeCleared
  <2> QED BY <2>2, <2>3, FreezeUnstaked, Zenon
<1>7. ASSUME NEW s \in Stakers, NEW a \in Amounts, UnstakePartial(s, a) PROVE FreezeExact'
  <2>1. a \in Nat
    BY ParamAssumption, Zenon
  <2>2. CanQueue /\ Queue(s, a) /\ UNCHANGED <<free, held, frozen>>
    BY <1>7, Zenon DEF UnstakePartial, accounts
  <2>3. StakedBy(s)' = StakedBy(s) - a /\ \A r \in Stakers \ {s} : StakedBy(r)' = StakedBy(r)
    BY <1>7, StakeTaken, Zenon
  <2> QED BY <2>1, <2>2, <2>3, FreezeUnstaked, Zenon
<1>8. ASSUME NEW n \in 1..MaxPayout, PayoutStakers(n) PROVE FreezeExact'
  <2> SUFFICES ASSUME NEW s \in Stakers
               PROVE  frozen'[s] = StakedBy(s)' + PendingOf(s)' /\ frozen'[s] <= free'[s] + held'[s]
    BY Zenon DEF FreezeExact
  <2> DEFINE paid == PaidTo(Visited(n), s)
  <2>1. StakedBy(s)' = StakedBy(s) + paid
    BY <1>8, StakePaid, Zenon
  <2>2. paid \in Nat
    BY VisitedKeys, IncomeType, Zenon DEF PaidTo
  <2>3. /\ free'[s] = free[s] + paid /\ frozen'[s] = frozen[s] + paid
        /\ UNCHANGED <<held, PendingUnstake>>
    BY <1>8, Zenon DEF PayoutStakers
  <2> HIDE DEF paid
  <2>4. PendingOf(s)' = PendingOf(s)
    BY <2>3, Zenon DEF PendingOf, PendingAt
  <2>5. frozen[s] = StakedBy(s) + PendingOf(s) /\ PendingOf(s) \in Nat /\ StakedBy(s) \in Nat
    BY PendingType, StakedByType, Zenon DEF FreezeExact
  <2> QED BY <1>0, <2>1, <2>2, <2>3, <2>4, <2>5
<1>9. ASSUME NEW s \in Stakers, NEW a \in OtherAmounts, Spend(s, a) PROVE FreezeExact'
  <2>1. a \in Nat /\ frozen[s] <= free[s] - a + held[s] /\ free' = [free EXCEPT ![s] = @ - a]
        /\ UNCHANGED <<Staked, PendingUnstake, frozen, held>>
    BY <1>9, ParamAssumption, Zenon DEF Spend
  <2>2. \A r \in Stakers : frozen[r] <= free'[r] + held'[r]
    BY <1>0, <2>1, Zenon
  <2> QED BY <2>1, <2>2, FreezeKept, Zenon
<1>10. ASSUME NEW s \in Stakers, NEW a \in OtherAmounts, Hold(s, a) PROVE FreezeExact'
  <2>1. /\ a \in Nat /\ held[s] = 0 /\ free' = [free EXCEPT ![s] = @ - a]
        /\ held' = [held EXCEPT ![s] = a] /\ UNCHANGED <<Staked, PendingUnstake, frozen>>
    BY <1>10, ParamAssumption, Zenon DEF Hold
  <2>2. \A r \in Stakers : frozen[r] <= free'[r] + held'[r]
    BY <1>0, <2>1
  <2> QED BY <2>1, <2>2, FreezeKept, Zenon
<1>11. ASSUME NEW s \in Stakers, Release(s) PROVE FreezeExact'
  <2>1. /\ free' = [free EXCEPT ![s] = @ + held[s]] /\ held' = [held EXCEPT ![s] = 0]
        /\ UNCHANGED <<Staked, PendingUnstake, frozen>>
    BY <1>11, Zenon DEF Release
  <2>2. \A r \in Stakers : frozen[r] <= free'[r] + held'[r]
    BY <1>0, <2>1
  <2> QED BY <2>1, <2>2, FreezeKept, Zenon
<1>12. CASE SetAdminAddress \/ \E on \in BOOLEAN : SetMaintenance(on)
  BY <1>1, <1>12, Zenon DEF SetAdminAddress, SetMaintenance, accounts
<1> QED BY <1>2, <1>3, <1>4, <1>5, <1>6, <1>7, <1>8, <1>9, <1>10, <1>11, <1>12, Zenon
        DEF Next, Call, Environment

\* The freeze is exact, for every order of calls, hooks and maintenance: an account has
\* frozen its stakes and its waiting unstakes, no more and no less, and what is
\* frozen is there.  FreezeExact is inductive on well-typed states.
THEOREM FreezeCorrect == Spec => []FreezeExact
<1>1. Init => FreezeExact
  <2> SUFFICES ASSUME Init, NEW s \in Stakers
               PROVE  frozen[s] = StakedBy(s) + PendingOf(s) /\ frozen[s] <= free[s] + held[s]
    BY Zenon DEF FreezeExact
  <2> DEFINE f == [b \in Relays |-> Staked[<<s, b>>].amount]
             g == [b \in Blocks |-> PendingAt(b, s)]
  <2>1. \A b \in Relays : f[b] = 0
    BY Zenon DEF Init, NoStake, Keys
  <2>2. \A b \in Blocks : g[b] = 0
    BY QueuedNothing, Zenon DEF Init, PendingAt
  <2>3. StakedBy(s) = Sum(f, Relays) /\ PendingOf(s) = Sum(g, Blocks)
    BY Zenon DEF StakedBy, PendingOf
  <2> HIDE DEF f, g
  <2>4. Sum(f, Relays) = 0 /\ Sum(g, Blocks) = 0
    BY <2>1, <2>2, SumZero, Zenon
  <2> QED BY <2>3, <2>4, ParamAssumption DEF Init
<1>2. TypeOK /\ FreezeExact /\ [Next]_vars => TypeOK' /\ FreezeExact'
  BY TypeNext, FreezeNext, Zenon
<1> QED BY <1>1, <1>2, TypeInit, PTL DEF Spec
-----------------------------------------------------------------------------
(* TotalStaked, the counters of stakes, and interest.                      *)

\* When the stake of one account changes, so does the sum of all, by the same
\* difference.
LEMMA AllStakesUpdate ==
  ASSUME TypeOK, TypeOK', NEW s \in Stakers,
         \A r \in Stakers \ {s} : StakedBy(r)' = StakedBy(r)
  PROVE  Sum([r \in Stakers |-> StakedBy(r)], Stakers)'
           = Sum([r \in Stakers |-> StakedBy(r)], Stakers) - StakedBy(s) + StakedBy(s)'
<1> DEFINE f == [r \in Stakers |-> StakedBy(r)]
           g == [r \in Stakers |-> StakedBy(r)']
<1>1. IsFiniteSet(Stakers)
  BY StakersAssumption, Zenon
<1>2. \A r \in Stakers : f[r] \in Nat /\ g[r] \in Nat
  <2>1. ASSUME NEW r \in Stakers PROVE StakedBy(r)' \in Nat
    <3> DEFINE h == [b \in Relays |-> Staked'[<<r, b>>].amount]
    <3>1. \A b \in Relays : h[b] \in Nat
      BY Zenon DEF TypeOK, Keys
    <3>2. StakedBy(r)' = Sum(h, Relays)
      BY Zenon DEF StakedBy
    <3> HIDE DEF h
    <3> QED BY <3>1, <3>2, FiniteDomains, SumType, Zenon
  <2> QED BY <2>1, StakedByType, Zenon
<1>3. \A r \in Stakers \ {s} : g[r] = f[r]
  BY Zenon
<1>4. f[s] = StakedBy(s) /\ g[s] = StakedBy(s)'
  BY Zenon
<1>5. Sum([r \in Stakers |-> StakedBy(r)], Stakers)' = Sum(g, Stakers)
  BY ZenonT(60)
<1> HIDE DEF f, g
<1>6. Sum(g, Stakers) = Sum(f, Stakers) - f[s] + g[s]
  BY <1>1, <1>2, <1>3, SumUpdate
<1> QED BY <1>4, <1>5, <1>6, Zenon DEF f
\* Every step keeps TotalStaked the sum of the stakes.
LEMMA TotalNext == TypeOK /\ TypeOK' /\ TotalStakedExact /\ [Next]_vars => TotalStakedExact'
<1> SUFFICES ASSUME TypeOK, TypeOK', TotalStakedExact, [Next]_vars PROVE TotalStakedExact'
  BY Zenon
<1> DEFINE all == Sum([s \in Stakers |-> StakedBy(s)], Stakers)
<1>0. all = TotalStaked /\ TotalStaked \in Nat
  BY Zenon DEF TypeOK, TotalStakedExact
<1>1. ASSUME UNCHANGED <<Staked, TotalStaked>> PROVE TotalStakedExact'
  BY <1>1, Zenon DEF TotalStakedExact, StakedBy
<1>2. ASSUME NEW s \in Stakers, NEW a \in Amounts, Stake(s, a) PROVE TotalStakedExact'
  <2>1. StakedBy(s)' = StakedBy(s) + a /\ \A r \in Stakers \ {s} : StakedBy(r)' = StakedBy(r)
    BY <1>2, StakeAdds, Zenon
  <2>2. all' = all - StakedBy(s) + StakedBy(s)'
    BY <2>1, AllStakesUpdate, Zenon
  <2>3. TotalStaked' = TotalStaked + a /\ a \in Nat /\ StakedBy(s) \in Nat
    BY <1>2, StakedByType, ParamAssumption, Zenon DEF Stake
  <2> HIDE DEF all
  <2>4. TotalStaked' = all'
    BY <1>0, <2>1, <2>2, <2>3
  <2> QED BY <2>4, Zenon DEF TotalStakedExact, all
<1>3. ASSUME NEW s \in Stakers, UnstakeAll(s) PROVE TotalStakedExact'
  <2>1. StakedBy(s)' = 0 /\ \A r \in Stakers \ {s} : StakedBy(r)' = StakedBy(r)
    BY <1>3, StakeCleared, Zenon
  <2>2. all' = all - StakedBy(s) + StakedBy(s)'
    BY <2>1, AllStakesUpdate, Zenon
  <2>3. TotalStaked' = TotalStaked - StakedBy(s) /\ StakedBy(s) \in Nat
    BY <1>3, StakedByType, Zenon DEF UnstakeAll
  <2> HIDE DEF all
  <2>4. TotalStaked' = all'
    BY <1>0, <2>1, <2>2, <2>3
  <2> QED BY <2>4, Zenon DEF TotalStakedExact, all
<1>4. ASSUME NEW s \in Stakers, NEW a \in Amounts, UnstakePartial(s, a) PROVE TotalStakedExact'
  <2>1. StakedBy(s)' = StakedBy(s) - a /\ \A r \in Stakers \ {s} : StakedBy(r)' = StakedBy(r)
    BY <1>4, StakeTaken, Zenon
  <2>2. all' = all - StakedBy(s) + StakedBy(s)'
    BY <2>1, AllStakesUpdate, Zenon
  <2>3. TotalStaked' = TotalStaked - a /\ a \in Nat /\ StakedBy(s) \in Nat
    BY <1>4, StakedByType, ParamAssumption, Zenon DEF UnstakePartial
  <2> HIDE DEF all
  <2>4. TotalStaked' = all'
    BY <1>0, <2>1, <2>2, <2>3
  <2> QED BY <2>4, Zenon DEF TotalStakedExact, all
<1>5. ASSUME NEW n \in 1..MaxPayout, PayoutStakers(n) PROVE TotalStakedExact'
  <2>1. PICK V \in SUBSET Keys : V = Visited(n)
    BY VisitedKeys, Zenon
  <2> DEFINE f == [s \in Stakers |-> StakedBy(s)]
             paid == [s \in Stakers |-> PaidTo(V, s)]
             g == [s \in Stakers |-> StakedBy(s)']
  <2>2. \A s \in Stakers : g[s] = f[s] + paid[s]
    BY <1>5, <2>1, StakePaid, Zenon
  <2>3. \A s \in Stakers : f[s] \in Nat /\ paid[s] \in Nat
    BY IncomeType, StakedByType, Zenon DEF PaidTo
  <2>4. IncomeIn(V) = Sum(paid, Stakers)
    BY PageIncome, Zenon
  <2>5. TotalStaked' = TotalStaked + IncomeIn(V)
    BY <1>5, <2>1, Zenon DEF PayoutStakers, TotalAfterPayout
  <2>6. all = Sum(f, Stakers) /\ all' = Sum(g, Stakers)
    BY Zenon
  <2> HIDE DEF f, g, paid, all
  <2>7. Sum(g, Stakers) = Sum(f, Stakers) + Sum(paid, Stakers)
    BY <2>2, <2>3, StakersAssumption, SumAdd, Zenon
  <2>8. TotalStaked' = all'
    BY <1>0, <2>4, <2>5, <2>6, <2>7, Zenon
  <2> QED BY <2>8, Zenon DEF TotalStakedExact, all
<1>6. CASE NewBlock
  BY <1>1, <1>6, Zenon DEF NewBlock
<1>7. CASE Environment
  BY <1>1, <1>7, Zenon DEF Environment, SetAdminAddress, SetMaintenance, Spend, Hold, Release
<1>8. ASSUME NEW b \in Blocks, ResolveSkippedBlock(b) PROVE TotalStakedExact'
  BY <1>1, <1>8, Zenon DEF ResolveSkippedBlock
<1>9. CASE UNCHANGED vars
  BY <1>1, <1>9, Zenon DEF vars
<1> QED BY <1>2, <1>3, <1>4, <1>5, <1>6, <1>7, <1>8, <1>9, Zenon DEF Next, Call

\* TotalStaked, which stake, both unstakes and payout_stakers update on their own, is
\* always the sum of the Staked map.
THEOREM TotalCorrect == Spec => []TotalStakedExact
<1>1. Init => TotalStakedExact
  <2> SUFFICES ASSUME Init PROVE TotalStakedExact
    BY Zenon
  <2>1. ASSUME NEW s \in Stakers PROVE StakedBy(s) = 0
    <3> DEFINE f == [b \in Relays |-> Staked[<<s, b>>].amount]
    <3>1. \A b \in Relays : f[b] = 0
      BY Zenon DEF Init, NoStake, Keys
    <3> HIDE DEF f
    <3>2. Sum(f, Relays) = 0
      BY <3>1, SumZero, Zenon
    <3> QED BY <3>2, Zenon DEF StakedBy, f
  <2> DEFINE g == [s \in Stakers |-> StakedBy(s)]
  <2>2. \A s \in Stakers : g[s] = 0
    BY <2>1, Zenon
  <2> HIDE DEF g
  <2>3. Sum(g, Stakers) = 0
    BY <2>2, SumZero, Zenon
  <2> QED BY <2>3, Zenon DEF TotalStakedExact, Init, g
<1>2. TypeOK /\ TotalStakedExact /\ [Next]_vars => TypeOK' /\ TotalStakedExact'
  BY TypeNext, TotalNext, Zenon
<1> QED BY <1>1, <1>2, TypeInit, PTL DEF Spec

\* A counter that is not lowered covers records that do not become more.
LEMMA CounterCovers ==
  ASSUME TypeOK, TypeOK', NEW s \in Stakers, RecordsOf(s)' \in SUBSET RecordsOf(s),
         Cardinality(RecordsOf(s)) <= StakesPerAccount[s],
         StakesPerAccount'[s] = StakesPerAccount[s]
  PROVE  Cardinality(RecordsOf(s)') <= StakesPerAccount'[s]
<1>1. IsFiniteSet(RecordsOf(s))
  <2>1. RecordsOf(s) \in SUBSET Keys
    BY Zenon DEF RecordsOf, Records
  <2> QED BY <2>1, FiniteDomains, FS_Subset, Zenon
<1>2. Cardinality(RecordsOf(s)') <= Cardinality(RecordsOf(s)) /\ Cardinality(RecordsOf(s)') \in Nat
      /\ Cardinality(RecordsOf(s)) \in Nat
  BY <1>1, FS_Subset, FS_CardinalityType, Zenon
<1>3. StakesPerAccount[s] \in Nat
  BY ParamAssumption DEF TypeOK
<1> QED BY <1>2, <1>3

\* Every step keeps the counters at or above the numbers of records.
LEMMA CounterNext == TypeOK /\ TypeOK' /\ CounterCoversRecords /\ [Next]_vars => CounterCoversRecords'
<1> SUFFICES ASSUME TypeOK, TypeOK', CounterCoversRecords, [Next]_vars, NEW r \in Stakers
             PROVE  Cardinality(RecordsOf(r)') <= StakesPerAccount'[r]
  BY Zenon DEF CounterCoversRecords
<1>0. /\ Cardinality(RecordsOf(r)) <= StakesPerAccount[r]
      /\ RecordsOf(r) \in SUBSET Keys /\ IsFiniteSet(RecordsOf(r))
      /\ Cardinality(RecordsOf(r)) \in Nat
      /\ StakesPerAccount \in [Stakers -> 0..StakeLimit] /\ StakesPerAccount[r] \in Nat
  <2>1. RecordsOf(r) \in SUBSET Keys
    BY Zenon DEF RecordsOf, Records
  <2>2. IsFiniteSet(RecordsOf(r))
    BY <2>1, FiniteDomains, FS_Subset, Zenon
  <2>3. StakesPerAccount \in [Stakers -> 0..StakeLimit] /\ StakesPerAccount[r] \in Nat
    BY ParamAssumption DEF TypeOK
  <2> QED BY <2>1, <2>2, <2>3, FS_CardinalityType, Zenon DEF CounterCoversRecords
<1>1. ASSUME \A k \in Keys : Staked'[k] # NoStake /\ k[1] = r => Staked[k] # NoStake,
             StakesPerAccount'[r] = StakesPerAccount[r]
      PROVE  Cardinality(RecordsOf(r)') <= StakesPerAccount'[r]
  <2>1. RecordsOf(r)' \in SUBSET RecordsOf(r)
    BY <1>1, Zenon DEF RecordsOf, Records, NoStake
  <2> QED BY <1>0, <1>1, <2>1, CounterCovers, Zenon
<1>2. ASSUME NEW s \in Stakers, NEW a \in Amounts, Stake(s, a)
      PROVE  Cardinality(RecordsOf(r)') <= StakesPerAccount'[r]
  <2>1. \A k \in Keys : k # <<s, relay>> => Staked'[k] = Staked[k]
    BY <1>2, Zenon DEF Stake, TypeOK
  <2>2. StakesPerAccount' = [StakesPerAccount EXCEPT ![s] = @ + 1]
    BY <1>2, Zenon DEF Stake
  <2>3. CASE r = s
    <3>1. RecordsOf(r)' \in SUBSET (RecordsOf(r) \cup {<<s, relay>>})
      BY <2>1, <2>3, Zenon DEF RecordsOf, Records, NoStake
    <3>2. IsFiniteSet(RecordsOf(r) \cup {<<s, relay>>})
          /\ Cardinality(RecordsOf(r) \cup {<<s, relay>>}) <= Cardinality(RecordsOf(r)) + 1
          /\ Cardinality(RecordsOf(r) \cup {<<s, relay>>}) \in Nat
      <4>1. IsFiniteSet(RecordsOf(r) \cup {<<s, relay>>})
            /\ \/ Cardinality(RecordsOf(r) \cup {<<s, relay>>}) = Cardinality(RecordsOf(r))
               \/ Cardinality(RecordsOf(r) \cup {<<s, relay>>}) = Cardinality(RecordsOf(r)) + 1
        BY <1>0, FS_AddElement, Zenon
      <4> QED BY <1>0, <4>1
    <3>3. Cardinality(RecordsOf(r)') <= Cardinality(RecordsOf(r) \cup {<<s, relay>>})
          /\ Cardinality(RecordsOf(r)') \in Nat
      BY <3>1, <3>2, FS_Subset, FS_CardinalityType, Zenon
    <3>4. StakesPerAccount'[r] = StakesPerAccount[r] + 1
      BY <1>0, <2>2, <2>3, Zenon
    <3> QED BY <1>0, <3>2, <3>3, <3>4
  <2>4. CASE r # s
    <3>1. \A k \in Keys : k[1] = r => Staked'[k] = Staked[k]
      BY <2>1, <2>4 DEF Keys
    <3>2. StakesPerAccount'[r] = StakesPerAccount[r]
      BY <1>0, <2>2, <2>4, Zenon
    <3> QED BY <1>1, <3>1, <3>2, Zenon
  <2> QED BY <2>3, <2>4, Zenon
<1>3. ASSUME NEW s \in Stakers, UnstakeAll(s)
      PROVE  Cardinality(RecordsOf(r)') <= StakesPerAccount'[r]
  <2>1. /\ \A k \in Keys : Staked'[k] = IF k[1] = s THEN NoStake ELSE Staked[k]
        /\ StakesPerAccount' = [StakesPerAccount EXCEPT ![s] = 0]
    BY <1>3, Zenon DEF UnstakeAll
  <2>2. CASE r = s
    <3>1. RecordsOf(r)' = {}
      BY <2>1, <2>2, Zenon DEF RecordsOf, Records, NoStake
    <3>2. StakesPerAccount'[r] = 0
      BY <1>0, <2>1, <2>2, Zenon
    <3> QED BY <3>1, <3>2, FS_EmptySet
  <2>3. CASE r # s
    <3>1. \A k \in Keys : k[1] = r => Staked'[k] = Staked[k]
      BY <2>1, <2>3, Zenon
    <3>2. StakesPerAccount'[r] = StakesPerAccount[r]
      BY <1>0, <2>1, <2>3, Zenon
    <3> QED BY <1>1, <3>1, <3>2, Zenon
  <2> QED BY <2>2, <2>3, Zenon
<1>4. ASSUME NEW s \in Stakers, NEW a \in Amounts, UnstakePartial(s, a)
      PROVE  Cardinality(RecordsOf(r)') <= StakesPerAccount'[r]
  <2>1. Staked' = [l \in Keys |->
                    CASE l \in Deleted(s, a) -> NoStake
                      [] l \in RecordsOf(s) \ Deleted(s, a) ->
                           [Staked[l] EXCEPT !.amount = @ - LeftFor(l, a)]
                      [] OTHER -> Staked[l]]
    BY <1>4, Zenon DEF UnstakePartial
  <2>2. StakesPerAccount' = [StakesPerAccount EXCEPT ![s] = @ - DeletedCount(s, a)]
    BY <1>4, Zenon DEF UnstakePartial
  <2>3. Deleted(s, a) \in SUBSET RecordsOf(s)
    BY Zenon DEF Deleted
  <2>4. CASE r = s
    <3>1. ASSUME NEW k \in RecordsOf(r)' PROVE k \in RecordsOf(s) \ Deleted(s, a)
      <4>1. k \in Keys /\ k[1] = s /\ Staked'[k] # NoStake
        BY <2>4, Zenon DEF RecordsOf, Records, NoStake
      <4>2. k \notin Deleted(s, a)
        BY <2>1, <4>1, Zenon
      <4>3. k \notin RecordsOf(s) => Staked'[k] = Staked[k]
        BY <2>1, <4>1, <4>2, Zenon
      <4>4. k \in RecordsOf(s)
        BY <4>1, <4>3, Zenon DEF RecordsOf, Records
      <4> QED BY <4>2, <4>4, Zenon
    <3>2. IsFiniteSet(RecordsOf(s)) /\ IsFiniteSet(Deleted(s, a))
      BY <1>0, <2>3, <2>4, FS_Subset, Zenon
    <3>3. /\ IsFiniteSet(RecordsOf(s) \ Deleted(s, a))
          /\ Cardinality(RecordsOf(s) \ Deleted(s, a))
               = Cardinality(RecordsOf(s)) - Cardinality(Deleted(s, a))
      <4>1. RecordsOf(s) \cap Deleted(s, a) = Deleted(s, a)
        BY <2>3, Zenon
      <4> QED BY <3>2, <4>1, FS_Difference, ZenonT(60)
    <3>4. Cardinality(RecordsOf(r)') <= Cardinality(RecordsOf(s) \ Deleted(s, a))
          /\ Cardinality(RecordsOf(r)') \in Nat
      BY <3>1, <3>3, FS_Subset, FS_CardinalityType, Zenon
    <3>5. StakesPerAccount'[r] = StakesPerAccount[r] - Cardinality(Deleted(s, a))
      BY <1>0, <2>2, <2>4, Zenon DEF DeletedCount
    <3>6. Cardinality(Deleted(s, a)) \in Nat
      BY <3>2, FS_CardinalityType, Zenon
    <3> QED BY <1>0, <2>4, <3>3, <3>4, <3>5, <3>6
  <2>5. CASE r # s
    <3>1. \A k \in Keys : k[1] = r => k \notin RecordsOf(s)
      BY <2>5, Zenon DEF RecordsOf
    <3>2. \A k \in Keys : k[1] = r => Staked'[k] = Staked[k]
      BY <2>1, <2>3, <3>1, Zenon
    <3>3. StakesPerAccount'[r] = StakesPerAccount[r]
      BY <1>0, <2>2, <2>5, Zenon
    <3> QED BY <1>1, <3>2, <3>3, Zenon
  <2> QED BY <2>4, <2>5, Zenon
<1>5. ASSUME NEW n \in 1..MaxPayout, PayoutStakers(n)
      PROVE  Cardinality(RecordsOf(r)') <= StakesPerAccount'[r]
  <2>1. \A k \in Keys : k \notin Visited(n) => Staked'[k] = Staked[k]
    BY <1>5, Zenon DEF PayoutStakers
  <2>2. \A k \in Visited(n) : Staked[k] # NoStake
    BY VisitedKeys, Zenon DEF Records
  <2>3. StakesPerAccount' = StakesPerAccount
    BY <1>5, Zenon DEF PayoutStakers
  <2> QED BY <1>1, <2>1, <2>2, <2>3, Zenon
<1>6. ASSUME UNCHANGED <<Staked, StakesPerAccount>>
      PROVE  Cardinality(RecordsOf(r)') <= StakesPerAccount'[r]
  BY <1>1, <1>6, Zenon
<1>7. CASE NewBlock
  BY <1>6, <1>7, Zenon DEF NewBlock
<1>8. CASE Environment
  BY <1>6, <1>8, Zenon DEF Environment, SetAdminAddress, SetMaintenance, Spend, Hold, Release
<1>9. ASSUME NEW b \in Blocks, ResolveSkippedBlock(b)
      PROVE  Cardinality(RecordsOf(r)') <= StakesPerAccount'[r]
  BY <1>6, <1>9, Zenon DEF ResolveSkippedBlock
<1>10. CASE UNCHANGED vars
  BY <1>6, <1>10, Zenon DEF vars
<1> QED BY <1>2, <1>3, <1>4, <1>5, <1>7, <1>8, <1>9, <1>10, Zenon DEF Next, Call

\* The counter of an account's stakes never falls below the number of its records, so
\* that the checked subtraction of unstake_partial never locks a stake in.
THEOREM CounterCorrect == Spec => []CounterCoversRecords
<1>1. Init => CounterCoversRecords
  <2>1. Init => \A s \in Stakers : RecordsOf(s) = {} /\ StakesPerAccount[s] = 0
    BY Zenon DEF Init, RecordsOf, Records
  <2> QED BY <2>1, FS_EmptySet DEF CounterCoversRecords
<1>2. TypeOK /\ CounterCoversRecords /\ [Next]_vars => TypeOK' /\ CounterCoversRecords'
  BY TypeNext, CounterNext, Zenon
<1> QED BY <1>1, <1>2, TypeInit, PTL DEF Spec

-----------------------------------------------------------------------------
(* Each interval is paid once.                                            *)

\* A stake made in the current relay block is not due yet: its recalculation block is
\* still the one that stake() gave it, so a second stake in the block changes nothing
\* but the amount.
FreshStakes ==
  \A k \in Records :
    k[2] <= relay /\ (k[2] = relay => Staked[k].recalc = FirstRecalcBlock(relay))

\* Adding one interval adds one to the quotient.
LEMMA OneMoreInterval ==
  ASSUME NEW x \in Nat PROVE (x + Interval) \div Interval = x \div Interval + 1
<1> DEFINE q == x \div Interval
           p == (x + Interval) \div Interval
<1>1. Interval \in Nat \ {0}
  BY ParamAssumption, Zenon
<1>2. q \in Nat /\ q * Interval <= x /\ x < q * Interval + Interval
  BY <1>1
<1>3. p \in Nat /\ p * Interval <= x + Interval /\ x + Interval < p * Interval + Interval
  BY <1>1
<1> HIDE DEF p, q
<1>4. q * Interval \in Nat /\ p * Interval \in Nat
      /\ (q + 1) * Interval = q * Interval + Interval
      /\ (q + 2) * Interval = q * Interval + 2 * Interval
  BY <1>1, <1>2, <1>3
<1>5. ASSUME p <= q PROVE FALSE
  <2>1. PICK d \in Nat : q = p + d
    <3>1. q - p \in Nat /\ q = p + (q - p)
      BY <1>2, <1>3, <1>5
    <3> QED BY <3>1, Zenon
  <2>2. q * Interval = p * Interval + d * Interval /\ d * Interval \in Nat
    BY <1>1, <1>3, <2>1
  <2> QED BY <1>1, <1>2, <1>3, <1>4, <2>2
<1>6. ASSUME p >= q + 2 PROVE FALSE
  <2>1. PICK d \in Nat : p = (q + 2) + d
    <3>1. p - (q + 2) \in Nat /\ p = (q + 2) + (p - (q + 2))
      BY <1>2, <1>3, <1>6
    <3> QED BY <3>1, Zenon
  <2>2. p * Interval = (q + 2) * Interval + d * Interval /\ d * Interval \in Nat
    BY <1>1, <1>2, <2>1
  <2> QED BY <1>1, <1>2, <1>3, <1>4, <2>2
<1>7. p = q + 1
  BY <1>2, <1>3, <1>5, <1>6
<1> QED BY <1>7, Zenon DEF p, q

\* What a step does to a record that is there before and after it: its recalculation
\* block stays, or stake() sets it, or payout_stakers moves it on when it is due.
LEMMA RecalcSteps ==
  ASSUME TypeOK, TypeOK', [Next]_vars, NEW k \in Keys, Staked'[k] # NoStake
  PROVE  \/ Staked[k] # NoStake /\ Staked'[k].recalc = Staked[k].recalc
         \/ /\ k[2] = relay /\ relay' = relay /\ Staked'[k].recalc = FirstRecalcBlock(relay)
         \/ /\ Staked[k] # NoStake /\ Due(k) /\ relay' = relay
            /\ Staked'[k].recalc = CurrentRecalcBlock(relay) + Interval
            /\ Staked'[k].amount = Staked[k].amount + IncomeOf(k)
<1> DEFINE P == \/ Staked[k] # NoStake /\ Staked'[k].recalc = Staked[k].recalc
                \/ /\ k[2] = relay /\ relay' = relay /\ Staked'[k].recalc = FirstRecalcBlock(relay)
                \/ /\ Staked[k] # NoStake /\ Due(k) /\ relay' = relay
                   /\ Staked'[k].recalc = CurrentRecalcBlock(relay) + Interval
                   /\ Staked'[k].amount = Staked[k].amount + IncomeOf(k)
<1>1. ASSUME UNCHANGED Staked PROVE P
  BY <1>1, Zenon
<1>2. ASSUME NEW s \in Stakers, NEW a \in Amounts, Stake(s, a) PROVE P
  <2>1. CASE k = <<s, relay>>
    BY <1>2, <2>1, Zenon DEF Stake, TypeOK, clock
  <2>2. CASE k # <<s, relay>>
    BY <1>2, <2>2, Zenon DEF Stake, TypeOK
  <2> QED BY <2>1, <2>2, Zenon
<1>3. ASSUME NEW s \in Stakers, UnstakeAll(s) PROVE P
  BY <1>3, Zenon DEF UnstakeAll
<1>4. ASSUME NEW s \in Stakers, NEW a \in Amounts, UnstakePartial(s, a) PROVE P
  <2>1. Staked'[k] = CASE k \in Deleted(s, a) -> NoStake
                       [] k \in RecordsOf(s) \ Deleted(s, a) ->
                            [Staked[k] EXCEPT !.amount = @ - LeftFor(k, a)]
                       [] OTHER -> Staked[k]
    BY <1>4, Zenon DEF UnstakePartial
  <2>2. CASE k \in RecordsOf(s) \ Deleted(s, a)
    <3>1. Staked'[k] = [Staked[k] EXCEPT !.amount = @ - LeftFor(k, a)]
      BY <2>1, <2>2, Zenon
    <3>2. Staked[k] # NoStake /\ Staked[k] \in [amount : Nat, recalc : Nat]
      BY <2>2, Zenon DEF RecordsOf, Records, TypeOK
    <3> QED BY <3>1, <3>2, Zenon
  <2>3. CASE k \notin RecordsOf(s) \ Deleted(s, a)
    BY <2>1, <2>3, Zenon
  <2> QED BY <2>2, <2>3, Zenon
<1>5. ASSUME NEW n \in 1..MaxPayout, PayoutStakers(n) PROVE P
  <2>1. Staked'[k] = IF k \in Visited(n) /\ Due(k)
                     THEN [amount |-> Staked[k].amount + IncomeOf(k),
                           recalc |-> CurrentRecalcBlock(relay) + Interval]
                     ELSE Staked[k]
    BY <1>5, Zenon DEF PayoutStakers
  <2>2. k \in Visited(n) => Staked[k] # NoStake
    BY VisitedKeys, Zenon DEF Records
  <2>3. relay' = relay
    BY <1>5, Zenon DEF PayoutStakers, clock
  <2>4. CASE k \in Visited(n) /\ Due(k)
    <3>1. Staked'[k] = [amount |-> Staked[k].amount + IncomeOf(k),
                        recalc |-> CurrentRecalcBlock(relay) + Interval]
      BY <2>1, <2>4, Zenon
    <3> DEFINE x == Staked[k].amount + IncomeOf(k)
               y == CurrentRecalcBlock(relay) + Interval
    <3>2. [amount |-> x, recalc |-> y].amount = x /\ [amount |-> x, recalc |-> y].recalc = y
      <4> HIDE DEF x, y
      <4> QED BY Zenon
    <3>3. Staked'[k].amount = x /\ Staked'[k].recalc = y
      <4>1. Staked'[k] = [amount |-> x, recalc |-> y]
        BY <3>1, Zenon
      <4> HIDE DEF x, y
      <4> QED BY <3>2, <4>1, Zenon
    <3> QED BY <2>2, <2>3, <2>4, <3>3, Zenon
  <2>5. CASE ~(k \in Visited(n) /\ Due(k))
    BY <2>1, <2>5, Zenon
  <2> QED BY <2>4, <2>5, Zenon
<1>6. CASE NewBlock
  BY <1>1, <1>6, Zenon DEF NewBlock
<1>7. CASE Environment
  BY <1>1, <1>7, Zenon DEF Environment, SetAdminAddress, SetMaintenance, Spend, Hold, Release
<1>8. ASSUME NEW b \in Blocks, ResolveSkippedBlock(b) PROVE P
  BY <1>1, <1>8, Zenon DEF ResolveSkippedBlock
<1>9. CASE UNCHANGED vars
  BY <1>1, <1>9, Zenon DEF vars
<1> QED BY <1>2, <1>3, <1>4, <1>5, <1>6, <1>7, <1>8, <1>9, Zenon DEF Next, Call

\* The relay block number never goes back.
LEMMA RelayForward == TypeOK /\ [Next]_vars => relay <= relay'
<1> SUFFICES ASSUME TypeOK, [Next]_vars PROVE relay <= relay'
  BY Zenon
<1>1. relay \in Nat
  BY ParamAssumption DEF TypeOK, Relays
<1>2. CASE NewBlock
  <2>1. PICK d \in 0..MaxRelayStep : relay' = relay + d
    BY <1>2, Zenon DEF NewBlock
  <2> QED BY <1>1, <2>1, ParamAssumption
<1>3. CASE Call
  <2>1. UNCHANGED clock
    <3>1. ASSUME NEW n \in 1..MaxPayout, PayoutStakers(n) PROVE UNCHANGED clock
      BY <3>1, Zenon DEF PayoutStakers
    <3>2. ASSUME NEW b \in Blocks, ResolveSkippedBlock(b) PROVE UNCHANGED clock
      BY <3>2, Zenon DEF ResolveSkippedBlock
    <3>3. ASSUME NEW s \in Stakers, UnstakeAll(s) PROVE UNCHANGED clock
      BY <3>3, Zenon DEF UnstakeAll
    <3>4. ASSUME NEW s \in Stakers, NEW a \in Amounts, Stake(s, a) PROVE UNCHANGED clock
      BY <3>4, Zenon DEF Stake
    <3>5. ASSUME NEW s \in Stakers, NEW a \in Amounts, UnstakePartial(s, a) PROVE UNCHANGED clock
      BY <3>5, Zenon DEF UnstakePartial
    <3> QED BY <1>3, <3>1, <3>2, <3>3, <3>4, <3>5, Zenon DEF Call
  <2> QED BY <1>1, <2>1 DEF clock
<1>4. CASE Environment
  BY <1>1, <1>4 DEF Environment, SetAdminAddress, SetMaintenance, Spend, Hold, Release, clock
<1>5. CASE UNCHANGED vars
  BY <1>1, <1>5 DEF vars
<1> QED BY <1>2, <1>3, <1>4, <1>5, Zenon DEF Next

\* A payout cannot reach a stake of the current relay block, and a later relay block
\* leaves it behind.
LEMMA FreshNext == TypeOK /\ TypeOK' /\ FreshStakes /\ [Next]_vars => FreshStakes'
<1> SUFFICES ASSUME TypeOK, TypeOK', FreshStakes, [Next]_vars, NEW k \in Records'
             PROVE  k[2] <= relay' /\ (k[2] = relay' => Staked'[k].recalc = FirstRecalcBlock(relay'))
  BY Zenon DEF FreshStakes, FirstRecalcBlock
<1>1. k \in Keys /\ Staked'[k] # NoStake /\ relay \in Nat /\ relay' \in Nat /\ k[2] \in Nat
      /\ relay <= relay' /\ Staked[k].recalc \in Nat
  <2>1. k \in Keys /\ Staked'[k] # NoStake
    BY Zenon DEF Records
  <2>2. k[2] \in Nat
    BY <2>1, ParamAssumption DEF Relays, Keys
  <2>3. relay \in Nat /\ relay' \in Nat /\ Staked[k].recalc \in Nat
    BY <2>1, ParamAssumption DEF TypeOK, Relays
  <2> QED BY <2>1, <2>2, <2>3, RelayForward, Zenon
<1>2. CASE Staked[k] # NoStake /\ Staked'[k].recalc = Staked[k].recalc
  <2>1. k[2] <= relay /\ (k[2] = relay => Staked[k].recalc = FirstRecalcBlock(relay))
    BY <1>1, <1>2, Zenon DEF FreshStakes, Records
  <2>2. k[2] = relay' => relay = relay'
    BY <1>1, <2>1
  <2> QED BY <1>1, <1>2, <2>1, <2>2
<1>3. CASE k[2] = relay /\ relay' = relay /\ Staked'[k].recalc = FirstRecalcBlock(relay)
  BY <1>1, <1>3, Zenon
<1>4. CASE Staked[k] # NoStake /\ Due(k) /\ relay' = relay
  <2>1. k[2] <= relay /\ (k[2] = relay => Staked[k].recalc = FirstRecalcBlock(relay))
    BY <1>1, <1>4, Zenon DEF FreshStakes, Records
  <2>2. CurrentRecalcBlock(relay) <= relay /\ FirstRecalcBlock(relay) > relay
        /\ CurrentRecalcBlock(relay) \in Nat /\ FirstRecalcBlock(relay) \in Nat
    BY <1>1, RecalcBlocks, Zenon
  <2>3. k[2] # relay
    BY <1>1, <1>4, <2>1, <2>2 DEF Due
  <2> QED BY <1>4, <2>1, <2>3, Zenon
<1> QED BY <1>1, <1>2, <1>3, <1>4, RecalcSteps, Zenon

\* Each interval is paid once: whenever a record's recalculation block moves, it moves
\* forward by k intervals, no further than one past the current one, and the amount is
\* compounded k times.
THEOREM IntervalsPaidOnce == Spec => PaysEachIntervalOnce
<1> DEFINE Pays == \A k \in Records : LET old == Staked[k]  new == Staked'[k] IN
             new # NoStake /\ new.recalc # old.recalc =>
               /\ new.recalc > old.recalc
               /\ new.recalc <= CurrentRecalcBlock(relay) + Interval
               /\ new.amount = Compound(old.amount, (new.recalc - old.recalc) \div Interval)
<1>1. Init => FreshStakes
  BY Zenon DEF Init, FreshStakes, Records
<1>2. TypeOK /\ FreshStakes /\ [Next]_vars => TypeOK' /\ FreshStakes'
  BY TypeNext, FreshNext, Zenon
<1>3. ASSUME TypeOK, TypeOK', FreshStakes, [Next]_vars PROVE Pays
  <2> SUFFICES ASSUME NEW k \in Records, Staked'[k] # NoStake, Staked'[k].recalc # Staked[k].recalc
               PROVE  /\ Staked'[k].recalc > Staked[k].recalc
                      /\ Staked'[k].recalc <= CurrentRecalcBlock(relay) + Interval
                      /\ Staked'[k].amount
                           = Compound(Staked[k].amount,
                                      (Staked'[k].recalc - Staked[k].recalc) \div Interval)
    BY Zenon
  <2>1. k \in Keys /\ relay \in Nat /\ Staked[k] \in [amount : Nat, recalc : Nat]
        /\ Interval \in Nat \ {0}
    BY <1>3, ParamAssumption DEF Records, TypeOK, Relays
  <2>2. ~(k[2] = relay /\ Staked'[k].recalc = FirstRecalcBlock(relay))
    BY <1>3, Zenon DEF FreshStakes
  <2>3. /\ Due(k) /\ Staked'[k].recalc = CurrentRecalcBlock(relay) + Interval
        /\ Staked'[k].amount = Staked[k].amount + IncomeOf(k)
    BY <1>3, <2>1, <2>2, RecalcSteps, Zenon
  <2>4. CurrentRecalcBlock(relay) \in Nat
    BY <2>1, RecalcBlocks, Zenon
  <2> DEFINE x == CurrentRecalcBlock(relay) - Staked[k].recalc
  <2>5. x \in Nat
    BY <2>1, <2>3, <2>4 DEF Due
  <2>6. Staked'[k].recalc - Staked[k].recalc = x + Interval
    BY <2>1, <2>3, <2>4
  <2>7. Iters(k) = x \div Interval + 1
    BY Zenon DEF Iters
  <2>8. x \div Interval + 1 \in Nat
    <3>1. \A p \in Nat : p \div Interval + 1 \in Nat
      BY <2>1
    <3> QED BY <2>5, <3>1, Zenon
  <2> HIDE DEF x
  <2>9. Iters(k) = (Staked'[k].recalc - Staked[k].recalc) \div Interval
    BY <2>5, <2>6, <2>7, OneMoreInterval, Zenon
  <2>10. Compound(Staked[k].amount, Iters(k)) \in Nat
    BY <2>1, <2>7, <2>8, CompoundType, Zenon
  <2>11. IncomeOf(k) = Compound(Staked[k].amount, Iters(k)) - Staked[k].amount
    BY <2>3, Zenon DEF IncomeOf, CalculateIncome
  <2>12. Staked'[k].amount = Compound(Staked[k].amount, Iters(k))
    BY <2>1, <2>3, <2>10, <2>11
  <2>13. Staked'[k].recalc > Staked[k].recalc
         /\ Staked'[k].recalc <= CurrentRecalcBlock(relay) + Interval
    BY <2>1, <2>3, <2>4 DEF Due
  <2> QED BY <2>9, <2>12, <2>13, Zenon
<1>4. TypeOK /\ TypeOK' /\ FreshStakes /\ [Next]_vars => [Pays]_vars
  BY <1>3, Zenon
<1> QED BY <1>1, <1>2, <1>4, TypeInit, PTL DEF Spec, PaysEachIntervalOnce
=============================================================================
