---------------------------- MODULE AppPromotion ----------------------------
(***************************************************************************)
(* The staking pallet, pallets/app-promotion: accounts freeze part of      *)
(* their balance as stakes, the admin pays interest to them page by page,  *)
(* and unstaked money stays frozen in a per-block queue until its block    *)
(* comes.  An extrinsic that returns an error is rolled back as a whole,   *)
(* so an action describes the successful call and its guard collects the   *)
(* error checks.  on_initialize is a hook: it cannot fail and is part of   *)
(* NewBlock.                                                               *)
(***************************************************************************)
EXTENDS Integers, Sequences, FiniteSets, Sums

CONSTANTS
  Stakers,        \* accounts that stake
  StakerRank,     \* hash order of the stakers in the Staked map
  BlockRank,      \* hash order of the relay blocks inside one staker's prefix
  Interval,       \* RecalculationInterval, in relay blocks
  PendingInterval,\* PendingInterval, in parachain blocks
  PendingLimit,   \* PENDING_LIMIT_PER_BLOCK
  StakeLimit,     \* the 10 of stake()
  MinStake,       \* 100 * Nominal
  RateNum, RateDen, \* IntervalIncome, a Perbill
  MaxPayout,      \* max_stakers_per_calculation
  NoRecord,       \* PreviousCalculatedRecord = None
  Amounts,        \* amounts that the calls are made with
  OtherAmounts,   \* amounts that the rest of the chain spends or holds
  InitialFree, InitialTreasury,
  MaxRelayStep,   \* bound: relay blocks between two parachain blocks
  MaxRelay,       \* bound: last relay block
  MaxBlock        \* bound: last parachain block

Relays == 0..MaxRelay
Blocks == 0..MaxBlock
Keys == Stakers \X Relays

ASSUME StakersAssumption == IsFiniteSet(Stakers)

ASSUME RankAssumption ==
  /\ StakerRank \in [Stakers -> Nat]
  /\ \A s, t \in Stakers : StakerRank[s] = StakerRank[t] => s = t
  /\ BlockRank \in [Relays -> Nat]
  /\ \A b, c \in Relays : BlockRank[b] = BlockRank[c] => b = c

ASSUME ParamAssumption ==
  /\ Interval \in Nat \ {0} /\ PendingInterval \in Nat \ {0}
  /\ PendingLimit \in Nat \ {0} /\ StakeLimit \in Nat \ {0} /\ MaxPayout \in Nat \ {0}
  /\ MinStake \in Nat \ {0} /\ RateNum \in Nat /\ RateDen \in Nat \ {0}
  /\ Amounts \subseteq Nat /\ OtherAmounts \subseteq Nat
  /\ InitialFree \in Nat /\ InitialTreasury \in Nat
  /\ MaxRelay \in Nat /\ MaxBlock \in Nat /\ MaxRelayStep \in Nat
  /\ NoRecord \notin Keys

VARIABLES
  relay,            \* current_block_number of the relay chain
  block,            \* frame_system::block_number
  maintenance,      \* IsMaintenanceModeEnabled
  adminSet,         \* Admin is Some
  free, held,       \* Currency: free balance and balance on hold of an account
  frozen,           \* Currency: what this pallet's FreezeIdentifier freezes
  treasury,         \* free balance of TreasuryAccountId
  Staked,           \* (staker, relay block) -> (amount, next recalculation block)
  StakesPerAccount,
  TotalStaked,
  PendingUnstake,   \* parachain block -> sequence of <<staker, amount>>
  PreviousCalculatedRecord,
  skipped,          \* history: blocks initialised under maintenance
  sweepFrom,        \* history: recalculation block when the current sweep began
  sweptTo           \* history: recalculation block of the last complete sweep

accounts == <<free, held, frozen, treasury>>
clock == <<relay, block, maintenance, skipped>>
history == <<sweepFrom, sweptTo>>
vars == <<relay, block, maintenance, adminSet, free, held, frozen, treasury, Staked,
          StakesPerAccount, TotalStaked, PendingUnstake, PreviousCalculatedRecord,
          skipped, sweepFrom, sweptTo>>

-----------------------------------------------------------------------------
(* The Staked map.  An absent key reads as the default record.             *)

NoStake == [amount |-> 0, recalc |-> 0]
Records == {k \in Keys : Staked[k] # NoStake}
RecordsOf(s) == {k \in Records : k[1] = s}

\* Iteration order of the map: the staker's hash, then the block's hash.
Before(k, l) ==
  \/ StakerRank[k[1]] < StakerRank[l[1]]
  \/ k[1] = l[1] /\ BlockRank[k[2]] < BlockRank[l[2]]

StakedBy(s) == Sum([b \in Relays |-> Staked[<<s, b>>].amount], Relays)

QueuedFor(queue, s) ==
  Sum([i \in DOMAIN queue |-> IF queue[i][1] = s THEN queue[i][2] ELSE 0], DOMAIN queue)
PendingAt(b, s) == QueuedFor(PendingUnstake[b], s)
PendingOf(s) == Sum([b \in Blocks |-> PendingAt(b, s)], Blocks)

-----------------------------------------------------------------------------
(* Interest.  Perbill * x rounds to the nearest integer, halves down.      *)

IntervalIncome(x) == (2 * x * RateNum + RateDen - 1) \div (2 * RateDen)

Compound(base, iters) ==
  LET c[i \in 0..iters] == IF i = 0 THEN base ELSE c[i - 1] + IntervalIncome(c[i - 1])
  IN  c[iters]

CalculateIncome(base, iters) == Compound(base, iters) - base

CurrentRecalcBlock(r) == (r \div Interval) * Interval

FirstRecalcBlock(r) ==
  (r \div Interval + (IF r % Interval = 0 THEN 1 ELSE 2)) * Interval

-----------------------------------------------------------------------------
Init ==
  /\ relay = 0 /\ block = 0
  /\ maintenance = FALSE /\ adminSet = FALSE
  /\ free = [s \in Stakers |-> InitialFree]
  /\ held = [s \in Stakers |-> 0]
  /\ frozen = [s \in Stakers |-> 0]
  /\ treasury = InitialTreasury
  /\ Staked = [k \in Keys |-> NoStake]
  /\ StakesPerAccount = [s \in Stakers |-> 0]
  /\ TotalStaked = 0
  /\ PendingUnstake = [b \in Blocks |-> <<>>]
  /\ PreviousCalculatedRecord = NoRecord
  /\ skipped = {} /\ sweepFrom = 0 /\ sweptTo = 0

\* What a staker's freeze becomes when a queue's amounts are thawed one after the
\* other, each with checked_sub(..).unwrap_or_default().
ThawEverything(s, owed) == IF owed = 0 THEN frozen[s] ELSE 0
Thaw(s, owed) == IF owed <= frozen[s] THEN frozen[s] - owed ELSE 0

\* The next parachain block, with the pallet's on_initialize.  The relay number may
\* stay the same (RelayNumberMonotonicallyIncreases).  In maintenance mode
\* the hook returns at once and the queue of this block stays where it is.
NewBlock ==
  /\ block < MaxBlock
  /\ block' = block + 1
  /\ \E d \in 0..MaxRelayStep : relay + d <= MaxRelay /\ relay' = relay + d
  /\ \/ /\ maintenance
        /\ skipped' = skipped \cup {block + 1}
        /\ UNCHANGED <<PendingUnstake, frozen>>
     \/ /\ ~maintenance
        /\ PendingUnstake' = [PendingUnstake EXCEPT ![block + 1] = <<>>]
        /\ frozen' = [s \in Stakers |-> Thaw(s, PendingAt(block + 1, s))]
        /\ UNCHANGED skipped
  /\ UNCHANGED <<maintenance, adminSet, free, held, treasury, Staked, StakesPerAccount,
                 TotalStaked, PreviousCalculatedRecord, history>>

\* pallet-maintenance: enable and disable, both by root.
SetMaintenance(on) ==
  /\ maintenance # on
  /\ maintenance' = on
  /\ UNCHANGED <<relay, block, skipped, adminSet, accounts, Staked, StakesPerAccount,
                 TotalStaked, PendingUnstake, PreviousCalculatedRecord, history>>

SetAdminAddress ==
  /\ ~adminSet
  /\ adminSet' = TRUE
  /\ UNCHANGED <<clock, accounts, Staked, StakesPerAccount, TotalStaked, PendingUnstake,
                 PreviousCalculatedRecord, history>>

StakeLimitInclusive(s) == StakesPerAccount[s] <= StakeLimit
UnderStakeLimit(s) == StakesPerAccount[s] < StakeLimit

\* The balance minus what this pallet has frozen; a hold may leave less than that.
Available(s) == free[s] - frozen[s]

Stake(s, amount) ==
  /\ ~maintenance
  /\ UnderStakeLimit(s)
  /\ amount >= MinStake
  /\ amount <= Available(s)
  /\ frozen' = [frozen EXCEPT ![s] = @ + amount]
  /\ Staked' = [Staked EXCEPT ![<<s, relay>>] =
                  [amount |-> @.amount + amount, recalc |-> FirstRecalcBlock(relay)]]
  /\ TotalStaked' = TotalStaked + amount
  /\ StakesPerAccount' = [StakesPerAccount EXCEPT ![s] = @ + 1]
  /\ UNCHANGED <<clock, adminSet, free, held, treasury, PendingUnstake,
                 PreviousCalculatedRecord, history>>

UnpendingBlockNow == block
UnpendingBlock == block + PendingInterval
CanQueue == UnpendingBlock \in Blocks /\ Len(PendingUnstake[UnpendingBlock]) < PendingLimit
Queue(s, amount) ==
  PendingUnstake' = [PendingUnstake EXCEPT ![UnpendingBlock] = Append(@, <<s, amount>>)]

\* With nothing staked the call succeeds before it clears StakesPerAccount.
UnstakeAll(s) ==
  /\ ~maintenance
  /\ CanQueue
  /\ LET total == StakedBy(s) IN
       /\ total # 0
       /\ TotalStaked >= total
       /\ Queue(s, total)
       /\ TotalStaked' = TotalStaked - total
  /\ Staked' = [k \in Keys |-> IF k[1] = s THEN NoStake ELSE Staked[k]]
  /\ StakesPerAccount' = [StakesPerAccount EXCEPT ![s] = 0]
  /\ UNCHANGED <<clock, adminSet, accounts, PreviousCalculatedRecord, history>>

\* unstake_partial takes the stakes in the order of their blocks: what is left of
\* the amount when the loop reaches record k.
OlderThan(k) == Sum([b \in Relays |-> Staked[<<k[1], b>>].amount], {b \in Relays : b < k[2]})
LeftFor(k, amount) == IF OlderThan(k) >= amount THEN 0 ELSE amount - OlderThan(k)

Deleted(s, amount) == {k \in RecordsOf(s) : LeftFor(k, amount) >= Staked[k].amount}
TouchedCount(s, amount) == Cardinality({k \in RecordsOf(s) : LeftFor(k, amount) > 0})
DeletedCount(s, amount) == Cardinality(Deleted(s, amount))

UnstakePartial(s, amount) ==
  /\ ~maintenance
  /\ amount # 0
  /\ CanQueue
  /\ amount <= StakedBy(s)
  /\ TotalStaked >= amount
  /\ StakesPerAccount[s] >= DeletedCount(s, amount)
  /\ TotalStaked' = TotalStaked - amount
  /\ StakesPerAccount' = [StakesPerAccount EXCEPT ![s] = @ - DeletedCount(s, amount)]
  /\ Staked' = [k \in Keys |->
                  CASE k \in Deleted(s, amount) -> NoStake
                    [] k \in RecordsOf(s) \ Deleted(s, amount) ->
                         [Staked[k] EXCEPT !.amount = @ - LeftFor(k, amount)]
                    [] OTHER -> Staked[k]]
  /\ Queue(s, amount)
  /\ UNCHANGED <<clock, adminSet, accounts, PreviousCalculatedRecord, history>>

-----------------------------------------------------------------------------
(* payout_stakers pays the first n stakers it meets behind the saved       *)
(* record.  The records of a staker lie together in the iteration order,   *)
(* and the call stops at the first record of staker n + 1.                 *)

Remaining ==
  IF PreviousCalculatedRecord = NoRecord
  THEN Records
  ELSE {k \in Records : Before(PreviousCalculatedRecord, k)}

Visited(n) ==
  LET stakers == {k[1] : k \in Remaining}
  IN  {k \in Remaining : Cardinality({s \in stakers : StakerRank[s] < StakerRank[k[1]]}) < n}

\* The record that a call which stops early saves: the last one it handled.
FirstUnvisited(visited) ==
  CHOOSE k \in Remaining \ visited : \A l \in (Remaining \ visited) \ {k} : Before(k, l)
SavedRecord(visited) == CHOOSE k \in visited : \A l \in visited \ {k} : Before(l, k)

Due(k) == CurrentRecalcBlock(relay) >= Staked[k].recalc
ElapsedIntervals(k) == (CurrentRecalcBlock(relay) - Staked[k].recalc) \div Interval
Iters(k) == (CurrentRecalcBlock(relay) - Staked[k].recalc) \div Interval + 1
IncomeOf(k) == IF Due(k) THEN CalculateIncome(Staked[k].amount, Iters(k)) ELSE 0
IncomeIn(S) == Sum([k \in S |-> IncomeOf(k)], S)
PaidTo(visited, s) == IncomeIn({k \in visited : k[1] = s})

UnchangedTotal(visited) == TotalStaked
TotalAfterPayout(visited) == TotalStaked + IncomeIn(visited)

PayoutStakers(n) ==
  LET visited == Visited(n)
      finished == visited = Remaining
      began == IF PreviousCalculatedRecord = NoRecord THEN CurrentRecalcBlock(relay) ELSE sweepFrom
  IN
  /\ ~maintenance
  /\ adminSet
  /\ n # 0 /\ n <= MaxPayout
  /\ IncomeIn(visited) <= treasury
  /\ treasury' = treasury - IncomeIn(visited)
  /\ free' = [s \in Stakers |-> free[s] + PaidTo(visited, s)]
  /\ frozen' = [s \in Stakers |-> frozen[s] + PaidTo(visited, s)]
  /\ TotalStaked' = TotalAfterPayout(visited)
  /\ Staked' = [k \in Keys |->
                  IF k \in visited /\ Due(k)
                  THEN [amount |-> Staked[k].amount + IncomeOf(k),
                        recalc |-> CurrentRecalcBlock(relay) + Interval]
                  ELSE Staked[k]]
  /\ PreviousCalculatedRecord' = IF finished THEN NoRecord ELSE SavedRecord(visited)
  /\ sweepFrom' = began
  /\ sweptTo' = IF finished THEN began ELSE sweptTo
  /\ UNCHANGED <<clock, adminSet, held, StakesPerAccount, PendingUnstake>>

\* resolve_skipped_blocks, for one block; a longer list repeats the step.
ResolveSkippedBlock(b) ==
  /\ ~maintenance
  /\ b < block
  /\ PendingUnstake[b] # <<>>
  /\ PendingUnstake' = [PendingUnstake EXCEPT ![b] = <<>>]
  /\ frozen' = [s \in Stakers |-> Thaw(s, PendingAt(b, s))]
  /\ UNCHANGED <<clock, adminSet, free, held, treasury, Staked, StakesPerAccount, TotalStaked,
                 PreviousCalculatedRecord, history>>

-----------------------------------------------------------------------------
(* The rest of the chain, external to the pallet: an account spends what   *)
(* is neither frozen nor needed by the freeze, and other pallets put part  *)
(* of a balance on hold, which a freeze may overlap.                       *)

Spend(s, amount) ==
  /\ amount # 0 /\ amount <= free[s] /\ frozen[s] <= free[s] - amount + held[s]
  /\ free' = [free EXCEPT ![s] = @ - amount]
  /\ UNCHANGED <<clock, adminSet, held, frozen, treasury, Staked, StakesPerAccount, TotalStaked,
                 PendingUnstake, PreviousCalculatedRecord, history>>

Hold(s, amount) ==
  /\ amount # 0 /\ amount <= free[s] /\ held[s] = 0
  /\ free' = [free EXCEPT ![s] = @ - amount]
  /\ held' = [held EXCEPT ![s] = amount]
  /\ UNCHANGED <<clock, adminSet, frozen, treasury, Staked, StakesPerAccount, TotalStaked,
                 PendingUnstake, PreviousCalculatedRecord, history>>

Release(s) ==
  /\ held[s] # 0
  /\ free' = [free EXCEPT ![s] = @ + held[s]]
  /\ held' = [held EXCEPT ![s] = 0]
  /\ UNCHANGED <<clock, adminSet, frozen, treasury, Staked, StakesPerAccount, TotalStaked,
                 PendingUnstake, PreviousCalculatedRecord, history>>

Call ==
  \/ \E n \in 1..MaxPayout : PayoutStakers(n)
  \/ \E b \in Blocks : ResolveSkippedBlock(b)
  \/ \E s \in Stakers :
       \/ UnstakeAll(s)
       \/ \E a \in Amounts : Stake(s, a) \/ UnstakePartial(s, a)

Environment ==
  \/ SetAdminAddress
  \/ \E on \in BOOLEAN : SetMaintenance(on)
  \/ \E s \in Stakers : Release(s) \/ \E a \in OtherAmounts : Spend(s, a) \/ Hold(s, a)

Next == NewBlock \/ Call \/ Environment

Spec == Init /\ [][Next]_vars

\* Collators keep producing blocks; nothing else is promised.
FairSpec == Spec /\ WF_vars(NewBlock)
-----------------------------------------------------------------------------
(* Properties.                                                             *)

\* Type invariant: no balance or total goes below zero and the stake counter stays
\* within the limit of stake().
TypeOK ==
  /\ relay \in Relays /\ block \in Blocks
  /\ maintenance \in BOOLEAN /\ adminSet \in BOOLEAN
  /\ free \in [Stakers -> Nat] /\ held \in [Stakers -> Nat] /\ frozen \in [Stakers -> Nat]
  /\ treasury \in Nat /\ TotalStaked \in Nat
  /\ Staked \in [Keys -> [amount : Nat, recalc : Nat]]
  /\ StakesPerAccount \in [Stakers -> 0..StakeLimit]
  /\ PendingUnstake \in [Blocks -> Seq(Stakers \X Nat)]
  /\ PreviousCalculatedRecord \in Keys \cup {NoRecord}
  /\ skipped \subseteq Blocks /\ sweepFrom \in Nat /\ sweptTo \in Nat

\* Money bookkeeping: the pallet freezes for an account exactly its stakes plus its
\* unstakes still waiting, through every order of stake, unstake, payout, block
\* hook, maintenance and resolve_skipped_blocks, so no saturating subtraction of
\* the thawing code ever bites; and what is frozen is really there, although holds
\* may overlap it and payouts freeze interest as they pay it.
FreezeExact ==
  \A s \in Stakers : frozen[s] = StakedBy(s) + PendingOf(s) /\ frozen[s] <= free[s] + held[s]

\* TotalStaked, updated separately by four calls, is the sum of the Staked map.
TotalStakedExact == TotalStaked = Sum([s \in Stakers |-> StakedBy(s)], Stakers)

\* The per-account counter never falls below the number of records, so the
\* checked_sub of unstake_partial cannot fail and lock a stake in.
CounterCoversRecords == \A s \in Stakers : Cardinality(RecordsOf(s)) <= StakesPerAccount[s]

\* Paging of payout_stakers: a record at or before the saved one has been paid up to
\* the start of the sweep, and after a sweep has ended every record has; whatever
\* was staked or unstaked (the saved record included) between the pages.
SweepComplete ==
  /\ \A k \in Records : Staked[k].recalc > sweptTo
  /\ PreviousCalculatedRecord # NoRecord =>
       \A k \in Records : ~Before(PreviousCalculatedRecord, k) => Staked[k].recalc > sweepFrom

\* An unstake queued for a block that has been initialised is gone from the queue,
\* unless that block ran under maintenance: only then is it left for
\* resolve_skipped_blocks.
OnlySkippedBlocksPend ==
  \A b \in Blocks : b <= block /\ PendingUnstake[b] # <<>> => b \in skipped

\* payout_stakers pays each interval once: when a record's recalculation block moves
\* on by k intervals, its amount has been compounded exactly k times, and the block
\* never moves back nor further than one interval past the current one.
PaysEachIntervalOnce ==
  [][\A k \in Records : LET old == Staked[k]  new == Staked'[k] IN
       new # NoStake /\ new.recalc # old.recalc =>
         /\ new.recalc > old.recalc
         /\ new.recalc <= CurrentRecalcBlock(relay) + Interval
         /\ new.amount = Compound(old.amount, (new.recalc - old.recalc) \div Interval)]_vars

\* A queued unstake is released by the block hook, or its block fell under
\* maintenance: block production alone is enough.
UnstakeReleased ==
  \A b \in Blocks : PendingUnstake[b] # <<>> ~> (PendingUnstake[b] = <<>> \/ b \in skipped)

UQ == INSTANCE UnstakeQueue WITH
        queue <- [block |-> block, maintenance |-> maintenance,
                  pending |-> {b \in Blocks : PendingUnstake[b] # <<>>}]

\* Seen through its keys alone, the queue is the one that the repair script relies on:
\* no stake, payout or failed call makes a key appear or vanish, an unstake appears
\* PendingInterval blocks ahead, and a future block is never resolved.
ImplementsUnstakeQueue == UQ!Spec

=============================================================================
