---------------------------- MODULE PalletProofs ----------------------------
(***************************************************************************)
(* Proofs about three pallets: collator selection, for every set of        *)
(* accounts, every bond, slash ratio, kick threshold and session length;   *)
(* inflation, for every length of a year and of an interval, every         *)
(* schedule of percentages and every start; collections, for every set of  *)
(* cross accounts and mapping to substrate accounts, all limits and all    *)
(* arguments of the calls.                                                 *)
(***************************************************************************)
EXTENDS CollatorSelection, Inflation, Collections, SumTheorems, TLAPS

USE SMTT(15), ZenonT(10)

-----------------------------------------------------------------------------
(* Collator selection.                                                     *)

\* The types of the storage, and what the pallet holds of an account: the two cannot be
\* separated, since the balance on hold stays a natural only because it is the deposit.
HoldsAreDeposits ==
  /\ Invulnerables \in SUBSET AccountIds /\ Candidates \in SUBSET AccountIds
  /\ LicenseDepositOf \in [AccountIds -> Nat \cup {NoLicense}]
  /\ sinceAuthored \in [AccountIds -> (-KickThreshold)..KickThreshold \cup {NoBlock}]
  /\ licenseBond \in Nat
  /\ free \in [AccountIds -> Nat] /\ held \in [AccountIds -> Nat]
  /\ pot \in Nat /\ toTreasury \in Nat
  /\ phase \in 0..(SessionPeriod - 1)
  /\ queued \in SUBSET AccountIds /\ active \in SUBSET AccountIds
  /\ hadTurn \in [AccountIds -> BOOLEAN]
  /\ \A a \in AccountIds : held[a] = Deposit(a)

-----------------------------------------------------------------------------
(* Arithmetic.                                                             *)

\* SlashRatio * deposit rounds to the nearest integer and never exceeds the deposit.
LEMMA SlashBound ==
  ASSUME NEW d \in Nat
  PROVE  LET s == (2 * d * SlashNum + SlashDen - 1) \div (2 * SlashDen) IN s \in Nat /\ s <= d
<1> DEFINE n == 2 * d * SlashNum + SlashDen - 1
           m == 2 * SlashDen
           q == n \div m
<1>1. SlashDen \in Nat \ {0} /\ SlashNum \in Nat /\ SlashNum <= SlashDen
  BY ParamAssumption
<1>2. m \in Nat \ {0} /\ d * SlashNum \in Nat /\ d * SlashDen \in Nat
  BY <1>1
<1>3. d * SlashNum <= d * SlashDen
  <2>1. PICK e \in Nat : SlashDen = SlashNum + e
    <3>1. SlashDen - SlashNum \in Nat /\ SlashDen = SlashNum + (SlashDen - SlashNum)
      BY <1>1
    <3> QED BY <3>1, Zenon
  <2>2. d * SlashDen = d * SlashNum + d * e /\ d * e \in Nat
    BY <1>1, <2>1
  <2> QED BY <1>2, <2>2
<1>4. 2 * d * SlashNum = 2 * (d * SlashNum) /\ d * m = 2 * (d * SlashDen)
  BY <1>1, <1>2
<1>5. n \in Nat /\ n < d * m + m /\ d * m \in Nat
  BY <1>1, <1>2, <1>3, <1>4
<1> HIDE DEF n, m
<1>6. q \in Nat /\ q * m <= n
  BY <1>2, <1>5
<1> HIDE DEF q
<1>7. ASSUME q >= d + 1 PROVE FALSE
  <2>1. PICK e \in Nat : q = (d + 1) + e
    <3>1. q - (d + 1) \in Nat /\ q = (d + 1) + (q - (d + 1))
      BY <1>6, <1>7
    <3> QED BY <3>1, Zenon
  <2>2. q * m = d * m + m + e * m /\ e * m \in Nat
    BY <1>2, <2>1
  <2> QED BY <1>2, <1>5, <1>6, <2>2
<1>8. q \in Nat /\ q <= d
  BY <1>6, <1>7
<1> QED BY <1>8, Zenon DEF n, m, q

\* The last block of a session is the one before the phase wraps.
LEMMA PhaseStep ==
  ASSUME NEW p \in 0..(SessionPeriod - 1)
  PROVE  /\ (p + 1) % SessionPeriod \in 0..(SessionPeriod - 1)
         /\ (p + 1) % SessionPeriod = 0 => p + 1 = SessionPeriod
         /\ (p + 1) % SessionPeriod # 0 => (p + 1) % SessionPeriod = p + 1
<1>1. SessionPeriod \in Nat \ {0}
  BY ParamAssumption, Zenon
<1>2. CASE p + 1 = SessionPeriod
  <2>1. SessionPeriod % SessionPeriod = 0
    BY <1>1
  <2> QED BY <1>1, <1>2, <2>1
<1>3. CASE p + 1 < SessionPeriod
  <2>1. (p + 1) % SessionPeriod = p + 1
    BY <1>1, <1>3
  <2> QED BY <1>1, <1>3, <2>1
<1> QED BY <1>1, <1>2, <1>3

\* Half of the pot.
LEMMA RewardBound == ASSUME HoldsAreDeposits PROVE Reward \in Nat /\ Reward <= pot
BY DEF HoldsAreDeposits, Reward

\* A deposit and its two parts when it is slashed.
LEMMA DepositParts ==
  ASSUME HoldsAreDeposits, NEW a \in AccountIds
  PROVE  /\ Deposit(a) \in Nat /\ Slashed(a) \in Nat /\ Remaining(a) \in Nat
         /\ Deposit(a) = Remaining(a) + Slashed(a)
<1>1. Deposit(a) \in Nat
  BY Zenon DEF HoldsAreDeposits, Deposit, HasLicense
<1>2. PICK d \in Nat : d = Deposit(a)
  BY <1>1, Zenon
<1>3. Slashed(a) \in Nat /\ Slashed(a) <= Deposit(a)
  BY <1>2, SlashBound, Zenon DEF Slashed
<1> QED BY <1>1, <1>3 DEF Remaining
-----------------------------------------------------------------------------
(* What is held is what was deposited.                                     *)

\* At genesis nobody has a license and nothing is held.
LEMMA HoldsInit == CollatorInit => HoldsAreDeposits
BY AccountsAssumption, ParamAssumption DEF CollatorInit, HoldsAreDeposits, Deposit, HasLicense

\* Dropping a candidate clears its entry in LastAuthoredBlock and nobody else's.
LEMMA RemoveCandidateType ==
  ASSUME HoldsAreDeposits, NEW a \in AccountIds, TryRemoveCandidate(a)
  PROVE  /\ Candidates' \in SUBSET AccountIds
         /\ sinceAuthored' \in [AccountIds -> (-KickThreshold)..KickThreshold \cup {NoBlock}]
BY Zenon DEF HoldsAreDeposits, TryRemoveCandidate

\* One block later the entries of LastAuthoredBlock are as far back as the threshold
\* at most.
LEMMA NoteAuthorType ==
  ASSUME HoldsAreDeposits, NEW author
  PROVE  NoteAuthor(author) \in [AccountIds -> (-KickThreshold)..KickThreshold \cup {NoBlock}]
<1>1. KickThreshold \in Nat \ {0} /\ NoBlock \notin Int
  BY ParamAssumption, Zenon
<1>2. ASSUME NEW n \in (-KickThreshold)..KickThreshold \cup {NoBlock}
      PROVE  OneBlockLater(n) \in (-KickThreshold)..KickThreshold \cup {NoBlock}
  BY <1>1 DEF OneBlockLater
<1>3. 0 \in (-KickThreshold)..KickThreshold
  BY <1>1
<1> QED BY <1>2, <1>3, Zenon DEF HoldsAreDeposits, NoteAuthor

\* A block keeps what is held equal to the deposits: a kick releases the whole deposit,
\* part of it to the toTreasury.
LEMMA HoldsNewBlock ==
  ASSUME HoldsAreDeposits, NEW author \in AccountIds, NewBlock(author)
  PROVE  HoldsAreDeposits'
<1> DEFINE since == NoteAuthor(author)
           kicked == IF EndOfSession THEN Stale(since) ELSE {}
           slash == [a \in AccountIds |-> Slashed(a)]
<1>1. kicked \in SUBSET Candidates /\ kicked \in SUBSET AccountIds /\ IsFiniteSet(kicked)
  <2>1. kicked \in SUBSET Candidates
    BY Zenon DEF Stale
  <2>2. kicked \in SUBSET AccountIds
    BY <2>1, Zenon DEF HoldsAreDeposits
  <2> QED BY <2>1, <2>2, AccountsAssumption, FS_Subset, Zenon
<1>2. /\ Candidates' = Candidates \ kicked
      /\ sinceAuthored' = [a \in AccountIds |-> IF a \in kicked THEN NoBlock ELSE since[a]]
      /\ LicenseDepositOf' = [a \in AccountIds |-> IF a \in kicked THEN NoLicense ELSE LicenseDepositOf[a]]
      /\ free' = [a \in AccountIds |->
                    free[a] + (IF a = author THEN Reward ELSE 0)
                            + (IF a \in kicked THEN Remaining(a) ELSE 0)]
      /\ held' = [a \in AccountIds |-> IF a \in kicked THEN held[a] - Deposit(a) ELSE held[a]]
      /\ pot' = pot - Reward
      /\ toTreasury' = toTreasury + Sum(slash, kicked)
      /\ phase' = (phase + 1) % SessionPeriod
      /\ active' = IF EndOfSession THEN queued ELSE active
      /\ queued' = IF EndOfSession THEN AssembleCollators(Candidates \ kicked) ELSE queued
      /\ hadTurn' = [a \in AccountIds |-> hadTurn[a] \/ a \in active]
      /\ UNCHANGED <<Invulnerables, licenseBond>>
  BY Zenon DEF NewBlock
<1>3. since \in [AccountIds -> (-KickThreshold)..KickThreshold \cup {NoBlock}]
  BY NoteAuthorType, Zenon
<1>4. Sum(slash, kicked) \in Nat
  <2>1. \A a \in kicked : slash[a] \in Nat
    BY <1>1, DepositParts, Zenon
  <2> HIDE DEF slash, kicked
  <2> QED BY <1>1, <2>1, SumType, Zenon
<1> HIDE DEF since, kicked, slash
<1>5. Candidates' \in SUBSET AccountIds
      /\ LicenseDepositOf' \in [AccountIds -> Nat \cup {NoLicense}]
      /\ sinceAuthored' \in [AccountIds -> (-KickThreshold)..KickThreshold \cup {NoBlock}]
      /\ Invulnerables' \in SUBSET AccountIds /\ licenseBond' \in Nat
  BY <1>1, <1>2, <1>3, Zenon DEF HoldsAreDeposits
<1>6. free' \in [AccountIds -> Nat] /\ pot' \in Nat
  <2>1. ASSUME NEW a \in AccountIds
        PROVE  free[a] + (IF a = author THEN Reward ELSE 0)
                       + (IF a \in kicked THEN Remaining(a) ELSE 0) \in Nat
    BY RewardBound, DepositParts DEF HoldsAreDeposits
  <2>2. pot - Reward \in Nat
    BY RewardBound DEF HoldsAreDeposits
  <2> QED BY <1>2, <2>1, <2>2, Zenon
<1>7. ASSUME NEW a \in AccountIds PROVE held'[a] \in Nat /\ held'[a] = Deposit(a)'
  <2>1. CASE a \in kicked
    <3>1. held'[a] = 0
      BY <1>2, <2>1, DepositParts DEF HoldsAreDeposits
    <3>2. Deposit(a)' = 0
      BY <1>2, <2>1, Zenon DEF Deposit, HasLicense
    <3> QED BY <3>1, <3>2
  <2>2. CASE a \notin kicked
    BY <1>2, <2>2, Zenon DEF HoldsAreDeposits, Deposit, HasLicense
  <2> QED BY <2>1, <2>2, Zenon
<1>8. held' \in [AccountIds -> Nat]
  BY <1>2, <1>7, Zenon
<1>9. toTreasury' \in Nat
  BY <1>2, <1>4 DEF HoldsAreDeposits
<1>10. phase' \in 0..(SessionPeriod - 1)
  BY <1>2, PhaseStep, Zenon DEF HoldsAreDeposits
<1>11. active' \in SUBSET AccountIds /\ queued' \in SUBSET AccountIds
  BY <1>2, Zenon DEF HoldsAreDeposits, AssembleCollators
<1>12. hadTurn' \in [AccountIds -> BOOLEAN]
  BY <1>2, Zenon
<1> QED BY <1>5, <1>6, <1>7, <1>8, <1>9, <1>10, <1>11, <1>12, Zenon DEF HoldsAreDeposits

\* Every step keeps what is held equal to what was deposited.
LEMMA HoldsNext == HoldsAreDeposits /\ [CollatorNext]_collatorVars => HoldsAreDeposits'
<1> SUFFICES ASSUME HoldsAreDeposits, [CollatorNext]_collatorVars PROVE HoldsAreDeposits'
  BY Zenon
<1> USE DEF balances, session
<1>1. ASSUME NEW a \in AccountIds, AddInvulnerable(a) PROVE HoldsAreDeposits'
  BY <1>1, RemoveCandidateType, Zenon DEF AddInvulnerable, HoldsAreDeposits, Deposit, HasLicense
<1>2. ASSUME NEW a \in AccountIds, RemoveInvulnerable(a) PROVE HoldsAreDeposits'
  BY <1>2, Zenon DEF RemoveInvulnerable, HoldsAreDeposits, Deposit, HasLicense
<1>3. ASSUME NEW a \in AccountIds, GetLicense(a) PROVE HoldsAreDeposits'
  <2>1. /\ free' \in [AccountIds -> Nat] /\ held' \in [AccountIds -> Nat]
        /\ LicenseDepositOf' \in [AccountIds -> Nat \cup {NoLicense}]
    BY <1>3 DEF GetLicense, HoldsAreDeposits, CanHold
  <2>2. ASSUME NEW b \in AccountIds PROVE held'[b] = Deposit(b)'
    <3>1. CASE b = a
      <4>1. held[a] = 0 /\ licenseBond \in Nat /\ licenseBond # NoLicense
        BY <1>3, ParamAssumption, Zenon DEF GetLicense, HoldsAreDeposits, Deposit
      <4>2. held'[a] = licenseBond /\ LicenseDepositOf'[a] = licenseBond
        BY <1>3, <4>1 DEF GetLicense, HoldsAreDeposits
      <4> QED BY <3>1, <4>1, <4>2, Zenon DEF Deposit, HasLicense
    <3>2. CASE b # a
      BY <1>3, <3>2, Zenon DEF GetLicense, HoldsAreDeposits, Deposit, HasLicense
    <3> QED BY <3>1, <3>2, Zenon
  <2> QED BY <1>3, <2>1, <2>2, Zenon DEF GetLicense, HoldsAreDeposits
<1>4. ASSUME NEW a \in AccountIds, Onboard(a) PROVE HoldsAreDeposits'
  <2>1. FirstAuthored \in (-KickThreshold)..KickThreshold
    BY ParamAssumption DEF FirstAuthored
  <2> QED BY <1>4, <2>1, Zenon DEF Onboard, HoldsAreDeposits, Deposit, HasLicense
<1>5. ASSUME NEW a \in AccountIds, Offboard(a) PROVE HoldsAreDeposits'
  BY <1>5, RemoveCandidateType, Zenon DEF Offboard, HoldsAreDeposits, Deposit, HasLicense
<1>6. ASSUME NEW a \in AccountIds, ReleaseLicense(a) PROVE HoldsAreDeposits'
  <2>1. Released(a) \in Nat /\ held[a] = Released(a)
    BY DepositParts, Zenon DEF Released, HoldsAreDeposits
  <2>2. free' \in [AccountIds -> Nat] /\ held' \in [AccountIds -> Nat]
        /\ LicenseDepositOf' \in [AccountIds -> Nat \cup {NoLicense}]
    BY <1>6, <2>1 DEF ReleaseLicense, HoldsAreDeposits
  <2>3. ASSUME NEW b \in AccountIds PROVE held'[b] = Deposit(b)'
    <3>1. CASE b = a
      <4>1. held'[a] = 0 /\ LicenseDepositOf'[a] = NoLicense
        BY <1>6, <2>1 DEF ReleaseLicense, HoldsAreDeposits
      <4> QED BY <3>1, <4>1, Zenon DEF Deposit, HasLicense
    <3>2. CASE b # a
      BY <1>6, <3>2, Zenon DEF ReleaseLicense, HoldsAreDeposits, Deposit, HasLicense
    <3> QED BY <3>1, <3>2, Zenon
  <2> QED BY <1>6, <2>2, <2>3, RemoveCandidateType, Zenon DEF ReleaseLicense, HoldsAreDeposits
<1>7. ASSUME NEW v \in Bonds, SetLicenseBond(v) PROVE HoldsAreDeposits'
  BY <1>7, ParamAssumption, Zenon DEF SetLicenseBond, HoldsAreDeposits, Deposit, HasLicense
<1>8. CASE SomeBlock
  BY <1>8, HoldsNewBlock, Zenon DEF SomeBlock
<1>9. CASE UNCHANGED collatorVars
  BY <1>9, Zenon DEF collatorVars, HoldsAreDeposits, Deposit, HasLicense
<1> QED BY <1>1, <1>2, <1>3, <1>4, <1>5, <1>6, <1>7, <1>8, <1>9, Zenon DEF CollatorNext
-----------------------------------------------------------------------------
(* Money is conserved.                                                     *)

Total == Sum(free, AccountIds) + Sum(held, AccountIds) + pot + toTreasury

\* The sums of balances are naturals.
LEMMA TotalType ==
  ASSUME HoldsAreDeposits
  PROVE  Sum(free, AccountIds) \in Nat /\ Sum(held, AccountIds) \in Nat
<1>1. \A a \in AccountIds : free[a] \in Nat /\ held[a] \in Nat
  BY Zenon DEF HoldsAreDeposits
<1> QED BY <1>1, AccountsAssumption, SumType, Zenon

\* Money that moves between an account's free balance and its hold stays with it.
LEMMA TotalMoved ==
  ASSUME HoldsAreDeposits, HoldsAreDeposits', NEW a \in AccountIds,
         \A b \in AccountIds \ {a} : free'[b] = free[b] /\ held'[b] = held[b],
         free'[a] + held'[a] = free[a] + held[a], UNCHANGED <<pot, toTreasury>>
  PROVE  Total' = Total
<1>1. \A b \in AccountIds : /\ free[b] \in Nat /\ held[b] \in Nat
                          /\ free'[b] \in Nat /\ held'[b] \in Nat
  BY Zenon DEF HoldsAreDeposits
<1>2. Sum(free', AccountIds) = Sum(free, AccountIds) - free[a] + free'[a]
  BY <1>1, AccountsAssumption, SumUpdate
<1>3. Sum(held', AccountIds) = Sum(held, AccountIds) - held[a] + held'[a]
  BY <1>1, AccountsAssumption, SumUpdate
<1>4. Sum(free, AccountIds) \in Nat /\ Sum(held, AccountIds) \in Nat
  BY TotalType, Zenon
<1>5. pot \in Nat /\ toTreasury \in Nat
  BY Zenon DEF HoldsAreDeposits
<1> QED BY <1>1, <1>2, <1>3, <1>4, <1>5 DEF Total

\* A block moves half of the pot to its author, and a kicked candidate's deposit partly
\* to its free balance and partly to the toTreasury.
LEMMA TotalNewBlock ==
  ASSUME HoldsAreDeposits, HoldsAreDeposits', NEW author \in AccountIds, NewBlock(author)
  PROVE  Total' = Total
<1>1. PICK kicked \in SUBSET AccountIds :
        kicked = IF EndOfSession THEN Stale(NoteAuthor(author)) ELSE {}
  BY Zenon DEF HoldsAreDeposits, Stale
<1> DEFINE slash == [a \in AccountIds |-> Slashed(a)]
           reward == [a \in AccountIds |-> IF a = author THEN Reward ELSE 0]
           back == [a \in AccountIds |-> IF a \in kicked THEN Remaining(a) ELSE 0]
           lost == [a \in AccountIds |-> IF a \in kicked THEN Slashed(a) ELSE 0]
           unbonded == [a \in AccountIds |-> IF a \in kicked THEN Deposit(a) ELSE 0]
           paid == [a \in AccountIds |-> free[a] + reward[a]]
<1>2. /\ free' = [a \in AccountIds |->
                    free[a] + (IF a = author THEN Reward ELSE 0)
                            + (IF a \in kicked THEN Remaining(a) ELSE 0)]
      /\ held' = [a \in AccountIds |-> IF a \in kicked THEN held[a] - Deposit(a) ELSE held[a]]
      /\ pot' = pot - Reward
      /\ toTreasury' = toTreasury + Sum(slash, kicked)
  BY <1>1, Zenon DEF NewBlock
<1>3. IsFiniteSet(AccountIds)
  BY AccountsAssumption, Zenon
<1>4. \A a \in AccountIds : /\ free[a] \in Nat /\ held[a] \in Nat /\ held'[a] \in Nat
                          /\ reward[a] \in Nat /\ back[a] \in Nat /\ lost[a] \in Nat
                          /\ unbonded[a] \in Nat /\ slash[a] \in Nat /\ paid[a] \in Nat
  BY RewardBound, DepositParts DEF HoldsAreDeposits
<1>5. \A a \in AccountIds : /\ paid[a] = free[a] + reward[a]
                          /\ free'[a] = paid[a] + back[a]
                          /\ held[a] = held'[a] + unbonded[a]
                          /\ unbonded[a] = back[a] + lost[a]
  <2> SUFFICES ASSUME NEW a \in AccountIds
               PROVE  /\ paid[a] = free[a] + reward[a] /\ free'[a] = paid[a] + back[a]
                      /\ held[a] = held'[a] + unbonded[a] /\ unbonded[a] = back[a] + lost[a]
    BY Zenon
  <2>1. /\ Deposit(a) \in Nat /\ Slashed(a) \in Nat /\ Remaining(a) \in Nat
        /\ Deposit(a) = Remaining(a) + Slashed(a) /\ held[a] \in Nat
    BY DepositParts, Zenon DEF HoldsAreDeposits
  <2> QED BY <1>2, <2>1
<1>6. \A a \in AccountIds \ kicked : lost[a] = 0
  BY Zenon
<1>7. \A a \in kicked : lost[a] = slash[a]
  BY Zenon
<1>8. reward[author] = Reward /\ \A a \in AccountIds \ {author} : reward[a] = 0
  BY Zenon
<1> HIDE DEF slash, reward, back, lost, unbonded, paid
<1>9. Sum(paid, AccountIds) = Sum(free, AccountIds) + Sum(reward, AccountIds)
  BY <1>3, <1>4, <1>5, SumAdd, Zenon
<1>10. Sum(free', AccountIds) = Sum(paid, AccountIds) + Sum(back, AccountIds)
  BY <1>3, <1>4, <1>5, SumAdd, Zenon
<1>11. Sum(held, AccountIds) = Sum(held', AccountIds) + Sum(unbonded, AccountIds)
  BY <1>3, <1>4, <1>5, SumAdd, Zenon
<1>12. Sum(unbonded, AccountIds) = Sum(back, AccountIds) + Sum(lost, AccountIds)
  BY <1>3, <1>4, <1>5, SumAdd, Zenon
<1>13. Sum(reward, AccountIds) = Reward
  <2>1. Sum(reward, AccountIds) = Sum(reward, {author})
    BY <1>3, <1>4, <1>8, SumSupport, Zenon
  <2>2. Sum(reward, {author}) = reward[author]
    BY <1>4, SumSingleton, Zenon
  <2> QED BY <1>8, <2>1, <2>2, Zenon
<1>14. Sum(lost, AccountIds) = Sum(slash, kicked)
  <2>1. Sum(lost, AccountIds) = Sum(lost, kicked)
    BY <1>3, <1>4, <1>6, SumSupport, Zenon
  <2>2. Sum(lost, kicked) = Sum(slash, kicked)
    BY <1>7, SumCongruence, Zenon
  <2> QED BY <2>1, <2>2, Zenon
<1>15. /\ Sum(free, AccountIds) \in Nat /\ Sum(held', AccountIds) \in Nat
       /\ Sum(back, AccountIds) \in Nat /\ Sum(lost, AccountIds) \in Nat
  BY <1>3, <1>4, SumType, Zenon
<1>16. pot \in Nat /\ toTreasury \in Nat /\ Reward \in Nat
  BY RewardBound, Zenon DEF HoldsAreDeposits
<1> QED BY <1>2, <1>9, <1>10, <1>11, <1>12, <1>13, <1>14, <1>15, <1>16 DEF Total

\* No step mints or burns.
LEMMA TotalNext ==
  HoldsAreDeposits /\ HoldsAreDeposits' /\ [CollatorNext]_collatorVars => Total' = Total
<1> SUFFICES ASSUME HoldsAreDeposits, HoldsAreDeposits', [CollatorNext]_collatorVars
             PROVE  Total' = Total
  BY Zenon
<1>1. ASSUME UNCHANGED balances PROVE Total' = Total
  BY <1>1, Zenon DEF balances, Total
<1>2. ASSUME NEW a \in AccountIds, GetLicense(a) PROVE Total' = Total
  <2>1. \A b \in AccountIds \ {a} : free'[b] = free[b] /\ held'[b] = held[b]
    BY <1>2, Zenon DEF GetLicense, HoldsAreDeposits
  <2>2. free'[a] + held'[a] = free[a] + held[a]
    BY <1>2 DEF GetLicense, HoldsAreDeposits
  <2> QED BY <1>2, <2>1, <2>2, TotalMoved, Zenon DEF GetLicense
<1>3. ASSUME NEW a \in AccountIds, ReleaseLicense(a) PROVE Total' = Total
  <2>1. \A b \in AccountIds \ {a} : free'[b] = free[b] /\ held'[b] = held[b]
    BY <1>3, Zenon DEF ReleaseLicense, HoldsAreDeposits
  <2>2. Released(a) \in Nat
    BY DepositParts, Zenon DEF Released
  <2>3. free'[a] + held'[a] = free[a] + held[a]
    BY <1>3, <2>2 DEF ReleaseLicense, HoldsAreDeposits
  <2> QED BY <1>3, <2>1, <2>3, TotalMoved, Zenon DEF ReleaseLicense
<1>4. CASE SomeBlock
  BY <1>4, TotalNewBlock, Zenon DEF SomeBlock
<1>5. ASSUME NEW a \in AccountIds,
             AddInvulnerable(a) \/ RemoveInvulnerable(a) \/ Onboard(a) \/ Offboard(a)
      PROVE  Total' = Total
  BY <1>1, <1>5, Zenon DEF AddInvulnerable, RemoveInvulnerable, Onboard, Offboard
<1>6. ASSUME NEW v \in Bonds, SetLicenseBond(v) PROVE Total' = Total
  BY <1>1, <1>6, Zenon DEF SetLicenseBond
<1>7. CASE UNCHANGED collatorVars
  BY <1>1, <1>7, Zenon DEF collatorVars, balances
<1> QED BY <1>2, <1>3, <1>4, <1>5, <1>6, <1>7, Zenon DEF CollatorNext

\* What is held of an account is exactly its recorded deposit, and bonds, slashes and
\* rewards conserve money.
THEOREM BondsCorrect == CollatorSpec => []BondsBacked
<1>1. CollatorInit => BondsBacked
  <2> SUFFICES ASSUME CollatorInit PROVE BondsBacked
    BY Zenon
  <2>1. \A a \in AccountIds : free[a] = InitialFree /\ held[a] = 0
    BY Zenon DEF CollatorInit
  <2>2. Sum(free, AccountIds) = Cardinality(AccountIds) * InitialFree
    BY <2>1, AccountsAssumption, ParamAssumption, SumConstant, Zenon
  <2>3. Sum(held, AccountIds) = 0
    BY <2>1, SumZero, Zenon
  <2>4. Sum(free, AccountIds) \in Nat
    BY HoldsInit, TotalType, Zenon
  <2>5. Sum(free, AccountIds) + Sum(held, AccountIds) + pot + toTreasury
          = Cardinality(AccountIds) * InitialFree + InitialPot
    BY <2>2, <2>3, <2>4, ParamAssumption DEF CollatorInit
  <2> QED BY <2>5, HoldsInit, Zenon DEF BondsBacked, HoldsAreDeposits
<1>2. HoldsAreDeposits /\ BondsBacked /\ [CollatorNext]_collatorVars
        => HoldsAreDeposits' /\ BondsBacked'
  <2> SUFFICES ASSUME HoldsAreDeposits, BondsBacked, [CollatorNext]_collatorVars
               PROVE  HoldsAreDeposits' /\ BondsBacked'
    BY Zenon
  <2>1. HoldsAreDeposits'
    BY HoldsNext, Zenon
  <2>2. Total' = Total
    BY <2>1, TotalNext, Zenon
  <2> QED BY <2>1, <2>2, Zenon DEF BondsBacked, HoldsAreDeposits, Total
<1> QED BY <1>1, <1>2, HoldsInit, PTL DEF CollatorSpec

-----------------------------------------------------------------------------
(* Collators and candidates.  There is always a collator because the last  *)
(* invulnerable cannot be removed.                                         *)

RosterInv == RosterSound /\ Invulnerables # {}

\* Every step keeps the roster sound.
LEMMA RosterNext ==
  HoldsAreDeposits /\ RosterInv /\ [CollatorNext]_collatorVars => RosterInv'
<1> SUFFICES ASSUME HoldsAreDeposits, RosterInv, [CollatorNext]_collatorVars PROVE RosterInv'
  BY Zenon
<1> USE DEF balances, session
<1>1. ASSUME NEW a \in AccountIds, AddInvulnerable(a) PROVE RosterInv'
  BY <1>1, Zenon DEF AddInvulnerable, TryRemoveCandidate, RosterInv, RosterSound, HasLicense, HoldsAreDeposits
<1>2. ASSUME NEW a \in AccountIds, RemoveInvulnerable(a) PROVE RosterInv'
  <2>1. Invulnerables \ {a} # {}
    <3> SUFFICES ASSUME Invulnerables = {a} PROVE FALSE
      BY <1>2, Zenon DEF RemoveInvulnerable
    <3>1. Cardinality({a}) = 1
      BY FS_Singleton, Zenon
    <3> QED BY <1>2, <3>1 DEF RemoveInvulnerable, NotTheLast
  <2> QED BY <1>2, <2>1, Zenon DEF RemoveInvulnerable, RosterInv, RosterSound, HasLicense
<1>3. ASSUME NEW a \in AccountIds, GetLicense(a) PROVE RosterInv'
  <2>1. licenseBond # NoLicense
    BY ParamAssumption, Zenon DEF HoldsAreDeposits
  <2> QED BY <1>3, <2>1, Zenon DEF GetLicense, RosterInv, RosterSound, HasLicense, HoldsAreDeposits
<1>4. ASSUME NEW a \in AccountIds, Onboard(a) PROVE RosterInv'
  <2>1. FirstAuthored # NoBlock
    BY ParamAssumption DEF FirstAuthored
  <2> QED BY <1>4, <2>1, Zenon DEF Onboard, RosterInv, RosterSound, HasLicense, HoldsAreDeposits
<1>5. ASSUME NEW a \in AccountIds, Offboard(a) PROVE RosterInv'
  BY <1>5, Zenon DEF Offboard, TryRemoveCandidate, RosterInv, RosterSound, HasLicense, HoldsAreDeposits
<1>6. ASSUME NEW a \in AccountIds, ReleaseLicense(a) PROVE RosterInv'
  BY <1>6, Zenon DEF ReleaseLicense, TryRemoveCandidate, RosterInv, RosterSound, HasLicense, HoldsAreDeposits
<1>7. ASSUME NEW v \in Bonds, SetLicenseBond(v) PROVE RosterInv'
  BY <1>7, Zenon DEF SetLicenseBond, RosterInv, RosterSound, HasLicense
<1>8. ASSUME NEW author \in AccountIds, NewBlock(author) PROVE RosterInv'
  <2>1. PICK kicked \in SUBSET AccountIds :
          /\ kicked = IF EndOfSession THEN Stale(NoteAuthor(author)) ELSE {}
          /\ Candidates' = Candidates \ kicked
          /\ sinceAuthored' = [a \in AccountIds |-> IF a \in kicked THEN NoBlock
                                                  ELSE NoteAuthor(author)[a]]
          /\ LicenseDepositOf' = [a \in AccountIds |-> IF a \in kicked THEN NoLicense
                                                     ELSE LicenseDepositOf[a]]
    <3>1. (IF EndOfSession THEN Stale(NoteAuthor(author)) ELSE {}) \in SUBSET AccountIds
      BY Zenon DEF HoldsAreDeposits, Stale
    <3> QED BY <1>8, <3>1, Zenon DEF NewBlock
  <2>2. active' # {} /\ queued' # {} /\ Invulnerables' = Invulnerables
    BY <1>8, Zenon DEF NewBlock, RosterInv, RosterSound, AssembleCollators
  <2>3. ASSUME NEW a \in Candidates'
        PROVE  HasLicense(a)' /\ a \notin Invulnerables' /\ sinceAuthored'[a] # NoBlock
    <3>1. a \in Candidates /\ a \notin kicked /\ a \in AccountIds
      BY <2>1, Zenon DEF HoldsAreDeposits
    <3>2. HasLicense(a)' /\ a \notin Invulnerables'
      BY <2>1, <2>2, <3>1, Zenon DEF HasLicense, RosterInv, RosterSound
    <3>3. sinceAuthored[a] \in Int /\ sinceAuthored[a] # NoBlock
      BY <3>1, ParamAssumption DEF HoldsAreDeposits, RosterInv, RosterSound
    <3>4. NoteAuthor(author)[a] # NoBlock
      BY <3>1, <3>3, ParamAssumption DEF NoteAuthor, OneBlockLater
    <3> QED BY <2>1, <3>1, <3>2, <3>4, Zenon
  <2> QED BY <2>2, <2>3, Zenon DEF RosterInv, RosterSound
<1>9. CASE UNCHANGED collatorVars
  BY <1>9, Zenon DEF collatorVars, RosterInv, RosterSound, HasLicense
<1> QED BY <1>1, <1>2, <1>3, <1>4, <1>5, <1>6, <1>7, <1>8, <1>9, Zenon DEF CollatorNext, SomeBlock

\* Somebody collates now and in the next session, and every candidate is licensed, not
\* invulnerable, and has an entry in LastAuthoredBlock.
THEOREM RosterCorrect == CollatorSpec => []RosterSound
<1>1. CollatorInit => RosterInv
  BY AccountsAssumption, Zenon DEF CollatorInit, RosterInv, RosterSound
<1>2. HoldsAreDeposits /\ RosterInv /\ [CollatorNext]_collatorVars => HoldsAreDeposits' /\ RosterInv'
  BY HoldsNext, RosterNext, Zenon
<1>3. RosterInv => RosterSound
  BY Zenon DEF RosterInv
<1> QED BY <1>1, <1>2, <1>3, HoldsInit, PTL DEF CollatorSpec
-----------------------------------------------------------------------------
(* The grace period.  A candidate that has not collated yet is at most one *)
(* session and the current one past its onboarding, so with a threshold    *)
(* above one session it cannot be two thresholds past it.  The default     *)
(* threshold is one session exactly, and then it can: the assumption of    *)
(* the theorem is needed.                                                  *)

GraceInv ==
  \A a \in Candidates : ~hadTurn[a] /\ a \notin active =>
    /\ sinceAuthored[a] + KickThreshold <= SessionPeriod + phase
    /\ a \notin queued => sinceAuthored[a] + KickThreshold <= phase

\* The entry of a candidate grows by one a block at most.
LEMMA OneBlockOlder ==
  ASSUME HoldsAreDeposits, RosterInv, NEW a \in Candidates, NEW author, a # author
  PROVE  /\ sinceAuthored[a] \in Int /\ NoteAuthor(author)[a] \in Int
         /\ NoteAuthor(author)[a] <= sinceAuthored[a] + 1
<1>1. a \in AccountIds /\ sinceAuthored[a] \in Int /\ KickThreshold \in Nat
  BY ParamAssumption DEF HoldsAreDeposits, RosterInv, RosterSound
<1>2. NoteAuthor(author)[a] = OneBlockLater(sinceAuthored[a])
  BY <1>1, Zenon DEF NoteAuthor
<1> QED BY <1>1, <1>2, ParamAssumption DEF OneBlockLater

\* A candidate without a turn is not stale when a session ends.
LEMMA NotKickedEarly ==
  ASSUME SessionPeriod < KickThreshold, HoldsAreDeposits, RosterInv, GraceInv,
         NEW author \in active, NEW a \in Stale(NoteAuthor(author))
  PROVE  hadTurn[a] \/ a \in active
<1> SUFFICES ASSUME ~hadTurn[a], a \notin active PROVE FALSE
  BY Zenon
<1>1. a \in Candidates /\ a # author /\ NoteAuthor(author)[a] >= KickThreshold
  BY Zenon DEF Stale
<1>2. sinceAuthored[a] + KickThreshold <= SessionPeriod + phase
  BY <1>1, Zenon DEF GraceInv
<1>3. phase \in 0..(SessionPeriod - 1) /\ SessionPeriod \in Nat /\ KickThreshold \in Nat
  BY ParamAssumption, Zenon DEF HoldsAreDeposits
<1>4. /\ sinceAuthored[a] \in Int /\ NoteAuthor(author)[a] \in Int
      /\ NoteAuthor(author)[a] <= sinceAuthored[a] + 1
  BY <1>1, OneBlockOlder, Zenon
<1> QED BY <1>1, <1>2, <1>3, <1>4

\* Every step keeps the candidates within their grace period.
LEMMA GraceNext ==
  ASSUME SessionPeriod < KickThreshold
  PROVE  HoldsAreDeposits /\ RosterInv /\ GraceInv /\ [CollatorNext]_collatorVars => GraceInv'
<1> SUFFICES ASSUME HoldsAreDeposits, RosterInv, GraceInv, [CollatorNext]_collatorVars
             PROVE  GraceInv'
  BY Zenon
<1>1. ASSUME Candidates' \in SUBSET Candidates, UNCHANGED <<session, hadTurn>>,
             \A a \in Candidates' : sinceAuthored'[a] = sinceAuthored[a]
      PROVE  GraceInv'
  BY <1>1, Zenon DEF GraceInv, session
<1>2. ASSUME NEW a \in AccountIds, TryRemoveCandidate(a), UNCHANGED <<session, hadTurn>>
      PROVE  GraceInv'
  <2>1. Candidates' \in SUBSET Candidates
        /\ \A b \in Candidates' : sinceAuthored'[b] = sinceAuthored[b]
    BY <1>2, Zenon DEF TryRemoveCandidate, HoldsAreDeposits
  <2> QED BY <1>1, <1>2, <2>1, Zenon
<1>3. ASSUME NEW a \in AccountIds, AddInvulnerable(a) \/ Offboard(a) \/ ReleaseLicense(a)
      PROVE  GraceInv'
  BY <1>2, <1>3, Zenon DEF AddInvulnerable, Offboard, ReleaseLicense
<1>4. ASSUME NEW a \in AccountIds, RemoveInvulnerable(a) \/ GetLicense(a) PROVE GraceInv'
  BY <1>1, <1>4, Zenon DEF RemoveInvulnerable, GetLicense
<1>5. ASSUME NEW a \in AccountIds, Onboard(a) PROVE GraceInv'
  <2> SUFFICES ASSUME NEW b \in Candidates', ~hadTurn'[b], b \notin active'
               PROVE  /\ sinceAuthored'[b] + KickThreshold <= SessionPeriod + phase'
                      /\ b \notin queued' => sinceAuthored'[b] + KickThreshold <= phase'
    BY Zenon DEF GraceInv
  <2>1. UNCHANGED <<phase, queued, active>>
    BY <1>5, Zenon DEF Onboard, session
  <2>2. CASE b = a
    <3>1. sinceAuthored'[b] = 0 - KickThreshold
      BY <1>5, <2>2, Zenon DEF Onboard, FirstAuthored, HoldsAreDeposits
    <3>2. phase \in Nat /\ SessionPeriod \in Nat /\ KickThreshold \in Nat
      BY ParamAssumption DEF HoldsAreDeposits
    <3> QED BY <2>1, <3>1, <3>2
  <2>3. CASE b # a
    <3>1. b \in Candidates /\ sinceAuthored'[b] = sinceAuthored[b] /\ hadTurn'[b] = hadTurn[b]
      BY <1>5, <2>3, Zenon DEF Onboard, HoldsAreDeposits
    <3> QED BY <2>1, <3>1, Zenon DEF GraceInv
  <2> QED BY <2>2, <2>3, Zenon
<1>6. ASSUME NEW v \in Bonds, SetLicenseBond(v) PROVE GraceInv'
  BY <1>1, <1>6, Zenon DEF SetLicenseBond
<1>7. ASSUME NEW author \in AccountIds, NewBlock(author) PROVE GraceInv'
  <2> DEFINE since == NoteAuthor(author)
             kicked == IF EndOfSession THEN Stale(since) ELSE {}
  <2> SUFFICES ASSUME NEW a \in Candidates', ~hadTurn'[a], a \notin active'
               PROVE  /\ sinceAuthored'[a] + KickThreshold <= SessionPeriod + phase'
                      /\ a \notin queued' => sinceAuthored'[a] + KickThreshold <= phase'
    BY Zenon DEF GraceInv
  <2>1. /\ author \in active
        /\ Candidates' = Candidates \ kicked
        /\ sinceAuthored' = [b \in AccountIds |-> IF b \in kicked THEN NoBlock ELSE since[b]]
        /\ phase' = (phase + 1) % SessionPeriod
        /\ active' = IF EndOfSession THEN queued ELSE active
        /\ queued' = IF EndOfSession THEN AssembleCollators(Candidates \ kicked) ELSE queued
        /\ hadTurn' = [b \in AccountIds |-> hadTurn[b] \/ b \in active]
    BY <1>7, Zenon DEF NewBlock
  <2>2. a \in Candidates /\ a \notin kicked /\ a \in AccountIds
    BY <2>1, Zenon DEF HoldsAreDeposits
  <2>3. ~hadTurn[a] /\ a \notin active /\ a # author
    BY <2>1, <2>2, Zenon
  <2>4. /\ sinceAuthored[a] + KickThreshold <= SessionPeriod + phase
        /\ a \notin queued => sinceAuthored[a] + KickThreshold <= phase
    BY <2>2, <2>3, Zenon DEF GraceInv
  <2>5. sinceAuthored'[a] = since[a] /\ sinceAuthored[a] \in Int /\ since[a] \in Int
        /\ since[a] <= sinceAuthored[a] + 1
    BY <2>1, <2>2, <2>3, OneBlockOlder, Zenon
  <2>6. phase \in 0..(SessionPeriod - 1) /\ SessionPeriod \in Nat /\ KickThreshold \in Nat
    BY ParamAssumption, Zenon DEF HoldsAreDeposits
  <2> HIDE DEF since, kicked
  <2>7. CASE EndOfSession
    <3>1. phase' = 0 /\ phase + 1 = SessionPeriod
      BY <2>1, <2>6, <2>7, PhaseStep, Zenon DEF EndOfSession
    <3>2. a \notin queued /\ a \in queued'
      BY <2>1, <2>2, <2>7, Zenon DEF AssembleCollators
    <3> QED BY <2>4, <2>5, <2>6, <3>1, <3>2
  <2>8. CASE ~EndOfSession
    <3>1. phase' = phase + 1
      BY <2>1, <2>6, <2>8, PhaseStep, Zenon DEF EndOfSession
    <3>2. queued' = queued
      BY <2>1, <2>8, Zenon
    <3> QED BY <2>4, <2>5, <2>6, <3>1, <3>2
  <2> QED BY <2>7, <2>8, Zenon
<1>8. CASE UNCHANGED collatorVars
  BY <1>1, <1>8, Zenon DEF collatorVars, session
<1> QED BY <1>3, <1>4, <1>5, <1>6, <1>7, <1>8, Zenon DEF CollatorNext, SomeBlock

\* With a kick threshold above one session, an account loses money only as a candidate
\* that has been a collator since it onboarded.
THEOREM SlashedOnlyAfterTurn ==
  ASSUME SessionPeriod < KickThreshold PROVE CollatorSpec => SlashedAfterTurn
<1> DEFINE Fair == \A a \in AccountIds :
             free'[a] + held'[a] < free[a] + held[a] => a \in Candidates /\ hadTurn'[a]
<1>1. CollatorInit => RosterInv /\ GraceInv
  BY AccountsAssumption, Zenon DEF CollatorInit, RosterInv, RosterSound, GraceInv
<1>2. HoldsAreDeposits /\ RosterInv /\ GraceInv /\ [CollatorNext]_collatorVars
        => HoldsAreDeposits' /\ RosterInv' /\ GraceInv'
  BY HoldsNext, RosterNext, GraceNext, Zenon
<1>3. ASSUME HoldsAreDeposits, RosterInv, GraceInv, [CollatorNext]_collatorVars PROVE Fair
  <2> SUFFICES ASSUME NEW a \in AccountIds, free'[a] + held'[a] < free[a] + held[a]
               PROVE  a \in Candidates /\ hadTurn'[a]
    BY Zenon
  <2>0. free[a] \in Nat /\ held[a] \in Nat
    BY <1>3, Zenon DEF HoldsAreDeposits
  <2>1. ~ UNCHANGED <<free, held>>
    BY <2>0
  <2>2. ASSUME NEW b \in AccountIds, GetLicense(b) PROVE FALSE
    <3>1. free'[a] + held'[a] = free[a] + held[a]
      BY <1>3, <2>2 DEF GetLicense, HoldsAreDeposits
    <3> QED BY <2>0, <3>1
  <2>3. ASSUME NEW b \in AccountIds, ReleaseLicense(b) PROVE FALSE
    <3>1. Released(b) \in Nat
      BY <1>3, DepositParts, Zenon DEF Released
    <3>2. free'[a] + held'[a] = free[a] + held[a]
      BY <1>3, <2>3, <3>1 DEF ReleaseLicense, HoldsAreDeposits
    <3> QED BY <2>0, <3>2
  <2>4. PICK author \in AccountIds : NewBlock(author)
    BY <1>3, <2>1, <2>2, <2>3, Zenon DEF CollatorNext, SomeBlock, AddInvulnerable, RemoveInvulnerable,
       Onboard, Offboard, SetLicenseBond, collatorVars, balances
  <2> DEFINE kicked == IF EndOfSession THEN Stale(NoteAuthor(author)) ELSE {}
  <2>5. /\ author \in active
        /\ free' = [b \in AccountIds |->
                      free[b] + (IF b = author THEN Reward ELSE 0)
                              + (IF b \in kicked THEN Remaining(b) ELSE 0)]
        /\ held' = [b \in AccountIds |-> IF b \in kicked THEN held[b] - Deposit(b) ELSE held[b]]
        /\ hadTurn' = [b \in AccountIds |-> hadTurn[b] \/ b \in active]
    BY <2>4, Zenon DEF NewBlock
  <2>6. a \in kicked
    <3> SUFFICES ASSUME a \notin kicked PROVE FALSE
      BY Zenon
    <3> HIDE DEF kicked
    <3>1. Reward \in Nat
      BY <1>3, RewardBound, Zenon
    <3>2. held'[a] = held[a] /\ free'[a] = free[a] + (IF a = author THEN Reward ELSE 0) + 0
      BY <2>5, Zenon
    <3> QED BY <2>0, <3>1, <3>2
  <2>7. a \in Stale(NoteAuthor(author))
    BY <2>6, Zenon
  <2>8. hadTurn[a] \/ a \in active
    BY <1>3, <2>5, <2>7, NotKickedEarly, Zenon
  <2> QED BY <2>5, <2>7, <2>8, Zenon DEF Stale
<1>4. HoldsAreDeposits /\ RosterInv /\ GraceInv /\ [CollatorNext]_collatorVars => [Fair]_collatorVars
  BY <1>3, Zenon
<1> QED BY <1>1, <1>2, <1>4, HoldsInit, PTL DEF CollatorSpec, SlashedAfterTurn

-----------------------------------------------------------------------------
(* Inflation.                                                              *)

(* The amount of a year.                                                   *)

\* Division of naturals.
LEMMA Quotient == \A n \in Nat, d \in Nat \ {0} : n \div d \in Nat
OBVIOUS

\* Products of naturals are naturals.
LEMMA Product == \A m, n \in Nat : m * n \in Nat
OBVIOUS

\* A whole number of periods divides evenly.
LEMMA WholePeriods ==
  ASSUME NEW k \in Nat, NEW d \in Nat \ {0}
  PROVE  (k * d) \div d = k /\ (k * d) % d = 0
<1> DEFINE q == (k * d) \div d
           r == (k * d) % d
<1>1. k * d \in Nat
  BY Product, Zenon
<1>2. q \in Nat /\ r \in 0..(d - 1) /\ k * d = q * d + r
  BY <1>1
<1> HIDE DEF q, r
<1>3. ASSUME q >= k + 1 PROVE FALSE
  <2>1. PICK e \in Nat : q = (k + 1) + e
    <3>1. q - (k + 1) \in Nat /\ q = (k + 1) + (q - (k + 1))
      BY <1>2, <1>3
    <3> QED BY <3>1, Zenon
  <2>2. q * d = k * d + d + e * d /\ e * d \in Nat
    BY <2>1
  <2> QED BY <1>1, <1>2, <2>2
<1>4. ASSUME k >= q + 1 PROVE FALSE
  <2>1. PICK e \in Nat : k = (q + 1) + e
    <3>1. k - (q + 1) \in Nat /\ k = (q + 1) + (k - (q + 1))
      BY <1>2, <1>4
    <3> QED BY <3>1, Zenon
  <2>2. k * d = q * d + d + e * d /\ e * d \in Nat /\ q * d \in Nat
    BY <1>2, <2>1
  <2> QED BY <1>2, <2>2
<1>5. q = k
  BY <1>2, <1>3, <1>4
<1>6. r = 0
  BY <1>1, <1>2, <1>5
<1> QED BY <1>5, <1>6, Zenon DEF q, r

\* A Perbill is a natural number of parts.
LEMMA FromRationalType ==
  ASSUME NEW p \in Nat, NEW q \in Nat \ {0} PROVE FromRational(p, q) \in Nat
BY InflationAssumption, Quotient, Product, Zenon DEF FromRational

\* A Perbill times a natural is a natural.
LEMMA PerbillTimesType ==
  ASSUME NEW parts \in Nat, NEW x \in Nat PROVE PerbillTimes(parts, x) \in Nat
<1>1. Parts \in Nat \ {0}
  BY InflationAssumption, Zenon
<1>2. 2 * x * parts \in Nat
  BY Product, Zenon
<1>3. 2 * x * parts + Parts - 1 \in Nat /\ 2 * Parts \in Nat \ {0}
  BY <1>1, <1>2
<1> QED BY <1>3, Quotient, Zenon DEF PerbillTimes

\* The rate of every year is a natural number of parts: the subtraction of
\* recalculate_inflation, in unsigned arithmetic, does not underflow in the declining
\* years, and the flat rate takes over behind them.
LEMMA RateType == ASSUME NEW year \in Nat PROVE Rate(year) \in Nat
<1>1. /\ Year \in Nat \ {0} /\ Interval \in Nat \ {0} /\ YearsUntilFlat \in Nat \ {0}
      /\ EndPercent \in Nat /\ StartPercent \in Nat /\ EndPercent <= StartPercent
  BY InflationAssumption, Zenon
<1>2. CASE year <= YearsUntilFlat
  <2>1. PICK left \in Nat : YearsUntilFlat = year + left
    <3>1. YearsUntilFlat - year \in Nat /\ YearsUntilFlat = year + (YearsUntilFlat - year)
      BY <1>1, <1>2
    <3> QED BY <3>1, Zenon
  <2>2. PICK drop \in Nat : StartPercent = EndPercent + drop
    <3>1. StartPercent - EndPercent \in Nat /\ StartPercent = EndPercent + (StartPercent - EndPercent)
      BY <1>1
    <3> QED BY <3>1, Zenon
  <2> DEFINE percent == StartPercent * YearsUntilFlat - year * (StartPercent - EndPercent)
  <2>3. StartPercent - EndPercent = drop
    BY <1>1, <2>2
  <2>4. /\ EndPercent * YearsUntilFlat \in Nat /\ drop * left \in Nat /\ year * drop \in Nat
        /\ StartPercent * YearsUntilFlat = EndPercent * YearsUntilFlat + year * drop + drop * left
    BY <1>1, <2>1, <2>2
  <2>5. percent \in Nat
    BY <2>3, <2>4
  <2> HIDE DEF percent
  <2>6. Interval * percent \in Nat /\ Year * YearsUntilFlat \in Nat \ {0}
    BY <1>1, <2>5
  <2>7. FromRational(Interval * percent, Year * YearsUntilFlat) \in Nat
    BY <2>6, FromRationalType, Zenon
  <2> QED BY <1>2, <2>7, Zenon DEF Rate, AlwaysDeclining, percent
<1>3. CASE ~(year <= YearsUntilFlat)
  <2>1. Interval * EndPercent \in Nat
    BY <1>1, Product, Zenon
  <2>2. FromRational(Interval * EndPercent, Year) \in Nat
    BY <1>1, <2>1, FromRationalType, Zenon
  <2> QED BY <1>3, <2>2, Zenon DEF Rate
<1> QED BY <1>2, <1>3, Zenon

\* The amount of an interval is a natural.
LEMMA InflationForType ==
  ASSUME NEW year \in Nat, NEW issuance \in Nat PROVE InflationFor(year, issuance) \in Nat
<1>1. FromRational(1, 100) \in Nat
  BY FromRationalType
<1>2. OnePercent(issuance) \in Nat
  BY <1>1, PerbillTimesType, Zenon DEF OnePercent
<1> QED BY <1>2, RateType, PerbillTimesType, Zenon DEF InflationFor

-----------------------------------------------------------------------------
(* The schedule.  In its inductive form the grids are existential: the     *)
(* year in force is k and the next interval is j.                          *)

ScheduleInv ==
  /\ total_issuance \in Nat /\ relay \in Nat /\ StartBlock \in Nat
  /\ NextInflationBlock \in Nat /\ deposited \in Nat
  /\ NextInflationBlock # 0 =>
       /\ StartingYearTotalIssuance \in Nat
       /\ \E k \in Nat : /\ NextRecalculationBlock = StartBlock + (k + 1) * Year
                         /\ BlockInflation = InflationFor(k, StartingYearTotalIssuance)
       /\ \E j \in Nat : NextInflationBlock = StartBlock + (j + 1) * Interval

\* start_inflation puts both grids at the start block.
LEMMA ScheduleStart ==
  ASSUME ScheduleInv, NEW start \in Starts, StartInflation(start) PROVE ScheduleInv'
<1>1. /\ StartBlock' = start /\ start \in Nat /\ total_issuance \in Nat /\ deposited \in Nat
      /\ relay' = relay /\ relay \in Nat /\ Year \in Nat \ {0} /\ Interval \in Nat \ {0}
      /\ BlockInflation' = InflationFor((start - start) \div Year, total_issuance)
      /\ StartingYearTotalIssuance' = total_issuance
      /\ NextRecalculationBlock' = start + Year
      /\ NextInflationBlock' = start + Interval
      /\ total_issuance' = total_issuance + BlockInflation'
      /\ deposited' = deposited + BlockInflation'
  BY InflationAssumption, Zenon DEF StartInflation, RecalculateInflation, DepositInflation, ScheduleInv
<1>2. (start - start) \div Year = 0
  BY <1>1
<1>3. BlockInflation' = InflationFor(0, total_issuance) /\ BlockInflation' \in Nat
  BY <1>1, <1>2, InflationForType
<1>4. NextRecalculationBlock' = StartBlock' + (0 + 1) * Year
      /\ NextInflationBlock' = StartBlock' + (0 + 1) * Interval
  BY <1>1
<1>5. /\ total_issuance' \in Nat /\ relay' \in Nat /\ StartBlock' \in Nat
      /\ NextInflationBlock' \in Nat /\ deposited' \in Nat /\ StartingYearTotalIssuance' \in Nat
  BY <1>1, <1>3
<1>6. \E k \in Nat : /\ NextRecalculationBlock' = StartBlock' + (k + 1) * Year
                     /\ BlockInflation' = InflationFor(k, StartingYearTotalIssuance')
  BY <1>1, <1>3, <1>4, Zenon
<1>7. \E j \in Nat : NextInflationBlock' = StartBlock' + (j + 1) * Interval
  BY <1>4, Zenon
<1> QED BY <1>5, <1>6, <1>7, Zenon DEF ScheduleInv, InflationFor, Rate, AlwaysDeclining, OnePercent,
           PerbillTimes, FromRational

\* A block that deposits moves to the next interval, and to the next year when it is
\* over.
LEMMA ScheduleBlock ==
  ASSUME ScheduleInv, NEW blocks \in 0..MaxRelayStep, OnInitialize(blocks) PROVE ScheduleInv'
<1>1. /\ Year \in Nat \ {0} /\ Interval \in Nat \ {0} /\ blocks \in Nat
      /\ relay \in Nat /\ total_issuance \in Nat /\ deposited \in Nat /\ StartBlock \in Nat
      /\ StartBlock' = StartBlock /\ relay' = relay + blocks
  BY InflationAssumption DEF ScheduleInv, OnInitialize
<1>2. CASE InflationDue
  <2>1. NextInflationBlock # 0 /\ NextInflationBlock' = NextInflationBlock + Interval
        /\ total_issuance' = total_issuance + BlockInflation'
        /\ deposited' = deposited + BlockInflation'
    BY <1>2, Zenon DEF OnInitialize, InflationDue, DepositInflation, NextInterval
  <2>2. PICK k \in Nat : /\ NextRecalculationBlock = StartBlock + (k + 1) * Year
                         /\ BlockInflation = InflationFor(k, StartingYearTotalIssuance)
    BY <2>1, Zenon DEF ScheduleInv
  <2>3. PICK j \in Nat : NextInflationBlock = StartBlock + (j + 1) * Interval
    BY <2>1, Zenon DEF ScheduleInv
  <2>4. NextInflationBlock' = StartBlock' + ((j + 1) + 1) * Interval
    <3>1. ((j + 1) + 1) * Interval = (j + 1) * Interval + Interval /\ (j + 1) * Interval \in Nat
      BY <1>1
    <3> QED BY <1>1, <2>1, <2>3, <3>1
  <2>5. StartingYearTotalIssuance \in Nat /\ NextInflationBlock \in Nat
    BY <2>1, Zenon DEF ScheduleInv
  <2>6. /\ StartingYearTotalIssuance' \in Nat /\ BlockInflation' \in Nat
        /\ \E n \in Nat : /\ NextRecalculationBlock' = StartBlock' + (n + 1) * Year
                          /\ BlockInflation' = InflationFor(n, StartingYearTotalIssuance')
    <3>1. CASE YearIsOver
      <4>1. /\ BlockInflation' = InflationFor((NextRecalculationBlock - StartBlock) \div Year,
                                              total_issuance)
            /\ StartingYearTotalIssuance' = total_issuance
            /\ NextRecalculationBlock' = NextRecalculationBlock + Year
        BY <1>2, <3>1, Zenon DEF OnInitialize, RecalculateInflation, RecalculationBlock
      <4>2. NextRecalculationBlock - StartBlock = (k + 1) * Year
            /\ ((k + 1) + 1) * Year = (k + 1) * Year + Year /\ (k + 1) * Year \in Nat
        BY <1>1, <2>2
      <4>3. ((k + 1) * Year) \div Year = k + 1
        BY <1>1, WholePeriods
      <4>4. BlockInflation' = InflationFor(k + 1, StartingYearTotalIssuance')
        BY <4>1, <4>2, <4>3, Zenon
      <4>5. NextRecalculationBlock' = StartBlock' + ((k + 1) + 1) * Year
        BY <1>1, <2>2, <4>1, <4>2
      <4>6. BlockInflation' \in Nat
        BY <1>1, <4>1, <4>4, InflationForType
      <4>7. k + 1 \in Nat
        OBVIOUS
      <4> QED BY <1>1, <4>1, <4>4, <4>5, <4>6, <4>7, Zenon
    <3>2. CASE ~YearIsOver
      <4>1. UNCHANGED <<BlockInflation, StartingYearTotalIssuance, NextRecalculationBlock>>
        BY <1>2, <3>2, Zenon DEF OnInitialize
      <4>2. BlockInflation \in Nat
        BY <2>2, <2>5, InflationForType, Zenon
      <4> QED BY <1>1, <2>2, <2>5, <4>1, <4>2, Zenon
    <3> QED BY <3>1, <3>2, Zenon
  <2>7. \E n \in Nat : NextInflationBlock' = StartBlock' + (n + 1) * Interval
    <3>1. j + 1 \in Nat
      OBVIOUS
    <3> QED BY <2>4, <3>1, Zenon
  <2>8. /\ total_issuance' \in Nat /\ relay' \in Nat /\ StartBlock' \in Nat
        /\ NextInflationBlock' \in Nat /\ deposited' \in Nat
    BY <1>1, <2>1, <2>5, <2>6
  <2> QED BY <2>6, <2>7, <2>8, Zenon DEF ScheduleInv, InflationFor, Rate, AlwaysDeclining, OnePercent,
             PerbillTimes, FromRational
<1>3. CASE ~InflationDue
  <2>1. UNCHANGED <<NextInflationBlock, NextRecalculationBlock, BlockInflation,
                    StartingYearTotalIssuance, total_issuance, deposited, StartBlock>>
    BY <1>3, Zenon DEF OnInitialize
  <2>2. relay' \in Nat
    BY <1>1
  <2> QED BY <2>1, <2>2, Zenon DEF ScheduleInv, InflationFor, Rate, AlwaysDeclining, OnePercent,
             PerbillTimes, FromRational
<1> QED BY <1>2, <1>3, Zenon

\* Every step keeps the schedule.
LEMMA ScheduleNext == ScheduleInv /\ [InflationNext]_inflationVars => ScheduleInv'
<1> SUFFICES ASSUME ScheduleInv, [InflationNext]_inflationVars PROVE ScheduleInv'
  BY Zenon
<1>1. ASSUME UNCHANGED <<relay, schedule, BlockInflation, StartingYearTotalIssuance, deposited>>,
             total_issuance' \in Nat
      PROVE  ScheduleInv'
  BY <1>1, Zenon DEF ScheduleInv, schedule, InflationFor, Rate, AlwaysDeclining, OnePercent, PerbillTimes,
     FromRational
<1>2. ASSUME NEW d \in Changes, ChangeIssuance(d) PROVE ScheduleInv'
  <2>1. total_issuance' \in Nat
    BY <1>2, InflationAssumption DEF ChangeIssuance
  <2> QED BY <1>1, <1>2, <2>1, Zenon DEF ChangeIssuance
<1>3. CASE UNCHANGED inflationVars
  BY <1>1, <1>3, Zenon DEF inflationVars, schedule, ScheduleInv
<1> QED BY <1>2, <1>3, ScheduleStart, ScheduleBlock, Zenon DEF InflationNext, SomeInflationBlock

\* Before the start nothing is scheduled.
LEMMA ScheduleInit == InflationInit => ScheduleInv
BY InflationAssumption DEF InflationInit, ScheduleInv

\* Every deposit is the amount that the schedule gives for the year in force, on the
\* grids of years and intervals that the start block fixed.
THEOREM RateCorrect == InflationSpec => []RateOfSchedule
<1>1. ASSUME ScheduleInv PROVE RateOfSchedule
  <2> SUFFICES ASSUME NextInflationBlock # 0
               PROVE  /\ BlockInflation >= 0
                      /\ BlockInflation = InflationFor(RateYear, StartingYearTotalIssuance)
                      /\ (NextRecalculationBlock - StartBlock) % Year = 0 /\ RateYear >= 0
                      /\ (NextInflationBlock - StartBlock) % Interval = 0
    BY Zenon DEF RateOfSchedule, Started
  <2>1. PICK k \in Nat : /\ NextRecalculationBlock = StartBlock + (k + 1) * Year
                         /\ BlockInflation = InflationFor(k, StartingYearTotalIssuance)
    BY <1>1, Zenon DEF ScheduleInv
  <2>2. PICK j \in Nat : NextInflationBlock = StartBlock + (j + 1) * Interval
    BY <1>1, Zenon DEF ScheduleInv
  <2>3. /\ Year \in Nat \ {0} /\ Interval \in Nat \ {0} /\ StartBlock \in Nat
        /\ StartingYearTotalIssuance \in Nat
    BY <1>1, InflationAssumption, Zenon DEF ScheduleInv
  <2>4. NextRecalculationBlock - StartBlock = (k + 1) * Year
        /\ NextInflationBlock - StartBlock = (j + 1) * Interval
    <3>1. (k + 1) * Year \in Nat /\ (j + 1) * Interval \in Nat
      BY <2>3
    <3> QED BY <2>1, <2>2, <2>3, <3>1
  <2>5. /\ ((k + 1) * Year) \div Year = k + 1 /\ ((k + 1) * Year) % Year = 0
        /\ ((j + 1) * Interval) % Interval = 0
    BY <2>3, WholePeriods
  <2>6. RateYear = k
    BY <2>4, <2>5 DEF RateYear
  <2>7. BlockInflation \in Nat
    BY <2>1, <2>3, InflationForType, Zenon
  <2> QED BY <2>1, <2>4, <2>5, <2>6, <2>7
<1>2. ScheduleInv => RateOfSchedule
  BY <1>1, Zenon
<1> QED BY <1>2, ScheduleInit, ScheduleNext, PTL DEF InflationSpec

-----------------------------------------------------------------------------
(* Once started, inflation cannot be started again, unless it was started  *)
(* at relay block 0, which reads as not started.                           *)

StartedOnce == NextInflationBlock # 0 => StartBlock # 0

\* With a start other than 0, no interval is deposited twice and none is left out.
THEOREM IntervalsDepositedOnce ==
  ASSUME 0 \notin Starts PROVE InflationSpec => EveryIntervalOnce
<1> DEFINE Once == NextInflationBlock # 0 =>
                     \/ NextInflationBlock' = NextInflationBlock + Interval
                     \/ NextInflationBlock' = NextInflationBlock /\ deposited' = deposited
<1>1. InflationInit => StartedOnce
  BY Zenon DEF InflationInit, StartedOnce
<1>2. ASSUME StartedOnce, [InflationNext]_inflationVars PROVE StartedOnce' /\ Once
  <2>1. ASSUME NEW start \in Starts, StartInflation(start) PROVE StartedOnce' /\ Once
    BY <1>2, <2>1, Zenon DEF StartInflation, NotStarted, StartedOnce
  <2>2. ASSUME NEW blocks \in 0..MaxRelayStep, OnInitialize(blocks) PROVE StartedOnce' /\ Once
    BY <1>2, <2>2, Zenon DEF OnInitialize, InflationDue, NextInterval, StartedOnce
  <2>3. ASSUME NEW d \in Changes, ChangeIssuance(d) PROVE StartedOnce' /\ Once
    BY <1>2, <2>3, Zenon DEF ChangeIssuance, schedule, StartedOnce
  <2>4. CASE UNCHANGED inflationVars
    BY <1>2, <2>4, Zenon DEF inflationVars, StartedOnce
  <2> QED BY <1>2, <2>1, <2>2, <2>3, <2>4, Zenon DEF InflationNext, SomeInflationBlock
<1>3. StartedOnce /\ [InflationNext]_inflationVars => StartedOnce'
  BY <1>2, Zenon
<1>4. StartedOnce /\ [InflationNext]_inflationVars => [Once]_inflationVars
  BY <1>2, Zenon
<1> QED BY <1>1, <1>3, <1>4, PTL DEF InflationSpec, EveryIntervalOnce, Started

-----------------------------------------------------------------------------
(* Collections.                                                            *)
(*                                                                         *)
(* The rows of CollectionById.                                             *)

Row(o, m, s, l, p) ==
  [owner |-> o, mode |-> m, sponsorship |-> s, limits |-> l, permissions |-> p]
IsRow(r) == r = Row(r.owner, r.mode, r.sponsorship, r.limits, r.permissions)

\* A row is never the absent one.
LEMMA RowExists == \A o, m, s, l, p : Row(o, m, s, l, p) # NoCollection
<1> SUFFICES ASSUME NEW o, NEW m, NEW s, NEW l, NEW p, Row(o, m, s, l, p) = NoCollection PROVE FALSE
  BY Zenon
<1>1. "owner" \in DOMAIN Row(o, m, s, l, p)
  BY Zenon DEF Row
<1>2. DOMAIN NoCollection = {}
  BY Zenon DEF NoCollection, Nothing
<1> QED BY <1>1, <1>2, Zenon

\* The fields of a row.
LEMMA RowFields ==
  ASSUME NEW o, NEW m, NEW s, NEW l, NEW p, NEW r, r = Row(o, m, s, l, p)
  PROVE  /\ r.owner = o /\ r.mode = m /\ r.sponsorship = s /\ r.limits = l /\ r.permissions = p
         /\ IsRow(r) /\ r # NoCollection
<1>1. /\ r.owner = o /\ r.mode = m /\ r.sponsorship = s /\ r.limits = l /\ r.permissions = p
  BY Zenon DEF Row
<1> QED BY <1>1, RowExists, Zenon DEF IsRow

\* CollectionHandle::save with one field changed.
LEMMA RowUpdate ==
  ASSUME NEW r, IsRow(r), NEW x
  PROVE  /\ [r EXCEPT !.owner = x] = Row(x, r.mode, r.sponsorship, r.limits, r.permissions)
         /\ [r EXCEPT !.sponsorship = x] = Row(r.owner, r.mode, x, r.limits, r.permissions)
         /\ [r EXCEPT !.limits = x] = Row(r.owner, r.mode, r.sponsorship, x, r.permissions)
         /\ [r EXCEPT !.permissions = x] = Row(r.owner, r.mode, r.sponsorship, r.limits, x)
<1>1. r = [owner |-> r.owner, mode |-> r.mode, sponsorship |-> r.sponsorship, limits |-> r.limits,
           permissions |-> r.permissions]
  BY Zenon DEF IsRow, Row
<1>2. [r EXCEPT !.owner = x] = Row(x, r.mode, r.sponsorship, r.limits, r.permissions)
  BY <1>1 DEF Row
<1>3. [r EXCEPT !.sponsorship = x] = Row(r.owner, r.mode, x, r.limits, r.permissions)
  BY <1>1 DEF Row
<1>4. [r EXCEPT !.limits = x] = Row(r.owner, r.mode, r.sponsorship, x, r.permissions)
  BY <1>1 DEF Row
<1>5. [r EXCEPT !.permissions = x] = Row(r.owner, r.mode, r.sponsorship, r.limits, x)
  BY <1>1 DEF Row
<1> QED BY <1>2, <1>3, <1>4, <1>5, Zenon

-----------------------------------------------------------------------------
(* Limits.                                                                 *)

\* What clamp_limits lets through keeps its types and only gives rights up.
LEMMA ClampRatchet ==
  ASSUME NEW old, HasLimitTypes(old), NEW new, HasLimitTypes(new), ClampLimits(old, new)
  PROVE  LET now == Merge(old, new) IN
         /\ HasLimitTypes(now)
         /\ Merge(DefaultLimits, now).token_limit <= Merge(DefaultLimits, old).token_limit
         /\ Merge(DefaultLimits, now).owner_can_destroy => Merge(DefaultLimits, old).owner_can_destroy
         /\ "owner_can_transfer" \in DOMAIN old /\ ~old["owner_can_transfer"]
              => "owner_can_transfer" \in DOMAIN now /\ ~now["owner_can_transfer"]
<1> DEFINE now == Merge(old, new)
<1>1. /\ DOMAIN now = DOMAIN old \cup DOMAIN new
      /\ \A f \in DOMAIN now : now[f] = IF f \in DOMAIN new THEN new[f] ELSE old[f]
  BY Zenon DEF Merge
<1>2. /\ DOMAIN DefaultLimits = {"token_limit", "account_token_ownership_limit",
                                 "owner_can_transfer", "owner_can_destroy", "transfers_enabled"}
      /\ DefaultLimits["token_limit"] = TokenLimit /\ DefaultLimits["owner_can_destroy"] = TRUE
  BY Zenon DEF DefaultLimits
<1>3. ASSUME NEW l, NEW f \in DOMAIN DefaultLimits
      PROVE  Merge(DefaultLimits, l)[f] = IF f \in DOMAIN l THEN l[f] ELSE DefaultLimits[f]
  BY Zenon DEF Merge
<1> HIDE DEF now
<1>4. HasLimitTypes(now)
  <2>1. DOMAIN now \subseteq DOMAIN DefaultLimits
    BY <1>1, Zenon DEF HasLimitTypes
  <2>2. ASSUME NEW f \in DOMAIN now \cap {"token_limit", "account_token_ownership_limit"}
        PROVE  now[f] \in Nat
    BY <1>1, Zenon DEF HasLimitTypes
  <2>3. ASSUME NEW f \in DOMAIN now \cap {"owner_can_transfer", "owner_can_destroy", "transfers_enabled"}
        PROVE  now[f] \in BOOLEAN
    <3>1. CASE f \in DOMAIN new
      BY <1>1, <3>1, Zenon DEF HasLimitTypes
    <3>2. CASE f \notin DOMAIN new
      BY <1>1, <3>2, Zenon DEF HasLimitTypes
    <3> QED BY <3>1, <3>2, Zenon
  <2> QED BY <2>1, <2>2, <2>3, Zenon DEF HasLimitTypes
<1>5. Merge(DefaultLimits, now)["token_limit"] <= Merge(DefaultLimits, old)["token_limit"]
  <2> DEFINE was == Merge(DefaultLimits, old)["token_limit"]
  <2>1. was \in Nat
    BY <1>2, <1>3, CollectionAssumption, Zenon DEF HasLimitTypes
  <2>2. CASE "token_limit" \in DOMAIN new
    <3>1. Merge(DefaultLimits, now)["token_limit"] = new["token_limit"]
      BY <1>1, <1>2, <1>3, <2>2, Zenon
    <3>2. new["token_limit"] <= was
      BY <2>2, Zenon DEF ClampLimits, Within
    <3> QED BY <3>1, <3>2, Zenon
  <2>3. CASE "token_limit" \notin DOMAIN new
    <3>1. Merge(DefaultLimits, now)["token_limit"] = was
      BY <1>1, <1>2, <1>3, <2>3
    <3> QED BY <2>1, <3>1
  <2> QED BY <2>2, <2>3, Zenon
<1>6. Merge(DefaultLimits, now)["owner_can_destroy"] => Merge(DefaultLimits, old)["owner_can_destroy"]
  <2>1. CASE "owner_can_destroy" \in DOMAIN new
    <3>1. Merge(DefaultLimits, now)["owner_can_destroy"] = new["owner_can_destroy"]
      BY <1>1, <1>2, <1>3, <2>1, Zenon
    <3>2. Merge(DefaultLimits, old)["owner_can_destroy"] \/ ~new["owner_can_destroy"]
      BY <2>1, Zenon DEF ClampLimits, Within
    <3> QED BY <3>1, <3>2, Zenon
  <2>2. CASE "owner_can_destroy" \notin DOMAIN new
    BY <1>1, <1>2, <1>3, <2>2, Zenon
  <2> QED BY <2>1, <2>2, Zenon
<1>7. ASSUME "owner_can_transfer" \in DOMAIN old, ~old["owner_can_transfer"]
      PROVE  "owner_can_transfer" \in DOMAIN now /\ ~now["owner_can_transfer"]
  <2>1. CASE "owner_can_transfer" \in DOMAIN new
    <3>1. old["owner_can_transfer"] \/ ~new["owner_can_transfer"]
      BY <1>7, <2>1, Zenon DEF ClampLimits, TransferRightKept, Within
    <3> QED BY <1>1, <1>7, <2>1, <3>1, Zenon
  <2>2. CASE "owner_can_transfer" \notin DOMAIN new
    BY <1>1, <1>7, <2>2, Zenon
  <2> QED BY <2>1, <2>2, Zenon
<1> QED BY <1>4, <1>5, <1>6, <1>7, Zenon DEF now
\* set_transfers_enabled_flag passes clamp_limits trivially.
LEMMA FlagClamped ==
  ASSUME NEW old, NEW value \in BOOLEAN
  PROVE  LET new == [transfers_enabled |-> value] IN HasLimitTypes(new) /\ ClampLimits(old, new)
<1> DEFINE new == [transfers_enabled |-> value]
<1>1. DOMAIN new = {"transfers_enabled"} /\ new["transfers_enabled"] = value
  BY Zenon
<1> HIDE DEF new
<1>2. HasLimitTypes(new)
  <2>1. DOMAIN new \subseteq DOMAIN DefaultLimits
    BY <1>1, Zenon DEF DefaultLimits
  <2>2. \A f \in DOMAIN new \cap {"token_limit", "account_token_ownership_limit"} : new[f] \in Nat
    BY <1>1, Zenon
  <2>3. \A f \in DOMAIN new \cap {"owner_can_transfer", "owner_can_destroy", "transfers_enabled"} :
          new[f] \in BOOLEAN
    BY <1>1, Zenon
  <2> QED BY <2>1, <2>2, <2>3, Zenon DEF HasLimitTypes
<1>3. ClampLimits(old, new)
  BY <1>1, Zenon DEF ClampLimits, TransferRightKept, Within
<1> QED BY <1>2, <1>3, Zenon DEF new

-----------------------------------------------------------------------------
(* The steps.  Most calls save one field of one row.                       *)

\* A disabled sponsorship names nobody, and only the account itself, or app-promotion,
\* becomes a confirmed sponsor.
SponsorChange(old, new) ==
  \/ new = Disabled
  \/ new = Confirmed(PromotionAccount)
  \/ \E a \in Accounts : new = Unconfirmed(a) \/ (new = Confirmed(a) /\ old.account = a)

RowChange(r, s) ==
  \/ \E x \in Accounts : s = Row(x, r.mode, r.sponsorship, r.limits, r.permissions)
  \/ \E x : SponsorChange(r.sponsorship, x) /\ s = Row(r.owner, r.mode, x, r.limits, r.permissions)
  \/ \E x : /\ HasLimitTypes(x) /\ ClampLimits(r.limits, x)
            /\ s = Row(r.owner, r.mode, r.sponsorship, Merge(r.limits, x), r.permissions)
  \/ \E x : s = Row(r.owner, r.mode, r.sponsorship, r.limits, x)

SavedRow(c, r) == Exists(c) /\ RowChange(CollectionById[c], r) /\ Save(c, r)

IsSponsorship(s) == s = Disabled \/ \E a : s = Unconfirmed(a) \/ s = Confirmed(a)

RowTyped(r) ==
  IsRow(r) /\ r.owner \in Accounts /\ HasLimitTypes(r.limits) /\ IsSponsorship(r.sponsorship)

WellFormed ==
  /\ CreatedCollectionCount \in Nat /\ DestroyedCollectionCount \in Nat
  /\ CollectionById = [c \in CollectionIds |-> CollectionById[c]]
  /\ \A c \in CollectionIds : c > CreatedCollectionCount => ~Exists(c)
  /\ \A c \in CollectionIds : Exists(c) => RowTyped(CollectionById[c])
  /\ IsAdmin \in SUBSET (CollectionIds \X Users) /\ Allowlist \in SUBSET (CollectionIds \X Users)
  /\ AdminAmount \in [CollectionIds -> Nat]

\* Every step creates a collection, changes a list of its members, saves a row with one
\* field changed, or destroys a collection.
LEMMA Steps ==
  ASSUME WellFormed, CollectionNext
  PROVE  \/ \E u \in Users, mode \in Modes, input \in CreateInputs, admins \in SUBSET Managed :
              CreateCollection(u, mode, input, admins)
         \/ \E u \in Users, c \in CollectionIds, user \in Managed :
              \/ \E allowed \in BOOLEAN : ToggleAllowlist(u, c, user, allowed)
              \/ AddCollectionAdmin(u, c, user)
              \/ RemoveCollectionAdmin(u, c, user)
         \/ \E c \in CollectionIds : \E r : SavedRow(c, r)
         \/ \E u \in Users, c \in CollectionIds : CommonDestroy(u, c)
<1> DEFINE Saved == \E c \in CollectionIds : \E r : SavedRow(c, r)
<1>0. \A u \in Users : AsSub[u] \in Accounts
  BY Zenon DEF Accounts
<1>1. ASSUME NEW c \in CollectionIds, Exists(c), NEW r, RowChange(CollectionById[c], r), Save(c, r)
      PROVE  Saved
  BY <1>1, Zenon DEF SavedRow
<1>2. ASSUME NEW u \in Users, NEW c \in CollectionIds, NEW user \in Managed, ChangeOwner(u, c, user)
      PROVE  Saved
  <2>1. OwnerAccount(user) \in Accounts
    BY <1>0, UsersAssumption, Zenon DEF OwnerAccount
  <2>2. IsRow(CollectionById[c]) /\ Exists(c)
    BY <1>2, Zenon DEF ChangeOwner, WellFormed, RowTyped
  <2>3. RowChange(CollectionById[c], [CollectionById[c] EXCEPT !.owner = OwnerAccount(user)])
    BY <2>1, <2>2, RowUpdate, Zenon DEF RowChange
  <2> QED BY <1>1, <1>2, <2>2, <2>3, Zenon DEF ChangeOwner
<1>3. ASSUME NEW c \in CollectionIds, Exists(c), NEW x, SponsorChange(CollectionById[c].sponsorship, x),
             Save(c, [CollectionById[c] EXCEPT !.sponsorship = x])
      PROVE  Saved
  <2>1. IsRow(CollectionById[c])
    BY <1>3, Zenon DEF WellFormed, RowTyped
  <2>2. RowChange(CollectionById[c], [CollectionById[c] EXCEPT !.sponsorship = x])
    <3>1. [CollectionById[c] EXCEPT !.sponsorship = x]
            = Row(CollectionById[c].owner, CollectionById[c].mode, x, CollectionById[c].limits,
                  CollectionById[c].permissions)
      BY <2>1, RowUpdate, Zenon
    <3> QED BY <1>3, <3>1, Zenon DEF RowChange
  <2> QED BY <1>1, <1>3, <2>2, Zenon
<1>4. CASE SponsorCalls
  <2>1. PICK u \in Users, c \in CollectionIds :
          \/ \E user \in Managed : SetSponsor(u, c, user)
          \/ ConfirmSponsorship(u, c)
          \/ RemoveSponsor(u, c)
    BY <1>4, Zenon DEF SponsorCalls
  <2>2. ASSUME NEW user \in Managed, SetSponsor(u, c, user) PROVE Saved
    <3>1. SponsorChange(CollectionById[c].sponsorship, Unconfirmed(AsSub[user]))
      BY <1>0, UsersAssumption, Zenon DEF SponsorChange
    <3> QED BY <1>3, <2>2, <3>1, Zenon DEF SetSponsor
  <2>3. ASSUME ConfirmSponsorship(u, c) PROVE Saved
    <3>1. SponsorChange(CollectionById[c].sponsorship, Confirmed(AsSub[u]))
      BY <1>0, <2>3, Zenon DEF SponsorChange, ConfirmSponsorship, MayConfirm
    <3> QED BY <1>3, <2>3, <3>1, Zenon DEF ConfirmSponsorship
  <2>4. ASSUME RemoveSponsor(u, c) PROVE Saved
    <3>1. SponsorChange(CollectionById[c].sponsorship, Disabled)
      BY Zenon DEF SponsorChange
    <3> QED BY <1>3, <2>4, <3>1, Zenon DEF RemoveSponsor
  <2> QED BY <2>1, <2>2, <2>3, <2>4, Zenon
<1>5. CASE PromotionCalls
  <2>1. PICK c \in CollectionIds : SponsorCollection(c) \/ StopSponsoringCollection(c)
    BY <1>5, UsersAssumption, Zenon DEF PromotionCalls, CollectionIds
  <2>2. SponsorChange(CollectionById[c].sponsorship, Disabled)
        /\ SponsorChange(CollectionById[c].sponsorship, Confirmed(PromotionAccount))
    BY Zenon DEF SponsorChange
  <2> QED BY <1>3, <2>1, <2>2, Zenon DEF SponsorCollection, StopSponsoringCollection
<1>6. ASSUME NEW c \in CollectionIds, Exists(c), NEW x, HasLimitTypes(x),
             ClampLimits(CollectionById[c].limits, x),
             Save(c, [CollectionById[c] EXCEPT !.limits = Merge(@, x)])
      PROVE  Saved
  <2>1. IsRow(CollectionById[c])
    BY <1>6, Zenon DEF WellFormed, RowTyped
  <2>2. [CollectionById[c] EXCEPT !.limits = Merge(@, x)]
          = [CollectionById[c] EXCEPT !.limits = Merge(CollectionById[c].limits, x)]
    BY Zenon
  <2>3. RowChange(CollectionById[c], [CollectionById[c] EXCEPT !.limits = Merge(@, x)])
    <3>1. [CollectionById[c] EXCEPT !.limits = Merge(CollectionById[c].limits, x)]
            = Row(CollectionById[c].owner, CollectionById[c].mode, CollectionById[c].sponsorship,
                  Merge(CollectionById[c].limits, x), CollectionById[c].permissions)
      BY <2>1, RowUpdate, Zenon
    <3> QED BY <1>6, <2>2, <3>1, Zenon DEF RowChange
  <2> QED BY <1>1, <1>6, <2>3, Zenon
<1>7. CASE LimitCalls
  <2>1. PICK u \in Users, c \in CollectionIds :
          \/ \E new \in LimitInputs : SetCollectionLimits(u, c, new)
          \/ \E new \in PermissionInputs : SetCollectionPermissions(u, c, new)
          \/ \E value \in TransferFlags : SetTransfersEnabled(u, c, value)
    BY <1>7, Zenon DEF LimitCalls
  <2>2. ASSUME NEW new \in LimitInputs, SetCollectionLimits(u, c, new) PROVE Saved
    <3>1. HasLimitTypes(new)
      BY InputsAssumption, Zenon
    <3> QED BY <1>6, <2>2, <3>1, Zenon DEF SetCollectionLimits
  <2>3. ASSUME NEW new \in PermissionInputs, SetCollectionPermissions(u, c, new) PROVE Saved
    <3>1. IsRow(CollectionById[c]) /\ Exists(c)
      BY <2>3, Zenon DEF SetCollectionPermissions, WellFormed, RowTyped
    <3> DEFINE x == Merge(CollectionById[c].permissions, new)
               r == [CollectionById[c] EXCEPT !.permissions = x]
    <3>2. Save(c, r)
      BY <2>3, Zenon DEF SetCollectionPermissions
    <3>3. RowChange(CollectionById[c], r)
      BY <3>1, RowUpdate, Zenon DEF RowChange
    <3> QED BY <1>1, <3>1, <3>2, <3>3, Zenon
  <2>4. ASSUME NEW value \in TransferFlags, SetTransfersEnabled(u, c, value) PROVE Saved
    <3>1. value \in BOOLEAN
      BY InputsAssumption, Zenon
    <3> DEFINE new == [transfers_enabled |-> value]
    <3>2. HasLimitTypes(new) /\ ClampLimits(CollectionById[c].limits, new)
      BY <3>1, FlagClamped, Zenon
    <3>3. Exists(c) /\ Save(c, [CollectionById[c] EXCEPT !.limits = Merge(@, new)])
      BY <2>4, Zenon DEF SetTransfersEnabled
    <3> HIDE DEF new
    <3> QED BY <1>6, <3>2, <3>3, Zenon
  <2> QED BY <2>1, <2>2, <2>3, <2>4, Zenon
<1>8. CASE MemberCalls
  BY <1>2, <1>8, Zenon DEF MemberCalls
<1>9. CASE CreateCalls
  BY <1>9, Zenon DEF CreateCalls
<1> QED BY <1>4, <1>5, <1>7, <1>8, <1>9, Zenon DEF CollectionNext, Configure

-----------------------------------------------------------------------------
(* Rows keep their form.                                                   *)

\* A save changes one field: the limits as clamp_limits allows, the sponsorship as a
\* call about sponsors does.
LEMMA ChangedFields ==
  ASSUME NEW r, NEW s, RowChange(r, s)
  PROVE  /\ \/ s.limits = r.limits
            \/ \E x : /\ HasLimitTypes(x) /\ ClampLimits(r.limits, x)
                      /\ s.limits = Merge(r.limits, x)
         /\ s.sponsorship = r.sponsorship \/ SponsorChange(r.sponsorship, s.sponsorship)
<1>1. CASE \E x \in Accounts : s = Row(x, r.mode, r.sponsorship, r.limits, r.permissions)
  <2>1. PICK x \in Accounts : s = Row(x, r.mode, r.sponsorship, r.limits, r.permissions)
    BY <1>1, Zenon
  <2>2. s.limits = r.limits /\ s.sponsorship = r.sponsorship
    BY <2>1, Zenon DEF Row
  <2> QED BY <2>2, Zenon
<1>2. CASE \E x : SponsorChange(r.sponsorship, x) /\ s = Row(r.owner, r.mode, x, r.limits, r.permissions)
  <2>1. PICK x : SponsorChange(r.sponsorship, x) /\ s = Row(r.owner, r.mode, x, r.limits, r.permissions)
    BY <1>2, Zenon
  <2>2. s.limits = r.limits /\ s.sponsorship = x
    BY <2>1, Zenon DEF Row
  <2> QED BY <2>1, <2>2, Zenon
<1>3. CASE \E x : /\ HasLimitTypes(x) /\ ClampLimits(r.limits, x)
                  /\ s = Row(r.owner, r.mode, r.sponsorship, Merge(r.limits, x), r.permissions)
  <2>1. PICK x : /\ HasLimitTypes(x) /\ ClampLimits(r.limits, x)
                 /\ s = Row(r.owner, r.mode, r.sponsorship, Merge(r.limits, x), r.permissions)
    BY <1>3, Zenon
  <2>2. s.limits = Merge(r.limits, x) /\ s.sponsorship = r.sponsorship
    BY <2>1, Zenon DEF Row
  <2> QED BY <2>1, <2>2, Zenon
<1>4. CASE \E x : s = Row(r.owner, r.mode, r.sponsorship, r.limits, x)
  <2>1. PICK x : s = Row(r.owner, r.mode, r.sponsorship, r.limits, x)
    BY <1>4, Zenon
  <2>2. s.limits = r.limits /\ s.sponsorship = r.sponsorship
    BY <2>1, Zenon DEF Row
  <2> QED BY <2>2, Zenon
<1> QED BY <1>1, <1>2, <1>3, <1>4, Zenon DEF RowChange

\* A saved row is a row, with the types of its fields.
LEMMA SavedTyped ==
  ASSUME NEW r, RowTyped(r), NEW s, RowChange(r, s) PROVE RowTyped(s) /\ s # NoCollection
<1>1. CASE \E x \in Accounts : s = Row(x, r.mode, r.sponsorship, r.limits, r.permissions)
  <2>1. PICK x \in Accounts : s = Row(x, r.mode, r.sponsorship, r.limits, r.permissions)
    BY <1>1, ZenonT(60)
  <2>2. /\ s.owner = x /\ s.limits = r.limits /\ s.sponsorship = r.sponsorship
        /\ IsRow(s) /\ s # NoCollection
    BY <2>1, RowFields
  <2> QED BY <2>2, Zenon DEF RowTyped
<1>2. CASE \E x : SponsorChange(r.sponsorship, x) /\ s = Row(r.owner, r.mode, x, r.limits, r.permissions)
  <2>1. PICK x : SponsorChange(r.sponsorship, x)
                 /\ s = Row(r.owner, r.mode, x, r.limits, r.permissions)
    BY <1>2, Zenon
  <2>2. IsSponsorship(x)
    BY <2>1, Zenon DEF SponsorChange, IsSponsorship
  <2>3. s.owner = r.owner /\ s.limits = r.limits /\ s.sponsorship = x /\ IsRow(s) /\ s # NoCollection
    BY <2>1, RowFields
  <2> QED BY <2>2, <2>3, Zenon DEF RowTyped
<1>3. CASE \E x : /\ HasLimitTypes(x) /\ ClampLimits(r.limits, x)
                  /\ s = Row(r.owner, r.mode, r.sponsorship, Merge(r.limits, x), r.permissions)
  <2>1. PICK x : /\ HasLimitTypes(x) /\ ClampLimits(r.limits, x)
                 /\ s = Row(r.owner, r.mode, r.sponsorship, Merge(r.limits, x), r.permissions)
    BY <1>3, Zenon
  <2>2. HasLimitTypes(Merge(r.limits, x))
    BY <2>1, ClampRatchet, Zenon DEF RowTyped
  <2>3. /\ s.owner = r.owner /\ s.limits = Merge(r.limits, x) /\ s.sponsorship = r.sponsorship
        /\ IsRow(s) /\ s # NoCollection
    BY <2>1, RowFields
  <2> QED BY <2>2, <2>3, Zenon DEF RowTyped
<1>4. CASE \E x : s = Row(r.owner, r.mode, r.sponsorship, r.limits, x)
  <2>1. PICK x : s = Row(r.owner, r.mode, r.sponsorship, r.limits, x)
    BY <1>4, Zenon
  <2>2. /\ s.owner = r.owner /\ s.limits = r.limits /\ s.sponsorship = r.sponsorship
        /\ IsRow(s) /\ s # NoCollection
    BY <2>1, RowFields
  <2> QED BY <2>2, Zenon DEF RowTyped
<1> QED BY <1>1, <1>2, <1>3, <1>4, Zenon DEF RowChange

\* What a save leaves behind.
LEMMA SavedEffect ==
  ASSUME WellFormed, NEW c \in CollectionIds, NEW r, SavedRow(c, r)
  PROVE  /\ CollectionById' = [d \in CollectionIds |-> CollectionById'[d]]
         /\ CollectionById'[c] = r /\ \A d \in CollectionIds \ {c} : CollectionById'[d] = CollectionById[d]
         /\ Exists(c) /\ RowTyped(r) /\ RowChange(CollectionById[c], r)
         /\ \A d \in CollectionIds : Exists(d)' <=> Exists(d)
         /\ UNCHANGED <<CreatedCollectionCount, DestroyedCollectionCount, IsAdmin, AdminAmount, Allowlist>>
<1>1. CollectionById' = [CollectionById EXCEPT ![c] = r] /\ Exists(c)
      /\ RowChange(CollectionById[c], r)
      /\ UNCHANGED <<CreatedCollectionCount, DestroyedCollectionCount, IsAdmin, AdminAmount, Allowlist>>
  BY Zenon DEF SavedRow, Save, counts, lists
<1>2. CollectionById = [d \in CollectionIds |-> CollectionById[d]]
  BY Zenon DEF WellFormed
<1>3. CollectionById' = [d \in CollectionIds |-> IF d = c THEN r ELSE CollectionById[d]]
  BY <1>1, <1>2, Zenon
<1>4. RowTyped(r) /\ r # NoCollection
  BY <1>1, SavedTyped, Zenon DEF WellFormed
<1>5. /\ CollectionById' = [d \in CollectionIds |-> CollectionById'[d]]
      /\ CollectionById'[c] = r
      /\ \A d \in CollectionIds \ {c} : CollectionById'[d] = CollectionById[d]
  BY <1>3, Zenon
<1> QED BY <1>1, <1>4, <1>5, Zenon DEF Exists

\* What a creation leaves behind: a new row under an id that no row or right had.
LEMMA CreatedEffect ==
  ASSUME WellFormed, NEW u \in Users, NEW mode \in Modes, NEW input \in CreateInputs,
         NEW admins \in SUBSET Managed, CreateCollection(u, mode, input, admins)
  PROVE  LET n == CreatedCollectionCount + 1
             r == Row(AsSub[u], mode, Invitation(input.pending_sponsor), input.limits, input.permissions)
         IN
         /\ n \in CollectionIds /\ ~Exists(n)
         /\ CollectionById' = [d \in CollectionIds |-> CollectionById'[d]]
         /\ CollectionById'[n] = r /\ \A d \in CollectionIds \ {n} : CollectionById'[d] = CollectionById[d]
         /\ RowTyped(r) /\ r # NoCollection
<1> DEFINE n == CreatedCollectionCount + 1
           r == Row(AsSub[u], mode, Invitation(input.pending_sponsor), input.limits, input.permissions)
<1>1. n \in CollectionIds /\ CollectionById' = [CollectionById EXCEPT ![n] = r]
  BY Zenon DEF CreateCollection, NewId, Row
<1>2. CollectionById = [d \in CollectionIds |-> CollectionById[d]]
  BY Zenon DEF WellFormed
<1>3. ~Exists(n)
  BY <1>1 DEF WellFormed
<1>4. RowTyped(r) /\ r # NoCollection
  <2>1. AsSub[u] \in Accounts
    BY Zenon DEF Accounts
  <2>2. IsSponsorship(Invitation(input.pending_sponsor))
    BY Zenon DEF IsSponsorship, Invitation
  <2>3. HasLimitTypes(input.limits)
    BY InputsAssumption, ZenonT(60)
  <2>4. /\ r.owner = AsSub[u] /\ r.sponsorship = Invitation(input.pending_sponsor)
        /\ r.limits = input.limits /\ IsRow(r) /\ r # NoCollection
    BY RowFields
  <2> QED BY <2>1, <2>2, <2>3, <2>4, Zenon DEF RowTyped
<1> HIDE DEF r, n
<1>5. CollectionById' = [d \in CollectionIds |-> IF d = n THEN r ELSE CollectionById[d]]
  BY <1>1, <1>2, Zenon
<1>6. /\ CollectionById' = [d \in CollectionIds |-> CollectionById'[d]]
      /\ CollectionById'[n] = r /\ \A d \in CollectionIds \ {n} : CollectionById'[d] = CollectionById[d]
  BY <1>1, <1>5, Zenon
<1> QED BY <1>1, <1>3, <1>4, <1>6, Zenon DEF n, r

\* What a destruction leaves behind.
LEMMA DestroyedEffect ==
  ASSUME WellFormed, NEW u \in Users, NEW c \in CollectionIds, CommonDestroy(u, c)
  PROVE  /\ CollectionById' = [d \in CollectionIds |-> CollectionById'[d]]
         /\ Exists(c) /\ ~Exists(c)'
         /\ \A d \in CollectionIds \ {c} : CollectionById'[d] = CollectionById[d]
<1>1. CollectionById' = [CollectionById EXCEPT ![c] = NoCollection] /\ Exists(c)
  BY Zenon DEF CommonDestroy
<1>2. CollectionById = [d \in CollectionIds |-> CollectionById[d]]
  BY Zenon DEF WellFormed
<1>3. CollectionById' = [d \in CollectionIds |-> IF d = c THEN NoCollection ELSE CollectionById[d]]
  BY <1>1, <1>2, Zenon
<1> QED BY <1>1, <1>3, Zenon DEF Exists

\* Nothing exists at the start.
LEMMA WellFormedInit == CollectionInit => WellFormed
BY CollectionAssumption DEF CollectionInit, WellFormed, Exists

\* Every step keeps the rows well formed.
LEMMA WellFormedNext == WellFormed /\ [CollectionNext]_collectionVars => WellFormed'
<1> SUFFICES ASSUME WellFormed, [CollectionNext]_collectionVars PROVE WellFormed'
  BY Zenon
<1>0. Managed \subseteq Users /\ MaxCollections \in Nat
  BY UsersAssumption, CollectionAssumption, Zenon
<1>1. ASSUME NEW u \in Users, NEW mode \in Modes, NEW input \in CreateInputs,
             NEW admins \in SUBSET Managed, CreateCollection(u, mode, input, admins)
      PROVE  WellFormed'
  <2> DEFINE n == CreatedCollectionCount + 1
  <2>1. PICK r : /\ n \in CollectionIds /\ ~Exists(n)
                 /\ CollectionById' = [d \in CollectionIds |-> CollectionById'[d]]
                 /\ CollectionById'[n] = r
                 /\ \A d \in CollectionIds \ {n} : CollectionById'[d] = CollectionById[d]
                 /\ RowTyped(r)
    BY <1>1, CreatedEffect, Zenon
  <2>2. /\ CreatedCollectionCount' = n /\ DestroyedCollectionCount' = DestroyedCollectionCount
        /\ IsAdmin' = IsAdmin \cup ({n} \X admins) /\ Allowlist' = Allowlist
        /\ AdminAmount' = [AdminAmount EXCEPT ![n] = Cardinality(admins)]
    BY <1>1, Zenon DEF CreateCollection, NewId
  <2>3. Cardinality(admins) \in Nat
    BY <1>0, UsersAssumption, FS_Subset, FS_CardinalityType, Zenon
  <2>4. n \in Nat /\ CreatedCollectionCount \in Nat /\ CreatedCollectionCount < n
    BY DEF WellFormed
  <2> HIDE DEF n
  <2>5. \A d \in CollectionIds : Exists(d)' => RowTyped(CollectionById'[d])
    BY <2>1, Zenon DEF WellFormed, Exists
  <2>6. ASSUME NEW d \in CollectionIds, d > CreatedCollectionCount' PROVE ~Exists(d)'
    <3>1. d \in Nat
      BY <1>0 DEF CollectionIds
    <3>2. d # n /\ d > CreatedCollectionCount
      BY <2>2, <2>4, <2>6, <3>1
    <3> QED BY <2>1, <3>2, Zenon DEF WellFormed, Exists
  <2>7. IsAdmin' \in SUBSET (CollectionIds \X Users)
    BY <1>0, <2>1, <2>2, Zenon DEF WellFormed
  <2>8. AdminAmount' \in [CollectionIds -> Nat]
    BY <2>2, <2>3, Zenon DEF WellFormed
  <2> QED BY <2>1, <2>2, <2>4, <2>5, <2>6, <2>7, <2>8, Zenon DEF WellFormed
<1>2. ASSUME NEW u \in Users, NEW c \in CollectionIds, NEW user \in Managed,
             NEW allowed \in BOOLEAN, ToggleAllowlist(u, c, user, allowed)
      PROVE  WellFormed'
  <2>1. Allowlist' \in SUBSET (CollectionIds \X Users)
    BY <1>0, <1>2 DEF ToggleAllowlist, WellFormed
  <2> QED BY <1>2, <2>1, Zenon DEF ToggleAllowlist, WellFormed, Exists, counts
<1>3. ASSUME NEW u \in Users, NEW c \in CollectionIds, NEW user \in Managed,
             AddCollectionAdmin(u, c, user) \/ RemoveCollectionAdmin(u, c, user)
      PROVE  WellFormed'
  <2>1. IsAdmin' \in SUBSET (CollectionIds \X Users)
    BY <1>0, <1>3 DEF AddCollectionAdmin, RemoveCollectionAdmin, WellFormed
  <2>2. AdminAmount' \in [CollectionIds -> Nat]
    BY <1>3 DEF AddCollectionAdmin, RemoveCollectionAdmin, WellFormed
  <2> QED BY <1>3, <2>1, <2>2, Zenon DEF AddCollectionAdmin, RemoveCollectionAdmin, WellFormed, Exists, counts
<1>4. ASSUME NEW c \in CollectionIds, NEW r, SavedRow(c, r) PROVE WellFormed'
  <2>1. /\ CollectionById' = [d \in CollectionIds |-> CollectionById'[d]]
        /\ CollectionById'[c] = r /\ \A d \in CollectionIds \ {c} : CollectionById'[d] = CollectionById[d]
        /\ RowTyped(r) /\ \A d \in CollectionIds : Exists(d)' <=> Exists(d)
        /\ UNCHANGED <<CreatedCollectionCount, DestroyedCollectionCount, IsAdmin, AdminAmount, Allowlist>>
    BY <1>4, SavedEffect, Zenon
  <2>2. \A d \in CollectionIds : Exists(d)' => RowTyped(CollectionById'[d])
    BY <2>1, Zenon DEF WellFormed
  <2>3. \A d \in CollectionIds : d > CreatedCollectionCount' => ~Exists(d)'
    BY <2>1, Zenon DEF WellFormed
  <2> QED BY <2>1, <2>2, <2>3, Zenon DEF WellFormed
<1>5. ASSUME NEW u \in Users, NEW c \in CollectionIds, CommonDestroy(u, c) PROVE WellFormed'
  <2>1. /\ CollectionById' = [d \in CollectionIds |-> CollectionById'[d]]
        /\ Exists(c) /\ ~Exists(c)'
        /\ \A d \in CollectionIds \ {c} : CollectionById'[d] = CollectionById[d]
    BY <1>5, DestroyedEffect, Zenon
  <2>2. /\ DestroyedCollectionCount' = DestroyedCollectionCount + 1
        /\ CreatedCollectionCount' = CreatedCollectionCount
        /\ AdminAmount' = [AdminAmount EXCEPT ![c] = 0]
        /\ IsAdmin' \in SUBSET IsAdmin /\ Allowlist' \in SUBSET Allowlist
    BY <1>5, Zenon DEF CommonDestroy, WithoutAllowed
  <2>3. \A d \in CollectionIds : Exists(d)' => RowTyped(CollectionById'[d])
    BY <2>1, Zenon DEF WellFormed, Exists
  <2>4. \A d \in CollectionIds : d > CreatedCollectionCount' => ~Exists(d)'
    BY <2>1, <2>2, Zenon DEF WellFormed, Exists
  <2>5. IsAdmin' \in SUBSET (CollectionIds \X Users) /\ Allowlist' \in SUBSET (CollectionIds \X Users)
    BY <2>2, Zenon DEF WellFormed
  <2>6. DestroyedCollectionCount' \in Nat /\ AdminAmount' \in [CollectionIds -> Nat]
        /\ CreatedCollectionCount' \in Nat
    BY <2>2 DEF WellFormed
  <2> QED BY <2>1, <2>3, <2>4, <2>5, <2>6, Zenon DEF WellFormed
<1>6. CASE UNCHANGED collectionVars
  BY <1>6, Zenon DEF collectionVars, WellFormed, Exists
<1> QED BY <1>1, <1>2, <1>3, <1>4, <1>5, <1>6, Steps, Zenon
-----------------------------------------------------------------------------
(* Counters and rows.                                                      *)

\* The sets that are counted are finite.
LEMMA FiniteRows ==
  /\ IsFiniteSet(CollectionIds) /\ IsFiniteSet(Users)
  /\ \A S \in SUBSET CollectionIds : IsFiniteSet(S) /\ Cardinality(S) \in Nat
  /\ \A S \in SUBSET Users : IsFiniteSet(S) /\ Cardinality(S) \in Nat
<1>1. IsFiniteSet(CollectionIds)
  BY CollectionAssumption, FS_Interval DEF CollectionIds
<1>2. IsFiniteSet(Users)
  BY UsersAssumption, Zenon
<1> QED BY <1>1, <1>2, FS_Subset, FS_CardinalityType, Zenon

\* A step that keeps which collections exist, their owners, and the rights but for those
\* of one of them, keeps the rows exact if it keeps them exact there.
LEMMA ExactKept ==
  ASSUME WellFormed, WellFormed', CollectionRowsExact,
         \A d \in CollectionIds : Exists(d)' <=> Exists(d),
         UNCHANGED <<CreatedCollectionCount, DestroyedCollectionCount>>,
         \A d \in CollectionIds : AdminAmount'[d] = Cardinality(AdminsOf(d)')
                                  /\ Cardinality(AdminsOf(d)') <= AdminLimit,
         \A p \in IsAdmin' \cup Allowlist' : Exists(p[1])'
  PROVE  CollectionRowsExact'
<1>1. Live' = Live
  BY Zenon DEF Live
<1>2. \A d \in Live' : CollectionById'[d].owner \in Accounts
  BY Zenon DEF Live, WellFormed, RowTyped
<1> QED BY <1>1, <1>2, Zenon DEF CollectionRowsExact

\* Every step keeps the counters and the rows exact.
LEMMA ExactNext ==
  WellFormed /\ WellFormed' /\ CollectionRowsExact /\ [CollectionNext]_collectionVars
    => CollectionRowsExact'
<1> SUFFICES ASSUME WellFormed, WellFormed', CollectionRowsExact, [CollectionNext]_collectionVars
             PROVE  CollectionRowsExact'
  BY Zenon
<1>0. /\ CreatedCollectionCount \in Nat /\ DestroyedCollectionCount \in Nat
      /\ Live \in SUBSET CollectionIds /\ IsFiniteSet(Live) /\ Cardinality(Live) \in Nat
      /\ CollectionLimit \in Nat /\ AdminLimit \in Nat
      /\ IsAdmin \in SUBSET (CollectionIds \X Users) /\ Allowlist \in SUBSET (CollectionIds \X Users)
      /\ AdminAmount \in [CollectionIds -> Nat] /\ Managed \subseteq Users
      /\ \A d \in CollectionIds : AdminsOf(d) \in SUBSET Users
  BY FiniteRows, CollectionAssumption, UsersAssumption, Zenon DEF WellFormed, Live, AdminsOf
<1>1. ASSUME NEW u \in Users, NEW mode \in Modes, NEW input \in CreateInputs,
             NEW admins \in SUBSET Managed, CreateCollection(u, mode, input, admins)
      PROVE  CollectionRowsExact'
  <2> DEFINE n == CreatedCollectionCount + 1
  <2>1. /\ n \in CollectionIds /\ ~Exists(n) /\ CollectionById'[n] # NoCollection
        /\ \A d \in CollectionIds \ {n} : CollectionById'[d] = CollectionById[d]
    BY <1>1, CreatedEffect, Zenon
  <2>2. /\ CreatedCollectionCount' = n /\ DestroyedCollectionCount' = DestroyedCollectionCount
        /\ n - DestroyedCollectionCount <= CollectionLimit
        /\ IsAdmin' = IsAdmin \cup ({n} \X admins) /\ Allowlist' = Allowlist
        /\ AdminAmount' = [AdminAmount EXCEPT ![n] = Cardinality(admins)]
        /\ Cardinality(admins) <= AdminLimit
    BY <1>1, Zenon DEF CreateCollection, NewId, UnderCollectionLimit
  <2>3. Live' = Live \cup {n} /\ n \notin Live
    BY <2>1, Zenon DEF Live, Exists
  <2>4. n = CreatedCollectionCount + 1
    BY Zenon
  <2> HIDE DEF n
  <2>5. Cardinality(Live') = Cardinality(Live) + 1
    BY <1>0, <2>3, FS_AddElement, Zenon
  <2>6. CreatedCollectionCount' - DestroyedCollectionCount' = Cardinality(Live')
        /\ Cardinality(Live') <= CollectionLimit
    BY <1>0, <2>2, <2>4, <2>5 DEF CollectionRowsExact
  <2>7. ASSUME NEW d \in CollectionIds
        PROVE  AdminAmount'[d] = Cardinality(AdminsOf(d)') /\ Cardinality(AdminsOf(d)') <= AdminLimit
    <3>1. CASE d = n
      <4>1. \A v \in Users : <<n, v>> \notin IsAdmin
        <5>1. \A p \in IsAdmin : Exists(p[1])
          BY Zenon DEF CollectionRowsExact
        <5> QED BY <2>1, <5>1, Zenon
      <4>2. AdminsOf(d)' = admins
        BY <1>0, <2>2, <3>1, <4>1, Zenon DEF AdminsOf
      <4>3. AdminAmount'[d] = Cardinality(admins)
        BY <1>0, <2>1, <2>2, <3>1, Zenon
      <4> QED BY <2>2, <4>2, <4>3, Zenon
    <3>2. CASE d # n
      <4>1. AdminsOf(d)' = AdminsOf(d)
        BY <2>2, <3>2, Zenon DEF AdminsOf
      <4>2. AdminAmount'[d] = AdminAmount[d]
        BY <1>0, <2>2, <3>2, Zenon
      <4> QED BY <4>1, <4>2, Zenon DEF CollectionRowsExact
    <3> QED BY <3>1, <3>2, Zenon
  <2>8. \A d \in Live' : CollectionById'[d].owner \in Accounts
    BY Zenon DEF Live, WellFormed, RowTyped
  <2>9. ASSUME NEW p \in IsAdmin' \cup Allowlist' PROVE Exists(p[1])'
    <3>1. p[1] \in CollectionIds /\ (p[1] = n \/ Exists(p[1]))
      BY <1>0, <2>1, <2>2, Zenon DEF CollectionRowsExact
    <3> QED BY <2>1, <3>1, Zenon DEF Exists
  <2> QED BY <2>6, <2>7, <2>8, <2>9, Zenon DEF CollectionRowsExact
<1>2. ASSUME NEW u \in Users, NEW c \in CollectionIds, NEW user \in Managed,
             NEW allowed \in BOOLEAN, ToggleAllowlist(u, c, user, allowed)
      PROVE  CollectionRowsExact'
  <2>1. /\ UNCHANGED <<CreatedCollectionCount, DestroyedCollectionCount, CollectionById, IsAdmin,
                       AdminAmount>>
        /\ Exists(c) /\ Allowlist' \in SUBSET (Allowlist \cup {<<c, user>>})
    BY <1>2, Zenon DEF ToggleAllowlist, counts
  <2>2. \A d \in CollectionIds : Exists(d)' <=> Exists(d)
    BY <2>1, Zenon DEF Exists
  <2>3. \A d \in CollectionIds : AdminAmount'[d] = Cardinality(AdminsOf(d)')
                                 /\ Cardinality(AdminsOf(d)') <= AdminLimit
    BY <2>1, Zenon DEF CollectionRowsExact, AdminsOf
  <2>4. \A p \in IsAdmin' \cup Allowlist' : Exists(p[1])'
    BY <2>1 DEF CollectionRowsExact, Exists
  <2> QED BY <2>1, <2>2, <2>3, <2>4, ExactKept, Zenon
<1>3. ASSUME NEW u \in Users, NEW c \in CollectionIds, NEW user \in Managed,
             AddCollectionAdmin(u, c, user)
      PROVE  CollectionRowsExact'
  <2>1. /\ UNCHANGED <<CreatedCollectionCount, DestroyedCollectionCount, CollectionById, Allowlist>>
        /\ Exists(c) /\ <<c, user>> \notin IsAdmin /\ AdminAmount[c] + 1 <= AdminLimit
        /\ AdminAmount' = [AdminAmount EXCEPT ![c] = @ + 1] /\ IsAdmin' = IsAdmin \cup {<<c, user>>}
    BY <1>3, Zenon DEF AddCollectionAdmin, NotYetAdmin, counts
  <2>2. \A d \in CollectionIds : Exists(d)' <=> Exists(d)
    BY <2>1, Zenon DEF Exists
  <2>3. ASSUME NEW d \in CollectionIds
        PROVE  AdminAmount'[d] = Cardinality(AdminsOf(d)') /\ Cardinality(AdminsOf(d)') <= AdminLimit
    <3>1. CASE d = c
      <4>1. AdminsOf(c)' = AdminsOf(c) \cup {user} /\ user \notin AdminsOf(c)
        BY <1>0, <2>1, Zenon DEF AdminsOf
      <4>2. Cardinality(AdminsOf(c) \cup {user}) = Cardinality(AdminsOf(c)) + 1
        BY <1>0, <4>1, FiniteRows, FS_AddElement, Zenon
      <4>3. AdminAmount'[c] = AdminAmount[c] + 1 /\ AdminAmount[c] = Cardinality(AdminsOf(c))
        BY <1>0, <2>1, Zenon DEF CollectionRowsExact
      <4> QED BY <2>1, <3>1, <4>1, <4>2, <4>3, Zenon
    <3>2. CASE d # c
      <4>1. AdminsOf(d)' = AdminsOf(d) /\ AdminAmount'[d] = AdminAmount[d]
        BY <1>0, <2>1, <3>2, Zenon DEF AdminsOf
      <4> QED BY <4>1, Zenon DEF CollectionRowsExact
    <3> QED BY <3>1, <3>2, Zenon
  <2>4. \A p \in IsAdmin' \cup Allowlist' : Exists(p[1])'
    BY <2>1 DEF CollectionRowsExact, Exists
  <2> QED BY <2>1, <2>2, <2>3, <2>4, ExactKept, Zenon
<1>4. ASSUME NEW u \in Users, NEW c \in CollectionIds, NEW user \in Managed,
             RemoveCollectionAdmin(u, c, user)
      PROVE  CollectionRowsExact'
  <2>1. /\ UNCHANGED <<CreatedCollectionCount, DestroyedCollectionCount, CollectionById, Allowlist>>
        /\ <<c, user>> \in IsAdmin
        /\ AdminAmount' = [AdminAmount EXCEPT ![c] = IF @ = 0 THEN 0 ELSE @ - 1]
        /\ IsAdmin' = IsAdmin \ {<<c, user>>}
    BY <1>4, Zenon DEF RemoveCollectionAdmin, counts
  <2>2. \A d \in CollectionIds : Exists(d)' <=> Exists(d)
    BY <2>1, ZenonT(60) DEF Exists
  <2>3. ASSUME NEW d \in CollectionIds
        PROVE  AdminAmount'[d] = Cardinality(AdminsOf(d)') /\ Cardinality(AdminsOf(d)') <= AdminLimit
    <3>1. CASE d = c
      <4>1. AdminsOf(c)' = AdminsOf(c) \ {user} /\ user \in AdminsOf(c)
        BY <1>0, <2>1, Zenon DEF AdminsOf
      <4>2. /\ Cardinality(AdminsOf(c) \ {user}) = Cardinality(AdminsOf(c)) - 1
            /\ Cardinality(AdminsOf(c)) \in Nat /\ Cardinality(AdminsOf(c) \ {user}) \in Nat
        <5>1. IsFiniteSet(AdminsOf(c)) /\ Cardinality(AdminsOf(c)) \in Nat
              /\ AdminsOf(c) \ {user} \in SUBSET Users
          BY <1>0, FiniteRows, Zenon
        <5>2. Cardinality(AdminsOf(c) \ {user}) = Cardinality(AdminsOf(c)) - 1
          BY <4>1, <5>1, FS_RemoveElement, Zenon
        <5> QED BY <5>1, <5>2, FiniteRows, Zenon
      <4>3. /\ AdminAmount'[c] = IF AdminAmount[c] = 0 THEN 0 ELSE AdminAmount[c] - 1
            /\ AdminAmount[c] = Cardinality(AdminsOf(c)) /\ Cardinality(AdminsOf(c)) <= AdminLimit
        BY <1>0, <2>1, Zenon DEF CollectionRowsExact
      <4> QED BY <1>0, <3>1, <4>1, <4>2, <4>3
    <3>2. CASE d # c
      <4>1. AdminsOf(d)' = AdminsOf(d) /\ AdminAmount'[d] = AdminAmount[d]
        BY <1>0, <2>1, <3>2, Zenon DEF AdminsOf
      <4> QED BY <4>1, Zenon DEF CollectionRowsExact
    <3> QED BY <3>1, <3>2, Zenon
  <2>4. \A p \in IsAdmin' \cup Allowlist' : Exists(p[1])'
    BY <2>1, Zenon DEF CollectionRowsExact, Exists
  <2> QED BY <2>1, <2>2, <2>3, <2>4, ExactKept, Zenon
<1>5. ASSUME NEW c \in CollectionIds, NEW r, SavedRow(c, r) PROVE CollectionRowsExact'
  <2>1. /\ \A d \in CollectionIds : Exists(d)' <=> Exists(d)
        /\ UNCHANGED <<CreatedCollectionCount, DestroyedCollectionCount, IsAdmin, AdminAmount, Allowlist>>
    BY <1>5, SavedEffect, Zenon
  <2>2. \A d \in CollectionIds : AdminAmount'[d] = Cardinality(AdminsOf(d)')
                                 /\ Cardinality(AdminsOf(d)') <= AdminLimit
    BY <2>1, Zenon DEF CollectionRowsExact, AdminsOf
  <2>3. \A p \in IsAdmin' \cup Allowlist' : Exists(p[1])'
    <3>1. \A p \in IsAdmin \cup Allowlist : p[1] \in CollectionIds /\ Exists(p[1])
      BY <1>0, Zenon DEF CollectionRowsExact
    <3> QED BY <2>1, <3>1, Zenon
  <2> QED BY <2>1, <2>2, <2>3, ExactKept, Zenon
<1>6. ASSUME NEW u \in Users, NEW c \in CollectionIds, CommonDestroy(u, c) PROVE CollectionRowsExact'
  <2>1. /\ Exists(c) /\ ~Exists(c)'
        /\ \A d \in CollectionIds \ {c} : CollectionById'[d] = CollectionById[d]
    BY <1>6, DestroyedEffect, Zenon
  <2>2. /\ DestroyedCollectionCount' = DestroyedCollectionCount + 1
        /\ CreatedCollectionCount' = CreatedCollectionCount
        /\ AdminAmount' = [AdminAmount EXCEPT ![c] = 0]
        /\ IsAdmin' = {p \in IsAdmin : p[1] # c} /\ Allowlist' = {p \in Allowlist : p[1] # c}
    BY <1>6, Zenon DEF CommonDestroy, WithoutAllowed
  <2>3. Live' = Live \ {c} /\ c \in Live
    BY <2>1, Zenon DEF Live, Exists
  <2>4. Cardinality(Live') = Cardinality(Live) - 1
    BY <1>0, <2>3, FS_RemoveElement, Zenon
  <2>5. CreatedCollectionCount' - DestroyedCollectionCount' = Cardinality(Live')
        /\ Cardinality(Live') <= CollectionLimit
    BY <1>0, <2>2, <2>4 DEF CollectionRowsExact
  <2>6. ASSUME NEW d \in CollectionIds
        PROVE  AdminAmount'[d] = Cardinality(AdminsOf(d)') /\ Cardinality(AdminsOf(d)') <= AdminLimit
    <3>1. CASE d = c
      <4>1. AdminsOf(d)' = {} /\ AdminAmount'[d] = 0
        BY <1>0, <2>2, <3>1, Zenon DEF AdminsOf
      <4> QED BY <1>0, <4>1, FS_EmptySet
    <3>2. CASE d # c
      <4>1. AdminsOf(d)' = AdminsOf(d) /\ AdminAmount'[d] = AdminAmount[d]
        BY <1>0, <2>2, <3>2, Zenon DEF AdminsOf
      <4> QED BY <4>1, Zenon DEF CollectionRowsExact
    <3> QED BY <3>1, <3>2, Zenon
  <2>7. \A d \in Live' : CollectionById'[d].owner \in Accounts
    BY Zenon DEF Live, WellFormed, RowTyped
  <2>8. \A p \in IsAdmin' \cup Allowlist' : Exists(p[1])'
    <3>1. \A p \in IsAdmin' \cup Allowlist' : p[1] \in CollectionIds \ {c} /\ Exists(p[1])
      BY <1>0, <2>2, Zenon DEF CollectionRowsExact
    <3> QED BY <2>1, <3>1, Zenon DEF Exists
  <2> QED BY <2>5, <2>6, <2>7, <2>8, Zenon DEF CollectionRowsExact
<1>7. CASE UNCHANGED collectionVars
  BY <1>7, ZenonT(60) DEF collectionVars, CollectionRowsExact, Live, AdminsOf, Exists
<1> QED BY <1>1, <1>2, <1>3, <1>4, <1>5, <1>6, <1>7, Steps, Zenon

\* The counters give the number of existing collections, within the limit; AdminAmount
\* counts the admins; owners are accounts; and no right outlives its collection.
THEOREM RowsCorrect == CollectionSpec => []CollectionRowsExact
<1>1. CollectionInit => CollectionRowsExact
  <2> SUFFICES ASSUME CollectionInit PROVE CollectionRowsExact
    BY Zenon
  <2>1. Live = {} /\ \A c \in CollectionIds : AdminsOf(c) = {} /\ AdminAmount[c] = 0
    BY Zenon DEF CollectionInit, Live, AdminsOf, Exists
  <2> QED BY <2>1, FS_EmptySet, CollectionAssumption DEF CollectionRowsExact, CollectionInit
<1>2. WellFormed /\ CollectionRowsExact /\ [CollectionNext]_collectionVars
        => WellFormed' /\ CollectionRowsExact'
  BY WellFormedNext, ExactNext, Zenon
<1> QED BY <1>1, <1>2, WellFormedInit, PTL DEF CollectionSpec

-----------------------------------------------------------------------------
(* What a step may do to a row that stays, or appears.                     *)

\* A row that is there after a step is the old one, the old one with one field changed,
\* or the one of a creation.
LEMMA RowSteps ==
  ASSUME WellFormed, [CollectionNext]_collectionVars, NEW c \in CollectionIds,
         CollectionById'[c] # NoCollection
  PROVE  \/ Exists(c) /\ CollectionById'[c] = CollectionById[c]
         \/ Exists(c) /\ RowChange(CollectionById[c], CollectionById'[c])
         \/ /\ ~Exists(c)
            /\ \E sponsor \in Users \cup {NobodySponsors} :
                 CollectionById'[c].sponsorship = Invitation(sponsor)
<1>1. ASSUME CollectionById'[c] = CollectionById[c]
      PROVE  Exists(c) /\ CollectionById'[c] = CollectionById[c]
  BY <1>1, Zenon DEF Exists
<1>2. ASSUME NEW u \in Users, NEW mode \in Modes, NEW input \in CreateInputs,
             NEW admins \in SUBSET Managed, CreateCollection(u, mode, input, admins),
             CollectionById'[c] # CollectionById[c]
      PROVE  /\ ~Exists(c)
             /\ \E sponsor \in Users \cup {NobodySponsors} :
                  CollectionById'[c].sponsorship = Invitation(sponsor)
  <2>1. ~Exists(c)
        /\ CollectionById'[c] = Row(AsSub[u], mode, Invitation(input.pending_sponsor), input.limits,
                                    input.permissions)
    BY <1>2, CreatedEffect, ZenonT(60)
  <2>2. CollectionById'[c].sponsorship = Invitation(input.pending_sponsor)
    <3>1. Row(AsSub[u], mode, Invitation(input.pending_sponsor), input.limits,
              input.permissions).sponsorship = Invitation(input.pending_sponsor)
      BY Zenon DEF Row
    <3> QED BY <2>1, <3>1, Zenon
  <2>3. input.pending_sponsor \in Users \cup {NobodySponsors}
    BY InputsAssumption, Zenon
  <2> QED BY <2>1, <2>2, <2>3, Zenon
<1>3. ASSUME NEW d \in CollectionIds, NEW r, SavedRow(d, r), CollectionById'[c] # CollectionById[c]
      PROVE  Exists(c) /\ RowChange(CollectionById[c], CollectionById'[c])
  BY <1>3, SavedEffect, Zenon
<1>4. ASSUME NEW u \in Users, NEW d \in CollectionIds, CommonDestroy(u, d)
      PROVE  CollectionById'[c] = CollectionById[c]
  <2>1. ~Exists(d)' /\ \A e \in CollectionIds \ {d} : CollectionById'[e] = CollectionById[e]
    BY <1>4, DestroyedEffect, Zenon
  <2> QED BY <2>1, Zenon DEF Exists
<1>5. ASSUME NEW u \in Users, NEW d \in CollectionIds, NEW user \in Managed,
             \/ \E allowed \in BOOLEAN : ToggleAllowlist(u, d, user, allowed)
             \/ AddCollectionAdmin(u, d, user)
             \/ RemoveCollectionAdmin(u, d, user)
      PROVE  CollectionById'[c] = CollectionById[c]
  BY <1>5, Zenon DEF ToggleAllowlist, AddCollectionAdmin, RemoveCollectionAdmin
<1>6. CASE UNCHANGED collectionVars
  BY <1>1, <1>6, Zenon DEF collectionVars
<1>7. CASE CollectionNext
  BY <1>1, <1>2, <1>3, <1>4, <1>5, <1>7, Steps, Zenon
<1> QED BY <1>6, <1>7, Zenon

\* What clamp_limits gives up cannot be taken back by any step.
THEOREM LimitsOnlyFall == CollectionSpec => LimitsRatchet
<1> DEFINE Ratchet(old, new) ==
             /\ Merge(DefaultLimits, new).token_limit <= Merge(DefaultLimits, old).token_limit
             /\ Merge(DefaultLimits, new).owner_can_destroy => Merge(DefaultLimits, old).owner_can_destroy
             /\ "owner_can_transfer" \in DOMAIN old /\ ~old["owner_can_transfer"]
                  => "owner_can_transfer" \in DOMAIN new /\ ~new["owner_can_transfer"]
           Falls == \A c \in CollectionIds :
             Exists(c) /\ CollectionById'[c] # NoCollection =>
               Ratchet(CollectionById[c].limits, CollectionById'[c].limits)
<1>1. ASSUME NEW l, HasLimitTypes(l) PROVE Ratchet(l, l)
  <2>1. Merge(DefaultLimits, l)["token_limit"] \in Nat
    BY <1>1, CollectionAssumption, Zenon DEF Merge, DefaultLimits, HasLimitTypes
  <2> QED BY <2>1
<1>2. ASSUME WellFormed, [CollectionNext]_collectionVars, NEW c \in CollectionIds,
             Exists(c), CollectionById'[c] # NoCollection
      PROVE  Ratchet(CollectionById[c].limits, CollectionById'[c].limits)
  <2>1. RowTyped(CollectionById[c])
    BY <1>2, Zenon DEF WellFormed
  <2>2. CASE CollectionById'[c].limits = CollectionById[c].limits
    <3> HIDE DEF Ratchet
    <3> QED BY <1>1, <2>1, <2>2, Zenon DEF RowTyped
  <2>3. CASE \E x : /\ HasLimitTypes(x) /\ ClampLimits(CollectionById[c].limits, x)
                    /\ CollectionById'[c].limits = Merge(CollectionById[c].limits, x)
    <3>1. PICK x : /\ HasLimitTypes(x) /\ ClampLimits(CollectionById[c].limits, x)
                   /\ CollectionById'[c].limits = Merge(CollectionById[c].limits, x)
      BY <2>3, Zenon
    <3>2. PICK old : old = CollectionById[c].limits
      BY Zenon
    <3>3. Ratchet(old, Merge(old, x))
      BY <2>1, <3>1, <3>2, ClampRatchet, Zenon DEF RowTyped
    <3> HIDE DEF Ratchet
    <3> QED BY <3>1, <3>2, <3>3, Zenon
  <2>4. CASE RowChange(CollectionById[c], CollectionById'[c])
    <3> HIDE DEF Ratchet
    <3>1. \/ CollectionById'[c].limits = CollectionById[c].limits
          \/ \E x : /\ HasLimitTypes(x) /\ ClampLimits(CollectionById[c].limits, x)
                    /\ CollectionById'[c].limits = Merge(CollectionById[c].limits, x)
      BY <2>4, ChangedFields, ZenonT(60)
    <3> QED BY <2>2, <2>3, <3>1, Zenon
  <2> QED BY <1>2, <2>2, <2>4, RowSteps, Zenon
<1>3. WellFormed /\ [CollectionNext]_collectionVars => [Falls]_collectionVars
  <2> HIDE DEF Ratchet
  <2> QED BY <1>2, Zenon
<1> QED BY <1>3, WellFormedInit, WellFormedNext, PTL DEF CollectionSpec, LimitsRatchet

\* A sponsorship becomes confirmed only from an invitation of that account, or for the
\* account of app-promotion.
THEOREM SponsorsAgree == CollectionSpec => SponsorAgreed
<1> DEFINE Agreed == \A c \in CollectionIds, a \in Accounts :
             /\ CollectionById'[c] # NoCollection /\ CollectionById'[c].sponsorship = Confirmed(a)
             /\ ~(Exists(c) /\ CollectionById[c].sponsorship = Confirmed(a))
             => \/ Exists(c) /\ CollectionById[c].sponsorship = Unconfirmed(a)
                \/ a = PromotionAccount
<1>0. \A a : Confirmed(a) # Disabled /\ \A b : Confirmed(a) # Unconfirmed(b)
  BY Zenon DEF Confirmed, Disabled, Unconfirmed
<1>1. ASSUME WellFormed, [CollectionNext]_collectionVars, NEW c \in CollectionIds, NEW a \in Accounts,
             CollectionById'[c] # NoCollection, CollectionById'[c].sponsorship = Confirmed(a),
             ~(Exists(c) /\ CollectionById[c].sponsorship = Confirmed(a)),
             a # PromotionAccount
      PROVE  Exists(c) /\ CollectionById[c].sponsorship = Unconfirmed(a)
  <2>1. CASE \E sponsor \in Users \cup {NobodySponsors} :
               CollectionById'[c].sponsorship = Invitation(sponsor)
    BY <1>0, <1>1, <2>1, Zenon DEF Invitation
  <2>2. CASE Exists(c) /\ RowChange(CollectionById[c], CollectionById'[c])
    <3>1. SponsorChange(CollectionById[c].sponsorship, Confirmed(a))
      BY <1>1, <2>2, ChangedFields, Zenon
    <3>2. CollectionById[c].sponsorship.account = a
      <4>1. \A b : Confirmed(a) = Confirmed(b) => a = b
        BY Zenon DEF Confirmed
      <4> QED BY <1>0, <1>1, <3>1, <4>1, Zenon DEF SponsorChange
    <3>3. a # NobodySponsors
      BY InputsAssumption, UsersAssumption, Zenon DEF Accounts
    <3>4. IsSponsorship(CollectionById[c].sponsorship)
      BY <1>1, <2>2, Zenon DEF WellFormed, RowTyped
    <3>5. Disabled.account = NobodySponsors
          /\ \A b : Unconfirmed(b).account = b /\ Confirmed(b).account = b
      BY Zenon DEF Disabled, Unconfirmed, Confirmed
    <3> QED BY <1>1, <2>2, <3>2, <3>3, <3>4, <3>5, Zenon DEF IsSponsorship
  <2> QED BY <1>1, <2>1, <2>2, RowSteps, Zenon
<1>2. WellFormed /\ [CollectionNext]_collectionVars => [Agreed]_collectionVars
  BY <1>1, Zenon
<1> QED BY <1>2, WellFormedInit, WellFormedNext, PTL DEF CollectionSpec, SponsorAgreed
=============================================================================
