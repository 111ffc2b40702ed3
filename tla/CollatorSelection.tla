------------------------- MODULE CollatorSelection -------------------------
(***************************************************************************)
(* pallets/collator-selection: governance appoints invulnerable collators, *)
(* accounts bond money for a license and onboard as candidates, and at     *)
(* every session change the candidates that did not author a block lately  *)
(* lose their place and their bond.  pallet-session (external) makes the   *)
(* set returned by new_session active one session later.  Calls are rolled *)
(* back when they fail; note_author and new_session are hooks and part of  *)
(* NewBlock.                                                               *)
(*                                                                         *)
(* Block numbers are kept relative to the current block, so that time is   *)
(* unbounded: sinceAuthored[a] is now - LastAuthoredBlock[a], cut off at   *)
(* the kick threshold, the only value it is compared with.                 *)
(***************************************************************************)
EXTENDS Integers, FiniteSets, Sums

CONSTANTS
  AccountIds,
  Registered,        \* accounts with session keys
  GenesisInvulnerables,
  MaxCollators,
  DesiredCollators,
  KickThreshold,     \* in blocks
  SessionPeriod,     \* in blocks
  SlashNum, SlashDen,\* SlashRatio, a Perbill
  Bonds,             \* values that the configuration gives LicenseBond
  InitialBond,
  InitialFree,       \* free balance of an account above the existential deposit
  InitialPot,        \* balance of the pot above the existential deposit
  NoLicense, NoBlock \* no entry in LicenseDepositOf, in LastAuthoredBlock

ASSUME AccountsAssumption ==
  /\ IsFiniteSet(AccountIds) /\ Registered \subseteq AccountIds
  /\ GenesisInvulnerables \subseteq AccountIds /\ GenesisInvulnerables # {}

ASSUME ParamAssumption ==
  /\ MaxCollators \in Nat /\ DesiredCollators \in Nat
  /\ Cardinality(GenesisInvulnerables) <= MaxCollators
  /\ KickThreshold \in Nat \ {0} /\ SessionPeriod \in Nat \ {0}
  /\ SlashDen \in Nat \ {0} /\ SlashNum \in 0..SlashDen
  /\ Bonds \subseteq Nat /\ InitialBond \in Nat
  /\ InitialFree \in Nat /\ InitialPot \in Nat
  /\ NoLicense \notin Nat /\ NoBlock \notin Int

VARIABLES
  Invulnerables, Candidates,
  LicenseDepositOf,
  sinceAuthored,
  licenseBond,       \* CollatorSelectionLicenseBondOverride
  free, held,        \* Currency: free balance, balance held for HoldReason::LicenseBond
  pot, toTreasury,
  phase,             \* block number modulo SessionPeriod
  queued, active,    \* pallet-session: collators of the next and of this session
  hadTurn            \* history: was a collator since it last onboarded

balances == <<free, held, pot, toTreasury>>
session == <<phase, queued, active>>
collatorVars == <<Invulnerables, Candidates, LicenseDepositOf, sinceAuthored, licenseBond,
                  free, held, pot, toTreasury, phase, queued, active, hadTurn>>

CollatorInit ==
  /\ Invulnerables = GenesisInvulnerables /\ Candidates = {}
  /\ LicenseDepositOf = [a \in AccountIds |-> NoLicense]
  /\ sinceAuthored = [a \in AccountIds |-> NoBlock]
  /\ licenseBond = InitialBond
  /\ free = [a \in AccountIds |-> InitialFree] /\ held = [a \in AccountIds |-> 0]
  /\ pot = InitialPot /\ toTreasury = 0
  /\ phase = 0
  /\ queued = GenesisInvulnerables /\ active = GenesisInvulnerables
  /\ hadTurn = [a \in AccountIds |-> FALSE]

-----------------------------------------------------------------------------
(* Invulnerables.                                                          *)

TryRemoveCandidate(a) ==
  /\ Candidates' = Candidates \ {a}
  /\ sinceAuthored' = [sinceAuthored EXCEPT ![a] = IF a \in Candidates THEN NoBlock ELSE @]

AddInvulnerable(a) ==
  /\ a \in Registered \ Invulnerables
  /\ Cardinality(Invulnerables) < MaxCollators
  /\ Invulnerables' = Invulnerables \cup {a}
  /\ TryRemoveCandidate(a)
  /\ UNCHANGED <<LicenseDepositOf, licenseBond, balances, session, hadTurn>>

EvenTheLast == TRUE
NotTheLast == Cardinality(Invulnerables) > 1
RemoveInvulnerable(a) ==
  /\ a \in Invulnerables /\ NotTheLast
  /\ Invulnerables' = Invulnerables \ {a}
  /\ UNCHANGED <<Candidates, sinceAuthored, LicenseDepositOf, licenseBond, balances, session, hadTurn>>

-----------------------------------------------------------------------------
(* Licenses and candidates.                                                *)

SetLicenseBond(v) ==
  /\ licenseBond' = v
  /\ UNCHANGED <<Invulnerables, Candidates, LicenseDepositOf, sinceAuthored, balances, session, hadTurn>>

HasLicense(a) == LicenseDepositOf[a] # NoLicense
Deposit(a) == IF HasLicense(a) THEN LicenseDepositOf[a] ELSE 0

CanHold(a) == free[a] >= licenseBond

GetLicense(a) ==
  /\ ~HasLicense(a)
  /\ a \in Registered
  /\ CanHold(a)
  /\ free' = [free EXCEPT ![a] = @ - licenseBond]
  /\ held' = [held EXCEPT ![a] = @ + licenseBond]
  /\ LicenseDepositOf' = [LicenseDepositOf EXCEPT ![a] = licenseBond]
  /\ UNCHANGED <<Invulnerables, Candidates, sinceAuthored, licenseBond, pot, toTreasury, session, hadTurn>>

StartsNow == 0
FirstAuthored == 0 - KickThreshold
Onboard(a) ==
  /\ HasLicense(a)
  /\ Cardinality(Candidates) + Cardinality(Invulnerables) < DesiredCollators
  /\ a \notin Invulnerables
  /\ a \notin Candidates
  /\ Cardinality(Candidates) < MaxCollators
  /\ Candidates' = Candidates \cup {a}
  /\ sinceAuthored' = [sinceAuthored EXCEPT ![a] = FirstAuthored]
  /\ hadTurn' = [hadTurn EXCEPT ![a] = FALSE]
  /\ UNCHANGED <<Invulnerables, LicenseDepositOf, licenseBond, balances, session>>

Offboard(a) ==
  /\ a \in Candidates
  /\ TryRemoveCandidate(a)
  /\ UNCHANGED <<Invulnerables, LicenseDepositOf, licenseBond, balances, session, hadTurn>>

Charged(a) == licenseBond
Released(a) == Deposit(a)

\* release_license by the holder, force_release_license by governance.
ReleaseLicense(a) ==
  /\ HasLicense(a)
  /\ TryRemoveCandidate(a)
  /\ LicenseDepositOf' = [LicenseDepositOf EXCEPT ![a] = NoLicense]
  /\ free' = [free EXCEPT ![a] = @ + Released(a)]
  /\ held' = [held EXCEPT ![a] = @ - Released(a)]
  /\ UNCHANGED <<Invulnerables, licenseBond, pot, toTreasury, session, hadTurn>>

-----------------------------------------------------------------------------
(* A block: its author is noted, then, on a session boundary, the stale    *)
(* candidates are kicked and the next set of collators is assembled.       *)

Reward == pot \div 2

OneBlockLater(n) == IF n = NoBlock \/ n = KickThreshold THEN n ELSE n + 1
NoteAuthor(author) ==
  [a \in AccountIds |-> IF a = author THEN 0 ELSE OneBlockLater(sinceAuthored[a])]

EndOfSession == (phase + 1) % SessionPeriod = 0
NeverStale(since) == {}
Stale(since) == {a \in Candidates : since[a] >= KickThreshold}

Slashed(a) == (2 * Deposit(a) * SlashNum + SlashDen - 1) \div (2 * SlashDen)
Remaining(a) == Deposit(a) - Slashed(a)

FormerToo(candidates) == queued \cup Invulnerables \cup candidates
AssembleCollators(candidates) == Invulnerables \cup candidates

NewBlock(author) ==
  LET since  == NoteAuthor(author)
      kicked == IF EndOfSession THEN Stale(since) ELSE {}
  IN
  /\ author \in active
  /\ Candidates' = Candidates \ kicked
  /\ sinceAuthored' = [a \in AccountIds |-> IF a \in kicked THEN NoBlock ELSE since[a]]
  /\ LicenseDepositOf' = [a \in AccountIds |-> IF a \in kicked THEN NoLicense ELSE LicenseDepositOf[a]]
  /\ free' = [a \in AccountIds |->
                free[a] + (IF a = author THEN Reward ELSE 0)
                        + (IF a \in kicked THEN Remaining(a) ELSE 0)]
  /\ held' = [a \in AccountIds |-> IF a \in kicked THEN held[a] - Deposit(a) ELSE held[a]]
  /\ pot' = pot - Reward
  /\ toTreasury' = toTreasury + Sum([a \in AccountIds |-> Slashed(a)], kicked)
  /\ phase' = (phase + 1) % SessionPeriod
  /\ active' = IF EndOfSession THEN queued ELSE active
  /\ queued' = IF EndOfSession THEN AssembleCollators(Candidates \ kicked) ELSE queued
  /\ hadTurn' = [a \in AccountIds |-> hadTurn[a] \/ a \in active]
  /\ UNCHANGED <<Invulnerables, licenseBond>>

SomeBlock == \E a \in AccountIds : NewBlock(a)

CollatorNext ==
  \/ \E a \in AccountIds : \/ AddInvulnerable(a) \/ RemoveInvulnerable(a)
                         \/ GetLicense(a) \/ Onboard(a) \/ Offboard(a) \/ ReleaseLicense(a)
  \/ \E v \in Bonds : SetLicenseBond(v)
  \/ SomeBlock

CollatorSpec == CollatorInit /\ [][CollatorNext]_collatorVars

\* The parachain keeps producing blocks; nobody has to make a call.
CollatorFairSpec == CollatorSpec /\ WF_collatorVars(SomeBlock)

-----------------------------------------------------------------------------
(* Properties.                                                             *)

\* What the pallet holds of an account is exactly the deposit recorded for its license,
\* whatever LicenseBond is by now, so that a release with Precision::Exact cannot
\* fail; and bonds, slashes and rewards neither mint nor burn money.
BondsBacked ==
  /\ \A a \in AccountIds : held[a] = Deposit(a)
  /\ Sum(free, AccountIds) + Sum(held, AccountIds) + pot + toTreasury
       = Cardinality(AccountIds) * InitialFree + InitialPot

\* There is always somebody to author a block, in this session and in the next, and
\* every candidate has a license to lose, is not also invulnerable (new_session would
\* return it twice) and has an entry in LastAuthoredBlock.
RosterSound ==
  /\ active # {} /\ queued # {}
  /\ \A a \in Candidates : HasLicense(a) /\ a \notin Invulnerables /\ sinceAuthored[a] # NoBlock

\* An account loses money only as a candidate that has been a collator since it
\* onboarded: the first entry in LastAuthoredBlock is set ahead "to handle session
\* delay", so that nobody is slashed for blocks it could not author.
SlashedAfterTurn ==
  [][\A a \in AccountIds :
       free'[a] + held'[a] < free[a] + held[a] => a \in Candidates /\ hadTurn'[a]]_collatorVars

\* A candidate that stops authoring blocks does not stay a candidate.
AbsentCandidateLeaves ==
  \A a \in AccountIds : []<>(a \notin Candidates) \/ []<>(sinceAuthored[a] = 0)

\* Whoever is neither invulnerable nor a candidate any more stops being a collator.
RemovedStopsCollating ==
  \A a \in AccountIds :
    <>[](a \notin Invulnerables \cup Candidates) => <>[](a \notin active)
=============================================================================
