------------------------------ MODULE Funding ------------------------------
(***************************************************************************)
(* How the test tools hand out money from a donor: createAccounts and      *)
(* createCrowd of test-utils/index.ts (class ArrangeGroup), and the set-up *)
(* before all tests, test-utils/globalSetup.ts.  Each reads the donor's    *)
(* nonce once and numbers a burst of transfers itself; they differ in what *)
(* they await, what they check afterwards and when they try again.  An     *)
(* account needs one unit of money.                                        *)
(***************************************************************************)
EXTENDS Client

CONSTANTS
  Requested,     \* accounts to create, or test files to fund
  RefreshAt,     \* the 500 of createCrowd
  BatchSize,     \* batchSize of fundFilenames
  MaxTries       \* maxBlocksChecked, the 5 retries of createCrowd, maxAttemps

MaxAccounts == Requested * MaxTries
Accounts == 1..MaxAccounts
Files == 1..Requested

VARIABLES
  accounts,   \* the accounts of this attempt, in order
  made,       \* accounts generated so far
  crowd,      \* the accounts that will be returned
  wanted,     \* accountsToCreate
  from,       \* b, where the batch of fundFilenames began
  granted,    \* batchBalanceGrantedCounter and balanceGrantedCounter
  nonce,      \* nonce, as fundFilenames read it
  tries

fundingVars == <<accounts, made, crowd, wanted, from, granted, nonce, tries>>

-----------------------------------------------------------------------------
(* The runtime: balances of the generated accounts and of the donor.       *)

TransferCall(a) == [kind |-> "transfer", to |-> a]
OtherCall(name) == [kind |-> name]

MoneyDispatch(what, s) ==
  CASE what.kind = "mint" -> [ok |-> TRUE, state |-> [s EXCEPT !.donor = MaxAccounts]]
    [] what.kind = "transfer" /\ s.donor > 0 ->
         [ok |-> TRUE, state |-> [s EXCEPT !.donor = @ - 1, !.balance[what.to] = @ + 1]]
    [] what.kind = "transfer" /\ s.donor = 0 -> [ok |-> FALSE, state |-> s]
    [] OTHER -> [ok |-> TRUE, state |-> s]

Balance(a) == Tip.state.balance[a]

FundingInit ==
  /\ accounts = <<>> /\ made = 0 /\ crowd = {} /\ wanted = Requested
  /\ from = 1 /\ granted = [batch |-> 0, all |-> 0] /\ nonce = 0 /\ tries = 1

NoChain == UNCHANGED <<best, pool, reorgs, losses>>

\* A burst of transfers to new accounts, numbered from the nonce that is read now.
Burst(n) ==
  LET new == [i \in 1..n |-> made + i] IN
  /\ accounts' = accounts \o new
  /\ made' = made + n
  /\ Start([i \in 1..n |-> Signed(TransferCall(new[i]), Tip.nonce + i - 1)])
  /\ NoChain

-----------------------------------------------------------------------------
(* createAccounts                                                          *)

GenerateAccounts ==
  /\ step = "generate"
  /\ Burst(Requested)
  /\ step' = "all"
  /\ UNCHANGED <<crowd, wanted, turn, from, granted, nonce, tries>>

\* Promise.all(transactions).catch: goes on at the first rejection.
PromiseAll ==
  /\ step = "all"
  /\ \/ \A c \in asked : calls[c].phase = "success"
     \/ \E c \in asked : calls[c].phase \in {"failed", "lost", "refused"}
  /\ step' = "check"
  /\ UNCHANGED <<asked, turn, fundingVars, nodeVars>>

\* checkBalances, one query at a time, up to the first account that lacks its money.
CheckBalance ==
  /\ step = "check"
  /\ LET right == Balance(accounts[turn]) = 1 IN
       /\ step' = CASE ~right -> "block"
                    [] right /\ turn < Len(accounts) -> "check"
                    [] OTHER -> "done"
       /\ turn' = IF right THEN turn + 1 ELSE 1
       /\ crowd' = IF right /\ turn = Len(accounts) THEN {accounts[i] : i \in DOMAIN accounts} ELSE crowd
  /\ UNCHANGED <<asked, accounts, made, wanted, from, granted, nonce, tries, nodeVars>>

\* wait.newBlocks(1), after which the balances are checked again.
HearBlock ==
  /\ step = "block"
  /\ PlainBlock \/ \E c \in pool : Include(c)
  /\ step' = IF tries < MaxTries THEN "check" ELSE "failed"
  /\ tries' = tries + 1
  /\ UNCHANGED <<asked, accounts, made, crowd, wanted, turn, from, granted, nonce>>

\* waitWithTimeout: no block comes in time, which is an error of createAccounts.
WaitTimesOut ==
  /\ step = "block"
  /\ step' = "failed"
  /\ UNCHANGED <<asked, turn, fundingVars, nodeVars>>

-----------------------------------------------------------------------------
(* createCrowd                                                             *)

\* The loop signs up to the refresh; after it, the rest.
CrowdBurst ==
  IF accounts = <<>> /\ wanted > RefreshAt THEN RefreshAt ELSE wanted - Len(accounts)

GenerateCrowd ==
  /\ step = "crowd"
  /\ Burst(CrowdBurst)
  /\ step' = "settle"
  /\ UNCHANGED <<crowd, wanted, turn, from, granted, nonce, tries>>

CrowdSettled ==
  /\ step = "settle"
  /\ AllSettled
  /\ step' = IF Len(accounts) < wanted THEN "crowd" ELSE "count"
  /\ UNCHANGED <<asked, turn, fundingVars, nodeVars>>

FulfilledIfSettled(a) == \E c \in DOMAIN calls : calls[c].what = TransferCall(a)
Fulfilled(a) == Balance(a) = 1

\* One query per account; at the end of an attempt the missing accounts are made anew.
CountFulfilled ==
  /\ step = "count"
  /\ LET found == IF Fulfilled(accounts[turn]) THEN crowd \cup {accounts[turn]} ELSE crowd
         missing == Requested - Cardinality(found)
     IN
     /\ crowd' = found
     /\ IF turn < Len(accounts)
        THEN turn' = turn + 1 /\ UNCHANGED <<step, accounts, wanted, tries>>
        ELSE /\ turn' = 1 /\ accounts' = <<>> /\ wanted' = missing /\ tries' = tries + 1
             /\ step' = CASE missing = 0 -> "done"
                          [] missing # 0 /\ tries < MaxTries -> "crowd"
                          [] OTHER -> "failed"
  /\ UNCHANGED <<asked, made, from, granted, nonce, nodeVars>>

-----------------------------------------------------------------------------
(* globalSetup: mintTokens, fundFilenames, setupAppPromotion, up to        *)
(* maxAttemps times.  The calls of setupAppPromotion, awaited one after    *)
(* the other, are one call here; one of them is a bare signTransaction,    *)
(* which throws when the call is lost.                                     *)

\* executeExtrinsic without a nonce, awaited.
Execute(at, name, next) ==
  /\ step = at
  /\ Start(<<Signed(OtherCall(name), 0)>>)
  /\ step' = next
  /\ NoChain
  /\ UNCHANGED <<turn, fundingVars>>

MintTokens == Execute("mint", "mint", "minting")
SetupAppPromotion == Execute("promote", "promote", "promoting")

\* catch: try everything again, or give up.
Attempt(ok, next) ==
  /\ step' = CASE ok -> next [] ~ok /\ tries < MaxTries -> "mint" [] OTHER -> "failed"
  /\ tries' = IF ok THEN tries ELSE tries + 1

Executed(at, next, ok) ==
  /\ step = at
  /\ AllSettled
  /\ Attempt(ok, next)
  /\ UNCHANGED <<asked, accounts, made, crowd, wanted, turn, from, granted, nonce, nodeVars>>

ReadDonorNonce ==
  /\ step = "nonce"
  /\ step' = "files"
  /\ nonce' = Tip.nonce
  /\ turn' = 1 /\ from' = 1 /\ granted' = [batch |-> 0, all |-> 0] /\ asked' = {}
  /\ UNCHANGED <<accounts, made, crowd, wanted, tries, nodeVars>>

\* The inner loop: query the next file's account and, if it lacks money, start a
\* transfer with the next number.
FundFile ==
  /\ step = "files"
  /\ granted.batch < BatchSize /\ turn <= Requested
  /\ turn' = turn + 1
  /\ IF Balance(turn) < 1
     THEN /\ calls' = Append(calls, Signed(TransferCall(turn), nonce + granted.all))
          /\ asked' = asked \cup {Len(calls) + 1}
          /\ granted' = [batch |-> granted.batch + 1, all |-> granted.all + 1]
     ELSE UNCHANGED <<calls, asked, granted>>
  /\ NoChain
  /\ UNCHANGED <<step, accounts, made, crowd, wanted, from, nonce, tries>>

\* Promise.all(tx) and the next batch, which starts BatchSize after this one did.
BatchSettled ==
  /\ step = "files"
  /\ granted.batch = BatchSize \/ turn > Requested
  /\ AllSettled
  /\ Attempt(\A c \in asked : Returns(c), IF from + BatchSize <= Requested THEN "files" ELSE "promote")
  /\ turn' = from + BatchSize /\ from' = from + BatchSize
  /\ granted' = [granted EXCEPT !.batch = 0] /\ asked' = {}
  /\ UNCHANGED <<accounts, made, crowd, wanted, nonce, nodeVars>>

AccountsStep == GenerateAccounts \/ PromiseAll \/ CheckBalance
CrowdStep == GenerateCrowd \/ CrowdSettled \/ CountFulfilled
SetupStep ==
  \/ MintTokens \/ Executed("minting", "nonce", \A c \in asked : Returns(c))
  \/ ReadDonorNonce \/ FundFile \/ BatchSettled
  \/ SetupAppPromotion
  \/ Executed("promoting", "done", \A c \in asked : Returns(c))
  \/ Executed("promoting", "done", \A c \in asked : calls[c].phase = "success")

FundingStep == AccountsStep \/ CrowdStep \/ SetupStep
=============================================================================
