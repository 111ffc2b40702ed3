------------------------------ MODULE Scripts ------------------------------
(***************************************************************************)
(* The programs that run against a node through the client library: one    *)
(* job of Repair or Funding over one node, with a runtime that holds the   *)
(* queue of app-promotion and the balances the jobs touch.                 *)
(***************************************************************************)
EXTENDS Repair, Funding

CONSTANTS
  Now,        \* the block at which the repair starts
  Donations   \* what the donor may own at the start

VARIABLE job

scriptVars == <<nodeVars, step, asked, turn, repairVars, fundingVars, job>>

RuntimeInitialize(s) == [s EXCEPT !.queue = QueueInitialize(@)]
RuntimeOthers(s) == QueueOthers(s)

\* CheckMaintenance: the calls of app-promotion are invalid under maintenance.
RuntimeAdmits(what, s) == what.kind = "resolve" => ~s.queue.maintenance
RuntimeDispatch(what, s) ==
  IF what.kind = "resolve" THEN QueueDispatch(what, s) ELSE MoneyDispatch(what, s)

\* Where each job starts; the money jobs meet a queue that has nothing to do.
Start0 == [repair |-> "start", accounts |-> "generate", crowd |-> "crowd", setup |-> "mint"]
Runtimes(j) ==
  IF j = "repair"
  THEN [queue : QueueStates(Now), switches : {0}, balance : {[a \in Accounts |-> 0]}, donor : {0}]
  ELSE [queue : {[block |-> Horizon, maintenance |-> FALSE, pending |-> {}]}, switches : {MaxSwitches},
        balance : {[a \in Accounts |-> 0]}, donor : Donations]

ScriptsInit ==
  /\ job \in DOMAIN Start0
  /\ \E s \in Runtimes(job) : ClientInit(s)
  /\ step = Start0[job] /\ asked = {} /\ turn = 1
  /\ RepairInit /\ FundingInit

Script ==
  \/ job = "repair" /\ RepairStep /\ UNCHANGED <<fundingVars, job>>
  \/ job # "repair" /\ FundingStep /\ UNCHANGED <<repairVars, job>>

Node == NodeNext /\ UNCHANGED <<step, asked, turn, repairVars, fundingVars, job>>

Heard == HearBlock /\ UNCHANGED <<repairVars, job>>
TimedOut == WaitTimesOut /\ UNCHANGED <<repairVars, job>>

ScriptsNext == Script \/ Node \/ Heard \/ TimedOut

\* The node includes what stays includable, however often forks and other blocks come
\* first, and finalizes; a subscriber hears some later block; the client and the
\* program take every step they can.
Fairness ==
  /\ WF_scriptVars(Script) /\ SF_scriptVars(Heard)
  /\ WF_scriptVars(Node /\ Finalize)
  /\ WF_scriptVars(Node /\ \E c \in DOMAIN calls : SignTransaction(c))
  /\ WF_scriptVars(Node /\ \E c \in DOMAIN calls : Discard(c))
  /\ SF_scriptVars(Node /\ \E c \in DOMAIN calls : Include(c))

ScriptsSpec == ScriptsInit /\ [][ScriptsNext]_scriptVars /\ Fairness

-----------------------------------------------------------------------------
(* Properties.                                                             *)

\* The accounts that a money job answers for when it ends well.
Promised == IF job = "setup" THEN Files ELSE crowd

\* createAccounts, createCrowd and globalSetup end well only with as many accounts as
\* were asked for, each funded in the finalized chain; transactions of which the
\* node loses track are the exception.
FundsArrive ==
  job # "repair" /\ step = "done" =>
    /\ Cardinality(Promised) = Requested
    /\ losses = 0 => \A a \in Promised : Final.state.balance[a] > 0

\* Every job comes to an end: no await of a call, a batch or a block lasts forever,
\* although calls race for nonces, leave gaps behind them and are evicted.
ScriptsEnd == <>[](step \in {"done", "failed"})
=============================================================================
