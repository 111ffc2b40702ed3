------------------------------- MODULE Repair -------------------------------
(***************************************************************************)
(* scripts/correctStateAfterMaintenance.ts: after a maintenance period the *)
(* script lists the blocks whose unstakes were skipped, asks for them to   *)
(* be resolved in chunks, all chunks at once and from one signer, and then *)
(* looks which blocks are still there.  An operator runs it again when it  *)
(* reports blocks that remain.  It meets the pallet as UnstakeQueue        *)
(* describes it.                                                           *)
(***************************************************************************)
EXTENDS Client, SequencesExt

CONSTANTS
  PendingInterval,
  ChunkSize,       \* the 10 of chunk(filteredBlocks, 10)
  Horizon,         \* bound: the block number stops here
  MaxSwitches,     \* bound: times maintenance is switched
  MaxRuns          \* bound: runs of the script

VARIABLES
  keys,       \* pendingBlocks, the keys of pendingUnstake
  blocks,     \* filteredBlocks, as a sequence
  failedBlocks,
  runs

repairVars == <<keys, blocks, failedBlocks, runs>>

Q == INSTANCE UnstakeQueue WITH queue <- Tip.state.queue

-----------------------------------------------------------------------------
(* The runtime: the queue of app-promotion and the maintenance switch.     *)

\* The block number stops at Horizon; blocks from there on have no unstakes.
QueueInitialize(q) == IF q.block = Horizon THEN q ELSE Q!Initialized(q)

\* Users unstake, root switches maintenance.
QueueOthers(s) ==
  {s}
  \cup (IF ~s.queue.maintenance /\ s.queue.block + PendingInterval < Horizon
        THEN {[s EXCEPT !.queue = Q!Unstaked(s.queue)]} ELSE {})
  \cup (IF s.switches < MaxSwitches
        THEN {[s EXCEPT !.queue.maintenance = ~@, !.switches = @ + 1]} ELSE {})

ResolveCall(bs) == [kind |-> "resolve", blocks |-> bs]

QueueDispatch(what, s) ==
  IF Q!MayResolve(s.queue, what.blocks)
  THEN [ok |-> TRUE, state |-> [s EXCEPT !.queue = Q!Resolved(s.queue, what.blocks)]]
  ELSE [ok |-> FALSE, state |-> s]

\* Skipped blocks behind us, ordinary ones ahead.
QueueStates(now) ==
  [block : {now}, maintenance : BOOLEAN,
   pending : SUBSET ((1..now) \cup {b \in now + 1..now + PendingInterval : b < Horizon})]

-----------------------------------------------------------------------------
RepairInit ==
  /\ keys = {} /\ blocks = <<>> /\ failedBlocks = {} /\ runs = 1

CheckMaintenance ==
  /\ step = "start"
  /\ step' = IF Tip.state.queue.maintenance THEN "failed" ELSE "list"
  /\ UNCHANGED <<asked, turn, repairVars, nodeVars>>

ListPending ==
  /\ step = "list"
  /\ step' = "number"
  /\ keys' = Tip.state.queue.pending
  /\ UNCHANGED <<asked, blocks, turn, failedBlocks, runs, nodeVars>>

ChunksFull(s) ==
  [i \in 1..(Len(s) \div ChunkSize) |->
     {s[j] : j \in {k \in DOMAIN s : (k - 1) \div ChunkSize = i - 1}}]
\* ceil(length / size) chunks, the last one possibly short
Chunks(s) ==
  [i \in 1..((Len(s) + ChunkSize - 1) \div ChunkSize) |->
     {s[j] : j \in {k \in DOMAIN s : (k - 1) \div ChunkSize = i - 1}}]

\* system.number, the filter, and one signTransaction per chunk, all at once.
FilterAndSign ==
  /\ step = "number"
  /\ LET filtered == SetToSeq({b \in keys : Tip.state.queue.block > b})
         chunks == Chunks(filtered)
     IN
     /\ blocks' = filtered
     /\ Start([i \in DOMAIN chunks |-> Signed(ResolveCall(chunks[i]), 0)])
     /\ step' = IF filtered = <<>> THEN "done" ELSE "wait"
  /\ UNCHANGED <<keys, turn, failedBlocks, runs, best, pool, reorgs, losses>>

ChunksSettled ==
  /\ step = "wait"
  /\ AllSettled
  /\ step' = "verify"
  /\ UNCHANGED <<asked, turn, repairVars, nodeVars>>

VerifyLast ==
  /\ step = "verify"
  /\ LET failed == {blocks[turn]} \cap Tip.state.queue.pending IN
       /\ failedBlocks' = failed
       /\ step' = CASE turn < Len(blocks) -> "verify"
                    [] turn = Len(blocks) /\ failed = {} -> "done"
                    [] OTHER -> "failed"
  /\ turn' = turn + 1
  /\ UNCHANGED <<asked, keys, blocks, runs, nodeVars>>

\* One turn of the loop over filteredBlocks, with its own query of the chain; the
\* last turn reports.
Verify ==
  /\ step = "verify"
  /\ LET failed == failedBlocks \cup ({blocks[turn]} \cap Tip.state.queue.pending) IN
       /\ failedBlocks' = failed
       /\ step' = CASE turn < Len(blocks) -> "verify"
                    [] turn = Len(blocks) /\ failed = {} -> "done"
                    [] OTHER -> "failed"
  /\ turn' = turn + 1
  /\ UNCHANGED <<asked, keys, blocks, runs, nodeVars>>

\* The operator starts the script again after a failure.
RunAgain ==
  /\ step = "failed" /\ runs < MaxRuns
  /\ step' = "start" /\ runs' = runs + 1
  /\ keys' = {} /\ blocks' = <<>> /\ turn' = 1 /\ failedBlocks' = {} /\ asked' = {}
  /\ UNCHANGED nodeVars

RepairStep ==
  CheckMaintenance \/ ListPending \/ FilterAndSign \/ ChunksSettled \/ Verify \/ RunAgain

-----------------------------------------------------------------------------
(* Properties.                                                             *)

\* When the script prints "Done", every block it listed has left the queue of the
\* finalized chain, although it only looked at the best chain, block by block and
\* between forks; transactions of which the node loses track are the exception.
RepairHonest ==
  step = "done" /\ losses = 0 =>
    ToSet(blocks) \cap Final.state.queue.pending = {}

\* The chunks compete for one nonce and all but one may be lost, but a run without
\* forks, losses and maintenance resolves at least one block: running the
\* script again comes to an end.
RunMakesProgress ==
  step = "failed" /\ blocks # <<>> /\ reorgs = 0 /\ losses = 0 /\ Tip.state.switches = 0 =>
    ToSet(blocks) \ failedBlocks # {}
=============================================================================
