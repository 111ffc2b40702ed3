---------------------------- MODULE UnstakeQueue ----------------------------
(***************************************************************************)
(* What pallets/app-promotion promises about its queue of pending unstakes *)
(* to those who only see the queue's keys: an unstake appears              *)
(* PendingInterval blocks ahead, it leaves in its own block unless the     *)
(* chain is under maintenance, and past blocks leave only through          *)
(* resolve_skipped_blocks.  Accounts and amounts are not visible here.     *)
(* AppPromotion implements this module; the scripts rely on it.            *)
(***************************************************************************)
EXTENDS Integers

CONSTANT PendingInterval

VARIABLE queue  \* the block number, the maintenance switch, the blocks that have unstakes

Queue(b, m, p) == [block |-> b, maintenance |-> m, pending |-> p]

\* The next block with its on_initialize.
Initialized(q) ==
  Queue(q.block + 1, q.maintenance,
        IF q.maintenance THEN q.pending ELSE q.pending \ {q.block + 1})

Unstaked(q) == Queue(q.block, q.maintenance, q.pending \cup {q.block + PendingInterval})

MayResolve(q, blocks) == \A b \in blocks : b < q.block
Resolved(q, blocks) == Queue(q.block, q.maintenance, q.pending \ blocks)

Init == queue = Queue(0, FALSE, {})

Unstake == ~queue.maintenance /\ queue' = Unstaked(queue)

Resolve ==
  \E blocks \in SUBSET queue.pending :
    ~queue.maintenance /\ MayResolve(queue, blocks) /\ queue' = Resolved(queue, blocks)

Switch == \E on \in BOOLEAN : queue' = Queue(queue.block, on, queue.pending)

Next == queue' = Initialized(queue) \/ Unstake \/ Resolve \/ Switch

Spec == Init /\ [][Next]_queue
=============================================================================
