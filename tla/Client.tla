------------------------------- MODULE Client -------------------------------
(***************************************************************************)
(* The transaction layer of the client library (playgrounds/unique.ts,     *)
(* class ChainHelperBase): signTransaction and executeExtrinsic, for one   *)
(* signer whose calls run concurrently, over a node with a pool, forks and *)
(* finality.  The node is external code: it is modelled from the statuses  *)
(* that getTransactionStatus tells apart.  Every call of the signer has    *)
(* its own index; what the calls do to the runtime is a parameter.         *)
(***************************************************************************)
EXTENDS Integers, Sequences, FiniteSets

CONSTANTS
  Initialize(_),     \* runtime state -> state after the next block's hooks
  Others(_),         \* runtime state -> states that other people's calls lead to
  Admits(_, _),      \* call, state: the call passes the transaction extensions
  Dispatch(_, _),    \* call, state: [ok, state] after the call
  FirstNonce,        \* nonce of the signer before its first call
  MaxUnfinalized,    \* bound: blocks that wait for finality
  MaxReorgs,         \* bound: retracted blocks
  MaxLosses          \* bound: evictions and finality timeouts

VARIABLES
  best,     \* the best chain from the last finalized block on
  pool,     \* calls that wait for inclusion
  calls,    \* the calls of the signer: what, nonce and how the promise stands
  reorgs, losses,
  step,     \* where the program that makes the calls is
  asked,    \* the calls whose promises it awaits
  turn      \* the turn of the loop it is in

nodeVars == <<best, pool, calls, reorgs, losses>>

Tip == best[Len(best)]
Final == best[1]
Settings == {"success", "failed", "lost", "refused"}

Genesis(state) == [call |-> 0, ok |-> TRUE, nonce |-> FirstNonce, applied |-> {}, state |-> state]

ClientInit(state) ==
  /\ best = <<Genesis(state)>>
  /\ pool = {} /\ calls = <<>> /\ reorgs = 0 /\ losses = 0

-----------------------------------------------------------------------------
(* The promise of signTransaction.  A call is "reading" while it awaits    *)
(* getNonce and "signed" until the node has its transaction.               *)

\* A status that arrives while the promise is open settles it; later ones find the
\* subscription closed.
Settle(cs, c, how) == IF cs[c].phase = "sent" THEN [cs EXCEPT ![c].phase = how] ELSE cs

OnInBlockEager(cs, c, ok) == Settle(cs, c, IF ok THEN "success" ELSE "failed")
\* InBlock: a failure rejects at once, a success keeps waiting for finality.
OnInBlock(cs, c, ok) == IF ok THEN cs ELSE Settle(cs, c, "failed")

\* Finalized: resolves a success.
OnFinalized(cs, done) ==
  [c \in DOMAIN cs |-> IF c \in done /\ cs[c].phase = "sent"
                       THEN [cs[c] EXCEPT !.phase = "success"] ELSE cs[c]]

OnLostIgnored(cs, c) == cs
\* Invalid, Usurped, Dropped and FinalityTimeout: a failure without a dispatch error.
OnLost(cs, c) == Settle(cs, c, "lost")

\* signTransaction with options: an absent nonce and the nonce 0 are both read from
\* the chain.
Signed(what, nonce) ==
  [what |-> what, nonce |-> nonce, phase |-> IF nonce = 0 THEN "reading" ELSE "signed"]

ReadNonce(c) ==
  /\ calls[c].phase = "reading"
  /\ calls' = [calls EXCEPT ![c].phase = "signed", ![c].nonce = Tip.nonce]
  /\ UNCHANGED <<best, pool, reorgs, losses>>

SameNonce(c) == {d \in pool : calls[d].nonce = calls[c].nonce}

\* signAndSend: a rejection by the node throws, so the promise is rejected with an
\* error that has no status.
SendRefused(c) ==
  /\ calls[c].phase = "signed"
  /\ \/ calls[c].nonce < Tip.nonce
     \/ ~Admits(calls[c].what, Tip.state)
     \/ SameNonce(c) # {}
  /\ calls' = [calls EXCEPT ![c].phase = "refused"]
  /\ UNCHANGED <<best, pool, reorgs, losses>>

\* Otherwise the transaction enters the pool, in place of one of lower priority with
\* the same nonce.  Priorities depend on weights and lengths, so either may win.
SendAccepted(c) ==
  /\ calls[c].phase = "signed"
  /\ calls[c].nonce >= Tip.nonce
  /\ Admits(calls[c].what, Tip.state)
  /\ pool' = (pool \ SameNonce(c)) \cup {c}
  /\ calls' = [d \in DOMAIN calls |->
                 CASE d = c -> [calls[d] EXCEPT !.phase = "sent"]
                   [] d \in SameNonce(c) -> OnLost(calls, d)[d]
                   [] OTHER -> calls[d]]
  /\ UNCHANGED <<best, reorgs, losses>>

Settled(c) == calls[c].phase \in Settings
AllSettled == \A c \in asked : Settled(c)

\* The program starts several calls without awaiting them.
Start(new) ==
  /\ calls' = calls \o new
  /\ asked' = Len(calls) + 1..Len(calls) + Len(new)

\* executeExtrinsic with expectSuccess: an error that has a status is caught and only
\* thrown again when it carries a module or dispatch error.
Returns(c) == calls[c].phase \in {"success", "lost"}

-----------------------------------------------------------------------------
(* The node.                                                               *)

Includable(c, parent, from) ==
  c \in from /\ calls[c].nonce = parent.nonce /\ Admits(calls[c].what, parent.state)

\* A block on top of parent: hooks, other people's calls, at most one call of ours.
EmptyBlock(parent, state) == [parent EXCEPT !.call = 0, !.ok = TRUE, !.state = state]
BlockWith(parent, state, c) ==
  LET result == Dispatch(calls[c].what, state) IN
  [call |-> c, ok |-> result.ok, nonce |-> parent.nonce + 1, state |-> result.state,
   applied |-> IF result.ok THEN parent.applied \cup {c} ELSE parent.applied]

PlainBlock ==
  /\ Len(best) <= MaxUnfinalized
  /\ \E state \in Others(Initialize(Tip.state)) : best' = Append(best, EmptyBlock(Tip, state))
  /\ UNCHANGED <<pool, calls, reorgs, losses>>

Include(c) ==
  /\ Len(best) <= MaxUnfinalized
  /\ Includable(c, Tip, pool)
  /\ LET block == BlockWith(Tip, Initialize(Tip.state), c) IN
       /\ best' = Append(best, block)
       /\ calls' = OnInBlock(calls, c, block.ok)
  /\ pool' = pool \ {c}
  /\ UNCHANGED <<reorgs, losses>>

\* Another block of the same height becomes best; the call in the retracted one goes
\* back to the pool (status Retracted, which the client ignores).
Reorg ==
  /\ Len(best) > 1 /\ reorgs < MaxReorgs
  /\ reorgs' = reorgs + 1
  /\ LET parent == best[Len(best) - 1]
         back == pool \cup (IF Tip.call = 0 THEN {} ELSE {Tip.call})
         onto(block) == best' = [best EXCEPT ![Len(best)] = block]
     IN
     \/ /\ \E state \in Others(Initialize(parent.state)) : onto(EmptyBlock(parent, state))
        /\ pool' = back
        /\ UNCHANGED calls
     \/ \E c \in back :
          /\ Includable(c, parent, back)
          /\ LET block == BlockWith(parent, Initialize(parent.state), c) IN
               onto(block) /\ calls' = OnInBlock(calls, c, block.ok)
          /\ pool' = back \ {c}
  /\ UNCHANGED losses

Finalize ==
  /\ Len(best) > 1
  /\ best' = Tail(best)
  /\ calls' = OnFinalized(calls, best[2].applied)
  /\ UNCHANGED <<pool, reorgs, losses>>

\* The pool discards what has become invalid, and what waits behind a missing nonce
\* until its era ends; the era outlasts a submission that is under way.
Discard(c) ==
  /\ c \in pool
  /\ \/ calls[c].nonce < Tip.nonce
     \/ ~Admits(calls[c].what, Tip.state)
     \/ /\ \E n \in Tip.nonce..(calls[c].nonce - 1) : ~\E d \in pool : calls[d].nonce = n
        /\ \A d \in DOMAIN calls : calls[d].phase \notin {"reading", "signed"}
  /\ pool' = pool \ {c}
  /\ calls' = OnLost(calls, c)
  /\ UNCHANGED <<best, reorgs, losses>>

\* A full pool evicts a transaction, or finality takes too long to report.
Lose(c) ==
  /\ losses < MaxLosses
  /\ calls[c].phase = "sent"
  /\ c \in pool \/ \E b \in 2..Len(best) : best[b].call = c
  /\ losses' = losses + 1
  /\ pool' = pool \ {c}
  /\ calls' = OnLost(calls, c)
  /\ UNCHANGED <<best, reorgs>>

SignTransaction(c) == ReadNonce(c) \/ SendRefused(c) \/ SendAccepted(c)

NodeNext ==
  \/ PlainBlock \/ Reorg \/ Finalize
  \/ \E c \in DOMAIN calls : SignTransaction(c) \/ Include(c) \/ Discard(c) \/ Lose(c)

\* Any program over the node: all it does to it is to start calls.
Program ==
  /\ DOMAIN calls \subseteq DOMAIN calls'
  /\ \A c \in DOMAIN calls : calls'[c] = calls[c]
  /\ \A c \in DOMAIN calls' \ DOMAIN calls : calls'[c] = Signed(calls'[c].what, calls'[c].nonce)
  /\ UNCHANGED <<best, pool, reorgs, losses>>

ClientSpec(state) == ClientInit(state) /\ [][NodeNext \/ Program]_nodeVars

-----------------------------------------------------------------------------
(* Properties.                                                             *)

\* What signTransaction reports is what became of the call: a promise that resolved
\* stands for a call that the finalized chain has executed with success, whatever
\* forks, losses and rivals for the same nonce there were, and an error is never
\* followed by the call's effect as long as no block was retracted and no status lost.
ReportsAreFinal ==
  \A c \in DOMAIN calls :
    /\ calls[c].phase = "success" => c \in Final.applied
    /\ reorgs = 0 /\ losses = 0 /\ calls[c].phase \in {"failed", "refused", "lost"}
         => c \notin Tip.applied
=============================================================================
