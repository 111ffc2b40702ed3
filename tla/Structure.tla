----------------------------- MODULE Structure -----------------------------
(***************************************************************************)
(* pallets/structure: walking from a token up the tokens it is nested in.  *)
(* An ownership maps every token to its owner: an account, a token, or     *)
(* NotFound for a token that does not exist.  One call of find_parent uses *)
(* up one unit of the budget that all walks of a call share.               *)
(***************************************************************************)
EXTENDS Integers

CONSTANT NotFound   \* Parent::TokenNotFound, the owner of a missing token

\* The first n parents of a token.  What is not a token is its own parent.
ParentChain(owner, t, n) ==
  LET p[i \in 0..n] ==
        IF i = 0 THEN t
        ELSE IF p[i - 1] \in DOMAIN owner THEN owner[p[i - 1]] ELSE p[i - 1]
  IN  p

\* Numbers of find_parent calls, within the budget, after which the chain has left
\* the tokens.  A cycle never leaves them: the code stops there with
\* OuroborosDetected, or with DepthLimit when the budget ends first.
Exits(owner, t, budget) == {n \in 1..budget : ParentChain(owner, t, budget)[n] \notin DOMAIN owner}
FirstExit(owner, t, budget) ==
  CHOOSE n \in Exits(owner, t, budget) : \A m \in Exits(owner, t, budget) : n <= m

Failed == [ok |-> FALSE, top |-> NotFound, left |-> 0]

\* get_checked_topmost_owner: the account at the top and the budget left, or Failed
\* when there is none or nestee is on the way to it.
AnyChain(owner, t, nestee, budget) == TRUE
AvoidsNestee(owner, t, nestee, budget) ==
  /\ t # nestee
  /\ \A n \in 1..FirstExit(owner, t, budget) - 1 : ParentChain(owner, t, budget)[n] # nestee
GetCheckedTopmostOwner(owner, t, nestee, budget) ==
  IF Exits(owner, t, budget) = {} THEN Failed
  ELSE LET n == FirstExit(owner, t, budget)
           top == ParentChain(owner, t, budget)[n]
       IN  IF top = NotFound \/ ~AvoidsNestee(owner, t, nestee, budget) THEN Failed
           ELSE [ok |-> TRUE, top |-> top, left |-> budget - n]
=============================================================================
