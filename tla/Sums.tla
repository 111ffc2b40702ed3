------------------------------- MODULE Sums -------------------------------
(***************************************************************************)
(* Sums of natural numbers.  A sum is the number of units it is made of,   *)
(* a set that the facts about finite sets apply to, so that what a sum     *)
(* does when one of its terms changes can be proved without induction.     *)
(***************************************************************************)
EXTENDS Integers, FiniteSets

\* f[x] numbered units for every x in S.
Units(f, S) == UNION {{x} \X (1..f[x]) : x \in S}

Sum(f, S) == Cardinality(Units(f, S))
=============================================================================
