---------------------------- MODULE MCInflation ----------------------------
(***************************************************************************)
(* Instances of Inflation for TLC.                                         *)
(***************************************************************************)
EXTENDS Inflation

Burn == {-300}
=============================================================================
