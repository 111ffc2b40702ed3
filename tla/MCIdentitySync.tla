--------------------------- MODULE MCIdentitySync ---------------------------
(* IdentitySync for model checking.                                        *)
EXTENDS IdentitySync, TLC

CONSTANTS a1, a2, s1, s2, i1, i2

MCOrder == <<a1, a2>>
MCSymmetry == Permutations(Infos) \cup Permutations(Subs)
=============================================================================
