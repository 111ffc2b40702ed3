------------------------ MODULE MCCollatorSelection ------------------------
(***************************************************************************)
(* Instances of CollatorSelection for TLC.                                 *)
(***************************************************************************)
EXTENDS CollatorSelection

CONSTANTS i1, c1, c2

Three == {i1, c1, c2}
First == {i1}
=============================================================================
