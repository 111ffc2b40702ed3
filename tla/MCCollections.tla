--------------------------- MODULE MCCollections ---------------------------
(* Collections for model checking: an ethereum mirror e1 of account u1.    *)
EXTENDS Collections

CONSTANTS u1, u2, e1

MCAsSub == [u \in {u1, u2, e1} |-> IF u = e1 THEN u1 ELSE u]
Plain == [limits |-> Nothing, permissions |-> Nothing, pending_sponsor |-> NobodySponsors]
MCCreateInputs ==
  {Plain,
   [Plain EXCEPT !.limits = [owner_can_transfer |-> TRUE], !.pending_sponsor = u2]}
MCLimitInputs ==
  {[owner_can_transfer |-> FALSE], [owner_can_transfer |-> TRUE],
   [owner_can_destroy |-> FALSE], [owner_can_destroy |-> TRUE, token_limit |-> 0],
   [token_limit |-> 1, account_token_ownership_limit |-> 3], [token_limit |-> 2]}
MCPermissionInputs == {[access |-> "AllowList"]}
=============================================================================
