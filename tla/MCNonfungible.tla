--------------------------- MODULE MCNonfungible ---------------------------
(* Nonfungible for model checking.                                         *)
EXTENDS Nonfungible

CONSTANTS u1, u2, e1

MCAsSub == [u \in Users |-> IF u = e1 THEN u1 ELSE u]

Plain == [limits |-> Nothing, permissions |-> Nothing, pending_sponsor |-> NobodySponsors]
Nesting(owner, admin, allowed) ==
  [token_owner |-> owner, collection_admin |-> admin, restricted |-> allowed]
WithNesting(nesting) == [Plain EXCEPT !.permissions = [nesting |-> nesting]]

\* Everybody may nest, in every way.
MCOpen == {WithNesting(Nesting(TRUE, TRUE, CollectionIds))}
\* The owner may interfere, and others may mint if they are on the allow list; or
\* nobody but the owner may do anything.
MCStrict ==
  {[limits |-> [owner_can_transfer |-> TRUE, account_token_ownership_limit |-> 1, token_limit |-> 2],
    permissions |-> [access |-> "AllowList", mint_mode |-> TRUE],
    pending_sponsor |-> NobodySponsors],
   [Plain EXCEPT !.limits = [token_limit |-> 2]]}
MCEither == MCOpen \cup MCStrict
=============================================================================
