----------------------------- MODULE MCFungible -----------------------------
(* Fungible for model checking.                                            *)
EXTENDS Fungible

CONSTANTS u1, u2

MCAsSub == [u \in Users |-> u]

\* The account at the top of a token may nest in it.
MCNestable ==
  {[limits |-> Nothing, pending_sponsor |-> NobodySponsors,
    permissions |-> [nesting |-> [token_owner |-> TRUE, collection_admin |-> FALSE,
                                  restricted |-> CollectionIds]]]}
=============================================================================
