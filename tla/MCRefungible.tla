---------------------------- MODULE MCRefungible ----------------------------
(* Refungible for model checking.                                          *)
EXTENDS Refungible

CONSTANTS u1, u2

MCAsSub == [u \in Users |-> u]

\* Two collections as create_collection_ex leaves them: one with a single token, which
\* the account at its top may nest in, and one of split tokens.
MCCollection(mode, limits) ==
  [owner |-> u1, mode |-> mode, sponsorship |-> Disabled, limits |-> limits,
   permissions |-> [nesting |-> [token_owner |-> TRUE, collection_admin |-> FALSE,
                                 restricted |-> CollectionIds]]]
MCCollections ==
  /\ CreatedCollectionCount = 2 /\ DestroyedCollectionCount = 0
  /\ CollectionById =
       <<MCCollection("NFT", [token_limit |-> 1]), MCCollection("ReFungible", Nothing)>>
  /\ IsAdmin = {} /\ Allowlist = {}
  /\ AdminAmount = [c \in CollectionIds |-> 0]
  /\ funds = [a \in Accounts |-> InitialFunds]
  /\ treasury = 0

\* Beside the calls for pieces those of nonfungible collections that meet pieces: the
\* approvals of their tokens, the calls for money and those that configure a collection
\* do not.
TokensBeside ==
  \/ MintCalls \/ TransferCalls \/ BurnCalls
  \/ \E u \in Users, c \in CollectionIds : DestroyNft(u, c)

MCInit == MCCollections /\ TokenInit /\ MoneyInit /\ PieceInit
MCNext ==
  \/ PieceSteps
  \/ TokensBeside /\ UNCHANGED <<ftVars, rftVars>>
MCSpec == MCInit /\ [][MCNext]_pieceVars
=============================================================================
