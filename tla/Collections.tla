---------------------------- MODULE Collections ----------------------------
(***************************************************************************)
(* Collections of tokens: pallet-common, and the calls of pallet-unique    *)
(* that create, configure and destroy a collection.  The token pallets     *)
(* extend this module.  A failing call is rolled back as a whole, so an    *)
(* action describes the successful call and its guard collects the checks. *)
(* A collection with the `external` flag is only ever made by a storage    *)
(* migration; every collection here is internal.                           *)
(***************************************************************************)
EXTENDS Integers, FiniteSets

CONSTANTS
  Users,            \* cross accounts: substrate accounts and ethereum mirrors
  AsSub,            \* the substrate account that a cross account stands for
  NobodySponsors,   \* account of a disabled sponsorship, no pending sponsor
  PromotionAccount, \* account of pallet app-promotion
  CollectionLimit,  \* COLLECTION_NUMBER_LIMIT
  AdminLimit,       \* COLLECTION_ADMINS_LIMIT
  MaxTokenOwnership,\* MAX_TOKEN_OWNERSHIP, also the default of the limit
  TokenLimit,       \* COLLECTION_TOKEN_LIMIT
  CreationPrice,    \* CollectionCreationPrice
  InitialFunds,     \* what an account can spend on collections
  MaxCollections,   \* bound: collections ever created
  Modes,            \* collection modes that are created
  CreateInputs,     \* limits, permissions and pending sponsor of a new collection
  LimitInputs,      \* arguments of set_collection_limits
  PermissionInputs, \* arguments of set_collection_permissions
  TransferFlags,    \* arguments of set_transfers_enabled_flag
  Promoted,         \* collections that app-promotion sponsors
  Managed           \* accounts that become admins, sponsors, owners, allow-listed

CollectionIds == 1..MaxCollections
Accounts == {AsSub[u] : u \in Users}

ASSUME UsersAssumption ==
  /\ IsFiniteSet(Users) /\ AsSub \in [Users -> Users]
  /\ \A u \in Users : AsSub[AsSub[u]] = AsSub[u]
  /\ Managed \subseteq Users /\ Promoted \subseteq 1..MaxCollections

ASSUME CollectionAssumption ==
  /\ CollectionLimit \in Nat /\ AdminLimit \in Nat /\ TokenLimit \in Nat
  /\ MaxTokenOwnership \in Nat /\ CreationPrice \in Nat /\ InitialFunds \in Nat
  /\ MaxCollections \in Nat

VARIABLES
  CreatedCollectionCount, DestroyedCollectionCount,
  CollectionById,
  IsAdmin,          \* pairs of a collection and a cross account
  AdminAmount,
  Allowlist,        \* pairs of a collection and a cross account
  funds,            \* account -> what it can still spend
  treasury          \* what collection creation has brought in

money == <<funds, treasury>>
lists == <<IsAdmin, AdminAmount, Allowlist>>
counts == <<CreatedCollectionCount, DestroyedCollectionCount>>
collectionVars == <<CreatedCollectionCount, DestroyedCollectionCount, CollectionById, IsAdmin,
                    AdminAmount, Allowlist, funds, treasury>>

-----------------------------------------------------------------------------
(* Limits and permissions.  A field that is not set has its default.       *)

DefaultLimits ==
  [token_limit |-> TokenLimit, account_token_ownership_limit |-> MaxTokenOwnership,
   owner_can_transfer |-> FALSE, owner_can_destroy |-> TRUE, transfers_enabled |-> TRUE]

DefaultPermissions ==
  [access |-> "Normal", mint_mode |-> FALSE,
   nesting |-> [token_owner |-> FALSE, collection_admin |-> FALSE, restricted |-> CollectionIds]]

\* No field is set.
Nothing == [f \in {} |-> 0]
\* CollectionById of an id that is not in use.
NoCollection == Nothing

Merge(old, new) ==
  [f \in DOMAIN old \cup DOMAIN new |-> IF f \in DOMAIN new THEN new[f] ELSE old[f]]

Exists(c) == CollectionById[c] # NoCollection
Limit(c, f) == Merge(DefaultLimits, CollectionById[c].limits)[f]
Permission(c, f) == Merge(DefaultPermissions, CollectionById[c].permissions)[f]

\* Checks of clamp_limits on the fields that a caller sets.  The sponsoring limits
\* are left out: they are only compared with constants.
Within(new, f, P(_)) == f \in DOMAIN new => P(new[f])
AnyTransferRight(old, new) == TRUE
TransferRightKept(old, new) ==
  Within(new, "owner_can_transfer",
    LAMBDA v : "owner_can_transfer" \in DOMAIN old => old["owner_can_transfer"] \/ ~v)
ClampLimits(old, new) ==
  LET was == Merge(DefaultLimits, old) IN
  /\ Within(new, "account_token_ownership_limit", LAMBDA v : v <= MaxTokenOwnership)
  /\ Within(new, "token_limit", LAMBDA v : v <= was.token_limit /\ v > 0)
  /\ Within(new, "owner_can_destroy", LAMBDA v : was.owner_can_destroy \/ ~v)
  /\ TransferRightKept(old, new)

\* The fields of CollectionLimits have these types, as far as they are set.
HasLimitTypes(limits) ==
  /\ DOMAIN limits \subseteq DOMAIN DefaultLimits
  /\ \A f \in DOMAIN limits \cap {"token_limit", "account_token_ownership_limit"} : limits[f] \in Nat
  /\ \A f \in DOMAIN limits \cap {"owner_can_transfer", "owner_can_destroy", "transfers_enabled"} :
       limits[f] \in BOOLEAN

ASSUME InputsAssumption ==
  /\ NobodySponsors \notin Users
  /\ \A input \in CreateInputs :
       input.pending_sponsor \in Users \cup {NobodySponsors} /\ HasLimitTypes(input.limits)
  /\ \A new \in LimitInputs : HasLimitTypes(new)
  /\ TransferFlags \subseteq BOOLEAN

Disabled == [kind |-> "Disabled", account |-> NobodySponsors]
Unconfirmed(a) == [kind |-> "Unconfirmed", account |-> a]
Confirmed(a) == [kind |-> "Confirmed", account |-> a]
Invitation(sponsor) ==
  IF sponsor = NobodySponsors THEN Disabled ELSE Unconfirmed(AsSub[sponsor])

IsOwner(u, c) == AsSub[u] = CollectionById[c].owner
IsOwnerOrAdmin(u, c) == IsOwner(u, c) \/ <<c, u>> \in IsAdmin
IgnoresRestrictions(u, c) == Limit(c, "owner_can_transfer") /\ IsOwnerOrAdmin(u, c)

AllowListed(c, S) == \A u \in S : <<c, u>> \in Allowlist
Accessible(c, S) == Permission(c, "access") = "AllowList" => AllowListed(c, S)

-----------------------------------------------------------------------------
CollectionInit ==
  /\ CreatedCollectionCount = 0 /\ DestroyedCollectionCount = 0
  /\ CollectionById = [c \in CollectionIds |-> NoCollection]
  /\ IsAdmin = {} /\ Allowlist = {}
  /\ AdminAmount = [c \in CollectionIds |-> 0]
  /\ funds = [a \in Accounts |-> InitialFunds]
  /\ treasury = 0

NewId == CreatedCollectionCount + 1

UnderCollectionLimit == NewId - DestroyedCollectionCount <= CollectionLimit

\* The creator pays a price that is not refunded.
TakeDeposit(u) ==
  /\ funds[AsSub[u]] >= CreationPrice
  /\ funds' = [funds EXCEPT ![AsSub[u]] = @ - CreationPrice]
  /\ treasury' = treasury + CreationPrice

CreateCollection(u, mode, input, admins) ==
  /\ NewId \in CollectionIds
  /\ UnderCollectionLimit
  /\ ClampLimits(Nothing, input.limits)
  /\ Cardinality(admins) <= AdminLimit
  /\ TakeDeposit(u)
  /\ CreatedCollectionCount' = NewId
  /\ CollectionById' = [CollectionById EXCEPT ![NewId] =
       [owner |-> AsSub[u], mode |-> mode, sponsorship |-> Invitation(input.pending_sponsor),
        limits |-> input.limits, permissions |-> input.permissions]]
  /\ IsAdmin' = IsAdmin \cup ({NewId} \X admins)
  /\ AdminAmount' = [AdminAmount EXCEPT ![NewId] = Cardinality(admins)]
  /\ UNCHANGED <<DestroyedCollectionCount, Allowlist>>

\* The common part of destroy_collection; a token pallet checks first that the
\* collection is empty, and clears its own maps afterwards.
WithoutAllowed(c) == {p \in Allowlist : p[1] # c}
CommonDestroy(u, c) ==
  /\ Exists(c)
  /\ Limit(c, "owner_can_destroy")
  /\ IsOwner(u, c)
  /\ DestroyedCollectionCount' = DestroyedCollectionCount + 1
  /\ CollectionById' = [CollectionById EXCEPT ![c] = NoCollection]
  /\ AdminAmount' = [AdminAmount EXCEPT ![c] = 0]
  /\ IsAdmin' = {p \in IsAdmin : p[1] # c}
  /\ Allowlist' = WithoutAllowed(c)
  /\ UNCHANGED <<CreatedCollectionCount, money>>

ToggleAllowlist(u, c, user, allowed) ==
  /\ Exists(c) /\ IsOwnerOrAdmin(u, c)
  /\ Allowlist' = IF allowed THEN Allowlist \cup {<<c, user>>} ELSE Allowlist \ {<<c, user>>}
  /\ UNCHANGED <<counts, CollectionById, IsAdmin, AdminAmount, money>>

\* Adding an admin twice succeeds and changes nothing; removing a stranger fails.
AnyUser(c, user) == TRUE
NotYetAdmin(c, user) == <<c, user>> \notin IsAdmin
AddCollectionAdmin(u, c, user) ==
  /\ Exists(c) /\ IsOwner(u, c)
  /\ NotYetAdmin(c, user)
  /\ AdminAmount[c] + 1 <= AdminLimit
  /\ AdminAmount' = [AdminAmount EXCEPT ![c] = @ + 1]
  /\ IsAdmin' = IsAdmin \cup {<<c, user>>}
  /\ UNCHANGED <<counts, CollectionById, Allowlist, money>>

RemoveCollectionAdmin(u, c, user) ==
  /\ Exists(c) /\ IsOwner(u, c)
  /\ <<c, user>> \in IsAdmin
  /\ AdminAmount' = [AdminAmount EXCEPT ![c] = IF @ = 0 THEN 0 ELSE @ - 1]
  /\ IsAdmin' = IsAdmin \ {<<c, user>>}
  /\ UNCHANGED <<counts, CollectionById, Allowlist, money>>

\* CollectionHandle::save with one field changed.
Save(c, collection) ==
  /\ CollectionById' = [CollectionById EXCEPT ![c] = collection]
  /\ UNCHANGED <<counts, lists, money>>

OwnerAccount(user) == AsSub[user]
ChangeOwner(u, c, user) ==
  /\ Exists(c) /\ IsOwner(u, c)
  /\ Save(c, [CollectionById[c] EXCEPT !.owner = OwnerAccount(user)])

SetSponsor(u, c, user) ==
  /\ Exists(c) /\ IsOwnerOrAdmin(u, c)
  /\ Save(c, [CollectionById[c] EXCEPT !.sponsorship = Unconfirmed(AsSub[user])])

\* A confirmed sponsor may confirm again.
AnyoneConfirms(u, c) == TRUE
MayConfirm(u, c) == CollectionById[c].sponsorship.account = AsSub[u]
ConfirmSponsorship(u, c) ==
  /\ Exists(c)
  /\ MayConfirm(u, c)
  /\ Save(c, [CollectionById[c] EXCEPT !.sponsorship = Confirmed(AsSub[u])])

RemoveSponsor(u, c) ==
  /\ Exists(c) /\ IsOwnerOrAdmin(u, c)
  /\ Save(c, [CollectionById[c] EXCEPT !.sponsorship = Disabled])

\* The admin of app-promotion makes that pallet the sponsor without confirmation,
\* and stops it.
SponsorCollection(c) ==
  /\ Exists(c)
  /\ Save(c, [CollectionById[c] EXCEPT !.sponsorship = Confirmed(PromotionAccount)])

StopSponsoringCollection(c) ==
  /\ Exists(c) /\ CollectionById[c].sponsorship = Confirmed(PromotionAccount)
  /\ Save(c, [CollectionById[c] EXCEPT !.sponsorship = Disabled])

SetCollectionLimits(u, c, new) ==
  /\ Exists(c) /\ IsOwnerOrAdmin(u, c)
  /\ ClampLimits(CollectionById[c].limits, new)
  /\ Save(c, [CollectionById[c] EXCEPT !.limits = Merge(@, new)])

SetCollectionPermissions(u, c, new) ==
  /\ Exists(c) /\ IsOwnerOrAdmin(u, c)
  /\ Save(c, [CollectionById[c] EXCEPT !.permissions = Merge(@, new)])

SetTransfersEnabled(u, c, value) ==
  /\ Exists(c) /\ IsOwner(u, c)
  /\ Save(c, [CollectionById[c] EXCEPT !.limits = Merge(@, [transfers_enabled |-> value])])

-----------------------------------------------------------------------------
(* The calls of pallet-unique, and those of app-promotion, with their      *)
(* arguments.                                                              *)

CreateCalls ==
  \E u \in Users, mode \in Modes, input \in CreateInputs, admins \in SUBSET Managed :
    CreateCollection(u, mode, input, admins)

MemberCalls ==
  \E u \in Users, c \in CollectionIds, user \in Managed :
    \/ \E allowed \in BOOLEAN : ToggleAllowlist(u, c, user, allowed)
    \/ ChangeOwner(u, c, user)
    \/ AddCollectionAdmin(u, c, user)
    \/ RemoveCollectionAdmin(u, c, user)

SponsorCalls ==
  \E u \in Users, c \in CollectionIds :
    \/ \E user \in Managed : SetSponsor(u, c, user)
    \/ ConfirmSponsorship(u, c)
    \/ RemoveSponsor(u, c)

LimitCalls ==
  \E u \in Users, c \in CollectionIds :
    \/ \E new \in LimitInputs : SetCollectionLimits(u, c, new)
    \/ \E new \in PermissionInputs : SetCollectionPermissions(u, c, new)
    \/ \E value \in TransferFlags : SetTransfersEnabled(u, c, value)

PromotionCalls ==
  \E c \in Promoted : SponsorCollection(c) \/ StopSponsoringCollection(c)

Configure == CreateCalls \/ MemberCalls \/ SponsorCalls \/ LimitCalls \/ PromotionCalls

CollectionNext ==
  \/ Configure
  \/ \E u \in Users, c \in CollectionIds : CommonDestroy(u, c)

CollectionSpec == CollectionInit /\ [][CollectionNext]_collectionVars

-----------------------------------------------------------------------------
Live == {c \in CollectionIds : Exists(c)}
AdminsOf(c) == {u \in Users : <<c, u>> \in IsAdmin}

\* Counters and rows agree through creation with a list of admins, repeated adding,
\* removal and destruction: the two counters, never lowered, give the number of
\* existing collections, which stays within COLLECTION_NUMBER_LIMIT; AdminAmount
\* counts the admins and stays within its limit; an owner is stored as an account,
\* never as its ethereum mirror; and nobody has a right in a collection that is gone
\* or was never created.
CollectionRowsExact ==
  /\ CreatedCollectionCount - DestroyedCollectionCount = Cardinality(Live)
  /\ Cardinality(Live) <= CollectionLimit
  /\ \A c \in CollectionIds :
       AdminAmount[c] = Cardinality(AdminsOf(c)) /\ Cardinality(AdminsOf(c)) <= AdminLimit
  /\ \A c \in Live : CollectionById[c].owner \in Accounts
  /\ \A p \in IsAdmin \cup Allowlist : Exists(p[1])

\* What clamp_limits gives up can not be taken back, by whatever sequence of limit
\* updates: the token limit only falls, a renounced right to destroy stays renounced
\* and so does a right to transfer that was explicitly renounced.
LimitsRatchet ==
  [][\A c \in CollectionIds :
       Exists(c) /\ CollectionById'[c] # NoCollection =>
         LET old == CollectionById[c].limits
             new == CollectionById'[c].limits
         IN  /\ Merge(DefaultLimits, new).token_limit <= Merge(DefaultLimits, old).token_limit
             /\ Merge(DefaultLimits, new).owner_can_destroy => Merge(DefaultLimits, old).owner_can_destroy
             /\ "owner_can_transfer" \in DOMAIN old /\ ~old["owner_can_transfer"]
                  => "owner_can_transfer" \in DOMAIN new /\ ~new["owner_can_transfer"]]_collectionVars

\* Nobody pays for a collection without having agreed: a sponsorship becomes
\* confirmed only from an invitation of that very account, or for the account of the
\* app-promotion pallet, although invitations can be replaced at any time.
SponsorAgreed ==
  [][\A c \in CollectionIds, a \in Accounts :
       /\ CollectionById'[c] # NoCollection /\ CollectionById'[c].sponsorship = Confirmed(a)
       /\ ~(Exists(c) /\ CollectionById[c].sponsorship = Confirmed(a))
       => \/ Exists(c) /\ CollectionById[c].sponsorship = Unconfirmed(a)
          \/ a = PromotionAccount]_collectionVars
=============================================================================
