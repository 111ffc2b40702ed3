---------------------------- MODULE IdentitySync ----------------------------
(***************************************************************************)
(* scripts/identitySetter.ts between two chains.  The script reads the     *)
(* relay chain's identities, supers and subs one query after the other,    *)
(* compares them with what this chain has, and notes preimages of forced   *)
(* calls.  Governance enacts them later, in any order.  Meanwhile accounts *)
(* change the relay chain and root inserts identities of this chain.       *)
(***************************************************************************)
EXTENDS Identity

CONSTANTS
  Order,          \* iteration order of the relay chain's SubsOf
  RelayPrefix,    \* ss58 prefix of the relay chain
  LocalPrefix,    \* ss58 prefix of this chain
  OtherPrefixes,  \* prefixes of other relay chains that were pulled before
  MaxChanges,     \* bound: calls on the relay chain and of root
  MaxNoted,       \* bound: preimages that wait when the script is started
  MaxRounds       \* bound: undisturbed rounds that are counted

ASSUME SyncAssumption ==
  /\ RelayPrefix \in Nat /\ LocalPrefix \in Nat /\ OtherPrefixes \subseteq Nat
  /\ None \notin Nat \cup Owners /\ (\A S \in SUBSET Subs : S # None)
  /\ \A i \in Infos : Registration(i, RelayPrefix) # None
  /\ Order \in Seq(Owners) /\ Len(Order) = Cardinality(Owners) /\ Owners = {Order[i] : i \in DOMAIN Order}
  /\ MaxChanges \in Nat /\ MaxNoted \in Nat /\ MaxRounds \in Nat

VARIABLES
  relayIdentityOf, relaySubsOf, relaySuperOf,
  stage,            \* where the script is; it is started again after its end
  identitiesOnRelay, supersOfSubs, subsOnRelay,
  paraRegistrators, \* paraAccountsRegistrators
  paraSubs,         \* the subs of this chain, before their supers have been read
  noted,            \* preimages that wait to be enacted
  changes,          \* calls on the relay chain and of root, up to MaxChanges
  undisturbed,      \* history: nothing but the script's own preimages since it began
  rounds            \* history: rounds in a row that were undisturbed and are enacted

relayVars == <<relayIdentityOf, relaySubsOf, relaySuperOf>>
readVars == <<identitiesOnRelay, supersOfSubs, subsOnRelay, paraRegistrators, paraSubs>>
syncVars == <<idVars, relayVars, stage, readVars, noted, changes, undisturbed, rounds>>

Relay == INSTANCE Identity WITH
           IdentityOf <- relayIdentityOf, SubsOf <- relaySubsOf, SuperOf <- relaySuperOf

Nothing == [a \in Owners |-> None]
InsertCall(registrations) == [call |-> "forceInsertIdentities", args |-> registrations]
SubsCall(subs) == [call |-> "forceSetSubs", args |-> subs]

\* The relay chain has been in use; this chain has nothing yet.
SyncInit ==
  /\ IdentityInit
  /\ relayIdentityOf \in [Owners -> {None} \cup {Registration(i, 0) : i \in Infos}]
  /\ relaySuperOf \in [Subs -> {None} \cup {a \in Owners : relayIdentityOf[a] # None}]
  /\ relaySubsOf = [a \in Owners |-> EntryOf({s \in Subs : relaySuperOf[s] = a})]
  /\ stage = "start"
  /\ identitiesOnRelay = Nothing /\ subsOnRelay = Nothing /\ supersOfSubs = {}
  /\ paraRegistrators = Nothing /\ paraSubs = Nothing
  /\ noted = {} /\ changes = 0
  /\ undisturbed = FALSE /\ rounds = 0

-----------------------------------------------------------------------------
(* The relay chain's part of the script.                                   *)

\* getIdentities, those with a good judgement, which becomes the relay chain's.
\* The entries of a map are never None, so nothing is marked for removal.
ReadIdentities ==
  /\ stage = "start" /\ Cardinality(noted) <= MaxNoted
  /\ identitiesOnRelay' = [a \in Owners |->
       IF relayIdentityOf[a] # None /\ relayIdentityOf[a].registrar # None
       THEN Registration(relayIdentityOf[a].info, RelayPrefix) ELSE None]
  /\ stage' = "supers"
  /\ undisturbed' = (noted = {})
  /\ rounds' = IF noted = {} THEN rounds ELSE 0
  /\ UNCHANGED <<idVars, relayVars, supersOfSubs, subsOnRelay, paraRegistrators, paraSubs,
                 noted, changes>>

ReadSupers ==
  /\ stage = "supers"
  /\ supersOfSubs' = {s \in Subs : relaySuperOf[s] # None}
  /\ stage' = "subs"
  /\ UNCHANGED <<idVars, relayVars, identitiesOnRelay, subsOnRelay, paraRegistrators, paraSubs,
                 noted, changes, undisturbed, rounds>>

\* constructSubInfo leaves out a sub whose super was not found.
ConstructWholeList(entry, supers) == entry
ConstructSubInfo(entry, supers) == IF entry = None THEN None ELSE entry \cap supers

ReadSubs ==
  /\ stage = "subs"
  /\ subsOnRelay' = [a \in Owners |->
       IF identitiesOnRelay[a] = None THEN None ELSE ConstructSubInfo(relaySubsOf[a], supersOfSubs)]
  /\ supersOfSubs' = {}
  /\ stage' = "compare"
  /\ UNCHANGED <<idVars, relayVars, identitiesOnRelay, paraRegistrators, paraSubs,
                 noted, changes, undisturbed, rounds>>

-----------------------------------------------------------------------------
(* This chain's part.                                                      *)

\* toHuman writes a registrar's number with thousands separators; as a number such
\* a text is NaN, which is neither equal to a prefix nor below one.
IsNumeral(registrar) == registrar < 1000
LowerIsPriority(registrar) == registrar # None /\ IsNumeral(registrar) /\ registrar < RelayPrefix
IsCurrentChainDataPriority(registrar) ==
  /\ registrar # None
  /\ IsNumeral(registrar)
  /\ registrar = LocalPrefix \/ registrar < RelayPrefix

\* A round is complete when the script is through and its preimages are enacted.
CountRound(through, calls) ==
  rounds' = IF through /\ calls = {} /\ undisturbed /\ rounds < MaxRounds THEN rounds + 1 ELSE rounds

\* uploadPreimage: a preimage that is noted already changes nothing, and any other
\* error is only logged.
Upload(call) ==
  \/ noted' = noted \cup {call} /\ UNCHANGED <<undisturbed, rounds>>
  \/ undisturbed' = FALSE /\ rounds' = 0 /\ UNCHANGED noted

IdentityChanged(a) ==
  /\ identitiesOnRelay[a] # None
  /\ IdentityOf[a] # None => /\ ~IsCurrentChainDataPriority(IdentityOf[a].registrar)
                             /\ IdentityOf[a].info # identitiesOnRelay[a].info

PushIdentities ==
  LET identitiesToAdd == [a \in Owners |-> IF IdentityChanged(a) THEN identitiesOnRelay[a] ELSE None] IN
  /\ stage = "compare"
  /\ paraRegistrators' = [a \in Owners |->
       IF identitiesOnRelay[a] # None /\ IdentityOf[a] # None THEN IdentityOf[a].registrar ELSE None]
  /\ IF identitiesToAdd = Nothing THEN UNCHANGED <<noted, undisturbed, rounds>>
     ELSE Upload(InsertCall(identitiesToAdd))
  /\ identitiesOnRelay' = Nothing
  /\ stage' = "paraSubs"
  /\ UNCHANGED <<idVars, relayVars, supersOfSubs, subsOnRelay, paraSubs, changes>>

ReadParaSubs ==
  /\ stage = "paraSubs"
  /\ paraSubs' = SubsOf
  /\ stage' = "push"
  /\ UNCHANGED <<idVars, relayVars, identitiesOnRelay, supersOfSubs, subsOnRelay, paraRegistrators,
                 noted, changes, undisturbed, rounds>>

SubsChanged(a) ==
  /\ subsOnRelay[a] # None
  /\ IF paraSubs[a] # None
     THEN /\ ~IsCurrentChainDataPriority(paraRegistrators[a])
          /\ subsOnRelay[a] # ConstructSubInfo(paraSubs[a], {s \in Subs : SuperOf[s] # None})
     ELSE subsOnRelay[a] # {}

\* getSupers of this chain and the comparison; the script ends.
PushSubs ==
  LET subsToUpdate == [a \in Owners |-> IF SubsChanged(a) THEN subsOnRelay[a] ELSE None] IN
  /\ stage = "push"
  /\ IF subsToUpdate = Nothing THEN CountRound(TRUE, noted) /\ UNCHANGED <<noted, undisturbed>>
     ELSE Upload(SubsCall(subsToUpdate))
  /\ subsOnRelay' = Nothing /\ paraRegistrators' = Nothing /\ paraSubs' = Nothing
  /\ stage' = "start"
  /\ UNCHANGED <<idVars, relayVars, identitiesOnRelay, supersOfSubs, changes>>

\* A query or a conversion throws, and the script is started again from the beginning.
ScriptFails ==
  /\ stage # "start"
  /\ stage' = "start"
  /\ identitiesOnRelay' = Nothing /\ subsOnRelay' = Nothing /\ supersOfSubs' = {}
  /\ paraRegistrators' = Nothing /\ paraSubs' = Nothing
  /\ undisturbed' = FALSE /\ rounds' = 0
  /\ UNCHANGED <<idVars, relayVars, noted, changes>>

-----------------------------------------------------------------------------
(* Governance and the relay chain's accounts.                              *)

Enact(p) ==
  /\ p \in noted
  /\ \/ p.call = "forceInsertIdentities" /\ ForceInsertIdentities(p.args)
     \/ p.call = "forceSetSubs" /\ ForceSetSubs(Order, p.args)
  /\ noted' = noted \ {p}
  /\ CountRound(stage = "start", noted')
  /\ UNCHANGED <<relayVars, stage, readVars, changes, undisturbed>>

Disturb ==
  /\ changes < MaxChanges
  /\ changes' = changes + 1
  /\ undisturbed' = FALSE /\ rounds' = 0
  /\ UNCHANGED <<stage, readVars, noted>>

RelayChanges ==
  /\ Relay!AccountCall \/ \E a \in Owners : Relay!ProvideJudgement(a, 0)
  /\ Disturb /\ UNCHANGED idVars

RootChanges ==
  /\ \E a \in Owners :
       \/ ForceRemoveIdentities({a})
       \/ \E i \in Infos, prefix \in OtherPrefixes \cup {LocalPrefix} :
            ForceInsertIdentities([Nothing EXCEPT ![a] = Registration(i, prefix)])
  /\ Disturb /\ UNCHANGED relayVars

SyncScript ==
  \/ ReadIdentities \/ ReadSupers \/ ReadSubs \/ PushIdentities \/ ReadParaSubs \/ PushSubs
  \/ ScriptFails
SyncNext == SyncScript \/ (\E p \in noted : Enact(p)) \/ RelayChanges \/ RootChanges

SyncSpec == SyncInit /\ [][SyncNext]_syncVars

-----------------------------------------------------------------------------
(* Properties.                                                             *)

Good(a) == relayIdentityOf[a] # None /\ relayIdentityOf[a].registrar # None
Superior(a) ==
  IdentityOf[a] # None /\ (IdentityOf[a].registrar = LocalPrefix \/ IdentityOf[a].registrar < RelayPrefix)

\* One undisturbed round brings every judged identity of the relay chain here, unless
\* this chain has more important data, although reading, noting and enacting are
\* separate steps and earlier preimages were made from older data.
IdentitiesFollowed ==
  rounds >= 1 =>
    \A a \in Owners : Good(a) /\ ~Superior(a) =>
      IdentityOf[a] # None /\ IdentityOf[a].info = relayIdentityOf[a].info

\* Three rounds bring the subs of two judged identities as well, even when subs have
\* moved between them: force_set_subs for the account that a sub left may come after
\* the one for the account it joined and take its super away, and a list may be found
\* unchanged while a sub of it has no super.  Later rounds repair both.
RelayFollowed ==
  /\ IdentitiesFollowed
  /\ rounds >= 3 =>
       \A a \in Owners : Good(a) /\ ~Superior(a) /\ relaySubsOf[a] # None =>
         SubsKnown(a) = relaySubsOf[a]

\* The script's comment: "information has come from local chain, and is automatically
\* superior".  A preimage made since nothing else changed never replaces it.
LocalIsSuperior ==
  [][\A a \in Owners :
       undisturbed /\ undisturbed' /\ IdentityOf[a] # None /\ IdentityOf[a].registrar = LocalPrefix
         => IdentityOf'[a] = IdentityOf[a]]_syncVars
=============================================================================
