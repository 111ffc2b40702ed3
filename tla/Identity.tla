------------------------------ MODULE Identity ------------------------------
(***************************************************************************)
(* pallets/identity.  The calls of accounts are what the relay chain's     *)
(* copy of the pallet takes; on this chain DisableIdentityCalls            *)
(* (runtime/common/identity.rs) refuses them and root uses the forced      *)
(* calls.  Deposits, names and the registrars' fees are left out.          *)
(***************************************************************************)
EXTENDS Integers, FiniteSets, Sequences, FiniteSetsExt

CONSTANTS
  Owners,           \* accounts that have identities
  Subs,             \* accounts that are named as sub-identities
  Infos,            \* what an identity says
  MaxSubAccounts,
  None              \* no value in a map

VARIABLES
  IdentityOf,       \* an info and the registrar of its good judgement (None: no good one)
  SubsOf,           \* a set of accounts; an empty one is not the same as no entry
  SuperOf

idVars == <<IdentityOf, SubsOf, SuperOf>>

Registration(info, registrar) == [info |-> info, registrar |-> registrar]
Listed(subsOf, a) == IF subsOf[a] = None THEN {} ELSE subsOf[a]
EntryOf(S) == IF S = {} THEN None ELSE S

IdentityInit ==
  /\ IdentityOf = [a \in Owners |-> None]
  /\ SubsOf = [a \in Owners |-> None]
  /\ SuperOf = [s \in Subs |-> None]

\* SuperOf when the subs of a become S: the old ones are removed, then S is inserted.
SuperReplaced(superOf, old, a, S) ==
  [s \in Subs |-> CASE s \in S -> a [] s \in old \ S -> None [] OTHER -> superOf[s]]

-----------------------------------------------------------------------------
(* Calls of accounts.                                                      *)

\* A good judgement does not survive a new info.
SetIdentity(a, info) ==
  /\ IdentityOf' = [IdentityOf EXCEPT ![a] = Registration(info, None)]
  /\ UNCHANGED <<SubsOf, SuperOf>>

ProvideJudgement(a, registrar) ==
  /\ IdentityOf[a] # None
  /\ IdentityOf' = [IdentityOf EXCEPT ![a].registrar = registrar]
  /\ UNCHANGED <<SubsOf, SuperOf>>

\* clear_identity by the account and kill_identity by root.
ClearIdentity(a) ==
  /\ IdentityOf[a] # None
  /\ IdentityOf' = [IdentityOf EXCEPT ![a] = None]
  /\ SubsOf' = [SubsOf EXCEPT ![a] = None]
  /\ SuperOf' = SuperReplaced(SuperOf, Listed(SubsOf, a), a, {})

SetSubs(a, S) ==
  /\ IdentityOf[a] # None
  /\ Cardinality(S) <= MaxSubAccounts
  /\ \A s \in S : SuperOf[s] \in {a, None}
  /\ SubsOf' = [SubsOf EXCEPT ![a] = EntryOf(S)]
  /\ SuperOf' = SuperReplaced(SuperOf, Listed(SubsOf, a), a, S)
  /\ UNCHANGED IdentityOf

AddSub(a, sub) ==
  /\ IdentityOf[a] # None
  /\ SuperOf[sub] = None
  /\ Cardinality(Listed(SubsOf, a)) < MaxSubAccounts
  /\ SubsOf' = [SubsOf EXCEPT ![a] = Listed(SubsOf, a) \cup {sub}]
  /\ SuperOf' = [SuperOf EXCEPT ![sub] = a]
  /\ UNCHANGED IdentityOf

\* remove_sub by the super, quit_sub by the sub; an emptied list stays in the map.
Leave(sub) ==
  /\ SubsOf' = [SubsOf EXCEPT ![SuperOf[sub]] = Listed(SubsOf, SuperOf[sub]) \ {sub}]
  /\ SuperOf' = [SuperOf EXCEPT ![sub] = None]
  /\ UNCHANGED IdentityOf
RemoveSub(a, sub) == IdentityOf[a] # None /\ SuperOf[sub] = a /\ Leave(sub)
QuitSub(sub) == SuperOf[sub] # None /\ Leave(sub)

AccountCall ==
  \/ \E a \in Owners :
       \/ ClearIdentity(a)
       \/ \E info \in Infos : SetIdentity(a, info)
       \/ \E S \in SUBSET Subs : SetSubs(a, S)
       \/ \E sub \in Subs : AddSub(a, sub) \/ RemoveSub(a, sub)
  \/ \E sub \in Subs : QuitSub(sub)

-----------------------------------------------------------------------------
(* Forced calls, with lists of accounts in the order they are given.       *)

ForceInsertIdentities(registrations) ==
  /\ IdentityOf' = [a \in Owners |-> IF registrations[a] # None THEN registrations[a] ELSE IdentityOf[a]]
  /\ UNCHANGED <<SubsOf, SuperOf>>

\* The subs of the accounts become none, and so do their entries of SuperOf, whoever
\* their super is now.
ForceRemoveIdentities(removed) ==
  LET subs == UNION {Listed(SubsOf, a) : a \in removed} IN
  /\ IdentityOf' = [a \in Owners |-> IF a \in removed THEN None ELSE IdentityOf[a]]
  /\ SubsOf' = [a \in Owners |-> IF a \in removed THEN None ELSE SubsOf[a]]
  /\ SuperOf' = [s \in Subs |-> IF s \in subs THEN None ELSE SuperOf[s]]

\* Account after account, each given once: its old subs lose their super, its new ones
\* get it.  The last account in the order that touches a sub decides about its super.
GivesOnly(subs, a, s) == subs[a] # None /\ s \in subs[a]
Touches(subs, a, s) == subs[a] # None /\ s \in subs[a] \cup Listed(SubsOf, a)
ForceSetSubs(order, subs) ==
  LET touching(s) == {i \in DOMAIN order : Touches(subs, order[i], s)}
      last(s) == order[Max(touching(s))]
  IN
  /\ SubsOf' = [a \in Owners |-> IF subs[a] # None THEN EntryOf(subs[a]) ELSE SubsOf[a]]
  /\ SuperOf' = [s \in Subs |-> IF touching(s) = {} THEN SuperOf[s]
                                ELSE IF s \in subs[last(s)] THEN last(s) ELSE None]
  /\ UNCHANGED IdentityOf

\* What the pallet tells about an account: the subs in its list that have a super.
SubsKnown(a) == {s \in Listed(SubsOf, a) : SuperOf[s] # None}

-----------------------------------------------------------------------------
\* The super of a sub-identity lists it, so that remove_sub, quit_sub and the next
\* force_set_subs find it; through forced calls too, which move subs between lists
\* without looking at who listed them before.
SupersListed == \A s \in Subs : SuperOf[s] # None => s \in Listed(SubsOf, SuperOf[s])
=============================================================================
