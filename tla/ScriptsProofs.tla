---------------------------- MODULE ScriptsProofs ---------------------------
(***************************************************************************)
(* Proofs about the programs outside the chain: the synchronisation of     *)
(* identities, for every set of accounts, every order of their lists and   *)
(* every prefix; and the transaction layer of the client library, over any *)
(* runtime, under any program, with any number of forks and losses.        *)
(***************************************************************************)
EXTENDS IdentitySync, Client, SumTheorems, TLAPS

USE SMTT(15), ZenonT(10)

-----------------------------------------------------------------------------
(* Sub-identities, here and on the relay chain: who has a super is listed  *)
(* by it.                                                                  *)

LocalNames == SuperOf \in [Subs -> Owners \cup {None}] /\ SupersListed
RelayNames ==
  /\ relaySuperOf \in [Subs -> Owners \cup {None}]
  /\ relaySubsOf \in [Owners -> (SUBSET Subs) \cup {None}]
  /\ Relay!SupersListed

\* The accounts that touch a sub have a last one in the order.
LEMMA LastTouching ==
  ASSUME NEW T \in SUBSET DOMAIN Order, T # {}
  PROVE  Max(T) \in T /\ Order[Max(T)] \in Owners
<1>1. DOMAIN Order = 1..Len(Order) /\ Len(Order) \in Nat
  BY SyncAssumption
<1>2. IsFiniteSet(T) /\ T \in SUBSET Nat
  <2>1. IsFiniteSet(1..Len(Order)) /\ 1..Len(Order) \in SUBSET Nat
    BY <1>1, FS_Interval
  <2>2. T \in SUBSET (1..Len(Order))
    BY <1>1, Zenon
  <2> QED BY <2>1, <2>2, FS_Subset, Zenon
<1>3. \E m \in T : \A n \in T : n <= m
  BY <1>2, GreatestNatural, Zenon
<1>4. \E m \in T : \A n \in T : m >= n
  BY <1>2, <1>3, Zenon
<1>5. Max(T) \in T
  BY <1>4, Zenon DEF Max
<1> QED BY <1>5, SyncAssumption, Zenon

\* force_set_subs keeps the super of a sub listed, whatever lists it is given.
LEMMA SetSubsKeepsNames ==
  ASSUME LocalNames, NEW subs, ForceSetSubs(Order, subs) PROVE LocalNames'
<1> DEFINE touching(s) == {i \in DOMAIN Order : Touches(subs, Order[i], s)}
           last(s) == Order[Max(touching(s))]
<1>1. /\ SubsOf' = [a \in Owners |-> IF subs[a] # None THEN EntryOf(subs[a]) ELSE SubsOf[a]]
      /\ SuperOf' = [s \in Subs |-> IF touching(s) = {} THEN SuperOf[s]
                                    ELSE IF s \in subs[last(s)] THEN last(s) ELSE None]
  BY Zenon DEF ForceSetSubs
<1>2. ASSUME NEW s \in Subs, touching(s) # {}
      PROVE  last(s) \in Owners /\ Touches(subs, last(s), s)
  <2>1. Max(touching(s)) \in touching(s) /\ last(s) \in Owners
    BY <1>2, LastTouching, Zenon
  <2> QED BY <2>1, Zenon
<1>3. \A s \in Subs : \A a \in Owners : touching(s) = {} => ~Touches(subs, a, s)
  BY SyncAssumption, Zenon
<1> HIDE DEF touching, last
<1>4. SuperOf' \in [Subs -> Owners \cup {None}]
  BY <1>1, <1>2, Zenon DEF LocalNames
<1>5. ASSUME NEW s \in Subs, SuperOf'[s] # None PROVE s \in Listed(SubsOf', SuperOf'[s])
  <2>1. CASE touching(s) = {}
    <3>1. SuperOf'[s] = SuperOf[s] /\ SuperOf[s] \in Owners
      BY <1>1, <1>5, <2>1, Zenon DEF LocalNames
    <3>2. s \in Listed(SubsOf, SuperOf[s])
      BY <1>5, <3>1, Zenon DEF LocalNames, SupersListed
    <3>3. subs[SuperOf[s]] = None
      BY <1>3, <2>1, <3>1, <3>2, Zenon DEF Touches
    <3> QED BY <1>1, <3>1, <3>2, <3>3 DEF Listed
  <2>2. CASE touching(s) # {}
    <3>1. SuperOf'[s] = last(s) /\ s \in subs[last(s)] /\ last(s) \in Owners
      BY <1>1, <1>2, <1>5, <2>2, Zenon
    <3>2. subs[last(s)] # None
      BY <1>2, <2>2, Zenon DEF Touches
    <3>3. SubsOf'[last(s)] = subs[last(s)]
      BY <1>1, <3>1, <3>2, Zenon DEF EntryOf
    <3> QED BY <3>1, <3>2, <3>3, Zenon DEF Listed
  <2> QED BY <2>1, <2>2, Zenon
<1> QED BY <1>4, <1>5, Zenon DEF LocalNames, SupersListed, Listed

\* So does force_remove_identities.
LEMMA RemoveKeepsNames ==
  ASSUME LocalNames, NEW r \in Owners, ForceRemoveIdentities({r}) PROVE LocalNames'
<1>1. /\ SubsOf' = [a \in Owners |-> IF a \in {r} THEN None ELSE SubsOf[a]]
      /\ SuperOf' = [s \in Subs |-> IF s \in Listed(SubsOf, r) THEN None ELSE SuperOf[s]]
  BY Zenon DEF ForceRemoveIdentities
<1>2. SuperOf' \in [Subs -> Owners \cup {None}]
  BY <1>1, Zenon DEF LocalNames
<1>3. ASSUME NEW s \in Subs, SuperOf'[s] # None PROVE s \in Listed(SubsOf', SuperOf'[s])
  <2>1. SuperOf'[s] = SuperOf[s] /\ SuperOf[s] \in Owners /\ s \notin Listed(SubsOf, r)
    BY <1>1, <1>3, Zenon DEF LocalNames
  <2>2. s \in Listed(SubsOf, SuperOf[s])
    BY <1>3, <2>1, Zenon DEF LocalNames, SupersListed
  <2>3. SuperOf[s] # r
    BY <2>1, <2>2, Zenon
  <2> QED BY <1>1, <2>1, <2>2, <2>3, Zenon DEF Listed
<1> QED BY <1>2, <1>3, Zenon DEF LocalNames, SupersListed, Listed

\* And every call of an account of the relay chain.
LEMMA AccountsKeepNames ==
  ASSUME RelayNames, Relay!AccountCall \/ \E a \in Owners : Relay!ProvideJudgement(a, 0)
  PROVE  RelayNames'
<1> USE DEF Relay!Listed
<1>0. /\ relaySuperOf \in [Subs -> Owners \cup {None}]
      /\ relaySubsOf \in [Owners -> (SUBSET Subs) \cup {None}]
      /\ \A s \in Subs : relaySuperOf[s] # None => s \in Relay!Listed(relaySubsOf, relaySuperOf[s])
  BY Zenon DEF RelayNames, Relay!SupersListed
<1>1. ASSUME UNCHANGED <<relaySubsOf, relaySuperOf>> PROVE RelayNames'
  BY <1>0, <1>1, Zenon DEF RelayNames, Relay!SupersListed
<1>2. ASSUME NEW a \in Owners, NEW S \in SUBSET Subs,
             \A s \in S : relaySuperOf[s] \in {a, None},
             relaySubsOf' = [relaySubsOf EXCEPT ![a] = Relay!EntryOf(S)],
             relaySuperOf' = Relay!SuperReplaced(relaySuperOf, Relay!Listed(relaySubsOf, a), a, S)
      PROVE  RelayNames'
  <2>1. relaySubsOf' \in [Owners -> (SUBSET Subs) \cup {None}]
    BY <1>0, <1>2, Zenon DEF Relay!EntryOf
  <2>2. relaySuperOf' \in [Subs -> Owners \cup {None}]
    BY <1>0, <1>2, Zenon DEF Relay!SuperReplaced
  <2>3. ASSUME NEW s \in Subs, relaySuperOf'[s] # None
        PROVE  s \in Relay!Listed(relaySubsOf', relaySuperOf'[s])
    <3>1. CASE s \in S
      <4>1. relaySuperOf'[s] = a
        BY <1>2, <3>1, Zenon DEF Relay!SuperReplaced
      <4>2. relaySubsOf'[a] = S /\ S # None
        BY <1>0, <1>2, <3>1, SyncAssumption, Zenon DEF Relay!EntryOf
      <4> QED BY <3>1, <4>1, <4>2, Zenon
    <3>2. CASE s \notin S
      <4>1. relaySuperOf'[s] = relaySuperOf[s] /\ s \notin Relay!Listed(relaySubsOf, a)
        BY <1>2, <2>3, <3>2, Zenon DEF Relay!SuperReplaced
      <4>2. relaySuperOf[s] # a /\ relaySuperOf[s] \in Owners
        BY <1>0, <2>3, <4>1, Zenon
      <4> QED BY <1>0, <1>2, <2>3, <4>1, <4>2, Zenon
    <3> QED BY <3>1, <3>2, Zenon
  <2> QED BY <2>1, <2>2, <2>3, Zenon DEF RelayNames, Relay!SupersListed
<1>3. ASSUME NEW a \in Owners, Relay!ClearIdentity(a) PROVE RelayNames'
  <2>1. relaySubsOf' = [relaySubsOf EXCEPT ![a] = Relay!EntryOf({})]
    BY <1>3, Zenon DEF Relay!ClearIdentity, Relay!EntryOf
  <2>2. relaySuperOf' = Relay!SuperReplaced(relaySuperOf, Relay!Listed(relaySubsOf, a), a, {})
    BY <1>3, Zenon DEF Relay!ClearIdentity
  <2>3. {} \in SUBSET Subs /\ \A s \in {} : relaySuperOf[s] \in {a, None}
    BY Zenon
  <2> QED BY <1>2, <2>1, <2>2, <2>3, Zenon
<1>4. ASSUME NEW a \in Owners, NEW S \in SUBSET Subs, Relay!SetSubs(a, S) PROVE RelayNames'
  <2>1. /\ \A s \in S : relaySuperOf[s] \in {a, None}
        /\ relaySubsOf' = [relaySubsOf EXCEPT ![a] = Relay!EntryOf(S)]
        /\ relaySuperOf' = Relay!SuperReplaced(relaySuperOf, Relay!Listed(relaySubsOf, a), a, S)
    BY <1>4, Zenon DEF Relay!SetSubs
  <2> QED BY <1>2, <2>1, Zenon
<1>5. ASSUME NEW a \in Owners, NEW sub \in Subs, Relay!AddSub(a, sub) PROVE RelayNames'
  <2> DEFINE S == Relay!Listed(relaySubsOf, a) \cup {sub}
  <2>1. /\ relaySubsOf' = [relaySubsOf EXCEPT ![a] = S] /\ relaySuperOf' = [relaySuperOf EXCEPT ![sub] = a]
        /\ relaySuperOf[sub] = None
    BY <1>5, Zenon DEF Relay!AddSub
  <2>2. S \in SUBSET Subs /\ S # None
    BY <1>0, SyncAssumption, Zenon
  <2>3. relaySubsOf' \in [Owners -> (SUBSET Subs) \cup {None}]
        /\ relaySuperOf' \in [Subs -> Owners \cup {None}]
    BY <1>0, <2>1, <2>2, Zenon
  <2>4. ASSUME NEW s \in Subs, relaySuperOf'[s] # None
        PROVE  s \in Relay!Listed(relaySubsOf', relaySuperOf'[s])
    <3>1. CASE s = sub
      BY <1>0, <2>1, <2>2, <3>1, Zenon
    <3>2. CASE s # sub
      <4>1. relaySuperOf'[s] = relaySuperOf[s] /\ relaySuperOf[s] \in Owners
            /\ s \in Relay!Listed(relaySubsOf, relaySuperOf[s])
        BY <1>0, <2>1, <2>4, <3>2, Zenon
      <4>2. CASE relaySuperOf[s] = a
        BY <1>0, <2>1, <2>2, <4>1, <4>2, Zenon
      <4>3. CASE relaySuperOf[s] # a
        BY <1>0, <2>1, <4>1, <4>3, Zenon
      <4> QED BY <4>2, <4>3, Zenon
    <3> QED BY <3>1, <3>2, Zenon
  <2> QED BY <2>3, <2>4, Zenon DEF RelayNames, Relay!SupersListed
<1>6. ASSUME NEW sub \in Subs, relaySuperOf[sub] # None, Relay!Leave(sub) PROVE RelayNames'
  <2> DEFINE b == relaySuperOf[sub]
             S == Relay!Listed(relaySubsOf, b) \ {sub}
  <2>1. /\ relaySubsOf' = [relaySubsOf EXCEPT ![b] = S] /\ relaySuperOf' = [relaySuperOf EXCEPT ![sub] = None]
    BY <1>6, Zenon DEF Relay!Leave
  <2>2. b \in Owners /\ S \in SUBSET Subs /\ S # None
    BY <1>0, <1>6, SyncAssumption, Zenon
  <2>3. relaySubsOf' \in [Owners -> (SUBSET Subs) \cup {None}]
        /\ relaySuperOf' \in [Subs -> Owners \cup {None}]
    BY <1>0, <2>1, <2>2, Zenon
  <2>4. ASSUME NEW s \in Subs, relaySuperOf'[s] # None
        PROVE  s \in Relay!Listed(relaySubsOf', relaySuperOf'[s])
    <3>1. s # sub /\ relaySuperOf'[s] = relaySuperOf[s] /\ relaySuperOf[s] \in Owners
          /\ s \in Relay!Listed(relaySubsOf, relaySuperOf[s])
      BY <1>0, <2>1, <2>4, Zenon
    <3>2. CASE relaySuperOf[s] = b
      BY <1>0, <2>1, <2>2, <3>1, <3>2, Zenon
    <3>3. CASE relaySuperOf[s] # b
      BY <1>0, <2>1, <3>1, <3>3, Zenon
    <3> QED BY <3>2, <3>3, Zenon
  <2> QED BY <2>3, <2>4, Zenon DEF RelayNames, Relay!SupersListed
<1>7. ASSUME NEW a \in Owners, NEW info \in Infos, Relay!SetIdentity(a, info) PROVE RelayNames'
  BY <1>1, <1>7, Zenon DEF Relay!SetIdentity
<1>8. ASSUME NEW a \in Owners, Relay!ProvideJudgement(a, 0) PROVE RelayNames'
  BY <1>1, <1>8, Zenon DEF Relay!ProvideJudgement
<1>9. ASSUME NEW a \in Owners, NEW sub \in Subs, Relay!RemoveSub(a, sub) PROVE RelayNames'
  <2>1. relaySuperOf[sub] # None /\ Relay!Leave(sub)
    <3>1. relaySuperOf[sub] = a /\ Relay!Leave(sub) /\ relayIdentityOf[a] # None
      BY <1>9, Zenon DEF Relay!RemoveSub
    <3> QED BY <3>1, SyncAssumption, Zenon
  <2> QED BY <1>6, <2>1, Zenon
<1>10. ASSUME NEW sub \in Subs, Relay!QuitSub(sub) PROVE RelayNames'
  BY <1>6, <1>10, Zenon DEF Relay!QuitSub
<1> QED BY <1>3, <1>4, <1>5, <1>7, <1>8, <1>9, <1>10, Zenon DEF Relay!AccountCall

\* Who has a super is listed by it, on this chain and on the relay chain.
THEOREM SupersStayListed == SyncSpec => [](SupersListed /\ Relay!SupersListed)
<1>1. SyncInit => LocalNames /\ RelayNames
  <2> SUFFICES ASSUME SyncInit PROVE LocalNames /\ RelayNames
    BY Zenon
  <2>1. LocalNames
    BY Zenon DEF SyncInit, IdentityInit, LocalNames, SupersListed
  <2>2. /\ relaySuperOf \in [Subs -> Owners \cup {None}]
        /\ relaySubsOf = [a \in Owners |-> EntryOf({s \in Subs : relaySuperOf[s] = a})]
    BY Zenon DEF SyncInit
  <2>3. relaySubsOf \in [Owners -> (SUBSET Subs) \cup {None}]
    BY <2>2, Zenon DEF EntryOf
  <2>4. ASSUME NEW s \in Subs, relaySuperOf[s] # None
        PROVE  s \in Relay!Listed(relaySubsOf, relaySuperOf[s])
    <3> DEFINE S == {t \in Subs : relaySuperOf[t] = relaySuperOf[s]}
    <3>1. relaySuperOf[s] \in Owners /\ s \in S /\ S # None
      BY <2>2, <2>4, SyncAssumption, Zenon
    <3>2. relaySubsOf[relaySuperOf[s]] = S
      BY <2>2, <3>1, Zenon DEF EntryOf
    <3> QED BY <3>1, <3>2, Zenon DEF Relay!Listed
  <2> QED BY <2>1, <2>2, <2>3, <2>4, Zenon DEF RelayNames, Relay!SupersListed
<1>2. ASSUME LocalNames, [SyncNext]_syncVars PROVE LocalNames'
  <2>1. ASSUME UNCHANGED <<SubsOf, SuperOf>> PROVE LocalNames'
    BY <1>2, <2>1, Zenon DEF LocalNames, SupersListed, Listed
  <2>2. CASE SyncScript
    BY <2>1, <2>2, Zenon DEF SyncScript, ReadIdentities, ReadSupers, ReadSubs, PushIdentities, ReadParaSubs,
       PushSubs, ScriptFails, idVars
  <2>3. ASSUME NEW p \in noted, Enact(p) PROVE LocalNames'
    <3>1. ForceInsertIdentities(p.args) \/ ForceSetSubs(Order, p.args)
      BY <2>3, Zenon DEF Enact
    <3>2. ForceInsertIdentities(p.args) => UNCHANGED <<SubsOf, SuperOf>>
      BY Zenon DEF ForceInsertIdentities
    <3> QED BY <1>2, <2>1, <3>1, <3>2, SetSubsKeepsNames, Zenon
  <2>4. CASE RelayChanges
    BY <2>1, <2>4, Zenon DEF RelayChanges, idVars
  <2>5. CASE RootChanges
    <3>1. ASSUME NEW x, ForceInsertIdentities(x) PROVE LocalNames'
      BY <2>1, <3>1, Zenon DEF ForceInsertIdentities
    <3> QED BY <1>2, <2>5, <3>1, RemoveKeepsNames, Zenon DEF RootChanges
  <2>6. CASE UNCHANGED syncVars
    BY <2>1, <2>6, Zenon DEF syncVars, idVars
  <2> QED BY <1>2, <2>2, <2>3, <2>4, <2>5, <2>6, Zenon DEF SyncNext
<1>3. ASSUME RelayNames, [SyncNext]_syncVars PROVE RelayNames'
  <2>1. ASSUME UNCHANGED relayVars PROVE RelayNames'
    BY <1>3, <2>1, Zenon DEF RelayNames, Relay!SupersListed, Relay!Listed, relayVars
  <2>2. CASE SyncScript
    BY <2>1, <2>2, Zenon DEF SyncScript, ReadIdentities, ReadSupers, ReadSubs, PushIdentities, ReadParaSubs,
       PushSubs, ScriptFails
  <2>3. ASSUME NEW p \in noted, Enact(p) PROVE RelayNames'
    BY <2>1, <2>3, Zenon DEF Enact
  <2>4. CASE RelayChanges
    BY <1>3, <2>4, AccountsKeepNames, Zenon DEF RelayChanges
  <2>5. CASE RootChanges
    BY <2>1, <2>5, Zenon DEF RootChanges
  <2>6. CASE UNCHANGED syncVars
    BY <2>1, <2>6, Zenon DEF syncVars
  <2> QED BY <1>3, <2>2, <2>3, <2>4, <2>5, <2>6, Zenon DEF SyncNext
<1>4. LocalNames /\ RelayNames => SupersListed /\ Relay!SupersListed
  BY Zenon DEF LocalNames, RelayNames
<1>5. LocalNames /\ RelayNames /\ [SyncNext]_syncVars => (LocalNames /\ RelayNames)'
  BY <1>2, <1>3, Zenon
<1> QED BY <1>1, <1>4, <1>5, PTL DEF SyncSpec

-----------------------------------------------------------------------------
(* Identities.  What makes a round reliable is what holds from its first   *)
(* query on while nothing but its own preimages is enacted: the data read  *)
(* stays the relay chain's, at most one insertion waits and it is made of  *)
(* that data, and every judged identity is here or in it.                  *)

IsInsert(p) == p.call = "forceInsertIdentities"
Same(a) == IdentityOf[a] # None /\ IdentityOf[a].info = relayIdentityOf[a].info
FreshRead(a) == IF Good(a) THEN Registration(relayIdentityOf[a].info, RelayPrefix) ELSE None

FreshData ==
  /\ stage \in {"supers", "subs", "compare"} =>
       noted = {} /\ \A a \in Owners : identitiesOnRelay[a] = FreshRead(a)
  /\ \A p, q \in noted : IsInsert(p) /\ IsInsert(q) => p = q
  /\ \A p \in noted : IsInsert(p) =>
       \A a \in Owners : p.args[a] # None => p.args[a] = FreshRead(a)
  /\ stage \in {"paraSubs", "push", "start"} =>
       \A a \in Owners : Good(a) =>
         \/ Superior(a) \/ Same(a)
         \/ \E p \in noted : IsInsert(p) /\ p.args[a] # None

RelayTyped ==
  relayIdentityOf \in [Owners -> {None} \cup [info : Infos, registrar : Nat \cup {None}]]

RoundInv ==
  /\ rounds \in Nat
  /\ rounds >= 1 => undisturbed /\ \A a \in Owners : Good(a) /\ ~Superior(a) => Same(a)
  /\ undisturbed => FreshData

\* Steps that leave both chains and the preimages alone.
LEMMA RoundReads ==
  ASSUME RoundInv, ReadSupers \/ ReadSubs \/ ReadParaSubs \/ UNCHANGED syncVars
  PROVE  RoundInv'
<1>1. /\ UNCHANGED <<IdentityOf, relayIdentityOf, noted, undisturbed, rounds, identitiesOnRelay>>
      /\ stage' \in {"supers", "subs", "compare"} => stage \in {"supers", "subs", "compare"}
      /\ stage' \in {"paraSubs", "push", "start"} => stage \in {"paraSubs", "push", "start"}
  BY Zenon DEF ReadSupers, ReadSubs, ReadParaSubs, syncVars, idVars, relayVars, readVars
<1>2. FreshData => FreshData'
  BY <1>1, Zenon DEF FreshData, FreshRead, Same, Superior, Good, IsInsert, Registration
<1> QED BY <1>1, <1>2, Zenon DEF RoundInv, Same, Superior, Good

\* A disturbed round counts for nothing.
LEMMA RoundDisturbed ==
  ASSUME undisturbed' = FALSE, rounds' = 0 PROVE RoundInv'
BY DEF RoundInv

LEMMA RoundStarts == ASSUME RoundInv, ReadIdentities PROVE RoundInv'
<1>1. CASE noted # {}
  BY <1>1, RoundDisturbed, Zenon DEF ReadIdentities
<1>2. CASE noted = {}
  <2>1. /\ UNCHANGED <<IdentityOf, relayIdentityOf, noted, rounds>> /\ undisturbed' = TRUE
        /\ stage' = "supers"
        /\ \A a \in Owners : identitiesOnRelay'[a] = FreshRead(a)
    BY <1>2, Zenon DEF ReadIdentities, FreshRead, Good, idVars, relayVars
  <2>2. FreshData'
    BY <1>2, <2>1, Zenon DEF FreshData, FreshRead, Good, Registration
  <2> QED BY <2>1, <2>2, Zenon DEF RoundInv, Same, Superior, Good
<1> QED BY <1>1, <1>2, Zenon

\* The insertion is noted, or there is nothing to insert.
LEMMA RoundPushes == ASSUME RoundInv, RelayTyped, PushIdentities PROVE RoundInv'
<1> DEFINE toAdd == [a \in Owners |-> IF IdentityChanged(a) THEN identitiesOnRelay[a] ELSE None]
<1>1. CASE undisturbed' = FALSE /\ rounds' = 0
  BY <1>1, RoundDisturbed, Zenon
<1>2. CASE ~undisturbed /\ UNCHANGED <<undisturbed, rounds>>
  BY <1>2, Zenon DEF RoundInv
<1>3. CASE undisturbed /\ UNCHANGED <<undisturbed, rounds>>
  <2>1. /\ UNCHANGED <<IdentityOf, relayIdentityOf>> /\ stage = "compare" /\ stage' = "paraSubs"
        /\ IF toAdd = Nothing THEN noted' = noted
           ELSE noted' = noted \cup {InsertCall(toAdd)} \/ undisturbed' = FALSE
    BY Zenon DEF PushIdentities, Upload, idVars, relayVars
  <2>2. noted = {} /\ \A a \in Owners : identitiesOnRelay[a] = FreshRead(a)
    BY <1>3, <2>1, Zenon DEF RoundInv, FreshData
  <2>3. \A a \in Owners : toAdd[a] # None => toAdd[a] = FreshRead(a)
    BY <2>2, Zenon
  <2>4. ASSUME NEW a \in Owners, Good(a) PROVE Superior(a) \/ Same(a) \/ toAdd[a] # None
    <3>1. CASE FreshRead(a) = None
      <4>1. relayIdentityOf[a].info \in Infos
        BY <2>4, Zenon DEF RelayTyped, Good
      <4> QED BY <2>4, <3>1, <4>1, SyncAssumption, Zenon DEF FreshRead
    <3>2. CASE FreshRead(a) # None
      <4>1. identitiesOnRelay[a] = FreshRead(a) /\ FreshRead(a).info = relayIdentityOf[a].info
        BY <2>2, <2>4, Zenon DEF FreshRead, Registration
      <4>2. CASE IdentityChanged(a)
        BY <3>2, <4>1, <4>2, Zenon
      <4>3. CASE ~IdentityChanged(a)
        BY <3>2, <4>1, <4>3, Zenon DEF IdentityChanged, IsCurrentChainDataPriority, Superior, Same
      <4> QED BY <4>2, <4>3, Zenon
    <3> QED BY <3>1, <3>2, Zenon
  <2>5. FreshData'
    <3>1. CASE toAdd = Nothing
      <4>1. \A a \in Owners : toAdd[a] = None
        BY <3>1, Zenon DEF Nothing
      <4>2. noted' = {}
        BY <2>1, <2>2, <3>1, Zenon
      <4>3. \A a \in Owners : Good(a) => Superior(a) \/ Same(a)
        BY <2>4, <4>1, Zenon
      <4> QED BY <2>1, <4>2, <4>3, Zenon DEF FreshData, Same, Superior, Good
    <3>2. CASE toAdd # Nothing
      <4>1. noted' = {InsertCall(toAdd)}
        BY <1>3, <2>1, <2>2, <3>2, Zenon
      <4>2. InsertCall(toAdd).args = toAdd /\ IsInsert(InsertCall(toAdd))
        BY Zenon DEF InsertCall, IsInsert
      <4> HIDE DEF toAdd
      <4>3. \A a \in Owners : FreshRead(a)' = FreshRead(a)
        BY <2>1, Zenon DEF FreshRead, Good
      <4>4. \A p, q \in noted' : IsInsert(p) /\ IsInsert(q) => p = q
        BY <4>1, Zenon
      <4>5. \A p \in noted' : IsInsert(p) =>
              \A a \in Owners : p.args[a] # None => p.args[a] = FreshRead(a)'
        BY <2>3, <4>1, <4>2, <4>3, Zenon
      <4>6. \A a \in Owners : Good(a)' =>
              \/ Superior(a)' \/ Same(a)'
              \/ \E p \in noted' : IsInsert(p) /\ p.args[a] # None
        <5>1. \A a \in Owners : Good(a)' = Good(a) /\ Superior(a)' = Superior(a) /\ Same(a)' = Same(a)
          BY <2>1, Zenon DEF Good, Superior, Same
        <5> QED BY <2>4, <4>1, <4>2, <5>1, Zenon
      <4> QED BY <2>1, <4>4, <4>5, <4>6, Zenon DEF FreshData, IsInsert
    <3> QED BY <3>1, <3>2, Zenon
  <2> QED BY <1>3, <2>1, <2>5, Zenon DEF RoundInv, Same, Superior, Good
<1> QED BY <1>1, <1>2, <1>3, Zenon DEF PushIdentities, Upload

\* The subs are noted, or the script is through.
LEMMA RoundEnds == ASSUME RoundInv, PushSubs PROVE RoundInv'
<1>1. CASE undisturbed' = FALSE /\ rounds' = 0
  BY <1>1, RoundDisturbed, Zenon
<1>2. CASE undisturbed' = undisturbed /\ ~(undisturbed' = FALSE /\ rounds' = 0)
  <2>1. /\ UNCHANGED <<IdentityOf, relayIdentityOf>> /\ stage = "push" /\ stage' = "start"
        /\ noted' = noted \/ \E subs : noted' = noted \cup {SubsCall(subs)}
        /\ rounds' = rounds \/ (noted = {} /\ undisturbed /\ rounds' = rounds + 1)
    BY <1>2, Zenon DEF PushSubs, Upload, CountRound, idVars, relayVars
  <2>2. \A subs : ~IsInsert(SubsCall(subs))
    BY Zenon DEF IsInsert, SubsCall
  <2>3. \A p : IsInsert(p) => (p \in noted' <=> p \in noted)
    BY <2>1, <2>2
  <2>4. \A a : Good(a)' = Good(a) /\ Superior(a)' = Superior(a) /\ Same(a)' = Same(a)
               /\ FreshRead(a)' = FreshRead(a)
    BY <2>1, Zenon DEF Good, Superior, Same, FreshRead
  <2>5. FreshData => FreshData'
    <3> SUFFICES ASSUME FreshData PROVE FreshData'
      BY Zenon
    <3>1. /\ \A p, q \in noted : IsInsert(p) /\ IsInsert(q) => p = q
          /\ \A p \in noted : IsInsert(p) =>
               \A a \in Owners : p.args[a] # None => p.args[a] = FreshRead(a)
          /\ \A a \in Owners : Good(a) =>
               \/ Superior(a) \/ Same(a)
               \/ \E p \in noted : IsInsert(p) /\ p.args[a] # None
      BY <2>1, Zenon DEF FreshData
    <3>2. /\ \A p, q \in noted' : IsInsert(p) /\ IsInsert(q) => p = q
          /\ \A p \in noted' : IsInsert(p) =>
               \A a \in Owners : p.args[a] # None => p.args[a] = FreshRead(a)'
          /\ \A a \in Owners : Good(a)' =>
               \/ Superior(a)' \/ Same(a)'
               \/ \E p \in noted' : IsInsert(p) /\ p.args[a] # None
      BY <2>3, <2>4, <3>1, Zenon
    <3> QED BY <2>1, <3>2, Zenon DEF FreshData, IsInsert
  <2>6. noted = {} /\ undisturbed => \A a \in Owners : Good(a) /\ ~Superior(a) => Same(a)
    BY <2>1, Zenon DEF RoundInv, FreshData
  <2> QED BY <1>2, <2>1, <2>4, <2>5, <2>6 DEF RoundInv
<1> QED BY <1>1, <1>2, Zenon DEF PushSubs, Upload

\* A preimage is enacted.
LEMMA RoundEnacts == ASSUME RoundInv, NEW p \in noted, Enact(p) PROVE RoundInv'
<1>1. CASE ~undisturbed
  BY <1>1, Zenon DEF RoundInv, Enact, CountRound
<1>2. CASE undisturbed
  <2>0. FreshData /\ undisturbed' /\ rounds \in Nat
    BY <1>2, Zenon DEF RoundInv, Enact
  <2>1. /\ relayIdentityOf' = relayIdentityOf /\ stage' = stage /\ noted' = noted \ {p}
        /\ identitiesOnRelay' = identitiesOnRelay
        /\ rounds' = rounds \/ (stage = "start" /\ noted' = {} /\ rounds' = rounds + 1)
    BY Zenon DEF Enact, CountRound, relayVars, readVars
  <2>2. \/ /\ IsInsert(p)
           /\ IdentityOf' = [a \in Owners |-> IF p.args[a] # None THEN p.args[a] ELSE IdentityOf[a]]
        \/ ~IsInsert(p) /\ IdentityOf' = IdentityOf
    BY Zenon DEF Enact, ForceInsertIdentities, ForceSetSubs, IsInsert
  <2>3. ~(stage \in {"supers", "subs", "compare"})
    BY <2>0, Zenon DEF FreshData
  <2>4. \A a : Good(a)' = Good(a) /\ FreshRead(a)' = FreshRead(a)
    BY <2>1, Zenon DEF Good, FreshRead
  <2>5. ASSUME NEW a \in Owners, IsInsert(p), p.args[a] # None PROVE Same(a)'
    <3>1. p.args[a] = FreshRead(a)
      BY <2>0, <2>5, Zenon DEF FreshData
    <3>2. FreshRead(a).info = relayIdentityOf[a].info
      BY <2>5, <3>1, Zenon DEF FreshRead, Registration
    <3> QED BY <2>1, <2>2, <2>5, <3>1, <3>2, Zenon DEF Same
  <2>6. ASSUME NEW a \in Owners, ~(IsInsert(p) /\ p.args[a] # None)
        PROVE  Same(a)' = Same(a) /\ Superior(a)' = Superior(a)
    BY <2>1, <2>2, <2>6, Zenon DEF Same, Superior
  <2>7. ASSUME NEW a \in Owners, stage \in {"paraSubs", "push", "start"}, Good(a)
        PROVE  \/ Superior(a)' \/ Same(a)'
               \/ \E q \in noted' : IsInsert(q) /\ q.args[a] # None
    <3>1. \/ Superior(a) \/ Same(a)
          \/ \E q \in noted : IsInsert(q) /\ q.args[a] # None
      BY <2>0, <2>7, Zenon DEF FreshData
    <3> QED BY <2>1, <2>5, <2>6, <3>1, Zenon
  <2>8. FreshData'
    <3>1. /\ \A q, r \in noted' : IsInsert(q) /\ IsInsert(r) => q = r
          /\ \A q \in noted' : IsInsert(q) =>
               \A a \in Owners : q.args[a] # None => q.args[a] = FreshRead(a)'
      BY <2>0, <2>1, <2>4, Zenon DEF FreshData
    <3> QED BY <2>1, <2>3, <2>4, <2>7, <3>1, Zenon DEF FreshData, IsInsert
  <2>9. rounds' >= 1 => \A a \in Owners : Good(a)' /\ ~Superior(a)' => Same(a)'
    <3>1. CASE rounds >= 1
      <4>1. \A a \in Owners : Good(a) /\ ~Superior(a) => Same(a)
        BY <3>1, Zenon DEF RoundInv
      <4> QED BY <2>4, <2>5, <2>6, <4>1, Zenon
    <3>2. CASE stage = "start" /\ noted' = {}
      BY <2>4, <2>7, <3>2, Zenon
    <3> QED BY <2>0, <2>1, <3>1, <3>2, Zenon
  <2> QED BY <2>0, <2>1, <2>8, <2>9 DEF RoundInv
<1> QED BY <1>1, <1>2, Zenon

\* The relay chain's identities stay registrations.
LEMMA RelayStaysTyped == ASSUME RelayTyped, [SyncNext]_syncVars PROVE RelayTyped'
<1>1. ASSUME UNCHANGED relayIdentityOf PROVE RelayTyped'
  BY <1>1, Zenon DEF RelayTyped
<1>2. CASE RelayChanges
  <2>1. ASSUME NEW a \in Owners, NEW info \in Infos, Relay!SetIdentity(a, info) PROVE RelayTyped'
    BY <2>1, Zenon DEF RelayTyped, Relay!SetIdentity, Relay!Registration
  <2>2. ASSUME NEW a \in Owners, Relay!ProvideJudgement(a, 0) PROVE RelayTyped'
    BY <2>2, Zenon DEF RelayTyped, Relay!ProvideJudgement
  <2>3. ASSUME NEW a \in Owners, Relay!ClearIdentity(a) PROVE RelayTyped'
    BY <2>3, Zenon DEF RelayTyped, Relay!ClearIdentity
  <2>4. ASSUME NEW sub, Relay!Leave(sub) PROVE RelayTyped'
    BY <1>1, <2>4, Zenon DEF Relay!Leave
  <2>5. ASSUME NEW a \in Owners, NEW S, Relay!SetSubs(a, S) \/ Relay!AddSub(a, S) PROVE RelayTyped'
    BY <1>1, <2>5, Zenon DEF Relay!SetSubs, Relay!AddSub
  <2> QED BY <1>2, <2>1, <2>2, <2>3, <2>4, <2>5, Zenon DEF RelayChanges, Relay!AccountCall,
             Relay!RemoveSub, Relay!QuitSub
<1>3. CASE SyncScript
  BY <1>1, <1>3, Zenon DEF SyncScript, ReadIdentities, ReadSupers, ReadSubs, PushIdentities, ReadParaSubs,
     PushSubs, ScriptFails, relayVars
<1>4. ASSUME NEW p \in noted, Enact(p) PROVE RelayTyped'
  BY <1>1, <1>4, Zenon DEF Enact, relayVars
<1>5. CASE RootChanges
  BY <1>1, <1>5, Zenon DEF RootChanges, relayVars
<1>6. CASE UNCHANGED syncVars
  BY <1>1, <1>6, Zenon DEF syncVars, relayVars
<1> QED BY <1>2, <1>3, <1>4, <1>5, <1>6, Zenon DEF SyncNext

LEMMA RoundNext == ASSUME RoundInv, RelayTyped, [SyncNext]_syncVars PROVE RoundInv'
<1>1. CASE RelayChanges \/ RootChanges \/ ScriptFails
  BY <1>1, RoundDisturbed, Zenon DEF RelayChanges, RootChanges, ScriptFails, Disturb
<1>2. CASE ReadSupers \/ ReadSubs \/ ReadParaSubs \/ UNCHANGED syncVars
  BY <1>2, RoundReads, Zenon
<1> QED BY <1>1, <1>2, RoundStarts, RoundPushes, RoundEnds, RoundEnacts, Zenon DEF SyncNext, SyncScript

LEMMA RoundInit == SyncInit => RoundInv /\ RelayTyped
<1> SUFFICES ASSUME SyncInit PROVE RoundInv /\ RelayTyped
  BY Zenon
<1>1. RoundInv
  BY DEF SyncInit, RoundInv
<1>2. relayIdentityOf \in [Owners -> {None} \cup {Registration(i, 0) : i \in Infos}]
  BY Zenon DEF SyncInit
<1>3. {Registration(i, 0) : i \in Infos} \subseteq [info : Infos, registrar : Nat \cup {None}]
  BY DEF Registration
<1> QED BY <1>1, <1>2, <1>3, Zenon DEF RelayTyped

\* After one undisturbed round every judged identity of the relay chain is here, unless
\* this chain has more important data.
THEOREM IdentitiesFollow == SyncSpec => []IdentitiesFollowed
<1>1. RoundInv /\ RelayTyped => IdentitiesFollowed
  BY Zenon DEF RoundInv, IdentitiesFollowed, Same
<1>2. RoundInv /\ RelayTyped /\ [SyncNext]_syncVars => (RoundInv /\ RelayTyped)'
  BY RoundNext, RelayStaysTyped, Zenon
<1> QED BY <1>1, <1>2, RoundInit, PTL DEF SyncSpec

-----------------------------------------------------------------------------
(* This chain's own identities.                                            *)

Local(a) == IdentityOf[a] # None /\ IdentityOf[a].registrar = LocalPrefix
LocalKept ==
  undisturbed => \A p \in noted : IsInsert(p) => \A a \in Owners : p.args[a] # None => ~Local(a)

\* With a prefix that toHuman writes as a number, no preimage made since nothing else
\* changed replaces an identity of this chain.
LEMMA LocalNext ==
  ASSUME LocalPrefix < 1000, RoundInv, LocalKept, [SyncNext]_syncVars PROVE LocalKept'
<1>1. CASE undisturbed' = FALSE
  BY <1>1, Zenon DEF LocalKept
<1>2. ASSUME UNCHANGED <<IdentityOf, undisturbed>>, \A p \in noted' : IsInsert(p) => p \in noted
      PROVE  LocalKept'
  BY <1>2, Zenon DEF LocalKept, Local, IsInsert
<1>3. CASE ReadIdentities
  BY <1>3, Zenon DEF ReadIdentities, LocalKept
<1>4. CASE ReadSupers \/ ReadSubs \/ ReadParaSubs \/ UNCHANGED syncVars
  BY <1>2, <1>4, Zenon DEF ReadSupers, ReadSubs, ReadParaSubs, syncVars, idVars
<1>5. CASE RelayChanges \/ RootChanges \/ ScriptFails
  BY <1>1, <1>5, Zenon DEF RelayChanges, RootChanges, ScriptFails, Disturb
<1>6. CASE PushSubs
  <2>1. \A subs : ~IsInsert(SubsCall(subs))
    BY Zenon DEF IsInsert, SubsCall
  <2>2. CASE UNCHANGED <<IdentityOf, undisturbed>> /\ noted' = noted
    BY <1>2, <2>2, Zenon
  <2>3. ASSUME NEW subs, UNCHANGED <<IdentityOf, undisturbed>>, noted' = noted \cup {SubsCall(subs)}
        PROVE  LocalKept'
    BY <1>2, <2>1, <2>3, Zenon
  <2> QED BY <1>1, <1>6, <2>2, <2>3, Zenon DEF PushSubs, Upload, idVars
<1>7. CASE PushIdentities
  <2> DEFINE toAdd == [a \in Owners |-> IF IdentityChanged(a) THEN identitiesOnRelay[a] ELSE None]
  <2>1. CASE UNCHANGED <<IdentityOf, undisturbed>> /\ noted' = noted
    BY <1>2, <2>1, Zenon
  <2>2. CASE UNCHANGED <<IdentityOf, undisturbed>> /\ noted' = noted \cup {InsertCall(toAdd)}
    <3>1. CASE ~undisturbed
      BY <2>2, <3>1, Zenon DEF LocalKept
    <3>2. CASE undisturbed
      <4>1. noted' = {InsertCall(toAdd)}
        BY <1>7, <2>2, <3>2, Zenon DEF RoundInv, FreshData, PushIdentities
      <4>2. InsertCall(toAdd).args = toAdd
        BY Zenon DEF InsertCall
      <4>3. ASSUME NEW a \in Owners, toAdd[a] # None PROVE ~Local(a)
        BY <4>3, SyncAssumption DEF IdentityChanged, IsCurrentChainDataPriority, IsNumeral, Local
      <4> HIDE DEF toAdd
      <4>4. \A p \in noted' : \A a \in Owners : p.args[a] # None => ~Local(a)
        BY <4>1, <4>2, <4>3, Zenon
      <4> QED BY <2>2, <4>4, Zenon DEF LocalKept, Local
    <3> QED BY <3>1, <3>2, Zenon
  <2> QED BY <1>1, <1>7, <2>1, <2>2, Zenon DEF PushIdentities, Upload, idVars
<1>8. ASSUME NEW p \in noted, Enact(p) PROVE LocalKept'
  <2>1. undisturbed' = undisturbed /\ noted' = noted \ {p}
    BY <1>8, Zenon DEF Enact
  <2>2. CASE IdentityOf' = IdentityOf
    BY <1>2, <2>1, <2>2, Zenon
  <2>3. CASE IsInsert(p) /\ undisturbed
    <3>1. \A q \in noted' : ~IsInsert(q)
      BY <2>1, <2>3, Zenon DEF RoundInv, FreshData
    <3> QED BY <3>1, Zenon DEF LocalKept, IsInsert
  <2>4. IsInsert(p) \/ IdentityOf' = IdentityOf
    BY <1>8, Zenon DEF Enact, ForceSetSubs, IsInsert
  <2> QED BY <1>1, <2>1, <2>2, <2>3, <2>4, Zenon DEF LocalKept
<1> QED BY <1>3, <1>4, <1>5, <1>6, <1>7, <1>8, Zenon DEF SyncNext, SyncScript

\* The script's own comment: what has come from this chain is automatically superior.
\* It holds while the prefix is below 1000, as Quartz' and Opal's are and Unique's is not.
THEOREM LocalStaysSuperior == ASSUME LocalPrefix < 1000 PROVE SyncSpec => LocalIsSuperior
<1> DEFINE Kept == \A a \in Owners :
                     undisturbed /\ undisturbed' /\ IdentityOf[a] # None
                       /\ IdentityOf[a].registrar = LocalPrefix => IdentityOf'[a] = IdentityOf[a]
           Inv == RoundInv /\ RelayTyped /\ LocalKept
<1>1. SyncInit => Inv
  BY RoundInit, Zenon DEF SyncInit, LocalKept
<1>2. ASSUME Inv, [SyncNext]_syncVars PROVE Kept
  <2>1. ASSUME UNCHANGED IdentityOf PROVE Kept
    BY <2>1, Zenon
  <2>2. CASE undisturbed' = FALSE
    BY <2>2, Zenon
  <2>3. CASE SyncScript
    BY <2>1, <2>3, Zenon DEF SyncScript, ReadIdentities, ReadSupers, ReadSubs, PushIdentities, ReadParaSubs,
       PushSubs, ScriptFails, idVars
  <2>4. CASE RelayChanges \/ RootChanges
    BY <2>2, <2>4, Zenon DEF RelayChanges, RootChanges, Disturb
  <2>5. ASSUME NEW p \in noted, Enact(p) PROVE Kept
    <3>1. \/ /\ IsInsert(p)
             /\ IdentityOf' = [a \in Owners |-> IF p.args[a] # None THEN p.args[a] ELSE IdentityOf[a]]
          \/ IdentityOf' = IdentityOf
      BY <2>5, Zenon DEF Enact, ForceInsertIdentities, ForceSetSubs, IsInsert
    <3>2. undisturbed /\ IsInsert(p) => \A a \in Owners : p.args[a] # None => ~Local(a)
      BY <1>2, Zenon DEF LocalKept
    <3> QED BY <2>1, <3>1, <3>2, Zenon DEF Local
  <2>6. CASE UNCHANGED syncVars
    BY <2>1, <2>6, Zenon DEF syncVars, idVars
  <2> HIDE DEF Kept
  <2> QED BY <1>2, <2>3, <2>4, <2>5, <2>6, Zenon DEF SyncNext
<1>3. Inv /\ [SyncNext]_syncVars => Inv'
  BY RoundNext, RelayStaysTyped, LocalNext, Zenon
<1>4. Inv /\ [SyncNext]_syncVars => [Kept]_syncVars
  BY <1>2, Zenon
<1> QED BY <1>1, <1>3, <1>4, PTL DEF SyncSpec, LocalIsSuperior

-----------------------------------------------------------------------------
(* Transactions of the client library, over any runtime and under any      *)
(* program.  The chain only adds to what is applied.  As long as no block  *)
(* was retracted and no status lost, a call in the pool is still open and  *)
(* an applied one open or resolved.                                        *)

IsBlock(b) == DOMAIN b = {"call", "ok", "nonce", "applied", "state"}
IsCall(r) == DOMAIN r = {"what", "nonce", "phase"}

\* A chain of blocks, each of which keeps what is applied before.
IsChain(s) ==
  /\ \E S : s \in Seq(S)
  /\ Len(s) >= 1
  /\ \A i \in 1..Len(s) : IsBlock(s[i])
  /\ \A i, j \in 1..Len(s) : i <= j => s[i].applied \subseteq s[j].applied

LEMMA ChainAppend ==
  ASSUME NEW s, IsChain(s), NEW b, IsBlock(b), s[Len(s)].applied \subseteq b.applied
  PROVE  /\ IsChain(Append(s, b)) /\ Append(s, b)[1] = s[1]
         /\ Append(s, b)[Len(Append(s, b))] = b
<1>1. PICK S : s \in Seq(S)
  BY DEF IsChain
<1> DEFINE T == S \cup {b}
           n == Append(s, b)
<1>2. s \in Seq(T) /\ b \in T
  BY <1>1
<1>3. n \in Seq(T) /\ Len(n) = Len(s) + 1 /\ Len(s) \in Nat
  BY <1>2
<1>4. n[Len(s) + 1] = b /\ \A i \in 1..Len(s) : n[i] = s[i]
  BY <1>2
<1> HIDE DEF T, n
<1>5. /\ Len(s) >= 1
      /\ \A i \in 1..Len(s) : IsBlock(s[i])
      /\ \A i, j \in 1..Len(s) : i <= j => s[i].applied \subseteq s[j].applied
  BY DEF IsChain
<1>6. \A i \in 1..Len(n) : IsBlock(n[i])
  <2> TAKE i \in 1..Len(n)
  <2>1. i \in 1..Len(s) \/ i = Len(s) + 1
    BY <1>3
  <2> QED BY <1>4, <1>5, <2>1
<1>7. ASSUME NEW i \in 1..Len(n), NEW j \in 1..Len(n), i <= j
      PROVE  n[i].applied \subseteq n[j].applied
  <2>1. CASE j = Len(s) + 1
    <3>1. i = Len(s) + 1 \/ (i \in 1..Len(s) /\ Len(s) \in 1..Len(s) /\ i <= Len(s))
      BY <1>3, <1>5
    <3>2. i \in 1..Len(s) => n[i].applied \subseteq s[Len(s)].applied
      BY <1>4, <1>5, <3>1
    <3> QED BY <1>4, <2>1, <3>1, <3>2
  <2>2. CASE j # Len(s) + 1
    <3>1. i \in 1..Len(s) /\ j \in 1..Len(s)
      BY <1>3, <1>7, <2>2
    <3> QED BY <1>4, <1>5, <1>7, <3>1
  <2> QED BY <2>1, <2>2
<1>8. IsChain(n)
  BY <1>3, <1>5, <1>6, <1>7 DEF IsChain
<1> QED BY <1>3, <1>4, <1>5, <1>8 DEF n

LEMMA ChainReplace ==
  ASSUME NEW s, IsChain(s), Len(s) > 1, NEW b, IsBlock(b), s[Len(s) - 1].applied \subseteq b.applied
  PROVE  LET n == [s EXCEPT ![Len(s)] = b] IN IsChain(n) /\ n[1] = s[1] /\ n[Len(n)] = b
<1>1. PICK S : s \in Seq(S)
  BY DEF IsChain
<1> DEFINE T == S \cup {b}
           n == [s EXCEPT ![Len(s)] = b]
<1>0. Len(s) \in Nat
  BY <1>1
<1>2. s \in Seq(T) /\ b \in T /\ DOMAIN s = 1..Len(s)
  BY <1>1
<1>3. n \in Seq(T) /\ Len(n) = Len(s)
  BY <1>2
<1>4. n[Len(s)] = b /\ \A i \in 1..(Len(s) - 1) : n[i] = s[i]
  <2>1. Len(s) \in 1..Len(s) /\ \A i \in 1..(Len(s) - 1) : i \in 1..Len(s) /\ i # Len(s)
    BY <1>0
  <2> QED BY <1>2, <2>1, Zenon
<1> HIDE DEF T, n
<1>5. /\ \A i \in 1..Len(s) : IsBlock(s[i])
      /\ \A i, j \in 1..Len(s) : i <= j => s[i].applied \subseteq s[j].applied
  BY DEF IsChain
<1>6. \A i \in 1..Len(n) : IsBlock(n[i])
  <2> TAKE i \in 1..Len(n)
  <2>1. i \in 1..(Len(s) - 1) \/ i = Len(s)
    BY <1>0, <1>3
  <2>2. i \in 1..Len(s)
    BY <1>3
  <2> QED BY <1>4, <1>5, <2>1, <2>2
<1>7. ASSUME NEW i \in 1..Len(n), NEW j \in 1..Len(n), i <= j
      PROVE  n[i].applied \subseteq n[j].applied
  <2>1. CASE j = Len(s)
    <3>1. /\ i = Len(s) \/ (i \in 1..(Len(s) - 1) /\ i <= Len(s) - 1 /\ i \in 1..Len(s))
          /\ Len(s) - 1 \in 1..Len(s)
      BY <1>0, <1>3
    <3>2. i \in 1..(Len(s) - 1) => n[i].applied \subseteq s[Len(s) - 1].applied
      BY <1>4, <1>5, <3>1
    <3> QED BY <1>4, <2>1, <3>1, <3>2
  <2>2. CASE j # Len(s)
    <3>1. /\ i \in 1..(Len(s) - 1) /\ j \in 1..(Len(s) - 1)
          /\ i \in 1..Len(s) /\ j \in 1..Len(s)
      BY <1>0, <1>3, <1>7, <2>2
    <3> QED BY <1>4, <1>5, <1>7, <3>1
  <2> QED BY <2>1, <2>2
<1>8. IsChain(n)
  BY <1>0, <1>3, <1>6, <1>7 DEF IsChain
<1>9. n[1] = s[1]
  BY <1>0, <1>4
<1> QED BY <1>3, <1>4, <1>8, <1>9, Zenon DEF n

LEMMA ChainTail ==
  ASSUME NEW s, IsChain(s), Len(s) > 1
  PROVE  /\ IsChain(Tail(s)) /\ Tail(s)[1] = s[2] /\ Tail(s)[Len(Tail(s))] = s[Len(s)]
         /\ s[1].applied \subseteq s[2].applied /\ s[2].applied \subseteq s[Len(s)].applied
<1>1. PICK S : s \in Seq(S)
  BY DEF IsChain
<1> DEFINE n == Tail(s)
<1>2. n \in Seq(S) /\ Len(n) = Len(s) - 1 /\ Len(s) \in Nat
  BY <1>1
<1>3. \A i \in 1..Len(n) : n[i] = s[i + 1]
  BY <1>1
<1> HIDE DEF n
<1>4. /\ \A i \in 1..Len(s) : IsBlock(s[i])
      /\ \A i, j \in 1..Len(s) : i <= j => s[i].applied \subseteq s[j].applied
  BY DEF IsChain
<1>5. \A i \in 1..Len(n) : IsBlock(n[i])
  <2> TAKE i \in 1..Len(n)
  <2>1. i + 1 \in 1..Len(s)
    BY <1>2
  <2> QED BY <1>3, <1>4, <2>1
<1>6. ASSUME NEW i \in 1..Len(n), NEW j \in 1..Len(n), i <= j
      PROVE  n[i].applied \subseteq n[j].applied
  <2>1. i + 1 \in 1..Len(s) /\ j + 1 \in 1..Len(s) /\ i + 1 <= j + 1
    BY <1>2, <1>6
  <2> QED BY <1>3, <1>4, <2>1
<1>7. IsChain(n)
  BY <1>2, <1>5, <1>6 DEF IsChain
<1>8. n[1] = s[2] /\ n[Len(n)] = s[Len(s)]
  BY <1>2, <1>3
<1>9. s[1].applied \subseteq s[2].applied /\ s[2].applied \subseteq s[Len(s)].applied
  <2>1. 1 \in 1..Len(s) /\ 2 \in 1..Len(s) /\ Len(s) \in 1..Len(s) /\ 1 <= 2 /\ 2 <= Len(s)
    BY <1>2
  <2> QED BY <1>4, <2>1
<1> QED BY <1>7, <1>8, <1>9 DEF n

\* Settling a promise changes its phase alone.
LEMMA PhaseSet ==
  ASSUME NEW r, IsCall(r), NEW x
  PROVE  IsCall([r EXCEPT !.phase = x]) /\ [r EXCEPT !.phase = x].phase = x
BY DEF IsCall

\* A block without a call of ours applies what its parent applied.
LEMMA EmptyBlockApplies ==
  ASSUME NEW parent, IsBlock(parent), NEW state
  PROVE  LET b == EmptyBlock(parent, state) IN
         IsBlock(b) /\ b.applied = parent.applied /\ b.call = 0
BY DEF IsBlock, EmptyBlock

ResolvedIsFinal ==
  \A c \in DOMAIN calls : IsCall(calls[c]) /\ (calls[c].phase = "success" => c \in best[1].applied)

OpenIsOpen ==
  reorgs = 0 /\ losses = 0 =>
    /\ \A c \in pool : c \in DOMAIN calls /\ calls[c].phase = "sent" /\ c \notin Tip.applied
    /\ \A c \in Tip.applied : c \in DOMAIN calls /\ calls[c].phase \in {"sent", "success"}
    /\ \A c \in DOMAIN calls : calls[c].phase \in {"failed", "refused", "lost"} => c \notin Tip.applied

\* What the node has seen of a call stays seen.
Sent(c) == c \in DOMAIN calls /\ calls[c].phase \notin {"reading", "signed"}
NodeHasSent ==
  /\ \A c \in pool : Sent(c)
  /\ \A i \in 1..Len(best) : best[i].call # 0 => Sent(best[i].call)

ClientInv ==
  /\ IsChain(best) /\ ResolvedIsFinal /\ OpenIsOpen /\ NodeHasSent
  /\ reorgs \in Nat /\ losses \in Nat

\* Calls that change one phase, to something other than success.
OnePhase(c, how) == calls' = [calls EXCEPT ![c].phase = how] /\ how # "success"

LEMMA OnePhaseFacts ==
  ASSUME ResolvedIsFinal, NEW c \in DOMAIN calls, NEW how, OnePhase(c, how), best'[1] = best[1]
  PROVE  /\ DOMAIN calls' = DOMAIN calls /\ calls'[c].phase = how
         /\ \A d \in DOMAIN calls : d # c => calls'[d] = calls[d]
         /\ ResolvedIsFinal'
<1>1. /\ DOMAIN calls' = DOMAIN calls /\ calls'[c] = [calls[c] EXCEPT !.phase = how]
      /\ \A d \in DOMAIN calls : d # c => calls'[d] = calls[d]
  BY DEF OnePhase
<1>2. IsCall(calls'[c]) /\ calls'[c].phase = how
  BY <1>1, PhaseSet DEF ResolvedIsFinal
<1>3. \A d \in DOMAIN calls' :
        IsCall(calls'[d]) /\ (calls'[d].phase = "success" => d \in best'[1].applied)
  BY <1>1, <1>2 DEF ResolvedIsFinal, OnePhase
<1> QED BY <1>1, <1>2, <1>3 DEF ResolvedIsFinal, IsCall

\* Calls do not become unsent, and what is new in the pool is sent.
LEMMA SentKept ==
  ASSUME NodeHasSent, UNCHANGED best, \A c \in DOMAIN calls : Sent(c) => Sent(c)',
         \A c \in pool' : c \in pool \/ Sent(c)'
  PROVE  NodeHasSent'
<1>1. \A c : Sent(c) => Sent(c)'
  BY DEF Sent
<1> QED BY <1>1 DEF NodeHasSent

\* What Settle does, whether the promise is open or not.
LEMMA SettleCases ==
  ASSUME NEW c, NEW how, calls' = Settle(calls, c, how), how # "success"
  PROVE  \/ calls' = calls /\ calls[c].phase # "sent"
         \/ OnePhase(c, how) /\ calls[c].phase = "sent"
BY DEF Settle, OnePhase

\* A call reads its nonce.
LEMMA ReadNonceKeeps ==
  ASSUME ClientInv, NEW c \in DOMAIN calls, ReadNonce(c) PROVE ClientInv'
<1>1. /\ calls[c].phase = "reading" /\ UNCHANGED <<best, pool, reorgs, losses>>
      /\ calls' = [calls EXCEPT ![c].phase = "signed", ![c].nonce = Tip.nonce]
  BY DEF ReadNonce
<1>2. IsCall(calls[c])
  BY DEF ClientInv, ResolvedIsFinal
<1>3. /\ DOMAIN calls' = DOMAIN calls
      /\ DOMAIN calls'[c] = DOMAIN calls[c] /\ calls'[c].phase = "signed"
      /\ \A d \in DOMAIN calls : d # c => calls'[d] = calls[d]
  BY <1>1, <1>2 DEF IsCall
<1>5. ResolvedIsFinal'
  BY <1>1, <1>2, <1>3 DEF ClientInv, ResolvedIsFinal, IsCall
<1>6. OpenIsOpen'
  BY <1>1, <1>3 DEF ClientInv, OpenIsOpen, Tip
<1>7. NodeHasSent'
  BY <1>1, <1>3, SentKept DEF ClientInv, Sent
<1> QED BY <1>1, <1>5, <1>6, <1>7 DEF ClientInv

\* The node refuses a call.
LEMMA SendRefusedKeeps ==
  ASSUME ClientInv, NEW c \in DOMAIN calls, SendRefused(c) PROVE ClientInv'
<1>1. /\ calls[c].phase = "signed" /\ UNCHANGED <<best, pool, reorgs, losses>>
      /\ OnePhase(c, "refused")
  BY DEF SendRefused, OnePhase
<1>2. /\ DOMAIN calls' = DOMAIN calls /\ calls'[c].phase = "refused"
      /\ \A d \in DOMAIN calls : d # c => calls'[d] = calls[d]
      /\ ResolvedIsFinal'
  BY <1>1, OnePhaseFacts DEF ClientInv
<1>3. OpenIsOpen'
  BY <1>1, <1>2 DEF ClientInv, OpenIsOpen, Tip
<1>4. NodeHasSent'
  BY <1>1, <1>2, SentKept DEF ClientInv, Sent
<1> QED BY <1>1, <1>2, <1>3, <1>4 DEF ClientInv

\* A call leaves the pool and is reported lost, if its promise is still open.
LEMMA LostKeeps ==
  ASSUME ClientInv, NEW c \in DOMAIN calls, calls' = OnLost(calls, c), pool' = pool \ {c},
         UNCHANGED <<best, reorgs>>, losses' \in Nat,
         losses' = 0 => losses = 0 /\ c \in pool
  PROVE  ClientInv'
<1>1. calls' = calls \/ OnePhase(c, "lost")
  BY SettleCases DEF OnLost
<1>2. CASE OnePhase(c, "lost")
  <2>1. /\ DOMAIN calls' = DOMAIN calls /\ calls'[c].phase = "lost"
        /\ \A d \in DOMAIN calls : d # c => calls'[d] = calls[d]
        /\ ResolvedIsFinal'
    BY <1>2, OnePhaseFacts DEF ClientInv
  <2>2. OpenIsOpen'
    BY <2>1 DEF ClientInv, OpenIsOpen, Tip
  <2>3. NodeHasSent'
    BY <2>1, SentKept, ZenonT(30) DEF ClientInv, Sent
  <2> QED BY <2>1, <2>2, <2>3 DEF ClientInv
<1>3. CASE calls' = calls
  <2>1. OpenIsOpen'
    BY <1>3 DEF ClientInv, OpenIsOpen, Tip
  <2>2. NodeHasSent'
    BY <1>3, SentKept DEF ClientInv, Sent
  <2> QED BY <1>3, <2>1, <2>2, ZenonT(30) DEF ClientInv, ResolvedIsFinal, IsCall
<1> QED BY <1>1, <1>2, <1>3

\* A call enters the pool, in place of others with its nonce.
LEMMA SendAcceptedKeeps ==
  ASSUME ClientInv, NEW c \in DOMAIN calls, SendAccepted(c) PROVE ClientInv'
<1> DEFINE R == SameNonce(c)
           lose(d) == OnLost(calls, d)[d]
<1>1. /\ calls[c].phase = "signed" /\ UNCHANGED <<best, reorgs, losses>>
      /\ pool' = (pool \ R) \cup {c}
      /\ calls' = [d \in DOMAIN calls |->
                     CASE d = c -> [calls[d] EXCEPT !.phase = "sent"]
                       [] d \in R -> lose(d)
                       [] OTHER -> calls[d]]
  BY Zenon DEF SendAccepted
<1>2. R \subseteq pool /\ c \notin R
  BY <1>1 DEF SameNonce, ClientInv, NodeHasSent, Sent
<1>3. \A d \in DOMAIN calls :
        lose(d) = IF calls[d].phase = "sent" THEN [calls[d] EXCEPT !.phase = "lost"] ELSE calls[d]
  BY DEF OnLost, Settle
<1> HIDE DEF R, lose
<1>4. /\ calls'[c] = [calls[c] EXCEPT !.phase = "sent"] /\ DOMAIN calls' = DOMAIN calls
      /\ \A d \in DOMAIN calls : d # c /\ d \notin R => calls'[d] = calls[d]
      /\ \A d \in DOMAIN calls : d \in R => calls'[d] = lose(d)
  BY <1>1, <1>2
<1>6. /\ IsCall(calls'[c]) /\ calls'[c].phase = "sent"
      /\ \A d \in DOMAIN calls : d # c =>
           /\ IsCall(calls'[d])
           /\ \/ calls'[d] = calls[d]
              \/ calls'[d].phase = "lost" /\ d \in R /\ calls[d].phase = "sent"
  <2>1. \A d \in DOMAIN calls : IsCall(calls[d])
    BY DEF ClientInv, ResolvedIsFinal
  <2>2. \A d \in DOMAIN calls : \A x : LET r == [calls[d] EXCEPT !.phase = x] IN IsCall(r) /\ r.phase = x
    BY <2>1, PhaseSet
  <2>3. IsCall(calls'[c]) /\ calls'[c].phase = "sent"
    BY <1>4, <2>2, SMTT(60)
  <2>4. ASSUME NEW d \in DOMAIN calls, d # c
        PROVE  /\ IsCall(calls'[d])
               /\ \/ calls'[d] = calls[d]
                  \/ calls'[d].phase = "lost" /\ d \in R /\ calls[d].phase = "sent"
    <3>1. CASE d \in R /\ calls[d].phase = "sent"
      <4>1. calls'[d] = [calls[d] EXCEPT !.phase = "lost"]
        BY <1>3, <1>4, <3>1, ZenonT(30)
      <4> QED BY <2>2, <3>1, <4>1
    <3>2. CASE ~(d \in R /\ calls[d].phase = "sent")
      <4>1. calls'[d] = calls[d]
        BY <1>3, <1>4, <2>4, <3>2, ZenonT(30)
      <4> QED BY <2>1, <4>1
    <3> QED BY <3>1, <3>2
  <2> QED BY <2>3, <2>4
<1>7. ResolvedIsFinal'
  BY <1>1, <1>4, <1>6, ZenonT(60) DEF ClientInv, ResolvedIsFinal, IsCall
<1>8. ASSUME reorgs = 0, losses = 0
      PROVE  /\ \A d \in pool' : d \in DOMAIN calls' /\ calls'[d].phase = "sent" /\ d \notin Tip.applied
             /\ \A d \in Tip.applied : d \in DOMAIN calls' /\ calls'[d].phase \in {"sent", "success"}
             /\ \A d \in DOMAIN calls' :
                  calls'[d].phase \in {"failed", "refused", "lost"} => d \notin Tip.applied
  <2>1. /\ \A d \in pool : d \in DOMAIN calls /\ calls[d].phase = "sent" /\ d \notin Tip.applied
        /\ \A d \in Tip.applied : d \in DOMAIN calls /\ calls[d].phase \in {"sent", "success"}
        /\ \A d \in DOMAIN calls : calls[d].phase \in {"failed", "refused", "lost"} => d \notin Tip.applied
    BY <1>8 DEF ClientInv, OpenIsOpen
  <2>2. c \notin Tip.applied
    BY <1>1, <2>1
  <2>4. \A d \in Tip.applied : d # c /\ d \notin R
    BY <1>2, <2>1, <2>2, ZenonT(30)
  <2> QED BY <1>1, <1>4, <1>6, <2>1, <2>2, <2>4, ZenonT(30)
<1>9. OpenIsOpen'
  BY <1>1, <1>8 DEF OpenIsOpen, Tip
<1>10. NodeHasSent'
  BY <1>1, <1>4, <1>6, SentKept, ZenonT(30) DEF ClientInv, Sent
<1> QED BY <1>1, <1>7, <1>9, <1>10, ZenonT(30) DEF ClientInv

-----------------------------------------------------------------------------
(* Blocks.                                                                 *)

\* The tip becomes b, on top of the chain or in place of its last block.
NewTip(b) ==
  /\ IsChain(best') /\ best'[1] = best[1] /\ Tip' = b
  /\ \A i \in 1..Len(best') : best'[i] = b \/ \E j \in 1..Len(best) : best'[i] = best[j]

LEMMA OnTop ==
  ASSUME IsChain(best), NEW b, IsBlock(b), Tip.applied \subseteq b.applied, best' = Append(best, b)
  PROVE  NewTip(b)
<1>1. PICK S : best \in Seq(S)
  BY DEF IsChain
<1>2. IsChain(Append(best, b)) /\ Append(best, b)[1] = best[1]
      /\ Append(best, b)[Len(Append(best, b))] = b
  BY ChainAppend DEF Tip
<1>3. IsChain(best') /\ best'[1] = best[1] /\ Tip' = b
  BY <1>2 DEF Tip, IsChain, IsBlock
<1>4. ASSUME NEW i \in 1..Len(best') PROVE best'[i] = b \/ \E j \in 1..Len(best) : best'[i] = best[j]
  <2>1. best \in Seq(S \cup {b}) /\ b \in S \cup {b}
    BY <1>1
  <2>2. Len(best') = Len(best) + 1 /\ best'[Len(best) + 1] = b
        /\ \A j \in 1..Len(best) : best'[j] = best[j]
    BY <2>1
  <2>3. Len(best) \in Nat
    BY <1>1
  <2>4. i = Len(best) + 1 \/ i \in 1..Len(best)
    BY <2>2, <2>3
  <2> QED BY <2>2, <2>4
<1> QED BY <1>3, <1>4 DEF NewTip

LEMMA InPlace ==
  ASSUME IsChain(best), Len(best) > 1, NEW b, IsBlock(b),
         best[Len(best) - 1].applied \subseteq b.applied, best' = [best EXCEPT ![Len(best)] = b]
  PROVE  NewTip(b)
<1>1. PICK S : best \in Seq(S)
  BY DEF IsChain
<1> DEFINE n == [best EXCEPT ![Len(best)] = b]
<1>2. IsChain(n) /\ n[1] = best[1] /\ n[Len(n)] = b
  BY ChainReplace, Zenon
<1>3. IsChain(best') /\ best'[1] = best[1] /\ Tip' = b
  BY <1>2 DEF Tip, IsChain, IsBlock
<1>4. ASSUME NEW i \in 1..Len(best') PROVE best'[i] = b \/ \E j \in 1..Len(best) : best'[i] = best[j]
  <2>1. DOMAIN best = 1..Len(best) /\ best \in Seq(S \cup {b})
    BY <1>1
  <2>2. Len(best') = Len(best)
    BY <2>1
  <2> QED BY <2>1, <2>2, Zenon
<1> QED BY <1>3, <1>4 DEF NewTip

\* What the node has seen, with a new tip.
LEMMA SentWithTip ==
  ASSUME NodeHasSent, NEW b, NewTip(b), \A c \in DOMAIN calls : Sent(c) => Sent(c)',
         b.call # 0 => Sent(b.call)', \A c \in pool' : Sent(c)'
  PROVE  NodeHasSent'
<1>1. \A c : Sent(c) => Sent(c)'
  BY DEF Sent
<1>2. ASSUME NEW i \in 1..Len(best'), best'[i].call # 0 PROVE Sent(best[i].call)'
  <2>1. CASE best'[i] = b
    BY <1>2, <2>1
  <2>2. CASE \E j \in 1..Len(best) : best'[i] = best[j]
    BY <1>1, <1>2, <2>2 DEF NodeHasSent
  <2> QED BY <2>1, <2>2 DEF NewTip
<1> QED BY <1>2 DEF NodeHasSent

\* The last two blocks of a chain.
LEMMA TipIsBlock ==
  ASSUME IsChain(best)
  PROVE  /\ Len(best) \in Nat /\ Len(best) \in 1..Len(best) /\ IsBlock(Tip)
         /\ Len(best) > 1 => IsBlock(best[Len(best) - 1])
<1>1. PICK S : best \in Seq(S)
  BY DEF IsChain
<1>2. Len(best) \in Nat /\ Len(best) >= 1
  BY <1>1 DEF IsChain
<1>3. Len(best) \in 1..Len(best) /\ (Len(best) > 1 => Len(best) - 1 \in 1..Len(best))
  BY <1>2
<1> QED BY <1>2, <1>3 DEF IsChain, Tip

LEMMA PlainBlockKeeps == ASSUME ClientInv, PlainBlock PROVE ClientInv'
<1>1. PICK state : best' = Append(best, EmptyBlock(Tip, state))
  BY Zenon DEF PlainBlock
<1>2. UNCHANGED <<pool, calls, reorgs, losses>> /\ IsChain(best) /\ IsBlock(Tip)
  BY TipIsBlock DEF PlainBlock, ClientInv
<1>3. PICK b : b = EmptyBlock(Tip, state)
  OBVIOUS
<1>4. IsBlock(b) /\ b.applied = Tip.applied /\ b.call = 0
  BY <1>2, <1>3, EmptyBlockApplies
<1>5. NewTip(b)
  BY <1>1, <1>2, <1>3, <1>4, OnTop
<1>6. IsChain(best') /\ best'[1] = best[1] /\ Tip' = b
  BY <1>5 DEF NewTip
<1>7. ResolvedIsFinal' /\ OpenIsOpen'
  BY <1>2, <1>4, <1>6, ZenonT(30) DEF ClientInv, ResolvedIsFinal, OpenIsOpen, IsCall
<1>8. NodeHasSent'
  BY <1>2, <1>4, <1>5, SentWithTip DEF ClientInv, Sent, NodeHasSent
<1> QED BY <1>2, <1>6, <1>7, <1>8 DEF ClientInv

\* What InBlock does to the promises.
LEMMA InBlockCases ==
  ASSUME NEW c, NEW ok, calls' = OnInBlock(calls, c, ok)
  PROVE  calls' = calls \/ (~ok /\ OnePhase(c, "failed"))
BY SettleCases DEF OnInBlock

LEMMA InBlockFacts ==
  ASSUME ResolvedIsFinal, NEW c \in DOMAIN calls, NEW ok, calls' = OnInBlock(calls, c, ok),
         best'[1] = best[1]
  PROVE  /\ ResolvedIsFinal'
         /\ DOMAIN calls' = DOMAIN calls
         /\ \A d \in DOMAIN calls : d # c => calls'[d] = calls[d]
         /\ calls'[c].phase = calls[c].phase \/ (~ok /\ calls'[c].phase = "failed")
<1>1. CASE calls' = calls
  BY <1>1 DEF ResolvedIsFinal, IsCall
<1>2. CASE ~ok /\ OnePhase(c, "failed")
  BY <1>2, OnePhaseFacts
<1> QED BY <1>1, <1>2, InBlockCases

LEMMA IncludeKeeps == ASSUME ClientInv, NEW c, Include(c) PROVE ClientInv'
<1>1. PICK b : b = BlockWith(Tip, Initialize(Tip.state), c)
  OBVIOUS
<1>2. /\ c \in pool /\ best' = Append(best, b) /\ calls' = OnInBlock(calls, c, b.ok)
      /\ pool' = pool \ {c} /\ UNCHANGED <<reorgs, losses>>
  BY <1>1 DEF Include, Includable
<1>3. /\ IsBlock(b) /\ Tip.applied \subseteq b.applied /\ b.call = c
      /\ b.applied = IF b.ok THEN Tip.applied \cup {c} ELSE Tip.applied
  BY <1>1 DEF BlockWith, IsBlock
<1>4. NewTip(b)
  BY <1>2, <1>3, OnTop DEF ClientInv
<1>5. IsChain(best') /\ best'[1] = best[1] /\ Tip' = b
  BY <1>4 DEF NewTip
<1>6. Sent(c) /\ c \in DOMAIN calls
  BY <1>2, ZenonT(30) DEF ClientInv, NodeHasSent, Sent
<1>7. /\ ResolvedIsFinal'
      /\ DOMAIN calls' = DOMAIN calls
      /\ \A d \in DOMAIN calls : d # c => calls'[d] = calls[d]
      /\ calls'[c].phase = calls[c].phase \/ (~b.ok /\ calls'[c].phase = "failed")
  BY <1>2, <1>5, <1>6, InBlockFacts, ZenonT(30) DEF ClientInv
<1>8. \A d \in DOMAIN calls : Sent(d) => Sent(d)'
  BY <1>7 DEF Sent
<1>9. NodeHasSent'
  <2>1. (\A d \in pool' : Sent(d)') /\ (b.call # 0 => Sent(b.call)')
    BY <1>2, <1>3, <1>6, <1>8, ZenonT(30) DEF ClientInv, NodeHasSent, Sent
  <2> QED BY <1>4, <1>8, <2>1, SentWithTip, ZenonT(30) DEF ClientInv
<1>10. ASSUME reorgs = 0, losses = 0
       PROVE  /\ \A d \in pool' : d \in DOMAIN calls' /\ calls'[d].phase = "sent" /\ d \notin b.applied
              /\ \A d \in b.applied : d \in DOMAIN calls' /\ calls'[d].phase \in {"sent", "success"}
              /\ \A d \in DOMAIN calls' :
                   calls'[d].phase \in {"failed", "refused", "lost"} => d \notin b.applied
  <2>1. /\ \A d \in pool : d \in DOMAIN calls /\ calls[d].phase = "sent" /\ d \notin Tip.applied
        /\ \A d \in Tip.applied : d \in DOMAIN calls /\ calls[d].phase \in {"sent", "success"}
        /\ \A d \in DOMAIN calls : calls[d].phase \in {"failed", "refused", "lost"} => d \notin Tip.applied
    BY <1>10 DEF ClientInv, OpenIsOpen
  <2> QED BY <1>2, <1>3, <1>7, <2>1
<1>11. OpenIsOpen'
  BY <1>2, <1>5, <1>10 DEF OpenIsOpen
<1> QED BY <1>2, <1>5, <1>7, <1>9, <1>11 DEF ClientInv

\* A block is retracted.
LEMMA ReorgKeeps == ASSUME ClientInv, Reorg PROVE ClientInv'
<1> DEFINE parent == best[Len(best) - 1]
           back == pool \cup (IF Tip.call = 0 THEN {} ELSE {Tip.call})
<1>1. /\ IsChain(best) /\ Len(best) > 1 /\ reorgs \in Nat /\ reorgs' = reorgs + 1 /\ losses' = losses
      /\ \/ /\ \E state : best' = [best EXCEPT ![Len(best)] = EmptyBlock(parent, state)]
            /\ pool' = back /\ calls' = calls
         \/ \E c \in back : LET b == BlockWith(parent, Initialize(parent.state), c) IN
              /\ best' = [best EXCEPT ![Len(best)] = b] /\ calls' = OnInBlock(calls, c, b.ok)
              /\ pool' = back \ {c}
  BY Zenon DEF Reorg, ClientInv
<1>2. IsBlock(parent)
  BY <1>1, TipIsBlock
<1>3. \A c \in back : Sent(c)
  <2>1. Len(best) \in 1..Len(best)
    BY <1>1, TipIsBlock
  <2> QED BY <2>1 DEF ClientInv, NodeHasSent, Tip
<1>4. OpenIsOpen' /\ reorgs' \in Nat /\ losses' \in Nat
  BY <1>1 DEF OpenIsOpen, ClientInv
<1> HIDE DEF parent, back
<1>5. ASSUME NEW state, best' = [best EXCEPT ![Len(best)] = EmptyBlock(parent, state)],
             pool' = back, calls' = calls
      PROVE  ClientInv'
  <2>1. PICK b : b = EmptyBlock(parent, state)
    OBVIOUS
  <2>2. IsBlock(b) /\ b.applied = parent.applied /\ b.call = 0
    BY <1>2, <2>1, EmptyBlockApplies
  <2>3. NewTip(b)
    BY <1>1, <1>5, <2>1, <2>2, InPlace, Zenon DEF parent
  <2>4. IsChain(best') /\ best'[1] = best[1]
    BY <2>3, SMTT(60) DEF NewTip
  <2>5. ResolvedIsFinal'
    BY <1>5, <2>4 DEF ClientInv, ResolvedIsFinal, IsCall
  <2>6. NodeHasSent'
    BY <1>3, <1>5, <2>2, <2>3, SentWithTip, ZenonT(30) DEF ClientInv, Sent
  <2> QED BY <1>4, <2>4, <2>5, <2>6 DEF ClientInv
<1>6. ASSUME NEW c \in back, NEW b, b = BlockWith(parent, Initialize(parent.state), c),
             best' = [best EXCEPT ![Len(best)] = b], calls' = OnInBlock(calls, c, b.ok),
             pool' = back \ {c}
      PROVE  ClientInv'
  <2>1. IsBlock(b) /\ parent.applied \subseteq b.applied /\ b.call = c
    BY <1>6 DEF BlockWith, IsBlock
  <2>2. NewTip(b)
    BY <1>1, <1>6, <2>1, InPlace, Zenon DEF parent
  <2>3. IsChain(best') /\ best'[1] = best[1]
    BY <2>2 DEF NewTip
  <2>4. Sent(c) /\ c \in DOMAIN calls
    BY <1>3, <1>6, ZenonT(30) DEF Sent
  <2>5. /\ ResolvedIsFinal'
        /\ DOMAIN calls' = DOMAIN calls
        /\ \A d \in DOMAIN calls : d # c => calls'[d] = calls[d]
        /\ calls'[c].phase = calls[c].phase \/ (~b.ok /\ calls'[c].phase = "failed")
    BY <1>6, <2>3, <2>4, InBlockFacts, ZenonT(30) DEF ClientInv
  <2>6. \A d \in DOMAIN calls : Sent(d) => Sent(d)'
    BY <2>5 DEF Sent
  <2>7. \A d \in back : Sent(d)'
    BY <1>3, <2>6, ZenonT(30) DEF Sent
  <2>8. NodeHasSent'
    BY <1>6, <2>1, <2>2, <2>6, <2>7, SentWithTip, SMTT(60) DEF ClientInv
  <2> QED BY <1>4, <2>3, <2>5, <2>8, ZenonT(30) DEF ClientInv
<1> QED BY <1>1, <1>5, <1>6, Zenon

\* The oldest block that waits becomes final.
LEMMA FinalizeKeeps == ASSUME ClientInv, Finalize PROVE ClientInv'
<1>1. /\ IsChain(best) /\ Len(best) > 1 /\ best' = Tail(best)
      /\ calls' = OnFinalized(calls, best[2].applied) /\ UNCHANGED <<pool, reorgs, losses>>
  BY DEF Finalize, ClientInv
<1>2. IsChain(Tail(best)) /\ Tail(best)[1] = best[2] /\ Tail(best)[Len(Tail(best))] = best[Len(best)]
      /\ best[1].applied \subseteq best[2].applied /\ best[2].applied \subseteq Tip.applied
  BY <1>1, ChainTail DEF Tip
<1>3. IsChain(best') /\ best'[1] = best[2] /\ Tip' = Tip
  BY <1>1, <1>2 DEF Tip, IsChain, IsBlock
<1>4. DOMAIN calls' = DOMAIN calls
      /\ \A c \in DOMAIN calls :
           \/ calls'[c] = calls[c]
           \/ /\ c \in best[2].applied /\ calls[c].phase = "sent"
              /\ calls'[c] = [calls[c] EXCEPT !.phase = "success"]
  BY <1>1 DEF OnFinalized
<1>5. \A c \in DOMAIN calls :
        \/ calls'[c] = calls[c]
        \/ /\ c \in best[2].applied /\ calls[c].phase = "sent"
           /\ IsCall(calls'[c]) /\ calls'[c].phase = "success"
  <2>1. \A c \in DOMAIN calls : LET r == [calls[c] EXCEPT !.phase = "success"] IN
          IsCall(r) /\ r.phase = "success"
    BY PhaseSet DEF ClientInv, ResolvedIsFinal
  <2> QED BY <1>4, <2>1, Zenon
<1>6. ResolvedIsFinal'
  BY <1>2, <1>3, <1>4, <1>5 DEF ClientInv, ResolvedIsFinal, IsCall
<1>7. OpenIsOpen'
  <2> SUFFICES ASSUME reorgs = 0, losses = 0
               PROVE  /\ \A c \in pool : c \in DOMAIN calls' /\ calls'[c].phase = "sent" /\ c \notin Tip.applied
                      /\ \A c \in Tip.applied : c \in DOMAIN calls' /\ calls'[c].phase \in {"sent", "success"}
                      /\ \A c \in DOMAIN calls' :
                           calls'[c].phase \in {"failed", "refused", "lost"} => c \notin Tip.applied
    BY <1>1, <1>3 DEF OpenIsOpen
  <2>1. /\ \A c \in pool : c \in DOMAIN calls /\ calls[c].phase = "sent" /\ c \notin Tip.applied
        /\ \A c \in Tip.applied : c \in DOMAIN calls /\ calls[c].phase \in {"sent", "success"}
        /\ \A c \in DOMAIN calls : calls[c].phase \in {"failed", "refused", "lost"} => c \notin Tip.applied
    BY DEF ClientInv, OpenIsOpen
  <2> QED BY <1>2, <1>4, <1>5, <2>1, ZenonT(30)
<1>8. NodeHasSent'
  <2>1. \A c : Sent(c) => Sent(c)'
    BY <1>4, <1>5, ZenonT(30) DEF Sent
  <2>2. PICK S : best \in Seq(S)
    BY <1>1 DEF IsChain
  <2>3. Len(best') = Len(best) - 1 /\ Len(best) \in Nat /\ \A i \in 1..Len(best') : best'[i] = best[i + 1]
    BY <1>1, <2>2
  <2>4. \A i \in 1..Len(best') : i + 1 \in 1..Len(best) /\ best'[i] = best[i + 1]
    BY <2>3
  <2> QED BY <1>1, <2>1, <2>4 DEF ClientInv, NodeHasSent
<1> QED BY <1>1, <1>3, <1>6, <1>7, <1>8 DEF ClientInv

\* A program starts calls.
LEMMA ProgramKeeps == ASSUME ClientInv, Program PROVE ClientInv'
<1>1. /\ DOMAIN calls \subseteq DOMAIN calls' /\ UNCHANGED <<best, pool, reorgs, losses>>
      /\ \A c \in DOMAIN calls : calls'[c] = calls[c]
  BY DEF Program
<1>2. \A c \in DOMAIN calls' \ DOMAIN calls :
        IsCall(calls'[c]) /\ calls'[c].phase \in {"reading", "signed"}
  BY DEF Program, Signed, IsCall
<1>3. ResolvedIsFinal'
  BY <1>1, <1>2 DEF ClientInv, ResolvedIsFinal, IsCall
<1>4. OpenIsOpen'
  BY <1>1, <1>2 DEF ClientInv, OpenIsOpen, Tip
<1>5. NodeHasSent'
  BY <1>1, SentKept DEF ClientInv, Sent
<1> QED BY <1>1, <1>3, <1>4, <1>5 DEF ClientInv

LEMMA DiscardKeeps == ASSUME ClientInv, NEW c \in DOMAIN calls, Discard(c) PROVE ClientInv'
<1>1. c \in pool /\ pool' = pool \ {c} /\ calls' = OnLost(calls, c) /\ UNCHANGED <<best, reorgs, losses>>
  BY DEF Discard
<1> QED BY <1>1, LostKeeps DEF ClientInv

LEMMA LoseKeeps == ASSUME ClientInv, NEW c \in DOMAIN calls, Lose(c) PROVE ClientInv'
<1>1. losses' = losses + 1 /\ pool' = pool \ {c} /\ calls' = OnLost(calls, c) /\ UNCHANGED <<best, reorgs>>
  BY DEF Lose
<1>2. losses' \in Nat /\ losses' # 0
  BY <1>1 DEF ClientInv
<1> QED BY <1>1, <1>2, LostKeeps

LEMMA ClientInitially == ASSUME NEW state, ClientInit(state) PROVE ClientInv
<1>1. PICK b : b = Genesis(state)
  OBVIOUS
<1>2. best = <<b>> /\ pool = {} /\ calls = <<>> /\ reorgs = 0 /\ losses = 0
  BY <1>1 DEF ClientInit
<1>3. IsBlock(b) /\ b.applied = {} /\ b.call = 0
  BY <1>1 DEF Genesis, IsBlock
<1>4. best \in Seq({b}) /\ Len(best) = 1 /\ best[1] = b
  BY <1>2
<1>5. IsChain(best)
  BY <1>3, <1>4 DEF IsChain
<1>6. DOMAIN calls = {}
  BY <1>2
<1> QED BY <1>2, <1>3, <1>4, <1>5, <1>6 DEF ClientInv, ResolvedIsFinal, OpenIsOpen, NodeHasSent, Tip

LEMMA ClientKept == ASSUME ClientInv, [NodeNext \/ Program]_nodeVars PROVE ClientInv'
<1>1. CASE PlainBlock
  BY <1>1, PlainBlockKeeps
<1>2. CASE Reorg
  BY <1>2, ReorgKeeps, ZenonT(30)
<1>3. CASE Finalize
  BY <1>3, FinalizeKeeps
<1>4. ASSUME NEW c \in DOMAIN calls, SignTransaction(c) PROVE ClientInv'
  BY <1>4, ReadNonceKeeps, SendRefusedKeeps, SendAcceptedKeeps DEF SignTransaction
<1>5. ASSUME NEW c \in DOMAIN calls, Include(c) PROVE ClientInv'
  BY <1>5, IncludeKeeps
<1>6. ASSUME NEW c \in DOMAIN calls, Discard(c) PROVE ClientInv'
  BY <1>6, DiscardKeeps
<1>7. ASSUME NEW c \in DOMAIN calls, Lose(c) PROVE ClientInv'
  BY <1>7, LoseKeeps
<1>8. CASE Program
  BY <1>8, ProgramKeeps, ZenonT(30)
<1>9. CASE UNCHANGED nodeVars
  BY <1>9 DEF nodeVars, ClientInv, ResolvedIsFinal, OpenIsOpen, NodeHasSent, Sent, Tip,
              IsChain, IsBlock, IsCall
<1> QED BY <1>1, <1>2, <1>3, <1>4, <1>5, <1>6, <1>7, <1>8, <1>9, ZenonT(30) DEF NodeNext

\* What signTransaction reports is what became of the call, over any runtime, under
\* any program and any number of forks and losses: a promise that resolved stands for
\* a call that the finalized chain executed with success, and without forks and losses
\* an error is never followed by the call's effect.
THEOREM ReportsCorrect ==
  ASSUME NEW state
  PROVE  ClientSpec(state) => []ReportsAreFinal
<1>1. ClientInit(state) => ClientInv
  BY ClientInitially
<1>2. ClientInv /\ [NodeNext \/ Program]_nodeVars => ClientInv'
  BY ClientKept
<1>3. ClientInv => ReportsAreFinal
  BY DEF ClientInv, ResolvedIsFinal, OpenIsOpen, ReportsAreFinal, Final
<1> QED BY <1>1, <1>2, <1>3, PTL DEF ClientSpec
=============================================================================
