--------------------------- MODULE MigrationProofs ---------------------------
(***************************************************************************)
(* A migration by the README's rule leaves no object behind that only the  *)
(* old prefix marks, an idle controller has moved every finalizer, and no  *)
(* object is ever a copy and a source at once.                             *)
(***************************************************************************)
EXTENDS Migration, KeySetProofs, FiniteSetTheorems

(* The three key sets *)

LEMMA KeysOfReleases ==
    /\ PinnedKeys = [primary |-> Previous, legacy |-> <<>>]
    /\ BothKeys = [primary |-> Primary, legacy |-> <<Previous>>]
    /\ DroppedKeys = [primary |-> Primary, legacy |-> <<>>]
    /\ {PinnedKeys, BothKeys, DroppedKeys} \subseteq KeySetType
<1>1. None \notin Domain
  BY NoneAssumption
<1>2. /\ PinnedKeys = [primary |-> Previous, legacy |-> <<>>]
      /\ DroppedKeys = [primary |-> Primary, legacy |-> <<>>]
  BY NewKeySetOfOne DEF PinnedKeys, DroppedKeys
<1>3. BothKeys = [primary |-> Primary, legacy |-> <<Previous>>]
  BY <1>1, NewKeySetOfOne, MigrationAssumption DEF BothKeys
<1>4. <<>> \in Seq(Domain) /\ <<Previous>> \in Seq(Domain)
  BY MigrationAssumption
<1> QED BY <1>2, <1>3, <1>4, MigrationAssumption DEF KeySetType

LEMMA DomainsOfReleases ==
    /\ Honoured(PinnedKeys) = {Previous} /\ LegacyDomains(PinnedKeys) = {}
    /\ Honoured(BothKeys) = {Primary, Previous} /\ LegacyDomains(BothKeys) = {Previous}
    /\ Honoured(DroppedKeys) = {Primary} /\ LegacyDomains(DroppedKeys) = {}
<1>1. LegacyDomains(PinnedKeys) = {} /\ LegacyDomains(DroppedKeys) = {}
  BY KeysOfReleases DEF LegacyDomains
<1>2. DOMAIN <<Previous>> = {1} /\ <<Previous>>[1] = Previous
  OBVIOUS
<1>3. LegacyDomains(BothKeys) = {Previous}
  BY <1>2, KeysOfReleases DEF LegacyDomains
<1> QED BY <1>1, <1>3, KeysOfReleases, HonouredDomains

(* The instances' copies of the contract are the contract *)

LEMMA SameContract ==
    /\ Pinned!Object = Object /\ Both!Object = Object /\ Dropped!Object = Object
    /\ Pinned!KeySetType = KeySetType /\ Both!KeySetType = KeySetType
    /\ Dropped!KeySetType = KeySetType
    /\ \A ks : /\ Pinned!Honoured(ks) = Honoured(ks)
               /\ Both!Honoured(ks) = Honoured(ks)
               /\ Dropped!Honoured(ks) = Honoured(ks)
               /\ Pinned!LegacyDomains(ks) = LegacyDomains(ks)
               /\ Both!LegacyDomains(ks) = LegacyDomains(ks)
               /\ Dropped!LegacyDomains(ks) = LegacyDomains(ks)
BY DEF Object, Pinned!Object, Both!Object, Dropped!Object,
       Selector, Pinned!Selector, Both!Selector, Dropped!Selector,
       Stamp, Pinned!Stamp, Both!Stamp, Dropped!Stamp,
       KeySetType, Pinned!KeySetType, Both!KeySetType, Dropped!KeySetType,
       Honoured, Pinned!Honoured, Both!Honoured, Dropped!Honoured,
       Each, Pinned!Each, Both!Each, Dropped!Each,
       LegacyDomains, Pinned!LegacyDomains, Both!LegacyDomains, Dropped!LegacyDomains

LEMMA SameReading ==
    \A ks, obj : /\ Pinned!IsSource(ks, obj) <=> IsSource(ks, obj)
                 /\ Both!IsSource(ks, obj) <=> IsSource(ks, obj)
                 /\ Dropped!IsSource(ks, obj) <=> IsSource(ks, obj)
                 /\ Pinned!IsManagedCopy(ks, obj) <=> IsManagedCopy(ks, obj)
                 /\ Both!IsManagedCopy(ks, obj) <=> IsManagedCopy(ks, obj)
                 /\ Dropped!IsManagedCopy(ks, obj) <=> IsManagedCopy(ks, obj)
BY DEF IsSource, Pinned!IsSource, Both!IsSource, Dropped!IsSource,
       IsManagedCopy, Pinned!IsManagedCopy, Both!IsManagedCopy, Dropped!IsManagedCopy,
       KeysFor, Pinned!KeysFor, Both!KeysFor, Dropped!KeysFor,
       FirstIn, Pinned!FirstIn, Both!FirstIn, Dropped!FirstIn,
       Honoured, Pinned!Honoured, Both!Honoured, Dropped!Honoured,
       Each, Pinned!Each, Both!Each, Dropped!Each

(* What the lemmas about a Syncer assume *)

LEMMA InstancesAssume ==
    /\ Pinned!NoneAssumption /\ Both!NoneAssumption /\ Dropped!NoneAssumption
    /\ Pinned!SyncerAssumption /\ Both!SyncerAssumption /\ Dropped!SyncerAssumption
<1>1. Pinned!NoneAssumption /\ Both!NoneAssumption /\ Dropped!NoneAssumption
  BY NoneAssumption DEF Pinned!NoneAssumption, Both!NoneAssumption, Dropped!NoneAssumption,
       Selector, Pinned!Selector, Both!Selector, Dropped!Selector,
       Stamp, Pinned!Stamp, Both!Stamp, Dropped!Stamp,
       Object, Pinned!Object, Both!Object, Dropped!Object
<1>2. Both!SyncerAssumption
  BY MigrationAssumption
<1>3. Pinned!SyncerAssumption
  BY <1>2, SameContract, KeysOfReleases, DomainsOfReleases
     DEF Both!SyncerAssumption, Pinned!SyncerAssumption, Both!NsState, Pinned!NsState
<1>4. Dropped!SyncerAssumption
  BY <1>2, SameContract, KeysOfReleases, DomainsOfReleases
     DEF Both!SyncerAssumption, Dropped!SyncerAssumption, Both!NsState, Dropped!NsState
<1> QED BY <1>1, <1>2, <1>3, <1>4

LEMMA SameTypes ==
    (Pinned!TypeOK <=> Both!TypeOK) /\ (Dropped!TypeOK <=> Both!TypeOK)
BY SameContract DEF Pinned!TypeOK, Both!TypeOK, Dropped!TypeOK,
   Pinned!Event, Both!Event, Dropped!Event, Pinned!NsState, Both!NsState, Dropped!NsState,
   Pinned!Idle, Both!Idle, Dropped!Idle, Pinned!Busy, Both!Busy, Dropped!Busy

\* Users annotate under a new domain only once a release announces it, they do
\* not mark copies as sources, and what they create carries no stamp.
UsersWait ==
    /\ EnvOps \cap {"Ahead", "Chain"} = {}
    /\ \A obj \in UserObject, d \in {Previous, Primary} :
          obj.stamp[d] = None /\ obj.sync[d] = None

\* The migration starts where nothing carries the new domain's marks and no
\* copy is annotated as a source.
OldWorld ==
    \A objs \in InitialApi, n \in Namespace :
       objs[n] # None => objs[n] \in Pinned!Tame({Primary})

\* What each release may count on: its own safe reads, and objects, wherever it
\* sees them, that carry no mark of a domain it does not know and no two roles.
\* The one that moves the objects also forgets none of them, and a stamp under
\* the old domain that goes does not come back.
Behaves ==
    /\ release = "pinned" =>
          Pinned!StaleReadsAreSafe /\ Pinned!Sees(Pinned!Tame({Primary}))
    /\ release = "both" =>
          /\ Both!StaleReadsAreSafe /\ Both!Sees(Both!Tame({}))
          /\ Both!NothingForgotten /\ Both!Fades(Previous)
    /\ release = "dropped" =>
          Dropped!StaleReadsAreSafe /\ Dropped!Sees(Dropped!Tame({Previous}))

\* A gauge that read 0 still tells the truth: no stamp under the old domain is
\* in the cache, however many steps ago it was read.
GaugeOK ==
    /\ gauge # None => release = "both"
    /\ gauge = 0 => \A n \in Namespace : Both!Clear(Previous, cache[n])

\* The inductive invariant.
MigrationInv == TypeOK /\ Behaves /\ GaugeOK

-----------------------------------------------------------------------------
(* The steps of each release *)

LEMMA PinnedSteps ==
    ASSUME UsersWait, Pinned!TypeOK, Pinned!StaleReadsAreSafe,
           Pinned!Sees(Pinned!Tame({Primary})), [Pinned!Next]_(Pinned!vars)
    PROVE  /\ Pinned!TypeOK' /\ Pinned!StaleReadsAreSafe'
           /\ Pinned!Sees(Pinned!Tame({Primary}))'
<1>1. Pinned!NoneAssumption /\ Pinned!SyncerAssumption
  BY InstancesAssume
<1>2. Pinned!Calm({Primary})
  BY SameContract, DomainsOfReleases, MigrationAssumption DEF Pinned!Calm, UsersWait
<1>3. Pinned!TypeOK'
  BY <1>1, Pinned!TypeNext
<1>4. Pinned!StaleReadsAreSafe'
  BY <1>1, Pinned!StaleNext
<1>5. Pinned!Sees(Pinned!Tame({Primary}))'
  BY <1>1, <1>2, Pinned!TameNext
<1> QED BY <1>3, <1>4, <1>5

LEMMA BothSteps ==
    ASSUME UsersWait, Both!TypeOK, Both!StaleReadsAreSafe, Both!Sees(Both!Tame({})),
           Both!NothingForgotten, Both!Fades(Previous), [Both!Next]_(Both!vars)
    PROVE  /\ Both!TypeOK' /\ Both!StaleReadsAreSafe' /\ Both!Sees(Both!Tame({}))'
           /\ Both!NothingForgotten' /\ Both!Fades(Previous)'
           /\ (\A n \in Namespace : Both!Clear(Previous, cache[n])) =>
                \A n \in Namespace : Both!Clear(Previous, cache'[n])
<1>1. Both!NoneAssumption /\ Both!SyncerAssumption
  BY InstancesAssume
<1>2. Both!Calm({})
  BY SameContract, DomainsOfReleases, MigrationAssumption DEF Both!Calm, UsersWait
<1>3. Previous \in Both!Honoured(BothKeys) \ {BothKeys.primary}
  BY SameContract, DomainsOfReleases, KeysOfReleases, MigrationAssumption
<1>4. Both!TypeOK'
  BY <1>1, Both!TypeNext
<1>5. Both!StaleReadsAreSafe'
  BY <1>1, Both!StaleNext
<1>6. Both!Sees(Both!Tame({}))'
  BY <1>1, <1>2, Both!TameNext
<1>7. Both!NothingForgotten'
  BY <1>1, Both!ForgetNext
<1>8. Both!Fades(Previous)'
  BY <1>1, <1>2, <1>3, Both!FadesNext
<1>9. (\A n \in Namespace : Both!Clear(Previous, cache[n])) =>
         \A n \in Namespace : Both!Clear(Previous, cache'[n])
  BY <1>1, Both!StaysClear
<1> QED BY <1>4, <1>5, <1>6, <1>7, <1>8, <1>9

LEMMA DroppedSteps ==
    ASSUME UsersWait, Dropped!TypeOK, Dropped!StaleReadsAreSafe,
           Dropped!Sees(Dropped!Tame({Previous})), [Dropped!Next]_(Dropped!vars)
    PROVE  /\ Dropped!TypeOK' /\ Dropped!StaleReadsAreSafe'
           /\ Dropped!Sees(Dropped!Tame({Previous}))'
<1>1. Dropped!NoneAssumption /\ Dropped!SyncerAssumption
  BY InstancesAssume
<1>2. Dropped!Calm({Previous})
  BY SameContract, DomainsOfReleases, MigrationAssumption DEF Dropped!Calm, UsersWait
<1>3. Dropped!TypeOK'
  BY <1>1, Dropped!TypeNext
<1>4. Dropped!StaleReadsAreSafe'
  BY <1>1, Dropped!StaleNext
<1>5. Dropped!Sees(Dropped!Tame({Previous}))'
  BY <1>1, <1>2, Dropped!TameNext
<1> QED BY <1>3, <1>4, <1>5
-----------------------------------------------------------------------------
(* The roll-outs *)

\* What may be seen in each release, in terms of the objects' fields.
LEMMA TameObjects ==
    ASSUME NEW obj \in Object
    PROVE  /\ obj \in Pinned!Tame({Primary}) <=>
                /\ obj.stamp[Primary] = None /\ obj.sync[Primary] = None
                /\ obj.stamp[Previous] = None \/ obj.sync[Previous] = None
           /\ obj \in Both!Tame({}) <=>
                \/ obj.stamp[Primary] = None /\ obj.stamp[Previous] = None
                \/ obj.sync[Primary] = None /\ obj.sync[Previous] = None
           /\ obj \in Dropped!Tame({Previous}) <=>
                /\ obj.stamp[Previous] = None /\ obj.sync[Previous] = None
                /\ obj.stamp[Primary] = None \/ obj.sync[Primary] = None
<1>1. \A ks \in {PinnedKeys, BothKeys, DroppedKeys} :
        /\ IsManagedCopy(ks, obj) <=> \E d \in Honoured(ks) : obj.stamp[d] # None
        /\ IsSource(ks, obj) <=> \E d \in Honoured(ks) : obj.sync[d] # None
  BY KeysOfReleases, ManagedWhenStamped DEF IsSource
<1>2. obj \in Pinned!Tame({Primary}) <=>
        /\ Pinned!Unmarked({Primary}, obj)
        /\ IsManagedCopy(PinnedKeys, obj) => ~IsSource(PinnedKeys, obj)
  BY SameContract, SameReading DEF Pinned!Tame
<1>3. obj \in Both!Tame({}) <=>
        /\ Both!Unmarked({}, obj)
        /\ IsManagedCopy(BothKeys, obj) => ~IsSource(BothKeys, obj)
  BY SameContract, SameReading DEF Both!Tame
<1>4. obj \in Dropped!Tame({Previous}) <=>
        /\ Dropped!Unmarked({Previous}, obj)
        /\ IsManagedCopy(DroppedKeys, obj) => ~IsSource(DroppedKeys, obj)
  BY SameContract, SameReading DEF Dropped!Tame
<1> QED BY <1>1, <1>2, <1>3, <1>4, DomainsOfReleases
        DEF Pinned!Unmarked, Both!Unmarked, Dropped!Unmarked

\* An idle controller that has nothing left to do has moved every finalizer.
LEMMA FinalizersMoved ==
    ASSUME Both!TypeOK, Both!StaleReadsAreSafe, Both!NothingForgotten, Converged,
           NEW n \in Namespace, api[n] # None
    PROVE  Previous \notin api[n].fin
<1>1. DOMAIN watch = {} /\ queue = {} /\ wk = Both!Idle
  BY DEF Converged
<1>2. ~Both!Pending(n)
  BY <1>1 DEF Both!Pending
<1>3. cache[n] = api[n]
  BY <1>2 DEF Both!StaleReadsAreSafe, Both!Coherent, Both!Current
<1>4. ~Both!Unfinished(api[n])
  BY <1>1, <1>2, <1>3 DEF Both!NothingForgotten, Both!Cleaning
<1>5. ~Both!NeedsFinalizer(api[n]) /\ ~Both!NeedsCleanup(api[n])
  BY <1>4 DEF Both!Unfinished
<1>6. api[n] \in Object
  BY SameContract DEF Both!TypeOK
<1>7. SUFFICES ASSUME Previous \in api[n].fin PROVE FALSE
  BY <1>3
<1>8. Both!HasFinalizer(BothKeys, api[n])
  BY <1>7, SameContract, DomainsOfReleases DEF Both!HasFinalizer
<1>9. ~api[n].del /\ Both!IsSource(BothKeys, api[n])
  BY <1>5, <1>8 DEF Both!NeedsCleanup
<1>10. Both!ReconcileFinalizer(BothKeys, api[n]) = api[n]
  BY <1>5, <1>9 DEF Both!NeedsFinalizer
<1>11. Previous \notin Both!ReconcileFinalizer(BothKeys, api[n]).fin
  BY <1>6, SameContract, DomainsOfReleases DEF Both!ReconcileFinalizer, Object
<1> QED BY <1>7, <1>10, <1>11

\* No object is marked by the old prefix alone when the operator drops it: what
\* the gauge no longer saw in the cache is gone from the API server as well.
LEMMA NothingAtTheDrop ==
    ASSUME Both!TypeOK, Both!Fades(Previous), Both!Sees(Both!Tame({})), OffTheOldPrefix,
           \A n \in Namespace : Both!Clear(Previous, cache[n]),
           NEW n \in Namespace
    PROVE  api[n] \in Dropped!Tame({Previous}) \cup {None}
<1>1. CASE api[n] = None
  BY <1>1
<1>2. CASE api[n] # None
  <2>1. api[n].stamp[Previous] = None
    BY <1>2 DEF Both!Clear, Both!Fades
  <2>2. api[n].sync[Previous] = None
    BY <1>2 DEF OffTheOldPrefix
  <2>3. api[n] \in Both!Tame({}) /\ api[n] \in Object
    BY <1>2, SameContract DEF Both!Sees, Both!TypeOK
  <2> QED BY <2>1, <2>2, <2>3, TameObjects
<1> QED BY <1>1, <1>2

LEMMA UpgradeSafe ==
    ASSUME Pinned!TypeOK, Pinned!Sees(Pinned!Tame({Primary})), Upgrade
    PROVE  /\ Both!TypeOK' /\ Both!StaleReadsAreSafe' /\ Both!Sees(Both!Tame({}))'
           /\ Both!NothingForgotten' /\ Both!Fades(Previous)'
<1>1. Both!NoneAssumption /\ Both!SyncerAssumption
  BY InstancesAssume
<1>2. Both!TypeOK /\ Both!Relist /\ ops' = ops
  BY SameTypes DEF Upgrade
<1>3. \A n \in Namespace : api[n] \in Both!Tame({}) \cup {None}
  <2>1. \A n \in Namespace : api[n] \in Object \cup {None}
    BY <1>2, SameContract DEF Both!TypeOK
  <2> QED BY <2>1, TameObjects DEF Pinned!Sees
<1> QED BY <1>1, <1>2, <1>3, Both!Relisted

LEMMA DropSafe ==
    ASSUME ChecksSources, Both!TypeOK, Both!Fades(Previous),
           Both!Sees(Both!Tame({})), GaugeOK, Drop
    PROVE  /\ Dropped!TypeOK' /\ Dropped!StaleReadsAreSafe'
           /\ Dropped!Sees(Dropped!Tame({Previous}))'
<1>1. Dropped!NoneAssumption /\ Dropped!SyncerAssumption
  BY InstancesAssume
<1>2. Dropped!TypeOK /\ Dropped!Relist /\ ops' = ops
  BY SameTypes DEF Drop
<1>3. OffTheOldPrefix /\ \A n \in Namespace : Both!Clear(Previous, cache[n])
  BY DEF Drop, GaugeOK
<1>4. \A n \in Namespace : api[n] \in Dropped!Tame({Previous}) \cup {None}
  BY <1>3, NothingAtTheDrop
<1> QED BY <1>1, <1>2, <1>4, Dropped!Relisted
-----------------------------------------------------------------------------
(* The gauge *)

\* A count is small, and 0 only if no stamp is left.
LEMMA CountFacts ==
    ASSUME Both!TypeOK, Count
    PROVE  /\ gauge' \in 0..Cardinality(Namespace)
           /\ gauge' = 0 => \A n \in Namespace : Both!Clear(Previous, cache[n])
<1> DEFINE S == {n \in Namespace : cache[n] # None /\ cache[n].stamp[Previous] # None}
<1>1. S \in SUBSET Namespace /\ IsFiniteSet(Namespace)
  BY MigrationAssumption
<1>2. /\ IsFiniteSet(S) /\ Cardinality(S) <= Cardinality(Namespace)
      /\ Cardinality(S) \in Nat /\ Cardinality(Namespace) \in Nat
  <2>1. IsFiniteSet(S) /\ Cardinality(S) <= Cardinality(Namespace)
    BY <1>1, FS_Subset
  <2>2. Cardinality(S) \in Nat /\ Cardinality(Namespace) \in Nat
    BY <1>1, <2>1, FS_CardinalityType
  <2> QED BY <2>1, <2>2
<1>3. gauge' = Cardinality(S)
  BY DEF Count
<1>4. Cardinality(S) = 0 => S = {}
  BY <1>2, FS_EmptySet
<1>5. S = {} => \A n \in Namespace : Both!Clear(Previous, cache[n])
  BY DEF Both!Clear
<1> HIDE DEF S
<1> QED BY <1>2, <1>3, <1>4, <1>5
-----------------------------------------------------------------------------
(* Types *)

LEMMA MigrationTypeInit ==
    ASSUME Init PROVE TypeOK
<1>1. Pinned!NoneAssumption /\ Pinned!SyncerAssumption
  BY InstancesAssume
<1>2. Pinned!Init => Pinned!TypeOK
  BY <1>1, Pinned!TypeInit
<1> QED BY <1>2, SameTypes DEF Init, TypeOK

\* What a release's own steps keep, whichever of the three it is.
LEMMA ReleaseTypes ==
    ASSUME Both!TypeOK, Pinned!Next \/ Both!Next \/ Dropped!Next
    PROVE  Both!TypeOK'
<1>1. /\ Pinned!NoneAssumption /\ Both!NoneAssumption /\ Dropped!NoneAssumption
      /\ Pinned!SyncerAssumption /\ Both!SyncerAssumption /\ Dropped!SyncerAssumption
  BY InstancesAssume
<1>2. Pinned!TypeOK /\ Both!TypeOK /\ Dropped!TypeOK
  BY SameTypes
<1>3. (Pinned!TypeOK <=> Both!TypeOK)' /\ (Dropped!TypeOK <=> Both!TypeOK)'
  BY SameTypes, PTL
<1>4. CASE Pinned!Next
  BY <1>1, <1>2, <1>3, <1>4, Pinned!TypeNext
<1>5. CASE Both!Next
  BY <1>1, <1>2, <1>5, Both!TypeNext
<1>6. CASE Dropped!Next
  BY <1>1, <1>2, <1>3, <1>6, Dropped!TypeNext
<1> QED BY <1>4, <1>5, <1>6

\* A restart keeps the types, whichever release starts.
LEMMA RolloutTypes ==
    ASSUME Both!TypeOK, Both!Relist \/ Dropped!Relist, ops' = ops
    PROVE  Both!TypeOK'
<1>1. /\ Both!NoneAssumption /\ Dropped!NoneAssumption
      /\ Both!SyncerAssumption /\ Dropped!SyncerAssumption
  BY InstancesAssume
<1>2. Both!TypeOK /\ Dropped!TypeOK
  BY SameTypes
<1>3. (Dropped!TypeOK <=> Both!TypeOK)'
  BY SameTypes, PTL
<1>4. \A n \in Namespace : api[n] \in Object \cup {None}
  BY SameContract DEF Both!TypeOK
<1>5. CASE Both!Relist
  BY <1>1, <1>2, <1>4, <1>5, Both!Relisted
<1>6. CASE Dropped!Relist
  BY <1>1, <1>2, <1>3, <1>4, <1>6, Dropped!Relisted
<1> QED BY <1>5, <1>6

LEMMA MigrationTypeNext ==
    ASSUME TypeOK, [Next]_vars
    PROVE  TypeOK'
<1>1. Both!TypeOK
  BY DEF TypeOK
<1>2. CASE Run
  BY <1>1, <1>2, ReleaseTypes DEF Run, TypeOK
<1>3. CASE Count
  <2>1. Both!TypeOK'
    BY <1>1, <1>3 DEF Count, syncer, Both!TypeOK
  <2> QED BY <1>1, <1>3, <2>1, CountFacts DEF Count, TypeOK
<1>4. CASE Upgrade
  BY <1>1, <1>4, RolloutTypes DEF Upgrade, TypeOK
<1>5. CASE Drop
  BY <1>1, <1>5, RolloutTypes DEF Drop, TypeOK
<1>6. CASE UNCHANGED vars
  BY <1>1, <1>6 DEF vars, TypeOK, Both!TypeOK
<1> QED BY <1>2, <1>3, <1>4, <1>5, <1>6 DEF Next

\* Over all three releases every variable keeps its type, the gauge included:
\* it never counts more copies than there are namespaces.
THEOREM MigrationTypes == Spec => []TypeOK
<1>1. Init => TypeOK
  BY MigrationTypeInit
<1>2. TypeOK /\ [Next]_vars => TypeOK'
  BY MigrationTypeNext
<1> QED BY <1>1, <1>2, PTL DEF Spec
-----------------------------------------------------------------------------
(* The whole migration *)

LEMMA InitSafe ==
    ASSUME OldWorld, Init PROVE MigrationInv
<1>1. Pinned!NoneAssumption /\ Pinned!SyncerAssumption /\ Pinned!Init
  BY InstancesAssume DEF Init
<1>2. TypeOK
  BY MigrationTypeInit
<1>3. Pinned!StaleReadsAreSafe
  BY <1>1, Pinned!StaleInit
<1>4. \A n \in Namespace : api[n] \in Pinned!Tame({Primary}) \cup {None}
  BY <1>1 DEF OldWorld, Pinned!Init
<1>5. Pinned!Sees(Pinned!Tame({Primary}))
  BY <1>1, <1>4, Pinned!SeesInit
<1>6. gauge # 0
  BY MigrationAssumption DEF Init
<1> QED BY <1>2, <1>3, <1>5, <1>6 DEF Init, MigrationInv, Behaves, GaugeOK

LEMMA RunSafe ==
    ASSUME UsersWait, MigrationInv, Run PROVE Behaves' /\ GaugeOK'
<1>1. release' = release /\ gauge' = gauge
  BY DEF Run
<1>2. Both!TypeOK /\ Pinned!TypeOK /\ Dropped!TypeOK
  BY SameTypes DEF MigrationInv, TypeOK
<1>3. CASE release = "pinned"
  <2>1. Pinned!Next
    BY <1>3 DEF Run
  <2>2. Pinned!StaleReadsAreSafe' /\ Pinned!Sees(Pinned!Tame({Primary}))'
    BY <1>2, <1>3, <2>1, PinnedSteps DEF MigrationInv, Behaves
  <2>3. gauge' = None /\ None # 0
    BY <1>1, <1>3, MigrationAssumption DEF MigrationInv, GaugeOK
  <2> QED BY <1>1, <1>3, <2>2, <2>3 DEF Behaves, GaugeOK
<1>4. CASE release = "both"
  <2>1. Both!Next
    BY <1>4 DEF Run
  <2>2. /\ Both!StaleReadsAreSafe' /\ Both!Sees(Both!Tame({}))'
        /\ Both!NothingForgotten' /\ Both!Fades(Previous)'
        /\ (\A n \in Namespace : Both!Clear(Previous, cache[n])) =>
             \A n \in Namespace : Both!Clear(Previous, cache'[n])
    BY <1>2, <1>4, <2>1, BothSteps DEF MigrationInv, Behaves
  <2> QED BY <1>1, <1>4, <2>2 DEF MigrationInv, Behaves, GaugeOK
<1>5. CASE release = "dropped"
  <2>1. Dropped!Next
    BY <1>5 DEF Run
  <2>2. Dropped!StaleReadsAreSafe' /\ Dropped!Sees(Dropped!Tame({Previous}))'
    BY <1>2, <1>5, <2>1, DroppedSteps DEF MigrationInv, Behaves
  <2>3. gauge' = None /\ None # 0
    BY <1>1, <1>5, MigrationAssumption DEF MigrationInv, GaugeOK
  <2> QED BY <1>1, <1>5, <2>2, <2>3 DEF Behaves, GaugeOK
<1> QED BY <1>3, <1>4, <1>5 DEF MigrationInv, TypeOK

LEMMA MigrationNext ==
    ASSUME ChecksSources, UsersWait, MigrationInv, [Next]_vars
    PROVE  MigrationInv'
<1>1. TypeOK'
  BY MigrationTypeNext DEF MigrationInv
<1> SUFFICES Behaves' /\ GaugeOK'
  BY <1>1 DEF MigrationInv
<1>2. Both!TypeOK /\ Pinned!TypeOK /\ Dropped!TypeOK
  BY SameTypes DEF MigrationInv, TypeOK
<1>3. CASE Run
  BY <1>3, RunSafe
<1>4. ASSUME UNCHANGED syncer, release' = release PROVE Behaves'
  <2>1. [Pinned!Next]_(Pinned!vars) /\ [Both!Next]_(Both!vars) /\ [Dropped!Next]_(Dropped!vars)
    BY <1>4 DEF syncer, Pinned!vars, Both!vars, Dropped!vars
  <2>2. release = "pinned" =>
          Pinned!StaleReadsAreSafe' /\ Pinned!Sees(Pinned!Tame({Primary}))'
    BY <1>2, <2>1, PinnedSteps DEF MigrationInv, Behaves
  <2>3. release = "both" =>
          /\ Both!StaleReadsAreSafe' /\ Both!Sees(Both!Tame({}))'
          /\ Both!NothingForgotten' /\ Both!Fades(Previous)'
    BY <1>2, <2>1, BothSteps DEF MigrationInv, Behaves
  <2>4. release = "dropped" =>
          Dropped!StaleReadsAreSafe' /\ Dropped!Sees(Dropped!Tame({Previous}))'
    BY <1>2, <2>1, DroppedSteps DEF MigrationInv, Behaves
  <2> QED BY <1>4, <2>2, <2>3, <2>4 DEF Behaves
<1>5. CASE Count
  <2>1. UNCHANGED syncer /\ release = "both" /\ release' = "both"
    BY <1>5 DEF Count
  <2>2. GaugeOK'
    BY <1>2, <1>5, <2>1, CountFacts DEF GaugeOK, syncer
  <2> QED BY <1>4, <2>1, <2>2
<1>6. CASE Upgrade
  <2>1. release = "pinned" /\ release' = "both" /\ gauge' = gauge
    BY <1>6 DEF Upgrade
  <2>2. /\ Both!StaleReadsAreSafe' /\ Both!Sees(Both!Tame({}))'
        /\ Both!NothingForgotten' /\ Both!Fades(Previous)'
    BY <1>2, <1>6, <2>1, UpgradeSafe DEF MigrationInv, Behaves
  <2>3. gauge' = None /\ None # 0
    BY <2>1, MigrationAssumption DEF MigrationInv, GaugeOK
  <2> QED BY <2>1, <2>2, <2>3 DEF Behaves, GaugeOK
<1>7. CASE Drop
  <2>1. release = "both" /\ release' = "dropped" /\ gauge' = None
    BY <1>7 DEF Drop
  <2>2. Dropped!StaleReadsAreSafe' /\ Dropped!Sees(Dropped!Tame({Previous}))'
    BY <1>2, <1>7, <2>1, DropSafe DEF MigrationInv, Behaves
  <2>3. None # 0
    BY MigrationAssumption
  <2> QED BY <2>1, <2>2, <2>3 DEF Behaves, GaugeOK
<1>8. CASE UNCHANGED vars
  <2>1. UNCHANGED syncer /\ release' = release /\ gauge' = gauge
    BY <1>8 DEF vars, syncer
  <2>2. GaugeOK'
    BY <2>1 DEF MigrationInv, GaugeOK, syncer
  <2> QED BY <1>4, <2>1, <2>2
<1> QED BY <1>3, <1>5, <1>6, <1>7, <1>8 DEF Next

LEMMA OneRole ==
    ASSUME MigrationInv PROVE CopiesAreNotSources
<1> SUFFICES ASSUME NEW n \in Namespace, api[n] # None
             PROVE  ~(IsManagedCopy(KS, api[n]) /\ IsSource(KS, api[n]))
  BY DEF CopiesAreNotSources
<1>1. api[n] \in Object
  BY SameContract DEF MigrationInv, TypeOK, Both!TypeOK
<1>2. \A ks \in {PinnedKeys, BothKeys} :
        /\ IsManagedCopy(ks, api[n]) <=> \E d \in Honoured(ks) : api[n].stamp[d] # None
        /\ IsSource(ks, api[n]) <=> \E d \in Honoured(ks) : api[n].sync[d] # None
  BY <1>1, KeysOfReleases, ManagedWhenStamped DEF IsSource
<1>3. CASE release = "pinned"
  <2>1. api[n] \in Pinned!Tame({Primary})
    BY <1>3 DEF MigrationInv, Behaves, Pinned!Sees
  <2> QED BY <1>1, <1>2, <1>3, <2>1, TameObjects, DomainsOfReleases DEF KS
<1>4. CASE release = "both"
  <2>1. api[n] \in Both!Tame({})
    BY <1>4 DEF MigrationInv, Behaves, Both!Sees
  <2> QED BY <1>1, <1>2, <1>4, <2>1, TameObjects, DomainsOfReleases DEF KS
<1>5. CASE release = "dropped"
  <2>1. api[n] \in Dropped!Tame({Previous})
    BY <1>5 DEF MigrationInv, Behaves, Dropped!Sees
  <2> QED BY <1>1, <1>2, <1>5, <2>1, TameObjects, DomainsOfReleases DEF KS
<1> QED BY <1>3, <1>4, <1>5 DEF MigrationInv, TypeOK

LEMMA NoMarkOfThePast ==
    ASSUME MigrationInv PROVE OldPrefixUnused
<1> SUFFICES ASSUME release = "dropped", NEW n \in Namespace, api[n] # None
             PROVE  api[n].stamp[Previous] = None /\ api[n].sync[Previous] = None
  BY DEF OldPrefixUnused
<1>1. api[n] \in Object
  BY SameContract DEF MigrationInv, TypeOK, Both!TypeOK
<1>2. api[n] \in Dropped!Tame({Previous})
  BY DEF MigrationInv, Behaves, Dropped!Sees
<1> QED BY <1>1, <1>2, TameObjects

LEMMA MigrationIsSafe ==
    ASSUME ChecksSources, UsersWait, OldWorld
    PROVE  Spec => []MigrationInv
<1>1. Init => MigrationInv
  BY InitSafe
<1>2. MigrationInv /\ [Next]_vars => MigrationInv'
  BY MigrationNext
<1> QED BY <1>1, <1>2, PTL DEF Spec

\* No object is a copy and a source in one, in any release and across both
\* roll-outs, whatever the watch has not delivered yet (applyCopyMeta and the
\* order of the releases).
THEOREM NoMixedRoles ==
    ASSUME ChecksSources, UsersWait, OldWorld
    PROVE  Spec => []CopiesAreNotSources
<1>1. MigrationInv => CopiesAreNotSources
  BY OneRole
<1> QED BY <1>1, MigrationIsSafe, PTL

\* Dropping the old prefix by the README's rule, and nothing more, leaves no copy
\* and no source that carries it, at that moment or later: a gauge that once read
\* 0 stays true, however far the cache lagged when DomainCounter read it, and
\* through crashes and restarts of either release.
THEOREM OldPrefixIsGone ==
    ASSUME ChecksSources, UsersWait, OldWorld
    PROVE  Spec => []OldPrefixUnused
<1>1. MigrationInv => OldPrefixUnused
  BY NoMarkOfThePast
<1> QED BY <1>1, MigrationIsSafe, PTL

-----------------------------------------------------------------------------
(* Finalizers *)

\* What is needed of the two releases before the drop, whatever users do.
Prompt ==
    /\ TypeOK
    /\ release = "pinned" => Pinned!StaleReadsAreSafe
    /\ release = "both" => Both!StaleReadsAreSafe /\ Both!NothingForgotten

LEMMA PromptInit == Init => Prompt
<1> SUFFICES ASSUME Init PROVE Prompt
  OBVIOUS
<1>1. Pinned!NoneAssumption /\ Pinned!SyncerAssumption /\ Pinned!Init
  BY InstancesAssume DEF Init
<1>2. TypeOK
  BY MigrationTypeInit
<1>3. Pinned!StaleReadsAreSafe
  BY <1>1, Pinned!StaleInit
<1> QED BY <1>2, <1>3 DEF Init, Prompt

LEMMA PromptNext == Prompt /\ [Next]_vars => Prompt'
<1> SUFFICES ASSUME Prompt, [Next]_vars PROVE Prompt'
  OBVIOUS
<1>1. TypeOK'
  BY MigrationTypeNext DEF Prompt
<1>2. Both!TypeOK /\ Pinned!TypeOK
  BY SameTypes DEF Prompt, TypeOK
<1>3. /\ Pinned!NoneAssumption /\ Pinned!SyncerAssumption
      /\ Both!NoneAssumption /\ Both!SyncerAssumption
  BY InstancesAssume
<1>4. ASSUME release = "pinned", [Pinned!Next]_(Pinned!vars), release' = release
      PROVE  Prompt'
  <2>1. Pinned!StaleReadsAreSafe'
    BY <1>2, <1>3, <1>4, Pinned!StaleNext DEF Prompt
  <2> QED BY <1>1, <1>4, <2>1 DEF Prompt
<1>5. ASSUME release = "both", [Both!Next]_(Both!vars), release' = release
      PROVE  Prompt'
  <2>1. Both!StaleReadsAreSafe /\ Both!NothingForgotten
    BY <1>5 DEF Prompt
  <2>2. Both!StaleReadsAreSafe'
    BY <1>2, <1>3, <1>5, <2>1, Both!StaleNext
  <2>3. Both!NothingForgotten'
    BY <1>2, <1>3, <1>5, <2>1, Both!ForgetNext
  <2> QED BY <1>1, <1>5, <2>2, <2>3 DEF Prompt
<1>6. ASSUME release' = "dropped" PROVE Prompt'
  BY <1>1, <1>6 DEF Prompt
<1>7. CASE Upgrade
  <2>1. Both!TypeOK /\ Both!Relist /\ ops' = ops /\ release' = "both"
    BY <1>2, <1>7 DEF Upgrade
  <2>2. \A n \in Namespace : api[n] \in Object \cup {None}
    BY <1>2, SameContract DEF Both!TypeOK
  <2>3. Both!StaleReadsAreSafe' /\ Both!NothingForgotten'
    BY <1>3, <2>1, <2>2, Both!Relisted
  <2> QED BY <1>1, <2>1, <2>3 DEF Prompt
<1>8. CASE Drop
  BY <1>6, <1>8 DEF Drop
<1>9. CASE Run
  BY <1>4, <1>5, <1>6, <1>9 DEF Run
<1>10. ASSUME UNCHANGED syncer, release' = release PROVE Prompt'
  <2>1. [Pinned!Next]_(Pinned!vars) /\ [Both!Next]_(Both!vars)
    BY <1>10 DEF syncer, Pinned!vars, Both!vars
  <2> QED BY <1>4, <1>5, <1>6, <1>10, <2>1 DEF Prompt, TypeOK
<1>11. CASE Count \/ UNCHANGED vars
  BY <1>10, <1>11 DEF Count, vars, syncer
<1> QED BY <1>7, <1>8, <1>9, <1>11 DEF Next

\* However users annotate and whatever fails, the release that honours both
\* domains comes to rest only when no finalizer of the old prefix is left.
THEOREM FinalizersAreMoved == Spec => []FinalizersMove
<1>1. Prompt => FinalizersMove
  <2> SUFFICES ASSUME Prompt, release = "both", Converged,
                      NEW n \in Namespace, api[n] # None
               PROVE  Previous \notin api[n].fin
    BY DEF FinalizersMove
  <2> QED BY FinalizersMoved DEF Prompt, TypeOK
<1> QED BY <1>1, PromptInit, PromptNext, PTL DEF Spec
=============================================================================
