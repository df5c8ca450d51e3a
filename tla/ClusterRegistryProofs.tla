------------------------- MODULE ClusterRegistryProofs -------------------------
(***************************************************************************)
(* The registry's safety for any number of credentials, clusters, source   *)
(* controllers and environment steps, and channels of any size.            *)
(***************************************************************************)
EXTENDS ClusterRegistryProperties, TLAPS

(* Typing *)

LEMMA ConstantFacts ==
    /\ Self \in Cluster /\ None \notin Cluster /\ None \notin Id /\ None # Self
    /\ ChannelSize \in Nat /\ MaxOps \in Nat
BY RegistryAssumption

LEMMA WorkerFacts ==
    ASSUME TypeOK, wk.pc # "idle"
    PROVE  /\ wk \in Working /\ wk.id \in Id
           /\ wk.pc \in {"check", "vet", "store"} =>
                wk.client \in Cluster /\ wk = [pc |-> wk.pc, id |-> wk.id, client |-> wk.client]
           /\ wk.pc = "announce" =>
                /\ wk.untold \in SUBSET Kind
                /\ wk = [pc |-> "announce", id |-> wk.id, untold |-> wk.untold]
           /\ wk.pc \in {"remove", "clear"} =>
                wk.again \in BOOLEAN /\ wk = [pc |-> wk.pc, id |-> wk.id, again |-> wk.again]
<1>1. wk \in Working
  BY DEF TypeOK, Idle
<1> QED BY <1>1 DEF Working

LEMMA WalkFacts ==
    ASSUME TypeOK, NEW kind \in Kind
    PROVE  /\ walk[kind].todo \in SUBSET Id /\ walk[kind].client \in Cluster \cup {None}
           /\ walk[kind].id = None <=> walk[kind].client = None
           /\ walk[kind] # Resting => walk[kind] \in Walking
           /\ walk[kind].id # None => walk[kind] \in Walking /\ walk[kind].id \in Id
           /\ walk[kind].todo # {} => walk[kind] \in Walking
BY DEF TypeOK, Resting, Walking

LEMMA TypeInit == Init => TypeOK
BY ConstantFacts, SecretAssumption DEF Init, TypeOK

LEMMA TypeDeliver ==
    ASSUME TypeOK, NEW id \in Id, Deliver(id) \/ Wake(id)
    PROVE  TypeOK'
BY DEF Deliver, Wake, TypeOK, walkers, world

\* A step of the worker, given what it makes of itself and of the shared state.
LEMMA TypeWorkerStep ==
    ASSUME TypeOK, wk' \in {Idle} \cup Working,
           registry' \in [Id -> Cluster \cup {None}], gauge' \in [Id -> {0, 1, None}],
           queue' \subseteq Id, timed' \subseteq Id, channel' \in [Kind -> Seq(Id)],
           UNCHANGED walkers, UNCHANGED world
    PROVE  TypeOK'
BY DEF TypeOK, walkers, world

LEMMA TypeBegin ==
    ASSUME TypeOK, NEW id \in Id, Begin(id)
    PROVE  TypeOK'
<1>1. CASE Deregister(id)
  <2>1. wk' \in Working
    BY <1>1 DEF Deregister, Working
  <2> QED BY <1>1, <2>1, TypeWorkerStep DEF Deregister, Take, TypeOK
<1>2. CASE BuildClient(id)
  <2>1. seen[id].kubeconfig \in Cluster
    BY <1>2 DEF BuildClient, TypeOK, Secret
  <2>2. wk' \in Working
    BY <1>2, <2>1 DEF BuildClient, Working
  <2> QED BY <1>2, <2>2, TypeWorkerStep DEF BuildClient, Take, TypeOK
<1> QED BY <1>1, <1>2 DEF Begin

LEMMA TypeGoOn ==
    ASSUME TypeOK, NEW next \in Working, GoOn(next)
    PROVE  TypeOK'
BY TypeWorkerStep DEF GoOn, TypeOK

\* The checks decide where the worker goes on; nothing else changes.
Decide ==
    \/ CheckReachable \/ CheckUnreachable
    \/ RefuseUnverified \/ RefuseSelf \/ Accept

LEMMA DecideStep ==
    ASSUME TypeOK, Decide
    PROVE  /\ \E next \in Working : GoOn(next)
           /\ HubKnown /\ wk'.pc = "store" => wk'.client # Self
           /\ wk'.pc \notin {"up", "clear"}
<1> DEFINE vet == [pc |-> "vet", id |-> wk.id, client |-> wk.client]
           store == [pc |-> "store", id |-> wk.id, client |-> wk.client]
           down == [pc |-> "down", id |-> wk.id]
           remove(again) == [pc |-> "remove", id |-> wk.id, again |-> again]
<1>1. /\ wk.id \in Id /\ wk.client \in Cluster /\ wk.pc \in {"check", "vet"}
      /\ wk = [pc |-> wk.pc, id |-> wk.id, client |-> wk.client]
  BY WorkerFacts DEF Decide, CheckReachable, CheckUnreachable, RefuseUnverified,
                     RefuseSelf, Accept
<1>2. /\ vet \in Working /\ store \in Working /\ down \in Working
      /\ remove(TRUE) \in Working /\ remove(FALSE) \in Working
  BY <1>1 DEF Working
<1>3. [wk EXCEPT !.pc = "vet"] = vet /\ [wk EXCEPT !.pc = "store"] = store
  BY <1>1
<1>4. CASE Accept
  BY <1>2, <1>3, <1>4 DEF Accept, GoOn
<1>5. CASE CheckReachable
  BY <1>2, <1>3, <1>5 DEF CheckReachable, GoOn
<1>6. CASE CheckUnreachable
  BY <1>2, <1>6 DEF CheckUnreachable, GoOn
<1>7. CASE RefuseUnverified
  BY <1>2, <1>7 DEF RefuseUnverified, GoOn
<1>8. CASE RefuseSelf
  BY <1>2, <1>8 DEF RefuseSelf, GoOn
<1> QED BY <1>4, <1>5, <1>6, <1>7, <1>8 DEF Decide

LEMMA TypeProceed ==
    ASSUME TypeOK, Proceed
    PROVE  TypeOK'
<1> USE ConstantFacts
<1>1. CASE Decide
  BY <1>1, DecideStep, TypeGoOn
<1>2. CASE Store
  <2>1. wk.id \in Id /\ wk.client \in Cluster
    BY <1>2, WorkerFacts DEF Store
  <2>2. wk' \in Working
    BY <1>2, <2>1 DEF Store, Working
  <2> QED BY <1>2, <2>1, <2>2, TypeWorkerStep DEF Store, TypeOK
<1>3. CASE SetUp
  <2>1. wk.id \in Id
    BY <1>3, WorkerFacts DEF SetUp
  <2>2. wk' \in {Idle} \cup Working
    BY <1>3, <2>1 DEF SetUp, RequeueAfter, Working
  <2>3. gauge' \in [Id -> {0, 1, None}]
    BY <1>3, <2>1 DEF SetUp, TypeOK
  <2> QED BY <1>3, <2>1, <2>2, <2>3, TypeWorkerStep DEF SetUp, RequeueAfter, TypeOK
<1>4. CASE Remove
  <2>1. /\ wk.id \in Id /\ wk.again \in BOOLEAN
        /\ wk' = [pc |-> "clear", id |-> wk.id, again |-> wk.again]
    BY <1>4, WorkerFacts DEF Remove
  <2>2. wk' \in Working
    BY <2>1 DEF Working
  <2> QED BY <1>4, <2>1, <2>2, TypeWorkerStep DEF Remove, TypeOK
<1>5. CASE ClearGauge
  <2>1. wk.id \in Id
    BY <1>5, WorkerFacts DEF ClearGauge
  <2>2. wk' = Idle /\ queue' \subseteq Id /\ timed' \subseteq Id
    BY <1>5, <2>1 DEF ClearGauge, DoneRemoving, RequeueAfter, TypeOK
  <2> QED BY <1>5, <2>1, <2>2, TypeWorkerStep DEF ClearGauge, TypeOK
<1>6. ASSUME NEW kind \in Kind, Announce(kind) PROVE TypeOK'
  <2>1. /\ wk.id \in Id /\ wk.untold \in SUBSET Kind
        /\ wk' = [pc |-> "announce", id |-> wk.id, untold |-> wk.untold \ {kind}]
    BY <1>6, WorkerFacts DEF Announce
  <2>2. wk' \in Working
    BY <2>1 DEF Working
  <2>3. channel' \in [Kind -> Seq(Id)]
    BY <1>6, <2>1 DEF Announce, TypeOK
  <2> QED BY <1>6, <2>2, <2>3, TypeWorkerStep DEF Announce, TypeOK
<1>7. CASE FinishAnnouncing
  <2>1. wk.id \in Id
    BY <1>7, WorkerFacts DEF FinishAnnouncing
  <2> QED BY <1>7, <2>1, TypeWorkerStep DEF FinishAnnouncing, RequeueAfter, TypeOK
<1> QED BY <1>1, <1>2, <1>3, <1>4, <1>5, <1>6, <1>7 DEF Proceed, Decide

\* A step of a walk, given what it makes of the walk.
LEMMA TypeWalkStep ==
    ASSUME TypeOK, NEW kind \in Kind, NEW new \in {Resting} \cup Walking,
           walk' = [walk EXCEPT ![kind] = new],
           due' \in [Kind -> SUBSET Id],
           reached' \in [Kind -> [Id -> Cluster \cup {None}]],
           UNCHANGED hub, UNCHANGED world
    PROVE  TypeOK'
<1>1. walk' \in [Kind -> {Resting} \cup Walking]
  BY DEF TypeOK
<1> QED BY <1>1 DEF TypeOK, hub, world

LEMMA TypeWalks ==
    ASSUME TypeOK, NEW kind \in Kind,
           \/ Receive(kind) \/ Walk(kind)
           \/ \E src \in Id : StartWalk(kind, src)
    PROVE  TypeOK'
<1> USE ConstantFacts
<1>1. CASE Receive(kind)
  <2>1. Head(channel[kind]) \in Id /\ Tail(channel[kind]) \in Seq(Id)
    BY <1>1 DEF Receive, TypeOK
  <2>2. channel' \in [Kind -> Seq(Id)] /\ due' \in [Kind -> SUBSET Id]
    BY <1>1, <2>1 DEF Receive, TypeOK
  <2> QED BY <1>1, <2>2 DEF Receive, TypeOK, world
<1>2. ASSUME NEW src \in Id, StartWalk(kind, src) PROVE TypeOK'
  <2> DEFINE new == [Resting EXCEPT !.src = src, !.todo = IDs]
  <2>1. new \in Walking
    BY DEF Resting, Walking, IDs
  <2>2. walk' = [walk EXCEPT ![kind] = new] /\ due' \in [Kind -> SUBSET Id]
    BY <1>2 DEF StartWalk, TypeOK
  <2>3. /\ reached' \in [Kind -> [Id -> Cluster \cup {None}]]
        /\ UNCHANGED hub /\ UNCHANGED world
    BY <1>2 DEF StartWalk, TypeOK
  <2> HIDE DEF new
  <2> QED BY <2>1, <2>2, <2>3, TypeWalkStep
<1>3. ASSUME NEW id \in Id, ClientFor(kind, id) PROVE TypeOK'
  <2> DEFINE w == walk[kind]
             new == IF registry[id] = None THEN [w EXCEPT !.todo = w.todo \ {id}]
                    ELSE [w EXCEPT !.todo = w.todo \ {id}, !.id = id,
                                   !.client = registry[id]]
  <2>1. walk[kind] \in Walking
    BY <1>3, WalkFacts DEF ClientFor
  <2>2. new \in Walking
    <3>1. CASE registry[id] = None
      BY <2>1, <3>1 DEF Walking
    <3>2. CASE registry[id] # None
      BY <2>1, <3>2 DEF Walking, TypeOK
    <3> QED BY <3>1, <3>2
  <2>3. walk' = [walk EXCEPT ![kind] = new]
    <3>1. CASE registry[id] = None
      BY <1>3, <3>1 DEF ClientFor
    <3>2. CASE registry[id] # None
      BY <1>3, <3>2 DEF ClientFor
    <3> QED BY <3>1, <3>2
  <2>4. /\ due' \in [Kind -> SUBSET Id]
        /\ reached' \in [Kind -> [Id -> Cluster \cup {None}]]
        /\ UNCHANGED hub /\ UNCHANGED world
    BY <1>3 DEF ClientFor, TypeOK
  <2> HIDE DEF new
  <2> QED BY <2>2, <2>3, <2>4, TypeWalkStep
<1>4. CASE UseClient(kind)
  <2> DEFINE c == walk[kind].client
  <2>1. walk[kind] \in Walking /\ walk[kind].id \in Id /\ c \in Cluster
    BY <1>4, WalkFacts DEF UseClient
  <2>2. PICK failed \in BOOLEAN :
          walk' = [walk EXCEPT ![kind] =
                     [walk[kind] EXCEPT !.id = None, !.client = None, !.failed = failed]]
    BY <1>4, <2>1 DEF UseClient, Walking, TypeOK
  <2>3. [walk[kind] EXCEPT !.id = None, !.client = None, !.failed = failed] \in Walking
    BY <2>1 DEF Walking
  <2>4. reached' \in [Kind -> [Id -> Cluster \cup {None}]]
    BY <1>4, <2>1 DEF UseClient, TypeOK
  <2>5. due' \in [Kind -> SUBSET Id] /\ UNCHANGED hub /\ UNCHANGED world
    BY <1>4 DEF UseClient, TypeOK
  <2> QED BY <2>2, <2>3, <2>4, <2>5, TypeWalkStep
<1>5. CASE FinishWalk(kind)
  <2>1. walk[kind].src \in Id
    BY <1>5, WalkFacts DEF FinishWalk, Walking
  <2> QED BY <1>5, <2>1 DEF FinishWalk, TypeOK, hub, world
<1> QED BY <1>1, <1>2, <1>3, <1>4, <1>5 DEF Walk

LEMMA TypeEnvironment ==
    ASSUME TypeOK, Environment
    PROVE  TypeOK'
<1> USE ConstantFacts DEF May
<1>1. ASSUME NEW id \in Id, NEW secret \in Secret \cup {None}, Change(id, secret)
      PROVE  /\ secrets' \in [Id -> Secret \cup {None}]
             /\ UNCHANGED <<seen, reachable, readable>>
             /\ UNCHANGED hub /\ UNCHANGED walkers
  BY <1>1 DEF Change, TypeOK
<1>2. ASSUME NEW id \in Id, Create(id) \/ Delete(id) \/ Repoint(id) \/ Relabel(id)
      PROVE  TypeOK'
  <2>1. PICK secret \in Secret \cup {None} : Change(id, secret)
    <3>1. CASE Create(id) \/ Delete(id)
      BY <3>1 DEF Create, Delete
    <3>2. CASE Repoint(id)
      <4>1. secrets[id] \in Secret
        BY <3>2 DEF Repoint, TypeOK
      <4>2. PICK target \in Cluster \cup {Malformed} :
              Change(id, [secrets[id] EXCEPT !.kubeconfig = target])
        BY <3>2 DEF Repoint
      <4>3. [secrets[id] EXCEPT !.kubeconfig = target] \in Secret
        BY <4>1 DEF Secret
      <4> QED BY <4>2, <4>3
    <3>3. CASE Relabel(id)
      <4>1. secrets[id] \in Secret
        BY <3>3 DEF Relabel, TypeOK
      <4>2. [secrets[id] EXCEPT !.label = ~@] \in Secret
        BY <4>1 DEF Secret
      <4> QED BY <3>3, <4>2 DEF Relabel
    <3> QED BY <1>2, <3>1, <3>2, <3>3
  <2>2. ops' \in 0..MaxOps
    BY <1>2 DEF Create, Delete, Repoint, Relabel, TypeOK
  <2> QED BY <1>1, <2>1, <2>2 DEF TypeOK, hub, walkers
<1>3. ASSUME NEW c \in Cluster, Outage(c) \/ Recover(c) \/ Rebind(c)
      PROVE  TypeOK'
  BY <1>3 DEF Outage, Recover, Rebind, TypeOK, hub, walkers
<1>4. CASE Restart
  <2>1. registry' = [id \in Id |-> None] /\ gauge' = [id \in Id |-> None]
    BY <1>4 DEF Restart
  <2>2. channel' \in [Kind -> Seq(Id)] /\ walk' \in [Kind -> {Resting} \cup Walking]
    BY <1>4 DEF Restart
  <2> QED BY <1>4, <2>1, <2>2 DEF Restart, TypeOK
<1> QED BY <1>2, <1>3, <1>4 DEF Environment

LEMMA TypeNext == TypeOK /\ [Next]_vars => TypeOK'
<1>1. TypeOK /\ UNCHANGED vars => TypeOK'
  BY DEF vars, TypeOK
<1> QED BY <1>1, TypeDeliver, TypeBegin, TypeProceed, TypeWalks, TypeEnvironment
        DEF Next

\* The registry, the credential worker and the walks keep their types; in
\* particular a walk holds a client exactly while it visits a cluster.
THEOREM TypeCorrect == Spec => []TypeOK
BY TypeInit, TypeNext, PTL DEF Spec

-----------------------------------------------------------------------------
(* Never the hub *)

\* The client about to be stored has been told from the hub.
StoreIsVetted == HubKnown /\ wk.pc = "store" => wk.client # Self

LEMMA StoreIsVettedNext == TypeOK /\ StoreIsVetted /\ [Next]_vars => StoreIsVetted'
<1> SUFFICES ASSUME TypeOK, StoreIsVetted, [Next]_vars PROVE StoreIsVetted'
  OBVIOUS
<1>1. CASE UNCHANGED wk
  BY <1>1 DEF StoreIsVetted
<1>2. ASSUME wk'.pc # "store" PROVE StoreIsVetted'
  BY <1>2 DEF StoreIsVetted
<1>3. CASE Decide
  BY <1>3, DecideStep DEF StoreIsVetted
<1>4. CASE Store \/ SetUp \/ FinishAnnouncing \/ ClearGauge
  BY <1>2, <1>4 DEF Store, SetUp, FinishAnnouncing, ClearGauge, DoneRemoving,
                    RequeueAfter, Idle
<1>5. CASE Remove
  BY <1>2, <1>5, WorkerFacts DEF Remove
<1>6. ASSUME NEW kind \in Kind, Announce(kind) PROVE StoreIsVetted'
  <2>1. wk' = [pc |-> "announce", id |-> wk.id, untold |-> wk.untold \ {kind}]
    BY <1>6, WorkerFacts DEF Announce
  <2> QED BY <1>2, <2>1
<1>7. ASSUME NEW id \in Id, Begin(id) PROVE StoreIsVetted'
  BY <1>2, <1>7 DEF Begin, Deregister, BuildClient
<1>8. CASE Restart
  BY <1>2, <1>8 DEF Restart, Idle
<1>9. ASSUME NEW id \in Id, Deliver(id) \/ Wake(id) PROVE StoreIsVetted'
  BY <1>1, <1>9 DEF Deliver, Wake
<1>10. ASSUME NEW kind \in Kind,
              \/ Receive(kind) \/ Walk(kind)
              \/ \E src \in Id : StartWalk(kind, src)
       PROVE  StoreIsVetted'
  BY <1>1, <1>10 DEF Receive, Walk, UseClient, FinishWalk, ClientFor, StartWalk, hub
<1>11. CASE Environment
  BY <1>1, <1>8, <1>11 DEF Environment, Create, Delete, Repoint, Relabel, Change,
                           Outage, Recover, Rebind, hub
<1>12. CASE UNCHANGED vars
  BY <1>1, <1>12 DEF vars
<1> QED BY <1>3, <1>4, <1>5, <1>6, <1>7, <1>9, <1>10, <1>11, <1>12
        DEF Next, Proceed, Decide

LEMMA NeverSelfNext == TypeOK /\ StoreIsVetted /\ NeverSelf /\ [Next]_vars => NeverSelf'
<1> SUFFICES ASSUME TypeOK, StoreIsVetted, NeverSelf, [Next]_vars, HubKnown
             PROVE  /\ \A id \in Id : registry'[id] # Self
                    /\ \A kind \in Kind : walk'[kind].client # Self
  BY DEF NeverSelf
<1> USE ConstantFacts
<1>1. /\ \A id \in Id : registry[id] # Self
      /\ \A kind \in Kind : walk[kind].client # Self
  BY DEF NeverSelf
<1>2. \A id \in Id : registry'[id] # Self
  <2>1. CASE UNCHANGED registry \/ Restart
    BY <1>1, <2>1 DEF Restart
  <2>2. CASE Store
    BY <1>1, <2>2 DEF Store, StoreIsVetted, TypeOK
  <2>3. CASE Remove
    BY <1>1, <2>3 DEF Remove, TypeOK
  <2>4. CASE Decide
    BY <2>1, <2>4, DecideStep DEF GoOn
  <2>5. ASSUME NEW id \in Id, Begin(id) PROVE UNCHANGED registry
    BY <2>5 DEF Begin, Deregister, BuildClient
  <2>6. CASE UNCHANGED vars
    BY <2>1, <2>6 DEF vars
  <2>7. ASSUME NEW kind \in Kind, Announce(kind) PROVE UNCHANGED registry
    BY <2>7 DEF Announce
  <2>8. CASE SetUp \/ FinishAnnouncing \/ ClearGauge
    BY <2>1, <2>8 DEF SetUp, FinishAnnouncing, ClearGauge
  <2>9. ASSUME NEW id \in Id, Deliver(id) \/ Wake(id) PROVE UNCHANGED registry
    BY <2>9 DEF Deliver, Wake
  <2>10. ASSUME NEW kind \in Kind,
               \/ Receive(kind) \/ Walk(kind)
               \/ \E src \in Id : StartWalk(kind, src)
        PROVE  UNCHANGED registry
    BY <2>10 DEF Receive, Walk, UseClient, FinishWalk, ClientFor, StartWalk, hub
  <2>11. CASE Environment
    BY <2>1, <2>11 DEF Environment, Create, Delete, Repoint, Relabel, Change,
                       Outage, Recover, Rebind, hub
  <2> QED BY <2>1, <2>2, <2>3, <2>4, <2>5, <2>6, <2>7, <2>8, <2>9, <2>10, <2>11
          DEF Next, Proceed, Decide
<1>3. \A kind \in Kind : walk'[kind].client # Self
  <2>1. CASE UNCHANGED walk
    BY <1>1, <2>1
  <2>2. ASSUME NEW kind \in Kind, NEW id \in Id, ClientFor(kind, id)
        PROVE  \A k \in Kind : walk'[k].client # Self
    <3>1. walk[kind] \in Walking
      BY <2>2, WalkFacts DEF ClientFor
    <3>2. walk'[kind].client \in {walk[kind].client, registry[id]}
      BY <2>2, <3>1 DEF ClientFor, Walking, TypeOK
    <3> QED BY <1>1, <2>2, <3>2 DEF ClientFor, TypeOK
  <2>3. ASSUME NEW kind \in Kind, UseClient(kind)
        PROVE  \A k \in Kind : walk'[k].client # Self
    <3>1. walk[kind] \in Walking
      BY <2>3, WalkFacts DEF UseClient
    <3>2. walk'[kind].client = None
      BY <2>3, <3>1 DEF UseClient, Walking, TypeOK
    <3> QED BY <1>1, <2>3, <3>2 DEF UseClient, TypeOK
  <2>4. ASSUME NEW kind \in Kind,
               FinishWalk(kind) \/ \E src \in Id : StartWalk(kind, src)
        PROVE  \A k \in Kind : walk'[k].client # Self
    <3>1. ASSUME NEW new, new.client = None, walk' = [walk EXCEPT ![kind] = new]
          PROVE  \A k \in Kind : walk'[k].client # Self
      BY <1>1, <3>1 DEF TypeOK
    <3>2. CASE FinishWalk(kind)
      BY <3>1, <3>2 DEF FinishWalk, Resting
    <3>3. ASSUME NEW src \in Id, StartWalk(kind, src)
          PROVE  \A k \in Kind : walk'[k].client # Self
      <4> DEFINE new == [Resting EXCEPT !.src = src, !.todo = IDs]
      <4>1. new.client = None
        BY DEF Resting
      <4>2. walk' = [walk EXCEPT ![kind] = new]
        BY <3>3 DEF StartWalk
      <4> HIDE DEF new
      <4> QED BY <3>1, <4>1, <4>2
    <3> QED BY <2>4, <3>2, <3>3
  <2>5. CASE Restart
    BY <2>5 DEF Restart, Resting
  <2>6. CASE UNCHANGED vars
    BY <2>1, <2>6 DEF vars
  <2>7. ASSUME NEW id \in Id, Deliver(id) \/ Wake(id) \/ Begin(id)
        PROVE  UNCHANGED walk
    BY <2>7 DEF Deliver, Wake, Begin, Deregister, BuildClient, walkers
  <2>8. CASE Proceed
    BY <2>1, <2>8 DEF Proceed, CheckReachable, CheckUnreachable, RefuseUnverified,
                      RefuseSelf, Accept, GoOn, Store, SetUp, Announce,
                      FinishAnnouncing, Remove, ClearGauge, walkers
  <2>9. ASSUME NEW kind \in Kind, Receive(kind) PROVE UNCHANGED walk
    BY <2>9 DEF Receive
  <2>10. CASE Environment
    BY <2>1, <2>5, <2>10 DEF Environment, Create, Delete, Repoint, Relabel, Change,
                             Outage, Recover, Rebind, walkers
  <2> QED BY <2>1, <2>2, <2>3, <2>4, <2>6, <2>7, <2>8, <2>9, <2>10 DEF Next, Walk
<1> QED BY <1>2, <1>3

\* A hub that knows who it is never holds a client of itself: not in the
\* registry, not in a walk that took its client before the Secret changed.
THEOREM RegistryIsNeverSelf == Spec => []NeverSelf
<1>1. Init => NeverSelf /\ StoreIsVetted
  BY ConstantFacts DEF Init, NeverSelf, StoreIsVetted, Resting, Idle
<1> QED BY <1>1, NeverSelfNext, StoreIsVettedNext, TypeCorrect, PTL DEF Spec

-----------------------------------------------------------------------------
(* The gauge *)

\* The worker alone writes the map: what it has just done to an entry is still
\* so when it comes to the entry's series.
StillSo ==
    /\ wk.pc = "up" => registry[wk.id] # None
    /\ wk.pc = "clear" => registry[wk.id] = None

LEMMA StillSoNext ==
    TypeOK /\ StillSo /\ GaugeIsHonest /\ [Next]_vars => StillSo' /\ GaugeIsHonest'
<1> SUFFICES ASSUME TypeOK, StillSo, GaugeIsHonest, [Next]_vars
             PROVE  StillSo' /\ GaugeIsHonest'
  OBVIOUS
<1>0. None \notin {0, 1} \cup Cluster
  BY RegistryAssumption
<1>1. CASE UNCHANGED <<registry, gauge, wk>>
  BY <1>1 DEF StillSo, GaugeIsHonest, Halfway
\* A step that leaves map and gauge alone must neither open nor end a window.
<1>2. ASSUME UNCHANGED <<registry, gauge>>, wk.pc \notin {"up", "clear"},
             wk'.pc \notin {"up", "clear"}
      PROVE  StillSo' /\ GaugeIsHonest'
  BY <1>2 DEF StillSo, GaugeIsHonest, Halfway
<1>3. CASE Store
  <2>1. wk.id \in Id /\ wk.client # None
    BY <1>0, <1>3, WorkerFacts DEF Store
  <2> QED BY <1>0, <1>3, <2>1 DEF Store, StillSo, GaugeIsHonest, Halfway, TypeOK
<1>4. CASE SetUp
  <2>1. wk.id \in Id /\ wk'.pc \notin {"up", "clear"}
    BY <1>4, WorkerFacts DEF SetUp, RequeueAfter, Idle
  <2> QED BY <1>0, <1>4, <2>1 DEF SetUp, StillSo, GaugeIsHonest, Halfway, TypeOK
<1>5. CASE Remove
  <2>1. wk.id \in Id /\ wk' = [pc |-> "clear", id |-> wk.id, again |-> wk.again]
    BY <1>5, WorkerFacts DEF Remove
  <2> QED BY <1>0, <1>5, <2>1 DEF Remove, StillSo, GaugeIsHonest, Halfway, TypeOK
<1>6. CASE ClearGauge
  <2>1. wk.id \in Id /\ wk' = Idle
    BY <1>6, WorkerFacts DEF ClearGauge, DoneRemoving, RequeueAfter
  <2> QED BY <1>0, <1>6, <2>1
          DEF ClearGauge, Idle, StillSo, GaugeIsHonest, Halfway, TypeOK
<1>7. CASE Decide
  <2>1. UNCHANGED <<registry, gauge>> /\ wk'.pc \notin {"up", "clear"}
    BY <1>7, DecideStep DEF GoOn
  <2>2. wk.pc \notin {"up", "clear"}
    BY <1>7 DEF Decide, CheckReachable, CheckUnreachable, RefuseUnverified,
                RefuseSelf, Accept
  <2> QED BY <1>2, <2>1, <2>2
<1>8. ASSUME NEW kind \in Kind, Announce(kind) PROVE StillSo' /\ GaugeIsHonest'
  <2>1. wk' = [pc |-> "announce", id |-> wk.id, untold |-> wk.untold \ {kind}]
    BY <1>8, WorkerFacts DEF Announce
  <2> QED BY <1>2, <1>8, <2>1 DEF Announce
<1>9. CASE FinishAnnouncing
  BY <1>2, <1>9 DEF FinishAnnouncing, RequeueAfter, Idle
<1>10. ASSUME NEW id \in Id, Begin(id) PROVE StillSo' /\ GaugeIsHonest'
  BY <1>2, <1>10 DEF Begin, Deregister, BuildClient, Take, Idle
<1>11. CASE Restart
  BY <1>0, <1>11 DEF Restart, Idle, StillSo, GaugeIsHonest, Halfway
<1>12. ASSUME NEW id \in Id, Deliver(id) \/ Wake(id) PROVE StillSo' /\ GaugeIsHonest'
  BY <1>1, <1>12 DEF Deliver, Wake
<1>13. ASSUME NEW kind \in Kind,
              \/ Receive(kind) \/ Walk(kind)
              \/ \E src \in Id : StartWalk(kind, src)
       PROVE  StillSo' /\ GaugeIsHonest'
  BY <1>1, <1>13 DEF Receive, Walk, UseClient, FinishWalk, ClientFor, StartWalk, hub
<1>14. CASE Environment
  BY <1>1, <1>11, <1>14 DEF Environment, Create, Delete, Repoint, Relabel, Change,
                            Outage, Recover, Rebind, hub
<1>15. CASE UNCHANGED vars
  BY <1>1, <1>15 DEF vars
<1> QED BY <1>3, <1>4, <1>5, <1>6, <1>7, <1>8, <1>9, <1>10, <1>12, <1>13, <1>14, <1>15
        DEF Next, Proceed, Decide

\* A scrape at any moment, between the calls too, shows a cluster up only if it
\* is registered or just being removed, and shows every registered cluster that
\* is not just being stored.
THEOREM GaugeAgrees == Spec => []GaugeIsHonest
<1>1. Init => GaugeIsHonest /\ StillSo
  BY RegistryAssumption DEF Init, GaugeIsHonest, StillSo, Idle
<1> QED BY <1>1, StillSoNext, TypeCorrect, PTL DEF Spec
=============================================================================
