-------------------------- MODULE CrossClusterProofs --------------------------
(***************************************************************************)
(* Replication into other clusters, for any number of hubs, spokes and     *)
(* namespaces and any interleaving of their calls.                         *)
(***************************************************************************)
EXTENDS CrossClusterProperties, KeySetProofs

(* Typing *)

LEMMA KeysFacts ==
    /\ Keys \in KeySetType
    /\ Keys.primary \in Domain
    /\ Keys.primary \notin LegacyDomains(Keys)
    /\ Keys.primary \in Honoured(Keys)
    /\ Honoured(Keys) \subseteq Domain
    /\ Each(Keys) \in Seq(Domain)
BY CrossClusterAssumption, EachFacts DEF KeySetType

LEMMA ObjectWrites ==
    ASSUME NEW obj \in Object
    PROVE  /\ ReconcileFinalizer(Keys, obj) \in Object
           /\ RemoveAllFinalizers(Keys, obj) \in Object
           /\ Deleted(obj) \in Object \cup {None}
           /\ Released(obj) \in Object \cup {None}
BY KeysFacts DEF ReconcileFinalizer, RemoveAllFinalizers, Deleted, Released, Object

LEMMA SourceFacts ==
    ASSUME NEW src \in Source
    PROVE  /\ src # None /\ src.obj \in Object /\ src.obj # None
           /\ \A obj \in Object : [src EXCEPT !.obj = obj] \in Source
BY CrossClusterAssumption, NoneAssumption DEF Source

\* The state of a hub, and of a worker that is in the middle of a reconcile.
LEMMA HubFacts ==
    ASSUME TypeOK, NEW h \in Hub
    PROVE  /\ wk[h] \in {Idle} \cup Busy
           /\ wk[h] = Idle <=> wk[h].pc = "idle"
           /\ wk[h] # Idle <=> wk[h] \in Busy
           /\ \A k \in Namespace : sources[h][k] \in Source \cup {None}
BY DEF TypeOK, Idle, Busy

LEMMA BusyFacts ==
    ASSUME TypeOK, NEW h \in Hub, wk[h].pc \in {"next", "upsert", "write", "sweep"}
    PROVE  /\ wk[h] \in Busy /\ wk[h] # Idle
           /\ wk[h].key \in Namespace /\ wk[h].src \in Source
           /\ wk[h].spokes \subseteq Spoke /\ wk[h].at \in Spoke \cup {None}
           /\ wk[h].todo \subseteq Namespace /\ wk[h].ns \in Namespace \cup {None}
           /\ wk[h].read \in Object \cup {None} /\ wk[h].keep \subseteq Namespace
           /\ wk[h].domains \in Seq(Domain) /\ wk[h].seen \subseteq Namespace
           /\ wk[h].release \in BOOLEAN /\ wk[h].fresh \in BOOLEAN
           /\ wk[h].failed \in BOOLEAN
<1>1. wk[h] \in Busy
  BY HubFacts DEF Idle
<1>2. wk[h] # Idle
  BY <1>1, HubFacts
<1> QED BY <1>1, <1>2 DEF Busy

\* A worker's locals with one of them changed.
LEMMA Updates ==
    ASSUME NEW w \in Busy
    PROVE  /\ \A pc \in {"next", "upsert", "write", "sweep"} : [w EXCEPT !.pc = pc] \in Busy
           /\ \A b \in BOOLEAN : [w EXCEPT !.fresh = b] \in Busy
           /\ \A b \in BOOLEAN : [w EXCEPT !.failed = b] \in Busy
           /\ \A S \in SUBSET Spoke : [w EXCEPT !.spokes = S] \in Busy
           /\ \A at \in Spoke \cup {None} : [w EXCEPT !.at = at] \in Busy
           /\ \A S \in SUBSET Namespace : [w EXCEPT !.todo = S] \in Busy
           /\ \A S \in SUBSET Namespace : [w EXCEPT !.keep = S] \in Busy
           /\ \A S \in SUBSET Namespace : [w EXCEPT !.seen = S] \in Busy
           /\ \A n \in Namespace \cup {None} : [w EXCEPT !.ns = n] \in Busy
           /\ \A obj \in Object \cup {None} : [w EXCEPT !.read = obj] \in Busy
           /\ \A ds \in Seq(Domain) : [w EXCEPT !.domains = ds] \in Busy
<1>1. /\ \A pc \in {"next", "upsert", "write", "sweep"} : [w EXCEPT !.pc = pc] \in Busy
      /\ \A b \in BOOLEAN : [w EXCEPT !.fresh = b] \in Busy
      /\ \A b \in BOOLEAN : [w EXCEPT !.failed = b] \in Busy
  BY DEF Busy
<1>2. /\ \A S \in SUBSET Spoke : [w EXCEPT !.spokes = S] \in Busy
      /\ \A at \in Spoke \cup {None} : [w EXCEPT !.at = at] \in Busy
      /\ \A S \in SUBSET Namespace : [w EXCEPT !.todo = S] \in Busy
      /\ \A S \in SUBSET Namespace : [w EXCEPT !.keep = S] \in Busy
  BY DEF Busy
<1>3. /\ \A S \in SUBSET Namespace : [w EXCEPT !.seen = S] \in Busy
      /\ \A n \in Namespace \cup {None} : [w EXCEPT !.ns = n] \in Busy
      /\ \A obj \in Object \cup {None} : [w EXCEPT !.read = obj] \in Busy
      /\ \A ds \in Seq(Domain) : [w EXCEPT !.domains = ds] \in Busy
  BY DEF Busy
<1> QED BY <1>1, <1>2, <1>3

\* A walk enters a spoke with these locals.
LEMMA VisitType ==
    ASSUME NEW w \in Busy, NEW pc \in {"sweep", "upsert"}, NEW ids \in SUBSET Spoke,
           NEW sp \in Spoke, NEW dest \in SUBSET Namespace, NEW ds \in Seq(Domain)
    PROVE  [w EXCEPT !.pc = pc, !.at = sp, !.spokes = ids, !.todo = dest,
                     !.keep = dest, !.domains = ds, !.seen = {}] \in Busy
BY DEF Busy

\* A worker's locals, busy or not.
Locals == [pc : {"idle", "next", "upsert", "write", "sweep"},
           key : Namespace \cup {None}, src : Source \cup {None},
           release : BOOLEAN, fresh : BOOLEAN, failed : BOOLEAN,
           spokes : SUBSET Spoke, at : Spoke \cup {None},
           todo : SUBSET Namespace, ns : Namespace \cup {None},
           read : Object \cup {None}, keep : SUBSET Namespace,
           domains : Seq(Domain), seen : SUBSET Namespace]

\* A walk begins with these locals.
LEMMA StartType ==
    ASSUME NEW w \in Locals, NEW k \in Namespace, NEW src \in Source,
           NEW release \in BOOLEAN, NEW ids \in SUBSET Spoke
    PROVE  [w EXCEPT !.pc = "next", !.key = k, !.src = src, !.release = release,
                     !.fresh = release, !.spokes = ids] \in Busy
BY DEF Locals, Busy

LEMMA BecomesType ==
    ASSUME TypeOK, NEW h \in Hub, NEW locals, Becomes(h, locals)
    PROVE  /\ wk'[h] = locals
           /\ \A g \in Hub \ {h} : wk'[g] = wk[g]
           /\ locals \in {Idle} \cup Busy => wk' \in [Hub -> {Idle} \cup Busy]
BY DEF Becomes, TypeOK

\* A reconcile starts its remote part with these locals.
LEMMA StartFacts ==
    ASSUME TypeOK, NEW h \in Hub, NEW k \in Namespace, NEW release \in BOOLEAN,
           Start(h, k, release), sources[h][k] # None
    PROVE  /\ wk' \in [Hub -> {Idle} \cup Busy]
           /\ \A g \in Hub \ {h} : wk'[g] = wk[g]
           /\ wk'[h] \in Busy /\ wk'[h].pc = "next" /\ wk'[h].key = k
           /\ wk'[h].src = sources[h][k] /\ wk'[h].spokes = registry[h]
           /\ wk'[h].release = release /\ wk'[h].fresh = release
           /\ wk'[h].keep = {}
<1>1. PICK src \in Source, ids \in SUBSET Spoke :
        src = sources[h][k] /\ ids = registry[h]
  BY HubFacts DEF TypeOK
<1>2. PICK w \in Locals : w = Idle /\ w.keep = {}
  <2>1. Idle \in Locals /\ Idle.keep = {}
    BY DEF Idle, Locals
  <2> QED BY <2>1
<1>3. PICK new : new = [w EXCEPT !.pc = "next", !.key = k, !.src = src,
                                 !.release = release, !.fresh = release,
                                 !.spokes = ids]
  OBVIOUS
<1>4. wk' = [wk EXCEPT ![h] = new]
  <2>1. wk' = [wk EXCEPT ![h] =
                 [Idle EXCEPT !.pc = "next", !.key = k, !.src = sources[h][k],
                              !.release = release, !.fresh = release,
                              !.spokes = registry[h]]]
    BY DEF Start
  <2> QED BY <1>1, <1>2, <1>3, <2>1
<1>5. new \in Busy
  BY <1>1, <1>2, <1>3, StartType
<1>6. /\ new.pc = "next" /\ new.key = k /\ new.src = src
      /\ new.release = release /\ new.fresh = release /\ new.spokes = ids
      /\ new.keep = {}
  BY <1>2, <1>3 DEF Locals
<1>7. Becomes(h, new)
  BY <1>4 DEF Becomes
<1> QED BY <1>1, <1>5, <1>6, <1>7, BecomesType

\* A write to one place of one spoke changes no other.
RemotePut(sp, n, obj) == remote' = [remote EXCEPT ![sp][n] = obj]

LEMMA RemoteChange ==
    ASSUME TypeOK, NEW sp, NEW n, NEW obj, RemotePut(sp, n, obj),
           NEW s \in Spoke, NEW m \in Namespace, remote'[s][m] # remote[s][m]
    PROVE  s = sp /\ m = n /\ remote'[s][m] = obj
<1>1. remote \in [Spoke -> [Namespace -> Object \cup {None}]]
  BY DEF TypeOK
<1>2. s = sp
  BY <1>1 DEF RemotePut
<1> QED BY <1>1, <1>2 DEF RemotePut

LEMMA RemoteType ==
    ASSUME TypeOK, NEW sp, NEW n, NEW obj \in Object \cup {None},
           remote' = [remote EXCEPT ![sp][n] = obj]
    PROVE  /\ remote' \in [Spoke -> [Namespace -> Object \cup {None}]]
           /\ \A s \in Spoke, m \in Namespace :
                remote'[s][m] = IF s = sp /\ m = n THEN obj ELSE remote[s][m]
BY DEF TypeOK

LEMMA DestType ==
    ASSUME NEW k \in Namespace, NEW src \in Source, NEW sp \in Spoke
    PROVE  DestNamespaces(k, src, sp) \subseteq Namespace
<1>1. TargetClusters(src) \subseteq Spoke \X (Namespace \cup {None})
  <2>1. CASE ~HasTargets(src)
    BY <2>1 DEF TargetClusters
  <2>2. CASE HasTargets(src)
    <3>1. FirstIn(Each(Keys), Annotated(src)) \in Honoured(Keys) \cap Annotated(src)
      BY <2>2, KeysFacts, FirstInEach DEF HasTargets
    <3>2. \A d \in Annotated(src) : src.clusters[d] \in TargetList
      BY DEF Annotated, Source
    <3> QED BY <2>2, <3>1, <3>2 DEF TargetClusters, TargetList
  <2> QED BY <2>1, <2>2
<1> QED BY <1>1 DEF DestNamespaces

LEMMA DesiredFacts ==
    ASSUME TypeOK, NEW h \in Hub, wk[h] \in Busy, NEW dst \in Object
    PROVE  /\ Desired(h, dst) \in Object
           /\ IsManagedCopy(Keys, Desired(h, dst))
           /\ CopyOrigin(Keys, Desired(h, dst)) = {wk[h].key}
           /\ OwnsCopy(Keys, Desired(h, dst), wk[h].key, HubClusterUID[h])
           /\ HubClusterUID[h] # None =>
                OriginCluster(Keys, Desired(h, dst)) = HubClusterUID[h]
<1>1. wk[h].src \in Source /\ wk[h].key \in Namespace
  BY DEF Busy
<1>2. HubClusterUID[h] \in Cluster \cup {None}
  BY CrossClusterAssumption
<1> DEFINE k == wk[h].key
           obj == wk[h].src.obj
           uid == HubClusterUID[h]
           copy == Mirror(Keys, k, obj, dst, uid)
<1>3. k \in Namespace /\ obj \in Object /\ Keys \in KeySetType /\ uid \in Cluster \cup {None}
  BY <1>1, <1>2, SourceFacts, KeysFacts
<1> HIDE DEF k, obj, uid
<1>4. /\ copy \in Object /\ IsManagedCopy(Keys, copy)
      /\ CopyOrigin(Keys, copy) = {k} /\ OwnsCopy(Keys, copy, k, uid)
      /\ uid # None => OriginCluster(Keys, copy) = uid
  BY <1>3, MirrorIsCopy
<1>5. copy = Desired(h, dst)
  BY DEF Desired, k, obj, uid
<1> HIDE DEF copy
<1> QED BY <1>4, <1>5 DEF k, uid

LEMMA SetSourceType ==
    ASSUME TypeOK, NEW h \in Hub, NEW k \in Namespace,
           NEW src \in Source \cup {None}, SetSource(h, k, src)
    PROVE  /\ sources' \in [Hub -> [Namespace -> Source \cup {None}]]
           /\ sources'[h][k] = src
           /\ \A m \in Namespace \ {k} : sources'[h][m] = sources[h][m]
           /\ \A g \in Hub \ {h} : sources'[g] = sources[g]
           /\ queue' \in [Hub -> SUBSET Namespace]
BY DEF SetSource, SourceKeys, TypeOK

LEMMA ResyncKeysType ==
    ASSUME NEW h \in Hub
    PROVE  ResyncKeys(h) \subseteq Namespace
BY DEF ResyncKeys, SourceKeys

LEMMA TypeInit == Init => TypeOK
<1> SUFFICES ASSUME Init PROVE TypeOK
  OBVIOUS
<1>1. queue \in [Hub -> SUBSET Namespace]
  BY ResyncKeysType DEF Init
<1> QED BY <1>1, CrossClusterAssumption DEF Init, TypeOK

LEMMA TypeBegin ==
    ASSUME TypeOK, NEW h \in Hub, NEW k \in Namespace, Begin(h, k)
    PROVE  TypeOK'
<1>1. Dequeued(h, k) \in [Hub -> SUBSET Namespace]
  BY DEF Dequeued, TypeOK
<1>2. CASE Ignore(h, k)
  BY <1>1, <1>2 DEF Ignore, TypeOK
<1>3. CASE AddFinalizer(h, k)
  <2>1. sources[h][k] \in Source
    BY <1>3, HubFacts DEF AddFinalizer
  <2>2. [sources[h][k] EXCEPT !.obj = ReconcileFinalizer(Keys, sources[h][k].obj)] \in Source
    BY <2>1, SourceFacts, ObjectWrites
  <2>3. sources' \in [Hub -> [Namespace -> Source \cup {None}]]
    BY <1>3, <2>2 DEF AddFinalizer, TypeOK
  <2> QED BY <1>3, <2>3 DEF AddFinalizer, TypeOK
<1>4. ASSUME NEW release \in BOOLEAN, Start(h, k, release), sources[h][k] # None
      PROVE  TypeOK'
  BY <1>1, <1>4, StartFacts DEF Start, TypeOK
<1> QED BY <1>2, <1>3, <1>4 DEF Begin, StartWalk, StartCleanup

\* The locals after each kind of step inside a walk.
LEMMA LocalsType ==
    ASSUME TypeOK, NEW h \in Hub, wk[h] \in Busy
    PROVE  /\ \A n : Visited(h, n) \in Busy /\ FailedAt(h, n) \in Busy
           /\ SpokeLeft(h) \in Busy /\ SpokeFailed(h) \in Busy
<1>1. /\ \A w \in Busy : w.todo \in SUBSET Namespace
      /\ <<>> \in Seq(Domain)
  BY DEF Busy
<1> QED BY <1>1, Updates DEF Visited, FailedAt, SpokeLeft, SpokeFailed

LEMMA Walking ==
    ASSUME TypeOK, NEW h \in Hub, Proceed(h)
    PROVE  /\ wk[h].pc \in {"next", "upsert", "write", "sweep"}
           /\ wk[h] \in Busy /\ wk[h] # Idle
<1>1. wk[h].todo # {} => wk[h] # Idle
  BY DEF Idle
<1>2. wk[h].pc \in {"next", "upsert", "write", "sweep"}
  BY <1>1 DEF Proceed, SkipSpoke, VisitSpoke, GetCopy, DeleteCopy, WriteFails,
              AlreadyExists, WriteCopy, ListCopies, LeaveSpoke, LoopDone,
              FinishWalk, ReleaseFinalizer, WalkDone
<1> QED BY <1>2, BusyFacts

LEMMA TypeProceed ==
    ASSUME TypeOK, NEW h \in Hub, Proceed(h)
    PROVE  TypeOK'
<1>1. ASSUME NEW locals \in {Idle} \cup Busy, Becomes(h, locals),
             remote' \in [Spoke -> [Namespace -> Object \cup {None}]],
             OnlyRemote
      PROVE  TypeOK'
  BY <1>1, BecomesType DEF OnlyRemote, TypeOK
<1>2. ASSUME NEW locals \in {Idle} \cup Busy, Becomes(h, locals), OnlyWorker
      PROVE  TypeOK'
  BY <1>2, BecomesType DEF OnlyWorker, TypeOK
<1>3. wk[h].pc \in {"next", "upsert", "write", "sweep"} /\ wk[h] \in Busy
  BY Walking
<1>4. /\ \A n : Visited(h, n) \in Busy /\ FailedAt(h, n) \in Busy
      /\ SpokeLeft(h) \in Busy /\ SpokeFailed(h) \in Busy
  BY <1>3, LocalsType
<1> DEFINE w == wk[h]
<1>5. /\ w.key \in Namespace /\ w.src \in Source /\ w.at \in Spoke \cup {None}
      /\ w.spokes \in SUBSET Spoke /\ w.todo \in SUBSET Namespace
      /\ w.domains \in Seq(Domain) /\ w.seen \in SUBSET Namespace
      /\ w.release \in BOOLEAN /\ w.read \in Object \cup {None}
  BY <1>3, BusyFacts
<1>6. ASSUME NEW sp \in Spoke, SkipSpoke(h, sp) PROVE TypeOK'
  <2>1. [w EXCEPT !.spokes = w.spokes \ {sp}] \in Busy
    BY <1>3, <1>5, Updates
  <2> QED BY <1>2, <1>6, <2>1 DEF SkipSpoke
<1>7. ASSUME NEW sp \in Spoke, VisitSpoke(h, sp) PROVE TypeOK'
  <2> DEFINE dest == IF w.release THEN {} ELSE DestNamespaces(w.key, w.src, sp)
             new == [w EXCEPT !.pc = IF dest = {} THEN "sweep" ELSE "upsert",
                              !.at = sp, !.spokes = w.spokes \ {sp},
                              !.todo = dest, !.keep = dest,
                              !.domains = Each(Keys), !.seen = {}]
  <2>1. dest \in SUBSET Namespace
    BY <1>5, DestType
  <2> HIDE DEF dest
  <2>2. new \in Busy
    <3>1. PICK pc \in {"sweep", "upsert"}, ids \in SUBSET Spoke, ds \in Seq(Domain) :
            /\ pc = IF dest = {} THEN "sweep" ELSE "upsert"
            /\ ids = w.spokes \ {sp} /\ ds = Each(Keys)
      BY <1>5, KeysFacts
    <3> QED BY <1>3, <2>1, <3>1, VisitType
  <2>3. Becomes(h, new) /\ OnlyWorker
    BY <1>7 DEF VisitSpoke, dest
  <2> HIDE DEF new
  <2> QED BY <1>2, <2>2, <2>3
<1>8. ASSUME NEW n \in Namespace, GetCopy(h, n) PROVE TypeOK'
  <2> DEFINE obj == remote[w.at][n]
             new == [w EXCEPT !.pc = "write", !.ns = n, !.read = obj]
  <2>1. CASE Becomes(h, FailedAt(h, n)) \/ Becomes(h, Visited(h, n))
    BY <1>2, <1>4, <1>8, <2>1 DEF GetCopy
  <2>2. CASE w.at \in up /\ Becomes(h, new)
    <3>1. obj \in Object \cup {None}
      BY <2>2 DEF TypeOK
    <3>2. new \in Busy
      BY <1>3, <3>1, Updates
    <3>3. OnlyWorker
      BY <1>8 DEF GetCopy
    <3> HIDE DEF new
    <3> QED BY <1>2, <2>2, <3>2, <3>3
  <2> QED BY <1>8, <2>1, <2>2 DEF GetCopy
<1>9. CASE WriteFails(h) \/ AlreadyExists(h) \/ LeaveSpoke(h)
  BY <1>2, <1>4, <1>9 DEF WriteFails, AlreadyExists, LeaveSpoke
<1>10. CASE WriteCopy(h)
  <2> DEFINE dst == IF w.read = None THEN EmptyObject(w.src.obj.data) ELSE w.read
  <2>1. w.src.obj.data \in Data
    BY <1>5 DEF Source, Object
  <2>2. dst \in Object
    BY <1>5, <2>1, EmptyObjectType
  <2>3. /\ remote' = [remote EXCEPT ![w.at][w.ns] = Desired(h, dst)]
        /\ Becomes(h, Visited(h, w.ns)) /\ OnlyRemote
    BY <1>10 DEF WriteCopy
  <2> HIDE DEF dst
  <2>4. Desired(h, dst) \in Object
    BY <1>3, <2>2, DesiredFacts
  <2>5. remote' \in [Spoke -> [Namespace -> Object \cup {None}]]
    BY <2>3, <2>4 DEF TypeOK
  <2> QED BY <1>1, <1>4, <2>3, <2>5
<1>11. CASE ListCopies(h)
  <2> DEFINE listed == {n \in Namespace :
                          /\ remote[w.at][n] # None
                          /\ MatchesOrigin(remote[w.at][n], Head(w.domains), w.key)}
             new == [w EXCEPT !.pc = "sweep",
                              !.todo = {n \in listed \ (w.seen \cup w.keep) :
                                           Prunable(h, remote[w.at][n])},
                              !.seen = w.seen \cup listed,
                              !.domains = Tail(w.domains)]
  <2>1. Becomes(h, SpokeFailed(h)) \/ Becomes(h, new)
    BY <1>11 DEF ListCopies
  <2>2. OnlyWorker /\ w.domains # <<>>
    BY <1>11 DEF ListCopies
  <2>3. new \in Busy
    <3>1. Tail(w.domains) \in Seq(Domain) /\ w.seen \cup listed \in SUBSET Namespace
      BY <1>5, <2>2
    <3> QED BY <1>3, <3>1, Updates
  <2> HIDE DEF new
  <2> QED BY <1>2, <1>4, <2>1, <2>2, <2>3
<1>12. ASSUME NEW n \in Namespace, DeleteCopy(h, n) PROVE TypeOK'
  <2> DEFINE new == [w EXCEPT !.todo = w.todo \ {n}]
  <2>1. new \in Busy
    BY <1>3, <1>5, Updates
  <2>2. remote' \in [Spoke -> [Namespace -> Object \cup {None}]]
    <3>1. remote' = [remote EXCEPT ![w.at][n] = None] \/ UNCHANGED remote
      BY <1>12 DEF DeleteCopy
    <3> QED BY <3>1, RemoteType DEF TypeOK
  <2>3. OnlyRemote /\ (Becomes(h, new) \/ Becomes(h, SpokeFailed(h)))
    BY <1>12 DEF DeleteCopy
  <2> HIDE DEF new
  <2> QED BY <1>1, <1>4, <2>1, <2>2, <2>3
<1>13. CASE FinishWalk(h) \/ ReleaseFinalizer(h)
  <2>1. Becomes(h, Idle) /\ UNCHANGED <<creds, registry, remote, up, stuck, ops>>
    BY <1>13 DEF FinishWalk, ReleaseFinalizer
  <2>2. /\ queue' \in [Hub -> SUBSET Namespace]
        /\ sources' \in [Hub -> [Namespace -> Source \cup {None}]]
    <3>1. CASE UNCHANGED sources
      <4>1. PICK keys \in SUBSET {w.key} : queue' = [queue EXCEPT ![h] = @ \cup keys]
        BY <1>13, <3>1 DEF FinishWalk, ReleaseFinalizer, Enqueued, SetSource, SourceKeys
      <4> QED BY <1>5, <3>1, <4>1 DEF TypeOK
    <3>2. PICK src \in Source \cup {None} : SetSource(h, w.key, src) \/ UNCHANGED sources
      <4> DEFINE obj == Released(RemoveAllFinalizers(Keys, w.src.obj))
                 new == IF obj = None THEN None ELSE [w.src EXCEPT !.obj = obj]
      <4>1. obj \in Object \cup {None}
        BY <1>5, SourceFacts, ObjectWrites
      <4>2. new \in Source \cup {None}
        BY <1>5, <4>1, SourceFacts
      <4>3. SetSource(h, w.key, new) \/ UNCHANGED sources
        BY <1>13 DEF FinishWalk, ReleaseFinalizer
      <4> HIDE DEF new
      <4> QED BY <4>2, <4>3
    <3> QED BY <1>5, <3>1, <3>2, SetSourceType
  <2> QED BY <2>1, <2>2, BecomesType DEF TypeOK
<1> QED BY <1>6, <1>7, <1>8, <1>9, <1>10, <1>11, <1>12, <1>13 DEF Proceed

LEMMA TypeUserPut ==
    ASSUME TypeOK, NEW h \in Hub, NEW k \in Namespace, ops' \in 0..MaxOps,
           NEW src \in Source \cup {None}, UserPut(h, k, src)
    PROVE  TypeOK'
<1> DEFINE new == IF wk[h].key = k THEN [wk[h] EXCEPT !.fresh = FALSE] ELSE wk[h]
<1>1. wk[h] # Idle => new \in Busy
  BY HubFacts, Updates
<1>2. wk[h] = Idle => new \in {Idle} \cup Busy
  BY NoneAssumption DEF Idle
<1>3. Becomes(h, new)
  BY DEF UserPut
<1> HIDE DEF new
<1> QED BY <1>1, <1>2, <1>3, SetSourceType, BecomesType DEF UserPut, TypeOK

LEMMA TypeUsers ==
    ASSUME TypeOK, NEW h \in Hub, Users(h)
    PROVE  TypeOK'
<1> SUFFICES ASSUME NEW k \in Namespace,
                    \/ UserCreate(h, k) \/ UserUnannotate(h, k)
                    \/ UserRetarget(h, k) \/ UserEdit(h, k) \/ UserDelete(h, k)
             PROVE  TypeOK'
  BY DEF Users
<1>1. ops' \in 0..MaxOps
  BY CrossClusterAssumption
     DEF UserCreate, UserUnannotate, UserRetarget, UserEdit, UserDelete, May, TypeOK
<1>2. CASE UserCreate(h, k)
  BY <1>1, <1>2, CrossClusterAssumption, TypeUserPut DEF UserCreate
<1>3. CASE sources[h][k] # None /\ ~UserCreate(h, k)
  <2>1. sources[h][k] \in Source
    BY <1>3, HubFacts
  <2>2. PICK src \in Source : src = sources[h][k]
    BY <2>1
  <2>3. src.obj \in Object
    BY DEF Source
  <2>4. /\ [src EXCEPT !.obj.sync = Unannotated] \in Source
        /\ \A d \in Data : [src EXCEPT !.obj.data = d] \in Source
        /\ \A l \in TargetList : [src EXCEPT !.clusters[Keys.primary] = l] \in Source
        /\ Deleted(src.obj) \in Object \cup {None}
    BY <2>3, ObjectWrites, KeysFacts, NoneAssumption DEF Source, Object, Unannotated
  <2>5. \A obj \in Object : [src EXCEPT !.obj = obj] \in Source
    BY SourceFacts
  <2>6. CASE UserUnannotate(h, k)
    BY <1>1, <2>2, <2>4, <2>6, TypeUserPut DEF UserUnannotate
  <2>7. CASE UserRetarget(h, k)
    BY <1>1, <2>2, <2>4, <2>7, TypeUserPut, CrossClusterAssumption DEF UserRetarget
  <2>8. CASE UserEdit(h, k)
    BY <1>1, <2>2, <2>4, <2>8, TypeUserPut DEF UserEdit
  <2>9. CASE UserDelete(h, k)
    BY <1>1, <2>2, <2>4, <2>5, <2>9, TypeUserPut DEF UserDelete
  <2> QED BY <1>3, <2>6, <2>7, <2>8, <2>9
<1> QED BY <1>2, <1>3 DEF UserUnannotate, UserRetarget, UserEdit, UserDelete, Sources

LEMMA TypeEnvironment ==
    ASSUME TypeOK, Environment
    PROVE  TypeOK'
<1>1. ASSUME NEW h \in Hub, Resync(h) PROVE TypeOK'
  BY <1>1, ResyncKeysType DEF Resync, Enqueued, TypeOK
<1>2. ASSUME NEW h \in Hub, Restart(h) PROVE TypeOK'
  <2>1. ResyncKeys(h) \in SUBSET Namespace
    BY ResyncKeysType
  <2>2. Idle \in {Idle} \cup Busy /\ ops' \in 0..MaxOps
    BY <1>2, CrossClusterAssumption DEF Restart, May, TypeOK
  <2> QED BY <1>2, <2>1, <2>2, BecomesType DEF Restart, TypeOK
<1>3. ASSUME NEW h \in Hub, NEW sp \in Spoke, CredentialReconcile(h, sp) PROVE TypeOK'
  <2>1. Naming(h, sp) \in SUBSET Namespace
    BY DEF Naming, Sources
  <2>2. registry' \in [Hub -> SUBSET Spoke]
    <3>1. registry[h] \subseteq Spoke
      BY DEF TypeOK
    <3>2. PICK ids \in SUBSET Spoke : registry' = [registry EXCEPT ![h] = ids]
      BY <1>3, <3>1 DEF CredentialReconcile
    <3> QED BY <3>2 DEF TypeOK
  <2>3. queue' \in [Hub -> SUBSET Namespace]
    <3>1. UNCHANGED queue \/ queue' = Enqueued(h, Naming(h, sp))
      BY <1>3 DEF CredentialReconcile
    <3> QED BY <2>1, <3>1 DEF Enqueued, TypeOK
  <2>4. UNCHANGED <<sources, creds, remote, up, stuck, wk, ops>>
    BY <1>3 DEF CredentialReconcile
  <2> QED BY <2>2, <2>3, <2>4 DEF TypeOK
<1>4. ASSUME NEW h \in Hub, NEW sp \in Spoke, CredentialChange(h, sp) PROVE TypeOK'
  BY <1>4, CrossClusterAssumption DEF CredentialChange, May, TypeOK
<1>5. ASSUME NEW sp \in Spoke, SpokeDown(sp) \/ SpokeUp(sp) PROVE TypeOK'
  BY <1>5, CrossClusterAssumption DEF SpokeDown, SpokeUp, May, TypeOK
<1>6. ASSUME NEW sp \in Spoke, NEW n \in Namespace, SpokePut(sp, n) PROVE TypeOK'
  <2>1. PICK obj \in Object \cup {None} : remote' = [remote EXCEPT ![sp][n] = obj]
    <3>1. remote[sp][n] \in Object \cup {None}
      BY DEF TypeOK
    <3>2. \A o \in Object, d \in Data : [o EXCEPT !.data = d] \in Object
      BY DEF Object
    <3>3. SpokeObject \subseteq Object
      BY CrossClusterAssumption
    <3>4. CASE remote[sp][n] = None
      BY <1>6, <3>3, <3>4 DEF SpokePut
    <3>5. CASE remote[sp][n] # None
      <4>1. PICK o \in Object : o = remote[sp][n]
        BY <3>1, <3>5
      <4>2. {None} \cup {[o EXCEPT !.data = d] : d \in Data \ {o.data}}
              \subseteq Object \cup {None}
        BY <3>2
      <4> QED BY <1>6, <3>5, <4>1, <4>2 DEF SpokePut
    <3> QED BY <3>4, <3>5
  <2>2. ops' \in 0..MaxOps
    BY <1>6, CrossClusterAssumption DEF SpokePut, May, TypeOK
  <2> QED BY <1>6, <2>1, <2>2, RemoteType DEF SpokePut, TypeOK
<1>7. ASSUME NEW h \in Hub, NEW k \in Namespace, LocalTrouble(h, k) \/ LocalRecovery(h, k)
      PROVE  TypeOK'
  <2>1. stuck' \in [Hub -> SUBSET Namespace]
    <3>1. stuck \in [Hub -> SUBSET Namespace]
      BY DEF TypeOK
    <3>2. PICK keys \in {stuck[h] \cup {k}, stuck[h] \ {k}} :
            stuck' = [stuck EXCEPT ![h] = keys]
      BY <1>7 DEF LocalTrouble, LocalRecovery
    <3>3. keys \in SUBSET Namespace
      BY <3>1
    <3> QED BY <3>1, <3>2, <3>3
  <2>2. ops' \in 0..MaxOps
    BY <1>7, CrossClusterAssumption DEF LocalTrouble, LocalRecovery, May, TypeOK
  <2>3. UNCHANGED <<sources, creds, registry, remote, up, queue, wk>>
    BY <1>7 DEF LocalTrouble, LocalRecovery
  <2> QED BY <2>1, <2>2, <2>3 DEF TypeOK
<1> QED BY <1>1, <1>2, <1>3, <1>4, <1>5, <1>6, <1>7, TypeUsers DEF Environment

LEMMA TypeNext == TypeOK /\ [Next]_vars => TypeOK'
<1>1. CASE UNCHANGED vars
  BY <1>1 DEF vars, TypeOK
<1>2. ASSUME TypeOK, Next PROVE TypeOK'
  BY <1>2, TypeBegin, TypeProceed, TypeEnvironment DEF Next, HubStep
<1> QED BY <1>1, <1>2

\* The types of the declarations: no handler leaves its part of the state.
THEOREM TypeCorrect == Spec => []TypeOK
BY TypeInit, TypeNext, PTL DEF Spec

-----------------------------------------------------------------------------
(* What a walk holds between two calls *)

\* Writes, for a walk of hub h for the source src in namespace k.
Writable(h, k, src, obj) ==
    IF IsManagedCopy(Keys, obj)
    THEN /\ OwnsCopy(Keys, obj, k, HubClusterUID[h])
         /\ ~ContentEqual(obj, Mirror(Keys, k, src.obj, obj, HubClusterUID[h]))
    ELSE IsAdoptable(obj)

\* WalkOK of one walk w of hub h, whose source is src by now: strengthened by
\* what tells where the walk stands in a spoke that it writes to.
LocalsOK(h, w, src) ==
    /\ ~w.release => src # None /\ HasFinalizer(Keys, src.obj) /\ ~w.fresh
    /\ w.fresh => src = w.src
    /\ w.pc \in {"upsert", "write"} => ~w.release /\ w.at \in Spoke
    /\ w.pc = "write" =>
         w.ns \in Namespace /\ (w.read = None \/ Writable(h, w.key, w.src, w.read))

WalkInv ==
    \A h \in Hub : wk[h] # Idle => LocalsOK(h, wk[h], sources[h][wk[h].key])

LEMMA WritesIs ==
    \A h \in Hub : \A obj :
       Writes(h, obj) <=> Writable(h, wk[h].key, wk[h].src, obj)
BY DEF Writes, Writable, Mine, Desired

LEMMA WalkInvImplies == TypeOK /\ WalkInv => WalkOK
<1> SUFFICES ASSUME TypeOK, WalkInv, NEW h \in Hub, wk[h] # Idle
             PROVE  /\ ~wk[h].release => Armed(h, wk[h].key) /\ ~wk[h].fresh
                    /\ wk[h].fresh => sources[h][wk[h].key] = wk[h].src
                    /\ wk[h].pc = "write" =>
                         /\ ~wk[h].release /\ wk[h].at # None /\ wk[h].ns # None
                         /\ wk[h].read = None \/ Writes(h, wk[h].read)
  BY DEF WalkOK
<1>1. LocalsOK(h, wk[h], sources[h][wk[h].key])
  BY DEF WalkInv
<1>2. None \notin Spoke /\ None \notin Namespace
  BY CrossClusterAssumption, NoneAssumption
<1> QED BY <1>1, <1>2, WritesIs DEF LocalsOK, Armed

\* From w to v the walk goes on for the same source.
GoesOn(h, w, v) ==
    /\ v.release = w.release /\ v.fresh = w.fresh
    /\ v.key = w.key /\ v.src = w.src
    /\ \/ v.pc \in {"next", "sweep"}
       \/ v.pc = "upsert" /\ w.pc \in {"upsert", "write"} /\ v.at = w.at
       \/ v.pc = "upsert" /\ ~w.release /\ v.at \in Spoke
       \/ /\ v.pc = "write" /\ w.pc = "upsert" /\ v.at = w.at
          /\ v.ns \in Namespace
          /\ v.read = None \/ Writable(h, w.key, w.src, v.read)

LEMMA GoingOnIsOK ==
    ASSUME NEW h \in Hub, NEW w, NEW v, NEW src, LocalsOK(h, w, src),
           GoesOn(h, w, v)
    PROVE  LocalsOK(h, v, src)
BY DEF LocalsOK, GoesOn

LEMMA VisitedGoesOn ==
    ASSUME TypeOK, NEW h \in Hub, wk[h] \in Busy
    PROVE  /\ wk[h].pc \in {"upsert", "write"} =>
                \A n : GoesOn(h, wk[h], Visited(h, n)) /\ GoesOn(h, wk[h], FailedAt(h, n))
           /\ GoesOn(h, wk[h], SpokeLeft(h)) /\ GoesOn(h, wk[h], SpokeFailed(h))
<1>1. ASSUME NEW x \in Busy, NEW v, NEW u,
             v = [x EXCEPT !.pc = "next", !.at = None, !.todo = {}, !.keep = {},
                           !.domains = <<>>, !.seen = {}],
             u = [v EXCEPT !.failed = TRUE]
      PROVE  GoesOn(h, x, v) /\ GoesOn(h, x, u)
  BY <1>1 DEF Busy, GoesOn
<1>2. PICK x \in Busy : x = wk[h]
  OBVIOUS
<1>3. ASSUME wk[h].pc \in {"upsert", "write"}, NEW n
      PROVE  GoesOn(h, wk[h], Visited(h, n)) /\ GoesOn(h, wk[h], FailedAt(h, n))
  <2> DEFINE todo == x.todo \ {n}
  <2>1. /\ Visited(h, n) = [x EXCEPT !.pc = "upsert", !.todo = todo, !.ns = None,
                                     !.read = None]
        /\ FailedAt(h, n) = [Visited(h, n) EXCEPT !.failed = TRUE]
    BY <1>2 DEF Visited, FailedAt
  <2>2. x.pc \in {"upsert", "write"}
    BY <1>2, <1>3
  <2> DEFINE v == Visited(h, n)
             u == FailedAt(h, n)
  <2> HIDE DEF todo, v, u
  <2>3. /\ v = [x EXCEPT !.pc = "upsert", !.todo = todo, !.ns = None, !.read = None]
        /\ u = [v EXCEPT !.failed = TRUE]
    BY <2>1 DEF v, u
  <2>4. GoesOn(h, x, v) /\ GoesOn(h, x, u)
    BY <2>2, <2>3 DEF Busy, GoesOn
  <2> QED BY <1>2, <2>4 DEF v, u
<1>4. /\ SpokeLeft(h) = [x EXCEPT !.pc = "next", !.at = None, !.todo = {},
                                  !.keep = {}, !.domains = <<>>, !.seen = {}]
      /\ SpokeFailed(h) = [SpokeLeft(h) EXCEPT !.failed = TRUE]
  BY <1>2 DEF SpokeLeft, SpokeFailed
<1>5. GoesOn(h, wk[h], SpokeLeft(h)) /\ GoesOn(h, wk[h], SpokeFailed(h))
  BY <1>1, <1>2, <1>4
<1> QED BY <1>3, <1>5

\* Every call of a walk ends the reconcile or goes on with the same source, and
\* none of them moves another hub.
LEMMA WalkSteps ==
    ASSUME TypeOK, NEW h \in Hub, Proceed(h)
    PROVE  /\ \A g \in Hub \ {h} : wk'[g] = wk[g] /\ sources'[g] = sources[g]
           /\ wk'[h] = Idle \/ (sources' = sources /\ GoesOn(h, wk[h], wk'[h]))
<1>1. wk[h].pc \in {"next", "upsert", "write", "sweep"} /\ wk[h] \in Busy
  BY Walking
<1>2. ASSUME NEW v, Becomes(h, v)
      PROVE  wk'[h] = v /\ \A g \in Hub \ {h} : wk'[g] = wk[g]
  BY <1>2, BecomesType
<1>3. ASSUME NEW v, Becomes(h, v), sources' = sources, GoesOn(h, wk[h], v)
      PROVE  /\ \A g \in Hub \ {h} : wk'[g] = wk[g] /\ sources'[g] = sources[g]
             /\ sources' = sources /\ GoesOn(h, wk[h], wk'[h])
  BY <1>2, <1>3
<1>4. /\ wk[h].pc \in {"upsert", "write"} =>
           \A n : GoesOn(h, wk[h], Visited(h, n)) /\ GoesOn(h, wk[h], FailedAt(h, n))
      /\ GoesOn(h, wk[h], SpokeLeft(h)) /\ GoesOn(h, wk[h], SpokeFailed(h))
  BY <1>1, VisitedGoesOn
<1> DEFINE w == wk[h]
<1> DEFINE Goal == /\ \A g \in Hub \ {h} : wk'[g] = wk[g] /\ sources'[g] = sources[g]
                   /\ \/ wk'[h] = Idle
                      \/ sources' = sources /\ GoesOn(h, wk[h], wk'[h])
<1>5. ASSUME NEW v, Becomes(h, v), sources' = sources, GoesOn(h, wk[h], v)
      PROVE  Goal
  BY <1>3, <1>5
<1> HIDE DEF Goal
<1>6. ASSUME NEW sp \in Spoke, SkipSpoke(h, sp) PROVE Goal
  <2>1. ASSUME NEW x \in Busy, x.pc = "next"
        PROVE  GoesOn(h, x, [x EXCEPT !.spokes = x.spokes \ {sp}])
    BY <2>1 DEF Busy, GoesOn
  <2> QED BY <1>1, <1>5, <1>6, <2>1 DEF SkipSpoke, OnlyWorker
<1>7. ASSUME NEW sp \in Spoke, VisitSpoke(h, sp) PROVE Goal
  <2>1. ASSUME NEW x \in Busy, NEW ids, NEW dest, NEW ds
        PROVE  GoesOn(h, x, [x EXCEPT !.pc = IF dest = {} \/ x.release THEN "sweep" ELSE "upsert",
                                      !.at = sp, !.spokes = ids, !.todo = dest,
                                      !.keep = dest, !.domains = ds, !.seen = {}])
    BY DEF Busy, GoesOn
  <2> DEFINE dest == IF w.release THEN {} ELSE DestNamespaces(w.key, w.src, sp)
             new == [w EXCEPT !.pc = IF dest = {} \/ w.release THEN "sweep" ELSE "upsert",
                              !.at = sp, !.spokes = w.spokes \ {sp},
                              !.todo = dest, !.keep = dest,
                              !.domains = Each(Keys), !.seen = {}]
  <2>2. GoesOn(h, w, new)
    <3> HIDE DEF dest
    <3> QED BY <1>1, <2>1
  <2>3. (dest = {} \/ w.release) <=> dest = {}
    OBVIOUS
  <2>4. Becomes(h, new) /\ OnlyWorker
    BY <1>7, <2>3 DEF VisitSpoke
  <2> HIDE DEF new
  <2> QED BY <1>5, <2>2, <2>4 DEF OnlyWorker
<1>8. ASSUME NEW n \in Namespace, GetCopy(h, n) PROVE Goal
  <2> DEFINE obj == remote[w.at][n]
             new == [w EXCEPT !.pc = "write", !.ns = n, !.read = obj]
  <2>1. ASSUME NEW x \in Busy, NEW o, x.pc = "upsert",
               o = None \/ Writable(h, x.key, x.src, o)
        PROVE  GoesOn(h, x, [x EXCEPT !.pc = "write", !.ns = n, !.read = o])
    BY <2>1 DEF Busy, GoesOn
  <2>2. OnlyWorker /\ w.pc = "upsert"
    BY <1>8 DEF GetCopy
  <2>3. CASE Becomes(h, FailedAt(h, n)) \/ Becomes(h, Visited(h, n))
    BY <1>4, <1>5, <2>2, <2>3 DEF OnlyWorker
  <2>4. CASE Becomes(h, new) /\ (obj = None \/ Writes(h, obj))
    <3>1. obj = None \/ Writable(h, w.key, w.src, obj)
      BY <2>4, WritesIs
    <3> HIDE DEF obj
    <3>2. GoesOn(h, w, new)
      BY <1>1, <2>1, <2>2, <3>1
    <3> HIDE DEF new
    <3> QED BY <1>5, <2>2, <2>4, <3>2 DEF OnlyWorker
  <2> QED BY <1>8, <2>3, <2>4 DEF GetCopy
<1>9. ASSUME WriteFails(h) \/ AlreadyExists(h) \/ WriteCopy(h) PROVE Goal
  <2>1. /\ w.pc = "write" /\ sources' = sources
        /\ Becomes(h, FailedAt(h, w.ns)) \/ Becomes(h, Visited(h, w.ns))
    BY <1>9 DEF WriteFails, AlreadyExists, WriteCopy, OnlyWorker, OnlyRemote
  <2> QED BY <1>4, <1>5, <2>1
<1>10. ASSUME LeaveSpoke(h) PROVE Goal
  <2>1. sources' = sources /\ Becomes(h, SpokeLeft(h))
    BY <1>10 DEF LeaveSpoke, OnlyWorker
  <2> QED BY <1>4, <1>5, <2>1
<1>11. ASSUME ListCopies(h) PROVE Goal
  <2>1. ASSUME NEW x \in Busy, NEW todo, NEW seen, NEW ds
        PROVE  GoesOn(h, x, [x EXCEPT !.pc = "sweep", !.todo = todo, !.seen = seen,
                                      !.domains = ds])
    BY DEF Busy, GoesOn
  <2> DEFINE listed == {n \in Namespace :
                          /\ remote[w.at][n] # None
                          /\ MatchesOrigin(remote[w.at][n], Head(w.domains), w.key)}
             todo == {n \in listed \ (w.seen \cup w.keep) :
                         Prunable(h, remote[w.at][n])}
             new == [w EXCEPT !.pc = "sweep", !.todo = todo,
                              !.seen = w.seen \cup listed,
                              !.domains = Tail(w.domains)]
  <2>2. OnlyWorker /\ (Becomes(h, SpokeFailed(h)) \/ Becomes(h, new))
    BY <1>11 DEF ListCopies
  <2> HIDE DEF todo, listed
  <2>3. GoesOn(h, w, new)
    BY <1>1, <2>1
  <2> HIDE DEF new
  <2> QED BY <1>4, <1>5, <2>2, <2>3 DEF OnlyWorker
<1>12. ASSUME NEW n \in Namespace, DeleteCopy(h, n) PROVE Goal
  <2>1. ASSUME NEW x \in Busy, x.pc = "sweep"
        PROVE  GoesOn(h, x, [x EXCEPT !.todo = x.todo \ {n}])
    BY <2>1 DEF Busy, GoesOn
  <2>2. w.pc = "sweep" /\ OnlyRemote
    BY <1>12 DEF DeleteCopy
  <2>3. GoesOn(h, w, [w EXCEPT !.todo = w.todo \ {n}])
    BY <1>1, <2>1, <2>2
  <2> QED BY <1>4, <1>5, <1>12, <2>2, <2>3 DEF DeleteCopy, OnlyRemote
<1>13. ASSUME FinishWalk(h) \/ ReleaseFinalizer(h) PROVE Goal
  <2>1. Becomes(h, Idle)
    BY <1>13 DEF FinishWalk, ReleaseFinalizer
  <2>2. sources' = sources \/ \E k \in Namespace : \E src : SetSource(h, k, src)
    BY <1>1, <1>13, BusyFacts DEF FinishWalk, ReleaseFinalizer
  <2>3. \A g \in Hub \ {h} : sources'[g] = sources[g]
    BY <2>2 DEF SetSource, TypeOK
  <2> QED BY <1>2, <2>1, <2>3 DEF Goal
<1> QED BY <1>6, <1>7, <1>8, <1>9, <1>10, <1>11, <1>12, <1>13 DEF Proceed, Goal

\* Users take no finalizer away.
LEMMA UsersKeepArms ==
    ASSUME TypeOK, NEW h \in Hub, Users(h)
    PROVE  \E k \in Namespace, src \in Source \cup {None} :
             /\ UserPut(h, k, src)
             /\ Armed(h, k) => src # None /\ HasFinalizer(Keys, src.obj)
<1> DEFINE Goal == \E k \in Namespace, src \in Source \cup {None} :
                     /\ UserPut(h, k, src)
                     /\ Armed(h, k) => src # None /\ HasFinalizer(Keys, src.obj)
<1> SUFFICES Goal
  OBVIOUS
<1> PICK k \in Namespace :
         \/ UserCreate(h, k) \/ UserUnannotate(h, k) \/ UserRetarget(h, k)
         \/ UserEdit(h, k) \/ UserDelete(h, k)
  BY DEF Users
<1> HIDE DEF Goal
<1>1. CASE UserCreate(h, k)
  BY <1>1, CrossClusterAssumption DEF UserCreate, Armed, Goal
<1>2. CASE ~UserCreate(h, k)
  <2>1. sources[h][k] \in Source
    BY <1>2, HubFacts DEF UserUnannotate, UserRetarget, UserEdit, UserDelete, Sources
  <2>2. PICK src \in Source : src = sources[h][k]
    BY <2>1
  <2>3. src.obj \in Object /\ src # None
    BY <2>1, <2>2, SourceFacts
  <2>4. ASSUME NEW new \in Source, UserPut(h, k, new), new.obj.fin = src.obj.fin
        PROVE  Goal
    BY <2>2, <2>4, SourceFacts DEF Armed, HasFinalizer, Goal
  <2>5. /\ [src EXCEPT !.obj.sync = Unannotated] \in Source
        /\ [src EXCEPT !.obj.sync = Unannotated].obj.fin = src.obj.fin
        /\ \A d \in Data : /\ [src EXCEPT !.obj.data = d] \in Source
                           /\ [src EXCEPT !.obj.data = d].obj.fin = src.obj.fin
        /\ \A l \in TargetList :
              /\ [src EXCEPT !.clusters[Keys.primary] = l] \in Source
              /\ [src EXCEPT !.clusters[Keys.primary] = l].obj.fin = src.obj.fin
    BY <2>3, KeysFacts, NoneAssumption DEF Source, Object, Unannotated
  <2>6. CASE UserUnannotate(h, k)
    BY <2>2, <2>4, <2>5, <2>6 DEF UserUnannotate
  <2>7. CASE UserRetarget(h, k)
    BY <2>2, <2>4, <2>5, <2>7, CrossClusterAssumption DEF UserRetarget
  <2>8. CASE UserEdit(h, k)
    BY <2>2, <2>4, <2>5, <2>8 DEF UserEdit
  <2>9. CASE UserDelete(h, k)
    <3>1. CASE src.obj.fin = {}
      <4>1. ~Armed(h, k)
        BY <2>2, <3>1 DEF Armed, HasFinalizer
      <4>2. Deleted(src.obj) = None
        BY <3>1 DEF Deleted
      <4>3. UserPut(h, k, None)
        BY <2>2, <2>9, <4>2 DEF UserDelete
      <4> QED BY <4>1, <4>3 DEF Goal
    <3>2. CASE src.obj.fin # {}
      <4> DEFINE obj == Deleted(src.obj)
                 new == [src EXCEPT !.obj = obj]
      <4>1. obj = [src.obj EXCEPT !.del = TRUE]
        BY <3>2 DEF Deleted
      <4>2. obj \in Object /\ obj # None /\ obj.fin = src.obj.fin
        BY <2>3, <4>1, NoneAssumption DEF Object
      <4>3. UserPut(h, k, new)
        BY <2>2, <2>9, <4>2 DEF UserDelete
      <4> HIDE DEF obj
      <4>4. new \in Source /\ new.obj.fin = src.obj.fin
        BY <4>2 DEF Source
      <4> QED BY <2>4, <4>3, <4>4
    <3> QED BY <3>1, <3>2
  <2> QED BY <1>2, <2>6, <2>7, <2>8, <2>9
<1> QED BY <1>1, <1>2

LEMMA ReadyIsArmed ==
    ASSUME NEW obj \in Object, Ready(obj)
    PROVE  HasFinalizer(Keys, obj)
<1>1. ReconcileFinalizer(Keys, obj).fin
        = (obj.fin \cup {Keys.primary}) \ LegacyDomains(Keys)
  BY DEF ReconcileFinalizer, Object
<1> QED BY <1>1, KeysFacts DEF Ready, HasFinalizer

LEMMA WalkStart ==
    ASSUME TypeOK, NEW h \in Hub, NEW k \in Namespace,
           StartWalk(h, k) \/ StartCleanup(h, k)
    PROVE  /\ sources' = sources /\ remote' = remote
           /\ \A g \in Hub \ {h} : wk'[g] = wk[g]
           /\ wk[h] = Idle /\ wk'[h] \in Busy
           /\ wk'[h].key = k /\ wk'[h].src = sources[h][k]
           /\ wk'[h].pc = "next" /\ wk'[h].spokes = registry[h]
           /\ wk'[h].keep = {}
           /\ LocalsOK(h, wk'[h], sources[h][k])
<1>1. PICK release \in BOOLEAN :
        /\ Start(h, k, release) /\ sources[h][k] # None /\ wk[h] = Idle
        /\ ~release => Ready(sources[h][k].obj)
  BY DEF StartWalk, StartCleanup, Take
<1>2. PICK src \in Source : src = sources[h][k]
  BY <1>1, HubFacts
<1>3. /\ \A g \in Hub \ {h} : wk'[g] = wk[g]
      /\ wk'[h] \in Busy /\ wk'[h].pc = "next" /\ wk'[h].key = k
      /\ wk'[h].src = src /\ wk'[h].spokes = registry[h]
      /\ wk'[h].release = release /\ wk'[h].fresh = release
      /\ wk'[h].keep = {}
  BY <1>1, <1>2, StartFacts
<1>4. ~release => HasFinalizer(Keys, src.obj)
  BY <1>1, <1>2, ReadyIsArmed, SourceFacts
<1>5. LocalsOK(h, wk'[h], src)
  BY <1>3, <1>4, SourceFacts DEF LocalsOK
<1> QED BY <1>1, <1>2, <1>3, <1>5 DEF Start

LEMMA WalkInvInit == Init => WalkInv
BY DEF Init, WalkInv

LEMMA WalkInvBegin ==
    ASSUME TypeOK, WalkInv, NEW h \in Hub, NEW k \in Namespace, Begin(h, k)
    PROVE  WalkInv'
<1> SUFFICES ASSUME NEW g \in Hub, wk'[g] # Idle
             PROVE  LocalsOK(g, wk'[g], sources'[g][wk'[g].key])
  BY DEF WalkInv
<1>1. CASE Ignore(h, k)
  BY <1>1 DEF Ignore, WalkInv
<1>2. CASE AddFinalizer(h, k)
  <2>1. wk' = wk /\ wk[h] = Idle /\ \A f \in Hub \ {h} : sources'[f] = sources[f]
    BY <1>2 DEF AddFinalizer, Take, TypeOK
  <2> QED BY <2>1 DEF WalkInv
<1>3. CASE StartWalk(h, k) \/ StartCleanup(h, k)
  BY <1>3, WalkStart DEF WalkInv
<1> QED BY <1>1, <1>2, <1>3 DEF Begin

LEMMA WalkInvProceed ==
    ASSUME TypeOK, WalkInv, NEW h \in Hub, Proceed(h)
    PROVE  WalkInv'
<1> SUFFICES ASSUME NEW g \in Hub, wk'[g] # Idle
             PROVE  LocalsOK(g, wk'[g], sources'[g][wk'[g].key])
  BY DEF WalkInv
<1>1. CASE g # h
  BY <1>1, WalkSteps DEF WalkInv
<1>2. CASE g = h
  <2>1. sources' = sources /\ GoesOn(h, wk[h], wk'[h]) /\ wk[h] # Idle
    BY <1>2, WalkSteps, Walking
  <2>2. LocalsOK(h, wk[h], sources[h][wk[h].key]) /\ wk'[h].key = wk[h].key
    BY <2>1 DEF WalkInv, GoesOn
  <2> QED BY <1>2, <2>1, <2>2, GoingOnIsOK
<1> QED BY <1>1, <1>2

LEMMA WalkInvUsers ==
    ASSUME TypeOK, WalkInv, NEW h \in Hub, Users(h)
    PROVE  WalkInv'
<1>1. PICK k \in Namespace, src \in Source \cup {None} :
        /\ UserPut(h, k, src)
        /\ Armed(h, k) => src # None /\ HasFinalizer(Keys, src.obj)
  BY UsersKeepArms
<1> DEFINE new == IF wk[h].key = k THEN [wk[h] EXCEPT !.fresh = FALSE] ELSE wk[h]
<1>2. Becomes(h, new) /\ SetSource(h, k, src)
  BY <1>1 DEF UserPut
<1>3. wk[h] = Idle => new = Idle
  BY NoneAssumption DEF Idle
<1>4. wk[h] # Idle => LocalsOK(h, new, sources'[h][new.key])
  <2> SUFFICES ASSUME wk[h] # Idle PROVE LocalsOK(h, new, sources'[h][new.key])
    OBVIOUS
  <2>1. PICK w \in Busy : w = wk[h]
    BY HubFacts
  <2>2. LocalsOK(h, w, sources[h][w.key])
    BY <2>1 DEF WalkInv
  <2>3. CASE w.key = k
    <3> DEFINE v == [w EXCEPT !.fresh = FALSE]
    <3>1. new = v /\ v.key = k /\ sources'[h][k] = src
      BY <1>2, <2>1, <2>3, SetSourceType DEF Busy
    <3>2. LocalsOK(h, v, src)
      BY <1>1, <2>2, <2>3 DEF LocalsOK, Armed, Busy
    <3> QED BY <3>1, <3>2
  <2>4. CASE w.key # k
    <3>1. new = w /\ sources'[h][w.key] = sources[h][w.key]
      BY <1>2, <2>1, <2>4, SetSourceType DEF Busy
    <3> QED BY <2>2, <3>1
  <2> QED BY <2>3, <2>4
<1> HIDE DEF new
<1>5. wk'[h] = new /\ \A g \in Hub \ {h} : wk'[g] = wk[g] /\ sources'[g] = sources[g]
  BY <1>2, BecomesType, SetSourceType
<1> QED BY <1>3, <1>4, <1>5 DEF WalkInv

LEMMA WalkInvNext == TypeOK /\ WalkInv /\ [Next]_vars => WalkInv'
<1> SUFFICES ASSUME TypeOK, WalkInv, [Next]_vars PROVE WalkInv'
  OBVIOUS
<1>1. CASE wk' = wk /\ sources' = sources
  BY <1>1 DEF WalkInv
<1>2. ASSUME NEW h \in Hub, HubStep(h) PROVE WalkInv'
  BY <1>2, WalkInvBegin, WalkInvProceed DEF HubStep
<1>3. ASSUME NEW h \in Hub, Users(h) PROVE WalkInv'
  BY <1>3, WalkInvUsers
<1>4. ASSUME NEW h \in Hub, Restart(h) PROVE WalkInv'
  BY <1>4, BecomesType DEF Restart, WalkInv
<1>5. CASE Environment
  BY <1>1, <1>3, <1>4, <1>5
     DEF Environment, Resync, CredentialReconcile, CredentialChange, LocalTrouble,
         LocalRecovery, SpokeDown, SpokeUp, SpokePut
<1> QED BY <1>1, <1>2, <1>5 DEF Next, vars

\* A walk that writes is one for a source that is still armed, and what it means
\* to write over it may still write over.
THEOREM WalksStayOK == Spec => []WalkOK
<1>1. TypeOK /\ WalkInv /\ [Next]_vars => (TypeOK /\ WalkInv)'
  BY TypeNext, WalkInvNext
<1>2. Init => TypeOK /\ WalkInv
  BY TypeInit, WalkInvInit
<1> QED BY <1>1, <1>2, WalkInvImplies, PTL DEF Spec

-----------------------------------------------------------------------------
(* Hubs that share a spoke *)

\* Only a hub that writes a copy it may write replaces an object of a spoke.
LEMMA MovesOverwrites ==
    ASSUME TypeOK, Next, NEW h \in Hub, Moves(h), NEW sp \in Spoke, NEW n \in Namespace,
           remote'[sp][n] # remote[sp][n], remote'[sp][n] # None, remote[sp][n] # None
    PROVE  /\ wk[h].pc = "write" /\ wk[h].read = remote[sp][n] /\ wk[h] \in Busy
           /\ remote'[sp][n] = Desired(h, remote[sp][n])
<1>1. PICK g \in Hub : HubStep(g) \/ Restart(g) \/ Users(g)
  BY DEF Next, Environment, Resync, CredentialReconcile, CredentialChange,
         LocalTrouble, LocalRecovery, SpokeDown, SpokeUp, SpokePut, Moves
<1>2. remote' # remote
  OBVIOUS
<1>3. PICK m \in Namespace : WriteCopy(g) \/ DeleteCopy(g, m)
  <2>1. ASSUME NEW k \in Namespace, Begin(g, k) PROVE FALSE
    BY <1>2, <2>1 DEF Begin, Ignore, AddFinalizer, StartWalk, StartCleanup, Start
  <2>2. ASSUME Users(g) PROVE FALSE
    BY <1>2, <2>2 DEF Users, UserCreate, UserUnannotate, UserRetarget, UserEdit,
                      UserDelete, UserPut
  <2>3. ~Restart(g)
    BY <1>2 DEF Restart
  <2>4. Proceed(g)
    BY <1>1, <2>1, <2>2, <2>3 DEF HubStep
  <2> QED BY <1>2, <2>4 DEF Proceed, SkipSpoke, VisitSpoke, GetCopy, WriteFails,
                            AlreadyExists, ListCopies, LeaveSpoke, FinishWalk,
                            ReleaseFinalizer, OnlyWorker
<1>4. g = h
  <2>1. Proceed(g)
    BY <1>3 DEF Proceed
  <2> QED BY <2>1, WalkSteps DEF Moves
<1>5. WriteCopy(h)
  <2>1. ASSUME DeleteCopy(h, m) PROVE FALSE
    <3>1. UNCHANGED remote => FALSE
      BY <1>2
    <3>2. RemotePut(wk[h].at, m, None)
      BY <2>1, <3>1 DEF DeleteCopy, RemotePut
    <3> QED BY <1>2, <3>2, RemoteChange
  <2> QED BY <1>3, <1>4, <2>1
<1>6. wk[h] \in Busy /\ wk[h].pc = "write"
  BY <1>5, BusyFacts DEF WriteCopy
<1> DEFINE dst == IF wk[h].read = None THEN EmptyObject(wk[h].src.obj.data)
                  ELSE wk[h].read
<1>7. /\ remote' = [remote EXCEPT ![wk[h].at][wk[h].ns] = Desired(h, dst)]
      /\ remote[wk[h].at][wk[h].ns] = wk[h].read
  BY <1>5 DEF WriteCopy
<1>8. dst \in Object
  BY <1>6, EmptyObjectType DEF Busy, Source, Object
<1>9. Desired(h, dst) \in Object
  BY <1>6, <1>8, DesiredFacts
<1> HIDE DEF dst
<1>10. sp = wk[h].at /\ n = wk[h].ns /\ remote'[sp][n] = Desired(h, dst)
  BY <1>7, <1>9, RemoteType
<1> QED BY <1>6, <1>7, <1>10 DEF dst

\* No hub that knows who it is overwrites what another hub stamped, nor an object
\* that is not adoptable, whatever happens between its Get and its Update.
THEOREM NothingIsClobbered == Spec => NoClobber
<1>1. TypeOK /\ WalkInv /\ [Next]_vars => (TypeOK /\ WalkInv)'
  BY TypeNext, WalkInvNext
<1>2. Init => TypeOK /\ WalkInv
  BY TypeInit, WalkInvInit
<1> DEFINE Kept ==
      \A h \in Hub, sp \in Spoke, n \in Namespace :
         LET before == remote[sp][n]
             after  == remote'[sp][n]
         IN  /\ HubClusterUID[h] # None /\ Moves(h)
             /\ before # None /\ after # None /\ after # before
             => IF IsManagedCopy(Keys, before)
                THEN /\ OriginCluster(Keys, before) \in {None, HubClusterUID[h]}
                     /\ CopyOrigin(Keys, before) = CopyOrigin(Keys, after)
                ELSE IsAdoptable(before)
<1>3. TypeOK /\ WalkInv /\ [Next]_vars => [Kept]_vars
  <2> SUFFICES ASSUME TypeOK, WalkInv, Next, NEW h \in Hub, NEW sp \in Spoke,
                      NEW n \in Namespace, HubClusterUID[h] # None, Moves(h),
                      remote[sp][n] # None, remote'[sp][n] # None,
                      remote'[sp][n] # remote[sp][n]
               PROVE  IF IsManagedCopy(Keys, remote[sp][n])
                      THEN /\ OriginCluster(Keys, remote[sp][n])
                                \in {None, HubClusterUID[h]}
                           /\ CopyOrigin(Keys, remote[sp][n])
                                = CopyOrigin(Keys, remote'[sp][n])
                      ELSE IsAdoptable(remote[sp][n])
    OBVIOUS
  <2>1. PICK obj : obj = remote[sp][n]
    OBVIOUS
  <2>2. obj \in Object
    BY <2>1 DEF TypeOK
  <2>3. /\ wk[h].pc = "write" /\ wk[h].read = obj /\ wk[h] \in Busy
        /\ remote'[sp][n] = Desired(h, obj)
    BY <2>1, MovesOverwrites
  <2>4. Writable(h, wk[h].key, wk[h].src, obj)
    <3>1. wk[h] # Idle
      BY <2>3 DEF Idle
    <3> QED BY <2>1, <2>3, <3>1 DEF WalkInv, LocalsOK
  <2>5. CASE IsManagedCopy(Keys, obj)
    <3>1. OwnsCopy(Keys, obj, wk[h].key, HubClusterUID[h])
      BY <2>4, <2>5 DEF Writable
    <3>2. /\ OriginCluster(Keys, obj) \in {None, HubClusterUID[h]}
          /\ CopyOrigin(Keys, obj) = {wk[h].key} \ {None}
      BY <2>5, <3>1 DEF OwnsCopy, OriginCluster, CopyOrigin
    <3>3. CopyOrigin(Keys, Desired(h, obj)) = {wk[h].key} /\ wk[h].key # None
      BY <2>2, <2>3, DesiredFacts, NoneAssumption DEF Busy
    <3> QED BY <2>1, <2>3, <2>5, <3>2, <3>3
  <2>6. CASE ~IsManagedCopy(Keys, obj)
    BY <2>1, <2>4, <2>6 DEF Writable
  <2> QED BY <2>1, <2>5, <2>6
<1>4. NoClobber <=> [][Kept]_vars
  BY DEF NoClobber
<1> HIDE DEF Kept
<1> QED BY <1>1, <1>2, <1>3, <1>4, PTL DEF Spec
=============================================================================
