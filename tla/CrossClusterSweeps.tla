-------------------------- MODULE CrossClusterSweeps --------------------------
(***************************************************************************)
(* A cleanup that can reach every spoke leaves no copy behind, and what    *)
(* hubs do to the namespaces of their spokes is what CopyOwnership allows, *)
(* for any number of hubs, spokes and namespaces.                          *)
(***************************************************************************)
EXTENDS CrossClusterProofs

\* What strangers put into a spoke carries no hub's stamp.
StrangersStampNothing ==
    \A obj \in SpokeObject : OriginCluster(Keys, obj) = None

Healthy == StaysRegistered /\ up = Spoke

\* The object obj in namespace n of spoke sp is still to be met by the walk w.
Pending(w, obj, sp, n) ==
    \/ sp \in w.spokes
    \/ /\ w.pc = "sweep" /\ w.at = sp
       /\ \/ n \in w.todo
          \/ /\ n \notin w.seen
             /\ \E i \in DOMAIN w.domains : MatchesOrigin(obj, w.domains[i], w.key)

\* A cleanup has every copy of its source still before it.
SweepInv ==
    \A h \in Hub : wk[h] # Idle /\ wk[h].release =>
      /\ wk[h].keep = {}
      /\ \A sp \in Spoke, n \in Namespace :
           StampedBy(remote[sp][n], h, wk[h].key) =>
             Pending(wk[h], remote[sp][n], sp, n)

\* A stamp is all that StampedBy and Pending look at.
LEMMA OnlyTheStamp ==
    ASSUME NEW a, NEW b, a # None, b # None, a.stamp = b.stamp
    PROVE  /\ \A h \in Hub, k \in Namespace : StampedBy(a, h, k) <=> StampedBy(b, h, k)
           /\ \A w, sp, n : Pending(w, a, sp, n) <=> Pending(w, b, sp, n)
<1>1. KeysFor(Keys, a) = KeysFor(Keys, b)
  BY DEF KeysFor
<1>2. IsManagedCopy(Keys, a) <=> IsManagedCopy(Keys, b)
  BY <1>1 DEF IsManagedCopy
<1>3. OriginCluster(Keys, a) = OriginCluster(Keys, b)
  BY <1>1, <1>2 DEF OriginCluster
<1>4. CopyOrigin(Keys, a) = CopyOrigin(Keys, b)
  BY <1>1, <1>2 DEF CopyOrigin
<1> QED BY <1>3, <1>4 DEF StampedBy, Pending, MatchesOrigin

\* Every list query of deleteCopies looks for one honoured domain, and a stamped
\* copy is found by one of them.
LEMMA StampIsListed ==
    ASSUME Identified, NEW obj \in Object, NEW h \in Hub, NEW k \in Namespace,
           StampedBy(obj, h, k)
    PROVE  /\ \E i \in DOMAIN Each(Keys) : MatchesOrigin(obj, Each(Keys)[i], k)
           /\ Prunable(h, obj)
<1>1. OriginCluster(Keys, obj) = HubClusterUID[h] /\ HubClusterUID[h] # None
  BY DEF StampedBy, Identified
<1>2. IsManagedCopy(Keys, obj)
  BY <1>1 DEF OriginCluster
<1>3. obj.stamp[KeysFor(Keys, obj)] \in Stamp /\ KeysFor(Keys, obj) \in Honoured(Keys)
  BY <1>2, KeysFacts, KeysForFacts
<1>4. obj.stamp[KeysFor(Keys, obj)].ns = k
  BY <1>2 DEF StampedBy, CopyOrigin
<1>5. MatchesOrigin(obj, KeysFor(Keys, obj), k)
  BY <1>3, <1>4, NoneAssumption DEF MatchesOrigin
<1> QED BY <1>1, <1>3, <1>5 DEF Honoured, Prunable

\* What writes to a spoke.
LEMMA RemoteSteps ==
    ASSUME [Next]_vars
    PROVE  \/ remote' = remote
           \/ \E g \in Hub : WriteCopy(g) \/ \E m \in Namespace : DeleteCopy(g, m)
           \/ \E s \in Spoke, m \in Namespace : SpokePut(s, m)
<1> DEFINE Goal == \/ remote' = remote
                   \/ \E g \in Hub : WriteCopy(g) \/ \E m \in Namespace : DeleteCopy(g, m)
                   \/ \E s \in Spoke, m \in Namespace : SpokePut(s, m)
<1> SUFFICES Goal
  OBVIOUS
<1>1. ASSUME NEW g \in Hub, NEW k \in Namespace, Begin(g, k) PROVE remote' = remote
  BY <1>1 DEF Begin, Ignore, AddFinalizer, StartWalk, StartCleanup, Start
<1>2. ASSUME NEW g \in Hub, Proceed(g) PROVE Goal
  BY <1>2 DEF Proceed, SkipSpoke, VisitSpoke, GetCopy, WriteFails, AlreadyExists,
              ListCopies, LeaveSpoke, FinishWalk, ReleaseFinalizer, OnlyWorker
<1>3. ASSUME NEW g \in Hub, Users(g) PROVE remote' = remote
  BY <1>3 DEF Users, UserCreate, UserUnannotate, UserRetarget, UserEdit,
              UserDelete, UserPut
<1>4. ASSUME Environment PROVE Goal
  BY <1>3, <1>4 DEF Environment, Resync, Restart, CredentialReconcile,
                    CredentialChange, LocalTrouble,
                    LocalRecovery, SpokeDown, SpokeUp
<1> HIDE DEF Goal
<1>5. ASSUME NEW g \in Hub, HubStep(g) PROVE Goal
  BY <1>1, <1>2, <1>5 DEF HubStep, Goal
<1>6. CASE UNCHANGED vars
  BY <1>6 DEF vars, Goal
<1> QED BY <1>4, <1>5, <1>6 DEF Next

\* A stamp of hub h comes from a copy that was there or from a write of h.
LEMMA StampsComeFrom ==
    ASSUME TypeOK, Identified, StrangersStampNothing, [Next]_vars,
           NEW h \in Hub, NEW k \in Namespace, NEW sp \in Spoke, NEW n \in Namespace,
           StampedBy(remote'[sp][n], h, k)
    PROVE  \/ /\ remote[sp][n] # None
              /\ remote'[sp][n].stamp = remote[sp][n].stamp
           \/ WriteCopy(h) /\ wk[h].key = k
<1> DEFINE Kept == /\ remote[sp][n] # None
                   /\ remote'[sp][n].stamp = remote[sp][n].stamp
<1>1. /\ remote'[sp][n] # None
      /\ OriginCluster(Keys, remote'[sp][n]) = HubClusterUID[h]
      /\ HubClusterUID[h] # None /\ k \in CopyOrigin(Keys, remote'[sp][n])
  BY DEF StampedBy, Identified
<1>2. CASE remote'[sp][n] = remote[sp][n]
  BY <1>1, <1>2
<1>3. ASSUME NEW g \in Hub, WriteCopy(g), remote'[sp][n] # remote[sp][n]
      PROVE  WriteCopy(h) /\ wk[h].key = k
  <2> DEFINE dst == IF wk[g].read = None THEN EmptyObject(wk[g].src.obj.data)
                    ELSE wk[g].read
  <2>1. wk[g] \in Busy
    BY <1>3, BusyFacts DEF WriteCopy
  <2>2. dst \in Object
    BY <2>1, EmptyObjectType DEF Busy, Source, Object
  <2>3. RemotePut(wk[g].at, wk[g].ns, Desired(g, dst))
    BY <1>3 DEF WriteCopy, RemotePut
  <2> HIDE DEF dst
  <2>4. remote'[sp][n] = Desired(g, dst)
    BY <1>3, <2>3, RemoteChange
  <2>5. /\ CopyOrigin(Keys, Desired(g, dst)) = {wk[g].key}
        /\ OriginCluster(Keys, Desired(g, dst)) = HubClusterUID[g]
    BY <2>1, <2>2, DesiredFacts DEF Identified
  <2>6. g = h /\ wk[g].key = k
    BY <1>1, <2>4, <2>5 DEF Identified
  <2> QED BY <1>3, <2>6
<1>4. ASSUME NEW g \in Hub, NEW m \in Namespace, DeleteCopy(g, m),
             remote'[sp][n] # remote[sp][n]
      PROVE  FALSE
  <2>1. remote' # remote
    BY <1>4
  <2>2. RemotePut(wk[g].at, m, None)
    BY <1>4, <2>1 DEF DeleteCopy, RemotePut
  <2>3. remote'[sp][n] = None
    BY <1>4, <2>2, RemoteChange
  <2> QED BY <1>1, <2>3
<1>5. ASSUME NEW s \in Spoke, NEW m \in Namespace, SpokePut(s, m),
             remote'[sp][n] # remote[sp][n]
      PROVE  Kept
  <2>1. PICK obj : /\ remote' = [remote EXCEPT ![s][m] = obj]
                   /\ obj \in IF remote[s][m] = None THEN SpokeObject
                              ELSE {None} \cup {[remote[s][m] EXCEPT !.data = value] :
                                                  value \in Data \ {remote[s][m].data}}
    BY <1>5 DEF SpokePut
  <2>2. sp = s /\ n = m /\ remote'[sp][n] = obj
    <3>1. RemotePut(s, m, obj)
      BY <2>1 DEF RemotePut
    <3> QED BY <1>5, <3>1, RemoteChange
  <2>3. obj \notin SpokeObject
    BY <1>1, <2>2 DEF StrangersStampNothing
  <2>4. remote[sp][n] # None
    BY <2>1, <2>2, <2>3
  <2>5. PICK before \in Object, value \in Data :
          before = remote[sp][n] /\ obj = [before EXCEPT !.data = value]
    BY <1>1, <2>1, <2>2, <2>4 DEF TypeOK
  <2>6. obj.stamp = before.stamp
    BY <2>5 DEF Object
  <2> QED BY <2>2, <2>4, <2>5, <2>6
<1> HIDE DEF Kept
<1> QED BY <1>2, <1>3, <1>4, <1>5, RemoteSteps DEF Kept

\* A source loses its finalizer only when its cleanup is done.
LEMMA DisarmedBy ==
    ASSUME TypeOK, WalkInv, [Next]_vars, NEW h \in Hub, NEW k \in Namespace,
           Armed(h, k), ~Armed(h, k)'
    PROVE  ReleaseFinalizer(h) /\ wk[h].key = k
<1>1. sources'[h][k] # sources[h][k]
  BY DEF Armed
<1>2. ASSUME NEW g \in Hub, Users(g) PROVE FALSE
  <2>1. PICK m \in Namespace, src \in Source \cup {None} :
          /\ UserPut(g, m, src)
          /\ Armed(g, m) => src # None /\ HasFinalizer(Keys, src.obj)
    BY <1>2, UsersKeepArms
  <2>2. SetSource(g, m, src)
    BY <2>1 DEF UserPut
  <2>3. g = h /\ m = k /\ sources'[h][k] = src
    BY <1>1, <2>2, SetSourceType
  <2> QED BY <2>1, <2>3 DEF Armed
<1>3. ASSUME NEW g \in Hub, NEW m \in Namespace, Begin(g, m) PROVE FALSE
  <2>1. AddFinalizer(g, m)
    BY <1>1, <1>3 DEF Begin, Ignore, StartWalk, StartCleanup, Start
  <2>2. PICK src \in Source : src = sources[g][m]
    BY <2>1, HubFacts DEF AddFinalizer
  <2> DEFINE obj == ReconcileFinalizer(Keys, src.obj)
  <2>3. sources' = [sources EXCEPT ![g][m] = [src EXCEPT !.obj = obj]]
    BY <2>1, <2>2 DEF AddFinalizer, TypeOK
  <2>4. obj \in Object /\ HasFinalizer(Keys, obj)
    <3>1. src.obj \in Object
      BY SourceFacts
    <3>2. obj.fin = (src.obj.fin \cup {Keys.primary}) \ LegacyDomains(Keys)
      BY <3>1 DEF ReconcileFinalizer, Object
    <3> QED BY <3>1, <3>2, ObjectWrites, KeysFacts DEF HasFinalizer
  <2> HIDE DEF obj
  <2>5. [src EXCEPT !.obj = obj] # None /\ [src EXCEPT !.obj = obj].obj = obj
    BY <2>4, SourceFacts DEF Source
  <2>6. g = h /\ m = k /\ sources'[h][k] = [src EXCEPT !.obj = obj]
    BY <1>1, <2>3 DEF TypeOK
  <2> QED BY <2>4, <2>5, <2>6 DEF Armed
<1>4. ASSUME NEW g \in Hub, Proceed(g) PROVE ReleaseFinalizer(h) /\ wk[h].key = k
  <2>1. g = h
    BY <1>1, <1>4, WalkSteps
  <2>2. ReleaseFinalizer(h)
    BY <1>1, <1>4, <2>1
       DEF Proceed, SkipSpoke, VisitSpoke, GetCopy, DeleteCopy, WriteFails,
           AlreadyExists, WriteCopy, ListCopies, LeaveSpoke, FinishWalk,
           OnlyWorker, OnlyRemote
  <2>3. wk[h].key = k
    <3>1. wk[h].key \in Namespace
      BY <1>4, <2>1, Walking, BusyFacts
    <3>2. \A src : SetSource(h, wk[h].key, src) =>
                     \A m \in Namespace \ {wk[h].key} : sources'[h][m] = sources[h][m]
      BY <3>1 DEF SetSource, TypeOK
    <3> QED BY <1>1, <2>2, <3>2 DEF ReleaseFinalizer
  <2> QED BY <2>2, <2>3
<1>5. sources' # sources
  BY <1>1
<1>6. ~Environment
  BY <1>2, <1>5 DEF Environment, Resync, Restart, CredentialReconcile,
                    CredentialChange, LocalTrouble,
                    LocalRecovery, SpokeDown, SpokeUp, SpokePut
<1>7. ~ UNCHANGED vars
  BY <1>5 DEF vars
<1> QED BY <1>3, <1>4, <1>6, <1>7 DEF Next, HubStep

\* While a cleanup waits for other actors, nothing escapes it.
LEMMA WaitingSweep ==
    ASSUME TypeOK, WalkInv, SweepInv, Identified, StrangersStampNothing, [Next]_vars,
           NEW h \in Hub, wk[h] # Idle, wk[h].release, NEW w,
           w.release, w.key = wk[h].key, w.spokes = wk[h].spokes, w.pc = wk[h].pc,
           w.at = wk[h].at, w.todo = wk[h].todo, w.seen = wk[h].seen,
           w.domains = wk[h].domains,
           NEW sp \in Spoke, NEW n \in Namespace, StampedBy(remote'[sp][n], h, w.key)
    PROVE  Pending(w, remote'[sp][n], sp, n)
<1>1. wk[h].key \in Namespace
  BY HubFacts DEF Busy
<1>2. ~WriteCopy(h)
  BY DEF WalkInv, LocalsOK, WriteCopy
<1>3. remote[sp][n] # None /\ remote'[sp][n].stamp = remote[sp][n].stamp
  BY <1>1, <1>2, StampsComeFrom
<1>4. remote'[sp][n] # None
  BY DEF StampedBy
<1>5. StampedBy(remote[sp][n], h, wk[h].key)
  BY <1>1, <1>3, <1>4, OnlyTheStamp
<1>6. Pending(wk[h], remote[sp][n], sp, n)
  BY <1>5 DEF SweepInv
<1>7. Pending(w, remote[sp][n], sp, n)
  BY <1>6 DEF Pending
<1> QED BY <1>3, <1>4, <1>7, OnlyTheStamp

\* Each call of a cleanup leaves what it has not met still before it.
LEMMA SweepSteps ==
    ASSUME TypeOK, WalkInv, SweepInv, Identified, Healthy,
           NEW h \in Hub, wk[h].release, Proceed(h), wk'[h] # Idle,
           NEW sp \in Spoke, NEW n \in Namespace,
           StampedBy(remote'[sp][n], h, wk[h].key)
    PROVE  wk'[h].keep = {} /\ Pending(wk'[h], remote'[sp][n], sp, n)
<1> DEFINE w == wk[h]
           Goal == wk'[h].keep = {} /\ Pending(wk'[h], remote'[sp][n], sp, n)
<1> PICK obj : obj = remote'[sp][n]
  OBVIOUS
<1>1. /\ w \in Busy /\ w # Idle /\ w.pc \in {"next", "sweep"} /\ w.keep = {}
      /\ w.key \in Namespace
  <2>1. w \in Busy /\ w # Idle /\ w.pc \in {"next", "upsert", "write", "sweep"}
    BY Walking
  <2>2. LocalsOK(h, w, sources[h][w.key])
    BY <2>1 DEF WalkInv
  <2> QED BY <2>1, <2>2 DEF LocalsOK, SweepInv, Busy
<1>2. \/ \E s \in Spoke : SkipSpoke(h, s) \/ VisitSpoke(h, s)
      \/ \E m \in Namespace : DeleteCopy(h, m)
      \/ ListCopies(h) \/ LeaveSpoke(h)
  <2>1. ~FinishWalk(h) /\ ~ReleaseFinalizer(h)
    BY BecomesType DEF FinishWalk, ReleaseFinalizer
  <2> QED BY <1>1, <2>1 DEF Proceed, GetCopy, WriteFails, AlreadyExists, WriteCopy
<1>3. remote[sp][n] = obj /\ obj \in Object
  <2>1. obj # None
    BY DEF StampedBy
  <2>2. ASSUME NEW m \in Namespace, DeleteCopy(h, m) PROVE remote[sp][n] = obj
    <3>1. remote' = [remote EXCEPT ![w.at][m] = None] \/ remote' = remote
      BY <2>2 DEF DeleteCopy
    <3> QED BY <2>1, <3>1 DEF TypeOK
  <2>3. remote[sp][n] = obj
    BY <1>2, <2>2 DEF SkipSpoke, VisitSpoke, ListCopies, LeaveSpoke, OnlyWorker
  <2> QED BY <2>1, <2>3 DEF TypeOK
<1>4. Pending(w, obj, sp, n)
  BY <1>1, <1>3 DEF SweepInv
<1>5. /\ \E i \in DOMAIN Each(Keys) : MatchesOrigin(obj, Each(Keys)[i], w.key)
      /\ Prunable(h, obj)
  BY <1>1, <1>3, StampIsListed
<1>6. ASSUME NEW v, Becomes(h, v), v.keep = {}, Pending(v, obj, sp, n)
      PROVE  Goal
  BY <1>6, BecomesType
<1> HIDE DEF Goal
<1>7. /\ SpokeLeft(h).keep = {} /\ SpokeLeft(h).spokes = w.spokes
      /\ SpokeFailed(h).keep = {} /\ SpokeFailed(h).spokes = w.spokes
  <2>1. SpokeLeft(h).keep = {} /\ SpokeLeft(h).spokes = w.spokes
    BY <1>1 DEF SpokeLeft, Busy
  <2>2. SpokeFailed(h).keep = {} /\ SpokeFailed(h).spokes = w.spokes
    BY <1>1 DEF SpokeFailed, SpokeLeft, Busy
  <2> QED BY <2>1, <2>2
<1>8. ASSUME NEW v, v = SpokeFailed(h) \/ v = SpokeLeft(h), sp \in w.spokes
      PROVE  Pending(v, obj, sp, n)
  BY <1>7, <1>8 DEF Pending
<1>9. ASSUME NEW s \in Spoke, SkipSpoke(h, s) PROVE Goal
  BY <1>9 DEF SkipSpoke, Healthy, StaysRegistered
<1>10. ASSUME NEW s \in Spoke, VisitSpoke(h, s) PROVE Goal
  <2>1. PICK v : v = [w EXCEPT !.pc = "sweep", !.at = s, !.spokes = w.spokes \ {s},
                               !.todo = {}, !.keep = {}, !.domains = Each(Keys),
                               !.seen = {}]
    OBVIOUS
  <2>2. Becomes(h, v) /\ w.pc = "next"
    BY <1>10, <2>1 DEF VisitSpoke
  <2>3. /\ v.pc = "sweep" /\ v.at = s /\ v.spokes = w.spokes \ {s} /\ v.keep = {}
        /\ v.domains = Each(Keys) /\ v.seen = {} /\ v.key = w.key
    BY <1>1, <2>1 DEF Busy
  <2>4. sp \in w.spokes
    BY <1>4, <2>2 DEF Pending
  <2>5. Pending(v, obj, sp, n)
    BY <1>5, <2>3, <2>4 DEF Pending
  <2> QED BY <1>6, <2>2, <2>3, <2>5
<1>11. ASSUME NEW m \in Namespace, DeleteCopy(h, m) PROVE Goal
  <2>1. CASE w.at \in up
    <3>1. PICK v : v = [w EXCEPT !.todo = w.todo \ {m}]
      OBVIOUS
    <3>2. Becomes(h, v) /\ remote' = [remote EXCEPT ![w.at][m] = None]
      BY <1>11, <2>1, <3>1 DEF DeleteCopy
    <3>3. /\ v.pc = w.pc /\ v.at = w.at /\ v.spokes = w.spokes /\ v.keep = {}
          /\ v.domains = w.domains /\ v.seen = w.seen /\ v.key = w.key
          /\ v.todo = w.todo \ {m}
      BY <1>1, <3>1 DEF Busy
    <3>4. ~(w.at = sp /\ n = m)
      BY <3>2 DEF StampedBy, TypeOK
    <3>5. Pending(v, obj, sp, n)
      BY <1>4, <3>3, <3>4 DEF Pending
    <3> QED BY <1>6, <3>2, <3>3, <3>5
  <2>2. CASE w.at \notin up
    <3>1. Becomes(h, SpokeFailed(h))
      BY <1>11, <2>2 DEF DeleteCopy
    <3>2. sp \in w.spokes
      BY <1>4, <2>2 DEF Pending, Healthy
    <3> QED BY <1>6, <1>7, <1>8, <3>1, <3>2
  <2> QED BY <2>1, <2>2
<1>12. ASSUME ListCopies(h) PROVE Goal
  <2>1. CASE w.at \in up
    <3> DEFINE listed == {m \in Namespace :
                            /\ remote[w.at][m] # None
                            /\ MatchesOrigin(remote[w.at][m], Head(w.domains), w.key)}
               todo == {m \in listed \ (w.seen \cup w.keep) :
                           Prunable(h, remote[w.at][m])}
               seen == w.seen \cup listed
    <3>1. PICK v : v = [w EXCEPT !.pc = "sweep", !.todo = todo, !.seen = seen,
                                 !.domains = Tail(w.domains)]
      OBVIOUS
    <3>2. /\ Becomes(h, v) /\ w.todo = {} /\ w.domains # <<>>
      BY <1>12, <2>1, <3>1 DEF ListCopies, LoopDone
    <3> HIDE DEF todo, seen
    <3>3. /\ v.pc = "sweep" /\ v.at = w.at /\ v.spokes = w.spokes /\ v.keep = {}
          /\ v.domains = Tail(w.domains) /\ v.seen = seen /\ v.key = w.key
          /\ v.todo = todo
      BY <1>1, <3>1 DEF Busy
    <3>4. ASSUME sp \in w.spokes PROVE Pending(v, obj, sp, n)
      BY <3>3, <3>4 DEF Pending
    <3>5. ASSUME sp \notin w.spokes PROVE Pending(v, obj, sp, n)
      <4>1. /\ w.at = sp /\ n \notin w.seen
            /\ \E i \in DOMAIN w.domains : MatchesOrigin(obj, w.domains[i], w.key)
        BY <1>4, <3>2, <3>5 DEF Pending
      <4>2. CASE n \in listed
        <5>1. n \in todo
          BY <1>1, <1>3, <1>5, <4>1, <4>2 DEF todo
        <5> QED BY <3>3, <4>1, <5>1 DEF Pending
      <4>3. CASE n \notin listed
        <5>1. ~MatchesOrigin(obj, Head(w.domains), w.key)
          BY <1>3, <4>1, <4>3 DEF StampedBy
        <5>2. PICK i \in DOMAIN w.domains : MatchesOrigin(obj, w.domains[i], w.key)
          BY <4>1
        <5>3. w.domains \in Seq(Domain)
          BY <1>1 DEF Busy
        <5>4. PICK ds \in Seq(Domain) : ds = w.domains
          BY <5>3
        <5>5. i # 1
          BY <3>2, <5>1, <5>2, <5>4
        <5>6. i - 1 \in DOMAIN Tail(ds) /\ Tail(ds)[i - 1] = ds[i]
          BY <3>2, <5>2, <5>4, <5>5
        <5>7. n \notin seen
          BY <4>1, <4>3 DEF seen
        <5> QED BY <3>3, <4>1, <5>2, <5>4, <5>6, <5>7 DEF Pending
      <4> QED BY <4>2, <4>3
    <3> QED BY <1>6, <3>2, <3>3, <3>4, <3>5
  <2>2. CASE w.at \notin up
    <3>1. Becomes(h, SpokeFailed(h))
      BY <1>12, <2>2 DEF ListCopies
    <3>2. sp \in w.spokes
      BY <1>4, <2>2 DEF Pending, Healthy
    <3> QED BY <1>6, <1>7, <1>8, <3>1, <3>2
  <2> QED BY <2>1, <2>2
<1>13. ASSUME LeaveSpoke(h) PROVE Goal
  <2>1. Becomes(h, SpokeLeft(h)) /\ w.todo = {} /\ w.domains = <<>>
    BY <1>13 DEF LeaveSpoke, LoopDone
  <2>2. sp \in w.spokes
    BY <1>4, <2>1 DEF Pending
  <2> QED BY <1>6, <1>7, <1>8, <2>1, <2>2
<1> QED BY <1>2, <1>9, <1>10, <1>11, <1>12, <1>13 DEF Goal

LEMMA SweepKeepsNothing ==
    ASSUME TypeOK, WalkInv, NEW h \in Hub, wk[h].release, wk[h].keep = {}, Proceed(h)
    PROVE  wk'[h].keep = {}
<1>1. /\ wk[h] \in Busy /\ wk[h] # Idle /\ wk[h].pc \notin {"upsert", "write"}
  BY Walking DEF WalkInv, LocalsOK
<1>2. ASSUME NEW v, Becomes(h, v), v.keep = {} PROVE wk'[h].keep = {}
  BY <1>2, BecomesType
<1>3. SpokeFailed(h).keep = {} /\ SpokeLeft(h).keep = {} /\ Idle.keep = {}
  BY <1>1 DEF SpokeFailed, SpokeLeft, Busy, Idle
<1>4. \A s, m : /\ [wk[h] EXCEPT !.spokes = s].keep = {}
                /\ [wk[h] EXCEPT !.todo = m].keep = {}
  BY <1>1 DEF Busy
<1>5. ASSUME NEW s \in Spoke, SkipSpoke(h, s) PROVE wk'[h].keep = {}
  BY <1>2, <1>4, <1>5 DEF SkipSpoke
<1>6. ASSUME NEW s \in Spoke, VisitSpoke(h, s) PROVE wk'[h].keep = {}
  <2>1. PICK v : v = [wk[h] EXCEPT !.pc = "sweep", !.at = s,
                                   !.spokes = wk[h].spokes \ {s}, !.todo = {},
                                   !.keep = {}, !.domains = Each(Keys), !.seen = {}]
    OBVIOUS
  <2>2. Becomes(h, v)
    BY <1>6, <2>1 DEF VisitSpoke
  <2>3. v.keep = {}
    BY <1>1, <2>1 DEF Busy
  <2> QED BY <1>2, <2>2, <2>3
<1>7. ASSUME NEW m \in Namespace, DeleteCopy(h, m) PROVE wk'[h].keep = {}
  BY <1>2, <1>3, <1>4, <1>7 DEF DeleteCopy
<1>8. ASSUME ListCopies(h) PROVE wk'[h].keep = {}
  <2>1. PICK todo, seen :
          LET v == [wk[h] EXCEPT !.pc = "sweep", !.todo = todo, !.seen = seen,
                                 !.domains = Tail(wk[h].domains)]
          IN  Becomes(h, v) \/ Becomes(h, SpokeFailed(h))
    BY <1>8 DEF ListCopies
  <2>2. PICK v : v = [wk[h] EXCEPT !.pc = "sweep", !.todo = todo, !.seen = seen,
                                   !.domains = Tail(wk[h].domains)]
    OBVIOUS
  <2>3. v.keep = {}
    BY <1>1, <2>2 DEF Busy
  <2> QED BY <1>2, <1>3, <2>1, <2>2, <2>3
<1>9. CASE LeaveSpoke(h) \/ FinishWalk(h) \/ ReleaseFinalizer(h)
  BY <1>2, <1>3, <1>9 DEF LeaveSpoke, FinishWalk, ReleaseFinalizer
<1> QED BY <1>1, <1>5, <1>6, <1>7, <1>8, <1>9
        DEF Proceed, GetCopy, WriteFails, AlreadyExists, WriteCopy

LEMMA SweepInvNext ==
    ASSUME TypeOK, WalkInv, SweepInv, Identified, StrangersStampNothing, Healthy,
           [Next]_vars
    PROVE  SweepInv'
<1> SUFFICES ASSUME NEW h \in Hub, wk'[h] # Idle, wk'[h].release
             PROVE  /\ wk'[h].keep = {}
                    /\ \A sp \in Spoke, n \in Namespace :
                         StampedBy(remote'[sp][n], h, wk'[h].key) =>
                           Pending(wk'[h], remote'[sp][n], sp, n)
  BY DEF SweepInv
<1> DEFINE Goal == /\ wk'[h].keep = {}
                   /\ \A sp \in Spoke, n \in Namespace :
                        StampedBy(remote'[sp][n], h, wk'[h].key) =>
                          Pending(wk'[h], remote'[sp][n], sp, n)
<1>1. ASSUME wk[h] # Idle, wk'[h] = wk[h] PROVE Goal
  BY <1>1, WaitingSweep DEF SweepInv
<1>2. ASSUME wk[h] # Idle, wk'[h] = [wk[h] EXCEPT !.fresh = FALSE] PROVE Goal
  <2>1. PICK w \in Busy : w = wk[h]
    BY <1>2, HubFacts
  <2>2. PICK v : v = wk'[h]
    OBVIOUS
  <2>3. /\ v.release = w.release /\ v.key = w.key /\ v.spokes = w.spokes /\ v.pc = w.pc
        /\ v.at = w.at /\ v.todo = w.todo /\ v.seen = w.seen /\ v.domains = w.domains
        /\ v.keep = w.keep
    BY <1>2, <2>1, <2>2 DEF Busy
  <2>4. wk[h].release /\ w.keep = {}
    BY <1>2, <2>1, <2>2, <2>3 DEF SweepInv
  <2> QED BY <1>2, <2>1, <2>2, <2>3, <2>4, WaitingSweep
<1>3. ASSUME Proceed(h) PROVE Goal
  <2>1. GoesOn(h, wk[h], wk'[h]) /\ wk[h] # Idle
    BY <1>3, WalkSteps, Walking
  <2>2. wk[h].release /\ wk'[h].key = wk[h].key
    BY <2>1 DEF GoesOn
  <2>3. wk'[h].keep = {}
    BY <1>3, <2>1, <2>2, SweepKeepsNothing DEF SweepInv
  <2> QED BY <1>3, <2>2, <2>3, SweepSteps
<1>4. ASSUME NEW k \in Namespace, StartWalk(h, k) \/ StartCleanup(h, k) PROVE Goal
  <2>1. wk'[h].spokes = Spoke
    BY <1>4, WalkStart DEF Healthy, StaysRegistered
  <2>2. wk'[h].keep = {}
    BY <1>4, WalkStart
  <2>3. \A sp \in Spoke, n \in Namespace :
           \A obj : Pending(wk'[h], obj, sp, n)
    BY <2>1 DEF Pending
  <2> QED BY <2>2, <2>3
<1> HIDE DEF Goal
<1>5. ASSUME NEW k \in Namespace, Begin(h, k) PROVE Goal
  <2>1. CASE Ignore(h, k) \/ AddFinalizer(h, k)
    BY <2>1 DEF Ignore, AddFinalizer, Take
  <2> QED BY <1>4, <1>5, <2>1 DEF Begin
<1>6. ASSUME NEW g \in Hub, g # h, HubStep(g) PROVE wk'[h] = wk[h]
  <2>1. CASE Proceed(g)
    BY <1>6, <2>1, WalkSteps
  <2>2. ASSUME NEW k \in Namespace, Begin(g, k) PROVE wk'[h] = wk[h]
    BY <1>6, <2>2, WalkStart DEF Begin, Ignore, AddFinalizer
  <2> QED BY <1>6, <2>1, <2>2 DEF HubStep
<1>7. ASSUME NEW g \in Hub, Users(g)
      PROVE  \/ wk'[h] = wk[h]
             \/ wk[h] # Idle /\ wk'[h] = [wk[h] EXCEPT !.fresh = FALSE]
  <2>1. PICK m \in Namespace : \E src : UserPut(g, m, src)
    BY <1>7 DEF Users, UserCreate, UserUnannotate, UserRetarget, UserEdit, UserDelete
  <2>2. wk[h].key = m => wk[h] # Idle
    BY NoneAssumption DEF Idle
  <2> QED BY <2>1, <2>2, BecomesType DEF UserPut
<1>8. ASSUME NEW g \in Hub, Restart(g) PROVE wk'[h] = wk[h]
  BY <1>8, BecomesType DEF Restart
<1>9. wk'[h] = wk[h] => Goal
  BY <1>1
<1>10. wk[h] # Idle /\ wk'[h] = [wk[h] EXCEPT !.fresh = FALSE] => Goal
  BY <1>2
<1>11. CASE Environment
  BY <1>7, <1>8, <1>9, <1>10, <1>11
     DEF Environment, Resync, CredentialReconcile, CredentialChange, LocalTrouble,
         LocalRecovery, SpokeDown, SpokeUp, SpokePut, Goal
<1>12. ASSUME NEW g \in Hub, HubStep(g) PROVE Goal
  BY <1>3, <1>5, <1>6, <1>9, <1>12 DEF HubStep
<1> QED BY <1>9, <1>11, <1>12 DEF Next, vars, Goal

LEMMA OrphansNext ==
    ASSUME TypeOK, WalkInv, SweepInv, NoRemoteOrphans, Identified,
           StrangersStampNothing, [Next]_vars
    PROVE  NoRemoteOrphans'
<1> SUFFICES ASSUME NEW h \in Hub, NEW k \in Namespace, NEW sp \in Spoke,
                    NEW n \in Namespace, StampedBy(remote'[sp][n], h, k)
             PROVE  Armed(h, k)'
  BY DEF NoRemoteOrphans, StampedBy
<1>1. CASE WriteCopy(h) /\ wk[h].key = k
  <2>1. wk[h] # Idle
    BY <1>1 DEF WriteCopy, Idle
  <2>2. Armed(h, k)
    BY <1>1, <2>1 DEF WalkInv, LocalsOK, WriteCopy, Armed
  <2> QED BY <1>1, <2>2 DEF WriteCopy, OnlyRemote, Armed
<1>2. CASE remote[sp][n] # None /\ remote'[sp][n].stamp = remote[sp][n].stamp
  <2>1. StampedBy(remote[sp][n], h, k)
    <3>1. remote'[sp][n] # None
      BY DEF StampedBy
    <3> QED BY <1>2, <3>1, OnlyTheStamp
  <2>2. Armed(h, k)
    BY <2>1 DEF NoRemoteOrphans
  <2>3. ~(ReleaseFinalizer(h) /\ wk[h].key = k)
    <3> SUFFICES ASSUME ReleaseFinalizer(h), wk[h].key = k PROVE FALSE
      OBVIOUS
    <3>1. wk[h].release /\ wk[h].pc = "next" /\ wk[h].spokes = {} /\ wk[h] # Idle
      BY DEF ReleaseFinalizer, WalkDone, Idle
    <3>2. Pending(wk[h], remote[sp][n], sp, n)
      BY <2>1, <3>1 DEF SweepInv
    <3> QED BY <3>1, <3>2 DEF Pending
  <2> QED BY <2>2, <2>3, DisarmedBy
<1> QED BY <1>1, <1>2, StampsComeFrom

\* Hubs that know who they are leave no copy behind, whatever else they, other
\* hubs, users and strangers in the spokes do between the calls of a cleanup, as
\* long as every spoke answers and stays registered.
THEOREM CleanupsReachEverySpoke ==
    ASSUME Identified, StrangersStampNothing
    PROVE  Spec /\ NoRemoteOrphans => ReachableSpokesAreSwept
<1> DEFINE Inv == TypeOK /\ WalkInv /\ SweepInv /\ NoRemoteOrphans
<1>1. Init /\ NoRemoteOrphans => Inv
  <2>1. Init => SweepInv
    BY DEF Init, SweepInv
  <2> QED BY <2>1, TypeInit, WalkInvInit
<1>2. Inv /\ Healthy /\ [Next]_vars => Inv'
  BY TypeNext, WalkInvNext, SweepInvNext, OrphansNext
<1>3. Inv => NoRemoteOrphans
  OBVIOUS
<1>4. ReachableSpokesAreSwept <=> ([]Healthy => []NoRemoteOrphans)
  BY DEF ReachableSpokesAreSwept, Healthy
<1> HIDE DEF Inv
<1> QED BY <1>1, <1>2, <1>3, <1>4, PTL DEF Spec

-----------------------------------------------------------------------------
(* Hubs that nothing cuts off from their spokes *)

\* No outage, no restart of a hub and no change of its credentials.
Undisturbed == EnvOps \cap {"SpokeDown", "Restart", "Credential"} = {}

Connected == Healthy /\ \A h \in Hub : creds[h] = Spoke

LEMMA StaysConnected ==
    ASSUME Undisturbed, TypeOK, Connected, [Next]_vars
    PROVE  Connected'
<1> DEFINE Kept == registry' = registry /\ up' = up /\ creds' = creds
<1>1. Kept => Connected'
  BY DEF Connected, Healthy, StaysRegistered
<1>2. ASSUME NEW h \in Hub, HubStep(h) PROVE Kept
  <2>1. ASSUME NEW k \in Namespace, Begin(h, k) PROVE Kept
    BY <2>1 DEF Begin, Ignore, AddFinalizer, StartWalk, StartCleanup, Start
  <2>2. ASSUME Proceed(h) PROVE Kept
    BY <2>2 DEF Proceed, SkipSpoke, VisitSpoke, GetCopy, DeleteCopy, WriteFails,
                AlreadyExists, WriteCopy, ListCopies, LeaveSpoke, FinishWalk,
                ReleaseFinalizer, OnlyWorker, OnlyRemote
  <2> QED BY <1>2, <2>1, <2>2 DEF HubStep
<1>3. ASSUME NEW h \in Hub, Users(h) PROVE Kept
  BY <1>3 DEF Users, UserCreate, UserUnannotate, UserRetarget, UserEdit,
              UserDelete, UserPut
<1>4. /\ \A h \in Hub : ~Restart(h)
      /\ \A h \in Hub, s \in Spoke : ~CredentialChange(h, s)
      /\ \A s \in Spoke : ~SpokeDown(s) /\ ~SpokeUp(s)
  BY DEF Undisturbed, Restart, CredentialChange, SpokeDown, SpokeUp, May, Connected,
         Healthy
<1>5. ASSUME NEW h \in Hub, NEW s \in Spoke, CredentialReconcile(h, s)
      PROVE  Kept
  <2>1. s \in creds[h] /\ registry[h] = Spoke
    BY DEF Connected, Healthy, StaysRegistered
  <2>2. registry' = [registry EXCEPT ![h] = registry[h] \cup {s}]
    BY <1>5, <2>1 DEF CredentialReconcile
  <2>3. registry[h] \cup {s} = registry[h]
    BY <2>1
  <2>4. registry' = registry
    BY <2>2, <2>3 DEF TypeOK
  <2> QED BY <1>5, <2>4 DEF CredentialReconcile
<1>6. CASE Environment
  <2>1. ASSUME NEW h \in Hub, Resync(h) PROVE Kept
    BY <2>1 DEF Resync
  <2>2. ASSUME NEW s \in Spoke, NEW n \in Namespace, SpokePut(s, n) PROVE Kept
    BY <2>2 DEF SpokePut
  <2>3. ASSUME NEW h \in Hub, NEW k \in Namespace, LocalTrouble(h, k) \/ LocalRecovery(h, k)
        PROVE  Kept
    BY <2>3 DEF LocalTrouble, LocalRecovery
  <2> HIDE DEF Kept
  <2> QED BY <1>1, <1>3, <1>4, <1>5, <1>6, <2>1, <2>2, <2>3 DEF Environment
<1>7. CASE UNCHANGED vars
  BY <1>1, <1>7 DEF vars
<1> HIDE DEF Kept
<1> QED BY <1>1, <1>2, <1>6, <1>7 DEF Next

LEMMA ConnectedInit == Init => Connected
BY DEF Init, Connected, Healthy, StaysRegistered

\* As long as nothing cuts a hub off from a spoke, no copy in a spoke outlives
\* the finalizer of its source, whatever users, strangers and other hubs do.
THEOREM NoOrphansWhileConnected ==
    ASSUME Identified, StrangersStampNothing, Undisturbed
    PROVE  Spec /\ NoRemoteOrphans => []NoRemoteOrphans
<1> DEFINE Inv == TypeOK /\ WalkInv /\ Connected /\ SweepInv /\ NoRemoteOrphans
<1>1. Init /\ NoRemoteOrphans => Inv
  <2>1. Init => SweepInv
    BY DEF Init, SweepInv
  <2> QED BY <2>1, TypeInit, WalkInvInit, ConnectedInit
<1>2. Inv /\ [Next]_vars => Inv'
  <2>1. Connected => Healthy
    BY DEF Connected
  <2> QED BY <2>1, TypeNext, WalkInvNext, SweepInvNext, OrphansNext, StaysConnected
<1>3. Inv => NoRemoteOrphans
  OBVIOUS
<1> HIDE DEF Inv
<1> QED BY <1>1, <1>2, <1>3, PTL DEF Spec

-----------------------------------------------------------------------------
(* The refinement *)

Places == [p \in Spoke \X Namespace |-> Holder(remote[p[1]][p[2]])]

ArmedOwners == {owner \in Hub \X Namespace : Armed(owner[1], owner[2])}

LEMMA HolderFacts ==
    ASSUME Identified, NEW obj \in Object
    PROVE  /\ \/ Holder(obj) \in {<<"adoptable">>, <<"foreign">>}
              \/ \E h \in Hub, k \in Namespace : Holder(obj) = <<"copy", <<h, k>>>>
           /\ \A h \in Hub, k \in Namespace :
                Holder(obj) = <<"copy", <<h, k>>>> <=> StampedBy(obj, h, k)
           /\ OriginCluster(Keys, obj) = None =>
                Holder(obj) \in {<<"adoptable">>, <<"foreign">>}
           /\ ~IsManagedCopy(Keys, obj) /\ IsAdoptable(obj) =>
                Holder(obj) = <<"adoptable">>
           /\ OriginCluster(Keys, obj) = None /\ CopyOrigin(Keys, obj) # {} =>
                Holder(obj) = <<"adoptable">>
<1>1. CopyOrigin(Keys, obj) \subseteq Namespace /\ obj # None
  BY KeysFacts, KeysForFacts, NoneAssumption
<1>2. \A k, m : k \in CopyOrigin(Keys, obj) /\ m \in CopyOrigin(Keys, obj) => k = m
  BY DEF CopyOrigin
<1>3. ~IsManagedCopy(Keys, obj) => CopyOrigin(Keys, obj) = {}
  BY DEF CopyOrigin
<1>4. Owners(obj) \subseteq Hub \X Namespace
  BY <1>1 DEF Owners
<1>5. \A h \in Hub, k \in Namespace : <<h, k>> \in Owners(obj) <=> StampedBy(obj, h, k)
  BY <1>1 DEF Owners, StampedBy
<1>6. CASE Owners(obj) = {}
  <2>1. \A h \in Hub, k \in Namespace : ~StampedBy(obj, h, k)
    BY <1>5, <1>6
  <2>2. Holder(obj) = IF IsManagedCopy(Keys, obj)
                      THEN IF /\ OriginCluster(Keys, obj) = None
                              /\ CopyOrigin(Keys, obj) # {}
                           THEN <<"adoptable">> ELSE <<"foreign">>
                      ELSE IF IsAdoptable(obj) THEN <<"adoptable">> ELSE <<"foreign">>
    BY <1>1, <1>6 DEF Holder
  <2>3. \A h \in Hub, k \in Namespace : Holder(obj) # <<"copy", <<h, k>>>>
    BY <2>2
  <2> QED BY <1>3, <2>1, <2>2, <2>3
<1>7. CASE Owners(obj) # {}
  <2>1. PICK h \in Hub, k \in Namespace : <<h, k>> \in Owners(obj)
    BY <1>4, <1>7
  <2>2. /\ k \in CopyOrigin(Keys, obj) /\ HubClusterUID[h] = OriginCluster(Keys, obj)
        /\ IsManagedCopy(Keys, obj) /\ OriginCluster(Keys, obj) # None
    BY <1>3, <2>1 DEF Owners, Identified
  <2>3. \A owner \in Owners(obj) : owner = <<h, k>>
    BY <1>2, <2>1 DEF Owners, Identified
  <2>4. (CHOOSE owner \in Owners(obj) : TRUE) = <<h, k>>
    BY <2>1, <2>3
  <2>5. Holder(obj) = <<"copy", <<h, k>>>>
    BY <1>1, <1>7, <2>2, <2>4 DEF Holder
  <2>6. \A g \in Hub, m \in Namespace : StampedBy(obj, g, m) <=> g = h /\ m = k
    BY <1>5, <2>1, <2>3
  <2> QED BY <2>2, <2>5, <2>6
<1> QED BY <1>6, <1>7

LEMMA HolderKept ==
    ASSUME NEW a, NEW b, a # None, b # None, a.stamp = b.stamp, a.kubed = b.kubed
    PROVE  Holder(a) = Holder(b)
<1>1. KeysFor(Keys, a) = KeysFor(Keys, b)
  BY DEF KeysFor
<1>2. IsManagedCopy(Keys, a) <=> IsManagedCopy(Keys, b)
  BY <1>1 DEF IsManagedCopy
<1>3. OriginCluster(Keys, a) = OriginCluster(Keys, b)
  BY <1>1, <1>2 DEF OriginCluster
<1>4. CopyOrigin(Keys, a) = CopyOrigin(Keys, b)
  BY <1>1, <1>2 DEF CopyOrigin
<1>5. Owners(a) = Owners(b)
  BY <1>3, <1>4 DEF Owners
<1>6. IsAdoptable(a) <=> IsAdoptable(b)
  BY DEF IsAdoptable
<1> QED BY <1>2, <1>3, <1>4, <1>5, <1>6 DEF Holder

\* A write to one namespace of one spoke changes one place.
LEMMA OnePlaceChanges ==
    ASSUME TypeOK, NEW sp \in Spoke, NEW n \in Namespace, NEW obj \in Object \cup {None},
           RemotePut(sp, n, obj)
    PROVE  /\ Places' = [Places EXCEPT ![<<sp, n>>] = Holder(obj)]
           /\ Holder(obj) = Holder(remote[sp][n]) => Places' = Places
           /\ Places[<<sp, n>>] = Holder(remote[sp][n])
<1>1. \A s \in Spoke, m \in Namespace :
        remote'[s][m] = IF s = sp /\ m = n THEN obj ELSE remote[s][m]
  BY RemoteType DEF RemotePut
<1>2. \A p \in Spoke \X Namespace :
        /\ p[1] \in Spoke /\ p[2] \in Namespace
        /\ p = <<sp, n>> <=> p[1] = sp /\ p[2] = n
  OBVIOUS
<1>3. \A p \in Spoke \X Namespace :
        /\ p = <<sp, n>> => remote'[p[1]][p[2]] = obj
        /\ p # <<sp, n>> => remote'[p[1]][p[2]] = remote[p[1]][p[2]]
  BY <1>1, <1>2
<1>4. \A p \in Spoke \X Namespace :
        Places'[p] = IF p = <<sp, n>> THEN Holder(obj) ELSE Places[p]
  BY <1>3 DEF Places
<1>5. /\ Places = [p \in Spoke \X Namespace |-> Places[p]]
      /\ Places' = [p \in Spoke \X Namespace |-> Places'[p]]
      /\ Places[<<sp, n>>] = Holder(remote[sp][n])
  BY DEF Places
<1> QED BY <1>4, <1>5

\* A step that changes a source changes one, and nothing in a spoke.
LEMMA OneSourceChanges ==
    ASSUME TypeOK, [Next]_vars, sources' # sources
    PROVE  /\ remote' = remote
           /\ \E g \in Hub, m \in Namespace :
                \A h \in Hub, k \in Namespace :
                  h # g \/ k # m => sources'[h][k] = sources[h][k]
<1> DEFINE Only(g, m) == \A h \in Hub, k \in Namespace :
                           h # g \/ k # m => sources'[h][k] = sources[h][k]
           Goal == remote' = remote /\ \E g \in Hub, m \in Namespace : Only(g, m)
<1> SUFFICES Goal
  OBVIOUS
<1>1. ASSUME NEW g \in Hub, NEW m \in Namespace, NEW src,
             sources' = [sources EXCEPT ![g][m] = src], remote' = remote
      PROVE  Goal
  <2>1. Only(g, m)
    BY <1>1 DEF TypeOK
  <2> QED BY <1>1, <2>1
<1> HIDE DEF Goal
<1>2. ASSUME NEW g \in Hub, Users(g) PROVE Goal
  <2>1. PICK m \in Namespace, src \in Source \cup {None} : UserPut(g, m, src)
    BY <1>2, UsersKeepArms
  <2> QED BY <1>1, <2>1 DEF UserPut, SetSource
<1>3. ASSUME NEW g \in Hub, NEW k \in Namespace, Begin(g, k) PROVE Goal
  <2>1. AddFinalizer(g, k)
    BY <1>3 DEF Begin, Ignore, StartWalk, StartCleanup, Start
  <2>2. PICK src : sources' = [sources EXCEPT ![g][k] = src]
    BY <2>1 DEF AddFinalizer, TypeOK
  <2>3. remote' = remote
    BY <2>1 DEF AddFinalizer
  <2> QED BY <1>1, <2>2, <2>3
<1>4. ASSUME NEW g \in Hub, Proceed(g) PROVE Goal
  <2>1. wk[g].key \in Namespace
    BY <1>4, Walking, BusyFacts
  <2>2. ReleaseFinalizer(g)
    BY <1>4 DEF Proceed, SkipSpoke, VisitSpoke, GetCopy, DeleteCopy, WriteFails,
                AlreadyExists, WriteCopy, ListCopies, LeaveSpoke, FinishWalk,
                OnlyWorker, OnlyRemote
  <2> QED BY <1>1, <2>1, <2>2 DEF ReleaseFinalizer, SetSource
<1>5. CASE Environment
  BY <1>2, <1>5 DEF Environment, Resync, Restart, CredentialReconcile,
                    CredentialChange, LocalTrouble,
                    LocalRecovery, SpokeDown, SpokeUp, SpokePut
<1>6. ~ UNCHANGED vars
  BY DEF vars
<1> QED BY <1>3, <1>4, <1>5, <1>6 DEF Next, HubStep

LEMMA RefinedInit ==
    ASSUME TypeOK, Identified, Undisturbed => NoRemoteOrphans
    PROVE  Ownership!Init
<1>1. \A obj \in Object : obj # None
  BY NoneAssumption
<1>2. ASSUME NEW sp \in Spoke, NEW n \in Namespace
      PROVE  Holder(remote[sp][n]) \in Ownership!Slot
  <2>1. CASE remote[sp][n] = None
    BY <2>1 DEF Holder, Ownership!Slot, Ownership!Vacant, Ownership!Free
  <2>2. CASE remote[sp][n] \in Object
    BY <2>2, HolderFacts
       DEF Ownership!Slot, Ownership!Copy, Ownership!Vacant, Ownership!Adoptable,
           Ownership!Foreign
  <2> QED BY <2>1, <2>2 DEF TypeOK
<1>3. Places \in [Spoke \X Namespace -> Ownership!Slot]
  BY <1>2 DEF Places
<1>4. ASSUME Undisturbed, NEW owner \in Hub \X Namespace,
             Ownership!CopiesOf(owner) # {}
      PROVE  owner \in ArmedOwners
  <2>1. PICK h \in Hub, k \in Namespace : owner = <<h, k>>
    OBVIOUS
  <2>2. PICK sp \in Spoke, n \in Namespace : Places[<<sp, n>>] = <<"copy", <<h, k>>>>
    BY <1>4, <2>1 DEF Ownership!CopiesOf, Ownership!Copy, Places
  <2>3. Holder(remote[sp][n]) = <<"copy", <<h, k>>>>
    BY <2>2 DEF Places
  <2>4. remote[sp][n] \in Object
    BY <2>3 DEF Holder, TypeOK
  <2>5. Armed(h, k)
    BY <1>4, <2>3, <2>4, HolderFacts DEF NoRemoteOrphans
  <2> QED BY <2>1, <2>5 DEF ArmedOwners
<1> QED BY <1>3, <1>4
        DEF Ownership!Init, Ownership!TypeOK, Ownership!NoOrphans, Places,
            ArmedOwners, Undisturbed

\* Steps that arm or disarm a source.
LEMMA RefinedSourceStep ==
    ASSUME TypeOK, WalkInv, Identified, [Next]_vars, sources' # sources,
           Undisturbed => SweepInv
    PROVE  [Ownership!Next]_(Ownership!vars)
<1>1. PICK g \in Hub, m \in Namespace :
        \A h \in Hub, k \in Namespace :
          h # g \/ k # m => sources'[h][k] = sources[h][k]
  BY OneSourceChanges
<1>2. Places' = Places
  BY OneSourceChanges DEF Places
<1>3. \A h \in Hub, k \in Namespace : h # g \/ k # m => (Armed(h, k)' <=> Armed(h, k))
  BY <1>1 DEF Armed
<1>4. ArmedOwners \ {<<g, m>>} = ArmedOwners' \ {<<g, m>>}
  BY <1>3 DEF ArmedOwners
<1>5. /\ <<g, m>> \in ArmedOwners <=> Armed(g, m)
      /\ <<g, m>> \in ArmedOwners' <=> Armed(g, m)'
  BY DEF ArmedOwners
<1>6. CASE Armed(g, m) <=> Armed(g, m)'
  <2>1. ArmedOwners' = ArmedOwners
    BY <1>4, <1>5, <1>6
  <2> QED BY <1>2, <2>1 DEF Ownership!vars, Places, ArmedOwners
<1>7. CASE ~Armed(g, m) /\ Armed(g, m)'
  <2>1. ArmedOwners' = ArmedOwners \cup {<<g, m>>}
    BY <1>4, <1>5, <1>7
  <2>2. Ownership!Arm(<<g, m>>)
    BY <1>2, <2>1 DEF Ownership!Arm, Places, ArmedOwners
  <2> QED BY <2>2 DEF Ownership!Next
<1>8. CASE Armed(g, m) /\ ~Armed(g, m)'
  <2>1. ArmedOwners' = ArmedOwners \ {<<g, m>>}
    BY <1>4, <1>5, <1>8
  <2>2. /\ wk[g].release /\ wk[g].pc = "next" /\ wk[g].spokes = {} /\ wk[g] # Idle
        /\ wk[g].key = m
    <3>1. ReleaseFinalizer(g) /\ wk[g].key = m
      BY <1>8, DisarmedBy
    <3>2. wk[g].release /\ wk[g].pc = "next" /\ wk[g].spokes = {}
      BY <3>1 DEF ReleaseFinalizer, WalkDone
    <3> QED BY <3>1, <3>2 DEF Idle
  <2>3. ASSUME Undisturbed PROVE Ownership!CopiesOf(<<g, m>>) = {}
    <3>1. SUFFICES ASSUME NEW p \in Spoke \X Namespace,
                          Places[p] = <<"copy", <<g, m>>>>
                   PROVE  FALSE
      BY DEF Ownership!CopiesOf, Ownership!Copy, Places
    <3>2. PICK sp \in Spoke, n \in Namespace : p = <<sp, n>>
      OBVIOUS
    <3>3. Holder(remote[sp][n]) = <<"copy", <<g, m>>>>
      BY <3>1, <3>2 DEF Places
    <3>4. remote[sp][n] \in Object
      BY <3>3 DEF Holder, TypeOK
    <3>5. StampedBy(remote[sp][n], g, wk[g].key)
      BY <2>2, <3>3, <3>4, HolderFacts
    <3>6. Pending(wk[g], remote[sp][n], sp, n)
      BY <2>2, <2>3, <3>5 DEF SweepInv
    <3> QED BY <2>2, <3>6 DEF Pending
  <2>4. Ownership!Disarm(<<g, m>>)
    BY <1>2, <2>1, <2>3 DEF Ownership!Disarm, Places, ArmedOwners, Undisturbed
  <2> QED BY <2>4 DEF Ownership!Next
<1> QED BY <1>6, <1>7, <1>8

\* Steps that change no source.
LEMMA RefinedRemoteStep ==
    ASSUME TypeOK, WalkInv, Identified, StrangersStampNothing, [Next]_vars,
           sources' = sources
    PROVE  [Ownership!Next]_(Ownership!vars)
<1>1. ArmedOwners' = ArmedOwners
  BY DEF ArmedOwners, Armed
<1>2. ASSUME Places' = Places PROVE UNCHANGED Ownership!vars
  BY <1>1, <1>2 DEF Ownership!vars, Places, ArmedOwners
<1>3. CASE remote' = remote
  BY <1>2, <1>3 DEF Places
<1>4. Holder(None) = <<"free">>
  BY DEF Holder
<1>5. ASSUME NEW sp \in Spoke, NEW n \in Namespace, RemotePut(sp, n, None)
      PROVE  Ownership!Next
  <2>1. Places' = [Places EXCEPT ![<<sp, n>>] = <<"free">>]
    BY <1>4, <1>5, OnePlaceChanges
  <2>2. Ownership!Vacate(<<sp, n>>)
    BY <1>1, <2>1 DEF Ownership!Vacate, Ownership!Free, Places, ArmedOwners
  <2> QED BY <2>2 DEF Ownership!Next
<1>6. ASSUME NEW h \in Hub, NEW n \in Namespace, DeleteCopy(h, n), remote' # remote
      PROVE  Ownership!Next
  <2>1. RemotePut(wk[h].at, n, None) /\ wk[h].at \in up
    BY <1>6 DEF DeleteCopy, RemotePut
  <2>2. wk[h].at \in Spoke
    BY <2>1 DEF TypeOK
  <2> QED BY <1>5, <2>1, <2>2
<1>7. ASSUME NEW h \in Hub, WriteCopy(h) PROVE [Ownership!Next]_(Ownership!vars)
  <2> DEFINE dst == IF wk[h].read = None THEN EmptyObject(wk[h].src.obj.data)
                    ELSE wk[h].read
  <2>1. wk[h] \in Busy /\ wk[h] # Idle /\ wk[h].pc = "write"
    BY <1>7, BusyFacts DEF WriteCopy
  <2>2. LocalsOK(h, wk[h], sources[h][wk[h].key])
    BY <2>1 DEF WalkInv
  <2>3. PICK k \in Namespace, sp \in Spoke, n \in Namespace, read \in Object \cup {None} :
          k = wk[h].key /\ sp = wk[h].at /\ n = wk[h].ns /\ read = wk[h].read
    BY <2>1, <2>2 DEF LocalsOK, Busy
  <2>4. Armed(h, k) /\ (read = None \/ Writable(h, k, wk[h].src, read))
    BY <2>1, <2>2, <2>3 DEF LocalsOK, Armed
  <2>5. dst \in Object
    BY <2>1, EmptyObjectType DEF Busy, Source, Object
  <2>6. RemotePut(sp, n, Desired(h, dst)) /\ remote[sp][n] = read
    BY <1>7, <2>3 DEF WriteCopy, RemotePut
  <2> HIDE DEF dst
  <2>7. Desired(h, dst) \in Object /\ Holder(Desired(h, dst)) = <<"copy", <<h, k>>>>
    <3>1. /\ Desired(h, dst) \in Object
          /\ CopyOrigin(Keys, Desired(h, dst)) = {k}
          /\ OriginCluster(Keys, Desired(h, dst)) = HubClusterUID[h]
      BY <2>1, <2>3, <2>5, DesiredFacts DEF Identified
    <3>2. StampedBy(Desired(h, dst), h, k)
      BY <3>1, NoneAssumption DEF StampedBy
    <3> QED BY <3>1, <3>2, HolderFacts
  <2>8. /\ Places' = [Places EXCEPT ![<<sp, n>>] = <<"copy", <<h, k>>>>]
        /\ Holder(read) = <<"copy", <<h, k>>>> => Places' = Places
        /\ Places[<<sp, n>>] = Holder(read)
    BY <2>6, <2>7, OnePlaceChanges
  <2>9. Holder(read) \in {<<"free">>, <<"adoptable">>, <<"copy", <<h, k>>>>}
    <3>1. CASE read = None
      BY <1>4, <3>1
    <3>2. CASE read # None /\ ~IsManagedCopy(Keys, read)
      <4>1. read \in Object /\ IsAdoptable(read)
        BY <2>4, <3>2 DEF Writable
      <4> QED BY <3>2, <4>1, HolderFacts
    <3>3. CASE read # None /\ IsManagedCopy(Keys, read)
      <4>1. read \in Object /\ OwnsCopy(Keys, read, k, HubClusterUID[h])
        BY <2>4, <3>3 DEF Writable
      <4>2. /\ CopyOrigin(Keys, read) = {k}
            /\ OriginCluster(Keys, read) \in {None, HubClusterUID[h]}
        BY <3>3, <4>1, NoneAssumption DEF OwnsCopy, CopyOrigin, OriginCluster, Identified
      <4>3. CASE OriginCluster(Keys, read) = None
        BY <4>1, <4>2, <4>3, HolderFacts
      <4>4. CASE OriginCluster(Keys, read) = HubClusterUID[h]
        <5>1. StampedBy(read, h, k)
          BY <3>3, <4>2, <4>4 DEF StampedBy
        <5> QED BY <4>1, <5>1, HolderFacts
      <4> QED BY <4>2, <4>3, <4>4
    <3> QED BY <3>1, <3>2, <3>3
  <2>10. CASE Holder(read) \in {<<"free">>, <<"adoptable">>}
    <3>1. <<h, k>> \in ArmedOwners
      BY <2>4 DEF ArmedOwners
    <3>2. Ownership!Claim(<<h, k>>, <<sp, n>>)
      BY <1>1, <2>8, <2>10, <3>1
         DEF Ownership!Claim, Ownership!Vacant, Ownership!Free, Ownership!Adoptable,
             Ownership!Copy, Places, ArmedOwners
    <3> QED BY <3>2 DEF Ownership!Next
  <2>11. CASE Holder(read) = <<"copy", <<h, k>>>>
    BY <1>2, <2>8, <2>11
  <2> QED BY <2>9, <2>10, <2>11
<1>8. ASSUME NEW s \in Spoke, NEW m \in Namespace, SpokePut(s, m)
      PROVE  [Ownership!Next]_(Ownership!vars)
  <2>1. PICK obj : /\ RemotePut(s, m, obj)
                   /\ obj \in IF remote[s][m] = None THEN SpokeObject
                              ELSE {None} \cup {[remote[s][m] EXCEPT !.data = value] :
                                                  value \in Data \ {remote[s][m].data}}
    BY <1>8 DEF SpokePut, RemotePut
  <2>2. CASE remote[s][m] = None
    <3>1. obj \in Object /\ OriginCluster(Keys, obj) = None
      BY <2>1, <2>2, CrossClusterAssumption DEF StrangersStampNothing
    <3>2. Holder(obj) \in {<<"adoptable">>, <<"foreign">>}
      BY <3>1, HolderFacts
    <3>3. /\ Places' = [Places EXCEPT ![<<s, m>>] = Holder(obj)]
          /\ Places[<<s, m>>] = <<"free">>
      BY <1>4, <2>1, <2>2, <3>1, OnePlaceChanges
    <3>4. Ownership!Occupy(<<s, m>>)
      BY <1>1, <3>2, <3>3 DEF Ownership!Occupy, Ownership!Free, Ownership!Foreign,
           Ownership!Adoptable, Places, ArmedOwners
    <3> QED BY <3>4 DEF Ownership!Next
  <2>3. CASE remote[s][m] # None /\ obj = None
    BY <1>5, <2>1, <2>3
  <2>4. CASE remote[s][m] # None /\ obj # None
    <3>1. PICK before \in Object, value \in Data :
            before = remote[s][m] /\ obj = [before EXCEPT !.data = value]
      BY <2>1, <2>4 DEF TypeOK
    <3>2. obj \in Object /\ obj.stamp = before.stamp /\ obj.kubed = before.kubed
      BY <3>1 DEF Object
    <3>3. Holder(obj) = Holder(remote[s][m])
      BY <2>4, <3>1, <3>2, HolderKept
    <3>4. obj \in Object \cup {None} /\ RemotePut(s, m, obj)
      BY <2>1, <3>2
    <3>5. Places' = Places
      BY <1>8, <3>3, <3>4, OnePlaceChanges
    <3> QED BY <1>2, <3>5
  <2> QED BY <2>2, <2>3, <2>4
<1> QED BY <1>2, <1>3, <1>6, <1>7, <1>8, RemoteSteps

\* Hubs that know who they are, with the spokes they share, do to every
\* namespace of every spoke what CopyOwnership allows: they copy only sources
\* that are armed, only into what is free or may be taken over, and no copy
\* changes hands; while nothing cuts a hub off from a spoke, with complete sweeps.
THEOREM HubsImplementOwnership ==
    ASSUME Identified, StrangersStampNothing
    PROVE  Spec /\ (Undisturbed => NoRemoteOrphans) => ImplementsOwnership
<1> DEFINE Clean == Undisturbed => Connected /\ SweepInv /\ NoRemoteOrphans
           Inv == TypeOK /\ WalkInv /\ Clean
<1>1. Init /\ (Undisturbed => NoRemoteOrphans) => Inv /\ Ownership!Init
  <2>1. Init => SweepInv
    BY DEF Init, SweepInv
  <2> QED BY <2>1, TypeInit, WalkInvInit, ConnectedInit, RefinedInit
<1>2. Inv /\ [Next]_vars => Inv'
  <2>1. Connected => Healthy
    BY DEF Connected
  <2>2. TypeOK /\ WalkInv /\ [Next]_vars => (TypeOK /\ WalkInv)'
    BY TypeNext, WalkInvNext
  <2>3. ASSUME Inv, [Next]_vars, Undisturbed
        PROVE  (Connected /\ SweepInv /\ NoRemoteOrphans)'
    BY <2>1, <2>3, SweepInvNext, OrphansNext, StaysConnected
  <2> QED BY <2>2, <2>3 DEF Undisturbed
<1>3. Inv /\ [Next]_vars => [Ownership!Next]_(Ownership!vars)
  BY RefinedSourceStep, RefinedRemoteStep
<1> HIDE DEF Inv
<1> QED BY <1>1, <1>2, <1>3, PTL DEF Spec, ImplementsOwnership, Ownership!Spec
=============================================================================
