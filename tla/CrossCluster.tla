---------------------------- MODULE CrossCluster ----------------------------
(***************************************************************************)
(* Replication into other clusters (internal/controller/cross_cluster.go): *)
(* hubs that push one kind of source into spokes, several of them perhaps  *)
(* into the same spoke.                                                    *)
(*                                                                         *)
(* A hub reads and writes a spoke through a direct client, so a remote     *)
(* read is the spoke's present, but spokes answer one call at a time and   *)
(* anybody may come between two calls, or the spoke go away.  The hub's    *)
(* own sources are read as they are now: Syncer is about what a stale      *)
(* cache can do to them.  The local fan-out and prune, or cleanup, are     *)
(* Syncer's as well; here it counts that they come first and that an error *)
(* of theirs ends the reconcile before any spoke is visited.               *)
(***************************************************************************)
EXTENDS SourceLife

CONSTANTS
    Hub,            \* clusters that run a controller
    Spoke,          \* ids of the spoke clusters
    HubClusterUID,  \* what every hub stamps its remote copies with, or None
    Refusing,       \* <<spoke, namespace>> pairs that accept no copy
    Shared,         \* spokes in which others than the hubs write
    MaxOps,         \* bound on what the environment does
    EnvOps,         \* the environment operations that are enabled
    UserSource,     \* the objects users create in a hub
    UserTargets,    \* the target-clusters annotations they set
    SpokeObject,    \* the objects others create in a spoke
    InitialSources, \* the hubs' objects a run may start from
    InitialRemote   \* the spokes' objects it may start from

\* A target-clusters annotation: entries "cluster" and "cluster:namespace".
TargetList == SUBSET (Spoke \X (Namespace \cup {None}))

\* An object of a hub and its target-clusters annotation in every domain.
Source == [obj : Object, clusters : [Domain -> TargetList \cup {None}]]

ASSUME CrossClusterAssumption ==
    /\ Keys \in KeySetType
    /\ Keys.primary \notin LegacyDomains(Keys)
    /\ \A list \in TargetList : list # None
    /\ None \notin Source
    /\ None \notin Spoke
    /\ HubClusterUID \in [Hub -> Cluster \cup {None}]
    /\ Refusing \subseteq Spoke \X Namespace
    /\ Shared \subseteq Spoke
    /\ MaxOps \in Nat
    /\ UserSource \subseteq {s \in Source : s.obj.fin = {} /\ ~s.obj.del}
    /\ UserTargets \subseteq TargetList
    /\ SpokeObject \subseteq {o \in Object : o.fin = {} /\ ~o.del}
    /\ InitialSources \subseteq [Hub -> [Namespace -> Source \cup {None}]]
    /\ InitialRemote \subseteq [Spoke -> [Namespace -> Object \cup {None}]]

VARIABLES
    sources,   \* every hub's objects
    creds,     \* the spokes a hub has a good credential Secret for
    registry,  \* the spokes a hub has a client for
    remote,    \* every spoke's objects
    up,        \* the spokes that answer
    stuck,     \* every hub's keys whose local fan-out or cleanup fails
    queue,     \* every hub's keys waiting, a delayed requeue included
    wk,        \* every hub's worker
    ops        \* what the environment may still do

vars == <<sources, creds, registry, remote, up, stuck, queue, wk, ops>>

(***************************************************************************)
(* A worker's locals.  "spokes" are the ids still to visit, "at" the spoke *)
(* of the current client, "todo" the namespaces the current loop has not   *)
(* visited, "ns" and "read" the copy upsertCopy has fetched and means to   *)
(* write, "keep", "domains" and "seen" belong to deleteCopies.             *)
(***************************************************************************)
Idle == [pc |-> "idle", key |-> None, src |-> None, release |-> FALSE,
         fresh |-> FALSE, failed |-> FALSE, spokes |-> {}, at |-> None,
         todo |-> {}, ns |-> None, read |-> None, keep |-> {},
         domains |-> <<>>, seen |-> {}]

Busy == [pc : {"next", "upsert", "write", "sweep"}, key : Namespace,
         src : Source, release : BOOLEAN, fresh : BOOLEAN, failed : BOOLEAN,
         spokes : SUBSET Spoke, at : Spoke \cup {None},
         todo : SUBSET Namespace, ns : Namespace \cup {None},
         read : Object \cup {None}, keep : SUBSET Namespace,
         domains : Seq(Domain), seen : SUBSET Namespace]

TypeOK ==
    /\ sources \in [Hub -> [Namespace -> Source \cup {None}]]
    /\ creds \in [Hub -> SUBSET Spoke]
    /\ registry \in [Hub -> SUBSET Spoke]
    /\ remote \in [Spoke -> [Namespace -> Object \cup {None}]]
    /\ up \subseteq Spoke
    /\ stuck \in [Hub -> SUBSET Namespace]
    /\ queue \in [Hub -> SUBSET Namespace]
    /\ wk \in [Hub -> {Idle} \cup Busy]
    /\ ops \in 0..MaxOps

-----------------------------------------------------------------------------
(* The annotation *)

Annotated(src) == {d \in Domain : src.clusters[d] # None}

HasTargets(src) == Annotated(src) \cap Honoured(Keys) # {}

TargetClusters(src) ==
    IF HasTargets(src) THEN src.clusters[FirstIn(Each(Keys), Annotated(src))]
    ELSE {}

Names(src, sp) == \E entry \in TargetClusters(src) : entry[1] = sp

DestNamespacesAsWritten(k, src, sp) ==    \* variant: a bare entry names none
    {entry[2] : entry \in {e \in TargetClusters(src) : e[1] = sp}}

\* A bare entry means the source's own namespace k.
DestNamespaces(k, src, sp) ==
    {IF entry[2] = None THEN k ELSE entry[2] :
        entry \in {e \in TargetClusters(src) : e[1] = sp}}

-----------------------------------------------------------------------------
(* The hub *)

\* The source in namespace k of hub h becomes src, and the watch enqueues it.
SetSource(h, k, src) ==
    /\ sources' = [sources EXCEPT ![h][k] = src]
    /\ LET last == IF src = None THEN sources[h][k] ELSE src
       IN  queue' = [queue EXCEPT ![h] = @ \cup SourceKeys(k, last.obj)]

Sources(h) ==
    {k \in Namespace : sources[h][k] # None /\ IsSource(Keys, sources[h][k].obj)}

Naming(h, sp) == {k \in Sources(h) : Names(sources[h][k], sp)}

Enqueued(h, keys) == [queue EXCEPT ![h] = @ \cup keys]

Dequeued(h, k) == [queue EXCEPT ![h] = @ \ {k}]

Take(h, k) == wk[h] = Idle /\ k \in queue[h]

\* What reconcileSource finishes without touching a spoke.
Plain(src) ==
    /\ ~NeedsCleanup(src.obj)
    /\ ~NeedsFinalizer(src.obj)
    /\ Ready(src.obj) =>
         SyncValue(Keys, src.obj) = Invalid \/ ~HasTargets(src)

Ignore(h, k) ==
    /\ Take(h, k)
    /\ sources[h][k] = None \/ (sources[h][k] # None /\ Plain(sources[h][k]))
    /\ queue' = Dequeued(h, k)
    /\ UNCHANGED <<sources, creds, registry, remote, up, stuck, wk, ops>>

\* The update enqueues the source again.
AddFinalizer(h, k) ==
    /\ Take(h, k)
    /\ sources[h][k] # None /\ NeedsFinalizer(sources[h][k].obj)
    /\ sources' = [sources EXCEPT ![h][k].obj = ReconcileFinalizer(Keys, @)]
    /\ UNCHANGED <<creds, registry, remote, up, stuck, queue, wk, ops>>

\* The local part has been done without an error; otherwise the key is requeued
\* and the reconcile, for the spokes, has not taken place.
LocalPartDone(h, k) == k \notin stuck[h]

Start(h, k, release) ==
    /\ LocalPartDone(h, k)
    /\ wk' = [wk EXCEPT ![h] =
                [Idle EXCEPT !.pc = "next", !.key = k, !.src = sources[h][k],
                             !.release = release, !.fresh = release,
                             !.spokes = registry[h]]]
    /\ queue' = Dequeued(h, k)
    /\ UNCHANGED <<sources, creds, registry, remote, up, stuck, ops>>

StartWalk(h, k) ==
    /\ Take(h, k)
    /\ sources[h][k] # None /\ Ready(sources[h][k].obj)
    /\ SyncValue(Keys, sources[h][k].obj) # Invalid
    /\ HasTargets(sources[h][k])
    /\ Start(h, k, FALSE)

StartCleanupOfListed(h, k) ==     \* variant: cleans only the listed spokes
    /\ Take(h, k)
    /\ sources[h][k] # None /\ NeedsCleanup(sources[h][k].obj)
    /\ LocalPartDone(h, k)
    /\ wk' = [wk EXCEPT ![h] =
                [Idle EXCEPT !.pc = "next", !.key = k, !.src = sources[h][k],
                             !.release = TRUE, !.fresh = TRUE,
                             !.spokes = {sp \in registry[h] :
                                            Names(sources[h][k], sp)}]]
    /\ queue' = Dequeued(h, k)
    /\ UNCHANGED <<sources, creds, registry, remote, up, stuck, ops>>

StartCleanup(h, k) ==
    /\ Take(h, k)
    /\ sources[h][k] # None /\ NeedsCleanup(sources[h][k].obj)
    /\ Start(h, k, TRUE)

-----------------------------------------------------------------------------
(* reconcileRemote and deleteRemoteCopies, one registered spoke at a time *)

Becomes(h, locals) == wk' = [wk EXCEPT ![h] = locals]

OnlyWorker == UNCHANGED <<sources, creds, registry, remote, up, stuck, queue, ops>>

OnlyRemote == UNCHANGED <<sources, creds, registry, up, stuck, queue, ops>>

\* A spoke that has been deregistered since the ids were listed is skipped.
SkipSpoke(h, sp) ==
    /\ wk[h].pc = "next" /\ sp \in wk[h].spokes \ registry[h]
    /\ Becomes(h, [wk[h] EXCEPT !.spokes = @ \ {sp}])
    /\ OnlyWorker

VisitSpokeWithoutPrune(h, sp) ==    \* variant: prunes only what is not named
    /\ wk[h].pc = "next" /\ sp \in wk[h].spokes \cap registry[h]
    /\ LET dest == IF wk[h].release THEN {}
                   ELSE DestNamespaces(wk[h].key, wk[h].src, sp)
       IN  Becomes(h, [wk[h] EXCEPT !.pc = IF dest = {} THEN "sweep" ELSE "upsert",
                                    !.at = sp, !.spokes = @ \ {sp},
                                    !.todo = dest, !.keep = dest,
                                    !.domains = IF dest = {} THEN Each(Keys)
                                                ELSE <<>>,
                                    !.seen = {}])
    /\ OnlyWorker

\* A spoke the source names gets its copies, any other is only pruned.
VisitSpoke(h, sp) ==
    /\ wk[h].pc = "next" /\ sp \in wk[h].spokes \cap registry[h]
    /\ LET dest == IF wk[h].release THEN {}
                   ELSE DestNamespaces(wk[h].key, wk[h].src, sp)
       IN  Becomes(h, [wk[h] EXCEPT !.pc = IF dest = {} THEN "sweep" ELSE "upsert",
                                    !.at = sp, !.spokes = @ \ {sp},
                                    !.todo = dest, !.keep = dest,
                                    !.domains = Each(Keys), !.seen = {}])
    /\ OnlyWorker

Visited(h, n) ==
    [wk[h] EXCEPT !.pc = "upsert", !.todo = @ \ {n}, !.ns = None, !.read = None]

FailedAtQuietly(h, n) == Visited(h, n)   \* variant: a failed write is forgotten

\* The error is recorded; the other namespaces and spokes still have their turn.
FailedAt(h, n) == [Visited(h, n) EXCEPT !.failed = TRUE]

Desired(h, dst) ==
    Mirror(Keys, wk[h].key, wk[h].src.obj, dst, HubClusterUID[h])

MineAnyHub(h, obj) ==      \* variant: does not look at the origin cluster
    OwnsCopy(Keys, obj, wk[h].key, None)

Mine(h, obj) == OwnsCopy(Keys, obj, wk[h].key, HubClusterUID[h])

Writes(h, obj) ==
    IF IsManagedCopy(Keys, obj)
    THEN Mine(h, obj) /\ ~ContentEqual(obj, Desired(h, obj))
    ELSE IsAdoptable(obj)

\* upsertCopy's Get, and what it decides from it.
GetCopy(h, n) ==
    /\ wk[h].pc = "upsert" /\ n \in wk[h].todo
    /\ LET sp  == wk[h].at
           obj == remote[sp][n]
       IN  Becomes(h,
             IF sp \notin up THEN FailedAt(h, n)
             ELSE IF obj = None \/ Writes(h, obj)
                  THEN [wk[h] EXCEPT !.pc = "write", !.ns = n, !.read = obj]
             ELSE Visited(h, n))
    /\ OnlyWorker

\* A spoke that is gone, a namespace that refuses, or a conflict.
WriteFails(h) ==
    /\ wk[h].pc = "write"
    /\ LET sp == wk[h].at
           n  == wk[h].ns
       IN  /\ \/ sp \notin up
              \/ <<sp, n>> \in Refusing
              \/ wk[h].read # None /\ remote[sp][n] # wk[h].read
           /\ Becomes(h, FailedAt(h, n))
    /\ OnlyWorker

\* The Create lost a race; what is there now is taken for success.
AlreadyExists(h) ==
    /\ wk[h].pc = "write" /\ wk[h].at \in up /\ wk[h].read = None
    /\ <<wk[h].at, wk[h].ns>> \notin Refusing
    /\ remote[wk[h].at][wk[h].ns] # None
    /\ Becomes(h, Visited(h, wk[h].ns))
    /\ OnlyWorker

WriteCopyBlindly(h) ==     \* variant: the write names no resourceVersion
    /\ wk[h].pc = "write" /\ wk[h].at \in up
    /\ <<wk[h].at, wk[h].ns>> \notin Refusing
    /\ LET n   == wk[h].ns
           dst == IF wk[h].read = None THEN EmptyObject(wk[h].src.obj.data)
                  ELSE wk[h].read
       IN  /\ remote' = [remote EXCEPT ![wk[h].at][n] = Desired(h, dst)]
           /\ Becomes(h, Visited(h, n))
    /\ OnlyRemote

\* A Create where there is nothing, an Update of exactly what was read.
WriteCopy(h) ==
    /\ wk[h].pc = "write" /\ wk[h].at \in up
    /\ <<wk[h].at, wk[h].ns>> \notin Refusing
    /\ remote[wk[h].at][wk[h].ns] = wk[h].read
    /\ LET n   == wk[h].ns
           dst == IF wk[h].read = None THEN EmptyObject(wk[h].src.obj.data)
                  ELSE wk[h].read
       IN  /\ remote' = [remote EXCEPT ![wk[h].at][n] = Desired(h, dst)]
           /\ Becomes(h, Visited(h, n))
    /\ OnlyRemote

SpokeLeft(h) ==
    [wk[h] EXCEPT !.pc = "next", !.at = None, !.todo = {}, !.keep = {},
                  !.domains = <<>>, !.seen = {}]

SpokeFailed(h) == [SpokeLeft(h) EXCEPT !.failed = TRUE]

LoopDone(h) == wk[h].pc \in {"upsert", "sweep"} /\ wk[h].todo = {}

\* On a shared spoke, only this hub's copies and those nobody has stamped.
Prunable(h, obj) ==
    \/ HubClusterUID[h] = None
    \/ OriginCluster(Keys, obj) \in {None, HubClusterUID[h]}

\* One list query of deleteCopies.
ListCopies(h) ==
    /\ LoopDone(h) /\ wk[h].domains # <<>>
    /\ LET sp     == wk[h].at
           listed == {n \in Namespace :
                        /\ remote[sp][n] # None
                        /\ MatchesOrigin(remote[sp][n], Head(wk[h].domains),
                                         wk[h].key)}
       IN  Becomes(h,
             IF sp \notin up THEN SpokeFailed(h)
             ELSE [wk[h] EXCEPT
                     !.pc = "sweep",
                     !.todo = {n \in listed \ (wk[h].seen \cup wk[h].keep) :
                                  Prunable(h, remote[sp][n])},
                     !.seen = @ \cup listed,
                     !.domains = Tail(@)])
    /\ OnlyWorker

\* Deletes by name; a spoke that is gone ends its pruning.
DeleteCopy(h, n) ==
    /\ wk[h].pc = "sweep" /\ n \in wk[h].todo
    /\ \/ /\ wk[h].at \in up
          /\ remote' = [remote EXCEPT ![wk[h].at][n] = None]
          /\ Becomes(h, [wk[h] EXCEPT !.todo = @ \ {n}])
       \/ /\ wk[h].at \notin up
          /\ Becomes(h, SpokeFailed(h))
          /\ UNCHANGED remote
    /\ OnlyRemote

LeaveSpoke(h) ==
    /\ LoopDone(h) /\ wk[h].domains = <<>>
    /\ Becomes(h, SpokeLeft(h))
    /\ OnlyWorker

-----------------------------------------------------------------------------
(* The end of the reconcile *)

WalkDone(h) == wk[h].pc = "next" /\ wk[h].spokes = {}

\* Any failure brings the key back after remoteRetryInterval.
FinishWalk(h) ==
    /\ WalkDone(h) /\ ~wk[h].release
    /\ queue' = Enqueued(h, IF wk[h].failed THEN {wk[h].key} ELSE {})
    /\ Becomes(h, Idle)
    /\ UNCHANGED <<sources, creds, registry, remote, up, stuck, ops>>

ReleaseBeforeSweep(h) ==   \* variant: the finalizer goes before the copies
    /\ wk[h].release /\ wk[h].pc \in {"next", "sweep"} /\ wk[h].fresh
    /\ LET k   == wk[h].key
           obj == Released(RemoveAllFinalizers(Keys, wk[h].src.obj))
       IN  SetSource(h, k, IF obj = None THEN None
                           ELSE [wk[h].src EXCEPT !.obj = obj])
    /\ Becomes(h, Idle)
    /\ UNCHANGED <<creds, registry, remote, up, stuck, ops>>

\* Whatever failed, the finalizer goes; a conflict requeues the key.
ReleaseFinalizer(h) ==
    /\ WalkDone(h) /\ wk[h].release
    /\ LET k   == wk[h].key
           obj == Released(RemoveAllFinalizers(Keys, wk[h].src.obj))
       IN  \/ /\ wk[h].fresh
              /\ SetSource(h, k, IF obj = None THEN None
                                 ELSE [wk[h].src EXCEPT !.obj = obj])
           \/ /\ ~wk[h].fresh
              /\ queue' = Enqueued(h, IF sources[h][k] = None THEN {} ELSE {k})
              /\ UNCHANGED sources
    /\ Becomes(h, Idle)
    /\ UNCHANGED <<creds, registry, remote, up, stuck, ops>>

-----------------------------------------------------------------------------
(* The registry, as the walk sees it (ClusterRegistry has its inside) *)

\* A credential's reconcile, on its events and at every recheck: a spoke that
\* answers is (re-)registered and the sources that name it are enqueued.
CredentialReconcile(h, sp) ==
    /\ \/ /\ sp \notin creds[h]
          /\ registry' = [registry EXCEPT ![h] = @ \ {sp}]
          /\ UNCHANGED queue
       \/ /\ sp \in creds[h] /\ sp \in up
          /\ registry' = [registry EXCEPT ![h] = @ \cup {sp}]
          /\ queue' = Enqueued(h, Naming(h, sp))
    /\ UNCHANGED <<sources, creds, remote, up, stuck, wk, ops>>

ResyncKeys(h) ==
    UNION {SourceKeys(k, sources[h][k].obj) :
              k \in {n \in Namespace : sources[h][n] # None}}

Resync(h) ==
    /\ queue' = Enqueued(h, ResyncKeys(h))
    /\ UNCHANGED <<sources, creds, registry, remote, up, stuck, wk, ops>>

-----------------------------------------------------------------------------
(* Failures, and everybody else *)

May(op) == op \in EnvOps /\ ops > 0 /\ ops' = ops - 1

\* The hub's process dies; the next one knows no spoke until the credentials
\* have been reconciled, and does not wait for that.
Restart(h) ==
    /\ May("Restart")
    /\ registry' = [registry EXCEPT ![h] = {}]
    /\ Becomes(h, Idle)
    /\ queue' = [queue EXCEPT ![h] = ResyncKeys(h)]
    /\ UNCHANGED <<sources, creds, remote, up, stuck>>

SpokeDown(sp) ==
    /\ May("SpokeDown")
    /\ sp \in up /\ up' = up \ {sp}
    /\ UNCHANGED <<sources, creds, registry, remote, stuck, queue, wk>>

\* An outage ends without spending the budget, or not at all.
SpokeUp(sp) ==
    /\ sp \notin up /\ up' = up \cup {sp}
    /\ UNCHANGED <<sources, creds, registry, remote, stuck, queue, wk, ops>>

\* The local part of k's reconcile starts to fail: a namespace that refuses its
\* copy, an API server that errs.
LocalTrouble(h, k) ==
    /\ May("Local")
    /\ k \notin stuck[h] /\ stuck' = [stuck EXCEPT ![h] = @ \cup {k}]
    /\ UNCHANGED <<sources, creds, registry, remote, up, queue, wk>>

\* It too ends without spending the budget, or not at all.
LocalRecovery(h, k) ==
    /\ k \in stuck[h] /\ stuck' = [stuck EXCEPT ![h] = @ \ {k}]
    /\ UNCHANGED <<sources, creds, registry, remote, up, queue, wk, ops>>

CredentialChange(h, sp) ==
    /\ May("Credential")
    /\ creds' = [creds EXCEPT ![h] = IF sp \in @ THEN @ \ {sp} ELSE @ \cup {sp}]
    /\ UNCHANGED <<sources, registry, remote, up, stuck, queue, wk>>

UserPut(h, k, src) ==
    /\ SetSource(h, k, src)
    /\ Becomes(h, IF wk[h].key = k THEN [wk[h] EXCEPT !.fresh = FALSE] ELSE wk[h])
    /\ UNCHANGED <<creds, registry, remote, up, stuck>>

UserCreate(h, k) ==
    /\ May("Create")
    /\ sources[h][k] = None
    /\ \E src \in UserSource : UserPut(h, k, src)

UserUnannotate(h, k) ==
    /\ May("Unannotate")
    /\ k \in Sources(h)
    /\ UserPut(h, k, [sources[h][k] EXCEPT !.obj.sync = Unannotated])

UserRetarget(h, k) ==
    /\ May("Retarget")
    /\ k \in Sources(h)
    /\ \E list \in UserTargets :
          /\ list # sources[h][k].clusters[Keys.primary]
          /\ UserPut(h, k, [sources[h][k] EXCEPT !.clusters[Keys.primary] = list])

UserEdit(h, k) ==
    /\ May("Edit")
    /\ k \in Sources(h)
    /\ \E value \in Data \ {sources[h][k].obj.data} :
          UserPut(h, k, [sources[h][k] EXCEPT !.obj.data = value])

UserDelete(h, k) ==
    /\ May("Delete")
    /\ sources[h][k] # None /\ ~sources[h][k].obj.del
    /\ LET obj == Deleted(sources[h][k].obj)
       IN  UserPut(h, k, IF obj = None THEN None
                         ELSE [sources[h][k] EXCEPT !.obj = obj])

\* Somebody in the spoke creates, edits or deletes an object.
SpokePut(sp, n) ==
    /\ May("SpokePut") /\ sp \in Shared
    /\ \E obj \in IF remote[sp][n] = None THEN SpokeObject
                 ELSE {None} \cup {[remote[sp][n] EXCEPT !.data = value] :
                                      value \in Data \ {remote[sp][n].data}} :
          remote' = [remote EXCEPT ![sp][n] = obj]
    /\ UNCHANGED <<sources, creds, registry, up, stuck, queue, wk>>

-----------------------------------------------------------------------------

Init ==
    /\ sources \in InitialSources
    /\ creds = [h \in Hub |-> Spoke]
    /\ registry = creds
    /\ remote \in InitialRemote
    /\ up = Spoke
    /\ stuck = [h \in Hub |-> {}]
    /\ queue = [h \in Hub |-> ResyncKeys(h)]
    /\ wk = [h \in Hub |-> Idle]
    /\ ops = MaxOps

Begin(h, k) ==
    Ignore(h, k) \/ AddFinalizer(h, k) \/ StartWalk(h, k) \/ StartCleanup(h, k)

Proceed(h) ==
    \/ \E sp \in Spoke : SkipSpoke(h, sp) \/ VisitSpoke(h, sp)
    \/ \E n \in Namespace : GetCopy(h, n) \/ DeleteCopy(h, n)
    \/ WriteFails(h) \/ AlreadyExists(h) \/ WriteCopy(h)
    \/ ListCopies(h) \/ LeaveSpoke(h)
    \/ FinishWalk(h) \/ ReleaseFinalizer(h)

HubStep(h) ==
    \/ \E k \in Namespace : Begin(h, k)
    \/ Proceed(h)

Users(h) ==
    \E k \in Namespace :
       \/ UserCreate(h, k) \/ UserUnannotate(h, k) \/ UserRetarget(h, k)
       \/ UserEdit(h, k) \/ UserDelete(h, k)

Environment ==
    \/ \E h \in Hub : Resync(h) \/ Restart(h) \/ Users(h)
    \/ \E h \in Hub, sp \in Spoke :
          CredentialReconcile(h, sp) \/ CredentialChange(h, sp)
    \/ \E h \in Hub, k \in Namespace : LocalTrouble(h, k) \/ LocalRecovery(h, k)
    \/ \E sp \in Spoke : SpokeDown(sp) \/ SpokeUp(sp)
    \/ \E sp \in Spoke, n \in Namespace : SpokePut(sp, n)

Next == (\E h \in Hub : HubStep(h)) \/ Environment

Spec == Init /\ [][Next]_vars
=============================================================================
