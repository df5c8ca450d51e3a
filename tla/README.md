# Replikate in TLA+

Replikate is a Kubernetes controller. A ConfigMap or Secret that carries the
`replikate.ubixsys.com/sync` annotation (a *source*) is copied into every
namespace the annotation's label selector matches, and on request into other
clusters (*spokes*). This directory holds a TLA+ model of it, the TLC
configurations that check the model on small clusters, and TLAPS proofs of its
safety for clusters of any size.

Modelled are the replication of one kind inside a cluster, the walk over the
spokes, the registry of spokes and its credential controller, the selector
webhook, and the migration from one annotation domain to the next over three
releases. Section 8 says what is left.

## 1. Inventory

### Components

| Component | Code | State | Operations |
|---|---|---|---|
| Key set | `keyset.go`, `replikate.go` | none (primary domain and legacy domains, fixed at start) | `isSource`, `syncValue`, `isManagedCopy`, `ownsCopy`, `copyOrigin`, `applyCopyMeta`, `managedListOpts`, `reconcileFinalizer`, `removeAllFinalizers`, `contentEqual` |
| Syncer | `syncer.go` | locals of a reconcile; everything that lasts is in the API server | `reconcileSource`, `cleanupAndRemoveFinalizer`, `upsertCopy`, `deleteCopies`, the watch map functions and predicates |
| ConfigMap and Secret controllers | `configmap_controller.go`, `secret_controller.go` | workqueue, informer cache (controller-runtime) | `Reconcile`, watches |
| Cross-cluster fan-out | `cross_cluster.go` | none of its own | `reconcileRemote`, `deleteRemoteCopies`, `parseTargetClusters` |
| Spoke registry and credential controller | `registry.go`, `cluster_controller.go` | map from cluster id to client under a mutex, a gauge, two bounded channels | `BuildClient`, `Store`, `SetUp`, `Remove`, `ClientFor`, `IDs`, credential `Reconcile` with its recheck |
| Domain counter | `domain_counter.go` | a gauge | `count`, every minute |
| Selector webhook | `webhook.go` | none | `Handle` |
| Metrics, manager wiring, chart | `metrics.go`, `cmd/main.go`, `charts/` | counters, flags | start-up |

### How they interact

* Both controllers share nothing in a cluster: ConfigMap copies and Secret
  copies never meet, and each controller has one worker
  (`MaxConcurrentReconciles` is left at 1). They share the spoke registry.
* Users, the namespace controller, other hubs and a previous version of
  Replikate act on the same objects through the API server. Nothing but labels,
  annotations and one finalizer says what belongs to whom.
* Reads (`Get`, `List`) are served by informer caches that trail the API server.
  Writes go to the API server; an `Update` carries the resourceVersion that was
  read, a `Create` fails on an existing object, a `Delete` names the object
  only. A spoke is read and written through a direct client, without a cache.
* Watch events enqueue keys: the primary watch (sources and objects with our
  finalizer), the drift watch (managed copies, mapped to their origin), the
  namespace watch (all sources of the field index), and a channel per source
  controller that the credential controller signals when a spoke registers.
* The webhook, where it is installed, sees the creates and updates of ConfigMaps
  and Secrets, those of the controller included, except in the release namespace
  and `kube-system`, which the chart's `namespaceSelector` exempts. With
  `failurePolicy: Ignore` a write also passes while the webhook is down.
* A reconcile does its local part first. An error there ends it, and no spoke is
  visited until a later reconcile gets through.

### What is hard

* The gap between a cached read and a write: a user, a rival source of the same
  name, or the controller's own earlier write may be in it.
* The finalizer: it has to be on the source at the API server before the first
  copy and until after the last, though both decisions use the cache.
* Crashes and errors between any two writes; nothing is journalled, the next
  reconcile has to find from labels alone what is left. A namespace may refuse
  its copy every time.
* Two sources that want the same slot; slots occupied by strangers and freed.
* Migration between annotation domains: every read has to honour both, every
  write stamps only the new one, and dropping the old one is a decision made
  from a gauge and a search.
* Namespaces that are relabelled, terminating, gone or back while a fan-out runs.
* Across clusters: spokes that fail one at a time in the middle of a walk,
  clients replaced while in use, an empty registry after a restart, hubs that
  share a spoke.
* A credential that changes while it is vetted; announcements that are dropped
  because a channel is full.

### What makes each component correct

* Key set: every honoured domain is searched, primary first; a mirrored object
  is the source's copy and never a source; writing twice changes nothing.
* Syncer, safety: copies come into being only under a held finalizer; no
  foreign object is overwritten or deleted; a copy never changes owner; no copy
  outlives its source's finalizer. Liveness: sources and copies converge once
  nobody interferes.
* Cross-cluster: a spoke's failure delays only its own copies and is retried; a
  hub overwrites only what it or nobody stamped; deleting a source cleans every
  spoke that answers.
* Registry: the hub is never registered as its own spoke; the registry ends up
  saying what the credentials say; a registered spoke reaches every source.
* Webhook: where its verdict binds, no source is frozen by a selector that does
  not parse.
* Domain counter, and the rule it serves: no live copy is deleted and nothing
  marked by the old prefix stays behind when it is dropped.

## 2. Modules

| Module | What it is |
|---|---|
| `KeySet` | the contract as pure operators over objects |
| `SourceLife` | what `reconcileSource` decides first, and what the API server does with finalizers; shared by the next two |
| `Syncer` | the state machine of one kind's controller and its cluster |
| `CrossCluster` | hubs that walk spokes |
| `ClusterRegistry` | the registry, the credential controller, and the source controllers as its users |
| `Migration` | three instances of the `Syncer` in sequence, the domain counter, the operator |
| `SyncerProperties`, `CrossClusterProperties`, `ClusterRegistryProperties` | properties, fairness, refinement mappings |
| `CopyOwnership` | abstract specification: who may hold a place, who is bound to clean up; implemented by `Syncer` (places are namespaces) and by `CrossCluster` (places are namespaces of spokes, owners are sources of hubs) |
| `MCSyncer`, `MCCrossCluster`, `MCClusterRegistry`, `MCMigration` | initial worlds and small constants for TLC |
| `KeySetProofs`, `SyncerProofs`, `SyncerRefinement`, `CrossClusterProofs`, `CrossClusterSweeps`, `ClusterRegistryProofs`, `MigrationProofs`, `CopyOwnershipProofs` | theorems |

Operators marked "variant" are deliberate faults (a dropped guard, a missing
reset, a forgotten domain). No specification uses them; substituting one for the
definition next to it makes the corresponding property fail, which shows that
the property depends on that line of the code.

### KeySet

An object is a record of what the contract tells apart: finalizers (by domain),
the deletion mark, the sync annotation of every domain, the stamp of every
domain (managed-by with its origin labels), config-syncer's origin mark, and
the payload. A selector is the set of label values it matches, or `Invalid`.
Names and kinds are left out: a copy has its source's name and kind, so in a
model of one name and one kind an object is identified by its namespace.
Labels and annotations that are not Replikate's behave like payload, which
`applyCopyMeta` and `copyContents` copy over in the same way.

Managed-by and origin labels of one domain are written together, so they form
one `Stamp`; `ns` may be absent (`None`) because `isManagedCopy` and
`copyOrigin` tell that case apart.

### Syncer

| Variable | Code |
|---|---|
| `api`, `namespaces` | the API server's objects and namespaces |
| `cache`, `nsCache` | the informers' |
| `watch` | object events between the two, in order |
| `queue` | the workqueue |
| `wk` | the worker: `pc` and the locals of `reconcileSource` |
| `ops` | what the environment may still do (a bound) |

| Action | Code |
|---|---|
| `Ignore`, `AddFinalizer`, `StartFanOut`, `StartCleanup` | `reconcileSource` up to its first write or loop |
| `CreateCopy`, `LeaveAlone`, `UpdateCopy` | `upsertCopy` for one target, targets in any order |
| `ListCopies`, `DeleteCopy` | `deleteCopies`: one query per honoured domain, one delete per namespace |
| `FinishPrune`, `ReleaseFinalizer` | the ends of `reconcileSource` and of `cleanupAndRemoveFinalizer` |
| `Deliver`, `NsDeliver`, `Resync` | the watches and the periodic resync |
| `ApiError`, `Restart` | any call fails; the process dies at any point |
| `User...`, `Ns...` | users and the namespace controller |

`Handle` is the webhook's verdict. `Gated` are the namespaces where it is binding:
all but the exempt ones where the webhook is installed and fails closed, none where
it is not. A create or update in one of them passes through `Admitted`, and a denied
write of the controller is an error that requeues its key. `Refusing` are the namespaces that never accept a copy,
`ExcludeNamespaces` the flag.

A step is one API write or one list. What is merged, and why nothing is lost:

* `upsertCopy`'s cached `Get` and its write are one action. Between the two only
  other actors move. If the cache changes in between, the write would find a
  stale resourceVersion (or `AlreadyExists`); the same outcome is had by taking
  the action before the delivery. If the API server changes, taking the action
  after the change with the event still under way gives the same outcome.
* A resourceVersion is "no event of this object is under way": an update
  succeeds exactly when the cache holds the object's last version. Only the
  cleanup writes an object that it read many steps earlier (the source, to drop
  the finalizer), so `wk.fresh` follows whether anybody has written it since.
* `reconcileSource` reads namespaces once, into `keep`/`todo`; the namespace
  cache is one level map per namespace, since selectors look at nothing else.
* A restart re-lists, so the cache starts level and every object is an event.

The remote walk that ends a reconcile is `CrossCluster`'s.

### CrossCluster

| Variable | Code |
|---|---|
| `sources` | each hub's objects with their target-clusters annotation |
| `creds` | the spokes a hub holds a good credential Secret for |
| `registry` | the spokes a hub has a client for |
| `remote`, `up` | the spokes' objects, and which spokes answer |
| `stuck` | the keys of each hub whose local part (fan-out and prune, or cleanup) fails |
| `queue`, `wk` | each hub's workqueue (delayed requeues included) and worker |
| `ops` | a bound |

| Action | Code |
|---|---|
| `Ignore`, `AddFinalizer`, `StartWalk`, `StartCleanup` | `reconcileSource` up to `reconcileRemote`, or `cleanupAndRemoveFinalizer` up to `deleteRemoteCopies` |
| `SkipSpoke`, `VisitSpoke` | the loop over `IDs()` with its `ClientFor` |
| `GetCopy`; `WriteFails`, `AlreadyExists`, `WriteCopy` | `upsertCopy` through the spoke's client: its `Get`, then its write, as two calls |
| `ListCopies`, `DeleteCopy`, `LeaveSpoke` | `deleteCopies` on the spoke, for this hub's origin |
| `FinishWalk`, `ReleaseFinalizer` | the two ends: the delayed requeue if anything failed, or the finalizer whatever failed |
| `CredentialReconcile`, `CredentialChange` | the registry as the walk sees it |
| `LocalTrouble`, `LocalRecovery` | the local part of a key begins to fail, and ceases to |
| `Resync`, `Restart`, `SpokeDown`, `SpokeUp` | resync, crash, outages |
| `User...`, `SpokePut` | users of the hub, and anybody in a spoke of `Shared` |

`StartWalk` and `StartCleanup` need `LocalPartDone`: a reconcile whose local part
returns an error is requeued and, for the spokes, has not taken place. What the
local part does is `Syncer`'s; here it only counts that it may fail, for a while or
for good.

A spoke's reads are present, so here `Get` and write are separate steps and the
resourceVersion is the object itself: an update succeeds if the object is still
what was read. An object that was changed and changed back counts as unchanged:
where the code would see a conflict and come back, the model makes the same write
over the same object at once. The hub's own sources are read as they are: what a
stale cache does to them is `Syncer`'s question, asked there with the local copies
in the place of the remote ones.

### ClusterRegistry

| Variable | Code |
|---|---|
| `secrets`, `seen` | the credential Secrets at the API server and in the informer |
| `registry`, `gauge` | the map and `replikate_cluster_up`, changed one after the other |
| `queue`, `timed` | credentials waiting, and those that come back after the recheck interval |
| `wk` | the credential worker: which call it is at, the client it built, the channels still to be told |
| `channel` | `ClusterReady` of each source controller, of capacity `ChannelSize` |
| `due`, `walk`, `reached` | each source controller's queue, the walk of its worker with the client it holds, and the cluster each source was last written to |
| `reachable`, `readable` | which clusters answer, and which let `kube-system` be read |

| Action | Code |
|---|---|
| `Deliver` | the watch, with its label predicate on the new object |
| `Wake` | the end of `RequeueAfter` |
| `Deregister`, `BuildClient` | `Reconcile` up to the client: `NotFound` and bad kubeconfigs deregister |
| `CheckReachable`, `CheckUnreachable` | `connectivityCheck` |
| `RefuseUnverified`, `RefuseSelf`, `Accept` | the hub-identity checks |
| `Store`; `SetUp` | the map, then the gauge, of a vetted client; `SetUp` alone when it does not answer |
| `Announce`, `FinishAnnouncing` | the non-blocking sends, one channel at a time, and the recheck |
| `Remove`; `ClearGauge` | the two halves of the registry's `Remove`: the map under the mutex, the gauge after it |
| `Receive`, `StartWalk`, `ClientFor`, `UseClient`, `FinishWalk` | the source controllers |
| `Restart`, `Create`, `Delete`, `Repoint`, `Relabel`, `Outage`, `Recover`, `Rebind` | crash, operators, clusters |

A client is the cluster it leads to. Each access to the map, each change of the
gauge and each send is a step of its own, so scrapes, walks and crashes come between
any two of them. `Upsert`, which only tests call, is left out.

### Migration

`Pinned`, `Both` and `Dropped` are three instances of the `Syncer` over the same
variables, with the key sets of three releases (`PinnedKeys`, `BothKeys`,
`DroppedKeys`); they instantiate `SyncerRefinement`, so that what is proved of a
`Syncer` with any key set is at hand for each release. `Upgrade` and `Drop` replace the
process (a re-list, as in `Syncer`'s restart), `Count` is the domain counter's
read of the cache, at any time. `Drop` follows the rule of the README (line 30) and
of the design note (line 92) and asks for nothing else: the gauge reads 0, and
(`ChecksSources`) no object carries the old prefix's sync annotation. The gauge is
the one last read, of a cache that may lag, and the controller may be in the middle
of anything.

## 3. Properties and runs

Every passing run is exhaustive for its constants. `MaxLag` bounds the events
under way and `MaxOps` what users, errors, crashes, outages and operators may do
in total; the controllers' own steps are not bounded.

| Run | World | Question |
|---|---|---|
| `syncer_lag` | two rival sources, a third namespace free or with a config-syncer leftover, lagging cache, all object operations, errors, crashes | `StaleReadsAreSafe`, `NothingForgotten`, `OnlyUnlistedAreOrphaned`, `CopiesOnlyUnderFinalizer`, `FirstWriterWins`, `ImplementsOwnership` |
| `syncer_converges` | rivals and strangers, with resyncs | `Converges` |
| `event_driven` | one settled source with either of two selectors, without resyncs; one namespace refuses its copy for good | `Converges` |
| `migration` | a source, a wanted and an unwanted copy left by the previous domain; webhook binding in two of the three namespaces; a cleanup's list is level | `NoOrphanedCopies`, `NoFrozenSource`, `ImplementsOwnership` with complete sweeps, `LegacyRetired`, `MigratesInPlace` |
| `shared_spoke` | two hubs with a source of the same name, one spoke that holds an unlabelled copy and a config-syncer leftover | `WalkOK`, `NoRemoteOrphans`, `NoClobber`, `ImplementsOwnership` |
| `spokes_converge` | one hub, two spokes, one of whose namespaces refuses; everything users, outages, credentials, local failures and crashes can do | `RemoteConverges`, `RetriesSuffice`, `ReachableSpokesAreSwept` |
| `registry` | one credential, the hub and two spokes, a channel of one place | `NeverSelf`, `GaugeIsHonest`, `RegistryFollows`, `SourcesReachSpokes` |
| `drop_legacy` | one source of the old prefix through three releases, with restarts and errors | `OldPrefixUnused`, `FinalizersMove`, `CopiesAreNotSources`, `CopiesSurvive` |
| `orphan_race`, `delete_race`, `webhook_wedge`, `spoke_outage` | smallest worlds | the disagreements of section 6 |

### Inside a cluster

* `CopiesOnlyUnderFinalizer`: at the moment the controller creates or rewrites
  a copy, its source holds the finalizer at the API server, however stale the
  cache the decision came from.
* `FirstWriterWins`: the controller rewrites only its own source's copies and
  adoptable objects; a source edited after it was read is not overwritten by the
  late finalizer write.
* `StaleReadsAreSafe` is the inductive invariant under both (section 5).
* `NothingForgotten`: a source whose finalizer the cache shows as missing, not yet
  the primary one, or due to go is in the queue, about to be seen anew, or being
  cleaned up. It is the safety half of `Converges`, and what lets an operator take
  an idle controller for one that has finished.
* `ImplementsOwnership`: with `slot` (what a namespace holds) and `armed` (which
  sources hold the finalizer) computed from the API server's objects, every step
  of every actor is a step of `CopyOwnership` or stutters. As the code stands
  this holds with `SweepComplete` FALSE. `CopyOwnership` with `SweepComplete`
  TRUE (a source is disarmed only when none of its copies is left) is
  implemented only if the cleanup's list is level.
* `OnlyUnlistedAreOrphaned`: with the lag the code has, a copy loses its source's
  finalizer only at the end of a cleanup that has queried every honoured domain
  and deleted all it found, and only if none of those lists, reads of the cache,
  held the copy. So the race of `orphan_race` is the only way to an orphan.
* `NoOrphanedCopies`: a copy's source is armed. `ListLag` separates what the
  code does (TRUE) from a cleanup that lists only once all events have arrived
  (FALSE). The second is not the code. The run and the theorem with FALSE show
  that nothing else (writes, target lists, ownership checks, prunes, crashes,
  migration) orphans a copy; `orphan_race` shows that with TRUE the listing does.
* `Converges`: once the environment is quiet, each valid source has an exact copy
  in every namespace it selects unless somebody else's object is there or the
  namespace refuses, none elsewhere, and the finalizer exactly while it is a
  source. A source that selects a refusing namespace is not promised its pruning:
  the loop over the targets ends before it (section 6).
* `LegacyRetired`, `MigratesInPlace`: after a domain change the legacy stamps
  disappear, and no living source's wanted copy is deleted on the way. Namespaces
  are not relabelled in this run: between a relabel and its arrival in the
  namespace cache the controller rightly prunes what the label no longer asks
  for. Nor does a copy become a source, because of `double_stamp` (section 6).
* `NoFrozenSource`: in a namespace where the webhook is binding no source comes to
  carry a selector that does not parse, under any mix of domains and whoever writes
  it. In the exempt namespaces, and anywhere without the webhook, one may, and is
  then left as it is; the run has such a namespace.

### Across clusters

* `NoClobber`: a hub that knows its identity rewrites in a spoke only its own
  source's copies, unlabelled copies of its source's name, and adoptable objects,
  whatever happened between its `Get` and its `Update`.
* `WalkOK`: a walk that may write is for a source that is still armed; a cleanup
  that counts its source as unchanged is right; what a walk read and means to
  overwrite it may overwrite. Part of the inductive invariant.
* `NoRemoteOrphans`, `ReachableSpokesAreSwept`: while every spoke answers and is
  registered, no stamped copy survives its source's finalizer; in particular a
  cleanup visits the spokes the source has ceased to name. In `spokes_converge`
  spokes do fail, so the property there is the implication.
* `RemoteConverges`: once the environment is quiet, every spoke that answers and
  has a credential holds exactly the copies wanted of it by each source whose local
  part succeeds, though other spokes stay down and a namespace refuses for good. A
  source whose local part fails for good is promised nothing in the spokes, because
  `reconcileSource` returns before `reconcileRemote` (`syncer.go:134-149`). The left
  side, `Periodic`, is resyncs and rechecks: a spoke that a source no longer names,
  and that was down when it was to be pruned, may return with nobody enqueuing that
  source.
* `RetriesSuffice`: without `Periodic`, that is with resyncs and rechecks that may
  never come, the requeues do it by themselves, after a walk that recorded a
  failure and after a local part that failed. A hub does not watch its spokes, so
  nothing wakes it for a change that fails no call. Hence the property is about
  the spokes where only hubs write (not in `Shared`; in the run, one of the two),
  while none loses its registration and no source wants a place that another's
  copy holds (`Unrivalled`).
* `ImplementsOwnership`: `CopyOwnership` again, with places in spokes and sources
  of hubs as owners; sweeps are complete where neither outages, restarts nor
  changing credentials are among the operations.

### Registry

* `NeverSelf`: no client in the registry or in the hands of a walk leads to the
  hub, whatever the Secret says and however it changes between the read, the
  checks and the `Store`.
* `GaugeIsHonest`: a scrape may find map and gauge in disagreement, but only for
  the id whose reconcile is between `Store` and `SetUp`, or between the two halves
  of `Remove`. Whatever check fails, whatever the Secret becomes and wherever the
  process dies, an id shown up is otherwise registered, and a registered one has a
  series.
* `RegistryFollows`: finally the registry says what the labelled Secrets say of
  every cluster that answers, and the gauge does not show up one that does not.
  Secrets that have lost their label are excepted (section 6).
* `SourcesReachSpokes`: each source is finally written through the client
  registered now, though announcements are dropped and clients replaced in use.
  Local parts of source reconciles succeed in this module; `CrossCluster` has the
  ones that fail.

### Migration

* `CopiesSurvive`, `CopiesAreNotSources`: over all three releases no live copy of a
  living source is deleted, and no copy becomes a source.
* `OldPrefixUnused`: once the prefix is dropped by the documented rule no object
  carries its stamp or its sync annotation, though the gauge was read from a lagging
  cache some time before, and writes and restarts came in between.
* `FinalizersMove`: the release that honours both domains, once it has nothing left
  to do, has left no finalizer of the old prefix. The rule does not wait for that:
  `NoFinalizerLeft`, the same statement after the drop, is violated
  (`drop_by_the_rule`, section 6).

### Bounds

Three namespaces are the fewest with two rival sources and a target, or one
source with a target that matches and one that does not; two teams let a
relabel move a namespace in and out of a selector; two payloads show an update.
`MaxLag` 2 lets two writes, of one object or of two, be unseen at once; every
race of section 6 shows up at that lag. `MaxOps` 2 or 3 places any two or three
environment operations anywhere in the interleaving; every disagreement of
section 6 needs at most three. One legacy domain is what
`--previous-annotation-domain` offers.

Across clusters, two hubs and one spoke are the fewest that can clash, one hub
and two spokes the fewest where one may fail and the other go on; two namespaces
hold a source and a rival, or a copy and an adoptable object. Both fleets at once
are left to the proofs, which take any number of each. In `registry` one
credential is enough for every race of vetting and use, since the map's entries
meet only in the channel; one of a single place is full after one announcement.

In `migration` the webhook binds in the source's namespace and in one target, and
not in the third, so that copies and annotations go both ways. The largest runs
have 0.6 (`syncer_lag`) and 1.1 million states (`drop_legacy`); `spokes_converge`
and `syncer_lag` take one to two minutes each.

The proofs remove all these bounds for the properties they cover.

### Fairness

* `SF` of `Begin`, for each key: the workqueue is FIFO and rate limits retries,
  so a key that keeps coming back is taken again and again. It must be strong
  because the key is enabled only while the worker is idle.
* `WF` of the workers' steps and of watch delivery: a reconcile does not stop
  half-way (no call in it blocks for ever; spokes are called with a timeout), and
  watches are re-established.
* `WF` of `NsCollect` and `NsGone`: the namespace controller empties namespaces.
* `RangesAnyhow` (`event_driven`): Go ranges over the map of targets in a random
  order, so no target is behind the one that refuses every time.
* `WF` of `Resync` only in `ResyncSpec` (`syncer_converges`, `migration`,
  `orphan_race`, `webhook_wedge`, `spoke_outage`) and in `Periodic`, on the left of
  `RemoteConverges`: the informers' periodic resync, ten hours by default. A slot
  that becomes free wakes nobody, so rivals and strangers need it.
* `WF` of `CredentialReconcile`, also in `Periodic`: the credential controller
  requeues every credential at its recheck interval and enqueues the sources that
  name the spoke. `RetriesSpec`, which `RetriesSuffice` is checked of, has neither:
  with it, a failed write that was forgotten would be made good by the next recheck.
* `PatientSpec` (`registry`): a recheck interval ends only when the source
  controllers have emptied their channels. An interval is minutes; a channel is
  emptied by a goroutine that does nothing else. Without it, with more
  credentials than places in the channel and rechecks in lock-step, the same
  announcements could be dropped each time; the code's channels have 64 places.
* Users, crashes, errors and outages have no fairness; `ops` makes them finitely
  many, which is what "once the environment is quiet" means. An outage may end or
  may not.

## 4. Hazards

`PROJECT.json` lists each place where the code could go wrong in a way that is
hard to test, with the properties that watch it. Four have no property that
holds, because the code does not do what a property would say: the stamp of a
legacy domain that a source which is a copy passes on, a spoke that runs
Replikate itself, excluded namespaces of a spoke, and a credential that loses its
label. Each has a configuration that shows it (section 6).

## 5. Proofs

All proofs are checked by TLAPS for arbitrary sets of namespaces, domains, teams,
hubs, spokes, clusters and payloads, key sets with any number of legacy domains,
and any bounds. Assumptions on constants: `NoneAssumption` (None is none of the
values), `SyncerAssumption`, `CrossClusterAssumption`, `RegistryAssumption`,
`SecretAssumption` (constants are of their types; the primary domain is not among
the legacy ones, which `NewKeySet` ensures; users create objects without
finalizers), and `MigrationAssumption` (two different domains; there are finitely
many namespaces, because the gauge counts; None is not a number). What a theorem assumes beyond these it says itself.

| Theorem | Statement |
|---|---|
| `KeySetProofs!MirrorIsCopy` | what `upsertCopy` leaves is the source's copy, carries the hub's identity, is not a source, same finalizers and deletion mark |
| `KeySetProofs!MirrorIsStable` | mirroring it again changes nothing |
| `SyncerProofs!TypeCorrect` | `Spec => []TypeOK` |
| `SyncerProofs!StaleReads` | `Spec => []StaleReadsAreSafe` |
| `SyncerProofs!CopiesUnderFinalizer` | `Spec => CopiesOnlyUnderFinalizer` |
| `SyncerProofs!FirstWriter` | `Spec => FirstWriterWins` |
| `SyncerProofs!FinalizersAreMinded` | `Spec => []NothingForgotten` |
| `SyncerRefinement!OnlyListsLoseCopies` | `UsersStampNothing`: `Spec => OnlyUnlistedAreOrphaned` |
| `SyncerRefinement!SyncerImplementsOwnership` | `UsersStampNothing`: `Spec /\ (~ListLag => NoOrphanedCopies) => ImplementsOwnership` |
| `SyncerRefinement!WebhookGuards` | `Spec /\ NoFrozenSource => []NoFrozenSource`, for any `Gated` |
| `CrossClusterProofs!TypeCorrect`, `WalksStayOK` | `Spec => []TypeOK`, `Spec => []WalkOK` |
| `CrossClusterProofs!NothingIsClobbered` | `Spec => NoClobber` |
| `CrossClusterSweeps!CleanupsReachEverySpoke` | `Identified`, `StrangersStampNothing`: `Spec /\ NoRemoteOrphans => ReachableSpokesAreSwept` |
| `CrossClusterSweeps!NoOrphansWhileConnected` | `Identified`, `StrangersStampNothing`, `Undisturbed`: `Spec /\ NoRemoteOrphans => []NoRemoteOrphans` |
| `CrossClusterSweeps!HubsImplementOwnership` | `Identified`, `StrangersStampNothing`: `Spec /\ (Undisturbed => NoRemoteOrphans) => ImplementsOwnership` |
| `ClusterRegistryProofs!TypeCorrect`, `RegistryIsNeverSelf`, `GaugeAgrees` | `Spec => []TypeOK`, `[]NeverSelf`, `[]GaugeIsHonest` |
| `MigrationProofs!MigrationTypes` | `Spec => []TypeOK` |
| `MigrationProofs!NoMixedRoles`, `OldPrefixIsGone` | `ChecksSources`, `UsersWait`, `OldWorld`: `Spec => []CopiesAreNotSources`, `Spec => []OldPrefixUnused` |
| `MigrationProofs!FinalizersAreMoved` | `Spec => []FinalizersMove` |
| `CopyOwnershipProofs!OwnershipTypes`, `SweepsLeaveNoOrphans`, `CopiesNeverChangeHands` | what an implementation of `CopyOwnership` inherits |

`UsersStampNothing` and `StrangersStampNothing` say that users do not create
objects that carry Replikate's own labels; `Identified` that each hub could read
its identity and no two share one. The conjuncts beside `Spec` are about the
initial state: nothing is promised about an orphan that was there before.

The hypotheses of the migration are `ChecksSources` (the rule's two counts, not
the gauge alone), `UsersWait` (users annotate under the new domain only once a
release announces it, do not annotate copies, and create objects before they
annotate them) and `OldWorld` (at the start nothing carries the new domain's
marks, and no copy is annotated as a source). `drop_on_gauge` shows what happens
without the first, `annotated_early` what without the second, `double_stamp` what
becomes of a copy that is annotated. The constants of `drop_legacy` satisfy all
three.

### Stale reads

"The controller creates copies only for an armed source" is not inductive: the
decision rests on a cached source. The invariant adds

* `Coherent`: the cache is the API server's past, and the last event under way
  for an object is its present, so an update that succeeds was decided from the
  present object (`PutCoherent`, and `InformersSafe` for deliveries);
* `ReadyIsArmed`: a source that looks ready in the cache *or in any event under
  way* is armed now. Nobody disarms a source but `ReleaseFinalizer`, which
  needs a source that is not ready and that nobody has written since; then no
  event of it is under way, so no ready look of it is left anywhere
  (`ReleaseSafe`). This is the heart of the proof;
* `WorkerOK`: a fan-out runs for an armed source; a cleanup's source is not
  ready, and while it counts as fresh it is what the cache holds.

`ControllerWrites` then reduces both action properties to the two writes of
`upsertCopy`. `MirrorIsCopy` supplies what those writes leave behind.

### Nothing forgotten

`NothingForgotten` relates the cache, the watch, the queue and the worker, so every
action can disturb it in its own way. `EveryView` reduces them to three: a
`ViewStep` writes at most one object and announces it (`OneWrite`), a delivery puts
into the cache what it puts into the queue (`SourceKeys`), and a restart queues
every key (`ResyncKeys`). What remains is the one key the worker takes out of the
queue: it comes back with an error or a conflict, its object is written and so
about to be seen anew, or a cleanup begins, and a cleanup ends only by writing the
object or by giving the key back. The proof needs `StaleReadsAreSafe`: a cleanup
that finds its source no longer fresh is excused by the event under way.

### Orphans and the refinement

`SyncerRefinement` first reduces every action of `Syncer` to what it does to the
API server's objects (`EveryStep`: one of six kinds of step, or none). A sweep's
invariant, `SweepOK`, says of every copy of the source being released that it is
on the list of deletions, or no list has returned it yet; a copy cannot appear
behind the sweep, because only an armed source's fan-out makes one and the worker
is busy with the cleanup. So when the sweep ends only copies that no list returned
are left (`OrphansAreMissed`), which is `OnlyListsLoseCopies`. If the list is level
(`~ListLag`, not the code) a copy that is not seen has a domain still to be
queried, and nothing is left at the end: the lemmas `NothingIsLeft` and `NoOrphans`,
which the refinement with complete sweeps rests on. The same six kinds of step map to `Arm`,
`Disarm`, `Claim`, `Occupy`, `Vacate` or a stutter.

### Spokes

`WalkInv` strengthens `WalkOK` by where a walk is within a spoke (`LocalsOK`). A
write goes through only if the object is still what was read, so what was true of
the object when it was read is true when it is overwritten: `NoClobber` follows
from `WalkOK` for any number of hubs.

For the sweeps, `SweepInv` says that every copy stamped for the source being
released is still ahead of the cleanup (`Pending`): its spoke is to be visited, or
it is on the current spoke's list, or its domain is still to be queried. Here
others do write between two calls, and the proof shows that no one else can put
this hub's stamp on anything (`StampsComeFrom`): another hub's writes carry
another identity, strangers' none. Outages and lost registrations break the
invariant, so the theorem is relative to `Healthy`, and `spoke_outage` and
`restart_window` show why.

`NoOrphansWhileConnected` turns the relative statement into an invariant for
worlds without outages, restarts and credential changes (`Undisturbed`), because
there a hub's registry stays complete (`StaysConnected`). `HubsImplementOwnership`
needs this only for the abstraction's `Disarm`. For everything else it relies on
`WalkInv`: a step changes one source (`OneSourceChanges`) or one place of one
spoke (`OnePlaceChanges`), and what the place then holds (`HolderFacts`) says
whether that is a `Claim`, an `Occupy`, a `Vacate` or nothing.

### The migration

Two facts about a `Syncer` with any key set come first, at the end of
`SyncerRefinement`. If no object carries a mark of the domains `U`, which the key
set does not honour, and none is a copy and a source in one (`Tame(U)`), then this
is so wherever the process sees objects, in the API server, in the cache, in the
events under way and in the source its worker holds (`Sees`), and it stays so as
long as users are `Calm` (`TameNext`); mirroring is where it could go wrong, and
`MirrorMarks` in `KeySetProofs` says what a mirrored object carries. And a stamp
under a legacy domain only fades: once an object is clear of it at some point of
what is seen, it is clear of it at every later one (`Fades`, `FadesNext`).

The inductive invariant `MigrationInv` says for each release what its process may
count on (`Behaves`), and of the gauge that a 0 it once read still holds for the
whole cache (`GaugeOK`): the count is taken from a cache at one moment and used at
another, and between the two stamps only fade. The steps of a release are covered
by the lemmas above, instantiated with its key set. At the upgrade, what the old
release could see is what the new one may see. At the drop
(`NothingAtTheDrop`) the gauge says that no copy in the cache carried the old stamp
when it was read; since stamps fade along cache, events and API server, none does
at the API server either, however far the cache is behind; and the operator's look
says that no old annotation is left.

Finalizers do not fade with what is seen: a source that is annotated may be armed
under the old domain until the new release gets to it. `FinalizersAreMoved` needs
the controller idle, for then `NothingForgotten` says that every old finalizer
has been replaced or taken off (`FinalizersMoved`). Its invariant, `Prompt`, needs
none of the hypotheses above.

### The registry

`NeverSelf` is inductive with `StoreIsVetted`: a client that is about to be stored
has been identified and is not the hub's. `GaugeIsHonest` is inductive with `StillSo`,
which says what the worker at `SetUp` and at `ClearGauge` knows of the map: that
nobody but itself has touched its entry since.

### Only model-checked

`MigratesInPlace` and `CopiesSurvive` are checked and not proved. A sweep deletes by
name what it listed from a cache, from targets that were computed from a cache of
namespaces; given more lag than the runs allow and a few deletions by users, it can
hit another source's copy or one that a relabelled namespace has come to want
(`delete_race` is the smallest case). So they hold of the worlds of their runs, one
source and no relabelling, and a proof would have to count sources and events.

All liveness (`Converges`, `LegacyRetired`, `RemoteConverges`, `RetriesSuffice`,
`RegistryFollows`, `SourcesReachSpokes`) stays with TLC: TLAPS does not treat
fairness and ENABLED here. The key set's search is a `CHOOSE` of the least index
rather than a recursion, because induction over data is out of reach as well; for
the same reason `NewKeySet` is unfolded for the list of one previous domain that
`cmd/main.go` passes (`NewKeySetOfOne`), and not for lists of every length.

## 6. Where code and words disagree

Four disagreements are runs of the project.

* `orphan_race`: the README promises that a deleted source's copies are deleted
  via the finalizer. `cleanupAndRemoveFinalizer` lists the cache; a copy created
  by the previous reconcile may not be in it. The finalizer goes, the source goes,
  and the copy stays: afterwards its reconcile ends at NotFound whatever wakes it.
* `delete_race`: `deleteCopies` "removes managed copies of src", but deletes by
  name. If a user replaces a listed copy by an object of their own first, that
  object is deleted.
* `webhook_wedge`: the cleanup is to allow "the source's own deletion to proceed".
  A source whose selector did not parse before the webhook was installed cannot be
  released: the update that drops its finalizer is denied each time.
* `spoke_outage`: `cross_cluster.go:126-130` leaves an unreachable spoke's copies
  "for the next reconcile once the spoke returns". The finalizer is dropped all
  the same, and no reconcile of that source sweeps the spoke again.

Ten more have a configuration each, with which TLC shows the property violated
(`tlc -config X.cfg M`).

* `double_stamp` (`MCSyncer`): `domain_counter.go:53`, "A copy carries exactly one
  domain's managed-by label". A copy under the previous domain that becomes a
  source passes its legacy stamp to its own copies.
* `refusing_prune` (`MCSyncer`): `syncer.go:145`, "Remove copies from namespaces
  that are no longer targets." The loop over the targets returns at the first
  error, so while one target refuses, nothing is pruned. The remote walk records
  the error and goes on.
* `spoke_runs_replikate` (`MCSyncer`): the design note on cross-cluster
  replication (lines 132-134) has a copy owned by a different source cluster "left
  alone". The local path passes an empty origin cluster, which `ownsCopy` takes
  for any: where a spoke runs the controller too, a local source of the same
  namespace and name rewrites the hub's copy.
* `restart_window` (`MCCrossCluster`): `ROADMAP.md:77-78`, the fan-out "cleans up
  on delete". After a restart a source may be reconciled before the credentials
  are: the registry is empty, no spoke is swept, the finalizer goes.
* `prune_race` (`MCCrossCluster`): `CHANGELOG.md:105-107`, two hubs on one spoke
  "no longer delete or overwrite each other's copies". A copy that was unlabelled
  when one hub listed it and has been stamped by the other since is deleted.
* `excluded_on_spoke` (`MCCrossCluster`): the design note (lines 135-136),
  exclusions protect "system namespaces in every target cluster".
  `reconcileRemote` does not look at them.
* `label_removed` (`MCClusterRegistry`): `cluster_controller.go:25-26`, a labelled
  Secret registers a cluster, "its removal deregisters it". When a Secret loses its
  label the watch's predicate drops the event, and the rechecks go on refreshing
  the registration.
* `annotated_early` (`MCMigration`): `keyset.go:182-183`, "a copy must never
  itself be a source". A source annotated under the next prefix ahead of the
  upgrade has that annotation copied, and the upgraded controller takes the copies
  for sources.
* `drop_on_gauge` (`MCMigration`): `domain_counter.go:17-18` calls the gauge "the
  completion signal for a domain migration". Copies are restamped while their
  source still carries the old annotation; dropping the prefix at 0 makes the
  controller delete that source's copies. (The README and the design note ask for
  the second count, of sources, as well.)
* `drop_by_the_rule` (`MCMigration`): `README.md:30`, "Only once **both** the copies
  *and* every source are off the old prefix is it safe", and
  `docs/design/dual-annotation-domain.md:92`, "Only once both counts are 0". Neither
  count sees finalizers. A source loses its old annotation shortly before the
  upgrade, the new release starts, both counts are 0 at once, and the prefix is
  dropped before the source's reconcile: the object keeps a finalizer of the old
  prefix that no release honours any more, and cannot be deleted. What is missing is
  that the controller has caught up (`FinalizersMove`).

## 7. Not modelled, and why

* Counters and events: nothing reads them back.
* Flag parsing, probes, leader election, the chart: start-up configuration. What
  it decides (key sets, excluded namespaces, the hub's identity that may be
  empty, webhook rules) are constants of the models.
* The webhook's decoding errors, which deny the request.
* Warnings about spokes that an annotation names and nobody registered.
* More than one name or kind: reconciles of different names or kinds touch
  disjoint objects in a cluster.
* Users who forge or strip Replikate's labels and finalizers by hand.

## 8. What could come next

1. `MigratesInPlace` as a theorem about a world of one source, which is what the
   run checks.
2. `KeySet` over bounded inputs: `NewKeySet`'s promise that a domain is never
   listed twice, and the search against a reference definition.
3. The hub's cache inside `CrossCluster`, so that a stale source and a remote walk
   meet in one model.
