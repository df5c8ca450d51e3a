------------------------------- MODULE Syncer -------------------------------
(***************************************************************************)
(* One kind's controller (internal/controller/syncer.go) in its cluster:   *)
(* the API server's objects, the informer cache the controller reads, the  *)
(* workqueue, the one worker that reconciles, and the users and namespace  *)
(* machinery that act on the same objects.                                 *)
(*                                                                         *)
(* reconcileSource is broken where another actor can come between: one     *)
(* step per API write and per list.  Reads come from the cache, which      *)
(* trails the API server by the events in "watch"; a write carries the     *)
(* resourceVersion that was read, so it succeeds only if nothing has       *)
(* changed the object since, that is, if no event of it is on its way.     *)
(***************************************************************************)
EXTENDS SourceLife

CONSTANTS
    ExcludeNamespaces,  \* namespaces that never receive copies
    Refusing,           \* namespaces that refuse a copy: a quota, an immutable type
    Gated,              \* namespaces whose writes must pass the webhook
    ListLag,            \* FALSE: a cleanup lists copies in a level cache only
    MaxLag,             \* bound on the watch events under way
    MaxOps,             \* bound on what the environment does
    EnvOps,             \* the environment operations that are enabled
    UserObject,         \* the objects users create
    InitialApi,         \* the objects a run may start from
    InitialNamespaces   \* the namespaces it starts from

NsState == Team \cup {"terminating", "absent"}

ASSUME SyncerAssumption ==
    /\ Keys \in KeySetType
    /\ Keys.primary \notin LegacyDomains(Keys)
    /\ ExcludeNamespaces \subseteq Namespace /\ Refusing \subseteq Namespace
    /\ Gated \subseteq Namespace
    /\ ListLag \in BOOLEAN
    /\ MaxLag \in Nat /\ MaxOps \in Nat
    /\ {"terminating", "absent"} \cap Team = {}
    /\ UserObject \subseteq {o \in Object : o.fin = {} /\ ~o.del}
    /\ InitialApi \subseteq [Namespace -> Object \cup {None}]
    /\ InitialNamespaces \in [Namespace -> NsState]

VARIABLES
    api,         \* the API server's object in every namespace
    cache,       \* the informer's object in every namespace
    watch,       \* object events the informer has not seen yet, in order
    namespaces,  \* the API server's namespaces
    nsCache,     \* the informer's namespaces
    queue,       \* keys waiting in the workqueue
    wk,          \* the worker: where reconcileSource is and what it holds
    ops          \* what the environment may still do

vars == <<api, cache, watch, namespaces, nsCache, queue, wk, ops>>

Event == [ns : Namespace, obj : Object \cup {None}]

(***************************************************************************)
(* The worker's locals.  "src" is the source as it was read, "fresh" says  *)
(* that nobody has written the source since (kept only for a cleanup, the  *)
(* only one that writes it late), "keep" is deleteCopies' argument, "todo" *)
(* the namespaces the current loop has not visited, "domains" the list     *)
(* queries still to be made and "seen" the namespaces they have returned.  *)
(***************************************************************************)
Idle == [pc |-> "idle", key |-> None, src |-> None, release |-> FALSE,
         fresh |-> FALSE, keep |-> {}, todo |-> {}, domains |-> <<>>,
         seen |-> {}]

Busy == [pc : {"upsert", "sweep"}, key : Namespace, src : Object,
         release : BOOLEAN, fresh : BOOLEAN, keep : SUBSET Namespace,
         todo : SUBSET Namespace, domains : Seq(Domain),
         seen : SUBSET Namespace]

TypeOK ==
    /\ api \in [Namespace -> Object \cup {None}]
    /\ cache \in [Namespace -> Object \cup {None}]
    /\ watch \in Seq(Event)
    /\ namespaces \in [Namespace -> NsState]
    /\ nsCache \in [Namespace -> NsState]
    /\ queue \subseteq Namespace
    /\ wk \in {Idle} \cup Busy
    /\ ops \in 0..MaxOps

-----------------------------------------------------------------------------
(* The API server and its informer *)

Pending(n) == \E i \in DOMAIN watch : watch[i].ns = n

(***************************************************************************)
(* SelectorValidator.Handle: the admission webhook looks at the selector   *)
(* of what is created or updated, whoever writes it; a deletion is not     *)
(* shown to it.  The chart's namespaceSelector leaves out the release      *)
(* namespace and kube-system, and only failurePolicy Fail makes its verdict      *)
(* binding: Gated are the namespaces for which it is, none without it.     *)
(***************************************************************************)
HandlePrimary(obj) ==    \* variant: looks at the primary domain's key only
    obj.sync[Keys.primary] # Invalid

Handle(obj) == IsSource(Keys, obj) => SyncValue(Keys, obj) # Invalid

Admitted(n, obj) == n \in Gated => Handle(obj)

NoConflicts(n) == Pending(n) \/ ~Pending(n)  \* variant: writes never conflict

\* The resourceVersion the cache holds for n is the API server's.
Current(n) == ~Pending(n)

\* The API server's object in n becomes obj, and the informer will hear of it.
Put(n, obj) ==
    /\ Len(watch) < MaxLag
    /\ api' = [api EXCEPT ![n] = obj]
    /\ watch' = Append(watch, [ns |-> n, obj |-> obj])

TouchNothing(n) == wk' = wk   \* variant: the late write names no resourceVersion

\* The worker hears nothing of a write to its source but a conflict.
Touch(n) == wk' = IF wk.key = n THEN [wk EXCEPT !.fresh = FALSE] ELSE wk

\* The drift watch sends every managed copy's event to its origin, before and
\* after the update.
NoDriftWatch(obj) == {}           \* variant: copies are not mapped back

MapCopyToSourceOfAny(obj) ==      \* variant: an object without origin gives ""
    IF obj = None THEN {}
    ELSE IF IsManagedCopy(Keys, obj) THEN CopyOrigin(Keys, obj) ELSE {None}

MapCopyToSource(obj) == IF obj = None THEN {} ELSE CopyOrigin(Keys, obj)

EventKeys(n, old, new) ==
    LET last == IF new = None THEN old ELSE new IN
    IF last = None THEN {}
    ELSE SourceKeys(n, last) \cup
         IF IsManagedCopy(Keys, last)
         THEN MapCopyToSource(old) \cup MapCopyToSource(new)
         ELSE {}

\* Every cached object as an event: a start or a periodic resync.
ResyncKeys(objs) == UNION {EventKeys(n, objs[n], objs[n]) : n \in Namespace}

\* The sources the field index holds, re-driven when a namespace changes.
SourceRequests ==
    {n \in Namespace : cache[n] # None /\ IsSource(Keys, cache[n])}

Deliver ==
    /\ watch # <<>>
    /\ LET e == Head(watch) IN
       /\ cache' = [cache EXCEPT ![e.ns] = e.obj]
       /\ queue' = queue \cup EventKeys(e.ns, cache[e.ns], e.obj)
    /\ watch' = Tail(watch)
    /\ UNCHANGED <<api, namespaces, nsCache, wk, ops>>

NsDeliver(n) ==
    /\ nsCache[n] # namespaces[n]
    /\ nsCache' = [nsCache EXCEPT ![n] = namespaces[n]]
    /\ queue' = queue \cup SourceRequests
    /\ UNCHANGED <<api, cache, watch, namespaces, wk, ops>>

Resync ==
    /\ queue' = queue \cup ResyncKeys(cache)
    /\ UNCHANGED <<api, cache, watch, namespaces, nsCache, wk, ops>>

-----------------------------------------------------------------------------
(* reconcileSource, from the key to the first write or the first loop *)

Take(k) == wk = Idle /\ k \in queue

Targets(k, selector) ==
    {n \in Namespace \ (ExcludeNamespaces \cup {k}) : nsCache[n] \in selector}

\* Gone, not a source, already released, or a selector that does not parse.
Ignore(k) ==
    /\ Take(k)
    /\ \/ cache[k] = None
       \/ /\ cache[k] # None
          /\ ~NeedsCleanup(cache[k])
          /\ ~NeedsFinalizer(cache[k])
          /\ Ready(cache[k]) => SyncValue(Keys, cache[k]) = Invalid
    /\ queue' = queue \ {k}
    /\ UNCHANGED <<api, cache, watch, namespaces, nsCache, wk, ops>>

\* NotFound ends the reconcile quietly; a conflict or a denial requeues the key.
AddFinalizer(k) ==
    /\ Take(k)
    /\ cache[k] # None /\ NeedsFinalizer(cache[k])
    /\ \/ /\ Current(k) /\ Admitted(k, cache[k])
          /\ Put(k, ReconcileFinalizer(Keys, cache[k]))
          /\ queue' = queue \ {k}
       \/ /\ api[k] = None
          /\ queue' = queue \ {k}
          /\ UNCHANGED <<api, watch>>
       \/ /\ api[k] # None
          /\ ~(Current(k) /\ Admitted(k, cache[k]))
          /\ UNCHANGED <<api, watch, queue>>
    /\ UNCHANGED <<cache, namespaces, nsCache, wk, ops>>

StartFanOut(k) ==
    /\ Take(k)
    /\ cache[k] # None /\ Ready(cache[k])
    /\ LET selector == SyncValue(Keys, cache[k]) IN
       /\ selector # Invalid
       /\ wk' = [pc |-> "upsert", key |-> k, src |-> cache[k],
                 release |-> FALSE, fresh |-> FALSE,
                 keep |-> Targets(k, selector), todo |-> Targets(k, selector),
                 domains |-> Each(Keys), seen |-> {}]
    /\ queue' = queue \ {k}
    /\ UNCHANGED <<api, cache, watch, namespaces, nsCache, ops>>

StartCleanupPrimaryOnly(k) ==     \* variant: lists under the primary domain only
    /\ Take(k)
    /\ cache[k] # None /\ NeedsCleanup(cache[k])
    /\ wk' = [pc |-> "sweep", key |-> k, src |-> cache[k], release |-> TRUE,
              fresh |-> Current(k), keep |-> {}, todo |-> {},
              domains |-> <<Keys.primary>>, seen |-> {}]
    /\ queue' = queue \ {k}
    /\ UNCHANGED <<api, cache, watch, namespaces, nsCache, ops>>

StartCleanup(k) ==
    /\ Take(k)
    /\ cache[k] # None /\ NeedsCleanup(cache[k])
    /\ wk' = [pc |-> "sweep", key |-> k, src |-> cache[k], release |-> TRUE,
              fresh |-> Current(k), keep |-> {}, todo |-> {},
              domains |-> Each(Keys), seen |-> {}]
    /\ queue' = queue \ {k}
    /\ UNCHANGED <<api, cache, watch, namespaces, nsCache, ops>>

-----------------------------------------------------------------------------
(* upsertCopy, for one target *)

\* The reconcile ends and its key waits again: an error, or a crash.
Fail ==
    /\ wk' = Idle
    /\ queue' = queue \cup {wk.key}

Visited(n) == [wk EXCEPT !.todo = @ \ {n}]

AtUpsert(n) == wk.pc = "upsert" /\ n \in wk.todo

Desired(dst) == Mirror(Keys, wk.key, wk.src, dst, None)

Fresh == Desired(EmptyObject(wk.src.data))

Accepts(n) == namespaces[n] \in Team /\ n \notin Refusing

\* An object that is already there when the Create lands is taken for success.
CreateCopy(n) ==
    /\ AtUpsert(n)
    /\ cache[n] = None
    /\ \/ /\ Accepts(n) /\ api[n] = None
          /\ Put(n, Fresh)
          /\ wk' = Visited(n)
          /\ UNCHANGED queue
       \/ /\ Accepts(n) /\ api[n] # None
          /\ wk' = Visited(n)
          /\ UNCHANGED <<api, watch, queue>>
       \/ /\ ~Accepts(n)
          /\ Fail
          /\ UNCHANGED <<api, watch>>
    /\ UNCHANGED <<cache, namespaces, nsCache, ops>>

AnyonesCopy(obj) == IsManagedCopy(Keys, obj)   \* variant: any copy is mine

Mine(obj) == OwnsCopy(Keys, obj, wk.key, None)

\* What upsertCopy writes over: its own copies that differ, and adoptable ones.
Writes(obj) ==
    IF IsManagedCopy(Keys, obj)
    THEN Mine(obj) /\ ~ContentEqual(obj, Desired(obj))
    ELSE IsAdoptable(obj)

LeaveAlone(n) ==
    /\ AtUpsert(n)
    /\ cache[n] # None /\ ~Writes(cache[n])
    /\ wk' = Visited(n)
    /\ UNCHANGED <<api, cache, watch, namespaces, nsCache, queue, ops>>

UpdateByRecreating(n) ==          \* variant: deletes what it will create again
    /\ AtUpsert(n)
    /\ cache[n] # None /\ Writes(cache[n]) /\ Current(n)
    /\ Put(n, None)
    /\ UNCHANGED <<cache, namespaces, nsCache, queue, wk, ops>>

UpdateCopy(n) ==
    /\ AtUpsert(n)
    /\ cache[n] # None /\ Writes(cache[n])
    /\ \/ /\ Current(n) /\ n \notin Refusing
          /\ Put(n, Desired(cache[n]))
          /\ wk' = Visited(n)
          /\ UNCHANGED queue
       \/ /\ ~Current(n) \/ n \in Refusing
          /\ Fail
          /\ UNCHANGED <<api, watch>>
    /\ UNCHANGED <<cache, namespaces, nsCache, ops>>

-----------------------------------------------------------------------------
(* deleteCopies and the end of the reconcile *)

LoopDone == wk # Idle /\ wk.todo = {}

\* With ListLag, as in the code, the list is whatever the cache holds.
CanList == wk.release => ListLag \/ watch = <<>>

\* One list query; a namespace an earlier query returned is skipped.
ListCopies ==
    /\ LoopDone /\ wk.domains # <<>> /\ CanList
    /\ LET listed == {n \in Namespace :
                        /\ cache[n] # None
                        /\ MatchesOrigin(cache[n], Head(wk.domains), wk.key)}
       IN  wk' = [wk EXCEPT !.pc = "sweep",
                            !.todo = listed \ (wk.seen \cup wk.keep),
                            !.seen = @ \cup listed,
                            !.domains = Tail(@)]
    /\ UNCHANGED <<api, cache, watch, namespaces, nsCache, queue, ops>>

DeleteCopyQuietly(n) ==           \* variant: a delete that fails is passed over
    /\ wk.pc = "sweep" /\ n \in wk.todo
    /\ \/ UNCHANGED <<api, watch>>
       \/ api[n] # None /\ Put(n, Deleted(api[n]))
    /\ wk' = [Visited(n) EXCEPT !.fresh = @ /\ n # wk.key]
    /\ UNCHANGED <<cache, namespaces, nsCache, queue, ops>>

\* Deletes by name whatever is there now.
DeleteCopy(n) ==
    /\ wk.pc = "sweep" /\ n \in wk.todo
    /\ IF api[n] = None \/ Deleted(api[n]) = api[n]
       THEN UNCHANGED <<api, watch>>
       ELSE Put(n, Deleted(api[n]))
    /\ wk' = [Visited(n) EXCEPT !.fresh = @ /\ n # wk.key]
    /\ UNCHANGED <<cache, namespaces, nsCache, queue, ops>>

FinishPrune ==
    /\ LoopDone /\ wk.domains = <<>> /\ ~wk.release
    /\ wk' = Idle
    /\ UNCHANGED <<api, cache, watch, namespaces, nsCache, queue, ops>>

ReleaseFinalizerEarly ==          \* variant: does not wait for the sweep
    /\ LoopDone /\ wk.release
    /\ \/ /\ wk.fresh
          /\ Put(wk.key, Released(RemoveAllFinalizers(Keys, wk.src)))
          /\ wk' = Idle
          /\ UNCHANGED queue
       \/ /\ ~wk.fresh
          /\ Fail
          /\ UNCHANGED <<api, watch>>
    /\ UNCHANGED <<cache, namespaces, nsCache, ops>>

\* The late write of the source: NotFound is ignored, a conflict or a denial
\* requeues.
ReleaseFinalizer ==
    /\ LoopDone /\ wk.domains = <<>> /\ wk.release
    /\ \/ /\ wk.fresh /\ Admitted(wk.key, wk.src)
          /\ Put(wk.key, Released(RemoveAllFinalizers(Keys, wk.src)))
          /\ wk' = Idle
          /\ UNCHANGED queue
       \/ /\ api[wk.key] = None
          /\ wk' = Idle
          /\ UNCHANGED <<api, watch, queue>>
       \/ /\ api[wk.key] # None
          /\ ~(wk.fresh /\ Admitted(wk.key, wk.src))
          /\ Fail
          /\ UNCHANGED <<api, watch>>
    /\ UNCHANGED <<cache, namespaces, nsCache, ops>>

-----------------------------------------------------------------------------
(* Failures *)

May(op) == op \in EnvOps /\ ops > 0 /\ ops' = ops - 1

\* Any API call of a running reconcile may fail.
ApiError ==
    /\ May("ApiError")
    /\ wk # Idle /\ Fail
    /\ UNCHANGED <<api, cache, watch, namespaces, nsCache>>

\* A new process lists everything and starts over.
Relist ==
    /\ cache' = api /\ watch' = <<>> /\ nsCache' = namespaces
    /\ wk' = Idle
    /\ queue' = ResyncKeys(api)
    /\ UNCHANGED <<api, namespaces>>

\* The process dies and is replaced.
Restart == May("Restart") /\ Relist

-----------------------------------------------------------------------------
(* Users and the namespace controller *)

EnvPut(n, obj) ==
    /\ Put(n, obj) /\ Touch(n)
    /\ UNCHANGED <<cache, nsCache, queue>>

Apply(n, obj) == Admitted(n, obj) /\ EnvPut(n, obj)

UserCreate(n) ==
    /\ May("Create")
    /\ api[n] = None /\ namespaces[n] \in Team
    /\ \E obj \in UserObject : Apply(n, obj)
    /\ UNCHANGED namespaces

\* Annotating a copy makes it a source in its own right ("Chain"); a domain may
\* be used before the controller honours it ("Ahead").
UserAnnotate(n) ==
    /\ May("Annotate")
    /\ api[n] # None
    /\ IsManagedCopy(Keys, api[n]) => "Chain" \in EnvOps
    /\ \E d \in Domain, value \in Selector \cup {None} :
          /\ d \in Honoured(Keys) \/ "Ahead" \in EnvOps
          /\ api[n].sync[d] # value
          /\ Apply(n, [api[n] EXCEPT !.sync[d] = value])
    /\ UNCHANGED namespaces

UserEdit(n) ==
    /\ May("Edit")
    /\ api[n] # None
    /\ \E value \in Data \ {api[n].data} :
          Apply(n, [api[n] EXCEPT !.data = value])
    /\ UNCHANGED namespaces

UserDelete(n) ==
    /\ May("Delete")
    /\ api[n] # None /\ ~api[n].del
    /\ EnvPut(n, Deleted(api[n]))
    /\ UNCHANGED namespaces

NsChange(n, state) ==
    /\ namespaces' = [namespaces EXCEPT ![n] = state]
    /\ UNCHANGED <<api, cache, watch, nsCache, queue, wk>>

NsRelabel(n) ==
    /\ May("Relabel")
    /\ namespaces[n] \in Team
    /\ \E team \in Team \ {namespaces[n]} : NsChange(n, team)

NsDelete(n) ==
    /\ May("NsDelete")
    /\ namespaces[n] \in Team
    /\ NsChange(n, "terminating")

NsCreate(n) ==
    /\ May("NsCreate")
    /\ namespaces[n] = "absent"
    /\ \E team \in Team : NsChange(n, team)

\* The namespace controller empties a terminating namespace and removes it.
NsCollect(n) ==
    /\ namespaces[n] = "terminating"
    /\ api[n] # None /\ ~api[n].del
    /\ EnvPut(n, Deleted(api[n]))
    /\ UNCHANGED <<namespaces, ops>>

NsGone(n) ==
    /\ namespaces[n] = "terminating" /\ api[n] = None
    /\ NsChange(n, "absent")
    /\ UNCHANGED ops

-----------------------------------------------------------------------------

Init ==
    /\ api \in InitialApi
    /\ cache = api
    /\ watch = <<>>
    /\ namespaces = InitialNamespaces
    /\ nsCache = InitialNamespaces
    /\ queue = ResyncKeys(api)
    /\ wk = Idle
    /\ ops = MaxOps

Begin(k) == Ignore(k) \/ AddFinalizer(k) \/ StartFanOut(k) \/ StartCleanup(k)

Proceed ==
    \/ \E n \in Namespace :
          CreateCopy(n) \/ LeaveAlone(n) \/ UpdateCopy(n) \/ DeleteCopy(n)
    \/ ListCopies \/ FinishPrune \/ ReleaseFinalizer

Informers == Deliver \/ Resync \/ \E n \in Namespace : NsDeliver(n)

Environment ==
    \/ ApiError \/ Restart
    \/ \E n \in Namespace :
          \/ UserCreate(n) \/ UserAnnotate(n) \/ UserEdit(n) \/ UserDelete(n)
          \/ NsRelabel(n) \/ NsDelete(n) \/ NsCreate(n)
          \/ NsCollect(n) \/ NsGone(n)

Next ==
    \/ \E k \in Namespace : Begin(k)
    \/ Proceed
    \/ Informers
    \/ Environment

Spec == Init /\ [][Next]_vars
=============================================================================
