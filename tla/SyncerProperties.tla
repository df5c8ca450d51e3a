-------------------------- MODULE SyncerProperties --------------------------
(***************************************************************************)
(* What Syncer is meant to guarantee, and the fairness under which it gets *)
(* there.                                                                  *)
(***************************************************************************)
EXTENDS Syncer

(* Safety *)

CopyOf(n, s) ==
    api[n] # None /\ ~api[n].del /\ s \in CopyOrigin(Keys, api[n])

Armed(s) == api[s] # None /\ HasFinalizer(Keys, api[s])

\* Every copy that is not itself being deleted has a source that still holds
\* the finalizer, so somebody is bound to remove it: the README's "source
\* deleted, or the annotation removed: copies are deleted (via a finalizer)".
NoOrphanedCopies == \A n, s \in Namespace : CopyOf(n, s) => Armed(s)

\* What holds the argument for the finalizer together.  The cache is the API
\* server's past: the last event under way for an object is its present.
Coherent ==
    /\ \A n \in Namespace : Current(n) => cache[n] = api[n]
    /\ \A i \in DOMAIN watch :
          (\A j \in DOMAIN watch : i < j => watch[j].ns # watch[i].ns) =>
            watch[i].obj = api[watch[i].ns]

\* A source that looks ready, however old the look, still holds a finalizer.
ReadyIsArmed ==
    /\ \A n \in Namespace : cache[n] # None /\ Ready(cache[n]) => Armed(n)
    /\ \A i \in DOMAIN watch :
          watch[i].obj # None /\ Ready(watch[i].obj) => Armed(watch[i].ns)

\* A fan-out runs for an armed source; a cleanup for one that is not ready,
\* and its copy of the source is marked fresh only while nobody else wrote.
WorkerOK ==
    wk # Idle =>
      /\ wk.pc = "upsert" => ~wk.release
      /\ ~wk.release => Armed(wk.key) /\ ~wk.fresh
      /\ wk.release => ~Ready(wk.src)
      /\ wk.fresh => Current(wk.key) /\ cache[wk.key] = wk.src

\* The inductive invariant behind CopiesOnlyUnderFinalizer and
\* FirstWriterWins: no stale read is mistaken for the present.
StaleReadsAreSafe == Coherent /\ ReadyIsArmed /\ WorkerOK

\* A source that reconcileSource has something left to do for besides fanning
\* out: its finalizer is missing or not the primary one, or has to go.
Unfinished(obj) == obj # None /\ (NeedsFinalizer(obj) \/ NeedsCleanup(obj))

Cleaning(n) == wk # Idle /\ wk.release /\ wk.key = n

\* No finalizer is forgotten: what the cache shows as unfinished waits in the
\* queue, is about to be seen anew, or is being cleaned up, through conflicts,
\* denials, errors and crashes. So an idle controller with an empty queue and a
\* level cache has armed and released every source.
NothingForgotten ==
    \A n \in Namespace :
       Unfinished(cache[n]) => n \in queue \/ Pending(n) \/ Cleaning(n)

Orphan(n, s) == CopyOf(n, s) /\ ~Armed(s)

\* "Deletes every copy owned by obj and then removes the Replikate finalizer"
\* (cleanupAndRemoveFinalizer), as far as the code keeps it: a copy loses its
\* source's finalizer only at the end of a cleanup that has listed under every
\* honoured domain and deleted whatever it listed, and only if no list of it, a
\* read of the cache, returned that copy. No conflict, crash, failed call, drift
\* event or later reconcile orphans one.
OnlyUnlistedAreOrphaned ==
    [][\A n, s \in Namespace :
         Orphan(n, s)' /\ ~Orphan(n, s) =>
           Cleaning(s) /\ wk.domains = <<>> /\ wk.todo = {} /\ n \notin wk.seen]_vars

\* Steps of the environment are the ones that spend its budget.
ControllerStep == ops' = ops

Appears(n) == api[n] = None /\ api'[n] # None

Rewritten(n) ==
    api[n] # None /\ api'[n] # None /\ ~ContentEqual(api[n], api'[n])

\* The controller creates or rewrites a copy only while its source holds a
\* finalizer at the API server, whatever the cache it decided from said:
\* reconcileSource arms the source before the first upsertCopy.
CopiesOnlyUnderFinalizer ==
    [][\A n \in Namespace :
         ControllerStep /\ (Appears(n) \/ Rewritten(n)) =>
           \E s \in CopyOrigin(Keys, api'[n]) : Armed(s)]_vars

\* The controller rewrites only its copies, without changing who owns them,
\* and adoptable objects.  A user's object, a competing source's copy and a
\* source that was edited after it was read all survive every race between
\* the cached read and the write (upsertCopy, reconcileSource's late writes).
FirstWriterWins ==
    [][\A n \in Namespace :
         ControllerStep /\ Rewritten(n) =>
           IF IsManagedCopy(Keys, api[n])
           THEN CopyOrigin(Keys, api[n]) = CopyOrigin(Keys, api'[n])
           ELSE IsAdoptable(api[n])]_vars

\* deleteCopies "removes managed copies of src": the controller deletes
\* nothing but managed copies (and a source it has just released).
DeletesOnlyCopies ==
    [][\A n \in Namespace :
         /\ wk.pc = "sweep" /\ n \in wk.todo
         /\ api[n] # None /\ api'[n] = None /\ ControllerStep
         /\ namespaces[n] \in Team
         => IsManagedCopy(Keys, api[n])]_vars

ApiTargets(s) ==
    {n \in Namespace \ (ExcludeNamespaces \cup {s}) :
        namespaces[n] \in SyncValue(Keys, api[s])}

Wanted(n, s) ==
    /\ api[s] # None /\ Ready(api[s]) /\ SyncValue(Keys, api[s]) # Invalid
    /\ n \in ApiTargets(s)

\* Migration relabels in place and never deletes to recreate (the design
\* note's "these are live secrets"): a reconcile of a source as it now stands
\* takes no copy from a living source that selects the namespace.
MigratesInPlace ==
    [][\A n, s \in Namespace :
         /\ ControllerStep /\ wk # Idle /\ wk.src = api[wk.key]
         /\ CopyOf(n, s) /\ Wanted(n, s)
         => CopyOf(n, s)']_vars

\* Where the selector webhook is binding (SelectorValidator.Handle, outside the
\* namespaces that the chart exempts) no source is ever frozen by a selector
\* that does not parse, whatever mix of domains it is annotated under and
\* whoever wrote it, the controller's own copies included.
NoFrozenSource ==
    \A n \in Gated :
       api[n] # None /\ IsSource(Keys, api[n]) => SyncValue(Keys, api[n]) # Invalid

\* A copy carries exactly one domain's managed-by label (domain_counter.go).
OneDomainPerCopy ==
    \A n \in Namespace : api[n] # None =>
       \A d, e \in Honoured(Keys) :
          api[n].stamp[d] # None /\ api[n].stamp[e] # None => d = e

\* "Source deleted, or the annotation removed: copies are deleted": a copy may
\* outlive its source for a while, but it does not stay.
OrphansAreCollected == <>[]NoOrphanedCopies

-----------------------------------------------------------------------------
(* Refinement *)

\* What an object is to the sources.
Held(obj) ==
    IF obj = None \/ (obj # None /\ obj.del) THEN <<"free">>
    ELSE IF CopyOrigin(Keys, obj) # {}
         THEN <<"copy", CHOOSE s \in Namespace : s \in CopyOrigin(Keys, obj)>>
    ELSE IF ~IsManagedCopy(Keys, obj) /\ IsAdoptable(obj) THEN <<"adoptable">>
    ELSE <<"foreign">>

Ownership == INSTANCE CopyOwnership WITH
    Owner <- Namespace,
    Place <- Namespace,
    SweepComplete <- ~ListLag,
    slot <- [n \in Namespace |-> Held(api[n])],
    armed <- {n \in Namespace : Armed(n)}

\* The controller and everything around it implement CopyOwnership; when a
\* cleanup lists a level cache, with complete sweeps.
ImplementsOwnership == Ownership!Spec

-----------------------------------------------------------------------------
(* Liveness *)

\* Source s has nothing left to write over obj.
Settled(s, obj) ==
    /\ obj # None
    /\ IF OwnsCopy(Keys, obj, s, None)
       THEN ContentEqual(obj, Mirror(Keys, s, api[s], obj, None))
       ELSE IsManagedCopy(Keys, obj) \/ ~IsAdoptable(obj)

InOrder(s) ==
    api[s] # None /\ Ready(api[s]) /\ SyncValue(Keys, api[s]) # Invalid

Served(s) == \A n \in ApiTargets(s) \ Refusing : Settled(s, api[n])

Pruned(s) ==
    \A n \in Namespace \ (ApiTargets(s) \cup {s}) : ~CopyOf(n, s)

\* Pruning comes after the loop that a refusing target ends.
InStep(s) ==
    /\ api[s] # None => ~NeedsFinalizer(api[s]) /\ ~NeedsCleanup(api[s])
    /\ InOrder(s) =>
          Served(s) /\ (ApiTargets(s) \cap Refusing = {} => Pruned(s))

\* Once the environment stops, every source ends up, for good, with an exact
\* copy in every namespace it selects that nobody else occupies and that does
\* not refuse it, with none anywhere else, and with the finalizer exactly as
\* long as it is a source.  A namespace that refuses its copy for good ends every
\* reconcile of the source early (reconcileSource's loop over its targets), but
\* the error requeues the key, and each retry ranges over the Go map of targets
\* in an order of its own, so the other targets are served all the same.
Converges == <>[](\A s \in Namespace : InStep(s))

\* "Remove copies from namespaces that are no longer targets" (syncer.go): what
\* a source in order no longer selects does not keep its copy.
DeselectedAreCollected ==
    <>[](\A n, s \in Namespace : InOrder(s) /\ CopyOf(n, s) => n \in ApiTargets(s))

\* cleanupAndRemoveFinalizer "removes the Replikate finalizer, allowing the
\* source's own deletion to proceed": no object waits for it for ever.
DeletionsProceed ==
    <>[](\A n \in Namespace :
           api[n] # None /\ api[n].del => ~HasFinalizer(Keys, api[n]))

\* "A spoke copy owned by a different source cluster is left alone" (the design
\* note on cross-cluster replication): the controller of a cluster that is
\* itself somebody's spoke does not rewrite the copies another cluster owns.
OtherClustersCopiesStay ==
    [][\A n \in Namespace :
         ControllerStep /\ Rewritten(n) /\ OriginCluster(Keys, api[n]) # None
         => OriginCluster(Keys, api'[n]) = OriginCluster(Keys, api[n])]_vars

\* The legacy list can be dropped "once traffic has converged" (keyset.go):
\* in the end no object is stamped under a legacy domain for a source that is
\* in order, so only leftovers of sources that are gone or do not parse remain.
LegacyRetired ==
    <>[](\A n, s \in Namespace : \A d \in LegacyDomains(Keys) :
           /\ api[n] # None /\ MatchesOrigin(api[n], d, s)
           /\ api[s] # None /\ Ready(api[s])
           => SyncValue(Keys, api[s]) = Invalid)

\* The FIFO workqueue serves every key that keeps waiting; the worker, the
\* informers and the namespace controller do not stop half-way.
Fairness ==
    /\ \A k \in Namespace : SF_vars(Begin(k))
    /\ WF_vars(Proceed)
    /\ WF_vars(Deliver)
    /\ \A n \in Namespace :
          WF_vars(NsDeliver(n)) /\ WF_vars(NsCollect(n)) /\ WF_vars(NsGone(n))

\* "for ns := range targets" starts anywhere: no target is always the last one.
RangesAnyhow ==
    \A n \in Namespace :
       SF_vars(CreateCopy(n) \/ LeaveAlone(n) \/ UpdateCopy(n))

RetriesSpec == Spec /\ Fairness /\ RangesAnyhow

ResyncSpec == Spec /\ Fairness /\ WF_vars(Resync)
=============================================================================
