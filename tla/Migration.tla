----------------------------- MODULE Migration -----------------------------
(***************************************************************************)
(* A migration from one annotation domain to the next, over three releases *)
(* of the controller: pinned to the previous domain, with the new domain   *)
(* as primary and the previous one still honoured, and with the previous   *)
(* one dropped.  Each release is a process of its own that starts from     *)
(* what the API server holds; a Syncer instance says what it does.  The    *)
(* operator decides when to drop by the DomainCounter's gauge              *)
(* (internal/controller/domain_counter.go) and, if they follow the README, *)
(* by a look at the sources.                                               *)
(***************************************************************************)
EXTENDS KeySet, FiniteSets

CONSTANTS
    Previous, Primary,   \* the two domains
    ChecksSources,       \* the operator looks for sources of the old prefix too
    ExcludeNamespaces, Refusing, Gated, ListLag, MaxLag, MaxOps, EnvOps,
    UserObject, InitialApi, InitialNamespaces   \* as in Syncer

VARIABLES
    api, cache, watch, namespaces, nsCache, queue, wk, ops,   \* as in Syncer
    release,   \* "pinned", "both" or "dropped"
    gauge      \* replikate_copies_by_domain for Previous, as last read; None:
               \* no series

syncer == <<api, cache, watch, namespaces, nsCache, queue, wk, ops>>

vars == <<api, cache, watch, namespaces, nsCache, queue, wk, ops, release, gauge>>

\* Each release's --annotation-domain and --previous-annotation-domain.
PinnedKeys == NewKeySet(Previous, <<None>>)

BothKeys == NewKeySet(Primary, <<Previous>>)

DroppedKeys == NewKeySet(Primary, <<None>>)

\* The Syncer, and what is proved of it for any key set.
Pinned == INSTANCE SyncerRefinement WITH Keys <- PinnedKeys

Both == INSTANCE SyncerRefinement WITH Keys <- BothKeys

Dropped == INSTANCE SyncerRefinement WITH Keys <- DroppedKeys

ASSUME MigrationAssumption ==
    /\ Previous \in Domain /\ Primary \in Domain /\ Previous # Primary
    /\ ChecksSources \in BOOLEAN
    /\ Both!SyncerAssumption
    /\ IsFiniteSet(Namespace) /\ None \notin Nat

-----------------------------------------------------------------------------

CountOfPrimary ==    \* variant: every series is counted by the primary's label
    /\ release = "both"
    /\ gauge' = Cardinality({n \in Namespace :
                   cache[n] # None /\ cache[n].stamp[Primary] # None})
    /\ UNCHANGED <<syncer, release>>

CountByAdding ==     \* variant: Add in place of Set
    /\ release = "both"
    /\ gauge' = (IF gauge = None THEN 0 ELSE gauge) + Cardinality({n \in Namespace :
                   cache[n] # None /\ cache[n].stamp[Previous] # None})
    /\ UNCHANGED <<syncer, release>>

\* DomainCounter.count: the copies the cache holds under the domain.
Count ==
    /\ release = "both"
    /\ gauge' = Cardinality({n \in Namespace :
                   cache[n] # None /\ cache[n].stamp[Previous] # None})
    /\ UNCHANGED <<syncer, release>>

\* The new image is rolled out.
Upgrade ==
    /\ release = "pinned"
    /\ Both!Relist
    /\ release' = "both"
    /\ UNCHANGED <<gauge, ops>>

\* "Only once both the copies and every source are off the old prefix", or
\* "once both counts are 0", may it be dropped.
OffTheOldPrefix ==
    \A n \in Namespace : api[n] # None => api[n].sync[Previous] = None

Drop ==
    /\ release = "both"
    /\ gauge = 0
    /\ ChecksSources => OffTheOldPrefix
    /\ Dropped!Relist
    /\ release' = "dropped" /\ gauge' = None
    /\ UNCHANGED ops

Init == Pinned!Init /\ release = "pinned" /\ gauge = None

Run ==
    /\ \/ release = "pinned" /\ Pinned!Next
       \/ release = "both" /\ Both!Next
       \/ release = "dropped" /\ Dropped!Next
    /\ UNCHANGED <<release, gauge>>

Next == Run \/ Count \/ Upgrade \/ Drop

Spec == Init /\ [][Next]_vars

-----------------------------------------------------------------------------
(* Properties *)

TypeOK ==
    /\ Both!TypeOK
    /\ release \in {"pinned", "both", "dropped"}
    /\ gauge \in 0..Cardinality(Namespace) \cup {None}

\* What users may count on: the domains announced so far; a prefix that is
\* about to go is still theirs.
KS == IF release = "pinned" THEN PinnedKeys ELSE BothKeys

CopyOf(n, s) == api[n] # None /\ ~api[n].del /\ s \in CopyOrigin(KS, api[n])

Selects(s, n) ==
    /\ api[s] # None /\ ~api[s].del /\ IsSource(KS, api[s])
    /\ SyncValue(KS, api[s]) # Invalid
    /\ n \notin ExcludeNamespaces /\ namespaces[n] \in SyncValue(KS, api[s])

\* "In-place relabel only, never delete-then-recreate: these are live secrets":
\* through every release and both roll-outs, a reconcile of a source as it now
\* stands takes no copy from a living source that selects the namespace.
CopiesSurvive ==
    [][\A n, s \in Namespace :
         /\ ops' = ops /\ wk # Both!Idle /\ wk.src = api[wk.key]
         /\ CopyOf(n, s) /\ Selects(s, n)
         => CopyOf(n, s)']_vars

\* "Only once both counts are 0 is it safe": whatever the cache had seen when
\* the gauge was read, and whatever was written or lost between that reading and
\* the roll-out, no object is left that only the dropped prefix marks: no copy
\* that nobody would update or prune, no source that nobody would recognise.
OldPrefixUnused ==
    release = "dropped" =>
      \A n \in Namespace : api[n] # None =>
         api[n].stamp[Previous] = None /\ api[n].sync[Previous] = None

\* The controller has nothing left to do.
Converged == queue = {} /\ wk = Both!Idle /\ watch = <<>>

\* reconcileFinalizer "migrates sources onto the new finalizer": once the
\* release that honours both domains has nothing left to do, whatever failed or
\* crashed on the way, no object holds a finalizer of the old prefix, and it is
\* from then on that dropping the prefix leaves none behind.
FinalizersMove ==
    release = "both" /\ Converged =>
      \A n \in Namespace : api[n] # None => Previous \notin api[n].fin

\* "Only once both counts are 0 is it safe" (the design note): no object keeps a
\* finalizer that no controller will ever release.
NoFinalizerLeft ==
    release = "dropped" =>
      \A n \in Namespace : api[n] # None => Previous \notin api[n].fin

\* applyCopyMeta strips the sync annotation "under every domain (a copy must
\* never itself be a source)": no copy becomes one when the domains change.
CopiesAreNotSources ==
    \A n \in Namespace :
       api[n] # None /\ IsManagedCopy(KS, api[n]) => ~IsSource(KS, api[n])
=============================================================================
