----------------------- MODULE CrossClusterProperties -----------------------
(***************************************************************************)
(* What replication into other clusters is meant to guarantee, and the     *)
(* fairness under which it gets there.                                     *)
(***************************************************************************)
EXTENDS CrossCluster

CONSTANT ExcludeNamespaces   \* namespaces that never receive copies

(* Safety *)

\* Every hub could read its own identity, and no two share one.
Identified ==
    /\ \A h \in Hub : HubClusterUID[h] # None
    /\ \A g, h \in Hub : HubClusterUID[g] = HubClusterUID[h] => g = h

Armed(h, k) == sources[h][k] # None /\ HasFinalizer(Keys, sources[h][k].obj)

\* The object in namespace n of spoke sp is stamped as the copy of hub h's
\* source in namespace k.
StampedBy(obj, h, k) ==
    /\ obj # None
    /\ OriginCluster(Keys, obj) = HubClusterUID[h]
    /\ k \in CopyOrigin(Keys, obj)

\* What the worker holds between two calls: it walks for a source it saw ready
\* and that is still armed, and means to write only what upsertCopy may write.
WalkOK ==
    \A h \in Hub : wk[h] # Idle =>
      /\ ~wk[h].release => Armed(h, wk[h].key) /\ ~wk[h].fresh
      /\ wk[h].fresh => sources[h][wk[h].key] = wk[h].src
      /\ wk[h].pc = "write" =>
           /\ ~wk[h].release /\ wk[h].at # None /\ wk[h].ns # None
           /\ wk[h].read = None \/ Writes(h, wk[h].read)

\* Steps of the worker of h are the ones that move it and write to a spoke.
Moves(h) == wk'[h] # wk[h]

\* Two hubs "no longer delete or overwrite each other's copies": a hub that
\* knows who it is rewrites nothing in a spoke but its own source's copies,
\* those that nobody has stamped, and adoptable objects, whatever the other
\* hubs and users did between its Get and its Update.
NoClobber ==
    [][\A h \in Hub, sp \in Spoke, n \in Namespace :
         LET before == remote[sp][n]
             after  == remote'[sp][n]
         IN  /\ HubClusterUID[h] # None /\ Moves(h)
             /\ before # None /\ after # None /\ after # before
             => IF IsManagedCopy(Keys, before)
                THEN /\ OriginCluster(Keys, before) \in {None, HubClusterUID[h]}
                     /\ CopyOrigin(Keys, before) = CopyOrigin(Keys, after)
                ELSE IsAdoptable(before)]_vars

\* The other half: a hub deletes no copy that another hub has stamped.
NoForeignPrune ==
    [][\A h \in Hub, sp \in Spoke, n \in Namespace :
         /\ Moves(h)
         /\ remote[sp][n] # None /\ remote'[sp][n] = None
         => OriginCluster(Keys, remote[sp][n]) \in {None, HubClusterUID[h]}]_vars

\* A copy stamped by a hub has a source there that still holds the finalizer.
NoRemoteOrphans ==
    \A h \in Hub, k \in Namespace, sp \in Spoke, n \in Namespace :
       StampedBy(remote[sp][n], h, k) => Armed(h, k)

StaysRegistered == \A h \in Hub : registry[h] = Spoke

\* While every spoke answers and is registered, a cleanup visits them all, the
\* ones the source has ceased to name included, and leaves nothing behind.
ReachableSpokesAreSwept ==
    [](StaysRegistered /\ up = Spoke) => []NoRemoteOrphans

\* "Listed namespaces never receive copies" (--exclude-namespaces), and the
\* exclusions "apply per cluster": no copy that a hub made is in one of them.
ExclusionsApplyToSpokes ==
    \A h \in Hub, k \in Namespace, sp \in Spoke, n \in ExcludeNamespaces :
       ~ StampedBy(remote[sp][n], h, k)

\* deleteRemoteCopies: a spoke that cannot be reached keeps its copies, "left
\* for the next reconcile once the spoke returns", so on a spoke that is back
\* and registered a copy whose source is gone does not stay.
RemoteOrphansAreCollected ==
    <>[](\A h \in Hub, k \in Namespace, sp \in Spoke, n \in Namespace :
           sp \in up \cap registry[h] =>
             (StampedBy(remote[sp][n], h, k) => Armed(h, k)))

-----------------------------------------------------------------------------
(* Refinement *)

\* The sources, with their hubs, that obj is stamped as the copy of.
Owners(obj) ==
    {h \in Hub : HubClusterUID[h] = OriginCluster(Keys, obj)}
      \X CopyOrigin(Keys, obj)

Holder(obj) ==
    IF obj = None THEN <<"free">>
    ELSE IF IsManagedCopy(Keys, obj)
         THEN LET owners == Owners(obj) IN
              IF owners # {} THEN <<"copy", CHOOSE owner \in owners : TRUE>>
              ELSE IF /\ OriginCluster(Keys, obj) = None
                      /\ CopyOrigin(Keys, obj) # {}
                   THEN <<"adoptable">>
              ELSE <<"foreign">>
    ELSE IF IsAdoptable(obj) THEN <<"adoptable">>
    ELSE <<"foreign">>

\* A spoke's namespaces are places like the hub's own.  A copy that nobody
\* stamped may be taken over; one that a hub stamped never changes hands.
Ownership == INSTANCE CopyOwnership WITH
    Owner <- Hub \X Namespace,
    Place <- Spoke \X Namespace,
    SweepComplete <- EnvOps \cap {"SpokeDown", "Restart", "Credential"} = {},
    slot <- [p \in Spoke \X Namespace |-> Holder(remote[p[1]][p[2]])],
    armed <- {owner \in Hub \X Namespace : Armed(owner[1], owner[2])}

\* Hubs that know who they are (Identified) share spokes the way CopyOwnership
\* says; with complete sweeps as long as every spoke stays reachable and registered.
ImplementsOwnership == Ownership!Spec

-----------------------------------------------------------------------------
(* Liveness *)

Walks(h, k) ==
    LET src == sources[h][k] IN
    /\ src # None /\ Ready(src.obj) /\ SyncValue(Keys, src.obj) # Invalid
    /\ HasTargets(src)

\* Hub h has nothing left to write over obj for its source k.
Settled(h, k, obj) ==
    /\ obj # None
    /\ IF OwnsCopy(Keys, obj, k, HubClusterUID[h])
       THEN ContentEqual(obj, Mirror(Keys, k, sources[h][k].obj, obj,
                                     HubClusterUID[h]))
       ELSE IsManagedCopy(Keys, obj) \/ ~IsAdoptable(obj)

Served(h, k, sp) ==
    \A n \in Namespace :
       IF n \in DestNamespaces(k, sources[h][k], sp)
       THEN <<sp, n>> \in Refusing \/ Settled(h, k, remote[sp][n])
       ELSE ~ StampedBy(remote[sp][n], h, k)

InStep(sp) ==
    \A h \in Hub, k \in Namespace :
       /\ Walks(h, k) /\ k \notin stuck[h]
       /\ sp \in up \cap creds[h]
       => Served(h, k, sp)

\* The FIFO workqueue serves every key that waits and a reconcile goes on.
Fairness ==
    /\ \A h \in Hub : WF_vars(Proceed(h))
    /\ \A h \in Hub, k \in Namespace : SF_vars(Begin(h, k))

\* Sources are resynced, and credentials reconciled at their recheck interval.
Periodic ==
    /\ \A h \in Hub : WF_vars(Resync(h))
    /\ \A h \in Hub, sp \in Spoke : WF_vars(CredentialReconcile(h, sp))

\* Once the environment is quiet, every spoke that answers and has a credential
\* has exactly the copies wanted of it by every source whose local part succeeds,
\* though other spokes be down for good and other namespaces refuse theirs.  The
\* local part has to succeed: reconcileSource returns its errors before it
\* reaches reconcileRemote.  A spoke that comes back without being named any
\* more is not pruned before the next resync.
RemoteConverges == Periodic => <>[](\A sp \in Spoke : InStep(sp))

\* No place that a source wants holds another source's copy: a hub does not watch
\* its spokes, so it would not see that copy go.
Unrivalled ==
    \A g, h \in Hub, j, k \in Namespace, sp \in Spoke :
       /\ Walks(h, k) /\ <<g, j>> # <<h, k>>
       => \A n \in DestNamespaces(k, sources[h][k], sp) :
             ~ StampedBy(remote[sp][n], g, j)

\* In a spoke where nobody else writes the requeues do by themselves, while no hub
\* loses its clients and no two sources want one place: after a walk that recorded
\* a failure (remoteRetryInterval), as after a local part that failed, neither a
\* resync nor a credential's recheck has to re-drive the source.
RetriesSuffice ==
    [](StaysRegistered /\ Unrivalled) => <>[](\A sp \in Spoke \ Shared : InStep(sp))

RetriesSpec == Spec /\ Fairness

ResyncSpec == Spec /\ Fairness /\ Periodic
=============================================================================
