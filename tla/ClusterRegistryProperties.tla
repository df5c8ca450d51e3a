---------------------- MODULE ClusterRegistryProperties ----------------------
(***************************************************************************)
(* What the spoke registry is meant to guarantee, and the fairness under   *)
(* which it gets there.                                                    *)
(***************************************************************************)
EXTENDS ClusterRegistry

\* A credential "that resolves to the hub's own cluster" is "never briefly
\* live in the registry": a source controller would take its own local copies
\* for remote ones and delete them.  Neither the registry nor a client that a
\* walk still holds ever leads to the hub, however often the Secret changes
\* between the Get, the checks and the Store.
NeverSelf ==
    HubKnown =>
      /\ \A id \in Id : registry[id] # Self
      /\ \A kind \in Kind : walk[kind].client # Self

\* The worker is between two calls that belong together: the map holds id and
\* the gauge is not set yet, or the map has lost it and the series is still there.
Halfway(pc, id) == wk.pc = pc /\ wk.id = id

\* "Whether a registered spoke cluster is currently reachable (1) or not (0),
\* labeled by cluster id."  Map and gauge are changed by separate calls, so a
\* scrape may see them differ, but only for the id whose reconcile is between
\* those calls: an id shown up is registered or just being removed, a registered
\* one has a series or is just being stored.  No path of a reconcile, and no
\* crash between the calls, leaves a difference behind.
GaugeIsHonest ==
    \A id \in Id :
      /\ gauge[id] = 1 => registry[id] # None \/ Halfway("clear", id)
      /\ registry[id] # None => gauge[id] # None \/ Halfway("up", id)

\* What a credential's Secret asks for.
Wanted(secret) ==
    IF IsCredential(secret) /\ secret.kubeconfig # Malformed
    THEN secret.kubeconfig ELSE None

Acceptable(c) == HubKnown => c \in readable /\ c # Self

\* In the end the registry says what the labelled Secrets say of every cluster
\* that answers: a good credential is registered and up, a bad one is not, a
\* replaced one leads to the new cluster, through failed checks, restarts and
\* notifications.  A cluster that does not answer is shown down.
RegistryFollows ==
    <>[](\A id \in Id :
           LET c == Wanted(secrets[id]) IN
           IF secrets[id] # None /\ ~secrets[id].label THEN TRUE
           ELSE IF c = None THEN registry[id] = None /\ gauge[id] = None
           ELSE IF c \notin reachable THEN gauge[id] # 1
           ELSE IF Acceptable(c) THEN registry[id] = c /\ gauge[id] = 1
           ELSE registry[id] = None)

\* "A spoke that registers later re-drives this source via the credential
\* reconciler's notification": every source comes to be written through the
\* client that is registered now, though announcements are dropped when a
\* channel is full and a walk may hold a client that has been replaced.
SourcesReachSpokes ==
    <>[](\A kind \in Kind, id \in Id :
           registry[id] \in reachable => reached[kind][id] = registry[id])

\* "A labeled Secret registers a spoke cluster, its removal deregisters it":
\* what is not, or no longer, a labelled Secret does not stay registered.
OnlyCredentialsStay ==
    <>[](\A id \in Id : registry[id] # None => IsCredential(secrets[id]))

\* The workqueue serves every credential that waits and every interval ends;
\* informers, checks and source controllers do not stop half-way.
Fairness ==
    /\ \A id \in Id : SF_vars(Begin(id)) /\ WF_vars(Deliver(id)) /\ WF_vars(Wake(id))
    /\ WF_vars(Proceed)
    /\ \A kind \in Kind : WF_vars(Receive(kind)) /\ WF_vars(Walk(kind))
    /\ \A kind \in Kind, src \in Id : SF_vars(StartWalk(kind, src))

FairSpec == Spec /\ Fairness

\* The recheck interval is long: when it ends, the source controllers have
\* emptied their channels.
Drained == \A kind \in Kind : channel[kind] = <<>>

PatientNext == Next /\ \A id \in Id : Wake(id) => Drained

PatientSpec == Init /\ [][PatientNext]_vars /\ Fairness
=============================================================================
