--------------------------- MODULE ClusterRegistry ---------------------------
(***************************************************************************)
(* The spoke registry (internal/controller/registry.go), the credential    *)
(* controller that fills it (cluster_controller.go) and the source         *)
(* controllers that use it: they are told through bounded channels when a  *)
(* spoke registers, and hold on to a client while they walk the spokes.    *)
(*                                                                         *)
(* A cluster id is the name of a credential Secret.  A client is reduced   *)
(* to the cluster it talks to.                                             *)
(***************************************************************************)
EXTENDS Naturals, Sequences

CONSTANTS
    Id,              \* names of credential Secrets
    Cluster,         \* clusters a kubeconfig may lead to
    Self,            \* the hub's own cluster
    HubKnown,        \* HubClusterUID is not empty
    Kind,            \* the source controllers
    ChannelSize,     \* capacity of a ClusterReady channel
    MaxOps,          \* bound on what the environment does
    EnvOps,          \* the environment operations that are enabled
    Malformed,       \* a kubeconfig that does not parse, or is missing
    None,
    InitialSecrets   \* the Secrets a run may start from

ASSUME RegistryAssumption ==
    /\ Self \in Cluster
    /\ HubKnown \in BOOLEAN
    /\ ChannelSize \in Nat \ {0} /\ MaxOps \in Nat
    /\ Malformed \notin Cluster
    /\ None \notin Id \cup Cluster \cup {Malformed, 0, 1}

\* A Secret of the credential namespace: whether it carries the label, and
\* where its kubeconfig leads.
Secret == [label : BOOLEAN, kubeconfig : Cluster \cup {Malformed}]

ASSUME SecretAssumption ==
    /\ None \notin Secret
    /\ InitialSecrets \subseteq [Id -> Secret \cup {None}]

VARIABLES
    secrets,    \* the API server's Secrets
    seen,       \* the informer's
    registry,   \* the client of every registered id
    gauge,      \* replikate_cluster_up: 1, 0 or no series
    queue,      \* credentials waiting for the worker
    timed,      \* credentials that come back after the recheck interval
    wk,         \* the credential controller's worker
    channel,    \* ids announced to each source controller
    due,        \* the sources enqueued at each source controller
    walk,       \* the remote walk of each source controller's worker
    reached,    \* the cluster each source was last written to
    reachable,  \* clusters that answer
    readable,   \* clusters whose kube-system namespace may be read
    ops         \* what the environment may still do

hub == <<registry, gauge, queue, timed, wk, channel>>

walkers == <<due, walk, reached>>

world == <<secrets, seen, reachable, readable, ops>>

vars == <<secrets, seen, registry, gauge, queue, timed, wk, channel, due,
          walk, reached, reachable, readable, ops>>

Idle == [pc |-> "idle"]

\* The worker has a client to check, to identify or to store; has a gauge to
\* set; is announcing; or is taking an id out of the map and then its series
\* out of the gauge, with the intention to come back or not.
Working ==
    [pc : {"check", "vet", "store"}, id : Id, client : Cluster]
    \cup [pc : {"up", "down"}, id : Id]
    \cup [pc : {"announce"}, id : Id, untold : SUBSET Kind]
    \cup [pc : {"remove", "clear"}, id : Id, again : BOOLEAN]

\* Each controller has, for every id, one source that names it; a source goes
\* by the id it names.
Resting == [src |-> None, todo |-> {}, id |-> None, client |-> None,
            failed |-> FALSE]

\* A client is held exactly while one cluster is visited.
Walking ==
    {w \in [src : Id, todo : SUBSET Id, id : Id \cup {None},
            client : Cluster \cup {None}, failed : BOOLEAN] :
        w.id = None <=> w.client = None}

TypeOK ==
    /\ secrets \in [Id -> Secret \cup {None}]
    /\ seen \in [Id -> Secret \cup {None}]
    /\ registry \in [Id -> Cluster \cup {None}]
    /\ gauge \in [Id -> {0, 1, None}]
    /\ queue \subseteq Id /\ timed \subseteq Id
    /\ wk \in {Idle} \cup Working
    /\ channel \in [Kind -> Seq(Id)]
    /\ due \in [Kind -> SUBSET Id]
    /\ walk \in [Kind -> {Resting} \cup Walking]
    /\ reached \in [Kind -> [Id -> Cluster \cup {None}]]
    /\ reachable \subseteq Cluster
    /\ readable \subseteq Cluster
    /\ ops \in 0..MaxOps

-----------------------------------------------------------------------------
(* The registry, whose mutex guards one access at a time *)

IDs == {id \in Id : registry[id] # None}

-----------------------------------------------------------------------------
(* Reconcile of one credential *)

IsCredential(secret) == secret # None /\ secret.label

\* The informer shows the controller a Secret's change; the predicate looks at
\* the new object only, or at the last one when it is gone.
Deliver(id) ==
    /\ seen[id] # secrets[id]
    /\ seen' = [seen EXCEPT ![id] = secrets[id]]
    /\ LET last == IF secrets[id] = None THEN seen[id] ELSE secrets[id]
       IN  queue' = IF IsCredential(last) THEN queue \cup {id} ELSE queue
    /\ UNCHANGED <<secrets, registry, gauge, timed, wk, channel>>
    /\ UNCHANGED <<reachable, readable, ops>>
    /\ UNCHANGED walkers

\* The recheck interval of a credential is over.
Wake(id) ==
    /\ id \in timed
    /\ timed' = timed \ {id} /\ queue' = queue \cup {id}
    /\ UNCHANGED <<registry, gauge, wk, channel>>
    /\ UNCHANGED walkers /\ UNCHANGED world

Take(id) ==
    /\ wk = Idle /\ id \in queue
    /\ queue' = queue \ {id}
    /\ UNCHANGED timed

\* The Secret is gone, or its kubeconfig does not parse: no retry.
Deregister(id) ==
    /\ Take(id)
    /\ seen[id] = None \/ (seen[id] # None /\ seen[id].kubeconfig = Malformed)
    /\ wk' = [pc |-> "remove", id |-> id, again |-> FALSE]
    /\ UNCHANGED <<registry, gauge, channel>>
    /\ UNCHANGED walkers /\ UNCHANGED world

\* The client is built, not registered.
BuildClient(id) ==
    /\ Take(id)
    /\ seen[id] # None /\ seen[id].kubeconfig # Malformed
    /\ wk' = [pc |-> "check", id |-> id, client |-> seen[id].kubeconfig]
    /\ UNCHANGED <<registry, gauge, channel>>
    /\ UNCHANGED walkers /\ UNCHANGED world

\* The worker is done with wk.id and comes back to it after the interval.
RequeueAfter ==
    /\ wk' = Idle
    /\ timed' = timed \cup {wk.id}
    /\ UNCHANGED queue

\* The worker goes on with wk.id; the shared state is as it was.
GoOn(next) ==
    /\ wk' = next
    /\ UNCHANGED <<registry, gauge, queue, timed, channel>>
    /\ UNCHANGED walkers /\ UNCHANGED world

CheckReachable ==
    /\ wk.pc = "check" /\ wk.client \in reachable
    /\ GoOn([wk EXCEPT !.pc = "vet"])

CheckUnreachable ==
    /\ wk.pc = "check" /\ wk.client \notin reachable
    /\ GoOn([pc |-> "down", id |-> wk.id])

Identifiable == wk.client \in reachable \cap readable

\* Fails closed: a cluster that will not say who it is is not registered.
RefuseUnverified ==
    /\ wk.pc = "vet" /\ HubKnown /\ ~Identifiable
    /\ GoOn([pc |-> "remove", id |-> wk.id, again |-> TRUE])

RefuseSelf ==
    /\ wk.pc = "vet" /\ HubKnown /\ Identifiable /\ wk.client = Self
    /\ GoOn([pc |-> "remove", id |-> wk.id, again |-> FALSE])

AcceptUnverified ==    \* variant: only a cluster that says it is the hub is refused
    /\ wk.pc = "vet"
    /\ HubKnown /\ Identifiable => wk.client # Self
    /\ GoOn([wk EXCEPT !.pc = "store"])

Accept ==
    /\ wk.pc = "vet"
    /\ HubKnown => Identifiable /\ wk.client # Self
    /\ GoOn([wk EXCEPT !.pc = "store"])

Store ==
    /\ wk.pc = "store"
    /\ registry' = [registry EXCEPT ![wk.id] = wk.client]
    /\ wk' = [pc |-> "up", id |-> wk.id]
    /\ UNCHANGED <<gauge, queue, timed, channel>>
    /\ UNCHANGED walkers /\ UNCHANGED world

SetUpForGood ==    \* variant: an unreachable spoke is not rechecked
    /\ \/ wk.pc = "up" /\ wk' = [pc |-> "announce", id |-> wk.id, untold |-> Kind]
       \/ wk.pc = "down" /\ wk' = Idle
    /\ gauge' = [gauge EXCEPT ![wk.id] = IF wk.pc = "up" THEN 1 ELSE 0]
    /\ UNCHANGED <<registry, queue, timed, channel>>
    /\ UNCHANGED walkers /\ UNCHANGED world

SetUpAnnouncingRises ==    \* variant: a cluster that is up already is not announced
    /\ \/ /\ wk.pc = "up"
          /\ wk' = [pc |-> "announce", id |-> wk.id,
                    untold |-> IF gauge[wk.id] = 1 THEN {} ELSE Kind]
          /\ UNCHANGED <<queue, timed>>
       \/ wk.pc = "down" /\ RequeueAfter
    /\ gauge' = [gauge EXCEPT ![wk.id] = IF wk.pc = "up" THEN 1 ELSE 0]
    /\ UNCHANGED <<registry, channel>>
    /\ UNCHANGED walkers /\ UNCHANGED world

\* An unreachable spoke's gauge falls; the client of an earlier reconcile stays
\* registered.
SetUp ==
    /\ \/ /\ wk.pc = "up"
          /\ wk' = [pc |-> "announce", id |-> wk.id, untold |-> Kind]
          /\ UNCHANGED <<queue, timed>>
       \/ wk.pc = "down" /\ RequeueAfter
    /\ gauge' = [gauge EXCEPT ![wk.id] = IF wk.pc = "up" THEN 1 ELSE 0]
    /\ UNCHANGED <<registry, channel>>
    /\ UNCHANGED walkers /\ UNCHANGED world

\* A send that would block is dropped.
Announce(kind) ==
    /\ wk.pc = "announce" /\ kind \in wk.untold
    /\ channel' = IF Len(channel[kind]) < ChannelSize
                  THEN [channel EXCEPT ![kind] = Append(@, wk.id)] ELSE channel
    /\ wk' = [wk EXCEPT !.untold = @ \ {kind}]
    /\ UNCHANGED <<registry, gauge, queue, timed>>
    /\ UNCHANGED walkers /\ UNCHANGED world

FinishAnnouncing ==
    /\ wk.pc = "announce" /\ wk.untold = {}
    /\ RequeueAfter
    /\ UNCHANGED <<registry, gauge, channel>>
    /\ UNCHANGED walkers /\ UNCHANGED world

\* The first half of the registry's Remove.
Remove ==
    /\ wk.pc = "remove"
    /\ registry' = [registry EXCEPT ![wk.id] = None]
    /\ wk' = [wk EXCEPT !.pc = "clear"]
    /\ UNCHANGED <<gauge, queue, timed, channel>>
    /\ UNCHANGED walkers /\ UNCHANGED world

DoneRemoving == IF wk.again THEN RequeueAfter ELSE wk' = Idle /\ UNCHANGED <<queue, timed>>

ClearNoGauge ==    \* variant: the series stays
    /\ wk.pc = "clear"
    /\ DoneRemoving
    /\ UNCHANGED <<registry, gauge, channel>>
    /\ UNCHANGED walkers /\ UNCHANGED world

\* The second half, after the mutex is given back.
ClearGauge ==
    /\ wk.pc = "clear"
    /\ gauge' = [gauge EXCEPT ![wk.id] = None]
    /\ DoneRemoving
    /\ UNCHANGED <<registry, channel>>
    /\ UNCHANGED walkers /\ UNCHANGED world

-----------------------------------------------------------------------------
(* The source controllers *)

\* mapCredentialToSources: the sources that name the announced id.
Receive(kind) ==
    /\ channel[kind] # <<>>
    /\ channel' = [channel EXCEPT ![kind] = Tail(@)]
    /\ due' = [due EXCEPT ![kind] = @ \cup {Head(channel[kind])}]
    /\ UNCHANGED <<registry, gauge, queue, timed, wk, walk, reached>>
    /\ UNCHANGED world

StartWalk(kind, src) ==
    /\ walk[kind] = Resting /\ src \in due[kind]
    /\ due' = [due EXCEPT ![kind] = @ \ {src}]
    /\ walk' = [walk EXCEPT ![kind] = [Resting EXCEPT !.src = src, !.todo = IDs]]
    /\ UNCHANGED reached
    /\ UNCHANGED hub /\ UNCHANGED world

ClientForUnchecked(kind, id) ==    \* variant: the "registered" result is ignored
    /\ walk[kind].id = None /\ id \in walk[kind].todo
    /\ walk' = [walk EXCEPT ![kind].todo = @ \ {id}, ![kind].id = id,
                            ![kind].client = registry[id]]
    /\ UNCHANGED <<due, reached>>
    /\ UNCHANGED hub /\ UNCHANGED world

\* Every registered id is visited: the source's own is written, the others
\* pruned.  One that has gone since IDs is skipped.
ClientFor(kind, id) ==
    /\ walk[kind].id = None /\ id \in walk[kind].todo
    /\ \/ /\ registry[id] = None
          /\ walk' = [walk EXCEPT ![kind].todo = @ \ {id}]
       \/ /\ registry[id] # None
          /\ walk' = [walk EXCEPT ![kind].todo = @ \ {id}, ![kind].id = id,
                                  ![kind].client = registry[id]]
    /\ UNCHANGED <<due, reached>>
    /\ UNCHANGED hub /\ UNCHANGED world

\* The calls to the spoke go through the client taken before, whatever has
\* become of the registration.
UseClient(kind) ==
    /\ walk[kind].id # None
    /\ LET c == walk[kind].client IN
       /\ walk' = [walk EXCEPT ![kind].id = None, ![kind].client = None,
                               ![kind].failed = @ \/ c \notin reachable]
       /\ reached' = IF c \in reachable /\ walk[kind].id = walk[kind].src
                     THEN [reached EXCEPT ![kind][walk[kind].id] = c]
                     ELSE reached
    /\ UNCHANGED due
    /\ UNCHANGED hub /\ UNCHANGED world

FinishWalk(kind) ==
    /\ walk[kind] # Resting
    /\ walk[kind].todo = {} /\ walk[kind].id = None
    /\ due' = IF walk[kind].failed
              THEN [due EXCEPT ![kind] = @ \cup {walk[kind].src}] ELSE due
    /\ walk' = [walk EXCEPT ![kind] = Resting]
    /\ UNCHANGED reached
    /\ UNCHANGED hub /\ UNCHANGED world

-----------------------------------------------------------------------------
(* Failures and operators *)

May(op) == op \in EnvOps /\ ops > 0 /\ ops' = ops - 1

\* The process starts again: nothing is registered, every labelled Secret and
\* every source is an event.
Restart ==
    /\ May("Restart")
    /\ seen' = secrets
    /\ registry' = [id \in Id |-> None] /\ gauge' = registry'
    /\ queue' = {id \in Id : IsCredential(secrets[id])} /\ timed' = {}
    /\ wk' = Idle
    /\ channel' = [kind \in Kind |-> <<>>]
    /\ due' = [kind \in Kind |-> Id]
    /\ walk' = [kind \in Kind |-> Resting]
    /\ UNCHANGED <<secrets, reached, reachable, readable>>

\* The informer sees every change of a Secret, one at a time.
Change(id, secret) ==
    /\ seen[id] = secrets[id]
    /\ secrets' = [secrets EXCEPT ![id] = secret]
    /\ UNCHANGED <<seen, reachable, readable>>
    /\ UNCHANGED hub /\ UNCHANGED walkers

Create(id) ==
    /\ May("Create") /\ secrets[id] = None
    /\ \E secret \in Secret : Change(id, secret)

Delete(id) ==
    /\ May("Delete") /\ secrets[id] # None
    /\ Change(id, None)

Repoint(id) ==
    /\ May("Repoint") /\ secrets[id] # None
    /\ \E target \in (Cluster \cup {Malformed}) \ {secrets[id].kubeconfig} :
          Change(id, [secrets[id] EXCEPT !.kubeconfig = target])

Relabel(id) ==
    /\ May("Relabel") /\ secrets[id] # None
    /\ Change(id, [secrets[id] EXCEPT !.label = ~@])

Outage(c) ==
    /\ May("Outage") /\ c # Self
    /\ reachable' = reachable \ {c}
    /\ UNCHANGED <<secrets, seen, readable>>
    /\ UNCHANGED hub /\ UNCHANGED walkers

Recover(c) ==
    /\ reachable' = reachable \cup {c}
    /\ UNCHANGED <<secrets, seen, readable, ops>>
    /\ UNCHANGED hub /\ UNCHANGED walkers

\* The credential's role binding for kube-system comes or goes.
Rebind(c) ==
    /\ May("Rebind")
    /\ readable' = IF c \in readable THEN readable \ {c} ELSE readable \cup {c}
    /\ UNCHANGED <<secrets, seen, reachable>>
    /\ UNCHANGED hub /\ UNCHANGED walkers

-----------------------------------------------------------------------------

Init ==
    /\ secrets \in InitialSecrets
    /\ seen = secrets
    /\ registry = [id \in Id |-> None]
    /\ gauge = [id \in Id |-> None]
    /\ queue = {id \in Id : IsCredential(secrets[id])} /\ timed = {}
    /\ wk = Idle
    /\ channel = [kind \in Kind |-> <<>>]
    /\ due = [kind \in Kind |-> Id]
    /\ walk = [kind \in Kind |-> Resting]
    /\ reached = [kind \in Kind |-> [id \in Id |-> None]]
    /\ reachable = Cluster
    /\ readable = Cluster
    /\ ops = MaxOps

Begin(id) == Deregister(id) \/ BuildClient(id)

Proceed ==
    \/ CheckReachable \/ CheckUnreachable
    \/ RefuseUnverified \/ RefuseSelf \/ Accept
    \/ Store \/ SetUp \/ Remove \/ ClearGauge
    \/ \E kind \in Kind : Announce(kind)
    \/ FinishAnnouncing

Walk(kind) ==
    \/ UseClient(kind) \/ FinishWalk(kind)
    \/ \E id \in Id : ClientFor(kind, id)

Environment ==
    \/ Restart
    \/ \E id \in Id : Create(id) \/ Delete(id) \/ Repoint(id) \/ Relabel(id)
    \/ \E c \in Cluster : Outage(c) \/ Recover(c) \/ Rebind(c)

Next ==
    \/ \E id \in Id : Deliver(id) \/ Wake(id) \/ Begin(id)
    \/ Proceed
    \/ \E kind \in Kind : Receive(kind) \/ Walk(kind)
    \/ \E kind \in Kind, src \in Id : StartWalk(kind, src)
    \/ Environment

Spec == Init /\ [][Next]_vars
=============================================================================
