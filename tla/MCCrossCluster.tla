--------------------------- MODULE MCCrossCluster ---------------------------
(* Small fleets for CrossCluster: at most two hubs and two spokes. *)
EXTENDS CrossClusterProperties, TLC

CONSTANTS
    A, B,             \* hubs
    s, t,             \* spokes
    ns1, ns2,         \* namespaces
    uidA, uidB,       \* identities
    team, d1, d2,
    PrimaryDomain

\* Written out, since TLC evaluates it anew wherever Keys occurs.
MCKeys == [primary |-> PrimaryDomain, legacy |-> <<>>]

ASSUME MCKeys = NewKeySet(PrimaryDomain, <<>>)

Everywhere == {team}

Named == [h \in Hub |-> IF h = A THEN uidA ELSE uidB]

Bare(sp) == <<sp, None>>

SourceWith(list, data) ==
    [obj |-> [EmptyObject(data) EXCEPT !.sync[PrimaryDomain] = Everywhere],
     clusters |-> [d \in Domain |-> list]]

Armed1(list, data) ==
    [SourceWith(list, data) EXCEPT !.obj.fin = {PrimaryDomain}]

CopyFrom(k, cluster, data) ==
    [EmptyObject(data) EXCEPT
       !.stamp[PrimaryDomain] = [ns |-> k, cluster |-> cluster]]

Stranger == EmptyObject(d2)

Kubed == [EmptyObject(d2) EXCEPT !.kubed = TRUE]

\* Every hub has the same source in ns1, with the hub's own payload.
SameSource(list) ==
    {[h \in Hub |-> (ns1 :> Armed1(list, IF h = A THEN d1 ELSE d2)) @@ (ns2 :> None)]}

Vacant == [sp \in Spoke |-> [k \in Namespace |-> None]]

\* Both hubs want both namespaces of the spoke, hub B's source is new; one holds
\* a copy from before the origin-cluster label, the other one of config-syncer's.
SharedSources ==
    {[src EXCEPT ![B][ns1].obj.fin = {}] : src \in SameSource({Bare(s), <<s, ns2>>})}

LegacyRemote ==
    {[Vacant EXCEPT ![s] = (ns1 :> CopyFrom(ns1, None, d1)) @@ (ns2 :> Kubed)]}

\* One source, settled, with a copy in the spoke it names.
OneSource == SameSource({Bare(s)})

SettledRemote == {[Vacant EXCEPT ![s][ns1] = CopyFrom(ns1, uidA, d1)]}

Retargets == {{}, {Bare(s)}, {<<s, ns2>>}}

NoTargets == {{}}

\* Two spokes; the source leaves one for the other, or wants both.
TwoSpokes == {{}, {<<s, ns2>>}, {Bare(t)}, {Bare(s), <<t, ns2>>}}

\* A second source of the same name that wants the first one's place.
Rival == {SourceWith({<<s, ns1>>}, d2)}

Strangers == {Stranger}

\* Namespace ns2 of spoke t accepts nothing.
OneRefuses == {<<t, ns2>>}
=============================================================================
