------------------------------ MODULE MCSyncer ------------------------------
(* Small clusters for the Syncer. *)
EXTENDS SyncerProperties, TLC

CONSTANTS
    a, b, c,          \* namespaces
    t1, t2,           \* teams
    d1, d2,           \* payloads
    hub,              \* a cluster's identity
    PrimaryDomain,
    PreviousDomain    \* None: --previous-annotation-domain=""

\* Written out, since TLC evaluates it anew wherever Keys occurs.
MCKeys == [primary |-> PrimaryDomain,
           legacy |-> IF PreviousDomain = None THEN <<>> ELSE <<PreviousDomain>>]

ASSUME MCKeys = NewKeySet(PrimaryDomain, <<PreviousDomain>>)

Plain(data) == EmptyObject(data)

Kubed(data) == [Plain(data) EXCEPT !.kubed = TRUE]

SourceOf(domain, selector, data) == [Plain(data) EXCEPT !.sync[domain] = selector]

Source(selector, data) == SourceOf(PrimaryDomain, selector, data)

ArmedSource(selector, data) ==
    [Source(selector, data) EXCEPT !.fin = {PrimaryDomain}]

\* A copy as an earlier version left it, stamped under one domain.
CopyUnder(domain, source, data) ==
    [Plain(data) EXCEPT !.stamp[domain] = [ns |-> source, cluster |-> None]]

World(objA, objB, objC) ==
    (a :> objA) @@ (b :> objB) @@ (c :> objC)

Everywhere == Team

AllTeam1 == [n \in Namespace |-> t1]

Mixed == [n \in Namespace |-> IF n = c THEN t2 ELSE t1]

\* Two sources compete for c, in which config-syncer or nobody left a copy.
Rivals ==
    {World(Source(Everywhere, d1), Source(Everywhere, d2), o) :
        o \in {None, Kubed(d1)}}

\* One source and two namespaces to copy it into.
Single == {World(Source(Everywhere, d1), None, None)}

\* The same, settled in b.
SettledWith(selector) ==
    World(ArmedSource(selector, d1), CopyUnder(PrimaryDomain, a, d1), None)

Settled3 == {SettledWith(Everywhere)}

\* One that selects c, and one that annotating it or relabelling c may widen.
SettledWorlds == {SettledWith(Everywhere), SettledWith({t1})}

\* What a version that knew only the previous domain left behind: a source
\* with its finalizer, one copy of it that is wanted and one that is not, each
\* where the next domain's controller finds it.
LegacySource ==
    [SourceOf(PreviousDomain, {t1}, d1) EXCEPT !.fin = {PreviousDomain}]

Leftovers ==
    {World(LegacySource, CopyUnder(PreviousDomain, a, d2),
           CopyUnder(PreviousDomain, a, d1))}

\* A copy made under the previous domain whose source is gone.
Abandoned == {World(None, CopyUnder(PreviousDomain, a, d1), None)}

\* A source of the previous domain and one of the primary.
TwoDomains ==
    {World(SourceOf(PreviousDomain, {t1}, d1), None, Source({t2}, d2))}

\* A copy in a namespace that is no longer selected.
Deselected ==
    {World(ArmedSource({t1}, d1), None, CopyUnder(PrimaryDomain, a, d1))}

\* A source that stopped parsing before the webhook was installed.
Frozen == {World(ArmedSource(Invalid, d1), CopyUnder(PrimaryDomain, a, d1), None)}

\* A hub's copy of its own object a, in a cluster that has an object a as well.
HubsCopy ==
    {World(ArmedSource(Everywhere, d1),
           [Plain(d2) EXCEPT !.stamp[PrimaryDomain] = [ns |-> a, cluster |-> hub]],
           None)}

Newcomers == {Plain(d1), Kubed(d2), Source(Everywhere, d2)}

Strangers == {Plain(d2)}
=============================================================================
