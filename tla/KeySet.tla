------------------------------- MODULE KeySet -------------------------------
(***************************************************************************)
(* The annotation and label contract of internal/controller/keyset.go and  *)
(* replikate.go: which objects are sources, which are managed copies, who  *)
(* owns a copy, and what a write stamps.                                   *)
(*                                                                         *)
(* A key set honours one primary domain, used for every write, and a list  *)
(* of legacy domains, used only to read and match.  Objects are reduced to *)
(* what the contract tells apart; all of them have the same name and kind, *)
(* because a copy always has its source's, so an object is known by the    *)
(* namespace it lives in.                                                  *)
(***************************************************************************)
EXTENDS Naturals, Sequences

CONSTANTS
    Domain,      \* annotation/label domains, honoured or not
    Namespace,   \* names of namespaces
    Team,        \* values of the namespace label that selectors look at
    Invalid,     \* a sync annotation labels.Parse rejects
    Cluster,     \* cluster identities in origin-cluster labels
    Data,        \* payloads
    None         \* an absent object, annotation or label

(***************************************************************************)
(* A sync annotation is the set of label values it selects, or unparsable. *)
(* A stamp is the managed-by label of one domain together with the origin  *)
(* labels beside it.  "kubed" says that the object carries config-syncer's *)
(* origin mark, "fin" is the set of domains whose finalizer is present and *)
(* "del" that a deletion timestamp is set.                                 *)
(***************************************************************************)
Selector == SUBSET Team \cup {Invalid}

Stamp == [ns : Namespace \cup {None}, cluster : Cluster \cup {None}]

Object == [fin   : SUBSET Domain,
           del   : BOOLEAN,
           sync  : [Domain -> Selector \cup {None}],
           stamp : [Domain -> Stamp \cup {None}],
           kubed : BOOLEAN,
           data  : Data]

ASSUME NoneAssumption ==
    /\ None \notin Domain \cup Namespace \cup Cluster
    /\ \A selector \in Selector : selector # None
    /\ None \notin Stamp
    /\ None \notin Object

KeySetType == [primary : Domain, legacy : Seq(Domain)]

Unstamped == [d \in Domain |-> None]

Unannotated == [d \in Domain |-> None]

\* Blank legacy entries (None) and entries equal to the primary are dropped.
NewKeySet(primary, previous) ==
    LET kept[i \in 0..Len(previous)] ==
          IF i = 0 THEN <<>>
          ELSE IF previous[i] \in {None, primary} THEN kept[i - 1]
          ELSE Append(kept[i - 1], previous[i])
    IN  [primary |-> primary, legacy |-> kept[Len(previous)]]

Each(ks) == <<ks.primary>> \o ks.legacy

Honoured(ks) == {Each(ks)[i] : i \in DOMAIN Each(ks)}

LegacyDomains(ks) == {ks.legacy[i] : i \in DOMAIN ks.legacy}

\* The first domain of ds that is in S, the way every lookup here searches.
FirstIn(ds, S) ==
    LET hits == {i \in DOMAIN ds : ds[i] \in S}
    IN  IF hits = {} THEN None
        ELSE ds[CHOOSE i \in hits : \A j \in hits : i <= j]

-----------------------------------------------------------------------------
(* Reading *)

KeysFor(ks, copy) == FirstIn(Each(ks), {d \in Domain : copy.stamp[d] # None})

IsSource(ks, obj) == \E d \in Honoured(ks) : obj.sync[d] # None

SyncValue(ks, obj) ==
    obj.sync[FirstIn(Each(ks), {d \in Domain : obj.sync[d] # None})]

IsManagedCopy(ks, obj) == KeysFor(ks, obj) # None

\* A different hub's copy is never ours; one with no origin cluster may be.
OwnsCopy(ks, copy, srcNs, originCluster) ==
    /\ IsManagedCopy(ks, copy)
    /\ LET stamp == copy.stamp[KeysFor(ks, copy)] IN
       /\ stamp.ns = srcNs
       /\ \/ originCluster = None
          \/ stamp.cluster \in {None, originCluster}

OriginCluster(ks, copy) ==
    IF IsManagedCopy(ks, copy) THEN copy.stamp[KeysFor(ks, copy)].cluster
    ELSE None

\* The source a copy names, as a set: empty when it is not a managed copy or
\* its origin labels are missing.
CopyOrigin(ks, obj) ==
    IF IsManagedCopy(ks, obj) THEN {obj.stamp[KeysFor(ks, obj)].ns} \ {None}
    ELSE {}

\* One list query of deleteCopies: the managed-by and origin labels of domain d.
MatchesOrigin(obj, d, srcNs) ==
    obj.stamp[d] # None /\ obj.stamp[d].ns = srcNs

HasFinalizer(ks, obj) == obj.fin \cap Honoured(ks) # {}

IsAdoptable(obj) == obj.kubed

-----------------------------------------------------------------------------
(* Writing *)

StrippedOfPrimary(ks, sync) ==    \* variant: forgets the legacy domains
    [sync EXCEPT ![ks.primary] = None]

Stripped(ks, sync) ==
    [d \in Domain |-> IF d \in Honoured(ks) THEN None ELSE sync[d]]

\* The copy's labels and annotations are rebuilt from the source's: its own
\* stamps go, the source's (a source may itself be stamped) come, the primary
\* stamp is written over them, and no sync annotation that is honoured stays.
ApplyCopyMeta(ks, srcNs, src, dst, originCluster) ==
    LET mirrored == src.stamp[ks.primary]
        kept     == IF mirrored = None THEN None ELSE mirrored.cluster
        cluster  == IF originCluster # None THEN originCluster ELSE kept
    IN  [dst EXCEPT
           !.stamp = [src.stamp EXCEPT
                        ![ks.primary] = [ns |-> srcNs, cluster |-> cluster]],
           !.sync  = Stripped(ks, src.sync),
           !.kubed = src.kubed]

CopyContents(src, dst) == [dst EXCEPT !.data = src.data]

EmptyObject(data) ==
    [fin |-> {}, del |-> FALSE, sync |-> Unannotated, stamp |-> Unstamped,
     kubed |-> FALSE, data |-> data]

\* What upsertCopy leaves in dst.
Mirror(ks, srcNs, src, dst, originCluster) ==
    CopyContents(src, ApplyCopyMeta(ks, srcNs, src, dst, originCluster))

DataEqual(a, b) ==                 \* variant: compares the payload only
    a.data = b.data

ContentEqual(a, b) ==
    /\ a.stamp = b.stamp
    /\ a.sync  = b.sync
    /\ a.kubed = b.kubed
    /\ a.data  = b.data

AddPrimaryFinalizer(ks, obj) ==    \* variant: the legacy finalizers stay
    [obj EXCEPT !.fin = @ \cup {ks.primary}]

\* The primary finalizer is added before the legacy ones go; the object is
\* written back only when this changes it.
ReconcileFinalizer(ks, obj) ==
    [obj EXCEPT !.fin = (@ \cup {ks.primary}) \ LegacyDomains(ks)]

RemoveAllFinalizers(ks, obj) == [obj EXCEPT !.fin = @ \ Honoured(ks)]
=============================================================================
