----------------------------- MODULE KeySetProofs -----------------------------
(***************************************************************************)
(* What every controller relies on of the annotation and label contract,   *)
(* for every key set and every object.                                     *)
(***************************************************************************)
EXTENDS KeySet, WellFoundedInduction, TLAPS

\* The domains a key set honours are domains, the primary is one of them, and
\* the lookup order of each() starts with it.
LEMMA EachFacts ==
    ASSUME NEW ks \in KeySetType
    PROVE  /\ Each(ks) \in Seq(Domain)
           /\ Len(Each(ks)) >= 1
           /\ Each(ks)[1] = ks.primary
           /\ Honoured(ks) \subseteq Domain
           /\ ks.primary \in Honoured(ks)
           /\ LegacyDomains(ks) \subseteq Honoured(ks)
           /\ LegacyDomains(ks) \subseteq Domain
<1>1. ks.primary \in Domain /\ ks.legacy \in Seq(Domain)
  BY DEF KeySetType
<1>2. /\ Each(ks) \in Seq(Domain)
      /\ Len(Each(ks)) = 1 + Len(ks.legacy)
      /\ Each(ks)[1] = ks.primary
      /\ \A i \in 1..Len(ks.legacy) : Each(ks)[i + 1] = ks.legacy[i]
  BY <1>1 DEF Each
<1>3. Honoured(ks) \subseteq Domain
  BY <1>2 DEF Honoured
<1>4. ks.primary \in Honoured(ks)
  BY <1>1, <1>2 DEF Honoured
<1>5. LegacyDomains(ks) \subseteq Honoured(ks)
  <2>1. SUFFICES ASSUME NEW i \in DOMAIN ks.legacy
                 PROVE  ks.legacy[i] \in Honoured(ks)
    BY DEF LegacyDomains
  <2>2. i \in 1..Len(ks.legacy)
    BY <1>1, <2>1
  <2>3. i + 1 \in DOMAIN Each(ks) /\ Each(ks)[i + 1] = ks.legacy[i]
    BY <1>1, <1>2, <2>2
  <2> QED BY <2>3 DEF Honoured
<1> QED BY <1>1, <1>2, <1>3, <1>4, <1>5

LEMMA HonouredDomains ==
    ASSUME NEW ks \in KeySetType
    PROVE  Honoured(ks) = {ks.primary} \cup LegacyDomains(ks)
<1>1. ks.primary \in Domain /\ ks.legacy \in Seq(Domain)
  BY DEF KeySetType
<1>2. /\ DOMAIN Each(ks) = 1..(1 + Len(ks.legacy))
      /\ Each(ks)[1] = ks.primary
      /\ \A i \in 1..Len(ks.legacy) : Each(ks)[i + 1] = ks.legacy[i]
  BY <1>1 DEF Each
<1>3. ASSUME NEW i \in DOMAIN Each(ks)
      PROVE  Each(ks)[i] \in {ks.primary} \cup LegacyDomains(ks)
  <2>1. CASE i = 1
    BY <1>2, <2>1
  <2>2. CASE i # 1
    <3>1. i - 1 \in 1..Len(ks.legacy) /\ (i - 1) + 1 = i
      BY <1>1, <1>2, <1>3, <2>2
    <3>2. i - 1 \in DOMAIN ks.legacy
      BY <1>1, <3>1
    <3> QED BY <1>2, <3>1, <3>2 DEF LegacyDomains
  <2> QED BY <2>1, <2>2
<1>4. Honoured(ks) \subseteq {ks.primary} \cup LegacyDomains(ks)
  BY <1>3 DEF Honoured
<1> QED BY <1>4, EachFacts

\* The key set of one --previous-annotation-domain, blank (None) or not.
LEMMA NewKeySetOfOne ==
    ASSUME NEW primary, NEW d
    PROVE  NewKeySet(primary, <<d>>) =
             [primary |-> primary, legacy |-> IF d \in {None, primary} THEN <<>> ELSE <<d>>]
<1> DEFINE step(f, i) ==
             IF i = 0 THEN <<>>
             ELSE IF <<d>>[i] \in {None, primary} THEN f[i - 1]
             ELSE Append(f[i - 1], <<d>>[i])
           kept == CHOOSE f : f = [i \in 0..1 |-> step(f, i)]
           g == [i \in 0..1 |-> IF i = 0 THEN <<>>
                                ELSE IF d \in {None, primary} THEN <<>> ELSE <<d>>]
<1>1. g = [i \in 0..1 |-> step(g, i)]
  OBVIOUS
<1>2. kept = [i \in 0..1 |-> step(kept, i)]
  <2> HIDE DEF g
  <2> QED BY <1>1
<1> HIDE DEF kept
<1>3. kept[0] = step(kept, 0) /\ kept[1] = step(kept, 1)
  <2>1. 0 \in 0..1 /\ 1 \in 0..1
    OBVIOUS
  <2> HIDE DEF step
  <2> QED BY <1>2, <2>1
<1>4. kept[0] = <<>>
  BY <1>3
<1>5. kept[1] = IF d \in {None, primary} THEN kept[0] ELSE Append(kept[0], d)
  <2>1. 1 # 0 /\ 1 - 1 = 0 /\ <<d>>[1] = d
    OBVIOUS
  <2>2. step(kept, 1) = IF <<d>>[1] \in {None, primary} THEN kept[1 - 1]
                        ELSE Append(kept[1 - 1], <<d>>[1])
    BY <2>1, Zenon
  <2> QED BY <1>3, <2>1, <2>2, Zenon
<1>6. Append(<<>>, d) = <<d>>
  OBVIOUS
<1>7. NewKeySet(primary, <<d>>) = [primary |-> primary, legacy |-> kept[1]]
  BY DEF NewKeySet, kept
<1> QED BY <1>4, <1>5, <1>6, <1>7

\* A search over the honoured domains finds the primary first.
LEMMA PrimaryFirst ==
    ASSUME NEW ks \in KeySetType, NEW S, ks.primary \in S
    PROVE  FirstIn(Each(ks), S) = ks.primary
<1> DEFINE hits == {i \in DOMAIN Each(ks) : Each(ks)[i] \in S}
           first == CHOOSE i \in hits : \A j \in hits : i <= j
<1>1. 1 \in hits /\ \A j \in hits : j \in Nat /\ 1 <= j
  BY EachFacts
<1>2. first \in hits /\ \A j \in hits : first <= j
  BY <1>1
<1>3. first = 1
  BY <1>1, <1>2
<1>4. FirstIn(Each(ks), S) = Each(ks)[first]
  BY <1>1 DEF FirstIn
<1> QED BY <1>3, <1>4, EachFacts

Below == {p \in Nat \X Nat : p[1] < p[2]}

\* Every set of indices has a least one.
LEMMA BelowIsWellFounded == IsWellFoundedOn(Below, Nat)
BY NatLessThanWellFounded DEF OpToRel, Below

\* A search finds an honoured domain of S, or there is none to find.
LEMMA FirstInEach ==
    ASSUME NEW ks \in KeySetType, NEW S
    PROVE  LET d == FirstIn(Each(ks), S) IN
           IF Honoured(ks) \cap S = {} THEN d = None
           ELSE d \in Honoured(ks) \cap S
<1> DEFINE hits == {i \in DOMAIN Each(ks) : Each(ks)[i] \in S}
<1>1. CASE hits = {}
  BY <1>1 DEF FirstIn, Honoured
<1>2. CASE hits # {}
  <2>1. hits \subseteq Nat
    BY EachFacts
  <2>2. PICK i \in hits : \A j \in hits : i <= j
    <3>1. \E i \in hits : \A j \in hits : ~(<<j, i>> \in Below)
      BY <1>2, <2>1, BelowIsWellFounded, WFMin
    <3>2. PICK i \in hits : \A j \in hits : ~(<<j, i>> \in Below)
      BY <3>1
    <3>3. ASSUME NEW j \in hits PROVE i <= j
      <4>1. i \in Nat /\ j \in Nat /\ ~(<<j, i>> \in Below)
        BY <2>1, <3>2
      <4>2. ~(j < i)
        BY <4>1 DEF Below
      <4> QED BY <4>1, <4>2
    <3> QED BY <3>3
  <2> QED BY <1>2, <2>2 DEF FirstIn, Honoured
<1> QED BY <1>1, <1>2

\* The domain a copy is known under is honoured and holds a stamp.
LEMMA KeysForFacts ==
    ASSUME NEW ks \in KeySetType, NEW obj \in Object
    PROVE  /\ IsManagedCopy(ks, obj) =>
                /\ KeysFor(ks, obj) \in Honoured(ks)
                /\ obj.stamp[KeysFor(ks, obj)] \in Stamp
           /\ obj.stamp[ks.primary] # None =>
                /\ KeysFor(ks, obj) = ks.primary
                /\ IsManagedCopy(ks, obj)
           /\ CopyOrigin(ks, obj) \subseteq Namespace
<1> DEFINE stamped == {d \in Domain : obj.stamp[d] # None}
<1>1. KeysFor(ks, obj) = FirstIn(Each(ks), stamped)
  BY DEF KeysFor
<1>2. /\ obj.stamp \in [Domain -> Stamp \cup {None}]
      /\ ks.primary \in Domain
  BY DEF Object, KeySetType
<1>3. IsManagedCopy(ks, obj) =>
        /\ KeysFor(ks, obj) \in Honoured(ks)
        /\ obj.stamp[KeysFor(ks, obj)] \in Stamp
  <2> HIDE DEF stamped
  <2>1. IsManagedCopy(ks, obj) => KeysFor(ks, obj) \in Honoured(ks) \cap stamped
    BY <1>1, FirstInEach DEF IsManagedCopy
  <2> QED BY <2>1, <1>2 DEF stamped
<1>4. obj.stamp[ks.primary] # None =>
        KeysFor(ks, obj) = ks.primary /\ IsManagedCopy(ks, obj)
  <2>1. SUFFICES ASSUME obj.stamp[ks.primary] # None
                 PROVE  KeysFor(ks, obj) = ks.primary /\ IsManagedCopy(ks, obj)
    OBVIOUS
  <2>2. ks.primary \in stamped
    BY <1>2, <2>1
  <2> HIDE DEF stamped
  <2>3. KeysFor(ks, obj) = ks.primary
    BY <1>1, <2>2, PrimaryFirst
  <2> QED BY <1>2, <2>3, NoneAssumption DEF IsManagedCopy
<1>5. CopyOrigin(ks, obj) \subseteq Namespace
  BY <1>3 DEF CopyOrigin, Stamp
<1> QED BY <1>3, <1>4, <1>5

LEMMA EmptyObjectType ==
    ASSUME NEW data \in Data
    PROVE  /\ EmptyObject(data) \in Object
           /\ EmptyObject(data).fin = {} /\ ~EmptyObject(data).del
BY DEF EmptyObject, Object, Unannotated, Unstamped

\* Whatever upsertCopy makes of an object is a managed copy of the source, is
\* owned by it and never a source itself (no replication loops), and keeps the
\* object's finalizers and deletion timestamp.
THEOREM MirrorIsCopy ==
    ASSUME NEW ks \in KeySetType, NEW srcNs \in Namespace,
           NEW src \in Object, NEW dst \in Object,
           NEW cluster \in Cluster \cup {None}
    PROVE  LET copy == Mirror(ks, srcNs, src, dst, cluster) IN
           /\ copy \in Object
           /\ copy.fin = dst.fin /\ copy.del = dst.del
           /\ ~IsSource(ks, copy)
           /\ IsManagedCopy(ks, copy)
           /\ CopyOrigin(ks, copy) = {srcNs}
           /\ OwnsCopy(ks, copy, srcNs, cluster)
           /\ cluster # None => OriginCluster(ks, copy) = cluster
<1> DEFINE copy == Mirror(ks, srcNs, src, dst, cluster)
           mirrored == src.stamp[ks.primary]
           kept == IF mirrored = None THEN None ELSE mirrored.cluster
           stamp == [ns |-> srcNs,
                     cluster |-> IF cluster # None THEN cluster ELSE kept]
           stamps == [src.stamp EXCEPT ![ks.primary] = stamp]
           syncs == [d \in Domain |->
                       IF d \in Honoured(ks) THEN None ELSE src.sync[d]]
<1>1. /\ ks.primary \in Domain
      /\ src.stamp \in [Domain -> Stamp \cup {None}]
      /\ src.sync \in [Domain -> Selector \cup {None}]
      /\ src.kubed \in BOOLEAN /\ src.data \in Data
      /\ dst.fin \in SUBSET Domain /\ dst.del \in BOOLEAN
  BY DEF Object, KeySetType
<1>2. stamp \in Stamp
  <2>1. kept \in Cluster \cup {None}
    BY <1>1 DEF Stamp
  <2> QED BY <2>1 DEF Stamp
<1>3. stamps \in [Domain -> Stamp \cup {None}] /\ stamps[ks.primary] = stamp
  BY <1>1, <1>2
<1>4. syncs \in [Domain -> Selector \cup {None}]
  BY <1>1
<1>5. copy = [[dst EXCEPT !.stamp = stamps, !.sync = syncs,
                          !.kubed = src.kubed] EXCEPT !.data = src.data]
  BY DEF Mirror, ApplyCopyMeta, Stripped, CopyContents
<1> HIDE DEF copy, stamps, syncs
<1>6. /\ copy \in Object
      /\ copy.fin = dst.fin /\ copy.del = dst.del
      /\ copy.stamp = stamps /\ copy.sync = syncs
  BY <1>1, <1>3, <1>4, <1>5 DEF Object
<1>7. ~IsSource(ks, copy)
  <2>1. \A d \in Honoured(ks) : copy.sync[d] = None
    BY <1>6, EachFacts DEF syncs
  <2> QED BY <2>1 DEF IsSource
<1>8. /\ KeysFor(ks, copy) = ks.primary /\ IsManagedCopy(ks, copy)
      /\ copy.stamp[KeysFor(ks, copy)] = stamp
  BY <1>2, <1>3, <1>6, KeysForFacts, NoneAssumption
<1>9. CopyOrigin(ks, copy) = {srcNs}
  BY <1>8, NoneAssumption DEF CopyOrigin
<1>10. OwnsCopy(ks, copy, srcNs, cluster)
  BY <1>8 DEF OwnsCopy
<1>11. cluster # None => OriginCluster(ks, copy) = cluster
  BY <1>8 DEF OriginCluster
<1> QED BY <1>6, <1>7, <1>8, <1>9, <1>10, <1>11 DEF copy

\* A copy is managed under whichever honoured domain stamps it.
LEMMA ManagedWhenStamped ==
    ASSUME NEW ks \in KeySetType, NEW obj \in Object
    PROVE  IsManagedCopy(ks, obj) <=> \E d \in Honoured(ks) : obj.stamp[d] # None
<1> DEFINE stamped == {d \in Domain : obj.stamp[d] # None}
<1>1. Honoured(ks) \subseteq Domain
  BY EachFacts
<1>2. IF Honoured(ks) \cap stamped = {} THEN KeysFor(ks, obj) = None
      ELSE KeysFor(ks, obj) \in Honoured(ks) \cap stamped
  <2> HIDE DEF stamped
  <2> QED BY FirstInEach DEF KeysFor, stamped
<1>3. IsManagedCopy(ks, obj) <=> Honoured(ks) \cap stamped # {}
  <2> HIDE DEF stamped
  <2> QED BY <1>1, <1>2, NoneAssumption DEF IsManagedCopy
<1> QED BY <1>1, <1>3

\* What upsertCopy leaves under each domain: the primary's stamp is written, no
\* honoured domain keeps a sync annotation, and the rest is the source's.
LEMMA MirrorMarks ==
    ASSUME NEW ks \in KeySetType, NEW srcNs \in Namespace,
           NEW src \in Object, NEW dst \in Object,
           NEW cluster \in Cluster \cup {None}
    PROVE  LET copy == Mirror(ks, srcNs, src, dst, cluster) IN
           \A d \in Domain :
             /\ d # ks.primary => copy.stamp[d] = src.stamp[d]
             /\ copy.sync[d] = IF d \in Honoured(ks) THEN None ELSE src.sync[d]
<1> DEFINE copy == Mirror(ks, srcNs, src, dst, cluster)
           kept == IF src.stamp[ks.primary] = None THEN None
                   ELSE src.stamp[ks.primary].cluster
           stamp == [ns |-> srcNs,
                     cluster |-> IF cluster # None THEN cluster ELSE kept]
           stamps == [src.stamp EXCEPT ![ks.primary] = stamp]
<1>1. src.stamp \in [Domain -> Stamp \cup {None}]
  BY DEF Object
<1>2. copy = [[dst EXCEPT !.stamp = stamps, !.sync = Stripped(ks, src.sync),
                          !.kubed = src.kubed] EXCEPT !.data = src.data]
  BY DEF Mirror, ApplyCopyMeta, CopyContents
<1> HIDE DEF copy, stamp, kept
<1>3. copy.stamp = stamps /\ copy.sync = Stripped(ks, src.sync)
  BY <1>2 DEF Object
<1>4. \A d \in Domain : d # ks.primary => stamps[d] = src.stamp[d]
  BY <1>1
<1> QED BY <1>3, <1>4 DEF Stripped, copy

\* A second reconcile of an unchanged source finds nothing to write: the copy
\* equals what upsertCopy would make of it, so writing does not feed itself.
THEOREM MirrorIsStable ==
    ASSUME NEW ks \in KeySetType, NEW srcNs \in Namespace,
           NEW src \in Object, NEW dst \in Object,
           NEW cluster \in Cluster \cup {None}
    PROVE  LET copy == Mirror(ks, srcNs, src, dst, cluster) IN
           ContentEqual(copy, Mirror(ks, srcNs, src, copy, cluster))
<1> DEFINE copy == Mirror(ks, srcNs, src, dst, cluster)
<1>1. copy \in Object
  BY MirrorIsCopy
<1>2. /\ copy.stamp = Mirror(ks, srcNs, src, copy, cluster).stamp
      /\ copy.sync = Mirror(ks, srcNs, src, copy, cluster).sync
      /\ copy.kubed = Mirror(ks, srcNs, src, copy, cluster).kubed
      /\ copy.data = Mirror(ks, srcNs, src, copy, cluster).data
  BY <1>1 DEF Mirror, ApplyCopyMeta, CopyContents, Object
<1> QED BY <1>2 DEF ContentEqual
=============================================================================
