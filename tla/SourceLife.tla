----------------------------- MODULE SourceLife -----------------------------
(***************************************************************************)
(* What a controller makes of a source as it finds it: reconcileSource's   *)
(* early decisions, the primary watch's predicate, and what the API server *)
(* does with an object that has finalizers.  The local controller (Syncer) *)
(* and the cross-cluster walk (CrossCluster) both start from here.         *)
(***************************************************************************)
EXTENDS KeySet

CONSTANT Keys    \* the KeySet the controllers run with

\* A deletion waits for finalizers.
Deleted(obj) == IF obj.fin = {} THEN None ELSE [obj EXCEPT !.del = TRUE]

\* Removing the last finalizer of an object that is being deleted removes it.
Released(obj) == IF obj.del /\ obj.fin = {} THEN None ELSE obj

\* The key the primary watch enqueues for an event of obj in namespace n.
SourceKeysOfSources(n, obj) ==    \* variant: forgets what still has a finalizer
    IF IsSource(Keys, obj) THEN {n} ELSE {}

SourceKeys(n, obj) ==
    IF IsSource(Keys, obj) \/ HasFinalizer(Keys, obj) THEN {n} ELSE {}

ReadyUnarmed(obj) ==              \* variant: fans out without the finalizer
    ~obj.del /\ IsSource(Keys, obj)

\* A source whose finalizer is in order.
Ready(obj) ==
    /\ ~obj.del
    /\ IsSource(Keys, obj)
    /\ ReconcileFinalizer(Keys, obj) = obj

NeedsCleanup(obj) ==
    HasFinalizer(Keys, obj) /\ (obj.del \/ ~IsSource(Keys, obj))

NeedsFinalizer(obj) ==
    ~obj.del /\ IsSource(Keys, obj) /\ ReconcileFinalizer(Keys, obj) # obj
=============================================================================
