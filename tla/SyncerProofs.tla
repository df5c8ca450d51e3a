----------------------------- MODULE SyncerProofs -----------------------------
(***************************************************************************)
(* The Syncer's safety for every set of namespaces, domains, selectors and *)
(* payloads, any lag and any number of environment steps.                  *)
(***************************************************************************)
EXTENDS SyncerProperties, KeySetProofs

(* Typing *)

LEMMA KeysFacts ==
    /\ Keys \in KeySetType
    /\ Keys.primary \in Domain
    /\ Keys.primary \in Honoured(Keys)
    /\ Keys.primary \notin LegacyDomains(Keys)
    /\ LegacyDomains(Keys) \subseteq Honoured(Keys)
    /\ Honoured(Keys) \subseteq Domain
    /\ Each(Keys) \in Seq(Domain)
BY SyncerAssumption, EachFacts DEF KeySetType

LEMMA ObjectWrites ==
    ASSUME NEW obj \in Object
    PROVE  /\ ReconcileFinalizer(Keys, obj) \in Object
           /\ RemoveAllFinalizers(Keys, obj) \in Object
           /\ Deleted(obj) \in Object \cup {None}
           /\ Released(obj) \in Object \cup {None}
BY KeysFacts DEF ReconcileFinalizer, RemoveAllFinalizers, Deleted, Released, Object

\* The worker is idle or in the middle of a reconcile.
LEMMA WorkerType ==
    ASSUME wk \in {Idle} \cup Busy
    PROVE  /\ wk # Idle <=> wk \in Busy
           /\ wk.pc = "idle" <=> wk = Idle
           /\ wk.pc \in {"idle", "upsert", "sweep"}
           /\ wk.todo \in SUBSET Namespace
           /\ wk.todo # {} => wk \in Busy
BY DEF Idle, Busy

LEMMA PutType ==
    ASSUME TypeOK, NEW n \in Namespace, NEW obj \in Object \cup {None}, Put(n, obj)
    PROVE  /\ api' \in [Namespace -> Object \cup {None}]
           /\ api'[n] = obj
           /\ \A m \in Namespace \ {n} : api'[m] = api[m]
           /\ watch' \in Seq(Event)
           /\ Len(watch') = Len(watch) + 1
           /\ watch'[Len(watch) + 1] = [ns |-> n, obj |-> obj]
           /\ \A i \in 1..Len(watch) : watch'[i] = watch[i]
<1>1. [ns |-> n, obj |-> obj] \in Event
  BY DEF Event
<1> QED BY <1>1 DEF Put, TypeOK

\* A write changes the object it is for and no other.
LEMMA PutObject ==
    ASSUME TypeOK, NEW n \in Namespace, NEW obj \in Object \cup {None}, Put(n, obj)
    PROVE  /\ api'[n] = obj
           /\ \A m \in Namespace \ {n} : api'[m] = api[m]
BY PutType

LEMMA EventType ==
    ASSUME TypeOK, NEW i \in DOMAIN watch
    PROVE  watch[i].ns \in Namespace /\ watch[i].obj \in Object \cup {None}
<1>1. watch[i] \in Event
  BY DEF TypeOK
<1> QED BY <1>1 DEF Event

\* After a write the stream is what it was with one more event at its end.
LEMMA PutWatch ==
    ASSUME TypeOK, NEW n \in Namespace, NEW obj \in Object \cup {None}, Put(n, obj)
    PROVE  \E last \in DOMAIN watch' :
             /\ watch'[last].ns = n /\ watch'[last].obj = obj
             /\ \A i \in DOMAIN watch :
                  i \in DOMAIN watch' /\ watch'[i] = watch[i] /\ i < last
             /\ \A i \in DOMAIN watch' : i = last \/ i \in DOMAIN watch
<1>1. watch \in Seq(Event) /\ watch' \in Seq(Event)
  BY PutType DEF TypeOK
<1>2. Len(watch') = Len(watch) + 1
  BY PutType
<1>3. /\ DOMAIN watch = 1..Len(watch) /\ Len(watch) \in Nat
      /\ DOMAIN watch' = 1..(Len(watch) + 1)
  BY <1>1, <1>2
<1>4. /\ watch'[Len(watch) + 1] = [ns |-> n, obj |-> obj]
      /\ \A i \in 1..Len(watch) : watch'[i] = watch[i]
  BY PutType
<1>5. Len(watch) + 1 \in DOMAIN watch'
  BY <1>3
<1> WITNESS Len(watch) + 1 \in DOMAIN watch'
<1> QED BY <1>3, <1>4

LEMMA EventKeysType ==
    ASSUME NEW n \in Namespace, NEW old \in Object \cup {None},
           NEW new \in Object \cup {None}
    PROVE  EventKeys(n, old, new) \subseteq Namespace
<1>1. \A obj \in Object \cup {None} : MapCopyToSource(obj) \subseteq Namespace
  BY KeysFacts, KeysForFacts DEF MapCopyToSource
<1> QED BY <1>1 DEF EventKeys, SourceKeys

LEMMA ResyncKeysType ==
    ASSUME NEW objs \in [Namespace -> Object \cup {None}]
    PROVE  ResyncKeys(objs) \subseteq Namespace
BY EventKeysType DEF ResyncKeys

\* Every step the worker takes inside a reconcile leaves well-typed locals.
LEMMA LocalsType ==
    ASSUME TypeOK, wk \in Busy
    PROVE  /\ wk.key \in Namespace /\ wk.src \in Object
           /\ \A n \in Namespace : Visited(n) \in Busy
           /\ \A n \in Namespace, b \in BOOLEAN : [Visited(n) EXCEPT !.fresh = b] \in Busy
           /\ [wk EXCEPT !.fresh = FALSE] \in Busy
           /\ wk.fresh \in BOOLEAN /\ wk.release \in BOOLEAN
BY DEF Busy, Visited

LEMMA DesiredFacts ==
    ASSUME TypeOK, wk \in Busy, NEW dst \in Object
    PROVE  /\ Desired(dst) \in Object
           /\ Desired(dst).fin = dst.fin /\ Desired(dst).del = dst.del
           /\ ~IsSource(Keys, Desired(dst))
           /\ CopyOrigin(Keys, Desired(dst)) = {wk.key}
           /\ IsManagedCopy(Keys, Desired(dst))
<1>1. None \in Cluster \cup {None}
  OBVIOUS
<1> QED BY <1>1, LocalsType, KeysFacts, MirrorIsCopy DEF Desired

LEMMA FreshFacts ==
    ASSUME TypeOK, wk \in Busy
    PROVE  /\ Fresh \in Object
           /\ Fresh.fin = {} /\ ~Fresh.del
           /\ ~IsSource(Keys, Fresh)
           /\ CopyOrigin(Keys, Fresh) = {wk.key}
<1>1. wk.src.data \in Data
  BY LocalsType DEF Object
<1> QED BY <1>1, EmptyObjectType, DesiredFacts DEF Fresh

LEMMA TypeInit == Init => TypeOK
<1> SUFFICES ASSUME Init PROVE TypeOK
  OBVIOUS
<1>1. api \in [Namespace -> Object \cup {None}]
  BY SyncerAssumption DEF Init
<1>2. queue \subseteq Namespace
  BY <1>1, ResyncKeysType DEF Init
<1>3. namespaces \in [Namespace -> NsState] /\ MaxOps \in Nat
  BY SyncerAssumption DEF Init
<1> QED BY <1>1, <1>2, <1>3 DEF Init, TypeOK

LEMMA TypeBegin ==
    ASSUME TypeOK, NEW k \in Namespace, Begin(k)
    PROVE  TypeOK'
<1>1. CASE Ignore(k)
  BY <1>1 DEF Ignore, TypeOK
<1>2. CASE AddFinalizer(k)
  <2>1. CASE Put(k, ReconcileFinalizer(Keys, cache[k])) /\ queue' = queue \ {k}
    <3>1. ReconcileFinalizer(Keys, cache[k]) \in Object \cup {None}
      BY <1>2, ObjectWrites DEF AddFinalizer, TypeOK
    <3> QED BY <1>2, <2>1, <3>1, PutType DEF AddFinalizer, TypeOK
  <2>2. CASE UNCHANGED <<api, watch>> /\ queue' \subseteq queue
    BY <1>2, <2>2 DEF AddFinalizer, TypeOK
  <2> QED BY <1>2, <2>1, <2>2 DEF AddFinalizer
<1>3. CASE StartFanOut(k)
  <2>1. Targets(k, SyncValue(Keys, cache[k])) \subseteq Namespace
    BY DEF Targets
  <2>2. wk' \in Busy
    BY <1>3, <2>1, KeysFacts DEF StartFanOut, Busy, TypeOK
  <2> QED BY <1>3, <2>2 DEF StartFanOut, TypeOK
<1>4. CASE StartCleanup(k)
  <2>1. wk' \in Busy
    BY <1>4, KeysFacts DEF StartCleanup, Busy, TypeOK, Current
  <2> QED BY <1>4, <2>1 DEF StartCleanup, TypeOK
<1> QED BY <1>1, <1>2, <1>3, <1>4 DEF Begin

LEMMA TypeFail ==
    ASSUME TypeOK, wk \in Busy, Fail
    PROVE  queue' \subseteq Namespace /\ wk' \in {Idle} \cup Busy
BY LocalsType DEF Fail, TypeOK

LEMMA TypeUpsert ==
    ASSUME TypeOK, NEW n \in Namespace,
           CreateCopy(n) \/ LeaveAlone(n) \/ UpdateCopy(n)
    PROVE  TypeOK'
<1>1. wk \in Busy
  BY WorkerType DEF CreateCopy, LeaveAlone, UpdateCopy, AtUpsert, TypeOK
<1>2. Visited(n) \in Busy
  BY <1>1, LocalsType
<1>3. CASE CreateCopy(n)
  <2>1. CASE Put(n, Fresh) /\ wk' = Visited(n) /\ UNCHANGED queue
    BY <1>1, <1>2, <1>3, <2>1, FreshFacts, PutType DEF CreateCopy, TypeOK
  <2>2. CASE wk' = Visited(n) /\ UNCHANGED <<api, watch, queue>>
    BY <1>2, <1>3, <2>2 DEF CreateCopy, TypeOK
  <2>3. CASE Fail /\ UNCHANGED <<api, watch>>
    BY <1>1, <1>3, <2>3, TypeFail DEF CreateCopy, TypeOK
  <2> QED BY <1>3, <2>1, <2>2, <2>3 DEF CreateCopy
<1>4. CASE LeaveAlone(n)
  BY <1>2, <1>4 DEF LeaveAlone, TypeOK
<1>5. CASE UpdateCopy(n)
  <2>1. CASE Put(n, Desired(cache[n])) /\ wk' = Visited(n) /\ UNCHANGED queue
    <3>1. Desired(cache[n]) \in Object \cup {None}
      BY <1>1, <1>5, DesiredFacts DEF UpdateCopy, TypeOK
    <3> QED BY <1>2, <1>5, <2>1, <3>1, PutType DEF UpdateCopy, TypeOK
  <2>2. CASE Fail /\ UNCHANGED <<api, watch>>
    BY <1>1, <1>5, <2>2, TypeFail DEF UpdateCopy, TypeOK
  <2> QED BY <1>5, <2>1, <2>2 DEF UpdateCopy
<1> QED BY <1>3, <1>4, <1>5

LEMMA TypeSweep ==
    ASSUME TypeOK,
           \/ ListCopies \/ FinishPrune \/ ReleaseFinalizer
           \/ \E n \in Namespace : DeleteCopy(n)
    PROVE  TypeOK'
<1>1. wk \in Busy
  BY WorkerType DEF ListCopies, FinishPrune, ReleaseFinalizer, DeleteCopy,
                    LoopDone, TypeOK
<1>2. CASE ListCopies
  <2> DEFINE listed == {n \in Namespace :
                          /\ cache[n] # None
                          /\ MatchesOrigin(cache[n], Head(wk.domains), wk.key)}
  <2>1. Tail(wk.domains) \in Seq(Domain)
    BY <1>1, <1>2 DEF ListCopies, Busy
  <2>2. wk' = [wk EXCEPT !.pc = "sweep",
                         !.todo = listed \ (wk.seen \cup wk.keep),
                         !.seen = @ \cup listed,
                         !.domains = Tail(@)]
    BY <1>2 DEF ListCopies
  <2>3. listed \subseteq Namespace
    OBVIOUS
  <2> HIDE DEF listed
  <2>4. wk' \in Busy
    BY <1>1, <2>1, <2>2, <2>3 DEF Busy
  <2> QED BY <1>2, <2>4 DEF ListCopies, TypeOK
<1>3. CASE FinishPrune
  BY <1>3 DEF FinishPrune, TypeOK
<1>4. CASE ReleaseFinalizer
  <2>1. CASE /\ Put(wk.key, Released(RemoveAllFinalizers(Keys, wk.src)))
             /\ wk' = Idle /\ UNCHANGED queue
    <3>1. Released(RemoveAllFinalizers(Keys, wk.src)) \in Object \cup {None}
      BY <1>1, LocalsType, ObjectWrites
    <3> QED BY <1>1, <1>4, <2>1, <3>1, LocalsType, PutType
            DEF ReleaseFinalizer, TypeOK
  <2>2. CASE wk' = Idle /\ UNCHANGED <<api, watch, queue>>
    BY <1>4, <2>2 DEF ReleaseFinalizer, TypeOK
  <2>3. CASE Fail /\ UNCHANGED <<api, watch>>
    BY <1>1, <1>4, <2>3, TypeFail DEF ReleaseFinalizer, TypeOK
  <2> QED BY <1>4, <2>1, <2>2, <2>3 DEF ReleaseFinalizer
<1>5. ASSUME NEW n \in Namespace, DeleteCopy(n) PROVE TypeOK'
  <2>1. wk' \in Busy
    <3> DEFINE stillFresh == Visited(n).fresh /\ n # wk.key
    <3>1. stillFresh \in BOOLEAN
      BY <1>1, LocalsType
    <3>2. wk' = [Visited(n) EXCEPT !.fresh = stillFresh]
      BY <1>5, <1>1 DEF DeleteCopy, Visited, Busy
    <3> HIDE DEF stillFresh
    <3> QED BY <1>1, <3>1, <3>2, LocalsType
  <2>2. CASE UNCHANGED <<api, watch>>
    BY <1>5, <2>1, <2>2 DEF DeleteCopy, TypeOK
  <2>3. CASE api[n] # None /\ Put(n, Deleted(api[n]))
    <3>1. Deleted(api[n]) \in Object \cup {None}
      BY <2>3, ObjectWrites DEF TypeOK
    <3> QED BY <1>5, <2>1, <2>3, <3>1, PutType DEF DeleteCopy, TypeOK
  <2> QED BY <1>5, <2>2, <2>3 DEF DeleteCopy
<1> QED BY <1>2, <1>3, <1>4, <1>5

\* The head of the watch stream and what is left of it.
LEMMA WatchFacts ==
    ASSUME TypeOK, watch # <<>>
    PROVE  /\ 1 \in DOMAIN watch /\ Head(watch) = watch[1]
           /\ Head(watch) \in Event
           /\ Head(watch).ns \in Namespace
           /\ Head(watch).obj \in Object \cup {None}
           /\ Tail(watch) \in Seq(Event)
           /\ \A i \in DOMAIN Tail(watch) :
                i \in Nat /\ i + 1 \in DOMAIN watch /\ Tail(watch)[i] = watch[i + 1]
           /\ \A i \in DOMAIN watch \ {1} :
                i \in Nat /\ i - 1 \in DOMAIN Tail(watch) /\ Tail(watch)[i - 1] = watch[i]
<1>1. watch \in Seq(Event)
  BY DEF TypeOK
<1>2. Len(watch) \in Nat /\ Len(watch) >= 1 /\ DOMAIN watch = 1..Len(watch)
  BY <1>1
<1>3. Head(watch) = watch[1] /\ watch[1] \in Event
  BY <1>1, <1>2
<1>4. /\ Tail(watch) \in Seq(Event)
      /\ DOMAIN Tail(watch) = 1..(Len(watch) - 1)
      /\ \A i \in 1..(Len(watch) - 1) : Tail(watch)[i] = watch[i + 1]
  BY <1>1, <1>2
<1> QED BY <1>2, <1>3, <1>4 DEF Event

LEMMA TypeInformers == ASSUME TypeOK, Informers PROVE TypeOK'
<1>1. CASE Deliver
  <2>1. watch # <<>>
    BY <1>1 DEF Deliver
  <2>2. /\ Head(watch).ns \in Namespace /\ Head(watch).obj \in Object \cup {None}
        /\ Tail(watch) \in Seq(Event)
    BY <2>1, WatchFacts
  <2>3. EventKeys(Head(watch).ns, cache[Head(watch).ns], Head(watch).obj)
          \subseteq Namespace
    BY <2>2, EventKeysType DEF TypeOK
  <2> QED BY <1>1, <2>2, <2>3 DEF Deliver, TypeOK
<1>2. CASE Resync
  BY <1>2, ResyncKeysType DEF Resync, TypeOK
<1>3. ASSUME NEW n \in Namespace, NsDeliver(n) PROVE TypeOK'
  BY <1>3 DEF NsDeliver, SourceRequests, TypeOK
<1> QED BY <1>1, <1>2, <1>3 DEF Informers

\* Any of the environment's writes, whatever it writes.
LEMMA TypeEnvPut ==
    ASSUME TypeOK, NEW n \in Namespace, NEW obj \in Object \cup {None},
           EnvPut(n, obj)
    PROVE  /\ api' \in [Namespace -> Object \cup {None}]
           /\ cache' \in [Namespace -> Object \cup {None}]
           /\ watch' \in Seq(Event)
           /\ nsCache' \in [Namespace -> NsState]
           /\ queue' \subseteq Namespace
           /\ wk' \in {Idle} \cup Busy
<1>1. wk' \in {Idle} \cup Busy
  <2>1. CASE wk.key # n
    BY <2>1 DEF EnvPut, Touch, TypeOK
  <2>2. CASE wk \in Busy
    BY <2>2, LocalsType DEF EnvPut, Touch
  <2>3. CASE wk = Idle
    <3>1. wk.key # n
      BY <2>3, NoneAssumption DEF Idle
    <3> QED BY <2>1, <3>1
  <2> QED BY <2>2, <2>3 DEF TypeOK
<1> QED BY <1>1, PutType DEF EnvPut, TypeOK

\* What users write is an object.
LEMMA UserWrites ==
    /\ \A obj \in UserObject : obj \in Object /\ obj.fin = {} /\ ~obj.del
    /\ \A obj \in Object, d \in Domain, value \in Selector \cup {None} :
          LET new == [obj EXCEPT !.sync[d] = value] IN
          new \in Object /\ new.fin = obj.fin
    /\ \A obj \in Object, value \in Data :
          LET new == [obj EXCEPT !.data = value] IN
          new \in Object /\ new.fin = obj.fin
BY SyncerAssumption DEF Object

LEMMA TypeEnvironment == ASSUME TypeOK, Environment PROVE TypeOK'
<1> USE DEF May
<1>1. ops' \in 0..MaxOps /\ namespaces' \in [Namespace -> NsState]
  <2>1. MaxOps \in Nat
    BY SyncerAssumption
  <2>2. ops' \in 0..MaxOps
    BY <2>1 DEF Environment, ApiError, Restart, UserCreate, UserAnnotate, UserEdit,
           UserDelete, NsRelabel, NsDelete, NsCreate, NsCollect, NsGone, TypeOK
  <2>3. \A n \in Namespace, state \in NsState :
          NsChange(n, state) => namespaces' \in [Namespace -> NsState]
    BY DEF NsChange, TypeOK
  <2>4. namespaces' \in [Namespace -> NsState]
    BY <2>3 DEF Environment, ApiError, Restart, Relist, UserCreate, UserAnnotate, UserEdit,
           UserDelete, NsRelabel, NsDelete, NsCreate, NsCollect, NsGone, TypeOK,
           NsState
  <2> QED BY <2>2, <2>4
<1>2. CASE ApiError
  <2>1. wk \in Busy
    BY <1>2, WorkerType DEF ApiError, TypeOK
  <2> QED BY <1>1, <1>2, <2>1, TypeFail DEF ApiError, TypeOK
<1>3. CASE Restart
  <2>1. watch' \in Seq(Event)
    BY <1>3 DEF Restart, Relist
  <2> QED BY <1>1, <1>3, <2>1, ResyncKeysType DEF Restart, Relist, TypeOK
<1>4. ASSUME NEW n \in Namespace, NEW obj \in Object \cup {None}, EnvPut(n, obj)
      PROVE  TypeOK'
  BY <1>1, <1>4, TypeEnvPut DEF TypeOK
<1>5. ASSUME NEW n \in Namespace, UserCreate(n) PROVE TypeOK'
  BY <1>4, <1>5, UserWrites DEF UserCreate, Apply
<1>6. ASSUME NEW n \in Namespace, UserAnnotate(n) PROVE TypeOK'
  BY <1>4, <1>6, UserWrites DEF UserAnnotate, Apply, TypeOK
<1>7. ASSUME NEW n \in Namespace, UserEdit(n) PROVE TypeOK'
  BY <1>4, <1>7, UserWrites DEF UserEdit, Apply, TypeOK
<1>8. ASSUME NEW n \in Namespace, UserDelete(n) \/ NsCollect(n) PROVE TypeOK'
  BY <1>4, <1>8, ObjectWrites DEF UserDelete, NsCollect, TypeOK
<1>9. ASSUME NEW n \in Namespace, NEW state, NsChange(n, state) PROVE TypeOK'
  BY <1>1, <1>9 DEF NsChange, TypeOK
<1> QED
  BY <1>2, <1>3, <1>5, <1>6, <1>7, <1>8, <1>9
  DEF Environment, NsRelabel, NsDelete, NsCreate, NsGone

LEMMA TypeNext == TypeOK /\ [Next]_vars => TypeOK'
<1> SUFFICES ASSUME TypeOK, [Next]_vars PROVE TypeOK'
  OBVIOUS
<1>1. CASE UNCHANGED vars
  BY <1>1 DEF vars, TypeOK
<1>2. CASE Next
  BY <1>2, TypeBegin, TypeUpsert, TypeSweep, TypeInformers, TypeEnvironment
  DEF Next, Proceed
<1> QED BY <1>1, <1>2

\* The model's state, and with it the worker's locals between any two steps of
\* reconcileSource, keeps its types.
THEOREM TypeCorrect == Spec => []TypeOK
BY TypeInit, TypeNext, PTL DEF Spec

-----------------------------------------------------------------------------
(* Stale reads *)

\* A source that looks ready holds the primary finalizer in that look.
LEMMA ReadyHasFinalizer ==
    ASSUME NEW obj \in Object, Ready(obj)
    PROVE  HasFinalizer(Keys, obj)
<1>1. obj.fin = (obj.fin \cup {Keys.primary}) \ LegacyDomains(Keys)
  BY DEF Ready, ReconcileFinalizer, Object
<1> QED BY <1>1, KeysFacts DEF HasFinalizer

\* A write to n leaves the cache coherent and n, alone, behind.
LEMMA PutCoherent ==
    ASSUME TypeOK, Coherent, NEW n \in Namespace,
           NEW obj \in Object \cup {None}, Put(n, obj), cache' = cache
    PROVE  /\ Coherent'
           /\ \A m \in Namespace \ {n} : Current(m) => Current(m)'
<1>1. PICK last \in DOMAIN watch' :
        /\ watch'[last].ns = n /\ watch'[last].obj = obj
        /\ \A i \in DOMAIN watch :
             i \in DOMAIN watch' /\ watch'[i] = watch[i] /\ i < last
        /\ \A i \in DOMAIN watch' : i = last \/ i \in DOMAIN watch
  BY PutWatch
<1>2. /\ api'[n] = obj
      /\ \A m \in Namespace \ {n} : api'[m] = api[m]
  BY PutType
<1>3. \A m \in Namespace : Current(m)' => m # n /\ Current(m)
  BY <1>1 DEF Current, Pending
<1>4. \A m \in Namespace \ {n} : Current(m) => Current(m)'
  BY <1>1 DEF Current, Pending
<1>5. \A m \in Namespace : Current(m)' => cache'[m] = api'[m]
  BY <1>2, <1>3 DEF Coherent
<1>6. ASSUME NEW i \in DOMAIN watch',
             \A j \in DOMAIN watch' : i < j => watch'[j].ns # watch'[i].ns
      PROVE  watch'[i].obj = api'[watch'[i].ns]
  <2>1. CASE i = last
    BY <1>1, <1>2, <2>1
  <2>2. CASE i \in DOMAIN watch
    <3>1. watch'[i].ns # n /\ watch'[i] = watch[i]
      BY <1>1, <1>6, <2>2
    <3>2. \A j \in DOMAIN watch : i < j => watch[j].ns # watch[i].ns
      BY <1>1, <1>6, <2>2
    <3>3. watch[i].ns \in Namespace
      BY <2>2, EventType
    <3> QED BY <1>2, <2>2, <3>1, <3>2, <3>3 DEF Coherent
  <2> QED BY <1>1, <2>1, <2>2
<1> QED BY <1>4, <1>5, <1>6 DEF Coherent

\* A write that does not disarm n disarms nobody and leaves every look right.
LEMMA PutArmed ==
    ASSUME TypeOK, ReadyIsArmed, NEW n \in Namespace,
           NEW obj \in Object \cup {None}, Put(n, obj), cache' = cache,
           Armed(n) => obj # None /\ HasFinalizer(Keys, obj)
    PROVE  /\ ReadyIsArmed'
           /\ \A m \in Namespace : Armed(m) => Armed(m)'
<1>1. \A m \in Namespace :
        Armed(m) => api'[m] # None /\ HasFinalizer(Keys, api'[m])
  BY PutObject DEF Armed
<1>2. PICK last \in DOMAIN watch' :
        /\ watch'[last].ns = n /\ watch'[last].obj = obj
        /\ \A i \in DOMAIN watch :
             i \in DOMAIN watch' /\ watch'[i] = watch[i] /\ i < last
        /\ \A i \in DOMAIN watch' : i = last \/ i \in DOMAIN watch
  BY PutWatch
<1>3. ASSUME NEW i \in DOMAIN watch', watch'[i].obj # None, Ready(watch'[i].obj)
      PROVE  /\ api'[watch'[i].ns] # None
             /\ HasFinalizer(Keys, api'[watch'[i].ns])
  <2>1. CASE i = last
    <3>1. watch'[i].ns = n /\ watch'[i].obj = obj /\ api'[n] = obj
      BY <1>2, <2>1, PutObject
    <3> QED BY <1>3, <3>1, ReadyHasFinalizer
  <2>2. CASE i \in DOMAIN watch
    <3>1. watch'[i] = watch[i] /\ watch[i].ns \in Namespace
      BY <1>2, <2>2, EventType
    <3>2. Armed(watch[i].ns)
      BY <1>3, <2>2, <3>1 DEF ReadyIsArmed
    <3> QED BY <1>1, <3>1, <3>2
  <2> QED BY <1>2, <2>1, <2>2
<1>4. \A m \in Namespace : cache'[m] # None /\ Ready(cache'[m]) => Armed(m)
  BY DEF ReadyIsArmed
<1>5. ReadyIsArmed'
  BY <1>1, <1>3, <1>4 DEF ReadyIsArmed, Armed
<1> QED BY <1>1, <1>5 DEF Armed

\* Steps that write nothing leave cache, stream and API server as they are.
LEMMA NoWrite ==
    ASSUME Coherent, ReadyIsArmed, UNCHANGED <<api, cache, watch>>
    PROVE  /\ Coherent' /\ ReadyIsArmed'
           /\ \A m \in Namespace : Armed(m) => Armed(m)'
           /\ \A m \in Namespace : Current(m) => Current(m)'
BY DEF Coherent, ReadyIsArmed, Armed, Current, Pending

\* A write that does not disarm, by anyone.
LEMMA ArmedWrite ==
    ASSUME TypeOK, Coherent, ReadyIsArmed, NEW n \in Namespace,
           NEW obj \in Object \cup {None}, Put(n, obj), cache' = cache,
           Armed(n) => obj # None /\ HasFinalizer(Keys, obj)
    PROVE  /\ Coherent' /\ ReadyIsArmed'
           /\ \A m \in Namespace : Armed(m) => Armed(m)'
           /\ \A m \in Namespace \ {n} : Current(m) => Current(m)'
BY PutCoherent, PutArmed

\* The worker's part of the invariant once it is idle, and while a fan-out or
\* a cleanup goes on.
LEMMA IdleWorker == ASSUME wk' = Idle PROVE WorkerOK'
BY DEF WorkerOK

LEMMA WorkerGoesOn ==
    ASSUME TypeOK, WorkerOK, wk \in Busy, wk'.pc \in {wk.pc, "sweep"},
           wk'.key = wk.key, wk'.src = wk.src, wk'.release = wk.release,
           wk'.fresh \in BOOLEAN,
           wk'.fresh => /\ wk.fresh /\ Current(wk.key)'
                        /\ cache'[wk.key] = cache[wk.key],
           \A m \in Namespace : Armed(m) => Armed(m)'
    PROVE  WorkerOK'
<1>1. wk # Idle /\ wk.key \in Namespace /\ wk.release \in BOOLEAN
  BY LocalsType, WorkerType DEF TypeOK
<1>2. /\ wk.pc = "upsert" => ~wk.release
      /\ ~wk.release => Armed(wk.key) /\ ~wk.fresh
      /\ wk.release => ~Ready(wk.src)
      /\ wk.fresh => cache[wk.key] = wk.src
  BY <1>1 DEF WorkerOK
<1>3. ~wk.release => api'[wk.key] # None /\ HasFinalizer(Keys, api'[wk.key])
  BY <1>1, <1>2 DEF Armed
<1>4. wk'.fresh => Current(wk.key)' /\ cache'[wk'.key] = wk'.src
  BY <1>2
<1> QED BY <1>2, <1>3, <1>4 DEF WorkerOK, Armed

LEMMA BeginSafe ==
    ASSUME TypeOK, StaleReadsAreSafe, NEW k \in Namespace, Begin(k)
    PROVE  StaleReadsAreSafe'
<1> USE DEF StaleReadsAreSafe
<1>1. cache[k] # None => cache[k] \in Object
  BY DEF TypeOK
<1>2. CASE Ignore(k)
  BY <1>2, NoWrite, IdleWorker DEF Ignore, Take
<1>3. CASE AddFinalizer(k)
  <2>1. WorkerOK'
    BY <1>3, IdleWorker DEF AddFinalizer, Take
  <2>2. CASE Put(k, ReconcileFinalizer(Keys, cache[k]))
    <3> DEFINE obj == ReconcileFinalizer(Keys, cache[k])
    <3>1. obj \in Object
      BY <1>1, <1>3, ObjectWrites DEF AddFinalizer
    <3>2. HasFinalizer(Keys, obj)
      BY <1>1, <1>3, KeysFacts DEF AddFinalizer, HasFinalizer, ReconcileFinalizer, Object
    <3>3. cache' = cache
      BY <1>3 DEF AddFinalizer
    <3> HIDE DEF obj
    <3>4. Put(k, obj)
      BY <2>2 DEF obj
    <3>5. Coherent' /\ ReadyIsArmed'
      BY <3>1, <3>2, <3>3, <3>4, NoneAssumption, ArmedWrite
    <3> QED BY <2>1, <3>5
  <2>3. CASE UNCHANGED <<api, watch>>
    BY <1>3, <2>1, <2>3, NoWrite DEF AddFinalizer
  <2> QED BY <1>3, <2>2, <2>3 DEF AddFinalizer
<1>4. CASE StartFanOut(k)
  <2>1. Armed(k) /\ UNCHANGED <<api, cache, watch>>
    BY <1>4 DEF StartFanOut, ReadyIsArmed
  <2>2. api'[k] # None /\ HasFinalizer(Keys, api'[k])
    BY <2>1 DEF Armed
  <2>3. WorkerOK'
    BY <1>4, <2>2 DEF StartFanOut, WorkerOK, Armed
  <2> QED BY <2>1, <2>3, NoWrite
<1>5. CASE StartCleanup(k)
  <2>1. ~Ready(cache[k]) /\ UNCHANGED <<api, cache, watch>>
    BY <1>5 DEF StartCleanup, NeedsCleanup, Ready
  <2>2. Current(k)' = Current(k)
    BY <2>1 DEF Current, Pending
  <2>3. wk'.pc = "sweep" /\ wk'.key = k /\ wk'.src = cache[k]
        /\ wk'.release /\ wk'.fresh = Current(k)
    BY <1>5 DEF StartCleanup
  <2>4. WorkerOK'
    BY <2>1, <2>2, <2>3 DEF WorkerOK, Current, Pending
  <2> QED BY <2>1, <2>4, NoWrite
<1> QED BY <1>2, <1>3, <1>4, <1>5 DEF Begin

LEMMA UpsertSafe ==
    ASSUME TypeOK, StaleReadsAreSafe, NEW n \in Namespace,
           CreateCopy(n) \/ LeaveAlone(n) \/ UpdateCopy(n)
    PROVE  StaleReadsAreSafe'
<1> USE DEF StaleReadsAreSafe
<1>1. wk \in Busy /\ ~wk.release /\ ~wk.fresh
  BY WorkerType DEF CreateCopy, LeaveAlone, UpdateCopy, AtUpsert, TypeOK, WorkerOK
<1>2. /\ Visited(n).pc = wk.pc /\ Visited(n).key = wk.key
      /\ Visited(n).src = wk.src /\ Visited(n).release = wk.release
      /\ Visited(n).fresh = FALSE
  BY <1>1, LocalsType DEF Visited, Busy
<1>3. cache' = cache
  BY DEF CreateCopy, LeaveAlone, UpdateCopy
<1>4. CASE wk' = Visited(n) /\ UNCHANGED <<api, watch>>
  BY <1>1, <1>2, <1>3, <1>4, NoWrite, WorkerGoesOn
<1>5. CASE Fail /\ UNCHANGED <<api, watch>>
  BY <1>3, <1>5, NoWrite, IdleWorker DEF Fail
<1>6. ASSUME wk' = Visited(n), NEW obj \in Object, Put(n, obj),
             Armed(n) => HasFinalizer(Keys, obj)
      PROVE  StaleReadsAreSafe'
  <2>1. /\ Coherent' /\ ReadyIsArmed'
        /\ \A m \in Namespace : Armed(m) => Armed(m)'
    BY <1>3, <1>6, ArmedWrite, NoneAssumption
  <2> QED BY <1>1, <1>2, <1>6, <2>1, WorkerGoesOn
<1>7. CASE CreateCopy(n)
  <2>1. CASE api[n] = None /\ Put(n, Fresh) /\ wk' = Visited(n)
    <3>1. ~Armed(n)
      BY <2>1 DEF Armed
    <3> QED BY <1>1, <1>6, <2>1, <3>1, FreshFacts
  <2> QED BY <1>4, <1>5, <1>7, <2>1 DEF CreateCopy
<1>8. CASE LeaveAlone(n)
  BY <1>4, <1>8 DEF LeaveAlone
<1>9. CASE UpdateCopy(n)
  <2>1. CASE Current(n) /\ Put(n, Desired(cache[n])) /\ wk' = Visited(n)
    <3>1. cache[n] = api[n] /\ cache[n] \in Object
      BY <1>9, <2>1 DEF UpdateCopy, Coherent, TypeOK
    <3>2. /\ Desired(cache[n]) \in Object
          /\ Desired(cache[n]).fin = cache[n].fin
      BY <1>1, <3>1, DesiredFacts
    <3>3. Armed(n) => HasFinalizer(Keys, Desired(cache[n]))
      BY <3>1, <3>2 DEF Armed, HasFinalizer
    <3> QED BY <1>6, <2>1, <3>2, <3>3
  <2> QED BY <1>5, <1>9, <2>1 DEF UpdateCopy
<1> QED BY <1>7, <1>8, <1>9

\* Deleting an object either keeps its finalizers or finds none to keep.
LEMMA DeletedKeepsArmed ==
    ASSUME TypeOK, NEW n \in Namespace, api[n] # None
    PROVE  /\ Deleted(api[n]) \in Object \cup {None}
           /\ Armed(n) => /\ Deleted(api[n]) # None
                          /\ HasFinalizer(Keys, Deleted(api[n]))
<1>1. api[n] \in Object
  BY DEF TypeOK
<1>2. CASE api[n].fin = {}
  BY <1>1, <1>2, ObjectWrites DEF Armed, HasFinalizer
<1>3. CASE api[n].fin # {}
  <2>1. Deleted(api[n]) = [api[n] EXCEPT !.del = TRUE]
    BY <1>3 DEF Deleted
  <2>2. Deleted(api[n]) \in Object /\ Deleted(api[n]).fin = api[n].fin
    BY <1>1, <2>1 DEF Object
  <2> QED BY <2>2, NoneAssumption DEF Armed, HasFinalizer
<1> QED BY <1>2, <1>3

\* Releasing a source: every look at it that is left is one that is not ready.
LEMMA ReleaseSafe ==
    ASSUME TypeOK, StaleReadsAreSafe, wk \in Busy, wk.release, wk.fresh,
           Put(wk.key, Released(RemoveAllFinalizers(Keys, wk.src))), cache' = cache
    PROVE  Coherent' /\ ReadyIsArmed'
<1> DEFINE k == wk.key
           obj == Released(RemoveAllFinalizers(Keys, wk.src))
<1>1. /\ k \in Namespace /\ Current(k) /\ cache[k] = wk.src
      /\ wk.src \in Object /\ ~Ready(wk.src)
  BY LocalsType, WorkerType DEF StaleReadsAreSafe, WorkerOK, TypeOK
<1>2. obj \in Object \cup {None}
  BY <1>1, ObjectWrites
<1>3. obj # None => obj \in Object /\ ~Ready(obj)
  <2>1. CASE obj = RemoveAllFinalizers(Keys, wk.src)
    <3>1. obj \in Object /\ obj.fin \cap Honoured(Keys) = {}
      BY <1>1, <2>1, ObjectWrites DEF RemoveAllFinalizers, Object
    <3> HIDE DEF obj
    <3> QED BY <3>1, ReadyHasFinalizer DEF HasFinalizer
  <2> QED BY <2>1 DEF Released
<1> HIDE DEF obj
<1>4. Put(k, obj)
  BY DEF obj
<1>5. Coherent'
  BY <1>1, <1>2, <1>4, PutCoherent DEF StaleReadsAreSafe
<1>6. PICK last \in DOMAIN watch' :
        /\ watch'[last].ns = k /\ watch'[last].obj = obj
        /\ \A i \in DOMAIN watch :
             i \in DOMAIN watch' /\ watch'[i] = watch[i] /\ i < last
        /\ \A i \in DOMAIN watch' : i = last \/ i \in DOMAIN watch
  BY <1>1, <1>2, <1>4, PutWatch
<1>7. \A m \in Namespace \ {k} : Armed(m) =>
        api'[m] # None /\ HasFinalizer(Keys, api'[m])
  BY <1>1, <1>2, <1>4, PutType DEF Armed
<1>8. ASSUME NEW i \in DOMAIN watch', watch'[i].obj # None, Ready(watch'[i].obj)
      PROVE  /\ api'[watch'[i].ns] # None
             /\ HasFinalizer(Keys, api'[watch'[i].ns])
  <2>1. i \in DOMAIN watch /\ watch'[i] = watch[i]
    BY <1>3, <1>6, <1>8
  <2>2. watch[i].ns \in Namespace \ {k}
    BY <1>1, <2>1, EventType DEF Current, Pending
  <2>3. Armed(watch[i].ns)
    BY <1>8, <2>1 DEF StaleReadsAreSafe, ReadyIsArmed
  <2> QED BY <1>7, <2>1, <2>2, <2>3
<1>9. ASSUME NEW m \in Namespace, cache'[m] # None, Ready(cache'[m])
      PROVE  api'[m] # None /\ HasFinalizer(Keys, api'[m])
  <2>1. m # k /\ Armed(m)
    BY <1>1, <1>9 DEF StaleReadsAreSafe, ReadyIsArmed
  <2> QED BY <1>7, <2>1
<1> QED BY <1>5, <1>8, <1>9 DEF ReadyIsArmed, Armed

LEMMA SweepSafe ==
    ASSUME TypeOK, StaleReadsAreSafe,
           \/ ListCopies \/ FinishPrune \/ ReleaseFinalizer
           \/ \E n \in Namespace : DeleteCopy(n)
    PROVE  StaleReadsAreSafe'
<1> USE DEF StaleReadsAreSafe
<1>1. wk \in Busy
  BY WorkerType DEF ListCopies, FinishPrune, ReleaseFinalizer, DeleteCopy,
                    LoopDone, TypeOK
<1>2. wk.key \in Namespace /\ wk.release \in BOOLEAN /\ wk.fresh \in BOOLEAN
  BY <1>1, LocalsType
<1>3. ASSUME wk'.pc = "sweep", wk'.key = wk.key, wk'.src = wk.src,
             wk'.release = wk.release, wk'.fresh \in BOOLEAN, cache' = cache,
             wk'.fresh => wk.fresh /\ Current(wk.key)',
             \A m \in Namespace : Armed(m) => Armed(m)'
      PROVE  WorkerOK'
  BY <1>1, <1>3, WorkerGoesOn
<1>4. CASE ListCopies
  <2>1. UNCHANGED <<api, cache, watch>>
    BY <1>4 DEF ListCopies
  <2>2. /\ wk'.pc = "sweep" /\ wk'.key = wk.key /\ wk'.src = wk.src
        /\ wk'.release = wk.release /\ wk'.fresh = wk.fresh
    BY <1>1, <1>4 DEF ListCopies, Busy
  <2>3. wk.fresh => Current(wk.key)
    BY <1>1, WorkerType DEF WorkerOK, TypeOK
  <2>4. /\ Coherent' /\ ReadyIsArmed'
        /\ \A m \in Namespace : Armed(m) => Armed(m)'
        /\ \A m \in Namespace : Current(m) => Current(m)'
    BY <2>1, NoWrite
  <2>5. wk.fresh => Current(wk.key)'
    BY <2>1, <2>2, <2>3 DEF Current, Pending
  <2> QED BY <1>2, <1>3, <2>1, <2>2, <2>4, <2>5
<1>5. CASE FinishPrune
  BY <1>5, NoWrite, IdleWorker DEF FinishPrune
<1>6. CASE ReleaseFinalizer
  <2>1. cache' = cache /\ wk.release
    BY <1>6 DEF ReleaseFinalizer
  <2>2. WorkerOK'
    BY <1>6, IdleWorker DEF ReleaseFinalizer, Fail
  <2>3. CASE wk.fresh /\ Put(wk.key, Released(RemoveAllFinalizers(Keys, wk.src)))
    BY <1>1, <2>1, <2>2, <2>3, ReleaseSafe
  <2>4. CASE UNCHANGED <<api, watch>>
    BY <2>1, <2>2, <2>4, NoWrite
  <2> QED BY <1>6, <2>3, <2>4 DEF ReleaseFinalizer
<1>7. ASSUME NEW n \in Namespace, DeleteCopy(n) PROVE StaleReadsAreSafe'
  <2>1. cache' = cache
    BY <1>7 DEF DeleteCopy
  <2>2. /\ wk'.pc = "sweep" /\ wk'.key = wk.key /\ wk'.src = wk.src
        /\ wk'.release = wk.release
        /\ wk'.fresh = (wk.fresh /\ n # wk.key)
    BY <1>1, <1>7 DEF DeleteCopy, Visited, Busy
  <2>3. wk.fresh => Current(wk.key)
    BY <1>1, WorkerType DEF WorkerOK, TypeOK
  <2>4. CASE UNCHANGED <<api, watch>>
    <3>1. /\ Coherent' /\ ReadyIsArmed'
          /\ \A m \in Namespace : Armed(m) => Armed(m)'
      BY <2>1, <2>4, NoWrite
    <3>2. wk.fresh => Current(wk.key)'
      BY <2>2, <2>3, <2>4 DEF Current, Pending
    <3> QED BY <1>2, <1>3, <2>1, <2>2, <3>1, <3>2
  <2>5. CASE api[n] # None /\ Put(n, Deleted(api[n]))
    <3>1. /\ Coherent' /\ ReadyIsArmed'
          /\ \A m \in Namespace : Armed(m) => Armed(m)'
          /\ \A m \in Namespace \ {n} : Current(m) => Current(m)'
      BY <2>1, <2>5, DeletedKeepsArmed, ArmedWrite
    <3>2. wk.fresh /\ n # wk.key => Current(wk.key)'
      BY <1>2, <2>2, <2>3, <3>1 DEF Current, Pending
    <3> QED BY <1>2, <1>3, <2>1, <2>2, <3>1, <3>2
  <2> QED BY <1>7, <2>4, <2>5 DEF DeleteCopy
<1> QED BY <1>4, <1>5, <1>6, <1>7

LEMMA InformersSafe ==
    ASSUME TypeOK, StaleReadsAreSafe, Informers
    PROVE  StaleReadsAreSafe'
<1> USE DEF StaleReadsAreSafe
<1>1. UNCHANGED <<api, wk>>
  BY DEF Informers, Deliver, Resync, NsDeliver
<1>2. \A m \in Namespace : Armed(m) => Armed(m)'
  BY <1>1 DEF Armed
<1>3. ASSUME wk.fresh /\ wk # Idle =>
               Current(wk.key)' /\ cache'[wk.key] = cache[wk.key]
      PROVE  WorkerOK'
  <2>1. CASE wk = Idle
    BY <1>1, <2>1, IdleWorker
  <2>2. CASE wk # Idle
    <3>1. wk \in Busy /\ wk.fresh \in BOOLEAN
      BY <2>2, WorkerType, LocalsType DEF TypeOK
    <3> QED BY <1>1, <1>2, <1>3, <2>2, <3>1, WorkerGoesOn
  <2> QED BY <2>1, <2>2
<1>4. CASE UNCHANGED <<api, cache, watch>>
  <2>1. wk.fresh /\ wk # Idle => Current(wk.key)'
    BY <1>1, <1>4 DEF WorkerOK, Current, Pending
  <2> QED BY <1>3, <1>4, <2>1, NoWrite
<1>5. CASE Deliver
  <2>1. watch # <<>> /\ watch' = Tail(watch)
    BY <1>5 DEF Deliver
  <2>2. PICK e \in Event : e = Head(watch)
    BY <2>1, WatchFacts
  <2>3. /\ \A i \in DOMAIN watch' :
             i \in Nat /\ i + 1 \in DOMAIN watch /\ watch'[i] = watch[i + 1]
        /\ \A i \in DOMAIN watch \ {1} :
             i \in Nat /\ i - 1 \in DOMAIN watch' /\ watch'[i - 1] = watch[i]
    BY <2>1, WatchFacts
  <2>4. /\ 1 \in DOMAIN watch /\ e = watch[1]
        /\ e.ns \in Namespace /\ cache'[e.ns] = e.obj
        /\ \A m \in Namespace \ {e.ns} : cache'[m] = cache[m]
    <3>1. e = watch[1] /\ 1 \in DOMAIN watch /\ e.ns \in Namespace
      BY <2>1, <2>2, WatchFacts
    <3>2. cache' = [cache EXCEPT ![e.ns] = e.obj]
      BY <1>5, <2>2 DEF Deliver
    <3> QED BY <3>1, <3>2 DEF TypeOK
  <2>5. \A m \in Namespace : Current(m) => m # e.ns /\ Current(m)'
    BY <2>3, <2>4 DEF Current, Pending
  <2>6. \A m \in Namespace \ {e.ns} : Current(m)' => Current(m)
    BY <2>3, <2>4 DEF Current, Pending
  <2>7. Current(e.ns)' => e.obj = api[e.ns]
    <3> SUFFICES ASSUME Current(e.ns)' PROVE e.obj = api[e.ns]
      OBVIOUS
    <3>1. \A j \in DOMAIN watch \ {1} : watch[j].ns # e.ns
      BY <2>3 DEF Current, Pending
    <3>2. \A j \in DOMAIN watch : 1 < j => watch[j].ns # watch[1].ns
      BY <2>4, <3>1
    <3> QED BY <2>4, <3>2 DEF Coherent
  <2>8. \A m \in Namespace : Current(m)' => cache'[m] = api'[m]
    BY <1>1, <2>4, <2>6, <2>7 DEF Coherent
  <2>9. ASSUME NEW i \in DOMAIN watch',
               \A j \in DOMAIN watch' : i < j => watch'[j].ns # watch'[i].ns
        PROVE  watch'[i].obj = api'[watch'[i].ns]
    <3>1. ASSUME NEW j \in DOMAIN watch, i + 1 < j
          PROVE  watch[j].ns # watch[i + 1].ns
      <4>1. j \in DOMAIN watch \ {1} /\ i < j - 1
        BY <2>3, <3>1
      <4> QED BY <2>3, <2>9, <4>1
    <3> QED BY <1>1, <2>3, <3>1 DEF Coherent
  <2>10. Coherent'
    BY <2>8, <2>9 DEF Coherent
  <2>11. ReadyIsArmed'
    BY <1>1, <2>3, <2>4 DEF ReadyIsArmed, Armed
  <2>12. WorkerOK'
    <3>1. ASSUME wk.fresh, wk # Idle
          PROVE  Current(wk.key)' /\ cache'[wk.key] = cache[wk.key]
      <4>1. wk.key \in Namespace /\ Current(wk.key)
        BY <3>1, WorkerType, LocalsType DEF WorkerOK, TypeOK
      <4>2. wk.key # e.ns /\ \A i \in DOMAIN watch' : watch'[i].ns # wk.key
        BY <2>3, <2>4, <4>1 DEF Current, Pending
      <4> QED BY <1>1, <2>4, <4>1, <4>2 DEF Current, Pending
    <3> QED BY <1>3, <3>1
  <2> QED BY <2>10, <2>11, <2>12
<1> QED BY <1>4, <1>5 DEF Informers, Resync, NsDeliver

\* Users and the namespace controller never disarm a source.
LEMMA EnvPutSafe ==
    ASSUME TypeOK, StaleReadsAreSafe, NEW n \in Namespace,
           NEW obj \in Object \cup {None}, EnvPut(n, obj),
           Armed(n) => obj # None /\ HasFinalizer(Keys, obj)
    PROVE  StaleReadsAreSafe'
<1> USE DEF StaleReadsAreSafe
<1>1. cache' = cache /\ Put(n, obj)
  BY DEF EnvPut
<1>2. /\ Coherent' /\ ReadyIsArmed'
      /\ \A m \in Namespace : Armed(m) => Armed(m)'
      /\ \A m \in Namespace \ {n} : Current(m) => Current(m)'
  BY <1>1, ArmedWrite
<1>3. CASE wk = Idle
  <2>1. wk.key # n
    BY <1>3, NoneAssumption DEF Idle
  <2> QED BY <1>2, <1>3, <2>1, IdleWorker DEF EnvPut, Touch
<1>4. CASE wk \in Busy
  <2>1. /\ wk.key \in Namespace /\ wk.fresh \in BOOLEAN
        /\ wk.fresh => Current(wk.key)
    BY <1>4, LocalsType, WorkerType DEF WorkerOK, TypeOK
  <2>2. /\ wk'.pc = wk.pc /\ wk'.key = wk.key /\ wk'.src = wk.src
        /\ wk'.release = wk.release
        /\ wk'.fresh = (wk.fresh /\ wk.key # n)
    BY <1>4, <2>1 DEF EnvPut, Touch, Busy
  <2>3. wk'.fresh => Current(wk.key)'
    BY <1>2, <2>1, <2>2 DEF Current, Pending
  <2> QED BY <1>1, <1>2, <1>4, <2>2, <2>3, <2>1, WorkerGoesOn
<1> QED BY <1>3, <1>4 DEF TypeOK

\* What a list returns is the present, for a start and for a restart.
LEMMA RelistSafe ==
    ASSUME TypeOK', cache' = api', watch' = <<>>, wk' = Idle
    PROVE  StaleReadsAreSafe'
<1>1. DOMAIN watch' = {}
  OBVIOUS
<1>2. Coherent' /\ WorkerOK'
  BY <1>1 DEF Coherent, WorkerOK
<1>3. ASSUME NEW n \in Namespace, api'[n] # None, Ready(api'[n])
      PROVE  HasFinalizer(Keys, api'[n])
  BY <1>3, ReadyHasFinalizer DEF TypeOK
<1>4. ReadyIsArmed'
  BY <1>1, <1>3 DEF ReadyIsArmed, Armed
<1> QED BY <1>2, <1>4 DEF StaleReadsAreSafe

LEMMA EnvironmentSafe ==
    ASSUME TypeOK, StaleReadsAreSafe, Environment
    PROVE  StaleReadsAreSafe'
<1>1. CASE ApiError
  BY <1>1, NoWrite, IdleWorker DEF ApiError, Fail, StaleReadsAreSafe
<1>2. CASE Restart
  <2>1. TypeOK'
    BY TypeEnvironment
  <2> QED BY <1>2, <2>1, RelistSafe DEF Restart, Relist
<1>3. ASSUME NEW n \in Namespace, UserCreate(n) PROVE StaleReadsAreSafe'
  <2>1. PICK obj \in UserObject : EnvPut(n, obj)
    BY <1>3 DEF UserCreate, Apply
  <2>2. ~Armed(n)
    BY <1>3 DEF UserCreate, Armed
  <2> QED BY <2>1, <2>2, UserWrites, EnvPutSafe
<1>4. ASSUME NEW n \in Namespace, NEW obj \in Object,
             EnvPut(n, obj), obj.fin = api[n].fin
      PROVE  StaleReadsAreSafe'
  BY <1>4, NoneAssumption, EnvPutSafe DEF Armed, HasFinalizer
<1>5. ASSUME NEW n \in Namespace, UserAnnotate(n) PROVE StaleReadsAreSafe'
  <2>1. PICK d \in Domain, value \in Selector \cup {None} :
          EnvPut(n, [api[n] EXCEPT !.sync[d] = value])
    BY <1>5 DEF UserAnnotate, Apply
  <2>2. api[n] \in Object
    BY <1>5 DEF UserAnnotate, TypeOK
  <2> DEFINE new == [api[n] EXCEPT !.sync[d] = value]
  <2>3. new \in Object /\ new.fin = api[n].fin
    BY <2>2, UserWrites
  <2>4. EnvPut(n, new)
    BY <2>1
  <2> HIDE DEF new
  <2> QED BY <1>4, <2>3, <2>4
<1>6. ASSUME NEW n \in Namespace, UserEdit(n) PROVE StaleReadsAreSafe'
  <2>1. PICK value \in Data : EnvPut(n, [api[n] EXCEPT !.data = value])
    BY <1>6 DEF UserEdit, Apply
  <2>2. api[n] \in Object
    BY <1>6 DEF UserEdit, TypeOK
  <2> QED BY <1>4, <2>1, <2>2, UserWrites
<1>7. ASSUME NEW n \in Namespace, UserDelete(n) \/ NsCollect(n)
      PROVE  StaleReadsAreSafe'
  <2>1. api[n] # None /\ EnvPut(n, Deleted(api[n]))
    BY <1>7 DEF UserDelete, NsCollect
  <2> QED BY <2>1, DeletedKeepsArmed, EnvPutSafe
<1>8. ASSUME NEW n \in Namespace, NEW state, NsChange(n, state)
      PROVE  StaleReadsAreSafe'
  <2>1. UNCHANGED <<api, cache, watch, wk>>
    BY <1>8 DEF NsChange
  <2> QED BY <2>1 DEF StaleReadsAreSafe, Coherent, ReadyIsArmed, WorkerOK, Armed,
                      Current, Pending
<1> QED
  BY <1>1, <1>2, <1>3, <1>5, <1>6, <1>7, <1>8
  DEF Environment, NsRelabel, NsDelete, NsCreate, NsGone

LEMMA StaleInit == Init => StaleReadsAreSafe
<1> SUFFICES ASSUME Init PROVE StaleReadsAreSafe
  OBVIOUS
<1>1. cache = api /\ DOMAIN watch = {} /\ wk = Idle /\ TypeOK
  BY TypeInit DEF Init
<1>2. Coherent /\ WorkerOK
  BY <1>1 DEF Coherent, WorkerOK
<1>3. ReadyIsArmed
  BY <1>1, ReadyHasFinalizer DEF ReadyIsArmed, Armed, TypeOK
<1> QED BY <1>2, <1>3 DEF StaleReadsAreSafe

LEMMA StaleNext == TypeOK /\ StaleReadsAreSafe /\ [Next]_vars => StaleReadsAreSafe'
<1> SUFFICES ASSUME TypeOK, StaleReadsAreSafe, [Next]_vars PROVE StaleReadsAreSafe'
  OBVIOUS
<1>1. CASE UNCHANGED vars
  BY <1>1 DEF vars, StaleReadsAreSafe, Coherent, ReadyIsArmed, WorkerOK, Armed,
              Current, Pending
<1>2. CASE Next
  BY <1>2, BeginSafe, UpsertSafe, SweepSafe, InformersSafe, EnvironmentSafe
  DEF Next, Proceed
<1> QED BY <1>1, <1>2

\* However old what the controller has read, a write it is allowed to make was
\* decided from the present, and a source that ever looks ready is armed until
\* the controller itself releases it.
THEOREM StaleReads == Spec => []StaleReadsAreSafe
BY TypeInit, TypeNext, StaleInit, StaleNext, PTL DEF Spec

-----------------------------------------------------------------------------
(* What is left to do *)

\* A step other than a delivery writes at most one object or lists them all.
OneWrite ==
    \/ UNCHANGED <<api, cache, watch>>
    \/ cache' = cache /\ \E n \in Namespace, obj \in Object \cup {None} : Put(n, obj)

ViewStep == OneWrite \/ Relist

\* The worker stops, goes on with its source, or starts with one from the cache.
WorkerStep ==
    \/ wk' \in {wk, Idle}
    \/ /\ wk \in Busy /\ wk' \in Busy
       /\ wk'.key = wk.key /\ wk'.src = wk.src /\ wk'.release = wk.release
    \/ \E k \in Namespace :
          /\ wk = Idle /\ cache[k] # None /\ wk'.key = k /\ wk'.src = cache[k]
          /\ ~wk'.release => IsSource(Keys, cache[k])

LEMMA BeginViews ==
    ASSUME TypeOK, NEW k \in Namespace, Begin(k)
    PROVE  ViewStep /\ WorkerStep
<1>1. CASE Ignore(k)
  BY <1>1 DEF Ignore, ViewStep, OneWrite, WorkerStep
<1>2. CASE AddFinalizer(k)
  <2>1. ReconcileFinalizer(Keys, cache[k]) \in Object \cup {None}
    BY <1>2, ObjectWrites DEF AddFinalizer, TypeOK
  <2> QED BY <1>2, <2>1 DEF AddFinalizer, ViewStep, OneWrite, WorkerStep
<1>3. CASE StartFanOut(k)
  BY <1>3 DEF StartFanOut, Take, Ready, ViewStep, OneWrite, WorkerStep
<1>4. CASE StartCleanup(k)
  BY <1>4 DEF StartCleanup, Take, ViewStep, OneWrite, WorkerStep
<1> QED BY <1>1, <1>2, <1>3, <1>4 DEF Begin

LEMMA ProceedViews ==
    ASSUME TypeOK, Proceed
    PROVE  ViewStep /\ WorkerStep
<1> DEFINE Goes == /\ wk \in Busy /\ wk' \in Busy
                   /\ wk'.key = wk.key /\ wk'.src = wk.src
                   /\ wk'.release = wk.release
<1>1. ASSUME NEW n \in Namespace, wk \in Busy, wk' = Visited(n) PROVE Goes
  BY <1>1, LocalsType DEF Visited, Busy
<1>2. ASSUME NEW n \in Namespace, CreateCopy(n) \/ LeaveAlone(n) \/ UpdateCopy(n)
      PROVE  ViewStep /\ WorkerStep
  <2>1. wk \in Busy
    BY <1>2, WorkerType DEF CreateCopy, LeaveAlone, UpdateCopy, AtUpsert, TypeOK
  <2>2. WorkerStep
    <3>1. Goes \/ wk' = Idle
      BY <1>1, <1>2, <2>1 DEF CreateCopy, LeaveAlone, UpdateCopy, Fail
    <3> QED BY <3>1 DEF WorkerStep
  <2>3. CASE CreateCopy(n)
    <3>1. Fresh \in Object
      BY <2>1, FreshFacts
    <3> QED BY <2>2, <2>3, <3>1 DEF CreateCopy, ViewStep, OneWrite
  <2>4. CASE UpdateCopy(n)
    <3>1. Desired(cache[n]) \in Object
      BY <2>1, <2>4, DesiredFacts DEF UpdateCopy, TypeOK
    <3> QED BY <2>2, <2>4, <3>1 DEF UpdateCopy, ViewStep, OneWrite
  <2>5. CASE LeaveAlone(n)
    BY <2>2, <2>5 DEF LeaveAlone, ViewStep, OneWrite
  <2> QED BY <1>2, <2>3, <2>4, <2>5
<1>3. ASSUME NEW n \in Namespace, DeleteCopy(n)
      PROVE  ViewStep /\ WorkerStep
  <2>1. wk \in Busy
    BY <1>3, WorkerType DEF DeleteCopy, TypeOK
  <2>2. WorkerStep
    <3> DEFINE stillFresh == Visited(n).fresh /\ n # wk.key
    <3>1. stillFresh \in BOOLEAN /\ wk' = [Visited(n) EXCEPT !.fresh = stillFresh]
      BY <1>3 DEF DeleteCopy
    <3> HIDE DEF stillFresh
    <3>2. wk' \in Busy
      BY <2>1, <3>1, LocalsType
    <3>3. wk'.key = wk.key /\ wk'.src = wk.src /\ wk'.release = wk.release
      BY <2>1, <3>1 DEF Visited, Busy
    <3> QED BY <2>1, <3>2, <3>3 DEF WorkerStep
  <2>3. CASE UNCHANGED <<api, watch>>
    BY <1>3, <2>2, <2>3 DEF DeleteCopy, ViewStep, OneWrite
  <2>4. CASE api[n] # None /\ Put(n, Deleted(api[n]))
    <3>1. Deleted(api[n]) \in Object \cup {None}
      BY <2>4, ObjectWrites DEF TypeOK
    <3> QED BY <1>3, <2>2, <2>4, <3>1 DEF DeleteCopy, ViewStep, OneWrite
  <2> QED BY <1>3, <2>3, <2>4 DEF DeleteCopy
<1>4. CASE ListCopies
  <2>1. wk \in Busy
    BY <1>4, WorkerType DEF ListCopies, LoopDone, TypeOK
  <2>2. /\ wk'.key = wk.key /\ wk'.src = wk.src /\ wk'.release = wk.release
        /\ wk'.pc = "sweep"
    BY <1>4, <2>1 DEF ListCopies, Busy
  <2>3. wk' \in {Idle} \cup Busy
    BY <1>4, TypeSweep DEF TypeOK
  <2>4. wk' \in Busy
    BY <2>2, <2>3 DEF Idle
  <2> QED BY <1>4, <2>1, <2>2, <2>4 DEF ListCopies, ViewStep, OneWrite, WorkerStep
<1>5. CASE FinishPrune
  BY <1>5 DEF FinishPrune, ViewStep, OneWrite, WorkerStep
<1>6. CASE ReleaseFinalizer
  <2>1. wk \in Busy
    BY <1>6, WorkerType DEF ReleaseFinalizer, LoopDone, TypeOK
  <2>2. /\ wk.key \in Namespace
        /\ Released(RemoveAllFinalizers(Keys, wk.src)) \in Object \cup {None}
    BY <2>1, LocalsType, ObjectWrites
  <2> QED BY <1>6, <2>2 DEF ReleaseFinalizer, Fail, ViewStep, OneWrite, WorkerStep
<1> QED BY <1>2, <1>3, <1>4, <1>5, <1>6 DEF Proceed

LEMMA EnvironmentViews ==
    ASSUME TypeOK, Environment
    PROVE  ViewStep /\ WorkerStep
<1>1. ASSUME NEW n \in Namespace, NEW obj \in Object \cup {None}, EnvPut(n, obj)
      PROVE  ViewStep /\ WorkerStep
  <2>1. WorkerStep
    <3>1. CASE wk' = wk
      BY <3>1 DEF WorkerStep
    <3>2. CASE wk' # wk
      <4>1. wk \in Busy /\ wk' = [wk EXCEPT !.fresh = FALSE]
        BY <1>1, <3>2, WorkerType, NoneAssumption DEF EnvPut, Touch, Idle, TypeOK
      <4>2. wk' \in Busy
        BY <4>1, LocalsType
      <4> QED BY <4>1, <4>2 DEF WorkerStep, Busy
    <3> QED BY <3>1, <3>2
  <2> QED BY <1>1, <2>1 DEF EnvPut, ViewStep, OneWrite
<1>2. \A n \in Namespace : api[n] # None => api[n] \in Object
  BY DEF TypeOK
<1>3. ASSUME NEW n \in Namespace, UserCreate(n) PROVE ViewStep /\ WorkerStep
  BY <1>1, <1>3, UserWrites DEF UserCreate, Apply
<1>4. ASSUME NEW n \in Namespace, UserAnnotate(n) PROVE ViewStep /\ WorkerStep
  BY <1>1, <1>2, <1>4, UserWrites DEF UserAnnotate, Apply
<1>5. ASSUME NEW n \in Namespace, UserEdit(n) PROVE ViewStep /\ WorkerStep
  BY <1>1, <1>2, <1>5, UserWrites DEF UserEdit, Apply
<1>6. ASSUME NEW n \in Namespace, UserDelete(n) \/ NsCollect(n)
      PROVE  ViewStep /\ WorkerStep
  BY <1>1, <1>2, <1>6, ObjectWrites DEF UserDelete, NsCollect
<1>7. ASSUME NEW n \in Namespace,
             NsRelabel(n) \/ NsDelete(n) \/ NsCreate(n) \/ NsGone(n)
      PROVE  ViewStep /\ WorkerStep
  BY <1>7 DEF NsRelabel, NsDelete, NsCreate, NsGone, NsChange, ViewStep, OneWrite, WorkerStep
<1>8. CASE ApiError
  BY <1>8 DEF ApiError, Fail, ViewStep, OneWrite, WorkerStep
<1>9. CASE Restart
  BY <1>9 DEF Restart, Relist, ViewStep, WorkerStep
<1> QED BY <1>3, <1>4, <1>5, <1>6, <1>7, <1>8, <1>9 DEF Environment

LEMMA EveryView ==
    ASSUME TypeOK, [Next]_vars
    PROVE  (ViewStep \/ Deliver) /\ WorkerStep
<1>1. CASE UNCHANGED vars
  BY <1>1 DEF vars, ViewStep, OneWrite, WorkerStep
<1>2. CASE Informers
  BY <1>2 DEF Informers, Deliver, Resync, NsDeliver, ViewStep, OneWrite, WorkerStep
<1> QED BY <1>1, <1>2, BeginViews, ProceedViews, EnvironmentViews DEF Next

\* What waits to be seen keeps waiting, unless it is delivered or listed anew.
LEMMA StillPending ==
    ASSUME TypeOK, NEW m \in Namespace,
           \/ UNCHANGED watch
           \/ \E n \in Namespace, obj \in Object \cup {None} : Put(n, obj)
    PROVE  Pending(m) => Pending(m)'
<1>1. CASE UNCHANGED watch
  BY <1>1 DEF Pending
<1>2. ASSUME NEW n \in Namespace, NEW obj \in Object \cup {None}, Put(n, obj)
      PROVE  Pending(m) => Pending(m)'
  BY <1>2, PutWatch DEF Pending
<1> QED BY <1>1, <1>2

LEMMA PutPending ==
    ASSUME TypeOK, NEW n \in Namespace, NEW obj \in Object \cup {None}, Put(n, obj)
    PROVE  Pending(n)'
BY PutWatch DEF Pending

\* A step that takes no key from the queue and ends no cleanup forgets nothing.
LEMMA StillMinded ==
    ASSUME TypeOK, NothingForgotten, cache' = cache,
           \/ UNCHANGED watch
           \/ \E n \in Namespace, obj \in Object \cup {None} : Put(n, obj),
           NEW S \in SUBSET Namespace,
           \A m \in Namespace \ S :
              /\ m \in queue => m \in queue'
              /\ Cleaning(m) => Cleaning(m)' \/ m \in queue',
           \A m \in S : Unfinished(cache[m]) =>
                           m \in queue' \/ Pending(m)' \/ Cleaning(m)'
    PROVE  NothingForgotten'
<1>1. SUFFICES ASSUME NEW m \in Namespace, Unfinished(cache[m])
               PROVE  m \in queue' \/ Pending(m)' \/ Cleaning(m)'
  BY DEF NothingForgotten, Unfinished
<1>2. CASE m \in S
  BY <1>1, <1>2
<1>3. CASE m \notin S
  BY <1>1, <1>3, StillPending DEF NothingForgotten
<1> QED BY <1>2, <1>3

LEMMA AllStillMinded ==
    ASSUME TypeOK, NothingForgotten, cache' = cache,
           \/ UNCHANGED watch
           \/ \E n \in Namespace, obj \in Object \cup {None} : Put(n, obj),
           queue \subseteq queue',
           \A m \in Namespace : Cleaning(m) => Cleaning(m)' \/ m \in queue'
    PROVE  NothingForgotten'
<1> DEFINE S == {}
<1>1. S \in SUBSET Namespace
  OBVIOUS
<1>2. \A m \in Namespace \ S :
        /\ m \in queue => m \in queue'
        /\ Cleaning(m) => Cleaning(m)' \/ m \in queue'
  OBVIOUS
<1>3. \A m \in S : Unfinished(cache[m]) =>
                      m \in queue' \/ Pending(m)' \/ Cleaning(m)'
  OBVIOUS
<1> HIDE DEF S
<1> QED BY <1>1, <1>2, <1>3, StillMinded

\* An object that is gone, and known to be gone, is nobody's task.
LEMMA GoneIsPending ==
    ASSUME Coherent, NEW k \in Namespace, api[k] = None, Unfinished(cache[k])
    PROVE  Pending(k)
BY DEF Coherent, Current, Unfinished

LEMMA BeginForgetsNothing ==
    ASSUME TypeOK, StaleReadsAreSafe, NothingForgotten, NEW k \in Namespace, Begin(k)
    PROVE  NothingForgotten'
<1>1. wk = Idle \/ UNCHANGED wk
  BY DEF Begin, Ignore, AddFinalizer, StartFanOut, StartCleanup, Take
<1>2. wk = Idle => \A m : ~Cleaning(m)
  BY DEF Cleaning
<1>3. ASSUME wk = Idle, cache' = cache, queue' = queue \ {k},
             \/ UNCHANGED watch
             \/ \E n \in Namespace, obj \in Object \cup {None} : Put(n, obj),
             Unfinished(cache[k]) => Pending(k)' \/ Cleaning(k)'
      PROVE  NothingForgotten'
  <2>1. \A m \in Namespace \ {k} : m \in queue => m \in queue'
    BY <1>3
  <2> QED BY <1>2, <1>3, <2>1, StillMinded
<1>4. CASE Ignore(k)
  <2>1. ~Unfinished(cache[k])
    BY <1>4 DEF Ignore, Unfinished
  <2> QED BY <1>3, <1>4, <2>1 DEF Ignore, Take
<1>5. CASE AddFinalizer(k)
  <2>1. ReconcileFinalizer(Keys, cache[k]) \in Object \cup {None}
    BY <1>5, ObjectWrites DEF AddFinalizer, TypeOK
  <2>2. CASE Put(k, ReconcileFinalizer(Keys, cache[k])) /\ queue' = queue \ {k}
    BY <1>3, <1>5, <2>1, <2>2, PutPending DEF AddFinalizer, Take
  <2>3. CASE api[k] = None /\ queue' = queue \ {k} /\ UNCHANGED watch
    <3>1. Unfinished(cache[k]) => Pending(k)'
      BY <2>3, GoneIsPending DEF StaleReadsAreSafe, Pending
    <3> QED BY <1>3, <1>5, <2>3, <3>1 DEF AddFinalizer, Take
  <2>4. CASE UNCHANGED <<watch, queue>>
    BY <1>5, <2>4 DEF AddFinalizer, NothingForgotten, Pending, Cleaning, Unfinished
  <2> QED BY <1>5, <2>2, <2>3, <2>4 DEF AddFinalizer
<1>6. CASE StartFanOut(k)
  <2>1. ~Unfinished(cache[k])
    BY <1>6 DEF StartFanOut, Unfinished, Ready, NeedsFinalizer, NeedsCleanup
  <2> QED BY <1>3, <1>6, <2>1 DEF StartFanOut, Take
<1>7. CASE StartCleanup(k)
  <2>1. Cleaning(k)'
    BY <1>7 DEF StartCleanup, Cleaning, Idle
  <2> QED BY <1>3, <1>7, <2>1 DEF StartCleanup, Take
<1> QED BY <1>4, <1>5, <1>6, <1>7 DEF Begin

LEMMA ProceedForgetsNothing ==
    ASSUME TypeOK, StaleReadsAreSafe, NothingForgotten, Proceed
    PROVE  NothingForgotten'
<1>1. ASSUME cache' = cache, queue \subseteq queue',
             \/ UNCHANGED watch
             \/ \E n \in Namespace, obj \in Object \cup {None} : Put(n, obj),
             \A m \in Namespace : Cleaning(m) => Cleaning(m)' \/ m \in queue'
      PROVE  NothingForgotten'
  BY <1>1, AllStillMinded
<1>2. ASSUME NEW n \in Namespace, CreateCopy(n) \/ LeaveAlone(n) \/ UpdateCopy(n)
      PROVE  NothingForgotten'
  <2>1. wk \in Busy /\ ~wk.release
    BY <1>2, WorkerType DEF CreateCopy, LeaveAlone, UpdateCopy, AtUpsert, TypeOK,
                           StaleReadsAreSafe, WorkerOK
  <2>2. /\ Fresh \in Object
        /\ cache[n] # None => Desired(cache[n]) \in Object
    BY <2>1, FreshFacts, DesiredFacts DEF TypeOK
  <2>3. \A m \in Namespace : ~Cleaning(m)
    BY <2>1 DEF Cleaning
  <2>4. CASE CreateCopy(n)
    BY <1>1, <2>2, <2>3, <2>4 DEF CreateCopy, Fail
  <2>5. CASE UpdateCopy(n)
    BY <1>1, <2>2, <2>3, <2>5 DEF UpdateCopy, Fail
  <2>6. CASE LeaveAlone(n)
    BY <1>1, <2>3, <2>6 DEF LeaveAlone
  <2> QED BY <1>2, <2>4, <2>5, <2>6
<1>3. ASSUME NEW n \in Namespace, DeleteCopy(n) PROVE NothingForgotten'
  <2>1. wk \in Busy
    BY <1>3, WorkerType DEF DeleteCopy, TypeOK
  <2>2. wk'.key = wk.key /\ wk'.release = wk.release /\ wk' # Idle
    BY <1>3, <2>1 DEF DeleteCopy, Visited, Busy, Idle
  <2>3. \A m \in Namespace : Cleaning(m) => Cleaning(m)'
    BY <2>2 DEF Cleaning
  <2>4. CASE UNCHANGED <<api, watch>>
    BY <1>1, <1>3, <2>3, <2>4 DEF DeleteCopy
  <2>5. CASE api[n] # None /\ Put(n, Deleted(api[n]))
    <3>1. Deleted(api[n]) \in Object \cup {None}
      BY <2>5, ObjectWrites DEF TypeOK
    <3> QED BY <1>1, <1>3, <2>3, <2>5, <3>1 DEF DeleteCopy
  <2> QED BY <1>3, <2>4, <2>5 DEF DeleteCopy
<1>4. CASE ListCopies
  <2>1. wk \in Busy
    BY <1>4, WorkerType DEF ListCopies, LoopDone, TypeOK
  <2>2. wk'.key = wk.key /\ wk'.release = wk.release /\ wk' # Idle
    BY <1>4, <2>1 DEF ListCopies, Busy, Idle
  <2> QED BY <1>1, <1>4, <2>2 DEF ListCopies, Cleaning
<1>5. CASE FinishPrune
  BY <1>1, <1>5 DEF FinishPrune, Cleaning
<1>6. CASE ReleaseFinalizer
  <2>1. wk \in Busy
    BY <1>6, WorkerType DEF ReleaseFinalizer, LoopDone, TypeOK
  <2>2. /\ wk.key \in Namespace
        /\ Released(RemoveAllFinalizers(Keys, wk.src)) \in Object \cup {None}
    BY <2>1, LocalsType, ObjectWrites
  <2>3. PICK k \in Namespace : k = wk.key
    BY <2>2
  <2>4. /\ cache' = cache /\ queue \subseteq queue'
        /\ \A m \in Namespace : Cleaning(m) => m = k
    BY <1>6, <2>3 DEF ReleaseFinalizer, Fail, Cleaning
  <2>5. ASSUME \/ UNCHANGED watch
               \/ \E n \in Namespace, obj \in Object \cup {None} : Put(n, obj),
               Unfinished(cache[k]) => k \in queue' \/ Pending(k)'
        PROVE  NothingForgotten'
    <3> DEFINE S == {k}
    <3>1. S \in SUBSET Namespace
      OBVIOUS
    <3>2. \A m \in Namespace \ S :
             /\ m \in queue => m \in queue'
             /\ Cleaning(m) => Cleaning(m)' \/ m \in queue'
      BY <2>4
    <3>3. \A m \in S : Unfinished(cache[m]) =>
                          m \in queue' \/ Pending(m)' \/ Cleaning(m)'
      BY <2>5
    <3> HIDE DEF S
    <3> QED BY <2>4, <2>5, <3>1, <3>2, <3>3, StillMinded
  <2>6. CASE Put(wk.key, Released(RemoveAllFinalizers(Keys, wk.src)))
    <3>1. Put(k, Released(RemoveAllFinalizers(Keys, wk.src)))
      BY <2>3, <2>6
    <3>2. Pending(k)'
      BY <2>2, <3>1, PutPending
    <3> QED BY <2>2, <2>5, <3>1, <3>2
  <2>7. CASE api[wk.key] = None /\ UNCHANGED watch
    <3>1. Unfinished(cache[k]) => Pending(k)
      BY <2>3, <2>7, GoneIsPending DEF StaleReadsAreSafe
    <3>2. Pending(k) => Pending(k)'
      BY <2>7 DEF Pending
    <3> QED BY <2>5, <2>7, <3>1, <3>2
  <2>8. CASE Fail /\ UNCHANGED watch
    BY <2>3, <2>5, <2>8 DEF Fail
  <2> QED BY <1>6, <2>6, <2>7, <2>8 DEF ReleaseFinalizer
<1> QED BY <1>2, <1>3, <1>4, <1>5, <1>6 DEF Proceed

LEMMA InformersForgetNothing ==
    ASSUME TypeOK, NothingForgotten, Informers
    PROVE  NothingForgotten'
<1>1. UNCHANGED <<api, wk>> /\ \A m : Cleaning(m)' <=> Cleaning(m)
  BY DEF Informers, Deliver, Resync, NsDeliver, Cleaning
<1>2. CASE Deliver
  <2> DEFINE e == Head(watch)
  <2>1. /\ watch # <<>> /\ e.ns \in Namespace /\ e.obj \in Object \cup {None}
        /\ watch' = Tail(watch)
        /\ cache' = [cache EXCEPT ![e.ns] = e.obj]
        /\ queue' = queue \cup EventKeys(e.ns, cache[e.ns], e.obj)
    BY <1>2, WatchFacts DEF Deliver
  <2>2. \A m \in Namespace \ {e.ns} : cache'[m] = cache[m]
    BY <2>1 DEF TypeOK
  <2>3. cache'[e.ns] = e.obj
    BY <2>1 DEF TypeOK
  <2>4. Unfinished(e.obj) => e.ns \in queue'
    BY <2>1 DEF Unfinished, NeedsFinalizer, NeedsCleanup, EventKeys, SourceKeys
  <2>5. ASSUME NEW m \in Namespace \ {e.ns}, Pending(m) PROVE Pending(m)'
    <3>1. PICK i \in DOMAIN watch : watch[i].ns = m
      BY <2>5 DEF Pending
    <3>2. i \in DOMAIN watch \ {1}
      BY <2>1, <2>5, <3>1, WatchFacts
    <3> QED BY <2>1, <3>1, <3>2, WatchFacts DEF Pending
  <2> HIDE DEF e
  <2>6. ASSUME NEW m \in Namespace, Unfinished(cache'[m])
        PROVE  m \in queue' \/ Pending(m)' \/ Cleaning(m)'
    <3>1. CASE m = e.ns
      BY <2>3, <2>4, <2>6, <3>1
    <3>2. CASE m # e.ns
      BY <1>1, <2>1, <2>2, <2>5, <2>6, <3>2 DEF NothingForgotten
    <3> QED BY <3>1, <3>2
  <2> QED BY <2>6 DEF NothingForgotten, Unfinished
<1>3. CASE Resync \/ \E n \in Namespace : NsDeliver(n)
  <2>1. cache' = cache /\ watch' = watch /\ queue \subseteq queue'
    BY <1>3 DEF Resync, NsDeliver
  <2> QED BY <1>1, <2>1, AllStillMinded
<1> QED BY <1>2, <1>3 DEF Informers

\* A list brings every unfinished source up again.
LEMMA RelistForgetsNothing ==
    ASSUME cache' = api', queue' = ResyncKeys(api')
    PROVE  NothingForgotten'
<1>1. SUFFICES ASSUME NEW n \in Namespace, Unfinished(cache'[n]) PROVE n \in queue'
  BY DEF NothingForgotten, Unfinished
<1>2. n \in EventKeys(n, api'[n], api'[n])
  BY <1>1 DEF Unfinished, NeedsFinalizer, NeedsCleanup, EventKeys, SourceKeys
<1> QED BY <1>2 DEF ResyncKeys

LEMMA EnvironmentForgetsNothing ==
    ASSUME TypeOK, NothingForgotten, Environment
    PROVE  NothingForgotten'
<1>1. CASE Relist
  BY <1>1, RelistForgetsNothing DEF Relist
<1>2. CASE ~Relist
  <2>1. ~Restart /\ OneWrite
    BY <1>2, EnvironmentViews DEF Restart, ViewStep
  <2>2. CASE ApiError
    <3>1. cache' = cache /\ watch' = watch /\ queue' = queue \cup {wk.key}
      BY <2>2 DEF ApiError, Fail
    <3>2. \A m \in Namespace : Cleaning(m) => m \in queue'
      BY <3>1 DEF Cleaning
    <3> QED BY <3>1, <3>2, AllStillMinded
  <2>3. CASE ~ApiError
    <3>1. UNCHANGED <<cache, queue>> /\ (wk' = wk \/ \E n \in Namespace : Touch(n))
      BY <2>1, <2>3 DEF Environment, UserCreate, UserAnnotate, UserEdit, UserDelete,
           Apply, EnvPut, NsRelabel, NsDelete, NsCreate, NsCollect, NsGone, NsChange
    <3>2. ASSUME NEW n \in Namespace, Touch(n), wk \in Busy
          PROVE  wk'.key = wk.key /\ wk'.release = wk.release /\ wk' # Idle
      BY <3>2 DEF Touch, Busy, Idle
    <3>3. \A m \in Namespace : Cleaning(m) => Cleaning(m)'
      BY <3>1, <3>2 DEF Cleaning, TypeOK
    <3> QED BY <2>1, <3>1, <3>3, AllStillMinded DEF OneWrite
  <2> QED BY <2>2, <2>3
<1> QED BY <1>1, <1>2

LEMMA ForgetInit == Init => NothingForgotten
<1> SUFFICES ASSUME Init PROVE NothingForgotten
  OBVIOUS
<1>1. SUFFICES ASSUME NEW n \in Namespace, Unfinished(cache[n]) PROVE n \in queue
  BY DEF NothingForgotten
<1>2. n \in EventKeys(n, api[n], api[n])
  BY <1>1 DEF Init, Unfinished, NeedsFinalizer, NeedsCleanup, EventKeys, SourceKeys
<1> QED BY <1>2 DEF Init, ResyncKeys

LEMMA ForgetNext ==
    ASSUME TypeOK, StaleReadsAreSafe, NothingForgotten, [Next]_vars
    PROVE  NothingForgotten'
<1>1. CASE UNCHANGED vars
  BY <1>1 DEF vars, NothingForgotten, Pending, Cleaning
<1> QED BY <1>1, BeginForgetsNothing, ProceedForgetsNothing, InformersForgetNothing,
           EnvironmentForgetsNothing DEF Next

\* Through errors, conflicts, denials, crashes and lost races, a source whose
\* finalizer is missing or has to go waits in the queue, is about to be seen
\* anew, or is being cleaned up.
THEOREM FinalizersAreMinded == Spec => []NothingForgotten
<1>1. TypeOK /\ StaleReadsAreSafe /\ NothingForgotten /\ [Next]_vars => NothingForgotten'
  BY ForgetNext
<1> QED BY <1>1, TypeInit, TypeNext, StaleInit, StaleNext, ForgetInit, PTL DEF Spec

-----------------------------------------------------------------------------
(* What the controller writes *)

\* Changing finalizers or the deletion timestamp is not a rewrite.
LEMMA SameContent ==
    ASSUME NEW obj \in Object
    PROVE  /\ ContentEqual(obj, obj)
           /\ ContentEqual(obj, ReconcileFinalizer(Keys, obj))
           /\ Deleted(obj) # None => ContentEqual(obj, Deleted(obj))
           /\ LET left == Released(RemoveAllFinalizers(Keys, obj)) IN
              left # None => ContentEqual(obj, left)
BY DEF ContentEqual, ReconcileFinalizer, RemoveAllFinalizers, Deleted, Released, Object

\* A namespace the step does not write is neither.
LEMMA Untouched ==
    ASSUME TypeOK, NEW n \in Namespace, api'[n] = api[n]
    PROVE  ~Appears(n) /\ ~Rewritten(n)
BY SameContent DEF Appears, Rewritten, TypeOK

LEMMA Reshaped ==
    ASSUME TypeOK, NEW m \in Namespace, api[m] # None,
           NEW obj \in Object \cup {None}, Put(m, obj),
           obj # None => ContentEqual(api[m], obj)
    PROVE  \A n \in Namespace : ~Appears(n) /\ ~Rewritten(n)
<1> TAKE n \in Namespace
<1>1. CASE n = m
  BY <1>1, PutType DEF Appears, Rewritten
<1>2. CASE n # m
  BY <1>2, PutType, Untouched
<1> QED BY <1>1, <1>2

\* What a rewrite leaves is the current source's copy.
LEMMA DesiredWrite ==
    ASSUME TypeOK, wk \in Busy, NEW n \in Namespace, api[n] # None,
           Put(n, Desired(api[n]))
    PROVE  CopyOrigin(Keys, api'[n]) = {wk.key}
<1>1. api[n] \in Object
  BY DEF TypeOK
<1>2. Desired(api[n]) \in Object /\ CopyOrigin(Keys, Desired(api[n])) = {wk.key}
  BY <1>1, DesiredFacts
<1>3. api'[n] = Desired(api[n])
  BY <1>2, PutType
<1> QED BY <1>2, <1>3

\* The only steps of the controller that fill a namespace or change what it
\* holds are the two writes of upsertCopy, and they write over the present.
LEMMA ControllerWrites ==
    ASSUME TypeOK, StaleReadsAreSafe, [Next]_vars, ControllerStep,
           NEW n \in Namespace, Appears(n) \/ Rewritten(n)
    PROVE  /\ wk \in Busy /\ wk.pc = "upsert" /\ UNCHANGED cache
           /\ \/ api[n] = None /\ Put(n, Fresh)
              \/ /\ api[n] # None /\ Writes(api[n])
                 /\ Put(n, Desired(api[n]))
<1> USE DEF StaleReadsAreSafe
<1>1. api'[n] # api[n]
  BY Untouched
<1>2. \A m \in Namespace : Current(m) => cache[m] = api[m]
  BY DEF Coherent
<1>3. ASSUME NEW k \in Namespace, Begin(k) PROVE FALSE
  <2>1. PICK obj \in Object : obj = cache[k] /\ AddFinalizer(k)
    BY <1>1, <1>3 DEF Begin, Ignore, AddFinalizer, StartFanOut, StartCleanup, TypeOK
  <2>2. Current(k) /\ Put(k, ReconcileFinalizer(Keys, obj))
    BY <1>1, <2>1 DEF AddFinalizer
  <2>3. api[k] = obj /\ api[k] # None
    BY <1>2, <2>1, <2>2, NoneAssumption
  <2> QED BY <2>2, <2>3, ObjectWrites, SameContent, Reshaped
<1>4. ASSUME NEW m \in Namespace, api[m] # None, Put(m, Deleted(api[m])) PROVE FALSE
  <2>1. api[m] \in Object
    BY <1>4 DEF TypeOK
  <2> QED BY <1>4, <2>1, ObjectWrites, SameContent, Reshaped
<1>5. ASSUME ReleaseFinalizer PROVE FALSE
  <2>1. /\ wk \in Busy /\ wk.fresh
        /\ Put(wk.key, Released(RemoveAllFinalizers(Keys, wk.src)))
    BY <1>1, <1>5, WorkerType DEF ReleaseFinalizer, LoopDone, TypeOK
  <2>2. /\ wk.key \in Namespace /\ wk.src \in Object
        /\ api[wk.key] = wk.src /\ api[wk.key] # None
    BY <1>2, <2>1, LocalsType, WorkerType, NoneAssumption DEF WorkerOK, TypeOK
  <2> QED BY <2>1, <2>2, ObjectWrites, SameContent, Reshaped
<1>6. ASSUME Environment PROVE FALSE
  <2>1. PICK m \in Namespace : NsCollect(m)
    BY <1>1, <1>6 DEF Environment, ControllerStep, May, ApiError, Restart, UserCreate,
         UserAnnotate, UserEdit, UserDelete, NsRelabel, NsDelete, NsCreate, NsGone,
         NsChange, TypeOK
  <2> QED BY <1>4, <2>1 DEF NsCollect, EnvPut
<1>7. PICK m \in Namespace : CreateCopy(m) \/ UpdateCopy(m)
  <2>1. Next
    BY <1>1 DEF vars
  <2>2. ~Informers /\ ~ListCopies /\ ~FinishPrune
    BY <1>1 DEF Informers, Deliver, Resync, NsDeliver, ListCopies, FinishPrune
  <2>3. \A m \in Namespace : ~LeaveAlone(m) /\ ~DeleteCopy(m)
    BY <1>1, <1>4 DEF LeaveAlone, DeleteCopy
  <2> QED BY <1>3, <1>5, <1>6, <2>1, <2>2, <2>3 DEF Next, Proceed
<1>8. wk \in Busy /\ wk.pc = "upsert" /\ UNCHANGED cache
  BY <1>7, WorkerType DEF CreateCopy, UpdateCopy, AtUpsert, TypeOK
<1>9. CASE CreateCopy(m)
  <2>1. api[m] = None /\ Put(m, Fresh)
    BY <1>1, <1>9 DEF CreateCopy
  <2>2. m = n
    <3>1. Fresh \in Object
      BY <1>8, FreshFacts
    <3> QED BY <1>1, <2>1, <3>1, PutObject
  <2> QED BY <1>8, <2>1, <2>2
<1>10. CASE UpdateCopy(m)
  <2>1. /\ Current(m) /\ cache[m] # None /\ Writes(cache[m])
        /\ Put(m, Desired(cache[m]))
    BY <1>1, <1>10 DEF UpdateCopy
  <2>2. cache[m] = api[m] /\ api[m] \in Object
    BY <1>2, <2>1 DEF TypeOK
  <2>3. m = n
    <3>1. Desired(api[m]) \in Object
      BY <1>8, <2>2, DesiredFacts
    <3> QED BY <1>1, <2>1, <2>2, <3>1, PutObject
  <2> QED BY <1>8, <2>1, <2>2, <2>3
<1> QED BY <1>7, <1>9, <1>10

\* No copy is made or rewritten for a source that no longer holds a finalizer.
THEOREM CopiesUnderFinalizer == Spec => CopiesOnlyUnderFinalizer
<1>1. ASSUME TypeOK, StaleReadsAreSafe, [Next]_vars
      PROVE  \A n \in Namespace :
               ControllerStep /\ (Appears(n) \/ Rewritten(n)) =>
                 \E s \in CopyOrigin(Keys, api'[n]) : Armed(s)
  <2> SUFFICES ASSUME NEW n \in Namespace, ControllerStep,
                      Appears(n) \/ Rewritten(n)
               PROVE  \E s \in CopyOrigin(Keys, api'[n]) : Armed(s)
    OBVIOUS
  <2>1. /\ wk \in Busy /\ wk.pc = "upsert"
        /\ \/ api[n] = None /\ Put(n, Fresh)
           \/ api[n] # None /\ Put(n, Desired(api[n]))
    BY <1>1, ControllerWrites
  <2>2. Armed(wk.key)
    BY <1>1, <2>1, WorkerType DEF StaleReadsAreSafe, WorkerOK, TypeOK
  <2>3. CopyOrigin(Keys, api'[n]) = {wk.key}
    <3>1. CASE Put(n, Fresh)
      BY <1>1, <2>1, <3>1, FreshFacts, PutType
    <3>2. CASE api[n] # None /\ Put(n, Desired(api[n]))
      BY <1>1, <2>1, <3>2, DesiredWrite
    <3> QED BY <2>1, <3>1, <3>2
  <2> QED BY <2>2, <2>3
<1> QED BY <1>1, TypeCorrect, StaleReads, PTL DEF Spec, CopiesOnlyUnderFinalizer

\* First writer wins: what the controller writes over was its own copy, and
\* stays it, or was marked as free to take.
THEOREM FirstWriter == Spec => FirstWriterWins
<1>1. ASSUME TypeOK, StaleReadsAreSafe, [Next]_vars
      PROVE  \A n \in Namespace :
               ControllerStep /\ Rewritten(n) =>
                 IF IsManagedCopy(Keys, api[n])
                 THEN CopyOrigin(Keys, api[n]) = CopyOrigin(Keys, api'[n])
                 ELSE IsAdoptable(api[n])
  <2> SUFFICES ASSUME NEW n \in Namespace, ControllerStep, Rewritten(n),
                      IsManagedCopy(Keys, api[n]) \/ ~IsAdoptable(api[n])
               PROVE  /\ IsManagedCopy(Keys, api[n])
                      /\ CopyOrigin(Keys, api[n]) = CopyOrigin(Keys, api'[n])
    OBVIOUS
  <2>1. /\ wk \in Busy /\ Writes(api[n]) /\ Put(n, Desired(api[n]))
        /\ api[n] # None
    BY <1>1, ControllerWrites DEF Rewritten
  <2>2. IsManagedCopy(Keys, api[n]) /\ Mine(api[n])
    BY <2>1 DEF Writes
  <2>3. wk.key # None
    BY <1>1, <2>1, LocalsType, NoneAssumption
  <2>4. CopyOrigin(Keys, api[n]) = {wk.key}
    BY <2>2, <2>3 DEF Mine, OwnsCopy, CopyOrigin
  <2>5. CopyOrigin(Keys, api'[n]) = {wk.key}
    BY <1>1, <2>1, DesiredWrite
  <2> QED BY <2>2, <2>4, <2>5
<1> QED BY <1>1, TypeCorrect, StaleReads, PTL DEF Spec, FirstWriterWins
=============================================================================
