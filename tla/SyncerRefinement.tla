--------------------------- MODULE SyncerRefinement ---------------------------
(***************************************************************************)
(* The Syncer implements CopyOwnership; if a cleanup lists a level cache,  *)
(* with complete sweeps, and no copy outlives its source's finalizer.      *)
(* And what marks of which domain objects come to carry, which is what a   *)
(* change of domains needs to know.                                        *)
(***************************************************************************)
EXTENDS SyncerProofs

\* Users do not write Replikate's labels themselves.
UsersStampNothing == \A obj \in UserObject : ~IsManagedCopy(Keys, obj)

(* What a step may do to the objects *)

\* upsertCopy's two writes.
Creates(n) ==
    /\ wk \in Busy /\ wk.pc = "upsert"
    /\ api[n] = None /\ Put(n, Fresh)

Rewrites(n) ==
    /\ wk \in Busy /\ wk.pc = "upsert"
    /\ api[n] # None /\ Writes(api[n]) /\ Put(n, Desired(api[n]))

\* A user's object appears, past the webhook if there is one.
Occupies(n) ==
    api[n] = None /\ \E obj \in UserObject : Admitted(n, obj) /\ Put(n, obj)

\* What an object says of itself as a copy stays as it is.
SameMarks(old, new) ==
    /\ new.stamp = old.stamp /\ new.kubed = old.kubed
    /\ old.del => new.del

\* One domain's annotation is set or taken away.
Annotates(old, new) ==
    /\ IsManagedCopy(Keys, old) => "Chain" \in EnvOps
    /\ \E d \in Domain :
          /\ d \in Honoured(Keys) \/ "Ahead" \in EnvOps
          /\ \A e \in Domain \ {d} : new.sync[e] = old.sync[e]

\* An object is annotated, edited, marked as deleted or removed.
Ages(n) ==
    /\ api[n] # None
    /\ \E obj \in Object \cup {None} :
          /\ Put(n, obj)
          /\ obj = None => api[n].fin = {}
          /\ obj # None =>
                /\ SameMarks(api[n], obj) /\ obj.fin = api[n].fin
                /\ \/ obj.sync = api[n].sync
                   \/ Admitted(n, obj) /\ Annotates(api[n], obj)

\* A source gets its finalizer, or loses it at the end of a cleanup.
Arms(n) == api[n] # None /\ ~api[n].del /\ Put(n, ReconcileFinalizer(Keys, api[n]))

Disarms(n) ==
    /\ wk \in Busy /\ wk.release /\ wk.key = n
    /\ wk.todo = {} /\ wk.domains = <<>>
    /\ api[n] # None
    /\ Put(n, Released(RemoveAllFinalizers(Keys, api[n])))

\* Steps that change no object, and the six ways of changing one.
ApiStep ==
    \/ UNCHANGED api
    \/ \E n \in Namespace :
          \/ Creates(n) \/ Rewrites(n) \/ Occupies(n) \/ Ages(n)
          \/ Arms(n) \/ Disarms(n)

LEMMA DeletionAges ==
    ASSUME TypeOK, NEW n \in Namespace, api[n] # None, Put(n, Deleted(api[n]))
    PROVE  Ages(n)
<1>1. api[n] \in Object
  BY DEF TypeOK
<1>2. Deleted(api[n]) \in Object \cup {None}
  BY <1>1, ObjectWrites
<1>3. CASE api[n].fin = {}
  <2>1. Deleted(api[n]) = None
    BY <1>3 DEF Deleted
  <2> QED BY <1>2, <1>3, <2>1 DEF Ages
<1>4. CASE api[n].fin # {}
  <2>1. Deleted(api[n]) = [api[n] EXCEPT !.del = TRUE]
    BY <1>4 DEF Deleted
  <2>2. /\ Deleted(api[n]) \in Object /\ Deleted(api[n]).fin = api[n].fin
        /\ SameMarks(api[n], Deleted(api[n]))
        /\ Deleted(api[n]).sync = api[n].sync
    BY <1>1, <2>1 DEF Object, SameMarks
  <2> QED BY <2>2, NoneAssumption DEF Ages
<1> QED BY <1>3, <1>4

LEMMA BeginSteps ==
    ASSUME TypeOK, StaleReadsAreSafe, NEW k \in Namespace, Begin(k)
    PROVE  ApiStep
<1>1. CASE AddFinalizer(k) /\ api' # api
  <2>1. /\ Current(k) /\ cache[k] # None /\ ~cache[k].del
        /\ Put(k, ReconcileFinalizer(Keys, cache[k]))
    BY <1>1 DEF AddFinalizer, NeedsFinalizer
  <2>2. api[k] = cache[k]
    BY <2>1 DEF StaleReadsAreSafe, Coherent
  <2> QED BY <2>1, <2>2 DEF ApiStep, Arms
<1>2. CASE Ignore(k) \/ StartFanOut(k) \/ StartCleanup(k)
  BY <1>2 DEF Ignore, StartFanOut, StartCleanup, ApiStep
<1> QED BY <1>1, <1>2 DEF Begin, ApiStep

LEMMA ProceedSteps ==
    ASSUME TypeOK, StaleReadsAreSafe, Proceed
    PROVE  ApiStep
<1>1. \A m \in Namespace : Current(m) => cache[m] = api[m]
  BY DEF StaleReadsAreSafe, Coherent
<1>2. SUFFICES ASSUME api' # api PROVE ApiStep
  BY DEF ApiStep
<1>3. ASSUME NEW n \in Namespace, CreateCopy(n) PROVE ApiStep
  <2>1. wk \in Busy /\ wk.pc = "upsert" /\ api[n] = None /\ Put(n, Fresh)
    BY <1>2, <1>3, WorkerType DEF CreateCopy, AtUpsert, TypeOK
  <2> QED BY <2>1 DEF ApiStep, Creates
<1>4. ASSUME NEW n \in Namespace, UpdateCopy(n) PROVE ApiStep
  <2>1. /\ wk \in Busy /\ wk.pc = "upsert" /\ Current(n)
        /\ cache[n] # None /\ Writes(cache[n]) /\ Put(n, Desired(cache[n]))
    BY <1>2, <1>4, WorkerType DEF UpdateCopy, AtUpsert, TypeOK
  <2> QED BY <1>1, <2>1 DEF ApiStep, Rewrites
<1>5. ASSUME NEW n \in Namespace, DeleteCopy(n) PROVE ApiStep
  <2>1. api[n] # None /\ Put(n, Deleted(api[n]))
    BY <1>2, <1>5 DEF DeleteCopy
  <2> QED BY <2>1, DeletionAges DEF ApiStep
<1>6. CASE ReleaseFinalizer
  <2>1. /\ wk \in Busy /\ wk.release /\ wk.fresh
        /\ wk.todo = {} /\ wk.domains = <<>>
        /\ Put(wk.key, Released(RemoveAllFinalizers(Keys, wk.src)))
    BY <1>2, <1>6, WorkerType DEF ReleaseFinalizer, LoopDone, TypeOK
  <2>2. /\ wk.key \in Namespace /\ wk.src \in Object
        /\ Current(wk.key) /\ cache[wk.key] = wk.src
    BY <2>1, LocalsType, WorkerType DEF StaleReadsAreSafe, WorkerOK, TypeOK
  <2>3. api[wk.key] = wk.src /\ api[wk.key] # None
    BY <1>1, <2>2, NoneAssumption
  <2>4. Disarms(wk.key)
    BY <2>1, <2>3 DEF Disarms
  <2> QED BY <2>2, <2>4 DEF ApiStep
<1>7. ~ListCopies /\ ~FinishPrune /\ \A n \in Namespace : ~LeaveAlone(n)
  BY <1>2 DEF ListCopies, FinishPrune, LeaveAlone
<1> QED BY <1>3, <1>4, <1>5, <1>6, <1>7 DEF Proceed

LEMMA EnvironmentSteps ==
    ASSUME TypeOK, Environment
    PROVE  ApiStep
<1>1. ASSUME NEW n \in Namespace, UserCreate(n) PROVE ApiStep
  BY <1>1 DEF UserCreate, Apply, EnvPut, ApiStep, Occupies
<1>2. ASSUME NEW n \in Namespace, api[n] # None, NEW obj \in Object,
             EnvPut(n, obj), SameMarks(api[n], obj), obj.fin = api[n].fin,
             obj.sync = api[n].sync \/ (Admitted(n, obj) /\ Annotates(api[n], obj))
      PROVE  ApiStep
  BY <1>2, NoneAssumption DEF EnvPut, Ages, ApiStep
<1>3. ASSUME NEW n \in Namespace, UserAnnotate(n) PROVE ApiStep
  <2>1. PICK d \in Domain, value \in Selector \cup {None} :
          /\ d \in Honoured(Keys) \/ "Ahead" \in EnvOps
          /\ Apply(n, [api[n] EXCEPT !.sync[d] = value])
    BY <1>3 DEF UserAnnotate
  <2>2. api[n] # None /\ api[n] \in Object
    BY <1>3 DEF UserAnnotate, TypeOK
  <2> DEFINE new == [api[n] EXCEPT !.sync[d] = value]
  <2>3. new \in Object /\ new.fin = api[n].fin
    BY <2>2, UserWrites
  <2>4. SameMarks(api[n], new)
    BY <2>2 DEF SameMarks, Object
  <2>5. EnvPut(n, new) /\ Admitted(n, new)
    BY <2>1 DEF Apply
  <2>6. \A e \in Domain \ {d} : new.sync[e] = api[n].sync[e]
    BY <2>2 DEF Object
  <2> HIDE DEF new
  <2>7. Annotates(api[n], new)
    BY <1>3, <2>1, <2>6 DEF UserAnnotate, Annotates
  <2> QED BY <1>2, <2>2, <2>3, <2>4, <2>5, <2>7
<1>4. ASSUME NEW n \in Namespace, UserEdit(n) PROVE ApiStep
  <2>1. PICK value \in Data : Apply(n, [api[n] EXCEPT !.data = value])
    BY <1>4 DEF UserEdit
  <2>2. api[n] # None /\ api[n] \in Object
    BY <1>4 DEF UserEdit, TypeOK
  <2> DEFINE new == [api[n] EXCEPT !.data = value]
  <2>3. new \in Object /\ new.fin = api[n].fin
    BY <2>2, UserWrites
  <2>4. SameMarks(api[n], new) /\ new.sync = api[n].sync
    BY <2>2 DEF SameMarks, Object
  <2>5. EnvPut(n, new)
    BY <2>1 DEF Apply
  <2> HIDE DEF new
  <2> QED BY <1>2, <2>2, <2>3, <2>4, <2>5
<1>5. ASSUME NEW n \in Namespace, UserDelete(n) \/ NsCollect(n) PROVE ApiStep
  BY <1>5, DeletionAges DEF UserDelete, NsCollect, EnvPut, ApiStep
<1>6. CASE ApiError \/ Restart
  BY <1>6 DEF ApiError, Restart, Relist, ApiStep
<1>7. ASSUME NEW n \in Namespace,
             NsRelabel(n) \/ NsDelete(n) \/ NsCreate(n) \/ NsGone(n)
      PROVE  ApiStep
  BY <1>7 DEF NsRelabel, NsDelete, NsCreate, NsGone, NsChange, ApiStep
<1> QED BY <1>1, <1>3, <1>4, <1>5, <1>6, <1>7 DEF Environment

\* Every step of the system changes at most one object, in one of six ways.
LEMMA EveryStep ==
    ASSUME TypeOK, StaleReadsAreSafe, [Next]_vars
    PROVE  ApiStep
<1>1. CASE Informers \/ UNCHANGED vars
  BY <1>1 DEF Informers, Deliver, Resync, NsDeliver, vars, ApiStep
<1> QED BY <1>1, BeginSteps, ProceedSteps, EnvironmentSteps DEF Next

-----------------------------------------------------------------------------
(* Sweeps *)

\* What a step makes of one object's marks.
LEMMA MarksKept ==
    ASSUME NEW old \in Object, NEW new \in Object, SameMarks(old, new)
    PROVE  /\ KeysFor(Keys, new) = KeysFor(Keys, old)
           /\ IsManagedCopy(Keys, new) <=> IsManagedCopy(Keys, old)
           /\ CopyOrigin(Keys, new) = CopyOrigin(Keys, old)
           /\ IsAdoptable(new) <=> IsAdoptable(old)
BY DEF SameMarks, KeysFor, IsManagedCopy, CopyOrigin, IsAdoptable

LEMMA ArmsMarks ==
    ASSUME TypeOK, NEW n \in Namespace, Arms(n)
    PROVE  /\ api[n] \in Object /\ api'[n] \in Object
           /\ \A m \in Namespace \ {n} : api'[m] = api[m]
           /\ SameMarks(api[n], api'[n]) /\ api'[n].del = api[n].del
           /\ HasFinalizer(Keys, api'[n])
<1> DEFINE new == ReconcileFinalizer(Keys, api[n])
<1>1. api[n] \in Object
  BY DEF Arms, TypeOK
<1>2. new \in Object
  BY <1>1, ObjectWrites
<1>3. SameMarks(api[n], new) /\ new.del = api[n].del /\ HasFinalizer(Keys, new)
  BY <1>1, KeysFacts DEF ReconcileFinalizer, Object, SameMarks, HasFinalizer
<1>4. Put(n, new)
  BY DEF Arms
<1> HIDE DEF new
<1> QED BY <1>1, <1>2, <1>3, <1>4, PutType

LEMMA DisarmsMarks ==
    ASSUME TypeOK, NEW n \in Namespace, Disarms(n)
    PROVE  /\ api[n] \in Object
           /\ \A m \in Namespace \ {n} : api'[m] = api[m]
           /\ \/ api'[n] = None /\ api[n].del
              \/ /\ api'[n] \in Object
                 /\ SameMarks(api[n], api'[n]) /\ api'[n].del = api[n].del
                 /\ ~HasFinalizer(Keys, api'[n])
<1> DEFINE bare == RemoveAllFinalizers(Keys, api[n])
<1>1. api[n] \in Object
  BY DEF Disarms, TypeOK
<1>2. bare \in Object /\ Released(bare) \in Object \cup {None}
  BY <1>1, ObjectWrites
<1>3. SameMarks(api[n], bare) /\ bare.del = api[n].del /\ ~HasFinalizer(Keys, bare)
  BY <1>1 DEF RemoveAllFinalizers, Object, SameMarks, HasFinalizer
<1>4. Put(n, Released(bare))
  BY DEF Disarms
<1> HIDE DEF bare
<1>5. Released(bare) = bare \/ (Released(bare) = None /\ bare.del)
  BY DEF Released
<1>6. /\ api'[n] = Released(bare)
      /\ \A m \in Namespace \ {n} : api'[m] = api[m]
  BY <1>2, <1>4, PutObject
<1>7. CASE Released(bare) = bare
  <2>1. api'[n] = bare
    BY <1>6, <1>7
  <2> QED BY <1>1, <1>2, <1>3, <1>6, <2>1
<1>8. CASE Released(bare) = None /\ bare.del
  BY <1>1, <1>3, <1>6, <1>8
<1> QED BY <1>5, <1>7, <1>8

LEMMA AgesMarks ==
    ASSUME TypeOK, NEW n \in Namespace, Ages(n)
    PROVE  /\ api[n] \in Object
           /\ \A m \in Namespace \ {n} : api'[m] = api[m]
           /\ \/ api'[n] = None /\ api[n].fin = {}
              \/ /\ api'[n] \in Object /\ SameMarks(api[n], api'[n])
                 /\ api'[n].fin = api[n].fin
<1>1. PICK obj \in Object \cup {None} :
        /\ Put(n, obj)
        /\ obj = None => api[n].fin = {}
        /\ obj # None => SameMarks(api[n], obj) /\ obj.fin = api[n].fin
  BY DEF Ages
<1>2. api[n] \in Object
  BY DEF Ages, TypeOK
<1> QED BY <1>1, <1>2, PutType

LEMMA OccupiesMarks ==
    ASSUME TypeOK, UsersStampNothing, NEW n \in Namespace, Occupies(n)
    PROVE  /\ api[n] = None
           /\ \A m \in Namespace \ {n} : api'[m] = api[m]
           /\ api'[n] \in Object /\ ~api'[n].del /\ ~IsManagedCopy(Keys, api'[n])
<1>1. PICK obj \in UserObject : Put(n, obj)
  BY DEF Occupies
<1>2. obj \in Object /\ ~obj.del
  BY UserWrites
<1>3. api'[n] = obj /\ \A m \in Namespace \ {n} : api'[m] = api[m]
  BY <1>1, <1>2, PutObject
<1> QED BY <1>2, <1>3 DEF Occupies, UsersStampNothing

LEMMA CreatesMarks ==
    ASSUME TypeOK, StaleReadsAreSafe, NEW n \in Namespace, Creates(n)
    PROVE  /\ api[n] = None /\ wk.key \in Namespace /\ wk.key # n /\ Armed(wk.key)
           /\ ~wk.release
           /\ \A m \in Namespace \ {n} : api'[m] = api[m]
           /\ api'[n] \in Object /\ ~api'[n].del
           /\ CopyOrigin(Keys, api'[n]) = {wk.key}
<1>1. Armed(wk.key) /\ ~wk.release /\ wk.key \in Namespace
  BY LocalsType, WorkerType DEF Creates, StaleReadsAreSafe, WorkerOK, TypeOK
<1>2. wk.key # n /\ api[n] = None /\ wk \in Busy /\ Put(n, Fresh)
  BY <1>1 DEF Armed, Creates
<1>3. /\ Fresh \in Object /\ ~Fresh.del
      /\ CopyOrigin(Keys, Fresh) = {wk.key}
  BY <1>2, FreshFacts
<1>4. api'[n] = Fresh /\ \A m \in Namespace \ {n} : api'[m] = api[m]
  BY <1>2, <1>3, PutType
<1> QED BY <1>1, <1>2, <1>3, <1>4

LEMMA RewritesMarks ==
    ASSUME TypeOK, StaleReadsAreSafe, NEW n \in Namespace, Rewrites(n)
    PROVE  /\ api[n] \in Object /\ wk.key \in Namespace /\ Armed(wk.key)
           /\ ~wk.release
           /\ \A m \in Namespace \ {n} : api'[m] = api[m]
           /\ api'[n] \in Object
           /\ api'[n].del = api[n].del /\ api'[n].fin = api[n].fin
           /\ CopyOrigin(Keys, api'[n]) = {wk.key}
           /\ IF IsManagedCopy(Keys, api[n])
              THEN CopyOrigin(Keys, api[n]) = {wk.key}
              ELSE IsAdoptable(api[n])
<1>1. Armed(wk.key) /\ ~wk.release /\ wk.key \in Namespace
  BY LocalsType, WorkerType DEF Rewrites, StaleReadsAreSafe, WorkerOK, TypeOK
<1>2. api[n] \in Object
  BY DEF Rewrites, TypeOK
<1>3. ASSUME IsManagedCopy(Keys, api[n]) PROVE CopyOrigin(Keys, api[n]) = {wk.key}
  <2>1. Mine(api[n])
    BY <1>3 DEF Rewrites, Writes
  <2> QED BY <1>1, <1>3, <2>1, NoneAssumption DEF Mine, OwnsCopy, CopyOrigin
<1>4. ~IsManagedCopy(Keys, api[n]) => IsAdoptable(api[n])
  BY DEF Rewrites, Writes
<1> DEFINE new == Desired(api[n])
<1>5. /\ new \in Object /\ new.del = api[n].del /\ new.fin = api[n].fin
      /\ CopyOrigin(Keys, new) = {wk.key} /\ Put(n, new)
  BY <1>2, DesiredFacts DEF Rewrites
<1> HIDE DEF new
<1>6. api'[n] = new /\ \A m \in Namespace \ {n} : api'[m] = api[m]
  BY <1>5, PutType
<1> QED BY <1>1, <1>2, <1>3, <1>4, <1>5, <1>6

\* A step makes a copy for the source the worker fans out, or none; and only
\* the end of a cleanup disarms a source.
LEMMA CopiesAndArms ==
    ASSUME TypeOK, StaleReadsAreSafe, UsersStampNothing, ApiStep,
           NEW s \in Namespace
    PROVE  /\ \A m \in Namespace :
                CopyOf(m, s)' =>
                  \/ CopyOf(m, s) /\ KeysFor(Keys, api'[m]) = KeysFor(Keys, api[m])
                  \/ wk.key = s /\ ~wk.release /\ Armed(s)
           /\ Armed(s) => Armed(s)' \/ Disarms(s)
<1>0. \A obj \in Object : obj # None
  BY NoneAssumption
<1>1. CASE UNCHANGED api
  BY <1>1 DEF CopyOf, Armed
<1>2. ASSUME NEW n \in Namespace, Creates(n) PROVE (\A m \in Namespace :
                CopyOf(m, s)' =>
                  \/ CopyOf(m, s) /\ KeysFor(Keys, api'[m]) = KeysFor(Keys, api[m])
                  \/ wk.key = s /\ ~wk.release /\ Armed(s))
           /\ (Armed(s) => Armed(s)')
  BY <1>0, <1>2, CreatesMarks DEF CopyOf, Armed
<1>3. ASSUME NEW n \in Namespace, Rewrites(n) PROVE (\A m \in Namespace :
                CopyOf(m, s)' =>
                  \/ CopyOf(m, s) /\ KeysFor(Keys, api'[m]) = KeysFor(Keys, api[m])
                  \/ wk.key = s /\ ~wk.release /\ Armed(s))
           /\ (Armed(s) => Armed(s)')
  BY <1>0, <1>3, RewritesMarks DEF CopyOf, Armed, HasFinalizer
<1>4. ASSUME NEW n \in Namespace, Occupies(n) \/ Ages(n) \/ Arms(n)
      PROVE  /\ \A m \in Namespace : CopyOf(m, s)' =>
                  CopyOf(m, s) /\ KeysFor(Keys, api'[m]) = KeysFor(Keys, api[m])
             /\ Armed(s) => Armed(s)'
  <2>1. CASE Occupies(n)
    BY <1>0, <2>1, OccupiesMarks DEF CopyOf, Armed, CopyOrigin
  <2>2. CASE Ages(n)
    <3>1. CASE api'[n] = None
      <4>1. api[n].fin = {} /\ \A m \in Namespace \ {n} : api'[m] = api[m]
        BY <1>0, <2>2, <3>1, AgesMarks
      <4> QED BY <3>1, <4>1 DEF CopyOf, Armed, HasFinalizer
    <3>2. CASE api'[n] # None
      <4>1. /\ SameMarks(api[n], api'[n]) /\ api'[n].fin = api[n].fin
            /\ api[n] \in Object /\ api'[n] \in Object
            /\ \A m \in Namespace \ {n} : api'[m] = api[m]
        BY <2>2, <3>2, AgesMarks
      <4>2. api[n].del => api'[n].del
        BY <4>1 DEF SameMarks
      <4> QED BY <1>0, <4>1, <4>2, MarksKept DEF CopyOf, Armed, HasFinalizer
    <3> QED BY <3>1, <3>2
  <2>3. CASE Arms(n)
    BY <1>0, <2>3, ArmsMarks, MarksKept DEF CopyOf, Armed
  <2> QED BY <1>4, <2>1, <2>2, <2>3
<1>5. ASSUME NEW n \in Namespace, Disarms(n)
      PROVE  /\ \A m \in Namespace : CopyOf(m, s)' =>
                  CopyOf(m, s) /\ KeysFor(Keys, api'[m]) = KeysFor(Keys, api[m])
             /\ Armed(s) => Armed(s)' \/ Disarms(s)
  <2>1. CASE api'[n] = None
    BY <1>5, <2>1, DisarmsMarks DEF CopyOf, Armed
  <2>2. CASE api'[n] # None
    BY <1>0, <1>5, <2>2, DisarmsMarks, MarksKept DEF CopyOf, Armed
  <2> QED BY <2>1, <2>2
<1> QED BY <1>1, <1>2, <1>3, <1>4, <1>5 DEF ApiStep

\* While a cleanup is under way, every copy of its source waits to be deleted or
\* has not been listed; if lists are level, it waits to be, under the domain it
\* is known by.
SweepOK ==
    wk # Idle /\ wk.release =>
      /\ wk.keep = {}
      /\ wk.pc = "sweep"
      /\ \A n \in Namespace :
           CopyOf(n, wk.key) =>
             \/ n \in wk.todo
             \/ /\ n \notin wk.seen
                /\ ~ListLag => \E i \in DOMAIN wk.domains :
                                  wk.domains[i] = KeysFor(Keys, api[n])

\* What the finalizer is for, and why it works.
NothingIsLeft == NoOrphanedCopies /\ SweepOK

LEMMA SweepSteps ==
    ASSUME TypeOK, StaleReadsAreSafe, SweepOK, UsersStampNothing, [Next]_vars
    PROVE  SweepOK'
<1> USE NoneAssumption
<1>1. ApiStep
  BY EveryStep
<1>2. ASSUME NEW n \in Namespace, wk \in Busy, wk.release, CopyOf(n, wk.key)',
             wk'.key = wk.key
      PROVE  CopyOf(n, wk.key) /\ KeysFor(Keys, api'[n]) = KeysFor(Keys, api[n])
  <2>1. PICK s \in Namespace : s = wk.key
    BY <1>2, LocalsType
  <2>2. CopyOf(n, s)'
    BY <1>2, <2>1 DEF CopyOf
  <2> QED BY <1>1, <1>2, <2>1, <2>2, CopiesAndArms
<1>3. ASSUME UNCHANGED <<wk.pc, wk.key, wk.release, wk.keep, wk.todo, wk.seen, wk.domains>>,
             wk' # Idle => wk # Idle
      PROVE  SweepOK'
  <2> SUFFICES ASSUME (wk # Idle /\ wk.release)'
               PROVE  SweepOK'
    BY DEF SweepOK
  <2>1. wk \in Busy /\ wk.release
    BY <1>3, WorkerType DEF TypeOK
  <2> QED BY <1>2, <1>3, <2>1 DEF SweepOK, Busy
<1>4. ASSUME wk' = Idle \/ ~wk'.release PROVE SweepOK'
  BY <1>4 DEF SweepOK
<1>5. ASSUME NEW k \in Namespace, StartCleanup(k) PROVE SweepOK'
  <2>1. /\ wk'.key = k /\ wk'.keep = {} /\ wk'.todo = {} /\ wk'.seen = {}
        /\ wk'.domains = Each(Keys) /\ wk'.pc = "sweep" /\ UNCHANGED api
    BY <1>5 DEF StartCleanup
  <2>2. ASSUME NEW n \in Namespace, CopyOf(n, k)
        PROVE  \E i \in DOMAIN Each(Keys) : Each(Keys)[i] = KeysFor(Keys, api[n])
    <3>1. api[n] \in Object /\ IsManagedCopy(Keys, api[n])
      BY <2>2 DEF CopyOf, CopyOrigin, TypeOK
    <3>2. KeysFor(Keys, api[n]) \in Honoured(Keys)
      BY <3>1, KeysFacts, KeysForFacts
    <3> QED BY <3>2 DEF Honoured
  <2>3. \A n \in Namespace : CopyOf(n, wk.key)' => CopyOf(n, k)
    BY <2>1 DEF CopyOf
  <2> QED BY <2>1, <2>2, <2>3 DEF SweepOK
<1>6. ASSUME ListCopies PROVE SweepOK'
  <2> SUFFICES ASSUME (wk # Idle /\ wk.release)'
               PROVE  SweepOK'
    BY DEF SweepOK
  <2>1. wk \in Busy /\ wk.release /\ wk.key \in Namespace
    BY <1>6, WorkerType, LocalsType DEF ListCopies, LoopDone, TypeOK, Busy
  <2>2. ~ListLag => \A n \in Namespace : cache[n] = api[n]
    BY <1>6, <2>1 DEF ListCopies, CanList, StaleReadsAreSafe, Coherent, Current, Pending
  <2> DEFINE listed == {n \in Namespace :
                          /\ cache[n] # None
                          /\ MatchesOrigin(cache[n], Head(wk.domains), wk.key)}
  <2>3. /\ wk' = [wk EXCEPT !.pc = "sweep",
                            !.todo = listed \ (wk.seen \cup wk.keep),
                            !.seen = @ \cup listed,
                            !.domains = Tail(@)]
        /\ UNCHANGED api /\ wk.todo = {} /\ wk.domains # <<>>
    BY <1>6 DEF ListCopies, LoopDone
  <2>4. wk.domains \in Seq(Domain) /\ wk.keep = {}
    BY <2>1 DEF Busy, SweepOK, Idle
  <2>5. listed \subseteq Namespace
    OBVIOUS
  <2>6. ASSUME ~ListLag, NEW n \in Namespace, CopyOf(n, wk.key),
               Head(wk.domains) = KeysFor(Keys, api[n])
        PROVE  n \in listed
    <3>1. api[n] \in Object /\ IsManagedCopy(Keys, api[n])
      BY <2>6 DEF CopyOf, CopyOrigin, TypeOK
    <3>2. /\ api[n].stamp[KeysFor(Keys, api[n])] \in Stamp
          /\ api[n].stamp[KeysFor(Keys, api[n])].ns = wk.key
      BY <2>6, <3>1, KeysFacts, KeysForFacts DEF CopyOf, CopyOrigin
    <3> QED BY <2>2, <2>6, <3>1, <3>2 DEF MatchesOrigin
  <2> HIDE DEF listed
  <2>7. /\ wk'.key = wk.key /\ wk'.keep = {} /\ wk'.pc = "sweep"
        /\ wk'.todo = listed \ wk.seen /\ wk'.seen = wk.seen \cup listed
        /\ wk'.domains = Tail(wk.domains)
    BY <2>1, <2>3, <2>4 DEF Busy
  <2>8. ASSUME NEW n \in Namespace, CopyOf(n, wk.key), n \notin listed \ wk.seen
        PROVE  /\ n \notin wk.seen \cup listed
               /\ ~ListLag => \E i \in DOMAIN Tail(wk.domains) :
                                 Tail(wk.domains)[i] = KeysFor(Keys, api[n])
    <3>1. n \notin wk.seen
      BY <2>1, <2>3, <2>8 DEF SweepOK, Busy, Idle
    <3>3. n \notin listed
      BY <2>8, <3>1
    <3> SUFFICES ASSUME ~ListLag
                 PROVE  \E i \in DOMAIN Tail(wk.domains) :
                           Tail(wk.domains)[i] = KeysFor(Keys, api[n])
      BY <3>1, <3>3
    <3>2. PICK i \in DOMAIN wk.domains : wk.domains[i] = KeysFor(Keys, api[n])
      BY <2>1, <2>3, <2>8 DEF SweepOK, Busy, Idle
    <3>4. i # 1
      BY <2>3, <2>4, <2>6, <2>8, <3>2, <3>3
    <3>5. i - 1 \in DOMAIN Tail(wk.domains) /\ Tail(wk.domains)[i - 1] = wk.domains[i]
      BY <2>3, <2>4, <3>4
    <3> QED BY <3>2, <3>5
  <2>9. \A n \in Namespace :
          /\ CopyOf(n, wk.key)' => CopyOf(n, wk.key)
          /\ KeysFor(Keys, api'[n]) = KeysFor(Keys, api[n])
    BY <2>3, <2>7 DEF CopyOf
  <2> QED BY <2>7, <2>8, <2>9 DEF SweepOK
<1>7. ASSUME NEW m \in Namespace, DeleteCopy(m) PROVE SweepOK'
  <2> SUFFICES ASSUME (wk # Idle /\ wk.release)'
               PROVE  SweepOK'
    BY DEF SweepOK
  <2>1. wk \in Busy
    BY <1>7, WorkerType DEF DeleteCopy, TypeOK
  <2>2. /\ wk'.key = wk.key /\ wk'.keep = wk.keep /\ wk'.pc = wk.pc
        /\ wk'.todo = wk.todo \ {m} /\ wk'.seen = wk.seen
        /\ wk'.domains = wk.domains /\ wk'.release = wk.release
    BY <1>7, <2>1 DEF DeleteCopy, Visited, Busy
  <2>3. ~CopyOf(m, wk.key)'
    <3>1. CASE api[m] = None
      BY <1>7, <3>1 DEF DeleteCopy, CopyOf
    <3>2. CASE api[m] # None
      <4>1. api[m] \in Object
        BY <3>2 DEF TypeOK
      <4>2. Deleted(api[m]) = None \/ Deleted(api[m]).del
        BY <4>1 DEF Deleted, Object
      <4>3. api'[m] = Deleted(api[m])
        BY <1>7, <3>2, <4>1, ObjectWrites, PutType DEF DeleteCopy
      <4> QED BY <4>2, <4>3 DEF CopyOf
    <3> QED BY <3>1, <3>2
  <2>4. wk.release /\ wk # Idle
    BY <2>1, <2>2, WorkerType DEF TypeOK
  <2> QED BY <1>2, <2>1, <2>2, <2>3, <2>4 DEF SweepOK
<1>8. ASSUME NEW k \in Namespace, Begin(k), ~StartCleanup(k) PROVE SweepOK'
  BY <1>3, <1>4, <1>8 DEF Begin, Ignore, AddFinalizer, StartFanOut
<1>9. ASSUME NEW n \in Namespace, CreateCopy(n) \/ LeaveAlone(n) \/ UpdateCopy(n)
      PROVE  SweepOK'
  <2>1. wk \in Busy /\ ~wk.release
    BY <1>9, WorkerType, LocalsType
    DEF CreateCopy, LeaveAlone, UpdateCopy, AtUpsert, StaleReadsAreSafe, WorkerOK, TypeOK
  <2>2. wk' = Idle \/ wk' = Visited(n)
    BY <1>9 DEF CreateCopy, LeaveAlone, UpdateCopy, Fail
  <2>3. wk' = Idle \/ ~wk'.release
    BY <2>1, <2>2 DEF Visited, Busy
  <2> QED BY <1>4, <2>3
<1>10. CASE FinishPrune \/ ReleaseFinalizer
  BY <1>4, <1>10 DEF FinishPrune, ReleaseFinalizer, Fail
<1>11. CASE Informers \/ UNCHANGED vars
  BY <1>3, <1>11 DEF Informers, Deliver, Resync, NsDeliver, vars
<1>12. ASSUME NEW n \in Namespace, NEW obj, EnvPut(n, obj) PROVE SweepOK'
  <2>1. CASE wk \in Busy
    <3>1. /\ UNCHANGED <<wk.pc, wk.key, wk.release, wk.keep, wk.todo, wk.seen, wk.domains>>
          /\ wk # Idle
      BY <1>12, <2>1, WorkerType DEF EnvPut, Touch, Busy, TypeOK
    <3> QED BY <1>3, <3>1
  <2>2. CASE wk = Idle
    <3>1. wk' = wk
      BY <1>12, <2>2 DEF EnvPut, Touch, Idle
    <3> QED BY <1>4, <2>2, <3>1
  <2> QED BY <2>1, <2>2 DEF TypeOK
<1>13. CASE Environment
  BY <1>3, <1>4, <1>12, <1>13
  DEF Environment, ApiError, Fail, Restart, Relist, UserCreate, UserAnnotate, UserEdit,
      UserDelete, Apply, NsRelabel, NsDelete, NsCreate, NsCollect, NsGone, NsChange
<1> QED
  BY <1>5, <1>6, <1>7, <1>8, <1>9, <1>10, <1>11, <1>13 DEF Next, Proceed

\* A step orphans a copy only by ending a cleanup that has not listed it.
LEMMA OrphansAreMissed ==
    ASSUME TypeOK, StaleReadsAreSafe, SweepOK, UsersStampNothing, [Next]_vars,
           NEW n \in Namespace, NEW s \in Namespace, Orphan(n, s)', ~Orphan(n, s)
    PROVE  Cleaning(s) /\ wk.domains = <<>> /\ wk.todo = {} /\ n \notin wk.seen
<1>1. ApiStep
  BY EveryStep
<1>2. CopyOf(n, s)' /\ ~Armed(s)'
  BY DEF Orphan
<1>3. CopyOf(n, s) \/ Armed(s)
  BY <1>1, <1>2, CopiesAndArms
<1>4. Armed(s) /\ Disarms(s)
  BY <1>1, <1>2, <1>3, CopiesAndArms DEF Orphan
<1>5. wk # Idle /\ wk.release /\ wk.key = s /\ wk.todo = {} /\ wk.domains = <<>>
  BY <1>4, WorkerType DEF Disarms, TypeOK
<1>6. CopyOf(n, s)
  BY <1>1, <1>2, <1>5, CopiesAndArms
<1> QED BY <1>5, <1>6 DEF SweepOK, Cleaning

LEMMA NothingIsLeftNext ==
    ASSUME TypeOK, StaleReadsAreSafe, NothingIsLeft, UsersStampNothing,
           ~ListLag, [Next]_vars
    PROVE  NothingIsLeft'
<1>1. ApiStep
  BY EveryStep
<1>2. ASSUME NEW m \in Namespace, NEW s \in Namespace, CopyOf(m, s)'
      PROVE  Armed(s)'
  <2>1. CopyOf(m, s) \/ (wk.key = s /\ ~wk.release /\ Armed(s))
    BY <1>1, <1>2, CopiesAndArms
  <2>2. Armed(s)
    BY <2>1 DEF NothingIsLeft, NoOrphanedCopies
  <2>3. ~Disarms(s)
    BY <2>1, WorkerType DEF Disarms, NothingIsLeft, SweepOK, TypeOK
  <2> QED BY <1>1, <2>2, <2>3, CopiesAndArms
<1>3. SweepOK'
  BY SweepSteps DEF NothingIsLeft
<1> QED BY <1>2, <1>3 DEF NothingIsLeft, NoOrphanedCopies

\* If a cleanup's lists see every write that came before them, no copy outlives
\* its source's finalizer, whatever users, restarts and failed calls do: the
\* promise deleteCopies is there for, and which its cached list breaks.
LEMMA NoOrphans ==
    ASSUME ~ListLag, UsersStampNothing
    PROVE  Spec /\ NoOrphanedCopies => []NoOrphanedCopies
<1>1. Init /\ NoOrphanedCopies => NothingIsLeft
  BY DEF Init, NothingIsLeft, SweepOK
<1>2. TypeOK /\ StaleReadsAreSafe /\ NothingIsLeft /\ [Next]_vars => NothingIsLeft'
  BY NothingIsLeftNext
<1>3. NothingIsLeft => NoOrphanedCopies
  BY DEF NothingIsLeft
<1> QED BY <1>1, <1>2, <1>3, TypeCorrect, StaleReads, PTL DEF Spec

\* The cached list is the one thing that loses a copy: however far the cache
\* lags, whatever users, conflicts, crashes and failed calls come between, a
\* copy is orphaned only at the end of a cleanup that listed every domain and
\* deleted all it listed, and only if none of the lists held that copy.
THEOREM OnlyListsLoseCopies ==
    ASSUME UsersStampNothing
    PROVE  Spec => OnlyUnlistedAreOrphaned
<1>1. Init => SweepOK
  BY DEF Init, SweepOK
<1>2. TypeOK /\ StaleReadsAreSafe /\ SweepOK /\ [Next]_vars => SweepOK'
  BY SweepSteps
<1>3. TypeOK /\ StaleReadsAreSafe /\ SweepOK /\ [Next]_vars =>
        [\A n, s \in Namespace :
           Orphan(n, s)' /\ ~Orphan(n, s) =>
             Cleaning(s) /\ wk.domains = <<>> /\ wk.todo = {} /\ n \notin wk.seen]_vars
  BY OrphansAreMissed
<1> QED BY <1>1, <1>2, <1>3, TypeCorrect, StaleReads, PTL DEF Spec, OnlyUnlistedAreOrphaned

-----------------------------------------------------------------------------
(* The refinement *)

Slots == [n \in Namespace |-> Held(api[n])]

ArmedSources == {n \in Namespace : Armed(n)}

LEMMA HeldFacts ==
    ASSUME NEW obj \in Object
    PROVE  /\ obj.del => Held(obj) = <<"free">>
           /\ \A s \in Namespace :
                Held(obj) = <<"copy", s>> <=> ~obj.del /\ s \in CopyOrigin(Keys, obj)
           /\ \/ Held(obj) \in {<<"free">>, <<"adoptable">>, <<"foreign">>}
              \/ \E s \in Namespace : Held(obj) = <<"copy", s>>
           /\ ~obj.del /\ ~IsManagedCopy(Keys, obj) =>
                Held(obj) = IF IsAdoptable(obj) THEN <<"adoptable">> ELSE <<"foreign">>
<1>0. CopyOrigin(Keys, obj) \subseteq Namespace /\ obj # None
  BY KeysFacts, KeysForFacts, NoneAssumption
<1>1. \A s, t : s \in CopyOrigin(Keys, obj) /\ t \in CopyOrigin(Keys, obj) => s = t
  BY DEF CopyOrigin
<1>2. ASSUME NEW s \in CopyOrigin(Keys, obj)
      PROVE  (CHOOSE t \in Namespace : t \in CopyOrigin(Keys, obj)) = s
  BY <1>0, <1>1, <1>2
<1>3. CASE obj.del
  BY <1>0, <1>3 DEF Held
<1>4. CASE ~obj.del /\ CopyOrigin(Keys, obj) = {}
  BY <1>0, <1>4 DEF Held
<1>5. CASE ~obj.del /\ CopyOrigin(Keys, obj) # {}
  <2>1. PICK s \in Namespace : s \in CopyOrigin(Keys, obj)
    BY <1>0, <1>5
  <2>2. Held(obj) = <<"copy", s>>
    BY <1>0, <1>2, <1>5, <2>1 DEF Held
  <2>3. IsManagedCopy(Keys, obj)
    BY <2>1 DEF CopyOrigin
  <2> QED BY <1>1, <1>5, <2>1, <2>2, <2>3
<1>6. obj.del \in BOOLEAN
  BY DEF Object
<1> QED BY <1>3, <1>4, <1>5, <1>6

\* Marks that stay as they are leave a place as it is, unless its object goes.
LEMMA HeldKept ==
    ASSUME NEW old \in Object, NEW new \in Object, SameMarks(old, new)
    PROVE  /\ Held(new) \in {Held(old), <<"free">>}
           /\ new.del = old.del => Held(new) = Held(old)
<1>1. /\ CopyOrigin(Keys, new) = CopyOrigin(Keys, old)
      /\ IsManagedCopy(Keys, new) <=> IsManagedCopy(Keys, old)
      /\ IsAdoptable(new) <=> IsAdoptable(old)
  BY MarksKept
<1>2. old # None /\ new # None /\ old.del \in BOOLEAN /\ new.del \in BOOLEAN
  BY NoneAssumption DEF Object
<1>3. CASE new.del
  BY <1>2, <1>3 DEF Held
<1>4. CASE ~new.del /\ ~old.del
  BY <1>1, <1>2, <1>4 DEF Held
<1>5. CASE ~new.del /\ old.del
  BY <1>5 DEF SameMarks
<1> QED BY <1>2, <1>3, <1>4, <1>5

\* A step that changes one object changes one place and, perhaps, arms or
\* disarms one source.
LEMMA OnePlace ==
    ASSUME NEW n \in Namespace, \A m \in Namespace \ {n} : api'[m] = api[m]
    PROVE  /\ Slots' = [Slots EXCEPT ![n] = Held(api'[n])]
           /\ Held(api'[n]) = Held(api[n]) => Slots' = Slots
           /\ ArmedSources \ {n} = ArmedSources' \ {n}
<1>1. \A m \in Namespace \ {n} : Held(api'[m]) = Held(api[m])
  OBVIOUS
<1>2. Slots' = [Slots EXCEPT ![n] = Held(api'[n])]
  BY <1>1 DEF Slots
<1>3. Held(api'[n]) = Held(api[n]) => Slots' = Slots
  BY <1>1 DEF Slots
<1>4. \A m \in Namespace \ {n} : Armed(m)' <=> Armed(m)
  BY DEF Armed
<1>5. ArmedSources \ {n} = ArmedSources' \ {n}
  BY <1>4 DEF ArmedSources
<1> QED BY <1>2, <1>3, <1>5

LEMMA ArmedKept ==
    ASSUME NEW n \in Namespace, \A m \in Namespace \ {n} : api'[m] = api[m],
           Armed(n)' <=> Armed(n)
    PROVE  ArmedSources' = ArmedSources
BY DEF ArmedSources, Armed

LEMMA RefinedInit ==
    ASSUME TypeOK, ~ListLag => NoOrphanedCopies
    PROVE  Ownership!Init
<1>0. \A n \in Namespace : api[n] = None => Held(api[n]) = <<"free">>
  BY DEF Held
<1>1. Slots \in [Namespace -> Ownership!Slot] /\ ArmedSources \subseteq Namespace
  <2>1. ASSUME NEW n \in Namespace PROVE Held(api[n]) \in Ownership!Slot
    BY <1>0, HeldFacts
    DEF TypeOK, Ownership!Slot, Ownership!Copy, Ownership!Vacant, Ownership!Free,
        Ownership!Adoptable, Ownership!Foreign
  <2> QED BY <2>1 DEF Slots, ArmedSources
<1>2. ASSUME ~ListLag, NEW s \in Namespace, Ownership!CopiesOf(s) # {}
      PROVE  s \in ArmedSources
  <2>1. PICK n \in Namespace : Held(api[n]) = <<"copy", s>>
    BY <1>2 DEF Ownership!CopiesOf, Ownership!Copy
  <2>2. CopyOf(n, s)
    BY <1>0, <2>1, HeldFacts DEF CopyOf, TypeOK
  <2> QED BY <1>2, <2>2 DEF NoOrphanedCopies, ArmedSources
<1> QED BY <1>1, <1>2
        DEF Ownership!Init, Ownership!TypeOK, Ownership!NoOrphans, Slots, ArmedSources

LEMMA RefinedStep ==
    ASSUME TypeOK, StaleReadsAreSafe, UsersStampNothing, ApiStep,
           ~ListLag => SweepOK
    PROVE  [Ownership!Next]_(Ownership!vars)
<1>0. \A obj \in Object : obj # None /\ obj.del \in BOOLEAN
  BY NoneAssumption DEF Object
<1>1. Held(None) = <<"free">>
  BY DEF Held
<1>2. ASSUME Slots' = Slots, ArmedSources' = ArmedSources
      PROVE  UNCHANGED Ownership!vars
  BY <1>2 DEF Ownership!vars, Slots, ArmedSources
<1>3. CASE UNCHANGED api
  BY <1>2, <1>3 DEF Slots, ArmedSources, Armed
<1>4. ASSUME NEW n \in Namespace, NEW s \in Namespace, Armed(s),
             \A m \in Namespace \ {n} : api'[m] = api[m],
             Held(api[n]) \in {<<"free">>, <<"adoptable">>},
             Held(api'[n]) = <<"copy", s>>, Armed(n)' <=> Armed(n)
      PROVE  Ownership!Next
  <2>1. Slots' = [Slots EXCEPT ![n] = <<"copy", s>>] /\ ArmedSources' = ArmedSources
    BY <1>4, OnePlace, ArmedKept
  <2>2. Ownership!Claim(s, n)
    BY <1>4, <2>1 DEF Ownership!Claim, Ownership!Vacant, Ownership!Free,
         Ownership!Adoptable, Ownership!Copy, Slots, ArmedSources
  <2> QED BY <2>2 DEF Ownership!Next
<1>5. ASSUME NEW n \in Namespace, Creates(n) PROVE Ownership!Next
  <2>1. Held(api'[n]) = <<"copy", wk.key>>
    BY <1>5, CreatesMarks, HeldFacts
  <2>2. ~Armed(n) /\ api'[n] = Fresh /\ Fresh.fin = {}
    BY <1>5, FreshFacts, NoneAssumption, PutType DEF Creates, Armed
  <2>3. Armed(n)' <=> Armed(n)
    BY <2>2 DEF Armed, HasFinalizer
  <2> QED BY <1>1, <1>4, <1>5, <2>1, <2>3, CreatesMarks
<1>6. ASSUME NEW n \in Namespace, Rewrites(n) PROVE [Ownership!Next]_(Ownership!vars)
  <2>1. Armed(n)' <=> Armed(n)
    BY <1>0, <1>6, RewritesMarks DEF Armed, HasFinalizer
  <2>2. CASE Held(api'[n]) = Held(api[n])
    BY <1>2, <1>6, <2>1, <2>2, RewritesMarks, OnePlace, ArmedKept
  <2>3. CASE Held(api'[n]) # Held(api[n])
    <3>1. ~api[n].del /\ ~api'[n].del
      BY <1>0, <1>6, <2>3, RewritesMarks, HeldFacts
    <3>2. Held(api'[n]) = <<"copy", wk.key>>
      BY <1>6, <3>1, RewritesMarks, HeldFacts
    <3>3. ~IsManagedCopy(Keys, api[n])
      BY <1>6, <2>3, <3>1, <3>2, RewritesMarks, HeldFacts
    <3>4. Held(api[n]) = <<"adoptable">>
      BY <1>6, <3>1, <3>3, RewritesMarks, HeldFacts
    <3> QED BY <1>4, <1>6, <2>1, <3>2, <3>4, RewritesMarks
  <2> QED BY <2>2, <2>3
<1>7. ASSUME NEW n \in Namespace, Occupies(n) PROVE Ownership!Next
  <2>1. Held(api'[n]) \in {<<"adoptable">>, <<"foreign">>}
    BY <1>7, OccupiesMarks, HeldFacts
  <2>2. PICK obj \in UserObject : Put(n, obj)
    BY <1>7 DEF Occupies
  <2>3. api'[n] = obj /\ obj.fin = {}
    BY <2>2, UserWrites, PutType
  <2>4. Armed(n)' <=> Armed(n)
    BY <1>7, <2>3, OccupiesMarks DEF Armed, HasFinalizer
  <2>5. Slots' = [Slots EXCEPT ![n] = Held(api'[n])] /\ ArmedSources' = ArmedSources
    BY <1>7, <2>4, OccupiesMarks, OnePlace, ArmedKept
  <2>6. Slots[n] = <<"free">>
    BY <1>1, <1>7, OccupiesMarks DEF Slots
  <2>7. Ownership!Occupy(n)
    BY <2>1, <2>5, <2>6 DEF Ownership!Occupy, Ownership!Free, Ownership!Foreign,
         Ownership!Adoptable, Slots, ArmedSources
  <2> QED BY <2>7 DEF Ownership!Next
<1>8. ASSUME NEW n \in Namespace, Ages(n) PROVE [Ownership!Next]_(Ownership!vars)
  <2>1. Armed(n)' <=> Armed(n)
    BY <1>0, <1>8, AgesMarks DEF Armed, HasFinalizer
  <2>2. Held(api'[n]) \in {Held(api[n]), <<"free">>}
    BY <1>1, <1>8, AgesMarks, HeldKept
  <2>3. /\ Slots' = [Slots EXCEPT ![n] = Held(api'[n])] /\ ArmedSources' = ArmedSources
        /\ Held(api'[n]) = Held(api[n]) => Slots' = Slots
    BY <1>8, <2>1, AgesMarks, OnePlace, ArmedKept
  <2>4. CASE Held(api'[n]) = <<"free">>
    <3>1. Ownership!Vacate(n)
      BY <2>3, <2>4 DEF Ownership!Vacate, Ownership!Free, Slots, ArmedSources
    <3> QED BY <3>1 DEF Ownership!Next
  <2> QED BY <1>2, <2>2, <2>3, <2>4
<1>9. ASSUME NEW n \in Namespace, Arms(n) PROVE Ownership!Next
  <2>1. Slots' = Slots
    BY <1>9, ArmsMarks, HeldKept, OnePlace
  <2>2. n \in ArmedSources'
    BY <1>0, <1>9, ArmsMarks DEF ArmedSources, Armed
  <2>3. ArmedSources' = ArmedSources \cup {n}
    BY <1>9, <2>2, ArmsMarks, OnePlace
  <2>4. Ownership!Arm(n)
    BY <2>1, <2>3 DEF Ownership!Arm, Slots, ArmedSources
  <2> QED BY <2>4 DEF Ownership!Next
<1>10. ASSUME NEW n \in Namespace, Disarms(n) PROVE Ownership!Next
  <2>1. Slots' = Slots
    <3>1. CASE api'[n] = None
      BY <1>1, <1>10, <3>1, DisarmsMarks, HeldFacts, HeldKept, OnePlace
    <3>2. CASE api'[n] # None
      BY <1>10, <3>2, DisarmsMarks, HeldKept, OnePlace
    <3> QED BY <3>1, <3>2
  <2>2. n \notin ArmedSources'
    BY <1>10, DisarmsMarks DEF ArmedSources, Armed
  <2>3. ArmedSources' = ArmedSources \ {n}
    BY <1>10, <2>2, DisarmsMarks, OnePlace
  <2>4. ASSUME ~ListLag PROVE Ownership!CopiesOf(n) = {}
    <3> SUFFICES ASSUME NEW m \in Namespace, Held(api[m]) = <<"copy", n>>
                 PROVE  FALSE
      BY DEF Ownership!CopiesOf, Ownership!Copy
    <3>1. CopyOf(m, n)
      BY <1>1, HeldFacts DEF CopyOf, TypeOK
    <3>2. wk # Idle /\ wk.release /\ wk.key = n /\ wk.todo = {} /\ wk.domains = <<>>
      BY <1>10, WorkerType DEF Disarms, TypeOK
    <3> QED BY <2>4, <3>1, <3>2 DEF SweepOK
  <2>5. Ownership!Disarm(n)
    BY <2>1, <2>3, <2>4 DEF Ownership!Disarm, Slots, ArmedSources
  <2> QED BY <2>5 DEF Ownership!Next
<1> QED BY <1>2, <1>3, <1>5, <1>6, <1>7, <1>8, <1>9, <1>10 DEF ApiStep

\* The controller with its cache, its queue and its worker, in its cluster,
\* does to every object what CopyOwnership allows; when a cleanup lists a level
\* cache, with complete sweeps.
THEOREM SyncerImplementsOwnership ==
    ASSUME UsersStampNothing
    PROVE  Spec /\ (~ListLag => NoOrphanedCopies) => ImplementsOwnership
<1>1. Init /\ TypeOK /\ (~ListLag => NoOrphanedCopies) => Ownership!Init
  BY RefinedInit
<1>2. /\ TypeOK /\ StaleReadsAreSafe /\ [Next]_vars
      /\ (~ListLag => NothingIsLeft)
      => [Ownership!Next]_(Ownership!vars)
  BY EveryStep, RefinedStep DEF NothingIsLeft
<1>3. Init /\ (~ListLag => NoOrphanedCopies) => (~ListLag => NothingIsLeft)
  BY DEF Init, NothingIsLeft, SweepOK
<1>4. /\ TypeOK /\ StaleReadsAreSafe /\ [Next]_vars
      /\ (~ListLag => NothingIsLeft)
      => (~ListLag => NothingIsLeft)'
  BY NothingIsLeftNext
<1> QED
  BY <1>1, <1>2, <1>3, <1>4, TypeCorrect, StaleReads, PTL
  DEF Spec, ImplementsOwnership, Ownership!Spec

-----------------------------------------------------------------------------
(* The selector webhook *)

\* A controller's write is not a source, or is annotated as it was before.
LEMMA WebhookSteps ==
    ASSUME TypeOK, StaleReadsAreSafe, NoFrozenSource, ApiStep
    PROVE  NoFrozenSource'
<1> DEFINE Sound(obj) == IsSource(Keys, obj) => SyncValue(Keys, obj) # Invalid
<1>1. CASE UNCHANGED api
  BY <1>1 DEF NoFrozenSource
<1>2. ASSUME NEW n \in Namespace, \A m \in Namespace \ {n} : api'[m] = api[m],
             n \in Gated => api'[n] = None \/ Sound(api'[n])
      PROVE  NoFrozenSource'
  BY <1>2, SyncerAssumption DEF NoFrozenSource
<1>3. ASSUME NEW n \in Gated, NEW obj, api[n] # None, obj.sync = api[n].sync
      PROVE  Sound(obj)
  BY <1>3 DEF NoFrozenSource, IsSource, SyncValue
<1>4. ASSUME NEW n \in Gated, NEW obj, Admitted(n, obj) PROVE Sound(obj)
  BY <1>4 DEF Admitted, Handle
<1>5. ASSUME NEW n \in Namespace, Creates(n) \/ Rewrites(n) PROVE NoFrozenSource'
  <2>1. /\ ~IsSource(Keys, api'[n])
        /\ \A m \in Namespace \ {n} : api'[m] = api[m]
    <3>1. CASE Creates(n)
      BY <3>1, FreshFacts, PutType DEF Creates
    <3>2. CASE Rewrites(n)
      <4>1. api[n] \in Object
        BY <3>2 DEF Rewrites, TypeOK
      <4>2. Desired(api[n]) \in Object /\ ~IsSource(Keys, Desired(api[n]))
        BY <3>2, <4>1, DesiredFacts DEF Rewrites
      <4>3. Put(n, Desired(api[n]))
        BY <3>2 DEF Rewrites
      <4> QED BY <4>2, <4>3, PutType
    <3> QED BY <1>5, <3>1, <3>2
  <2> QED BY <1>2, <2>1
<1>6. ASSUME NEW n \in Namespace, Occupies(n) PROVE NoFrozenSource'
  <2>1. PICK obj \in UserObject : Admitted(n, obj) /\ Put(n, obj)
    BY <1>6 DEF Occupies
  <2>2. api'[n] = obj /\ \A m \in Namespace \ {n} : api'[m] = api[m]
    BY <2>1, UserWrites, PutType
  <2> QED BY <1>2, <1>4, <2>1, <2>2
<1>7. ASSUME NEW n \in Namespace, Ages(n) PROVE NoFrozenSource'
  <2>1. PICK obj \in Object \cup {None} :
          /\ Put(n, obj)
          /\ obj # None => obj.sync = api[n].sync \/ Admitted(n, obj)
    BY <1>7 DEF Ages
  <2>2. api'[n] = obj /\ \A m \in Namespace \ {n} : api'[m] = api[m]
    BY <2>1, PutType
  <2>3. n \in Gated => obj = None \/ Sound(obj)
    BY <1>3, <1>4, <1>7, <2>1 DEF Ages
  <2> QED BY <1>2, <2>2, <2>3
<1>8. ASSUME NEW n \in Namespace, Arms(n) \/ Disarms(n) PROVE NoFrozenSource'
  <2>1. PICK obj \in Object \cup {None} : Put(n, obj) /\ (obj = None \/ obj.sync = api[n].sync)
    <3>1. api[n] \in Object
      BY <1>8 DEF Arms, Disarms, TypeOK
    <3>2. /\ ReconcileFinalizer(Keys, api[n]).sync = api[n].sync
          /\ RemoveAllFinalizers(Keys, api[n]).sync = api[n].sync
      BY <3>1 DEF ReconcileFinalizer, RemoveAllFinalizers, Object
    <3>3. \A obj : Released(obj) \in {obj, None}
      BY DEF Released
    <3>4. /\ ReconcileFinalizer(Keys, api[n]) \in Object
          /\ Released(RemoveAllFinalizers(Keys, api[n])) \in Object \cup {None}
      BY <3>1, ObjectWrites
    <3>5. CASE Arms(n)
      BY <3>2, <3>4, <3>5 DEF Arms
    <3>6. CASE Disarms(n)
      BY <3>2, <3>3, <3>4, <3>6 DEF Disarms
    <3> QED BY <1>8, <3>5, <3>6
  <2>2. api'[n] = obj /\ \A m \in Namespace \ {n} : api'[m] = api[m]
    BY <2>1, PutType
  <2>3. n \in Gated => obj = None \/ Sound(obj)
    BY <1>3, <1>8, <2>1 DEF Arms, Disarms
  <2> QED BY <1>2, <2>2, <2>3
<1> QED BY <1>1, <1>5, <1>6, <1>7, <1>8 DEF ApiStep

\* Whichever namespaces the webhook is binding for, no source in one of them
\* that was sound at first ever stops being reconciled for its selector: neither
\* a user's annotation under another domain nor a copy that the controller
\* writes brings one in.
THEOREM WebhookGuards == Spec /\ NoFrozenSource => []NoFrozenSource
<1>1. TypeOK /\ StaleReadsAreSafe /\ NoFrozenSource /\ [Next]_vars => NoFrozenSource'
  BY EveryStep, WebhookSteps
<1> QED BY <1>1, TypeCorrect, StaleReads, PTL DEF Spec

-----------------------------------------------------------------------------
(* What marks an object carries *)

\* The object is neither a copy nor a source under the domains in U.
Unmarked(U, obj) ==
    \A d \in U : obj.stamp[d] = None /\ obj.sync[d] = None

\* Objects without marks of U that are not copies and sources at once.
Tame(U) ==
    {obj \in Object : /\ Unmarked(U, obj)
                      /\ IsManagedCopy(Keys, obj) => ~IsSource(Keys, obj)}

\* Users neither annotate copies, nor use domains that are not honoured, nor
\* create objects that carry marks.
Calm(U) ==
    /\ U \subseteq Domain \ Honoured(Keys)
    /\ EnvOps \cap {"Ahead", "Chain"} = {}
    /\ \A obj \in UserObject, d \in U \cup Honoured(Keys) :
          obj.stamp[d] = None /\ obj.sync[d] = None

\* Every version of an object, at the API server, on its way, in the cache or
\* in the worker's hands, is in G; and a fan-out is a source's.
Sees(G) ==
    /\ \A n \in Namespace : {api[n], cache[n]} \subseteq G \cup {None}
    /\ \A i \in DOMAIN watch : watch[i].obj \in G \cup {None}
    /\ wk # Idle => wk.src \in G /\ (~wk.release => IsSource(Keys, wk.src))

LEMMA SeesNext ==
    ASSUME TypeOK, NEW G, G \subseteq Object, Sees(G), [Next]_vars,
           \A n \in Namespace : api'[n] \in G \cup {None}
    PROVE  Sees(G)'
<1>0. \A n \in Namespace : api[n] \in G \cup {None} /\ cache[n] \in G \cup {None}
  BY DEF Sees
<1>1. (ViewStep \/ Deliver) /\ WorkerStep
  BY EveryView
<1>2. wk' # Idle => wk'.src \in G /\ (~wk'.release => IsSource(Keys, wk'.src))
  <2>1. wk \in Busy => wk # Idle
    BY DEF Idle, Busy
  <2> QED BY <1>0, <1>1, <2>1 DEF WorkerStep, Sees
<1>3. ASSUME \A n \in Namespace : cache'[n] \in G \cup {None},
             \A i \in DOMAIN watch' : watch'[i].obj \in G \cup {None}
      PROVE  Sees(G)'
  BY <1>2, <1>3 DEF Sees
<1>4. CASE UNCHANGED <<api, cache, watch>>
  BY <1>0, <1>3, <1>4 DEF Sees
<1>5. ASSUME NEW n \in Namespace, NEW obj \in Object \cup {None}, Put(n, obj),
             cache' = cache
      PROVE  Sees(G)'
  <2>1. obj \in G \cup {None}
    BY <1>5, PutObject
  <2>2. \A i \in DOMAIN watch' : watch'[i].obj \in G \cup {None}
    BY <1>5, <2>1, PutWatch DEF Sees
  <2> QED BY <1>0, <1>3, <1>5, <2>2
<1>6. CASE Deliver
  <2>1. /\ watch # <<>> /\ watch' = Tail(watch)
        /\ cache' = [cache EXCEPT ![Head(watch).ns] = Head(watch).obj]
    BY <1>6 DEF Deliver
  <2>2. Head(watch).obj \in G \cup {None}
    BY <2>1, WatchFacts DEF Sees
  <2>3. \A n \in Namespace : cache'[n] \in G \cup {None}
    BY <1>0, <2>1, <2>2 DEF TypeOK
  <2>4. \A i \in DOMAIN watch' : watch'[i].obj \in G \cup {None}
    BY <2>1, WatchFacts DEF Sees
  <2> QED BY <1>3, <2>3, <2>4
<1>7. CASE Relist
  <2>1. cache' = api /\ DOMAIN watch' = {}
    BY <1>7 DEF Relist
  <2> QED BY <1>0, <1>3, <2>1
<1> QED BY <1>1, <1>4, <1>5, <1>6, <1>7 DEF ViewStep, OneWrite

\* What upsertCopy writes takes over no mark of U, and is no source.
LEMMA TameCopies ==
    ASSUME NEW U, U \subseteq Domain \ Honoured(Keys),
           NEW src \in Tame(U), NEW dst \in Object, NEW k \in Namespace
    PROVE  Mirror(Keys, k, src, dst, None) \in Tame(U)
<1> DEFINE copy == Mirror(Keys, k, src, dst, None)
<1>1. src \in Object /\ Unmarked(U, src) /\ None \in Cluster \cup {None}
  BY DEF Tame
<1>2. copy \in Object /\ copy.fin = dst.fin /\ ~IsSource(Keys, copy)
  BY <1>1, KeysFacts, MirrorIsCopy
<1>3. \A d \in Domain :
        /\ d # Keys.primary => copy.stamp[d] = src.stamp[d]
        /\ copy.sync[d] = IF d \in Honoured(Keys) THEN None ELSE src.sync[d]
  BY <1>1, KeysFacts, MirrorMarks
<1> HIDE DEF copy
<1>4. Unmarked(U, copy)
  BY <1>1, <1>2, <1>3, KeysFacts DEF Unmarked
<1> QED BY <1>2, <1>4 DEF Tame, copy

LEMMA TameMarks ==
    ASSUME NEW U, NEW old \in Tame(U), NEW new \in Object,
           SameMarks(old, new), new.sync = old.sync
    PROVE  new \in Tame(U)
<1>1. IsManagedCopy(Keys, new) <=> IsManagedCopy(Keys, old)
  BY MarksKept DEF Tame
<1>2. IsSource(Keys, new) <=> IsSource(Keys, old)
  BY DEF IsSource
<1>3. Unmarked(U, new)
  BY DEF Unmarked, Tame, SameMarks
<1> QED BY <1>1, <1>2, <1>3 DEF Tame

LEMMA TameWrites ==
    ASSUME TypeOK, NEW U, Calm(U), Sees(Tame(U)), ApiStep
    PROVE  \A n \in Namespace : api'[n] \in Tame(U) \cup {None}
<1>0. /\ \A n \in Namespace : api[n] \in Tame(U) \cup {None}
      /\ \A obj \in Object : obj # None
      /\ U \subseteq Domain \ Honoured(Keys) /\ Tame(U) \subseteq Object
  BY NoneAssumption DEF Sees, Tame, Calm
<1>1. ASSUME NEW n \in Namespace, NEW obj \in Object \cup {None}, Put(n, obj),
             obj \in Tame(U) \cup {None}
      PROVE  \A m \in Namespace : api'[m] \in Tame(U) \cup {None}
  BY <1>0, <1>1, PutObject
<1>2. ASSUME NEW n \in Namespace, api[n] # None
      PROVE  api[n] \in Tame(U) /\ api[n] \in Object
  BY <1>0, <1>2 DEF Tame
<1>3. ASSUME wk \in Busy
      PROVE  wk.src \in Tame(U) /\ wk.src \in Object /\ wk.key \in Namespace
  BY <1>3, WorkerType, LocalsType DEF Sees, TypeOK
<1>4. CASE UNCHANGED api
  BY <1>0, <1>4
<1>5. ASSUME NEW n \in Namespace, Creates(n)
      PROVE  \A m \in Namespace : api'[m] \in Tame(U) \cup {None}
  <2>1. wk \in Busy /\ Put(n, Fresh)
    BY <1>5 DEF Creates
  <2>2. EmptyObject(wk.src.data) \in Object
    <3>1. wk.src.data \in Data
      BY <1>3, <2>1 DEF Object
    <3> QED BY <3>1, EmptyObjectType
  <2>3. Fresh \in Tame(U)
    BY <1>0, <1>3, <2>1, <2>2, TameCopies DEF Fresh, Desired
  <2> QED BY <1>0, <1>1, <2>1, <2>3
<1>6. ASSUME NEW n \in Namespace, Rewrites(n)
      PROVE  \A m \in Namespace : api'[m] \in Tame(U) \cup {None}
  <2>1. wk \in Busy /\ Put(n, Desired(api[n])) /\ api[n] # None
    BY <1>6 DEF Rewrites
  <2>2. Desired(api[n]) \in Tame(U)
    BY <1>0, <1>2, <1>3, <2>1, TameCopies DEF Desired
  <2> QED BY <1>0, <1>1, <2>1, <2>2
<1>7. ASSUME NEW n \in Namespace, Occupies(n)
      PROVE  \A m \in Namespace : api'[m] \in Tame(U) \cup {None}
  <2>1. PICK obj \in UserObject : Put(n, obj)
    BY <1>7 DEF Occupies
  <2>2. obj \in Object /\ obj.fin = {}
    BY UserWrites
  <2>3. \A d \in U \cup Honoured(Keys) : obj.stamp[d] = None /\ obj.sync[d] = None
    BY DEF Calm
  <2>4. ~IsSource(Keys, obj) /\ Unmarked(U, obj)
    BY <2>2, <2>3 DEF IsSource, Unmarked
  <2> QED BY <1>1, <2>1, <2>2, <2>4 DEF Tame
<1>8. ASSUME NEW n \in Namespace, Ages(n)
      PROVE  \A m \in Namespace : api'[m] \in Tame(U) \cup {None}
  <2>1. PICK obj \in Object \cup {None} :
          /\ Put(n, obj)
          /\ obj # None =>
               /\ SameMarks(api[n], obj) /\ obj.fin = api[n].fin
               /\ obj.sync = api[n].sync \/ Annotates(api[n], obj)
    BY <1>8 DEF Ages
  <2>2. api[n] # None
    BY <1>8 DEF Ages
  <2>3. CASE obj = None
    BY <1>1, <2>1, <2>3
  <2>4. CASE obj # None /\ obj.sync = api[n].sync
    <3>1. obj \in Tame(U)
      BY <1>2, <2>1, <2>2, <2>4, TameMarks
    <3> QED BY <1>1, <2>1, <3>1
  <2>5. CASE obj # None /\ Annotates(api[n], obj)
    <3>1. obj \in Object /\ SameMarks(api[n], obj) /\ obj.fin = api[n].fin
      BY <2>1, <2>5
    <3>2. ~IsManagedCopy(Keys, api[n])
      BY <2>5 DEF Annotates, Calm
    <3>3. ~IsManagedCopy(Keys, obj)
      BY <1>2, <2>2, <3>1, <3>2, MarksKept
    <3>4. \A e \in U : obj.sync[e] = api[n].sync[e]
      BY <1>0, <2>5 DEF Annotates, Calm
    <3>5. Unmarked(U, obj)
      BY <1>2, <2>2, <3>1, <3>4 DEF Tame, Unmarked, SameMarks
    <3>6. obj \in Tame(U)
      BY <3>1, <3>3, <3>5 DEF Tame
    <3> QED BY <1>1, <2>1, <3>6
  <2> QED BY <2>1, <2>3, <2>4, <2>5
<1>9. ASSUME NEW n \in Namespace, Arms(n)
      PROVE  \A m \in Namespace : api'[m] \in Tame(U) \cup {None}
  <2> DEFINE new == ReconcileFinalizer(Keys, api[n])
  <2>1. Put(n, new) /\ api[n] \in Tame(U) /\ api[n] \in Object
    BY <1>2, <1>9 DEF Arms
  <2>2. new \in Object
    BY <2>1, ObjectWrites
  <2>3. SameMarks(api[n], new) /\ new.sync = api[n].sync
    BY <2>1 DEF ReconcileFinalizer, SameMarks, Object
  <2> HIDE DEF new
  <2>4. new \in Tame(U)
    BY <2>1, <2>2, <2>3, TameMarks
  <2> QED BY <1>1, <2>1, <2>2, <2>4
<1>10. ASSUME NEW n \in Namespace, Disarms(n)
       PROVE  \A m \in Namespace : api'[m] \in Tame(U) \cup {None}
  <2> DEFINE new == RemoveAllFinalizers(Keys, api[n])
  <2>1. Put(n, Released(new)) /\ api[n] \in Tame(U) /\ api[n] \in Object
    BY <1>2, <1>10 DEF Disarms
  <2>2. new \in Object
    BY <2>1, ObjectWrites
  <2>3. SameMarks(api[n], new) /\ new.sync = api[n].sync
    BY <2>1 DEF RemoveAllFinalizers, SameMarks, Object
  <2> HIDE DEF new
  <2>4. new \in Tame(U)
    BY <2>1, <2>2, <2>3, TameMarks
  <2>5. Released(new) \in {new, None}
    BY DEF Released
  <2> QED BY <1>1, <2>1, <2>2, <2>4, <2>5
<1> QED BY <1>4, <1>5, <1>6, <1>7, <1>8, <1>9, <1>10 DEF ApiStep

\* Among calm users the controller mixes no roles and no domains.
LEMMA TameNext ==
    ASSUME TypeOK, StaleReadsAreSafe, NEW U, Calm(U), Sees(Tame(U)), [Next]_vars
    PROVE  Sees(Tame(U))'
<1>1. \A n \in Namespace : api'[n] \in Tame(U) \cup {None}
  BY EveryStep, TameWrites
<1>2. Tame(U) \subseteq Object
  BY DEF Tame
<1> DEFINE G == Tame(U)
<1> HIDE DEF G
<1>3. Sees(G)'
  BY <1>1, <1>2, SeesNext DEF G
<1> QED BY <1>3 DEF G

\* What once lost the stamp of d, or never had it, does not get it again: the
\* same holds of every later version.
Clear(d, obj) == obj = None \/ (obj # None /\ obj.stamp[d] = None)

Fades(d) ==
    /\ \A n \in Namespace : Clear(d, cache[n]) =>
          /\ Clear(d, api[n])
          /\ \A i \in DOMAIN watch : watch[i].ns = n => Clear(d, watch[i].obj)
    /\ \A i \in DOMAIN watch : Clear(d, watch[i].obj) =>
          /\ Clear(d, api[watch[i].ns])
          /\ \A j \in DOMAIN watch :
                i < j /\ watch[j].ns = watch[i].ns => Clear(d, watch[j].obj)

\* Copies are stamped under the primary domain alone: a source that is fanned
\* out is no copy, so it has no stamp of its own to pass on.
LEMMA ClearWrites ==
    ASSUME TypeOK, StaleReadsAreSafe, NEW U, Calm(U), Sees(Tame(U)), ApiStep,
           NEW d \in Honoured(Keys) \ {Keys.primary}
    PROVE  \A n \in Namespace : Clear(d, api[n]) => Clear(d, api'[n])
<1>0. \A n \in Namespace : api[n] # None => api[n] \in Object
  BY DEF TypeOK
<1>1. d \in Domain
  BY KeysFacts
<1>2. ASSUME NEW n \in Namespace, NEW obj \in Object \cup {None}, Put(n, obj),
             Clear(d, api[n]) => Clear(d, obj)
      PROVE  \A m \in Namespace : Clear(d, api[m]) => Clear(d, api'[m])
  BY <1>2, PutObject
<1>3. ASSUME wk \in Busy, wk.pc = "upsert", NEW dst \in Object
      PROVE  Desired(dst) \in Object /\ Clear(d, Desired(dst))
  <2>1. /\ wk.src \in Tame(U) /\ IsSource(Keys, wk.src)
        /\ wk.src \in Object /\ wk.key \in Namespace
    BY <1>3, WorkerType, LocalsType DEF Sees, StaleReadsAreSafe, WorkerOK, TypeOK
  <2>2. ~IsManagedCopy(Keys, wk.src)
    BY <2>1 DEF Tame
  <2>3. wk.src.stamp[d] = None
    BY <2>1, <2>2, KeysFacts, ManagedWhenStamped
  <2>4. Desired(dst).stamp[d] = wk.src.stamp[d]
    <3>1. None \in Cluster \cup {None}
      OBVIOUS
    <3> QED BY <1>1, <1>3, <2>1, <3>1, KeysFacts, MirrorMarks DEF Desired
  <2>5. Desired(dst) \in Object
    BY <1>3, DesiredFacts
  <2> QED BY <2>3, <2>4, <2>5, NoneAssumption DEF Clear
<1>4. CASE UNCHANGED api
  BY <1>4
<1>5. ASSUME NEW n \in Namespace, Creates(n)
      PROVE  \A m \in Namespace : Clear(d, api[m]) => Clear(d, api'[m])
  <2>1. wk \in Busy /\ wk.pc = "upsert" /\ Put(n, Fresh)
    BY <1>5 DEF Creates
  <2>2. EmptyObject(wk.src.data) \in Object
    BY <2>1, LocalsType, EmptyObjectType DEF Object
  <2>3. Fresh \in Object /\ Clear(d, Fresh)
    BY <1>3, <2>1, <2>2 DEF Fresh
  <2> QED BY <1>2, <2>1, <2>3
<1>6. ASSUME NEW n \in Namespace, Rewrites(n)
      PROVE  \A m \in Namespace : Clear(d, api[m]) => Clear(d, api'[m])
  <2>1. /\ wk \in Busy /\ wk.pc = "upsert"
        /\ Put(n, Desired(api[n])) /\ api[n] # None
    BY <1>6 DEF Rewrites
  <2>2. Desired(api[n]) \in Object /\ Clear(d, Desired(api[n]))
    BY <1>0, <1>3, <2>1
  <2> QED BY <1>2, <2>1, <2>2
<1>7. ASSUME NEW n \in Namespace, Occupies(n)
      PROVE  \A m \in Namespace : Clear(d, api[m]) => Clear(d, api'[m])
  <2>1. PICK obj \in UserObject : Put(n, obj)
    BY <1>7 DEF Occupies
  <2>2. obj \in Object /\ obj # None /\ obj.stamp[d] = None
    BY UserWrites, NoneAssumption DEF Calm
  <2> QED BY <1>2, <2>1, <2>2 DEF Clear
<1>8. ASSUME NEW n \in Namespace, Ages(n) \/ Arms(n) \/ Disarms(n)
      PROVE  \A m \in Namespace : Clear(d, api[m]) => Clear(d, api'[m])
  <2>1. /\ api[n] \in Object
        /\ \A m \in Namespace \ {n} : api'[m] = api[m]
        /\ api'[n] = None \/ SameMarks(api[n], api'[n])
    BY <1>8, AgesMarks, ArmsMarks, DisarmsMarks
  <2> QED BY <2>1, NoneAssumption DEF Clear, SameMarks
<1> QED BY <1>4, <1>5, <1>6, <1>7, <1>8 DEF ApiStep

LEMMA FadesNext ==
    ASSUME TypeOK, StaleReadsAreSafe, NEW U, Calm(U), Sees(Tame(U)),
           NEW d \in Honoured(Keys) \ {Keys.primary}, Fades(d), [Next]_vars
    PROVE  Fades(d)'
<1>1. ViewStep \/ Deliver
  BY EveryView
<1>2. \A n \in Namespace : Clear(d, api[n]) => Clear(d, api'[n])
  BY EveryStep, ClearWrites
<1>3. CASE UNCHANGED <<api, cache, watch>>
  BY <1>3 DEF Fades
<1>4. ASSUME NEW n \in Namespace, NEW obj \in Object \cup {None}, Put(n, obj),
             cache' = cache
      PROVE  Fades(d)'
  <2>1. /\ api'[n] = obj
        /\ \A m \in Namespace \ {n} : api'[m] = api[m]
    BY <1>4, PutObject
  <2>2. PICK last \in DOMAIN watch' :
          /\ watch'[last].ns = n /\ watch'[last].obj = obj
          /\ \A i \in DOMAIN watch :
               i \in DOMAIN watch' /\ watch'[i] = watch[i] /\ i < last
          /\ \A i \in DOMAIN watch' : i = last \/ i \in DOMAIN watch
    BY <1>4, PutWatch
  <2>3. \A i \in DOMAIN watch : i \in Nat /\ watch[i].ns \in Namespace
    BY EventType DEF TypeOK
  <2>4. last \in Nat
    BY <1>4, PutType
  <2>5. ASSUME NEW m \in Namespace, Clear(d, cache'[m])
        PROVE  /\ Clear(d, api'[m])
               /\ \A i \in DOMAIN watch' : watch'[i].ns = m => Clear(d, watch'[i].obj)
    <3>1. /\ Clear(d, api[m])
          /\ \A i \in DOMAIN watch : watch[i].ns = m => Clear(d, watch[i].obj)
      BY <1>4, <2>5 DEF Fades
    <3>2. Clear(d, api'[m])
      BY <1>2, <3>1
    <3> QED BY <2>1, <2>2, <3>1, <3>2
  <2>6. ASSUME NEW i \in DOMAIN watch', Clear(d, watch'[i].obj)
        PROVE  /\ Clear(d, api'[watch'[i].ns])
               /\ \A j \in DOMAIN watch' :
                    i < j /\ watch'[j].ns = watch'[i].ns => Clear(d, watch'[j].obj)
    <3>1. CASE i = last
      <4>1. Clear(d, api'[n])
        BY <2>1, <2>2, <2>6, <3>1
      <4>2. \A j \in DOMAIN watch' : ~(i < j)
        BY <2>2, <2>3, <2>4, <3>1
      <4> QED BY <2>2, <3>1, <4>1, <4>2
    <3>2. CASE i \in DOMAIN watch
      <4>1. watch'[i] = watch[i] /\ watch[i].ns \in Namespace
        BY <2>2, <2>3, <3>2
      <4>2. /\ Clear(d, api[watch[i].ns])
            /\ \A j \in DOMAIN watch :
                 i < j /\ watch[j].ns = watch[i].ns => Clear(d, watch[j].obj)
        BY <2>6, <3>2, <4>1 DEF Fades
      <4>3. Clear(d, api'[watch[i].ns])
        BY <1>2, <4>1, <4>2
      <4> QED BY <2>1, <2>2, <4>1, <4>2, <4>3
    <3> QED BY <2>2, <3>1, <3>2
  <2> QED BY <2>5, <2>6 DEF Fades
<1>5. CASE Deliver
  <2>1. /\ watch # <<>> /\ watch' = Tail(watch) /\ api' = api
        /\ cache' = [cache EXCEPT ![Head(watch).ns] = Head(watch).obj]
        /\ Head(watch).ns \in Namespace /\ Head(watch) = watch[1]
        /\ 1 \in DOMAIN watch
    BY <1>5, WatchFacts DEF Deliver
  <2>2. \A i \in DOMAIN watch' :
          i \in Nat /\ i + 1 \in DOMAIN watch /\ 1 < i + 1 /\ watch'[i] = watch[i + 1]
    <3>1. DOMAIN watch' \subseteq Nat \ {0}
      BY <2>1, WatchFacts
    <3> QED BY <2>1, <3>1, WatchFacts
  <2>3. ASSUME NEW m \in Namespace, Clear(d, cache'[m])
        PROVE  /\ Clear(d, api'[m])
               /\ \A i \in DOMAIN watch' : watch'[i].ns = m => Clear(d, watch'[i].obj)
    <3>1. CASE m = watch[1].ns
      <4>1. Clear(d, watch[1].obj)
        BY <2>1, <2>3, <3>1 DEF TypeOK
      <4>2. /\ Clear(d, api[m])
            /\ \A j \in DOMAIN watch :
                 1 < j /\ watch[j].ns = m => Clear(d, watch[j].obj)
        BY <2>1, <3>1, <4>1 DEF Fades
      <4> QED BY <2>1, <2>2, <4>2
    <3>2. CASE m # watch[1].ns
      <4>1. cache'[m] = cache[m]
        BY <2>1, <3>2 DEF TypeOK
      <4>2. /\ Clear(d, api[m])
            /\ \A i \in DOMAIN watch : watch[i].ns = m => Clear(d, watch[i].obj)
        BY <2>3, <4>1 DEF Fades
      <4> QED BY <2>1, <2>2, <4>2
    <3> QED BY <3>1, <3>2
  <2>4. ASSUME NEW i \in DOMAIN watch', Clear(d, watch'[i].obj)
        PROVE  /\ Clear(d, api'[watch'[i].ns])
               /\ \A j \in DOMAIN watch' :
                    i < j /\ watch'[j].ns = watch'[i].ns => Clear(d, watch'[j].obj)
    <3>1. /\ Clear(d, api[watch[i + 1].ns])
          /\ \A j \in DOMAIN watch :
               i + 1 < j /\ watch[j].ns = watch[i + 1].ns => Clear(d, watch[j].obj)
      BY <2>2, <2>4 DEF Fades
    <3>2. \A j \in DOMAIN watch' : i < j => i + 1 < j + 1
      BY <2>2
    <3> QED BY <2>1, <2>2, <3>1, <3>2
  <2> QED BY <2>3, <2>4 DEF Fades
<1>6. CASE Relist
  <2>1. cache' = api' /\ DOMAIN watch' = {}
    BY <1>6 DEF Relist
  <2> QED BY <2>1 DEF Fades
<1> QED BY <1>1, <1>3, <1>4, <1>5, <1>6 DEF ViewStep, OneWrite

\* Nothing that is clear in the cache stops being so.
LEMMA StaysClear ==
    ASSUME TypeOK, NEW d, Fades(d), [Next]_vars,
           \A n \in Namespace : Clear(d, cache[n])
    PROVE  \A n \in Namespace : Clear(d, cache'[n])
<1>1. ViewStep \/ Deliver
  BY EveryView
<1>2. CASE Deliver
  <2>1. Clear(d, Head(watch).obj) /\ cache' = [cache EXCEPT ![Head(watch).ns] = Head(watch).obj]
    BY <1>2, WatchFacts DEF Deliver, Fades
  <2> QED BY <2>1 DEF TypeOK
<1>3. CASE Relist
  BY <1>3 DEF Relist, Fades
<1> QED BY <1>1, <1>2, <1>3 DEF ViewStep, OneWrite
\* A process that starts, the first or a later one, knows the objects there are.
LEMMA SeesInit ==
    ASSUME Init, NEW G, \A n \in Namespace : api[n] \in G \cup {None}
    PROVE  Sees(G)
<1>1. cache = api /\ DOMAIN watch = {} /\ wk = Idle
  BY DEF Init
<1> QED BY <1>1 DEF Sees

LEMMA Relisted ==
    ASSUME TypeOK, Relist, ops' = ops, NEW G,
           \A n \in Namespace : api[n] \in G \cup {None}
    PROVE  /\ TypeOK' /\ StaleReadsAreSafe' /\ Sees(G)' /\ NothingForgotten'
           /\ \A d : Fades(d)'
<1>1. /\ api' = api /\ cache' = api /\ watch' = <<>> /\ DOMAIN watch' = {}
      /\ wk' = Idle /\ queue' = ResyncKeys(api')
  BY DEF Relist
<1>2. queue' \subseteq Namespace
  BY <1>1, ResyncKeysType DEF TypeOK
<1>3. TypeOK'
  BY <1>1, <1>2 DEF Relist, TypeOK
<1>4. StaleReadsAreSafe'
  BY <1>1, <1>3, RelistSafe
<1>5. NothingForgotten'
  BY <1>1, RelistForgetsNothing
<1>6. Sees(G)'
  BY <1>1 DEF Sees
<1>7. \A d : Fades(d)'
  BY <1>1 DEF Fades
<1> QED BY <1>3, <1>4, <1>5, <1>6, <1>7
=============================================================================
