---- MODULE NodePoolProofs ----
(***************************************************************************)
(* What holds of NodePool for every set of identifiers, every number of    *)
(* nodes, every selection of faults and every budget of them.              *)
(*                                                                         *)
(* Typed is inductive alone.  Traced says what the reconcile, the informer *)
(* and the API server can differ in.  Accounted puts every live pool down  *)
(* to the copy that will name it, or to an incident of its own: a stale    *)
(* read is charged when the reconcile starts from it, and pays for the one *)
(* label that its patches may overwrite.  Told and Published follow        *)
(* Status.Ready and FailureMessage from the answer they come from.         *)
(***************************************************************************)
EXTENDS NodePool, AccountsProofs

\* The calls of reconcileNormal, those of reconcileDelete, and among both
\* those that pass the label to the cloud.
EarlySteps == {"AddFinalizer", "ShowNodePool", "CreateNodePool"}

DeleteSteps == {"ShowDeleting", "MarkDeleting", "DeleteNodePool", "WaitDeleted",
                "MarkDeleted", "MarkFailed", "RemoveFinalizer"}

PoolSteps == {"ShowNodePool", "ListNodes", "SetStatus", "WaitActive",
              "ShowActive", "ListActiveNodes", "SetActiveStatus",
              "MarkDeleting", "DeleteNodePool", "WaitDeleted"}

Running == pc # "Idle"

\* A call that names a pool has its identifier.
Named == pc \in PoolSteps => mem.label # None

Typed == TypeOK /\ Named

\* Of any copy: a deletion waits for the finalizer, which is stored before the
\* label is.
Stored(o) ==
    /\ o.exists /\ o.deleting => o.finalizer
    /\ o.exists /\ ~o.finalizer => o.label = None

\* The informer's copy is an earlier state of the stored object.
Earlier ==
    /\ ~api.exists /\ ~api.deleting => ~Running /\ ~cache.exists
    /\ api.exists /\ ~api.finalizer => ~(cache.exists /\ cache.finalizer)
    /\ cache.exists /\ cache.deleting /\ api.exists => api.deleting

\* The copy is without the finalizer once reconcileDelete has removed it.
Released == pc = "Close" /\ ~mem.finalizer

\* What the running reconcile has done to its copy, and what the stored object
\* can be meanwhile.
Copied ==
    Running =>
        /\ Stored(before)
        /\ pc # "Close" => mem.finalizer
        /\ pc \in EarlySteps => mem.label = before.label
        /\ pc \in DeleteSteps => mem = before
        /\ pc \in DeleteSteps \/ Released => (api.exists => api.deleting)
        /\ pc = "AddFinalizer" => ~before.finalizer
        /\ pc = "CreateNodePool" => ~(mem.label \in Pool /\ Alive(mem.label))
        /\ api.exists /\ ~api.finalizer =>
               /\ ~before.finalizer /\ mem.label = None
               /\ pc \in {"AddFinalizer", "Close"}

Traced == Stored(api) /\ Stored(cache) /\ Earlier /\ Copied

\* The stored label is one that the reconcile knows, or there is no object and
\* nothing to store.
Fresh == IF api.exists THEN api.label \in {before.label, mem.label}
                       ELSE mem.label = None /\ pc \in {"AddFinalizer", "Close"}

\* A reconcile that started from a stale copy, and may overwrite the label.
Strayed == Running /\ ~Fresh

\* The reconcile is about to drop the finalizer, and the label with it.
Doomed ==
    \/ pc \in {"MarkDeleted", "RemoveFinalizer"}
    \/ pc = "WaitDeleted" /\ phase[mem.label] # "Deleting"
    \/ Released

Live == {p \in Pool : Alive(p)}

\* The copy that will still name the pool when the reconcile ends.
Credited(p) ==
    \/ (~Running \/ Strayed) /\ api.exists /\ api.label = p
    \/ Running /\ ~Doomed /\ mem.label = p

Lost == {p \in Live : ~Credited(p)}

\* Every pool that no copy will name, and the label that a stale copy may yet
\* overwrite, is put down to an incident of its own.
Accounted == Balanced(Lost, Strayed, incidents)

\* Ready differs from the snapshot only as the last phase read says.
Told == Running => (mem.ready # before.ready => (mem.ready <=> seen = "Active"))

\* The answers that the running reconcile has had.
Heard ==
    /\ ~Running \/ pc \in EarlySteps \cup DeleteSteps => seen = None
    /\ pc \in {"WaitActive", "ShowActive"} => seen = "Synchronizing"

\* While a pool synchronizes the copy keeps the snapshot's failure, and so the
\* patches of one reconcile never add one field to the other.
Published ==
    /\ ~(api.ready /\ api.failure)
    /\ Running =>
         /\ ~(mem.ready /\ mem.failure)
         /\ api.ready => before.ready \/ mem.ready
         /\ api.failure => before.failure \/ mem.failure
         /\ seen = "Synchronizing" => ~mem.ready /\ mem.failure = before.failure
         /\ pc \in EarlySteps =>
              /\ mem.ready = before.ready /\ mem.failure = before.failure
              /\ api.ready = before.ready /\ api.failure = before.failure

Clean == Heard /\ (incidents = 0 => Published)

IInv == Typed /\ Traced /\ Accounted /\ Told /\ Clean
----
(***************************************************************************)
(* Types.                                                                  *)
(***************************************************************************)

\* A patch stores an object of the type: it copies fields of typed objects.
LEMMA PersistedType ==
    ASSUME TypeOK, NEW meta \in BOOLEAN, NEW status \in BOOLEAN
    PROVE  Persisted(meta, status) \in Object
  <1> DEFINE kept == Merge(meta, before.finalizer, mem.finalizer, api.finalizer)
             held == ~(api.deleting /\ ~kept)
             lbl == Merge(meta, before.label, mem.label, api.label)
             lst == Merge(meta, before.listed, mem.listed, api.listed)
             rdy == Merge(status, before.ready, mem.ready, api.ready)
             rpl == Merge(status, before.replicas, mem.replicas, api.replicas)
             flr == Merge(status, before.failure, mem.failure, api.failure)
  <1>1. api \in Object /\ mem \in Object
    BY DEF TypeOK
  <1>2. /\ kept \in BOOLEAN /\ rdy \in BOOLEAN /\ flr \in BOOLEAN
        /\ lbl \in Pool \cup {None}
        /\ lst \in 0 .. MaxNodes /\ rpl \in 0 .. MaxNodes
    BY <1>1 DEF Object, Merge
  <1>3. held \in BOOLEAN
    OBVIOUS
  <1>4. Persisted(meta, status) =
          [api EXCEPT !.exists = held, !.finalizer = kept, !.label = lbl,
                      !.listed = lst, !.ready = rdy, !.replicas = rpl, !.failure = flr]
    BY DEF Persisted
  <1> HIDE DEF kept, held, lbl, lst, rdy, rpl, flr
  <1> QED BY <1>1, <1>2, <1>3, <1>4 DEF Object

LEMMA NoNodes == 0 \in 0 .. MaxNodes
  BY Environment

LEMMA NewObjectType == NewObject \in Object /\ Absent \in Object
  BY NoNodes DEF NewObject, Absent, Object

LEMMA FaultType ==
    ASSUME TypeOK, NEW kind, Fault(kind) \/ NoFault
    PROVE  faults' \in Nat /\ incidents' \in Nat
  BY DEF TypeOK, Fault, NoFault, counters

\* PatchObject stores a typed object and goes on as told.
LEMMA PatchObjectType ==
    ASSUME TypeOK, NEW fault, NEW served, NEW failed,
           PatchObject(fault, served, failed)
    PROVE  /\ api' \in Object
           /\ pc' \in {served, failed}
           /\ faults' \in Nat /\ incidents' \in Nat
  BY PersistedType, FaultType DEF PatchObject, TypeOK

LEMMA TypedInit == Init => Typed
  <1> SUFFICES ASSUME Init PROVE Typed
    OBVIOUS
  <1>1. api \in Object /\ cache \in Object /\ before \in Object /\ mem \in Object
    BY NewObjectType DEF Init
  <1>2. /\ phase \in [Pool -> Phase \cup {"Unborn", "Gone"}]
        /\ nodes \in [Pool -> 0 .. MaxNodes] /\ current \in 0 .. MaxNodes
    BY NoNodes DEF Init
  <1> QED BY <1>1, <1>2 DEF Init, Typed, TypeOK, Named, Steps, PoolSteps

LEMMA TypedReconcile ==
    ASSUME Typed, Reconcile
    PROVE  Typed'
  <1>1. cache \in Object /\ faults' \in Nat /\ incidents' \in Nat
    BY FaultType DEF Typed, TypeOK, Reconcile
  <1>2. mem' \in Object /\ mem'.label = cache.label
    BY <1>1 DEF Reconcile, Object
  <1>3. pc' \in Steps /\ Named'
    BY <1>2 DEF Reconcile, FirstStep, Steps, Calls, Named, PoolSteps
  <1> QED BY <1>1, <1>2, <1>3
       DEF Reconcile, Typed, TypeOK, object, cloud, others

\* The seven actions that patch the object.
LEMMA TypedPatch ==
    ASSUME Typed,
           \/ AddFinalizer \/ SetStatus \/ SetActiveStatus
           \/ MarkDeleting \/ MarkDeleted \/ MarkFailed \/ Close
    PROVE  Typed'
  <1>1. ASSUME Close PROVE Typed'
    <2>1. pc' = "Idle" /\ api' \in Object /\ faults' \in Nat /\ incidents' \in Nat
      BY <1>1, PatchObjectType DEF Close, Typed
    <2> QED BY <2>1, <1>1, NewObjectType, NoNodes
         DEF Close, Typed, TypeOK, Named, PoolSteps, Steps, cloud, others
  <1>2. ASSUME NEW served \in Steps, NEW failed \in Steps,
               PatchObject("callFails", served, failed),
               served \in PoolSteps => mem.label # None,
               failed \notin PoolSteps,
               UNCHANGED <<cache, before, mem, seen, current, cloud, others>>
        PROVE  Typed'
    BY <1>2, PatchObjectType DEF Typed, TypeOK, Named, cloud, others
  <1>3. CASE AddFinalizer \/ SetStatus \/ MarkDeleting
    BY <1>2, <1>3 DEF AddFinalizer, SetStatus, MarkDeleting, FirstStep, Steps, Calls,
                      PoolSteps, Typed, Named
  <1>4. CASE SetActiveStatus \/ MarkDeleted \/ MarkFailed
    BY <1>2, <1>4 DEF SetActiveStatus, MarkDeleted, MarkFailed, Steps, Calls, PoolSteps
  <1> QED BY <1>1, <1>3, <1>4

\* setStatus keeps the types whatever phase it is given.
LEMMA ObserveType ==
    ASSUME Typed, NEW p \in Phase, NEW n \in 0 .. MaxNodes, NEW listing, NEW patching,
           Observe(p, n, listing, patching)
    PROVE  /\ mem' \in Object /\ mem'.label = mem.label
           /\ mem'.finalizer = mem.finalizer
           /\ seen' = p /\ current' = n
           /\ pc' \in {listing, patching}
  <1> DEFINE rdy == p = "Active"
             flr == p = "Error" \/ (mem.failure /\ p # "Active")
  <1>1. mem \in Object
    BY DEF Typed, TypeOK
  <1>2. /\ mem' = [mem EXCEPT !.ready = rdy, !.failure = flr]
        /\ seen' = p /\ current' = n /\ pc' \in {listing, patching}
    BY DEF Observe
  <1>3. rdy \in BOOLEAN /\ flr \in BOOLEAN
    OBVIOUS
  <1> HIDE DEF rdy, flr
  <1> QED BY <1>1, <1>2, <1>3 DEF Object

LEMMA TypedNormal ==
    ASSUME Typed,
           \/ ShowNodePool \/ CreateNodePool \/ ListNodes
           \/ WaitActive \/ WaitTimesOut \/ ShowActive
    PROVE  Typed'
  <1>1. /\ mem \in Object /\ phase \in [Pool -> Phase \cup {"Unborn", "Gone"}]
        /\ nodes \in [Pool -> 0 .. MaxNodes]
        /\ pc \in PoolSteps => mem.label \in Pool
    BY DEF Typed, TypeOK, Named, Object
  <1>2. CASE ShowNodePool \/ ShowActive
    <2>1. CASE Alive(mem.label)
      <3>1. phase[mem.label] \in Phase /\ nodes[mem.label] \in 0 .. MaxNodes
        BY <1>1, <1>2, <2>1 DEF Alive, ShowNodePool, ShowActive, PoolSteps
      <3>2. /\ mem' \in Object /\ mem'.label = mem.label
            /\ seen' \in Phase /\ current' \in 0 .. MaxNodes
            /\ pc' \in {"ListNodes", "SetStatus", "ListActiveNodes", "SetActiveStatus"}
        BY <1>2, <2>1, <3>1, ObserveType DEF ShowNodePool, ShowActive
      <3> QED BY <1>2, <3>2
           DEF ShowNodePool, ShowActive, Typed, TypeOK, Named, PoolSteps, Steps, Calls,
               object, cloud, others, counters
    <2>2. CASE ~Alive(mem.label)
      BY <1>2, <2>2
         DEF ShowNodePool, ShowActive, Typed, TypeOK, Named, PoolSteps, Steps, Calls,
             object, cloud, others, counters
    <2> QED BY <2>1, <2>2
  <1>3. CASE CreateNodePool
    <2>1. CASE cluster = "Alive"
      <3>1. PICK p \in Pool, s \in {"Synchronizing", "Active"} :
               /\ phase' = [phase EXCEPT ![p] = s]
               /\ mem' = [mem EXCEPT !.label = p, !.ready = (s = "Active"),
                                     !.failure = @ /\ s # "Active"]
               /\ seen' = s
        BY <1>3, <2>1 DEF CreateNodePool
      <3>2. mem' \in Object /\ mem'.label # None
        <4> DEFINE rdy == s = "Active"
                   flr == mem.failure /\ s # "Active"
        <4>1. mem' = [mem EXCEPT !.label = p, !.ready = rdy, !.failure = flr]
          BY <3>1
        <4>2. rdy \in BOOLEAN /\ flr \in BOOLEAN /\ p # None
          BY <1>1, Environment DEF Object
        <4> HIDE DEF rdy, flr
        <4> QED BY <1>1, <4>1, <4>2 DEF Object
      <3>3. phase' \in [Pool -> Phase \cup {"Unborn", "Gone"}] /\ seen' \in Phase
        BY <1>1, <3>1 DEF Phase
      <3> QED BY <1>3, <2>1, <3>2, <3>3, NoNodes
           DEF CreateNodePool, Typed, TypeOK, Named, Steps, object, others, counters
    <2>2. CASE cluster # "Alive"
      BY <1>3, <2>2
         DEF CreateNodePool, Typed, TypeOK, Named, PoolSteps, Steps, object, others,
             counters
    <2> QED BY <2>1, <2>2
  <1>4. CASE ListNodes
    <2>1. mem' \in Object /\ mem'.label = mem.label
      BY <1>1, <1>4 DEF ListNodes, PoolSteps, Typed, TypeOK, Object
    <2> QED BY <1>4, <2>1
         DEF ListNodes, Typed, TypeOK, Named, PoolSteps, Steps, object, cloud, others,
             counters
  <1>5. CASE WaitActive \/ WaitTimesOut
    BY <1>5 DEF WaitActive, WaitTimesOut, Typed, TypeOK, Named, PoolSteps, Steps, Calls,
                object, cloud, others, counters
  <1> QED BY <1>2, <1>3, <1>4, <1>5

LEMMA TypedDelete ==
    ASSUME Typed, ShowDeleting \/ DeleteNodePool \/ WaitDeleted \/ RemoveFinalizer
    PROVE  Typed'
  <1>1. mem' \in Object
    BY DEF Typed, TypeOK, Object, ShowDeleting, DeleteNodePool, WaitDeleted,
           RemoveFinalizer
  <1>2. phase' \in [Pool -> Phase \cup {"Unborn", "Gone"}]
    BY DEF Typed, TypeOK, ShowDeleting, DeleteNodePool, WaitDeleted, RemoveFinalizer,
           cloud, Phase
  <1>3. pc' \in Steps /\ Named'
    BY DEF Typed, Named, ShowDeleting, DeleteNodePool, WaitDeleted, RemoveFinalizer,
           Steps, Calls, PoolSteps
  <1> QED BY <1>1, <1>2, <1>3
       DEF ShowDeleting, DeleteNodePool, WaitDeleted, RemoveFinalizer, Typed, TypeOK,
           object, cloud, others, counters

LEMMA TypedAdversity ==
    ASSUME Typed, Adversity
    PROVE  Typed'
  <1>1. faults' \in Nat /\ incidents' \in Nat
    BY FaultType DEF Adversity, CallFails, ReplyLost, Crash, ExternalDelete,
                     DeletionFails, Typed
  <1>2. CASE CallFails
    BY <1>1, <1>2 DEF CallFails, Typed, TypeOK, Named, PoolSteps, Steps, Calls, object,
                      cloud, others
  <1>3. CASE Crash
    BY <1>1, <1>3, NewObjectType, NoNodes
       DEF Crash, Typed, TypeOK, Named, PoolSteps, Steps, cloud, others
  <1>4. CASE ReplyLost \/ ExternalDelete \/ DeletionFails
    <2>1. phase' \in [Pool -> Phase \cup {"Unborn", "Gone"}]
      BY <1>4 DEF ReplyLost, ExternalDelete, DeletionFails, Typed, TypeOK, Phase
    <2> QED BY <1>1, <1>4, <2>1
         DEF ReplyLost, ExternalDelete, DeletionFails, Typed, TypeOK, Named, PoolSteps,
             Steps, object, worker, others
  <1> QED BY <1>2, <1>3, <1>4 DEF Adversity

LEMMA TypedEnvirons ==
    ASSUME Typed, Environs
    PROVE  Typed'
  <1>1. CASE SyncCache \/ UserCreates \/ UserDeletes
    <2>1. api' \in Object /\ cache' \in Object
      BY <1>1, NewObjectType DEF SyncCache, UserCreates, UserDeletes, Typed, TypeOK, Object
    <2> QED BY <1>1, <2>1
         DEF SyncCache, UserCreates, UserDeletes, Typed, TypeOK, Named, worker, cloud,
             others, counters
  <1>2. CASE PoolDrift \/ \E p \in Pool : CloudProgress(p)
    <2>1. /\ phase' \in [Pool -> Phase \cup {"Unborn", "Gone"}]
          /\ nodes' \in [Pool -> 0 .. MaxNodes]
      BY <1>2, Environment DEF PoolDrift, CloudProgress, Typed, TypeOK, Phase
    <2> QED BY <1>2, <2>1
         DEF PoolDrift, CloudProgress, Typed, TypeOK, Named, object, worker, others,
             counters
  <1>3. CASE ControlPlaneChanges
    BY <1>3 DEF ControlPlaneChanges, Typed, TypeOK, Named, object, worker, cloud, counters
  <1>4. CASE ClusterChanges
    <2>1. faults' \in Nat /\ incidents' \in Nat
      BY <1>4, FaultType DEF ClusterChanges, NoFault, Typed
    <2>2. /\ phase' \in [Pool -> Phase \cup {"Unborn", "Gone"}]
          /\ nodes' \in [Pool -> 0 .. MaxNodes]
          /\ cluster' \in {"Unborn", "Alive", "Gone"}
      BY <1>4, Environment DEF ClusterChanges, cloud, Typed, TypeOK
    <2> QED BY <1>4, <2>1, <2>2
         DEF ClusterChanges, Typed, TypeOK, Named, object, worker
  <1> QED BY <1>1, <1>2, <1>3, <1>4 DEF Environs

LEMMA TypedNext == Typed /\ [Next]_vars => Typed'
  <1> SUFFICES ASSUME Typed, [Next]_vars PROVE Typed'
    OBVIOUS
  <1>1. CASE Worker
    BY <1>1, TypedReconcile, TypedPatch, TypedNormal, TypedDelete DEF Worker
  <1>2. CASE Adversity \/ Environs
    BY <1>2, TypedAdversity, TypedEnvirons
  <1>3. CASE UNCHANGED vars
    BY <1>3 DEF vars, object, worker, cloud, others, counters, Typed, TypeOK, Named
  <1> QED BY <1>1, <1>2, <1>3 DEF Next

\* Every variable of the reconciler, of its object and of the cloud keeps its
\* type, and a call that names a node pool has its identifier.
THEOREM TypesHold == Spec => []TypeOK
  <1>1. Spec => []Typed
    BY TypedInit, TypedNext, PTL DEF Spec
  <1>2. Typed => TypeOK
    BY DEF Typed
  <1> QED BY <1>1, <1>2, PTL

----
(***************************************************************************)
(* What the reconcile, the informer and the API server can differ in.      *)
(***************************************************************************)

\* The fields of the stored object after a patch.
LEMMA PersistedFields ==
    ASSUME TypeOK, NEW meta \in BOOLEAN, NEW status \in BOOLEAN
    PROVE  LET o == Persisted(meta, status)
               kept == IF meta /\ mem.finalizer # before.finalizer
                       THEN mem.finalizer ELSE api.finalizer
           IN  /\ o.finalizer = kept
               /\ o.exists = ~(api.deleting /\ ~kept)
               /\ o.deleting = api.deleting
               /\ o.label = IF meta /\ mem.label # before.label
                            THEN mem.label ELSE api.label
               /\ o.ready = IF status /\ mem.ready # before.ready
                            THEN mem.ready ELSE api.ready
               /\ o.failure = IF status /\ mem.failure # before.failure
                              THEN mem.failure ELSE api.failure
  BY DEF TypeOK, Object, Persisted, Merge

\* What any patch leaves of the object.
LEMMA PatchObjectFields ==
    ASSUME TypeOK, Stored(api), NEW fault, NEW served, NEW failed,
           PatchObject(fault, served, failed)
    PROVE  /\ api'.deleting = api.deleting
           /\ ~api.exists => api' = api
           /\ api'.exists => api.exists
           /\ ~api'.exists => api'.deleting \/ api' = api
           /\ api'.exists /\ api'.deleting => api'.finalizer
           /\ api'.label = api.label \/ (mem.label # before.label /\ api'.label = mem.label)
           /\ mem.finalizer =>
                 api'.exists = api.exists /\ (api.finalizer => api'.finalizer)
           /\ mem.finalizer = before.finalizer => api'.finalizer = api.finalizer
           /\ pc' \in {served, failed}
           /\ pc' # failed /\ mem.finalizer /\ ~before.finalizer =>
                 api'.exists /\ api'.finalizer
  <1>1. CASE /\ api.exists
             /\ \E meta, status \in BOOLEAN :
                    /\ api' = Persisted(meta, status)
                    /\ (meta /\ pc' = served) \/ pc' = failed
    <2>1. PICK meta \in BOOLEAN, status \in BOOLEAN :
             /\ api' = Persisted(meta, status)
             /\ (meta /\ pc' = served) \/ pc' = failed
      BY <1>1
    <2> DEFINE kept == IF meta /\ mem.finalizer # before.finalizer
                       THEN mem.finalizer ELSE api.finalizer
    <2>2. /\ api'.finalizer = kept
          /\ api'.exists = ~(api.deleting /\ ~kept)
          /\ api'.deleting = api.deleting
          /\ api'.label = IF meta /\ mem.label # before.label
                         THEN mem.label ELSE api.label
      BY <2>1, PersistedFields
    <2>3. /\ mem.finalizer \in BOOLEAN /\ before.finalizer \in BOOLEAN
          /\ api.finalizer \in BOOLEAN /\ api.deleting \in BOOLEAN
          /\ api.exists \in BOOLEAN
      BY DEF TypeOK, Object
    <2>4. api.deleting => api.finalizer
      BY <1>1 DEF Stored
    <2> QED BY <1>1, <2>1, <2>2, <2>3, <2>4
  <1>2. CASE ~api.exists /\ api' = api /\ (pc' = failed \/ (mem = before /\ pc' = served))
    BY <1>2
  <1> QED BY <1>1, <1>2 DEF PatchObject

\* A copy without changes sends nothing.
LEMMA PatchObjectUnchanged ==
    ASSUME TypeOK, Stored(api), mem = before, NEW fault, NEW served, NEW failed,
           PatchObject(fault, served, failed)
    PROVE  api' = api
  <1>1. ASSUME api.exists, NEW meta \in BOOLEAN, NEW status \in BOOLEAN
        PROVE  Persisted(meta, status) = api
    BY <1>1 DEF Persisted, Merge, Stored, TypeOK, Object
  <1>2. CASE api.exists
    <2>1. PICK meta \in BOOLEAN, status \in BOOLEAN : api' = Persisted(meta, status)
      BY <1>2 DEF PatchObject
    <2> QED BY <1>1, <1>2, <2>1
  <1> QED BY <1>2 DEF PatchObject

LEMMA TracedInit == Init => Traced
  BY DEF Init, Traced, Stored, Earlier, Copied, Running, NewObject, Absent

LEMMA TracedReconcile ==
    ASSUME Typed, Traced, Reconcile
    PROVE  Traced'
  <1>1. cache \in Object /\ before' = cache /\ cache.exists
        /\ pc = "Idle" /\ UNCHANGED <<api, cache, phase>>
    BY DEF Typed, TypeOK, Reconcile, object, cloud
  <1>2. mem'.label = cache.label /\ (~cache.deleting => mem'.finalizer)
    BY <1>1 DEF Reconcile, Object
  <1>3. Stored(api)' /\ Stored(cache)' /\ Earlier'
    BY <1>1 DEF Traced, Stored, Earlier, Running
  <1>4. CASE cache.deleting /\ mem' = cache /\ pc' = "ShowDeleting"
    BY <1>1, <1>4 DEF Traced, Stored, Earlier, Copied, Running, EarlySteps, Released
  <1>5. CASE /\ ~cache.deleting
             /\ pc' = IF cache.finalizer THEN FirstStep(cache) ELSE "AddFinalizer"
    BY <1>1, <1>2, <1>3, <1>5, Environment
       DEF Traced, Stored, Earlier, Copied, Running, FirstStep, EarlySteps, DeleteSteps,
           Released
  <1> QED BY <1>3, <1>4, <1>5 DEF Reconcile, Traced

\* A call of the reconcile that leaves the objects alone.
LEMMA TracedQuiet ==
    ASSUME Traced, UNCHANGED <<api, cache, before>>,
           pc \notin {"Idle", "AddFinalizer", "Close"},
           pc' \notin {"Idle", "AddFinalizer"},
           mem'.finalizer = mem.finalizer \/ (pc \in DeleteSteps /\ pc' = "Close"),
           pc' \in EarlySteps => pc \in EarlySteps /\ mem'.label = mem.label,
           pc' \in DeleteSteps => pc \in DeleteSteps /\ mem' = mem,
           pc' = "CreateNodePool" => ~(mem.label \in Pool /\ Alive(mem.label))'
    PROVE  Traced'
  <1>1. Stored(api)' /\ Stored(cache)' /\ Earlier'
    BY DEF Traced, Stored, Earlier, Running
  <1>2. api.exists => api.finalizer
    BY DEF Traced, Copied, Running
  <1>3. mem.finalizer
    BY DEF Traced, Copied, Running
  <1>4. Copied'
    BY <1>2, <1>3 DEF Traced, Stored, Copied, Running, Released
  <1> QED BY <1>1, <1>4 DEF Traced

\* The calls of the two handlers, whether they work, time out or fail.
LEMMA TracedCall ==
    ASSUME Typed, Traced,
           \/ ShowNodePool \/ CreateNodePool \/ ListNodes
           \/ WaitActive \/ WaitTimesOut \/ ShowActive
           \/ ShowDeleting \/ DeleteNodePool \/ WaitDeleted \/ RemoveFinalizer
           \/ CallFails \/ ReplyLost
    PROVE  Traced'
  <1>1. mem \in Object
    BY DEF Typed, TypeOK
  <1>2. CASE ShowNodePool
    <2>1. CASE Alive(mem.label)
      BY <1>1, <1>2, <2>1, TracedQuiet
         DEF ShowNodePool, Observe, Object, object, EarlySteps, DeleteSteps
    <2>2. CASE ~Alive(mem.label)
      <3>1. UNCHANGED <<mem, phase>>
        BY <1>2, <2>2 DEF ShowNodePool, cloud
      <3> QED BY <1>2, <2>2, <3>1, TracedQuiet
           DEF ShowNodePool, object, EarlySteps, DeleteSteps, Alive
    <2> QED BY <2>1, <2>2
  <1>3. CASE ShowActive
    BY <1>1, <1>3, TracedQuiet
       DEF ShowActive, Observe, Object, object, EarlySteps, DeleteSteps
  <1>4. CASE CreateNodePool
    <2>1. mem'.finalizer = mem.finalizer
      BY <1>1, <1>4 DEF CreateNodePool, Object
    <2> QED BY <1>4, <2>1, TracedQuiet DEF CreateNodePool, object, EarlySteps, DeleteSteps
  <1>5. CASE ListNodes
    BY <1>1, <1>5, TracedQuiet DEF ListNodes, Object, object, EarlySteps, DeleteSteps
  <1>6. CASE WaitActive \/ WaitTimesOut
    BY <1>6, TracedQuiet DEF WaitActive, WaitTimesOut, object, EarlySteps, DeleteSteps
  <1>7. CASE ShowDeleting \/ DeleteNodePool \/ WaitDeleted \/ RemoveFinalizer
    BY <1>1, <1>7, TracedQuiet
       DEF ShowDeleting, DeleteNodePool, WaitDeleted, RemoveFinalizer, Object, object,
           EarlySteps, DeleteSteps
  <1>8. CASE CallFails \/ ReplyLost
    BY <1>8, TracedQuiet DEF CallFails, ReplyLost, Calls, object, EarlySteps, DeleteSteps
  <1> QED BY <1>2, <1>3, <1>4, <1>5, <1>6, <1>7, <1>8

\* The stored object after a patch is a later state of it.
LEMMA EarlierPatched ==
    ASSUME Typed, Traced, Running, NEW fault, NEW served, NEW failed,
           PatchObject(fault, served, failed),
           api.exists /\ ~api'.finalizer => ~api'.exists \/ ~api.finalizer,
           api'.exists /\ ~api'.finalizer => api'.label = None,
           UNCHANGED cache
    PROVE  Stored(api)' /\ Stored(cache)' /\ Earlier'
  <1>1. /\ api'.deleting = api.deleting
        /\ ~api.exists => api' = api
        /\ api'.exists => api.exists
        /\ ~api'.exists => api'.deleting \/ api' = api
        /\ api'.exists /\ api'.deleting => api'.finalizer
    BY PatchObjectFields DEF Typed, Traced
  <1> QED BY <1>1 DEF Traced, Stored, Earlier, Running

LEMMA TracedPatch ==
    ASSUME Typed, Traced,
           \/ AddFinalizer \/ SetStatus \/ SetActiveStatus
           \/ MarkDeleting \/ MarkDeleted \/ MarkFailed \/ Close
    PROVE  Traced'
  <1> USE DEF Typed
  <1>1. CASE AddFinalizer
    <2>1. /\ PatchObject("callFails", FirstStep(mem), "Close") /\ pc = "AddFinalizer"
          /\ UNCHANGED <<cache, before, mem, phase>>
      BY <1>1 DEF AddFinalizer, cloud
    <2>2. /\ mem.finalizer /\ ~before.finalizer /\ mem.label = before.label
      BY <2>1 DEF Traced, Copied, Running, EarlySteps
    <2>3. /\ api'.deleting = api.deleting /\ api'.exists = api.exists
          /\ api.finalizer => api'.finalizer
          /\ ~api.exists => api' = api
          /\ api'.label = api.label
          /\ pc' \in {"Close", FirstStep(mem)}
          /\ pc' # "Close" => api'.exists /\ api'.finalizer
      BY <2>1, <2>2, PatchObjectFields DEF Traced
    <2>4. Stored(api)' /\ Stored(cache)' /\ Earlier'
      BY <2>1, <2>3, EarlierPatched DEF Traced, Stored, Running
    <2>5. Copied'
      BY <2>1, <2>2, <2>3, Environment
         DEF Traced, Stored, Copied, Running, FirstStep, EarlySteps, DeleteSteps, Released
    <2> QED BY <2>4, <2>5 DEF Traced
  <1>2. CASE SetStatus \/ SetActiveStatus
    <2>1. PICK served \in {"WaitActive", "Close"} : PatchObject("callFails", served, "Close")
      BY <1>2 DEF SetStatus, SetActiveStatus
    <2>2. pc \in {"SetStatus", "SetActiveStatus"} /\ UNCHANGED <<cache, before, mem, phase>>
      BY <1>2 DEF SetStatus, SetActiveStatus, cloud
    <2>3. mem.finalizer /\ (api.exists => api.finalizer)
      BY <2>2 DEF Traced, Copied, Running
    <2>4. /\ api'.deleting = api.deleting /\ api'.exists = api.exists
          /\ api.finalizer => api'.finalizer
          /\ ~api.exists => api' = api
          /\ pc' \in {"WaitActive", "Close"}
      BY <2>1, <2>3, PatchObjectFields DEF Traced
    <2>5. Stored(api)' /\ Stored(cache)' /\ Earlier'
      BY <2>1, <2>2, <2>3, <2>4, EarlierPatched DEF Traced, Stored, Running
    <2>6. Copied'
      BY <2>2, <2>3, <2>4
         DEF Traced, Stored, Copied, Running, EarlySteps, DeleteSteps, Released
    <2> QED BY <2>5, <2>6 DEF Traced
  <1>3. CASE MarkDeleting \/ MarkDeleted \/ MarkFailed
    <2>1. mem = before /\ UNCHANGED <<cache, before, mem, phase>>
      BY <1>3 DEF MarkDeleting, MarkDeleted, MarkFailed, cloud, Traced, Copied, Running,
                  DeleteSteps
    <2>2. /\ api' = api
          /\ pc' \in {"DeleteNodePool", "RemoveFinalizer", "Close"}
      BY <1>3, <2>1, PatchObjectUnchanged, PatchObjectFields
         DEF MarkDeleting, MarkDeleted, MarkFailed, Traced
    <2> QED BY <1>3, <2>1, <2>2, TracedQuiet
         DEF MarkDeleting, MarkDeleted, MarkFailed, EarlySteps, DeleteSteps
  <1>4. CASE Close
    <2>1. /\ PatchObject("closeFails", "Idle", "Idle") /\ pc = "Close" /\ Running
          /\ UNCHANGED cache
      BY <1>4 DEF Close, Running
    <2>2. pc' = "Idle"
      BY <2>1, PatchObjectFields DEF Traced
    <2>3. CASE mem.finalizer
      <3>1. /\ api'.exists = api.exists /\ (api.finalizer => api'.finalizer)
            /\ api'.label = api.label \/ api'.label = mem.label
        BY <2>1, <2>3, PatchObjectFields DEF Traced
      <3> QED BY <2>1, <2>2, <3>1, EarlierPatched DEF Traced, Stored, Copied, Running
    <2>4. CASE ~mem.finalizer
      <3>1. api.exists => api.deleting
        BY <2>1, <2>4 DEF Traced, Copied, Released
      <3>2. /\ api'.exists => api.exists
            /\ api'.deleting = api.deleting
            /\ api'.exists /\ api'.deleting => api'.finalizer
        BY <2>1, PatchObjectFields DEF Traced
      <3> QED BY <2>1, <2>2, <3>1, <3>2, EarlierPatched DEF Traced, Copied, Running
    <2> QED BY <2>3, <2>4
  <1> QED BY <1>1, <1>2, <1>3, <1>4

\* A step of the cloud, or of those who look at it.
LEMMA TracedCloud ==
    ASSUME Traced, UNCHANGED <<object, worker>>,
           \A p \in Pool : Alive(p)' => Alive(p)
    PROVE  Traced'
  BY DEF Traced, Stored, Earlier, Copied, Running, Released, object, worker

\* No step of the cloud alone brings a pool to life.
LEMMA PoolsOnlyGo ==
    ASSUME Typed,
           \/ ExternalDelete \/ DeletionFails \/ PoolDrift
           \/ \E p \in Pool : CloudProgress(p)
           \/ ControlPlaneChanges \/ ClusterChanges
    PROVE  /\ \A p \in Pool : Alive(p)' => Alive(p)
           /\ UNCHANGED <<object, worker>>
  BY DEF Typed, TypeOK, Alive, Phase, ExternalDelete, DeletionFails, PoolDrift,
         CloudProgress, ControlPlaneChanges, ClusterChanges, cloud

LEMMA TracedRest ==
    ASSUME Typed, Traced, Crash \/ SyncCache \/ UserCreates \/ UserDeletes
    PROVE  Traced'
  <1>1. CASE Crash
    BY <1>1 DEF Crash, Traced, Stored, Earlier, Copied, Running
  <1>2. CASE SyncCache
    BY <1>2 DEF SyncCache, Traced, Stored, Earlier, Copied, Running, Released, worker,
                cloud, Alive
  <1>3. CASE UserCreates
    BY <1>3 DEF UserCreates, Absent, NewObject, Traced, Stored, Earlier, Copied, Running,
                worker
  <1>4. CASE UserDeletes
    <2>1. /\ api'.deleting /\ api'.finalizer = api.finalizer
          /\ api'.label = api.label /\ api'.exists = api.finalizer
      BY <1>4 DEF UserDeletes, Typed, TypeOK, Object
    <2> QED BY <1>4, <2>1
         DEF UserDeletes, Traced, Stored, Earlier, Copied, Running, Released, worker,
             cloud, Alive
  <1> QED BY <1>1, <1>2, <1>3, <1>4

LEMMA TracedNext == Typed /\ Traced /\ [Next]_vars => Traced'
  <1> SUFFICES ASSUME Typed, Traced, [Next]_vars PROVE Traced'
    OBVIOUS
  <1>1. CASE Worker
    BY <1>1, TracedReconcile, TracedPatch, TracedCall DEF Worker
  <1>2. CASE Adversity \/ Environs
    BY <1>2, TracedCall, TracedRest, TracedCloud, PoolsOnlyGo DEF Adversity, Environs
  <1>3. CASE UNCHANGED vars
    BY <1>3, TracedCloud DEF vars, cloud, Alive
  <1> QED BY <1>1, <1>2, <1>3 DEF Next

----
(***************************************************************************)
(* The accounts: every live pool is named, or put down to an incident.     *)
(***************************************************************************)

\* An incident pays for one pool, or for a reconcile that goes astray ...
LEMMA AccountedIncident ==
    ASSUME Typed, Accounted, incidents' = incidents + 1, NEW x,
           \/ Lost' \subseteq Lost \cup {x} /\ (Strayed' => Strayed)
           \/ Lost' \subseteq Lost
    PROVE  Accounted'
  <1>1. incidents \in Nat
    BY DEF Typed, TypeOK
  <1> QED BY <1>1, IncidentPays DEF Accounted

\* ... every other step keeps the accounts as they are, but for the one that
\* takes a stray reconcile back and pays for the label it replaces.
LEMMA AccountedStep ==
    ASSUME Typed, Accounted, incidents' \in Nat, incidents' >= incidents,
           \/ Lost' \subseteq Lost /\ (Strayed' => Strayed)
           \/ \E x : Lost' \subseteq Lost \cup {x} /\ Strayed /\ ~Strayed'
    PROVE  Accounted'
  <1>1. incidents \in Nat /\ Balanced(Lost, Strayed, incidents)
    BY DEF Typed, TypeOK, Accounted
  <1>2. CASE Lost' \subseteq Lost /\ (Strayed' => Strayed)
    BY <1>1, <1>2, KeepsBalance DEF Accounted
  <1>3. CASE \E x : Lost' \subseteq Lost \cup {x} /\ Strayed /\ ~Strayed'
    <2>1. PICK x : Lost' \subseteq Lost \cup {x}
      BY <1>3
    <2>2. Strayed = TRUE /\ Strayed' = FALSE
      BY <1>3 DEF Strayed
    <2>3. Balanced(Lost, TRUE, incidents)
      BY <1>1, <2>2
    <2>4. Balanced(Lost', FALSE, incidents')
      BY <1>1, <2>1, <2>3, ReturnPays
    <2> QED BY <2>2, <2>4 DEF Accounted
  <1> QED BY <1>2, <1>3

\* The counter of incidents goes up, by one at most.
LEMMA FaultCounts ==
    ASSUME TypeOK, NEW kind, Fault(kind) \/ NoFault
    PROVE  /\ incidents' \in Nat /\ incidents' >= incidents
           /\ incidents' = incidents \/ incidents' = incidents + 1
           /\ Fault(kind) => (incidents' = incidents + 1 <=> kind \in Losing)
  BY DEF TypeOK, Fault, NoFault, counters

LEMMA PatchCounts ==
    ASSUME TypeOK, NEW fault, NEW served, NEW failed,
           PatchObject(fault, served, failed)
    PROVE  /\ incidents' \in Nat /\ incidents' >= incidents
           /\ incidents' = incidents \/ incidents' = incidents + 1
  BY FaultCounts DEF PatchObject

\* A step that leaves the object and the label alone, brings no pool to life
\* and gives up no live pool.
LEMMA AccountedQuiet ==
    ASSUME Typed, Accounted, UNCHANGED <<api, before>>, mem'.label = mem.label,
           incidents' \in Nat, incidents' >= incidents,
           Running' <=> Running,
           \A p \in Pool : Alive(p)' => Alive(p),
           Doomed' => Doomed \/ mem.label \notin Pool \/ ~Alive(mem.label)',
           pc \in {"AddFinalizer", "Close"} => pc' \in {"AddFinalizer", "Close"}
    PROVE  Accounted'
  <1>1. Strayed' => Strayed
    BY DEF Strayed, Fresh
  <1>2. ASSUME NEW p \in Pool, Alive(p)', Credited(p) PROVE Credited(p)'
    <2>1. CASE Running /\ ~Doomed /\ mem.label = p
      BY <1>2, <2>1 DEF Credited, Alive
    <2>2. CASE (~Running \/ Strayed) /\ api.exists /\ api.label = p
      BY <2>2 DEF Credited, Strayed, Fresh
    <2> QED BY <1>2, <2>1, <2>2 DEF Credited
  <1>3. Lost' \subseteq Lost
    BY <1>2 DEF Lost, Live
  <1> QED BY <1>1, <1>3, AccountedStep

LEMMA AccountedInit == Init => Accounted
  <1> SUFFICES ASSUME Init PROVE Accounted
    OBVIOUS
  <1>1. Live = {}
    BY DEF Init, Live, Alive, Phase
  <1>2. Lost = {} /\ Strayed = FALSE /\ incidents = 0
    BY <1>1 DEF Init, Lost, Strayed, Running
  <1> QED BY <1>2, BalancedEmpty DEF Accounted

\* A reconcile that starts from the stored object names what the object names;
\* one that starts from another copy is an incident.
LEMMA AccountedReconcile ==
    ASSUME Typed, Traced, Accounted, Reconcile
    PROVE  Accounted'
  <1>1. /\ ~Running /\ Running' /\ cache.exists
        /\ UNCHANGED <<api, phase>> /\ before' = cache
    BY DEF Reconcile, Running, FirstStep, object, cloud
  <1>2. mem'.label = cache.label /\ (~cache.deleting => mem'.finalizer)
    BY DEF Reconcile, Typed, TypeOK, Object
  <1>3. ~Doomed'
    BY DEF Reconcile, FirstStep, Doomed, Released
  <1>4. ASSUME NEW p \in Pool, Credited(p), Fresh' => api.label = cache.label
        PROVE  Credited(p)'
    BY <1>1, <1>2, <1>3, <1>4 DEF Credited, Strayed
  <1>5. api.exists /\ Fresh' => api.label = cache.label
    BY <1>1, <1>2 DEF Fresh
  <1>6. Lost' \subseteq Lost
    BY <1>1, <1>4, <1>5 DEF Lost, Live, Alive, Credited
  <1>7. CASE cache = api
    <2>1. ~Strayed' /\ incidents' = incidents
      BY <1>1, <1>7 DEF Strayed, Fresh, Reconcile, NoFault, counters
    <2> QED BY <1>6, <2>1, AccountedStep DEF Typed, TypeOK
  <1>8. CASE cache # api
    <2>1. incidents' = incidents + 1
      BY <1>8 DEF Reconcile, Fault, Losing
    <2> QED BY <1>6, <2>1, AccountedIncident
  <1> QED BY <1>7, <1>8

\* A patch in the middle of a reconcile may replace the stored label by the
\* one of the copy, which takes a stray reconcile back.
LEMMA AccountedPatch ==
    ASSUME Typed, Traced, Accounted, AddFinalizer \/ SetStatus \/ SetActiveStatus
    PROVE  Accounted'
  <1> USE DEF Typed
  <1>1. PICK served \in {"ShowNodePool", "CreateNodePool", "WaitActive", "Close"} :
           PatchObject("callFails", served, "Close")
    BY DEF AddFinalizer, SetStatus, SetActiveStatus, FirstStep
  <1>2. /\ pc \in {"AddFinalizer", "SetStatus", "SetActiveStatus"}
        /\ UNCHANGED <<before, mem, phase>>
    BY DEF AddFinalizer, SetStatus, SetActiveStatus, cloud
  <1>3. mem.finalizer /\ (pc = "AddFinalizer" => ~before.finalizer)
    BY <1>2 DEF Traced, Copied, Running
  <1>4. /\ api'.exists = api.exists
        /\ ~api.exists => api' = api
        /\ api'.label = api.label \/ api'.label = mem.label
        /\ pc' \in {"ShowNodePool", "CreateNodePool", "WaitActive", "Close"}
        /\ pc = "AddFinalizer" /\ pc' # "Close" => api'.exists
    BY <1>1, <1>3, PatchObjectFields DEF Traced
  <1>5. incidents' \in Nat /\ incidents' >= incidents
    BY <1>1, PatchCounts
  <1>6. Running /\ Running' /\ ~Doomed /\ ~Doomed'
    BY <1>2, <1>3, <1>4 DEF Running, Doomed, Released
  <1>7. Strayed' => Strayed
    BY <1>2, <1>4, <1>6 DEF Strayed, Fresh
  <1>8. ASSUME NEW p \in Pool, Credited(p), ~Credited(p)'
        PROVE  Strayed /\ ~Strayed' /\ p = api.label
    <2>1. Strayed /\ api.exists /\ api.label = p
      BY <1>2, <1>6, <1>8 DEF Credited
    <2>2. ~(Strayed' /\ api'.label = api.label)
      BY <1>4, <1>8, <2>1 DEF Credited
    <2>3. ~Strayed'
      BY <1>2, <1>4, <1>6, <2>1, <2>2 DEF Strayed, Fresh
    <2> QED BY <2>1, <2>3
  <1>9. \/ Lost' \subseteq Lost
        \/ Lost' \subseteq Lost \cup {api.label} /\ Strayed /\ ~Strayed'
    BY <1>2, <1>8 DEF Lost, Live, Alive
  <1> QED BY <1>5, <1>7, <1>9, AccountedStep

\* The patches of a deletion send nothing: the copy has not changed.
LEMMA AccountedMark ==
    ASSUME Typed, Traced, Accounted, MarkDeleting \/ MarkDeleted \/ MarkFailed
    PROVE  Accounted'
  <1> USE DEF Typed
  <1>1. mem = before /\ mem.finalizer /\ UNCHANGED <<before, mem, phase>>
    BY DEF MarkDeleting, MarkDeleted, MarkFailed, cloud, Traced, Copied, Running,
           DeleteSteps
  <1>2. PICK served \in {"DeleteNodePool", "RemoveFinalizer", "Close"} :
           /\ PatchObject("callFails", served, "Close")
           /\ served = "RemoveFinalizer" => pc = "MarkDeleted"
    BY DEF MarkDeleting, MarkDeleted, MarkFailed
  <1>3. /\ api' = api /\ pc' \in {served, "Close"}
        /\ incidents' \in Nat /\ incidents' >= incidents
    BY <1>1, <1>2, PatchObjectUnchanged, PatchObjectFields, PatchCounts DEF Traced
  <1>4. Doomed' => Doomed
    BY <1>1, <1>2, <1>3 DEF Doomed, Released
  <1> QED BY <1>1, <1>2, <1>3, <1>4, AccountedQuiet
       DEF Running, Alive, MarkDeleting, MarkDeleted, MarkFailed

\* A pool is made only when the copy names none that is alive.
LEMMA AccountedCreate ==
    ASSUME Typed, Traced, Accounted, CreateNodePool
    PROVE  Accounted'
  <1> USE DEF Typed
  <1>1. /\ Running /\ Running' /\ ~Doomed' /\ mem.label = before.label
        /\ ~(mem.label \in Pool /\ Alive(mem.label))
        /\ UNCHANGED <<api, before, incidents>> /\ pc = "CreateNodePool"
    <2>1. \/ mem' = mem
          \/ \E p \in Pool, s \in Phase :
                mem' = [mem EXCEPT !.label = p, !.ready = (s = "Active"),
                                   !.failure = @ /\ s # "Active"]
      BY DEF CreateNodePool, Phase
    <2>2. mem'.finalizer = mem.finalizer
      BY <2>1 DEF TypeOK, Object
    <2>3. mem.finalizer
      BY DEF CreateNodePool, Traced, Copied, Running
    <2> QED BY <2>2, <2>3 DEF CreateNodePool, Traced, Copied, Running, EarlySteps, Doomed,
                        Released, object, counters
  <1>2. CASE cluster # "Alive"
    <2>1. UNCHANGED <<mem, phase>>
      BY <1>2 DEF CreateNodePool
    <2>2. incidents' \in Nat /\ incidents' >= incidents
      BY <1>1 DEF TypeOK
    <2> QED BY <1>1, <2>1, <2>2, AccountedQuiet DEF Alive
  <1>3. CASE cluster = "Alive"
    <2>1. PICK p \in Pool, s \in Phase :
             /\ phase' = [phase EXCEPT ![p] = s]
             /\ mem' = [mem EXCEPT !.label = p, !.ready = (s = "Active"),
                                   !.failure = @ /\ s # "Active"]
             /\ pc' = "SetStatus"
      BY <1>3 DEF CreateNodePool, Phase
    <2>2. mem'.label = p
      BY <2>1 DEF TypeOK, Object
    <2>3. \A q \in Pool : Alive(q)' => Alive(q) \/ q = p
      BY <2>1 DEF TypeOK, Alive
    <2>4. Strayed' => Strayed
      BY <1>1, <2>2 DEF Strayed, Fresh
    <2>5. ASSUME NEW q \in Pool, Alive(q)', ~Credited(q)' PROVE Alive(q) /\ ~Credited(q)
      <3>1. q # p /\ Alive(q)
        BY <1>1, <2>2, <2>3, <2>5 DEF Credited
      <3>2. ~(Strayed /\ api.exists /\ api.label = q)
        BY <1>1, <2>2, <2>5, <3>1 DEF Credited, Strayed, Fresh
      <3> QED BY <1>1, <3>1, <3>2 DEF Credited
    <2>6. Lost' \subseteq Lost
      BY <2>5 DEF Lost, Live
    <2> QED BY <1>1, <2>4, <2>6, AccountedStep DEF TypeOK
  <1> QED BY <1>2, <1>3

\* The other calls, whether they work, time out or fail.
LEMMA AccountedCall ==
    ASSUME Typed, Traced, Accounted,
           \/ ShowNodePool \/ ListNodes \/ WaitActive \/ WaitTimesOut \/ ShowActive
           \/ ShowDeleting \/ DeleteNodePool \/ WaitDeleted \/ RemoveFinalizer
           \/ CallFails
    PROVE  Accounted'
  <1> USE DEF Typed
  <1>1. /\ UNCHANGED <<api, before>> /\ incidents' = incidents /\ incidents \in Nat
        /\ pc \notin {"Idle", "AddFinalizer", "Close"} /\ pc' # "Idle"
    BY DEF ShowNodePool, ListNodes, WaitActive, WaitTimesOut, ShowActive, ShowDeleting,
           DeleteNodePool, WaitDeleted, RemoveFinalizer, CallFails, Observe, Calls,
           Fault, Losing, object, counters, TypeOK
  <1>2. mem.finalizer
    BY <1>1 DEF Traced, Copied, Running
  <1>3. mem'.label = mem.label
    BY DEF ShowNodePool, ListNodes, WaitActive, WaitTimesOut, ShowActive, ShowDeleting,
           DeleteNodePool, WaitDeleted, RemoveFinalizer, CallFails, Observe, TypeOK, Object
  <1>4. \A p \in Pool : Alive(p)' => Alive(p)
    BY DEF ShowNodePool, ListNodes, WaitActive, WaitTimesOut, ShowActive, ShowDeleting,
           DeleteNodePool, WaitDeleted, RemoveFinalizer, CallFails, cloud, Alive, TypeOK
  <1>5. Doomed' => Doomed \/ mem.label \notin Pool \/ ~Alive(mem.label)'
    <2>1. CASE ShowNodePool \/ ShowActive
      <3>1. mem'.finalizer
        BY <1>2, <2>1 DEF ShowNodePool, ShowActive, Observe, TypeOK, Object
      <3> QED BY <2>1, <3>1 DEF ShowNodePool, ShowActive, Observe, Doomed, Released
    <2>2. CASE ListNodes \/ WaitActive \/ WaitTimesOut \/ CallFails
      <3>1. mem'.finalizer
        BY <1>2, <2>2 DEF ListNodes, WaitActive, WaitTimesOut, CallFails, TypeOK, Object
      <3> QED BY <2>2, <3>1
           DEF ListNodes, WaitActive, WaitTimesOut, CallFails, Doomed, Released
    <2>3. CASE ShowDeleting \/ WaitDeleted \/ RemoveFinalizer
      BY <2>3, Environment DEF ShowDeleting, WaitDeleted, RemoveFinalizer, Doomed,
                               Released, Alive, cloud
    <2>4. CASE DeleteNodePool
      BY <2>4 DEF DeleteNodePool, Doomed, Released, Alive, TypeOK
    <2> QED BY <2>1, <2>2, <2>3, <2>4
  <1> QED BY <1>1, <1>3, <1>4, <1>5, AccountedQuiet DEF Running

\* The last patch: the object is left with the label of the copy, with its own
\* (which the reconcile knew, or had an incident for), or with none.
LEMMA AccountedClose ==
    ASSUME Typed, Traced, Accounted, Close
    PROVE  Accounted'
  <1> USE DEF Typed
  <1>1. /\ Running /\ ~Running' /\ UNCHANGED phase /\ pc = "Close"
        /\ PatchObject("closeFails", "Idle", "Idle")
    BY DEF Close, PatchObject, Running, cloud
  <1>2. /\ incidents' \in Nat /\ incidents' >= incidents
        /\ incidents' = incidents \/ incidents' = incidents + 1
    BY <1>1, PatchCounts
  <1>3. /\ ~api.exists => api' = api
        /\ api'.exists => api.exists
        /\ api'.label = api.label \/ api'.label = mem.label
        /\ mem.finalizer => api'.exists = api.exists
    BY <1>1, PatchObjectFields DEF Traced
  <1>4. ~Strayed'
    BY <1>1 DEF Strayed
  <1>5. \E x : Lost' \subseteq Lost \cup {x}
    <2> DEFINE x == IF ~api.exists \/ (api'.exists /\ api'.label = api.label)
                    THEN mem.label ELSE api.label
    <2>1. ASSUME NEW p \in Pool, Credited(p), ~Credited(p)' PROVE p = x
      BY <1>1, <1>3, <2>1 DEF Credited, Doomed, Released
    <2> QED BY <1>1, <2>1 DEF Lost, Live, Alive
  <1>6. CASE Strayed
    BY <1>2, <1>4, <1>5, <1>6, AccountedStep
  <1>7. CASE incidents' = incidents + 1
    BY <1>4, <1>5, <1>7, AccountedIncident
  <1>8. CASE ~Strayed /\ incidents' = incidents
    <2>1. CASE ~api.exists
      <3>1. ASSUME NEW p \in Pool PROVE ~Credited(p)
        BY <1>1, <1>8, <2>1, <3>1, Environment DEF Credited, Strayed, Fresh
      <3> QED BY <1>1, <1>2, <1>4, <3>1, AccountedStep DEF Lost, Live, Alive
    <2>2. CASE api.exists /\ mem.finalizer
      <3>1. api' = Persisted(TRUE, TRUE)
        <4>1. ~Fault("closeFails")
          BY <1>8 DEF Fault, Losing, TypeOK
        <4> QED BY <1>1, <2>2, <4>1 DEF PatchObject
      <3>2. api'.exists /\ api'.label = mem.label
        BY <1>1, <1>3, <1>8, <2>2, <3>1, PersistedFields DEF Strayed, Fresh
      <3>3. ASSUME NEW p \in Pool, Credited(p) PROVE Credited(p)'
        BY <1>1, <1>8, <3>2, <3>3 DEF Credited
      <3> QED BY <1>1, <1>2, <1>4, <3>3, AccountedStep DEF Lost, Live, Alive
    <2>3. CASE ~mem.finalizer
      <3>1. ASSUME NEW p \in Pool PROVE ~Credited(p)
        BY <1>1, <1>8, <2>3 DEF Credited, Doomed, Released
      <3> QED BY <1>1, <1>2, <1>4, <3>1, AccountedStep DEF Lost, Live, Alive
    <2> QED BY <2>1, <2>2, <2>3
  <1> QED BY <1>2, <1>6, <1>7, <1>8

\* A crash gives up the copy, and with it the pool that only the copy names.
LEMMA AccountedCrash ==
    ASSUME Typed, Accounted, Crash
    PROVE  Accounted'
  <1>1. /\ Running /\ ~Running' /\ UNCHANGED <<api, phase>>
        /\ incidents' = incidents + 1
    BY DEF Crash, Running, Fault, Losing, cloud
  <1>2. ASSUME NEW p \in Pool, Credited(p), ~Credited(p)' PROVE p = mem.label
    BY <1>1, <1>2 DEF Credited
  <1>3. Lost' \subseteq Lost \cup {mem.label} /\ ~Strayed'
    BY <1>1, <1>2 DEF Lost, Live, Alive, Strayed
  <1> QED BY <1>1, <1>3, AccountedIncident

\* An answer that was lost leaves one pool that nobody knows of.
LEMMA AccountedReplyLost ==
    ASSUME Typed, Traced, Accounted, ReplyLost
    PROVE  Accounted'
  <1> USE DEF Typed
  <1>1. /\ incidents' = incidents + 1 /\ Running /\ Running'
        /\ UNCHANGED <<api, before, mem>>
        /\ pc' \in {"Close", "MarkFailed"}
        /\ pc \notin {"AddFinalizer", "Close"}
    BY DEF ReplyLost, Fault, Losing, Running, object
  <1>2. ~Doomed'
    BY <1>1 DEF Doomed, Released, Traced, Copied, Running
  <1>3. PICK x \in Pool : \A q \in Pool : Alive(q)' => Alive(q) \/ q = x
    <2>1. CASE \E p \in Pool : phase' = [phase EXCEPT ![p] = "Synchronizing"]
      BY <2>1 DEF TypeOK, Alive
    <2>2. CASE Alive(mem.label) /\ phase' = [phase EXCEPT ![mem.label] = "Deleting"]
              /\ pc = "DeleteNodePool"
      BY <2>2 DEF TypeOK, Object, Named, PoolSteps, Alive
    <2> QED BY <2>1, <2>2 DEF ReplyLost
  <1>4. Strayed' => Strayed
    BY <1>1 DEF Strayed, Fresh
  <1>5. ASSUME NEW q \in Pool, Credited(q) PROVE Credited(q)'
    BY <1>1, <1>2, <1>5 DEF Credited, Strayed, Fresh
  <1>6. Lost' \subseteq Lost \cup {x}
    BY <1>3, <1>5 DEF Lost, Live
  <1> QED BY <1>1, <1>4, <1>6, AccountedIncident

\* The cloud's own steps leave the accounts alone: CCE ends a deletion with the
\* pool gone, unless it gives it up, which is an incident.
LEMMA AccountedCloud ==
    ASSUME Typed, Accounted,
           \/ ExternalDelete \/ DeletionFails \/ PoolDrift
           \/ \E p \in Pool : CloudProgress(p)
           \/ ControlPlaneChanges \/ ClusterChanges
    PROVE  Accounted'
  <1> USE DEF Typed
  <1>1. (\A p \in Pool : Alive(p)' => Alive(p)) /\ UNCHANGED <<object, worker>>
    BY PoolsOnlyGo
  <1>2. UNCHANGED <<api, before, mem, pc>>
    BY <1>1 DEF object, worker
  <1>3. incidents' \in Nat /\ incidents' >= incidents
    BY FaultCounts
       DEF ExternalDelete, DeletionFails, PoolDrift, CloudProgress, ControlPlaneChanges,
           ClusterChanges, counters, TypeOK, NoFault
  <1>4. CASE DeletionFails
    <2>1. incidents' = incidents + 1
      BY <1>4 DEF DeletionFails, Fault, Losing
    <2>2. Strayed' <=> Strayed
      BY <1>2 DEF Strayed, Fresh, Running
    <2>3. ASSUME NEW p \in Pool, Credited(p), ~Credited(p)' PROVE p = mem.label
      BY <1>2, <2>2, <2>3 DEF Credited, Running
    <2>4. Lost' \subseteq Lost \cup {mem.label}
      BY <1>1, <2>3 DEF Lost, Live
    <2> QED BY <2>1, <2>2, <2>4, AccountedIncident
  <1>5. CASE ~DeletionFails
    <2>1. mem.label \in Pool /\ phase[mem.label] = "Deleting"
                /\ phase'[mem.label] # "Deleting" => ~Alive(mem.label)'
      BY <1>2, <1>5
         DEF ExternalDelete, PoolDrift, CloudProgress, ControlPlaneChanges,
             ClusterChanges, cloud, Alive, Phase, TypeOK
    <2>2. Doomed' => Doomed \/ mem.label \notin Pool \/ ~Alive(mem.label)'
      BY <1>2, <2>1 DEF Doomed, Released
    <2> QED BY <1>1, <1>2, <1>3, <2>2, AccountedQuiet DEF Running
  <1> QED BY <1>4, <1>5

\* A user's deletion takes the object away only if it has no label.
LEMMA AccountedUser ==
    ASSUME Typed, Traced, Accounted, SyncCache \/ UserCreates \/ UserDeletes
    PROVE  Accounted'
  <1> USE DEF Typed
  <1>1. UNCHANGED <<before, mem, pc, phase>> /\ incidents' = incidents /\ incidents \in Nat
    BY DEF SyncCache, UserCreates, UserDeletes, worker, cloud, counters, TypeOK
  <1>2. \/ api' = api
        \/ ~api.exists /\ api'.exists /\ api'.label = None /\ ~Running
        \/ /\ api.exists /\ api'.label = api.label
           /\ api'.exists \/ (api.label = None /\ (Running => /\ mem.label = None
                                                         /\ pc \in {"AddFinalizer", "Close"}))
    <2>1. CASE SyncCache
      BY <2>1 DEF SyncCache
    <2>2. CASE UserCreates
      BY <2>2 DEF UserCreates, Absent, NewObject, Traced, Earlier
    <2>3. CASE UserDeletes
      <3>1. /\ api.exists /\ api'.label = api.label /\ (api'.exists <=> api.finalizer)
        BY <2>3 DEF UserDeletes, TypeOK, Object
      <3> QED BY <3>1 DEF Traced, Stored, Copied
    <2> QED BY <2>1, <2>2, <2>3
  <1>3. Strayed' => Strayed
    BY <1>1, <1>2 DEF Strayed, Fresh, Running
  <1>4. ASSUME NEW p \in Pool, Credited(p) PROVE Credited(p)'
    BY <1>1, <1>2, <1>4, Environment DEF Credited, Strayed, Fresh, Running, Doomed, Released
  <1>5. Lost' \subseteq Lost
    BY <1>1, <1>4 DEF Lost, Live, Alive
  <1> QED BY <1>1, <1>3, <1>5, AccountedStep

LEMMA AccountedNext == Typed /\ Traced /\ Accounted /\ [Next]_vars => Accounted'
  <1> SUFFICES ASSUME Typed, Traced, Accounted, [Next]_vars PROVE Accounted'
    OBVIOUS
  <1>1. CASE Worker
    BY <1>1, AccountedReconcile, AccountedPatch, AccountedMark, AccountedCreate,
       AccountedCall, AccountedClose DEF Worker
  <1>2. CASE Adversity
    BY <1>2, AccountedCall, AccountedReplyLost, AccountedCrash, AccountedCloud
       DEF Adversity
  <1>3. CASE Environs
    BY <1>3, AccountedCloud, AccountedUser DEF Environs
  <1>4. CASE UNCHANGED vars
    <2>1. /\ UNCHANGED <<api, before, mem, pc, phase>>
          /\ incidents' = incidents /\ incidents \in Nat
      BY <1>4 DEF vars, object, worker, cloud, counters, Typed, TypeOK
    <2>2. Doomed' <=> Doomed
      BY <2>1 DEF Doomed, Released
    <2> QED BY <2>1, <2>2, AccountedQuiet DEF Alive, Running
  <1> QED BY <1>1, <1>2, <1>3, <1>4 DEF Next

----
(***************************************************************************)
(* The status: Ready and FailureMessage follow the phase read.             *)
(***************************************************************************)

LEMMA ToldNext == Typed /\ Told /\ [Next]_vars => Told'
  <1> SUFFICES ASSUME Typed, Told, [Next]_vars PROVE Told'
    OBVIOUS
  <1>1. mem \in Object /\ cache \in Object
    BY DEF Typed, TypeOK
  <1>2. CASE Reconcile
    BY <1>1, <1>2 DEF Reconcile, Told, Object
  <1>3. CASE ShowNodePool \/ ShowActive \/ CreateNodePool \/ ListNodes \/ RemoveFinalizer
    BY <1>1, <1>3 DEF ShowNodePool, ShowActive, CreateNodePool, ListNodes,
                      RemoveFinalizer, Observe, Object, Told, Running
  <1>4. CASE \/ AddFinalizer \/ SetStatus \/ SetActiveStatus
             \/ MarkDeleting \/ MarkDeleted \/ MarkFailed
    BY <1>4 DEF AddFinalizer, SetStatus, SetActiveStatus, MarkDeleting, MarkDeleted,
                MarkFailed, Told, Running
  <1>5. CASE Close \/ Crash
    BY <1>5 DEF Close, PatchObject, Crash, Told, Running
  <1>6. CASE \/ WaitActive \/ WaitTimesOut \/ ShowDeleting \/ DeleteNodePool
             \/ WaitDeleted \/ CallFails \/ ReplyLost
    BY <1>6 DEF WaitActive, WaitTimesOut, ShowDeleting, DeleteNodePool, WaitDeleted,
                CallFails, ReplyLost, Calls, Told, Running
  <1>7. CASE UNCHANGED worker
    BY <1>7 DEF worker, Told, Running
  <1> QED BY <1>2, <1>3, <1>4, <1>5, <1>6, <1>7
       DEF Next, Worker, Adversity, Environs, ExternalDelete, DeletionFails, SyncCache,
           UserCreates, UserDeletes, PoolDrift, CloudProgress, ControlPlaneChanges,
           ClusterChanges, vars

\* Status.Ready is stored by patches only, from a copy that differs from its
\* snapshot as the last answer says.
LEMMA ReadyFollows ==
    ASSUME Typed, Told, [Next]_vars, api'.ready # api.ready
    PROVE  api'.ready <=> seen = "Active"
  <1>1. api \in Object /\ mem \in Object
    BY DEF Typed, TypeOK
  <1>2. ASSUME NEW fault, NEW served, NEW failed, PatchObject(fault, served, failed), Running
        PROVE  api'.ready <=> seen = "Active"
    <2>1. PICK meta \in BOOLEAN, status \in BOOLEAN : api' = Persisted(meta, status)
      BY <1>2 DEF PatchObject
    <2>2. mem.ready # before.ready /\ api'.ready = mem.ready
      BY <2>1, PersistedFields DEF Typed
    <2> QED BY <1>2, <2>2 DEF Told
  <1>3. CASE \/ AddFinalizer \/ SetStatus \/ SetActiveStatus
             \/ MarkDeleting \/ MarkDeleted \/ MarkFailed \/ Close
    BY <1>2, <1>3 DEF AddFinalizer, SetStatus, SetActiveStatus, MarkDeleting,
                      MarkDeleted, MarkFailed, Close, Running
  <1>4. CASE UserCreates \/ UserDeletes
    BY <1>1, <1>4 DEF UserCreates, UserDeletes, Absent, NewObject, Object
  <1>5. CASE UNCHANGED api
    BY <1>5
  <1> QED BY <1>3, <1>4, <1>5
       DEF Next, Worker, Adversity, Environs, Reconcile, ShowNodePool, CreateNodePool,
           ListNodes, WaitActive, WaitTimesOut, ShowActive, ShowDeleting, DeleteNodePool,
           WaitDeleted, RemoveFinalizer, CallFails, ReplyLost, Crash, ExternalDelete,
           DeletionFails, SyncCache, PoolDrift, CloudProgress, ControlPlaneChanges,
           ClusterChanges, object, vars

LEMMA HeardNext == Heard /\ [Next]_vars => Heard'
  <1> SUFFICES ASSUME Heard, [Next]_vars PROVE Heard'
    OBVIOUS
  <1> USE DEF Heard, Running, EarlySteps, DeleteSteps
  <1>1. CASE Reconcile \/ AddFinalizer \/ Close \/ Crash
    BY <1>1 DEF Reconcile, AddFinalizer, Close, Crash, PatchObject, FirstStep
  <1>2. CASE ShowNodePool \/ CreateNodePool \/ ListNodes \/ ShowActive
    BY <1>2 DEF ShowNodePool, CreateNodePool, ListNodes, ShowActive, Observe
  <1>3. CASE SetStatus \/ SetActiveStatus \/ WaitActive \/ WaitTimesOut
    BY <1>3 DEF SetStatus, SetActiveStatus, WaitActive, WaitTimesOut, PatchObject
  <1>4. CASE \/ ShowDeleting \/ MarkDeleting \/ DeleteNodePool \/ WaitDeleted
             \/ MarkDeleted \/ MarkFailed \/ RemoveFinalizer
    BY <1>4 DEF ShowDeleting, MarkDeleting, DeleteNodePool, WaitDeleted, MarkDeleted,
                MarkFailed, RemoveFinalizer, PatchObject
  <1>5. CASE CallFails \/ ReplyLost
    BY <1>5 DEF CallFails, ReplyLost, Calls
  <1>6. CASE UNCHANGED worker
    BY <1>6 DEF worker
  <1> QED BY <1>1, <1>2, <1>3, <1>4, <1>5, <1>6
       DEF Next, Worker, Adversity, Environs, ExternalDelete, DeletionFails, SyncCache,
           UserCreates, UserDeletes, PoolDrift, CloudProgress, ControlPlaneChanges,
           ClusterChanges, vars

\* Incidents are only counted up.
LEMMA IncidentsGrow ==
    ASSUME Typed, [Next]_vars, incidents' = 0
    PROVE  incidents = 0
  <1>1. ASSUME NEW kind, Fault(kind) \/ NoFault PROVE incidents = 0
    BY <1>1 DEF Typed, TypeOK, Fault, NoFault, counters
  <1>2. ASSUME NEW fault, NEW served, NEW failed, PatchObject(fault, served, failed)
        PROVE  incidents = 0
    BY <1>1, <1>2 DEF PatchObject
  <1>3. CASE \/ AddFinalizer \/ SetStatus \/ SetActiveStatus
             \/ MarkDeleting \/ MarkDeleted \/ MarkFailed \/ Close
    BY <1>2, <1>3 DEF AddFinalizer, SetStatus, SetActiveStatus, MarkDeleting,
                      MarkDeleted, MarkFailed, Close
  <1>4. CASE Reconcile \/ ClusterChanges \/ Adversity
    BY <1>1, <1>4 DEF Reconcile, ClusterChanges, counters, Adversity, CallFails,
                      ReplyLost, Crash, ExternalDelete, DeletionFails
  <1>5. CASE UNCHANGED incidents
    BY <1>5
  <1> QED BY <1>3, <1>4, <1>5
       DEF Next, Worker, Environs, vars, counters, ShowNodePool, CreateNodePool,
           ListNodes, WaitActive, WaitTimesOut, ShowActive, ShowDeleting, DeleteNodePool,
           WaitDeleted, RemoveFinalizer, SyncCache, UserCreates, UserDeletes, PoolDrift,
           CloudProgress, ControlPlaneChanges

\* A patch stores both fields of the status or neither: whatever it leaves out
\* because the copy has not changed it agrees with what is stored.
LEMMA PublishedPatch ==
    ASSUME Typed, Published, Running, NEW fault, NEW served, NEW failed,
           PatchObject(fault, served, failed)
    PROVE  /\ ~(api'.ready /\ api'.failure)
           /\ api'.ready => before.ready \/ mem.ready
           /\ api'.failure => before.failure \/ mem.failure
           /\ mem.ready = before.ready => api'.ready = api.ready
           /\ mem.failure = before.failure => api'.failure = api.failure
  <1>1. CASE api' = api
    BY <1>1 DEF Published
  <1>2. CASE \E meta, status \in BOOLEAN : api' = Persisted(meta, status)
    <2>1. PICK meta \in BOOLEAN, status \in BOOLEAN : api' = Persisted(meta, status)
      BY <1>2
    <2>2. /\ api'.ready = IF status /\ mem.ready # before.ready
                           THEN mem.ready ELSE api.ready
          /\ api'.failure = IF status /\ mem.failure # before.failure
                             THEN mem.failure ELSE api.failure
      BY <2>1, PersistedFields DEF Typed
    <2>3. /\ mem.ready \in BOOLEAN /\ before.ready \in BOOLEAN /\ api.ready \in BOOLEAN
          /\ mem.failure \in BOOLEAN /\ before.failure \in BOOLEAN
          /\ api.failure \in BOOLEAN
      BY DEF Typed, TypeOK, Object
    <2> QED BY <2>2, <2>3 DEF Published
  <1> QED BY <1>1, <1>2 DEF PatchObject

LEMMA PublishedNext ==
    ASSUME Typed, Heard, Published, incidents = 0, [Next]_vars, incidents' = 0
    PROVE  Published'
  <1> USE DEF Typed
  <1>1. mem \in Object /\ api \in Object
    BY DEF TypeOK
  <1>2. CASE Reconcile
    <2>1. /\ ~Running /\ before' = api /\ api' = api /\ seen' = None
          /\ mem'.ready = api.ready /\ mem'.failure = api.failure
      BY <1>1, <1>2 DEF Reconcile, Fault, Losing, Running, Heard, Object, object
    <2> QED BY <2>1, Environment DEF Published, Phase
  <1>3. CASE ShowNodePool \/ ShowActive
    <2>1. CASE Alive(mem.label)
      <3>1. PICK p \in Phase :
               /\ seen' = p
               /\ mem'.ready = (p = "Active")
               /\ mem'.failure = (p = "Error" \/ (mem.failure /\ p # "Active"))
        BY <1>1, <1>3, <2>1 DEF ShowNodePool, ShowActive, Observe, Alive, Object
      <3>2. /\ api.ready => before.ready
            /\ api.failure => before.failure
            /\ mem.failure = before.failure
        BY <1>3 DEF ShowNodePool, ShowActive, Heard, Published, Running, EarlySteps
      <3>3. UNCHANGED <<api, before>> /\ pc' \notin EarlySteps
        BY <1>3, <2>1 DEF ShowNodePool, ShowActive, Observe, object, EarlySteps
      <3>4. ~(api.ready /\ api.failure)
        BY DEF Published
      <3>5. CASE p = "Active"
        BY <3>1, <3>2, <3>3, <3>4, <3>5 DEF Published
      <3>6. CASE p = "Error"
        BY <3>1, <3>2, <3>3, <3>4, <3>6 DEF Published
      <3>7. CASE p \notin {"Active", "Error"}
        <4>1. mem'.ready = FALSE /\ mem'.failure = mem.failure
          BY <1>1, <3>1, <3>7 DEF Object
        <4> QED BY <3>2, <3>3, <3>4, <4>1 DEF Published
      <3> QED BY <3>5, <3>6, <3>7
    <2>2. CASE ~Alive(mem.label)
      BY <1>3, <2>2 DEF ShowNodePool, ShowActive, object, Published, Running, EarlySteps
    <2> QED BY <2>1, <2>2
  <1>4. CASE CreateNodePool
    <2>1. CASE cluster = "Alive"
      <3>1. PICK s \in {"Synchronizing", "Active"} :
               /\ seen' = s
               /\ mem'.ready = (s = "Active")
               /\ mem'.failure = (mem.failure /\ s # "Active")
        BY <1>1, <1>4, <2>1 DEF CreateNodePool, Object
      <3>2. /\ UNCHANGED <<api, before>> /\ pc' \notin EarlySteps
            /\ mem.failure = before.failure
            /\ api.ready = before.ready /\ api.failure = before.failure
            /\ ~(api.ready /\ api.failure)
        BY <1>4, <2>1 DEF CreateNodePool, object, Published, Running, EarlySteps
      <3>3. CASE s = "Active"
        BY <3>1, <3>2, <3>3 DEF Published
      <3>4. CASE s = "Synchronizing"
        <4>1. mem'.ready = FALSE /\ mem'.failure = mem.failure
          BY <1>1, <3>1, <3>4 DEF Object
        <4> QED BY <3>2, <4>1 DEF Published
      <3> QED BY <3>3, <3>4
    <2>2. CASE cluster # "Alive"
      BY <1>4, <2>2 DEF CreateNodePool, object, Published, Running, EarlySteps
    <2> QED BY <2>1, <2>2
  <1>5. CASE ListNodes \/ RemoveFinalizer
    <2>1. mem'.ready = mem.ready /\ mem'.failure = mem.failure
      BY <1>1, <1>5 DEF ListNodes, RemoveFinalizer, Object
    <2> QED BY <1>5, <2>1 DEF ListNodes, RemoveFinalizer, object, Published, Running,
                              EarlySteps
  <1>6. CASE \/ AddFinalizer \/ SetStatus \/ SetActiveStatus
             \/ MarkDeleting \/ MarkDeleted \/ MarkFailed
    <2>1. /\ \E served, failed \in Steps : PatchObject("callFails", served, failed)
          /\ Running /\ UNCHANGED <<before, mem, seen>>
      BY <1>6 DEF AddFinalizer, SetStatus, SetActiveStatus, MarkDeleting, MarkDeleted,
                  MarkFailed, Running, FirstStep, Steps, Calls
    <2>2. pc' \in EarlySteps => pc \in EarlySteps
      BY <1>6 DEF AddFinalizer, SetStatus, SetActiveStatus, MarkDeleting, MarkDeleted,
                  MarkFailed, PatchObject, EarlySteps
    <2>3. /\ ~(api'.ready /\ api'.failure)
          /\ api'.ready => before.ready \/ mem.ready
          /\ api'.failure => before.failure \/ mem.failure
          /\ mem.ready = before.ready => api'.ready = api.ready
          /\ mem.failure = before.failure => api'.failure = api.failure
      BY <2>1, PublishedPatch
    <2> QED BY <2>1, <2>2, <2>3 DEF Published
  <1>7. CASE Close
    <2>1. Running /\ pc' = "Idle" /\ PatchObject("closeFails", "Idle", "Idle")
      BY <1>7 DEF Close, PatchObject, Running
    <2> QED BY <2>1, PublishedPatch DEF Published, Running
  <1>8. CASE \/ WaitActive \/ WaitTimesOut \/ ShowDeleting \/ DeleteNodePool
             \/ WaitDeleted \/ CallFails \/ ReplyLost
    BY <1>8 DEF WaitActive, WaitTimesOut, ShowDeleting, DeleteNodePool, WaitDeleted,
                CallFails, ReplyLost, Calls, object, Published, Running, EarlySteps
  <1>9. CASE Crash
    BY <1>1, <1>9 DEF Crash, Fault, Losing
  <1>10. CASE UserCreates \/ UserDeletes
    <2>1. UNCHANGED worker /\ (api'.ready => api.ready) /\ (api'.failure => api.failure)
          /\ (UserDeletes => api'.ready = api.ready /\ api'.failure = api.failure)
      BY <1>1, <1>10 DEF UserCreates, UserDeletes, Absent, NewObject, Object
    <2>2. UserCreates => api'.ready = api.ready /\ api'.failure = api.failure
      BY DEF UserCreates, Absent, NewObject
    <2> QED BY <1>10, <2>1, <2>2 DEF worker, Published, Running
  <1>11. CASE UNCHANGED <<api, worker>>
    BY <1>11 DEF worker, Published, Running
  <1> QED BY <1>2, <1>3, <1>4, <1>5, <1>6, <1>7, <1>8, <1>9, <1>10, <1>11
       DEF Next, Worker, Adversity, Environs, ExternalDelete, DeletionFails, SyncCache,
           PoolDrift, CloudProgress, ControlPlaneChanges, ClusterChanges, vars, object

LEMMA StatusInit == Init => Told /\ Clean
  BY DEF Init, Told, Clean, Heard, Published, Running, EarlySteps, DeleteSteps, NewObject,
         Absent

LEMMA CleanNext == Typed /\ Clean /\ [Next]_vars => Clean'
  BY HeardNext, IncidentsGrow, PublishedNext DEF Clean

----
(***************************************************************************)
(* The theorems.                                                           *)
(***************************************************************************)

\* Through every order of calls, faults, restarts and stale reads, each live
\* pool is named by the copy that counts or put down to an incident of its own.
THEOREM Invariance == Spec => []IInv
  <1>1. Init => IInv
    BY TypedInit, TracedInit, AccountedInit, StatusInit DEF IInv
  <1>2. IInv /\ [Next]_vars => IInv'
    BY TypedNext, TracedNext, AccountedNext, ToldNext, CleanNext DEF IInv
  <1> QED BY <1>1, <1>2, PTL DEF Spec

\* Without incidents every live pool is named where the next step looks for it.
LEMMA NothingLost ==
    ASSUME IInv, incidents = 0
    PROVE  Lost = {} /\ ~Strayed
  <1>1. Balanced(Lost, Strayed, 0)
    BY DEF IInv, Accounted
  <1>2. Strayed \in BOOLEAN
    BY DEF Strayed
  <1> QED BY <1>1, <1>2, BalancedClean

\* Nor is there one whose object could go without its reconciler.
LEMMA PoolSheltered ==
    ASSUME IInv, incidents = 0, NEW p \in Pool, Alive(p)
    PROVE  api.exists /\ api.finalizer
  <1>1. Credited(p) /\ ~Strayed /\ p # None
    BY NothingLost, Environment DEF Environment, Lost, Live
  <1>2. CASE ~Running
    BY <1>1, <1>2 DEF IInv, Traced, Stored, Credited, Strayed
  <1>3. CASE Running
    <2>1. mem.label = p /\ api.exists
      BY <1>1, <1>3 DEF Credited, Strayed, Fresh
    <2> QED BY <1>1, <1>3, <2>1 DEF IInv, Traced, Copied
  <1> QED BY <1>2, <1>3

\* reconcileNodepool never has two pools, nor one it cannot name, as long as no
\* incident separates it from what it has created: whatever calls and patches
\* fail, whatever CCE does with the phase, whoever deletes what.
THEOREM PoolOwnership == Spec => []PoolOwned
  <1>1. IInv => PoolOwned
    <2> SUFFICES ASSUME IInv, incidents = 0,
                        NEW p \in Pool, NEW q \in Pool, Alive(p), Alive(q)
                 PROVE  p = q /\ Held(p)
      BY DEF PoolOwned
    <2>1. Credited(p) /\ Credited(q) /\ ~Strayed
      BY NothingLost DEF Lost, Live
    <2> QED BY <2>1 DEF Credited, Running, Held
  <1> QED BY <1>1, Invariance, PTL

\* Each crash, lost answer, failed Close, stale read or abandoned deletion makes
\* the reconciler lose one pool at most, in whatever order they come.
THEOREM PoolLeaks == Spec => []PoolLeakBound
  <1>1. IInv => PoolLeakBound
    <2> SUFFICES ASSUME IInv
                 PROVE  Cardinality({p \in Pool : Alive(p) /\ ~Held(p)}) <= incidents
      BY DEF PoolLeakBound
    <2> DEFINE Leaked == {p \in Pool : Alive(p) /\ ~Held(p)}
    <2>1. Leaked \subseteq Lost
      BY DEF Lost, Live, Credited, Held, Running
    <2>2. Balanced(Lost, Strayed, incidents) /\ incidents \in Nat
      BY DEF IInv, Accounted, Typed, TypeOK
    <2> HIDE DEF Leaked
    <2>3. Cardinality(Leaked) <= incidents
      BY <2>1, <2>2, BalancedBounds
    <2> QED BY <2>3 DEF Leaked
  <1> QED BY <1>1, Invariance, PTL

\* createNodepool never runs for an object whose finalizer is not stored: a
\* deletion cannot slip past the controller.
THEOREM FinalizerPrecedence == Spec => []FinalizerFirst
  <1>1. IInv => FinalizerFirst
    <2> SUFFICES ASSUME IInv, incidents = 0, pc = "CreateNodePool"
                 PROVE  api.exists /\ api.finalizer
      BY DEF FinalizerFirst
    <2>1. api.exists
      BY NothingLost DEF Strayed, Running, Fresh
    <2> QED BY <2>1 DEF IInv, Traced, Copied, Running
  <1> QED BY <1>1, Invariance, PTL

\* Status.Ready moves only towards the phase that the running reconcile has
\* read, although every patch of it compares with the same old snapshot.
THEOREM ReadyTruthful == Spec => ReadyFollowsPhase
  <1>1. IInv /\ [Next]_vars
          => [api'.ready # api.ready => (api'.ready <=> seen = "Active")]_vars
    BY ReadyFollows DEF IInv
  <1> QED BY <1>1, Invariance, PTL DEF Spec, ReadyFollowsPhase

\* Without incidents a pool is never published as ready and as failed at once,
\* through every patch that is stored in part.
THEOREM StatusConsistent == Spec => []NeverReadyAndFailed
  <1>1. IInv => NeverReadyAndFailed
    BY DEF IInv, Clean, Published, NeverReadyAndFailed
  <1> QED BY <1>1, Invariance, PTL

----
(***************************************************************************)
(* The reconciler implements Ownership.                                    *)
(***************************************************************************)

Guarded == api.exists /\ api.finalizer

\* The instance counts as this module does.
LEMMA SameCardinality == \A S : Pools!Cardinality(S) = Cardinality(S)
  BY DEF Pools!Cardinality, Cardinality

\* When the copy names no live pool that it will not give up, every live pool is
\* put down to an incident.
LEMMA ClearedWhen ==
    ASSUME IInv, Running, \A p \in Pool : Alive(p) /\ mem.label = p => Doomed
    PROVE  Pools!Cleared
  <1>1. Balanced(Lost, Strayed, incidents) /\ incidents \in Nat
    BY DEF IInv, Accounted, Typed, TypeOK
  <1>2. Live \subseteq Lost \/ (Strayed /\ Live \subseteq Lost \cup {api.label})
    BY DEF Lost, Live, Credited
  <1>3. Cardinality(Live) <= incidents
    BY <1>1, <1>2, BalancedBounds
  <1> QED BY <1>3, SameCardinality DEF Live, Pools!Cleared

\* A step that makes no pool and takes none: it stores the finalizer, drops it
\* when nothing is left to clean up, or leaves it.
LEMMA OwnsQuiet ==
    ASSUME Typed, Live' = Live, incidents' = incidents \/ incidents' = incidents + 1,
           Guarded /\ ~Guarded' => Pools!Cleared
    PROVE  [Pools!Next]_Pools!vars
  <1>1. Guarded \in BOOLEAN /\ Guarded' \in BOOLEAN
    BY DEF Guarded
  <1>2. CASE incidents' = incidents + 1
    BY <1>1, <1>2 DEF Live, Guarded, Pools!Next, Pools!Incident
  <1>3. CASE incidents' = incidents
    <2>1. CASE Guarded' = Guarded
      BY <1>3, <2>1 DEF Live, Guarded, Pools!vars
    <2>2. CASE ~Guarded /\ Guarded'
      BY <1>1, <1>3, <2>2 DEF Live, Guarded, Pools!Next, Pools!Guard
    <2>3. CASE Guarded /\ ~Guarded'
      BY <1>1, <1>3, <2>3 DEF Live, Guarded, Pools!Next, Pools!Release
    <2> QED BY <1>1, <2>1, <2>2, <2>3
  <1> QED BY <1>2, <1>3

LEMMA OwnsPatch ==
    ASSUME IInv,
           \/ AddFinalizer \/ SetStatus \/ SetActiveStatus
           \/ MarkDeleting \/ MarkDeleted \/ MarkFailed \/ Close
    PROVE  [Pools!Next]_Pools!vars
  <1> USE DEF IInv, Typed
  <1>1. PICK fault \in AllFaults, served \in Steps, failed \in Steps :
           PatchObject(fault, served, failed)
    BY DEF AddFinalizer, SetStatus, SetActiveStatus, MarkDeleting, MarkDeleted,
           MarkFailed, Close, AllFaults, Losing, FirstStep, Steps, Calls
  <1>2. UNCHANGED phase /\ Running
    BY DEF AddFinalizer, SetStatus, SetActiveStatus, MarkDeleting, MarkDeleted,
           MarkFailed, Close, Running, cloud
  <1>3. incidents' = incidents \/ incidents' = incidents + 1
    BY <1>1, PatchCounts
  <1>4. CASE mem.finalizer
    BY <1>1, <1>2, <1>3, <1>4, PatchObjectFields, OwnsQuiet
       DEF Traced, Guarded, Live, Alive
  <1>5. CASE ~mem.finalizer
    <2>1. Doomed
      BY <1>2, <1>5 DEF Traced, Copied, Doomed, Released
    <2> QED BY <1>2, <1>3, <2>1, ClearedWhen, OwnsQuiet DEF Live, Alive
  <1> QED BY <1>4, <1>5

\* A pool is made when the one that the copy names is gone.
LEMMA OwnsCreate ==
    ASSUME IInv, pc = "CreateNodePool",
           NEW p \in Pool, ~Alive(p), NEW s \in Phase,
           phase' = [phase EXCEPT ![p] = s], api' = api,
           incidents' = incidents \/ incidents' = incidents + 1
    PROVE  [Pools!Next]_Pools!vars
  <1>1. Live' = Live \cup {p} /\ p \in Live' \ Live
    BY DEF IInv, Typed, TypeOK, Live, Alive
  <1>2. Pools!OneMore
    BY <1>1 DEF Live, Pools!OneMore
  <1>3. Pools!Cleared
    BY ClearedWhen DEF IInv, Traced, Copied, Running
  <1>4. incidents = 0 => Guarded
    <2> SUFFICES ASSUME incidents = 0 PROVE Guarded
      OBVIOUS
    <2>1. api.exists
      BY NothingLost DEF Strayed, Running, Fresh
    <2> QED BY <2>1 DEF IInv, Traced, Copied, Running, Guarded
  <1>5. Guarded' = Guarded
    BY DEF Guarded
  <1>6. CASE incidents' = incidents
    <2>1. Guarded \/ incidents > 0
      BY <1>4 DEF IInv, Typed, TypeOK
    <2> QED BY <1>2, <1>3, <1>5, <1>6, <2>1 DEF Guarded, Pools!Next, Pools!Create
  <1>7. CASE incidents' = incidents + 1
    BY <1>2, <1>3, <1>5, <1>7 DEF Guarded, Pools!Next, Pools!Incident
  <1> QED BY <1>6, <1>7

\* Everything else makes no pool and leaves the finalizer alone.
LEMMA OwnsRest ==
    ASSUME IInv, api' = api, \A p \in Pool : Alive(p)' => Alive(p),
           \/ incidents' = incidents
           \/ incidents' = incidents + 1 /\ Live' = Live
    PROVE  [Pools!Next]_Pools!vars
  <1>1. Guarded' = Guarded /\ Live' \subseteq Live
    BY DEF Guarded, Live
  <1>2. CASE Live' = Live
    BY <1>1, <1>2, OwnsQuiet DEF IInv
  <1>3. CASE Live' # Live /\ incidents' = incidents
    BY <1>1, <1>3 DEF Guarded, Live, Pools!Next, Pools!Destroy
  <1> QED BY <1>2, <1>3

LEMMA OwnsWorker ==
    ASSUME IInv, Worker
    PROVE  [Pools!Next]_Pools!vars
  <1> USE DEF IInv, Typed
  <1>1. CASE \/ AddFinalizer \/ SetStatus \/ SetActiveStatus
             \/ MarkDeleting \/ MarkDeleted \/ MarkFailed \/ Close
    BY <1>1, OwnsPatch
  <1>2. CASE CreateNodePool
    <2>1. CASE cluster = "Alive"
      <3>1. PICK p \in Pool, s \in Phase :
               phase[p] = "Unborn" /\ phase' = [phase EXCEPT ![p] = s]
        BY <1>2, <2>1 DEF CreateNodePool, Phase
      <3>2. ~Alive(p)
        BY <3>1 DEF Alive, Phase
      <3> QED BY <1>2, <3>1, <3>2, OwnsCreate DEF CreateNodePool, object, counters
    <2>2. CASE cluster # "Alive"
      BY <1>2, <2>2, OwnsRest DEF CreateNodePool, object, counters, Alive
    <2> QED BY <2>1, <2>2
  <1>3. CASE Reconcile
    <2>1. incidents' = incidents \/ incidents' = incidents + 1
      BY <1>3, FaultCounts DEF Reconcile
    <2> QED BY <1>3, <2>1, OwnsRest DEF Reconcile, object, cloud, Live, Alive
  <1>4. CASE DeleteNodePool
    <2>1. \A p \in Pool : Alive(p)' => Alive(p)
      BY <1>4 DEF DeleteNodePool, Alive, TypeOK
    <2> QED BY <1>4, <2>1, OwnsRest DEF DeleteNodePool, object, counters
  <1>5. CASE \/ ShowNodePool \/ ListNodes \/ WaitActive \/ WaitTimesOut \/ ShowActive
             \/ ShowDeleting \/ WaitDeleted \/ RemoveFinalizer
    <2>1. UNCHANGED <<api, phase, incidents>>
      BY <1>5 DEF ShowNodePool, ListNodes, WaitActive, WaitTimesOut, ShowActive,
                  ShowDeleting, WaitDeleted, RemoveFinalizer, object, cloud, counters
    <2> QED BY <2>1, OwnsRest DEF Alive
  <1> QED BY <1>1, <1>2, <1>3, <1>4, <1>5 DEF Worker

LEMMA OwnsAdversity ==
    ASSUME IInv, Adversity
    PROVE  [Pools!Next]_Pools!vars
  <1> USE DEF IInv, Typed
  <1>1. /\ incidents' = incidents \/ incidents' = incidents + 1
        /\ api' = api
    BY FaultCounts DEF Adversity, CallFails, ReplyLost, Crash, ExternalDelete,
                       DeletionFails, object
  <1>2. CASE CallFails \/ Crash
    BY <1>1, <1>2, OwnsRest DEF CallFails, Crash, cloud, Live, Alive
  <1>3. CASE ReplyLost
    <2>1. CASE pc = "CreateNodePool"
      <3>1. PICK p \in Pool :
               phase[p] = "Unborn" /\ phase' = [phase EXCEPT ![p] = "Synchronizing"]
        BY <1>3, <2>1 DEF ReplyLost
      <3>2. ~Alive(p) /\ "Synchronizing" \in Phase
        BY <3>1 DEF Alive, Phase
      <3> QED BY <1>1, <2>1, <3>1, <3>2, OwnsCreate
    <2>2. CASE pc # "CreateNodePool"
      <3>1. phase' = [phase EXCEPT ![mem.label] = "Deleting"] /\ Alive(mem.label)
        BY <1>3, <2>2 DEF ReplyLost
      <3>2. \A p \in Pool : Alive(p)' <=> Alive(p)
        BY <3>1 DEF Alive, TypeOK, Phase
      <3> QED BY <1>1, <3>2, OwnsRest DEF Live
    <2> QED BY <2>1, <2>2
  <1>4. CASE ExternalDelete \/ DeletionFails
    <2>1. \A p \in Pool : Alive(p)' <=> Alive(p)
      BY <1>4 DEF ExternalDelete, DeletionFails, Alive, TypeOK, Phase
    <2> QED BY <1>1, <2>1, OwnsRest DEF Live
  <1> QED BY <1>2, <1>3, <1>4 DEF Adversity

LEMMA OwnsEnvirons ==
    ASSUME IInv, Environs
    PROVE  [Pools!Next]_Pools!vars
  <1> USE DEF IInv, Typed
  <1>1. CASE SyncCache \/ UserCreates \/ UserDeletes
    <2>1. UNCHANGED <<phase, incidents>>
      BY <1>1 DEF SyncCache, UserCreates, UserDeletes, cloud, counters
    <2>2. Guarded' = Guarded
      <3>1. CASE SyncCache
        BY <3>1 DEF SyncCache, Guarded
      <3>2. CASE UserCreates
        BY <3>2 DEF UserCreates, Absent, NewObject, Guarded
      <3>3. CASE UserDeletes
        <4>1. api'.finalizer = api.finalizer /\ api'.exists = api.finalizer
          BY <3>3 DEF UserDeletes, TypeOK, Object
        <4>2. api.exists
          BY <3>3 DEF UserDeletes
        <4> QED BY <4>1, <4>2 DEF Guarded
      <3> QED BY <1>1, <3>1, <3>2, <3>3
    <2> QED BY <2>1, <2>2, OwnsQuiet DEF Live, Alive
  <1>2. CASE \/ PoolDrift \/ \E p \in Pool : CloudProgress(p)
             \/ ControlPlaneChanges \/ ClusterChanges
    <2>1. incidents' = incidents
      BY <1>2 DEF PoolDrift, CloudProgress, ControlPlaneChanges, ClusterChanges, counters,
                  NoFault, Fault, Losing
    <2>2. api' = api /\ \A p \in Pool : Alive(p)' => Alive(p)
      BY <1>2, PoolsOnlyGo DEF object
    <2> QED BY <2>1, <2>2, OwnsRest
  <1> QED BY <1>1, <1>2 DEF Environs

\* The reconciler implements Ownership for every set of pools: it makes them one
\* at a time and under a stored finalizer, and gives the finalizer up only when
\* every pool that is left is put down to an incident.
THEOREM PoolsOwned == Spec => OwnsPools
  <1>1. Init => Pools!Init
    BY DEF Init, Pools!Init, Alive, Phase, NewObject, Absent
  <1>2. IInv /\ [Next]_vars => [Pools!Next]_Pools!vars
    <2> SUFFICES ASSUME IInv, [Next]_vars PROVE [Pools!Next]_Pools!vars
      OBVIOUS
    <2>1. CASE Next
      BY <2>1, OwnsWorker, OwnsAdversity, OwnsEnvirons DEF Next
    <2>2. CASE UNCHANGED vars
      BY <2>2, OwnsRest DEF vars, object, cloud, counters, Alive
    <2> QED BY <2>1, <2>2
  <1> QED BY <1>1, <1>2, Invariance, PTL DEF Spec, OwnsPools, Pools!Spec

====
