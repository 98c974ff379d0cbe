---- MODULE ControlPlaneProofs ----
(***************************************************************************)
(* What holds of ControlPlane for every set of identifiers, every drift of *)
(* the cloud, every selection of faults and every budget of them: types,   *)
(* and whose clusters are.                                                 *)
(*                                                                         *)
(* Typed is inductive alone.  Traced says what the reconcile, the informer *)
(* and the API server can differ in.  Accounted puts every live cluster    *)
(* down to the copy that will name it, or to an incident of its own: a     *)
(* stale read is charged when the reconcile starts from it, and pays for   *)
(* the one label that its patches may overwrite.  Torn follows a deletion  *)
(* through a reconciler that meets no fault.                               *)
(***************************************************************************)
EXTENDS ControlPlane, AccountsProofs

\* The calls from the first to the label, and those of a deletion.
EarlySteps == {"AddFinalizer", "CreateVpc", "CreateSubnet", "ShowCluster",
               "CreateCluster"}

DeleteSteps == {"Dependencies", "ShowDeleting", "DeleteCluster", "WaitDeleted"}

\* Those that pass the label to the cloud.
ClusterSteps == {"ShowCluster", "SetStatus", "WaitActive", "ShowActive",
                 "SetActiveStatus", "ShowEndpoints", "CreatePublicip",
                 "BindEip", "ShowReady", "Kubeconfig", "ShowDeleting",
                 "DeleteCluster", "WaitDeleted"}

Running == pc # "Idle"

\* A call that names a cluster, or a VPC, has its identifier.
Named ==
    /\ pc \in ClusterSteps => mem.label # None
    /\ pc = "CreateSubnet" => mem.vpc # None

Typed == TypeOK /\ Named

\* Of any copy: a deletion waits for the finalizer, which is stored before the
\* label is.
Stored(o) ==
    /\ o.exists /\ o.deleting => o.finalizer
    /\ o.exists /\ ~o.finalizer => o.label = None

\* The informer's copy is an earlier state of the stored object.
Earlier ==
    /\ api.exists /\ ~api.finalizer => ~(cache.exists /\ cache.finalizer)
    /\ cache.exists /\ cache.deleting /\ api.exists => api.deleting

\* The copy is without the finalizer once reconcileDelete has removed it.
Released == pc = "Close" /\ ~mem.finalizer

\* What the running reconcile has done to its copy, and what the stored object
\* can be meanwhile.
Copied ==
    Running =>
        /\ Stored(before)
        /\ pc # "Close" => mem.finalizer
        /\ pc \in EarlySteps \cup DeleteSteps => mem.label = before.label
        /\ pc \in DeleteSteps \/ Released => (api.exists => api.deleting)
        /\ pc = "AddFinalizer" => ~before.finalizer
        /\ pc = "CreateCluster" => ~(mem.label \in Cluster /\ Alive(mem.label))
        /\ api.exists /\ ~api.finalizer =>
               /\ ~before.finalizer /\ mem.label = None
               /\ pc \in {"AddFinalizer", "Close"}

Traced == Stored(api) /\ Stored(cache) /\ Earlier /\ Copied

\* The stored label is one that the reconcile knows, or there is no object and
\* nothing to store.
Fresh == IF api.exists THEN api.label \in {before.label, mem.label}
                       ELSE mem.label = None /\ pc \in {"AddFinalizer", "Close"}

\* A reconcile that started from a stale copy, and may overwrite the label.
Strayed == Running /\ ~Fresh

\* The reconcile drops the finalizer, and the label with it, at the next poll or
\* at the next patch.
Doomed == Released \/ (pc = "WaitDeleted" /\ phase[mem.label] # "Deleting")

Live == {c \in Cluster : Alive(c)}

\* The copy that will still name the cluster when the reconcile ends.
Credited(c) ==
    \/ (~Running \/ Strayed) /\ api.exists /\ api.label = c
    \/ Running /\ ~Doomed /\ mem.label = c

Lost == {c \in Live : ~Credited(c)}

\* Every cluster that no copy will name, and the label that a stale copy may yet
\* overwrite, is put down to an incident of its own.
Accounted == Balanced(Lost, Strayed, incidents)

IInv == Typed /\ Traced /\ Accounted
----
(***************************************************************************)
(* Types.                                                                  *)
(***************************************************************************)

\* A patch stores an object of the type: it copies fields of typed objects.
LEMMA PersistedType ==
    ASSUME TypeOK, NEW meta \in BOOLEAN, NEW status \in BOOLEAN
    PROVE  Persisted(meta, status) \in Object
  <1> DEFINE kept == Merge(meta, before.finalizer, mem.finalizer, api.finalizer)
             gone == ~(api.deleting /\ ~kept)
             lbl == Merge(meta, before.label, mem.label, api.label)
             vpc == Merge(meta, before.vpc, mem.vpc, api.vpc)
             sub == Merge(meta, before.subnet, mem.subnet, api.subnet)
             end == Merge(meta, before.endpoint, mem.endpoint, api.endpoint)
             rdy == Merge(status, before.ready, mem.ready, api.ready)
             flr == Merge(status, before.failure, mem.failure, api.failure)
             ini == Merge(status, before.initialized, mem.initialized, api.initialized)
             eip == Merge(status, before.eip, mem.eip, api.eip)
  <1>1. api \in Object /\ mem \in Object
    BY DEF TypeOK
  <1>2. kept \in BOOLEAN /\ rdy \in BOOLEAN /\ flr \in BOOLEAN /\ ini \in BOOLEAN
    BY <1>1 DEF Object, Merge
  <1>3. /\ lbl \in Cluster \cup {None} /\ vpc \in Vpc \cup {None}
        /\ sub \in Vpc \cup {None} /\ end \in Endpoint \cup {None}
        /\ eip \in Eip \cup {None} /\ api.access \in Access
    BY <1>1 DEF Object, Merge
  <1>4. gone \in BOOLEAN
    OBVIOUS
  <1>5. Persisted(meta, status) =
          [api EXCEPT !.exists = gone, !.finalizer = kept, !.label = lbl,
                      !.vpc = vpc, !.subnet = sub, !.endpoint = end,
                      !.ready = rdy, !.failure = flr,
                      !.initialized = ini, !.eip = eip]
    BY DEF Persisted
  <1> HIDE DEF kept, gone, lbl, vpc, sub, end, rdy, flr, ini, eip
  <1>6. Persisted(meta, status) =
          [exists |-> gone, deleting |-> api.deleting, finalizer |-> kept,
           label |-> lbl, vpc |-> vpc, subnet |-> sub, endpoint |-> end,
           ready |-> rdy, failure |-> flr, initialized |-> ini, eip |-> eip,
           access |-> api.access]
    BY <1>1, <1>5 DEF Object
  <1> QED BY <1>1, <1>2, <1>3, <1>4, <1>6 DEF Object

\* ReconcileNetwork goes on to a step that has what it needs.
LEMMA NetworkStepNamed ==
    ASSUME NEW o \in Object
    PROVE  /\ NetworkStep(o) \in {"CreateVpc", "CreateSubnet", "ShowCluster",
                                  "CreateCluster"}
           /\ NetworkStep(o) = "ShowCluster" => o.label # None
           /\ NetworkStep(o) = "CreateSubnet" => o.vpc # None
           /\ NetworkStep(o) = "CreateCluster" => o.label = None
  BY DEF NetworkStep, ClusterStep

\* PatchObject stores a typed object and goes on as told.
LEMMA PatchObjectType ==
    ASSUME TypeOK, NEW fault \in AllFaults, NEW served, NEW failed,
           PatchObject(fault, served, failed)
    PROVE  /\ api' \in Object
           /\ pc' \in {served, failed}
           /\ faults' \in Nat /\ incidents' \in Nat
  <1>1. CASE api.exists /\ api' = Persisted(TRUE, TRUE) /\ pc' = served /\ NoFault
    BY <1>1, PersistedType DEF TypeOK, NoFault, counters
  <1>2. CASE /\ api.exists
             /\ \E meta, status \in BOOLEAN :
                   ~(meta /\ status) /\ api' = Persisted(meta, status)
             /\ pc' = failed
             /\ Fault(fault)
    BY <1>2, PersistedType DEF TypeOK, Fault
  <1>3. CASE ~api.exists /\ pc' \in {served, failed} /\ UNCHANGED api /\ NoFault
    BY <1>3 DEF TypeOK, NoFault, counters
  <1> QED BY <1>1, <1>2, <1>3 DEF PatchObject

\* The initial state has the types.
LEMMA TypedInit == Init => Typed
  BY Environment DEF Init, Typed, TypeOK, Named, Object, NewObject, Steps, Calls,
        ClusterSteps


\* The four actions that patch the object.
LEMMA TypedPatch ==
    ASSUME Typed, AddFinalizer \/ SetStatus \/ SetActiveStatus \/ Close
    PROVE  Typed'
  <1>1. NewObject \in Object
    BY Environment DEF NewObject, Object
  <1>2. "callFails" \in AllFaults /\ "closeFails" \in AllFaults
    BY DEF AllFaults, Losing
  <1>3. CASE AddFinalizer
    <2>1. mem \in Object
      BY DEF Typed, TypeOK
    <2>2. pc' \in {NetworkStep(mem), "Close"} /\ api' \in Object
          /\ faults' \in Nat /\ incidents' \in Nat
      BY <1>2, <1>3, PatchObjectType DEF AddFinalizer, Typed
    <2>3. Named'
      BY <2>1, <2>2, <1>3, NetworkStepNamed DEF AddFinalizer, Named, ClusterSteps
    <2>4. pc' \in Steps
      BY <2>1, <2>2, NetworkStepNamed DEF Steps, Calls
    <2> QED BY <2>2, <2>3, <2>4, <1>3
         DEF AddFinalizer, Typed, TypeOK, cloud, network, others
  <1>4. CASE SetStatus \/ SetActiveStatus
    <2>1. ReadyStep \in {"Close", "ShowEndpoints", "ShowReady"}
      BY DEF ReadyStep
    <2>2. /\ pc' \in {"WaitActive", "Close", "ShowEndpoints", "ShowReady"}
          /\ api' \in Object /\ faults' \in Nat /\ incidents' \in Nat
      <3>1. CASE SetStatus
        BY <3>1, <2>1, <1>2, PatchObjectType DEF SetStatus, Typed
      <3>2. CASE SetActiveStatus
        BY <3>2, <2>1, <1>2, PatchObjectType DEF SetActiveStatus, Typed
      <3> QED BY <3>1, <3>2, <1>4
    <2>3. Named'
      BY <2>2, <1>4 DEF SetStatus, SetActiveStatus, Typed, Named, ClusterSteps
    <2> QED BY <2>2, <2>3, <1>4
         DEF SetStatus, SetActiveStatus, Typed, TypeOK, Steps, Calls, cloud, network,
             others
  <1>5. CASE Close
    <2>1. pc' = "Idle" /\ api' \in Object /\ faults' \in Nat /\ incidents' \in Nat
      BY <1>2, <1>5, PatchObjectType DEF Close, Typed
    <2> QED BY <2>1, <1>1, <1>5
         DEF Close, Typed, TypeOK, Named, ClusterSteps, Steps, cloud, network, others
  <1> QED BY <1>3, <1>4, <1>5

\* The other steps of the worker.
LEMMA TypedReconcile ==
    ASSUME Typed, Reconcile
    PROVE  Typed'
  <1>1. cache \in Object /\ before' = cache
    BY DEF Typed, TypeOK, Reconcile
  <1>2. faults' \in Nat /\ incidents' \in Nat
    BY DEF Typed, TypeOK, Reconcile, NoFault, Fault, counters
  <1>3. CASE /\ cache.deleting /\ mem' = cache /\ pc' = "Dependencies"
    BY <1>1, <1>2, <1>3
       DEF Reconcile, Typed, TypeOK, Named, ClusterSteps, Steps, Calls, object, cloud,
           network, others
  <1>4. CASE /\ mem' = [cache EXCEPT !.finalizer = TRUE]
             /\ pc' = IF cache.finalizer THEN NetworkStep(cache) ELSE "AddFinalizer"
    <2>1. mem' \in Object /\ mem'.label = cache.label /\ mem'.vpc = cache.vpc
      BY <1>1, <1>4 DEF Object
    <2>2. Named'
      BY <1>1, <1>4, <2>1, NetworkStepNamed DEF Named, ClusterSteps
    <2>3. pc' \in Steps
      BY <1>1, <1>4, NetworkStepNamed DEF Steps, Calls
    <2> QED BY <1>1, <1>2, <2>1, <2>2, <2>3
         DEF Reconcile, Typed, TypeOK, object, cloud, network, others
  <1> QED BY <1>3, <1>4 DEF Reconcile

LEMMA TypedNetwork ==
    ASSUME Typed, CreateVpc \/ CreateSubnet
    PROVE  Typed'
  <1>1. mem \in Object
    BY DEF Typed, TypeOK
  <1>2. CASE CreateVpc
    <2>1. PICK v \in Vpc \ vpcs : vpcs' = vpcs \cup {v} /\ mem' = [mem EXCEPT !.vpc = v]
      BY <1>2 DEF CreateVpc
    <2>2. mem' \in Object
      BY <1>1, <2>1 DEF Object
    <2>3. Named' /\ pc' \in Steps
      BY <1>2, <2>2, NetworkStepNamed DEF CreateVpc, Named, ClusterSteps, Steps, Calls
    <2> QED BY <1>2, <2>1, <2>2, <2>3
         DEF CreateVpc, Typed, TypeOK, object, others, counters
  <1>3. CASE CreateSubnet
    <2>1. mem.vpc \in Vpc
      BY <1>1, <1>3 DEF CreateSubnet, Typed, Named, Object
    <2>2. mem' \in Object /\ mem'.label = mem.label
      BY <1>1, <1>3, <2>1 DEF CreateSubnet, Object
    <2>3. Named' /\ pc' \in Steps
      BY <1>1, <1>3, <2>2 DEF CreateSubnet, ClusterStep, Named, ClusterSteps, Steps, Calls
    <2> QED BY <1>3, <2>1, <2>2, <2>3
         DEF CreateSubnet, Typed, TypeOK, object, others, counters
  <1> QED BY <1>2, <1>3


\* setStatus keeps the types whatever phase it is given.
LEMMA ObserveType ==
    ASSUME Typed, NEW p \in Phase, NEW next, Observe(p, next)
    PROVE  /\ mem' \in Object /\ mem'.label = mem.label
           /\ seen' \in Phase
           /\ pc' \in {next, "Close"}
  <1>1. mem \in Object
    BY DEF Typed, TypeOK
  <1>2. (p \in Serving) \in BOOLEAN
    OBVIOUS
  <1>3. CASE p \in Known
    BY <1>1, <1>2, <1>3 DEF Observe, Object
  <1>4. CASE p \notin Known
    BY <1>1, <1>4 DEF Observe
  <1> QED BY <1>3, <1>4

LEMMA TypedCluster ==
    ASSUME Typed,
           ShowCluster \/ CreateCluster \/ WaitActive \/ WaitTimesOut \/ ShowActive
    PROVE  Typed'
  <1>1. mem \in Object /\ phase \in [Cluster -> Phase \cup {"Unborn", "Gone"}]
    BY DEF Typed, TypeOK
  <1>2. CASE ShowCluster
    <2>1. /\ mem' \in Object /\ mem'.label = mem.label
          /\ seen' \in Phase \cup {None}
          /\ pc' \in {"SetStatus", "Close", "CreateCluster"}
      BY <1>1, <1>2, ObserveType DEF ShowCluster, Alive, Typed, TypeOK
    <2> QED BY <1>2, <2>1
         DEF ShowCluster, Typed, TypeOK, Named, ClusterSteps, Steps, Calls, object,
             cloud, network, others, counters
  <1>3. CASE CreateCluster
    <2>1. PICK c \in Cluster :
             /\ phase' = [phase EXCEPT ![c] = "Creating"]
             /\ mem' = [mem EXCEPT !.label = c, !.ready = FALSE]
      BY <1>3 DEF CreateCluster
    <2>2. mem' \in Object /\ mem'.label = c
      BY <1>1, <2>1 DEF Object
    <2>3. phase' \in [Cluster -> Phase \cup {"Unborn", "Gone"}]
      BY <1>1, <2>1 DEF Phase, Known
    <2>4. mem'.label # None
      BY <2>2, Environment
    <2> QED BY <1>3, <2>2, <2>3, <2>4
         DEF CreateCluster, Typed, TypeOK, Named, Steps, Calls, Phase, Known, object,
             network, others, counters
  <1>4. CASE WaitActive \/ WaitTimesOut
    BY <1>4 DEF WaitActive, WaitTimesOut, Typed, TypeOK, Named, ClusterSteps, Steps,
                Calls, object, cloud, network, others, counters
  <1>5. CASE ShowActive
    <2>1. /\ mem' \in Object /\ mem'.label = mem.label
          /\ seen' \in Phase \cup {None}
          /\ pc' \in {"SetActiveStatus", "Close"}
      BY <1>1, <1>5, ObserveType DEF ShowActive, Alive, Typed, TypeOK
    <2> QED BY <1>5, <2>1
         DEF ShowActive, Typed, TypeOK, Named, ClusterSteps, Steps, Calls, object,
             cloud, network, others, counters
  <1> QED BY <1>2, <1>3, <1>4, <1>5

\* The Secret that reconcileKubeconfig leaves.
LEMMA KubeconfigType ==
    ASSUME TypeOK
    PROVE  KubeconfigSecret \in Kubeconfigs
  <1>1. mem \in Object /\ secret \in Kubeconfigs \cup {None}
    BY DEF TypeOK
  <1>2. /\ mem.endpoint \in Endpoint \cup {None} /\ mem.label \in Cluster \cup {None}
        /\ mem.access \in Access
    BY <1>1 DEF Object
  <1>3. NewKubeconfig \in Kubeconfigs
    BY <1>2 DEF NewKubeconfig, Kubeconfigs
  <1>4. secret \in Kubeconfigs => [secret EXCEPT !.cert = mem.label] \in Kubeconfigs
    BY <1>2 DEF Kubeconfigs
  <1> QED BY <1>1, <1>3, <1>4 DEF KubeconfigSecret

LEMMA TypedReady ==
    ASSUME Typed,
           ShowEndpoints \/ CreatePublicip \/ BindEip \/ ShowReady \/ Kubeconfig
    PROVE  Typed'
  <1>1. mem \in Object /\ bound \in [Cluster -> Eip \cup {None}]
    BY DEF Typed, TypeOK
  <1>2. pc \in ClusterSteps => mem.label \in Cluster
    BY <1>1 DEF Typed, Named, Object
  <1>3. CASE ShowEndpoints
    BY <1>3 DEF ShowEndpoints, Typed, TypeOK, Named, ClusterSteps, Steps, Calls,
                object, cloud, network, others, counters
  <1>4. CASE CreatePublicip
    <2>1. PICK e \in Eip \ eips : eips' = eips \cup {e} /\ mem' = [mem EXCEPT !.eip = e]
      BY <1>4 DEF CreatePublicip
    <2>2. mem' \in Object /\ mem'.label = mem.label
      BY <1>1, <2>1 DEF Object
    <2> QED BY <1>4, <2>1, <2>2
         DEF CreatePublicip, Typed, TypeOK, Named, ClusterSteps, Steps, Calls, object,
             others, counters
  <1>5. CASE BindEip
    <2>1. bound' \in [Cluster -> Eip \cup {None}]
      BY <1>1, <1>5 DEF BindEip, Object
    <2> QED BY <1>5, <2>1
         DEF BindEip, Typed, TypeOK, Named, ClusterSteps, Steps, Calls, object, others,
             counters
  <1>6. CASE ShowReady
    <2>1. [cluster |-> mem.label, via |-> bound[mem.label]] \in Endpoint
      BY <1>1, <1>2, <1>6 DEF ShowReady, ClusterSteps, Endpoint
    <2>2. mem' \in Object /\ mem'.label = mem.label
      BY <1>1, <1>6, <2>1 DEF ShowReady, Object
    <2> QED BY <1>6, <2>2
         DEF ShowReady, Typed, TypeOK, Named, ClusterSteps, Steps, Calls, object, cloud,
             network, others, counters
  <1>7. CASE Kubeconfig
    <2>1. secret' \in Kubeconfigs \cup {None}
      BY <1>7, KubeconfigType DEF Kubeconfig, Typed, TypeOK
    <2>2. mem' \in Object
      BY <1>1, <1>7 DEF Kubeconfig, Object
    <2> QED BY <1>7, <2>1, <2>2
         DEF Kubeconfig, Typed, TypeOK, Named, ClusterSteps, Steps, object, cloud,
             network, others, counters
  <1> QED BY <1>3, <1>4, <1>5, <1>6, <1>7

LEMMA TypedDelete ==
    ASSUME Typed, Dependencies \/ ShowDeleting \/ DeleteCluster \/ WaitDeleted
    PROVE  Typed'
  <1>1. mem \in Object /\ phase \in [Cluster -> Phase \cup {"Unborn", "Gone"}]
    BY DEF Typed, TypeOK
  <1>2. RemoveFinalizer => mem' \in Object
    BY <1>1 DEF RemoveFinalizer, Object
  <1>3. mem' \in Object
    BY <1>1, <1>2 DEF Dependencies, ShowDeleting, DeleteCluster, WaitDeleted
  <1>4. phase' \in [Cluster -> Phase \cup {"Unborn", "Gone"}]
    BY <1>1 DEF Dependencies, ShowDeleting, DeleteCluster, WaitDeleted, cloud, Phase, Known
  <1>5. pc' \in Steps /\ Named'
    BY DEF Dependencies, ShowDeleting, DeleteCluster, WaitDeleted, RemoveFinalizer,
           Steps, Calls, Typed, Named, ClusterSteps
  <1> QED BY <1>3, <1>4, <1>5
       DEF Dependencies, ShowDeleting, DeleteCluster, WaitDeleted, Typed, TypeOK,
           object, cloud, network, others, counters

LEMMA TypedAdversity ==
    ASSUME Typed, Adversity
    PROVE  Typed'
  <1>1. NewObject \in Object
    BY Environment DEF NewObject, Object
  <1>2. ASSUME NEW kind, Fault(kind)
        PROVE  faults' \in Nat /\ incidents' \in Nat
    BY <1>2 DEF Fault, Typed, TypeOK
  <1>3. CASE CallFails
    BY <1>2, <1>3 DEF CallFails, Typed, TypeOK, Named, ClusterSteps, Steps, Calls,
                      object, cloud, network, others
  <1>4. CASE ReplyLost
    <2>1. faults' \in Nat /\ incidents' \in Nat
      BY <1>2, <1>4 DEF ReplyLost
    <2>2. /\ phase' \in [Cluster -> Phase \cup {"Unborn", "Gone"}]
          /\ bound' \in [Cluster -> Eip \cup {None}]
      BY <1>4 DEF ReplyLost, Typed, TypeOK, cloud, network, Object, Phase, Known
    <2>3. vpcs' \subseteq Vpc /\ subnets' \subseteq Vpc /\ eips' \subseteq Eip
      BY <1>4 DEF ReplyLost, Typed, TypeOK, Named, cloud, network, Object
    <2>4. secret' \in Kubeconfigs \cup {None}
      BY <1>4, KubeconfigType DEF ReplyLost, Typed, TypeOK
    <2> QED BY <1>4, <2>1, <2>2, <2>3, <2>4
         DEF ReplyLost, Typed, TypeOK, Named, ClusterSteps, Steps, object, others
  <1>5. CASE Crash
    BY <1>1, <1>2, <1>5 DEF Crash, Typed, TypeOK, Named, ClusterSteps, Steps, cloud,
                            network, others
  <1>6. CASE ExternalDelete \/ DeletionFails
    <2>1. phase' \in [Cluster -> Phase \cup {"Unborn", "Gone"}]
      BY <1>6 DEF ExternalDelete, DeletionFails, Typed, TypeOK, Phase, Known
    <2> QED BY <1>2, <1>6, <2>1
         DEF ExternalDelete, DeletionFails, Typed, TypeOK, Named, ClusterSteps, object,
             worker, network, others
  <1> QED BY <1>3, <1>4, <1>5, <1>6 DEF Adversity

\* A deletion changes two flags of a typed object.
LEMMA DeletionRequestType ==
    ASSUME TypeOK, UserDeletes
    PROVE  api' \in Object
  <1>1. api \in Object
    BY DEF TypeOK
  <1>2. /\ [api EXCEPT !.deleting = TRUE] \in Object
        /\ [api EXCEPT !.exists = FALSE] \in Object
    BY <1>1 DEF Object
  <1> QED BY <1>2 DEF UserDeletes

\* An edit changes one field, which only reconcileCluster looks at.
LEMMA UserEditsFields ==
    ASSUME TypeOK, UserEdits
    PROVE  /\ api' \in Object /\ api.exists
           /\ api'.exists = api.exists /\ api'.deleting = api.deleting
           /\ api'.finalizer = api.finalizer /\ api'.label = api.label
           /\ api'.vpc = api.vpc /\ api'.subnet = api.subnet
           /\ api'.endpoint = api.endpoint /\ api'.ready = api.ready
           /\ api'.failure = api.failure /\ api'.initialized = api.initialized
           /\ api'.eip = api.eip
  <1>1. api \in Object
    BY DEF TypeOK
  <1>2. PICK access \in Access : api' = [api EXCEPT !.access = access]
    BY DEF UserEdits
  <1> QED BY <1>1, <1>2 DEF Object, UserEdits

LEMMA TypedEnvirons ==
    ASSUME Typed, Environs
    PROVE  Typed'
  <1>1. CASE SyncCache
    BY <1>1 DEF SyncCache, Typed, TypeOK, Named, worker, cloud, network, others, counters
  <1>2. CASE UserDeletes
    <2>1. api' \in Object
      BY <1>2, DeletionRequestType DEF Typed
    <2> QED BY <1>2, <2>1 DEF UserDeletes, Typed, TypeOK, Named, worker, cloud, network,
                              others, counters
  <1>3. CASE CloudProgress \/ PhaseDrift
    <2>1. phase' \in [Cluster -> Phase \cup {"Unborn", "Gone"}]
      BY <1>3 DEF CloudProgress, PhaseDrift, Typed, TypeOK, Phase, Known
    <2> QED BY <1>3, <2>1 DEF CloudProgress, PhaseDrift, Typed, TypeOK, Named, object,
                              worker, network, others, counters
  <1>4. CASE PoolsChange \/ InfrastructureReady
    BY <1>4 DEF PoolsChange, InfrastructureReady, Typed, TypeOK, Named, object, worker,
                cloud, network, counters
  <1>5. CASE UserEdits
    <2>1. api' \in Object
      BY <1>5, UserEditsFields DEF Typed
    <2> QED BY <1>5, <2>1 DEF UserEdits, Typed, TypeOK, Named, worker, cloud, network,
                              others, counters
  <1> QED BY <1>1, <1>2, <1>3, <1>4, <1>5 DEF Environs

LEMMA TypedNext == Typed /\ [Next]_vars => Typed'
  <1> SUFFICES ASSUME Typed, [Next]_vars PROVE Typed'
    OBVIOUS
  <1>1. CASE Worker
    BY <1>1, TypedPatch, TypedReconcile, TypedNetwork, TypedCluster, TypedReady,
       TypedDelete DEF Worker
  <1>2. CASE Adversity
    BY <1>2, TypedAdversity
  <1>3. CASE Environs
    BY <1>3, TypedEnvirons
  <1>4. CASE UNCHANGED vars
    BY <1>4 DEF vars, object, worker, cloud, network, others, counters, Typed, TypeOK,
                Named
  <1> QED BY <1>1, <1>2, <1>3, <1>4 DEF Next

\* Every variable of the reconciler, of its object and of the cloud keeps its
\* type, and a call that names a cluster or a VPC has its identifier.
THEOREM TypesHold == Spec => []TypeOK
  <1>1. Spec => []Typed
    BY TypedInit, TypedNext, PTL DEF Spec
  <1>2. Typed => TypeOK
    BY DEF Typed
  <1> QED BY <1>1, <1>2, PTL

----
(***************************************************************************)
(* What the reconcile, the informer and the API server can differ in.      *)
(***************************************************************************)

\* The fields of the stored object after a patch.
LEMMA PersistedFields ==
    ASSUME TypeOK, NEW meta \in BOOLEAN, NEW status \in BOOLEAN
    PROVE  LET o == Persisted(meta, status)
               kept == IF meta /\ mem.finalizer # before.finalizer
                       THEN mem.finalizer ELSE api.finalizer
           IN  /\ o.finalizer = kept
               /\ o.exists = ~(api.deleting /\ ~kept)
               /\ o.deleting = api.deleting
               /\ o.label = IF meta /\ mem.label # before.label
                            THEN mem.label ELSE api.label
  BY DEF TypeOK, Object, Persisted, Merge

\* What any patch leaves of the object.
LEMMA PatchObjectFields ==
    ASSUME TypeOK, Stored(api), NEW fault, NEW served, NEW failed,
           PatchObject(fault, served, failed)
    PROVE  /\ api'.deleting = api.deleting
           /\ ~api.exists => api' = api
           /\ api'.exists => api.exists
           /\ api'.exists /\ api'.deleting => api'.finalizer
           /\ api'.label = api.label \/ (mem.label # before.label /\ api'.label = mem.label)
           /\ mem.finalizer =>
                 api'.exists = api.exists /\ (api.finalizer => api'.finalizer)
           /\ pc' \in {served, failed}
           /\ pc' # failed /\ mem.finalizer /\ ~before.finalizer =>
                 api'.exists /\ api'.finalizer
  <1>1. CASE /\ api.exists
             /\ \E meta, status \in BOOLEAN :
                    /\ api' = Persisted(meta, status)
                    /\ (meta /\ pc' = served) \/ pc' = failed
    <2>1. PICK meta \in BOOLEAN, status \in BOOLEAN :
             /\ api' = Persisted(meta, status)
             /\ (meta /\ pc' = served) \/ pc' = failed
      BY <1>1
    <2> DEFINE kept == IF meta /\ mem.finalizer # before.finalizer
                       THEN mem.finalizer ELSE api.finalizer
    <2>2. /\ api'.finalizer = kept
          /\ api'.exists = ~(api.deleting /\ ~kept)
          /\ api'.deleting = api.deleting
          /\ api'.label = IF meta /\ mem.label # before.label
                         THEN mem.label ELSE api.label
      BY <2>1, PersistedFields
    <2>3. /\ mem.finalizer \in BOOLEAN /\ before.finalizer \in BOOLEAN
          /\ api.finalizer \in BOOLEAN /\ api.deleting \in BOOLEAN
          /\ api.exists \in BOOLEAN
      BY DEF TypeOK, Object
    <2>4. api.deleting => api.finalizer
      BY <1>1 DEF Stored
    <2> QED BY <1>1, <2>1, <2>2, <2>3, <2>4
  <1>2. CASE ~api.exists /\ api' = api /\ (pc' = failed \/ (mem = before /\ pc' = served))
    BY <1>2
  <1> QED BY <1>1, <1>2 DEF PatchObject

LEMMA TracedInit == Init => Traced
  BY DEF Init, Traced, Stored, Earlier, Copied, Running, NewObject

LEMMA TracedReconcile ==
    ASSUME Typed, Traced, Reconcile
    PROVE  Traced'
  <1>1. cache \in Object /\ before' = cache /\ cache.exists
        /\ pc = "Idle" /\ UNCHANGED <<api, cache, phase>>
    BY DEF Typed, TypeOK, Reconcile, object, cloud
  <1>2. mem'.label = cache.label /\ (~cache.deleting => mem'.finalizer)
    BY <1>1 DEF Reconcile, Object
  <1>3. Stored(api)' /\ Stored(cache)' /\ Earlier'
    BY <1>1 DEF Traced, Stored, Earlier, Running
  <1>4. CASE cache.deleting /\ mem' = cache /\ pc' = "Dependencies"
    BY <1>1, <1>4 DEF Traced, Stored, Earlier, Copied, Running, EarlySteps, Released
  <1>5. CASE /\ ~cache.deleting
             /\ pc' = IF cache.finalizer THEN NetworkStep(cache) ELSE "AddFinalizer"
    <2>1. /\ pc' \in {"AddFinalizer", "CreateVpc", "CreateSubnet", "ShowCluster",
                       "CreateCluster"}
          /\ pc' = "AddFinalizer" <=> ~cache.finalizer
          /\ pc' = "CreateCluster" => cache.label = None
      BY <1>1, <1>5, NetworkStepNamed
    <2>2. Copied'
      BY <1>1, <1>2, <1>5, <2>1, Environment
         DEF Traced, Stored, Earlier, Copied, Running, EarlySteps, DeleteSteps, Released
    <2> QED BY <1>3, <2>2 DEF Traced
  <1> QED BY <1>3, <1>4, <1>5 DEF Reconcile, Traced

\* A call of the reconcile that leaves the objects alone.
LEMMA TracedQuiet ==
    ASSUME Traced, UNCHANGED <<api, cache, before>>,
           pc \notin {"Idle", "AddFinalizer", "Close"},
           pc' \notin {"Idle", "AddFinalizer"},
           mem'.finalizer = mem.finalizer \/ (pc \in DeleteSteps /\ pc' = "Close"),
           pc' \in EarlySteps => pc \in EarlySteps /\ mem'.label = mem.label,
           pc' \in DeleteSteps => pc \in DeleteSteps /\ mem' = mem,
           pc' = "CreateCluster" => ~(mem.label \in Cluster /\ Alive(mem.label))'
    PROVE  Traced'
  <1>1. Stored(api)' /\ Stored(cache)' /\ Earlier'
    BY DEF Traced, Stored, Earlier
  <1>2. api.exists => api.finalizer
    BY DEF Traced, Copied, Running
  <1>3. mem.finalizer
    BY DEF Traced, Copied, Running
  <1>4. Copied'
    BY <1>2, <1>3 DEF Traced, Stored, Copied, Running, Released
  <1> QED BY <1>1, <1>4 DEF Traced

\* The calls of reconcileNormal, whether they work, time out or fail.
LEMMA TracedCall ==
    ASSUME Typed, Traced,
           \/ CreateVpc \/ CreateSubnet \/ ShowCluster \/ CreateCluster \/ WaitActive
           \/ WaitTimesOut \/ ShowActive \/ ShowEndpoints \/ CreatePublicip \/ BindEip
           \/ ShowReady \/ Kubeconfig \/ CallFails \/ ReplyLost
    PROVE  Traced'
  <1>1. mem \in Object
    BY DEF Typed, TypeOK
  <1>2. CASE CreateVpc \/ CreateSubnet
    <2>1. /\ mem' \in Object /\ mem'.label = mem.label /\ mem'.finalizer = mem.finalizer
      BY <1>1, <1>2 DEF CreateVpc, CreateSubnet, Typed, Named, Object
    <2>2. /\ pc' \in {"CreateVpc", "CreateSubnet", "ShowCluster", "CreateCluster"}
          /\ pc' = "CreateCluster" => mem'.label = None
      BY <1>2, <2>1, NetworkStepNamed DEF CreateVpc, CreateSubnet, ClusterStep
    <2> QED BY <1>2, <2>1, <2>2, Environment, TracedQuiet
         DEF CreateVpc, CreateSubnet, object, EarlySteps, DeleteSteps
  <1>3. CASE ShowCluster
    <2>1. CASE Alive(mem.label)
      BY <1>1, <1>3, <2>1, TracedQuiet
         DEF ShowCluster, Observe, Object, object, EarlySteps, DeleteSteps
    <2>2. CASE ~Alive(mem.label)
      <3>1. UNCHANGED <<mem, phase>>
        BY <1>3, <2>2 DEF ShowCluster, cloud
      <3> QED BY <1>3, <2>2, <3>1, TracedQuiet
           DEF ShowCluster, object, EarlySteps, DeleteSteps, Alive
    <2> QED BY <2>1, <2>2
  <1>4. CASE ShowActive
    BY <1>1, <1>4, TracedQuiet
       DEF ShowActive, Observe, Object, object, EarlySteps, DeleteSteps
  <1>5. CASE CreateCluster \/ CreatePublicip \/ ShowReady \/ Kubeconfig
    <2>1. mem'.finalizer = mem.finalizer
      BY <1>1, <1>5 DEF CreateCluster, CreatePublicip, ShowReady, Kubeconfig, Object
    <2> QED BY <1>5, <2>1, TracedQuiet
         DEF CreateCluster, CreatePublicip, ShowReady, Kubeconfig, object, EarlySteps,
             DeleteSteps
  <1>6. CASE WaitActive \/ WaitTimesOut \/ ShowEndpoints \/ BindEip
    BY <1>6, TracedQuiet
       DEF WaitActive, WaitTimesOut, ShowEndpoints, BindEip, object, EarlySteps,
           DeleteSteps
  <1>7. CASE CallFails \/ ReplyLost
    BY <1>7, TracedQuiet DEF CallFails, ReplyLost, Calls, object, EarlySteps, DeleteSteps
  <1> QED BY <1>2, <1>3, <1>4, <1>5, <1>6, <1>7

LEMMA TracedDelete ==
    ASSUME Typed, Traced, Dependencies \/ ShowDeleting \/ DeleteCluster \/ WaitDeleted
    PROVE  Traced'
  BY TracedQuiet
     DEF Dependencies, ShowDeleting, DeleteCluster, WaitDeleted, RemoveFinalizer, object,
         EarlySteps, DeleteSteps

\* The stored object after a patch is a later state of it.
LEMMA EarlierPatched ==
    ASSUME Typed, Traced, NEW fault, NEW served, NEW failed,
           PatchObject(fault, served, failed),
           api.exists /\ ~api'.finalizer => ~api'.exists \/ ~api.finalizer,
           api'.exists /\ ~api'.finalizer => api'.label = None,
           UNCHANGED cache
    PROVE  Stored(api)' /\ Stored(cache)' /\ Earlier'
  <1>1. /\ api'.deleting = api.deleting
        /\ ~api.exists => api' = api
        /\ api'.exists => api.exists
        /\ api'.exists /\ api'.deleting => api'.finalizer
    BY PatchObjectFields DEF Typed, Traced
  <1> QED BY <1>1 DEF Traced, Stored, Earlier

LEMMA TracedPatch ==
    ASSUME Typed, Traced, AddFinalizer \/ SetStatus \/ SetActiveStatus \/ Close
    PROVE  Traced'
  <1> USE DEF Typed
  <1>1. CASE AddFinalizer
    <2>1. /\ PatchObject("callFails", NetworkStep(mem), "Close") /\ pc = "AddFinalizer"
          /\ UNCHANGED <<cache, before, mem, phase>> /\ mem \in Object
      BY <1>1 DEF AddFinalizer, cloud, TypeOK
    <2>2. /\ mem.finalizer /\ ~before.finalizer /\ mem.label = before.label
      BY <2>1 DEF Traced, Copied, Running, EarlySteps
    <2>3. /\ api'.deleting = api.deleting /\ api'.exists = api.exists
          /\ api.finalizer => api'.finalizer
          /\ ~api.exists => api' = api
          /\ api'.label = api.label
          /\ pc' \in {"Close", NetworkStep(mem)}
          /\ pc' # "Close" => api'.exists /\ api'.finalizer
      BY <2>1, <2>2, PatchObjectFields DEF Traced
    <2>4. /\ pc' \in {"Close", "CreateVpc", "CreateSubnet", "ShowCluster", "CreateCluster"}
          /\ pc' = "CreateCluster" => mem.label = None
      BY <2>1, <2>3, NetworkStepNamed
    <2>5. Stored(api)' /\ Stored(cache)' /\ Earlier'
      BY <2>1, <2>3, EarlierPatched DEF Traced, Stored
    <2>6. Copied'
      BY <2>1, <2>2, <2>3, <2>4, Environment
         DEF Traced, Stored, Copied, Running, EarlySteps, DeleteSteps, Released
    <2> QED BY <2>5, <2>6 DEF Traced
  <1>2. CASE SetStatus \/ SetActiveStatus
    <2>1. PICK served \in {"WaitActive", "Close", "ShowEndpoints", "ShowReady"} :
             PatchObject("callFails", served, "Close")
      BY <1>2 DEF SetStatus, SetActiveStatus, ReadyStep
    <2>2. pc \in {"SetStatus", "SetActiveStatus"} /\ UNCHANGED <<cache, before, mem, phase>>
      BY <1>2 DEF SetStatus, SetActiveStatus, cloud
    <2>3. mem.finalizer /\ (api.exists => api.finalizer)
      BY <2>2 DEF Traced, Copied, Running
    <2>4. /\ api'.deleting = api.deleting /\ api'.exists = api.exists
          /\ api.finalizer => api'.finalizer
          /\ ~api.exists => api' = api
          /\ pc' \in {"WaitActive", "Close", "ShowEndpoints", "ShowReady"}
      BY <2>1, <2>3, PatchObjectFields DEF Traced
    <2>5. Stored(api)' /\ Stored(cache)' /\ Earlier'
      BY <2>1, <2>2, <2>3, <2>4, EarlierPatched DEF Traced, Stored
    <2>6. Copied'
      BY <2>2, <2>3, <2>4
         DEF Traced, Stored, Copied, Running, EarlySteps, DeleteSteps, Released
    <2> QED BY <2>5, <2>6 DEF Traced
  <1>3. CASE Close
    <2>1. /\ PatchObject("closeFails", "Idle", "Idle") /\ pc = "Close" /\ Running
          /\ UNCHANGED cache
      BY <1>3 DEF Close, Running
    <2>2. pc' = "Idle"
      BY <2>1, PatchObjectFields DEF Traced
    <2>3. CASE mem.finalizer
      <3>1. /\ api'.exists = api.exists /\ (api.finalizer => api'.finalizer)
            /\ api'.label = api.label \/ api'.label = mem.label
        BY <2>1, <2>3, PatchObjectFields DEF Traced
      <3> QED BY <2>1, <2>2, <3>1, EarlierPatched DEF Traced, Stored, Copied, Running
    <2>4. CASE ~mem.finalizer
      <3>1. api.exists => api.deleting
        BY <2>1, <2>4 DEF Traced, Copied, Released
      <3>2. /\ api'.exists => api.exists
            /\ api'.deleting = api.deleting
            /\ api'.exists /\ api'.deleting => api'.finalizer
        BY <2>1, PatchObjectFields DEF Traced
      <3> QED BY <2>1, <2>2, <3>1, <3>2, EarlierPatched DEF Traced, Copied, Running
    <2> QED BY <2>3, <2>4
  <1> QED BY <1>1, <1>2, <1>3

\* A step of the cloud, or of those who look at it.
LEMMA TracedCloud ==
    ASSUME Traced, UNCHANGED <<object, worker>>,
           \A c \in Cluster : Alive(c)' => Alive(c)
    PROVE  Traced'
  BY DEF Traced, Stored, Earlier, Copied, Running, Released, object, worker

\* No step of the cloud alone brings a cluster to life, or back into service
\* when it is being deleted.
LEMMA ClustersOnlyGo ==
    ASSUME Typed,
           \/ ExternalDelete \/ DeletionFails \/ CloudProgress \/ PhaseDrift
           \/ PoolsChange \/ InfrastructureReady
    PROVE  /\ \A c \in Cluster : Alive(c)' => Alive(c)
           /\ UNCHANGED <<object, worker>>
           /\ \A c \in Cluster : phase[c] = "Deleting" /\ ~DeletionFails
                                    => phase'[c] \in {"Deleting", "Gone"}
  <1>1. CASE PhaseDrift
    <2>1. PICK c \in Cluster, p \in Phase :
             <<phase[c], p>> \in Drift /\ phase' = [phase EXCEPT ![c] = p]
      BY <1>1 DEF PhaseDrift
    <2>2. phase[c] \in Phase \ {"Deleting"}
      BY <2>1, DriftKeepsClusters
    <2> QED BY <1>1, <2>1, <2>2 DEF PhaseDrift, Typed, TypeOK, Alive
  <1>2. CASE PoolsChange \/ InfrastructureReady
    BY <1>2 DEF PoolsChange, InfrastructureReady, cloud, Alive
  <1>3. CASE ExternalDelete \/ DeletionFails \/ CloudProgress
    BY <1>3 DEF ExternalDelete, DeletionFails, CloudProgress, Typed, TypeOK, Alive, Phase,
                Known, Unexpected
  <1> QED BY <1>1, <1>2, <1>3

\* What a user's deletion does to the object.
LEMMA UserDeletesFields ==
    ASSUME Typed, UserDeletes
    PROVE  /\ api.exists /\ api'.label = api.label /\ api'.finalizer = api.finalizer
           /\ api'.exists = api.finalizer
           /\ api'.exists => api'.deleting
  <1>1. api \in Object /\ api.exists
    BY DEF UserDeletes, Typed, TypeOK
  <1>2. CASE api.finalizer
    BY <1>1, <1>2 DEF UserDeletes, Object
  <1>3. CASE ~api.finalizer
    BY <1>1, <1>3 DEF UserDeletes, Object
  <1> QED BY <1>1, <1>2, <1>3

LEMMA TracedRest ==
    ASSUME Typed, Traced, Crash \/ SyncCache \/ UserDeletes \/ UserEdits
    PROVE  Traced'
  <1>1. CASE Crash
    BY <1>1 DEF Crash, Traced, Stored, Earlier, Copied, Running
  <1>2. CASE SyncCache
    BY <1>2 DEF SyncCache, Traced, Stored, Earlier, Copied, Running, Released, worker,
                cloud, Alive
  <1>3. CASE UserDeletes
    BY <1>3, UserDeletesFields
       DEF UserDeletes, Traced, Stored, Earlier, Copied, Running, Released, worker, cloud,
           Alive
  <1>4. CASE UserEdits
    BY <1>4, UserEditsFields
       DEF UserEdits, Typed, Traced, Stored, Earlier, Copied, Running, Released, worker,
           cloud, Alive
  <1> QED BY <1>1, <1>2, <1>3, <1>4

LEMMA TracedNext == Typed /\ Traced /\ [Next]_vars => Traced'
  <1> SUFFICES ASSUME Typed, Traced, [Next]_vars PROVE Traced'
    OBVIOUS
  <1>1. CASE Worker
    BY <1>1, TracedReconcile, TracedPatch, TracedCall, TracedDelete DEF Worker
  <1>2. CASE Adversity \/ Environs
    BY <1>2, TracedCall, TracedRest, TracedCloud, ClustersOnlyGo DEF Adversity, Environs
  <1>3. CASE UNCHANGED vars
    BY <1>3, TracedCloud DEF vars, cloud, Alive
  <1> QED BY <1>1, <1>2, <1>3 DEF Next

----
(***************************************************************************)
(* The accounts: every live cluster is named, or put down to an incident.  *)
(***************************************************************************)

\* An incident pays for one cluster, or for a reconcile that goes astray ...
LEMMA AccountedIncident ==
    ASSUME Typed, Accounted, incidents' = incidents + 1, NEW x,
           \/ Lost' \subseteq Lost \cup {x} /\ (Strayed' => Strayed)
           \/ Lost' \subseteq Lost
    PROVE  Accounted'
  <1>1. incidents \in Nat
    BY DEF Typed, TypeOK
  <1> QED BY <1>1, IncidentPays DEF Accounted

\* ... every other step keeps the accounts as they are, but for the one that
\* takes a stray reconcile back and pays for the label it replaces.
LEMMA AccountedStep ==
    ASSUME Typed, Accounted, incidents' \in Nat, incidents' >= incidents,
           \/ Lost' \subseteq Lost /\ (Strayed' => Strayed)
           \/ \E x : Lost' \subseteq Lost \cup {x} /\ Strayed /\ ~Strayed'
    PROVE  Accounted'
  <1>1. incidents \in Nat /\ Balanced(Lost, Strayed, incidents)
    BY DEF Typed, TypeOK, Accounted
  <1>2. CASE Lost' \subseteq Lost /\ (Strayed' => Strayed)
    BY <1>1, <1>2, KeepsBalance DEF Accounted
  <1>3. CASE \E x : Lost' \subseteq Lost \cup {x} /\ Strayed /\ ~Strayed'
    <2>1. PICK x : Lost' \subseteq Lost \cup {x}
      BY <1>3
    <2>2. Strayed = TRUE /\ Strayed' = FALSE
      BY <1>3 DEF Strayed
    <2>3. Balanced(Lost, TRUE, incidents)
      BY <1>1, <2>2
    <2>4. Balanced(Lost', FALSE, incidents')
      BY <1>1, <2>1, <2>3, ReturnPays
    <2> QED BY <2>2, <2>4 DEF Accounted
  <1> QED BY <1>2, <1>3

\* The counter of incidents goes up, by one at most.
LEMMA FaultCounts ==
    ASSUME TypeOK, NEW kind, Fault(kind) \/ NoFault
    PROVE  /\ incidents' \in Nat /\ incidents' >= incidents
           /\ incidents' = incidents \/ incidents' = incidents + 1
           /\ Fault(kind) => (incidents' = incidents + 1 <=> kind \in Losing)
  BY DEF TypeOK, Fault, NoFault, counters

LEMMA PatchCounts ==
    ASSUME TypeOK, NEW fault, NEW served, NEW failed,
           PatchObject(fault, served, failed)
    PROVE  /\ incidents' \in Nat /\ incidents' >= incidents
           /\ incidents' = incidents \/ incidents' = incidents + 1
  BY FaultCounts DEF PatchObject

\* A step that leaves the object and the label alone, brings no cluster to life
\* and gives up no live one.
LEMMA AccountedQuiet ==
    ASSUME Typed, Accounted, UNCHANGED <<api, before>>, mem'.label = mem.label,
           incidents' \in Nat, incidents' >= incidents,
           Running' <=> Running,
           \A c \in Cluster : Alive(c)' => Alive(c),
           Doomed' => Doomed \/ mem.label \notin Cluster \/ ~Alive(mem.label)',
           pc \in {"AddFinalizer", "Close"} => pc' \in {"AddFinalizer", "Close"}
    PROVE  Accounted'
  <1>1. Strayed' => Strayed
    BY DEF Strayed, Fresh
  <1>2. ASSUME NEW c \in Cluster, Alive(c)', Credited(c) PROVE Credited(c)'
    <2>1. CASE Running /\ ~Doomed /\ mem.label = c
      BY <1>2, <2>1 DEF Credited, Alive
    <2>2. CASE (~Running \/ Strayed) /\ api.exists /\ api.label = c
      BY <2>2 DEF Credited, Strayed, Fresh
    <2> QED BY <1>2, <2>1, <2>2 DEF Credited
  <1>3. Lost' \subseteq Lost
    BY <1>2 DEF Lost, Live
  <1> QED BY <1>1, <1>3, AccountedStep

LEMMA AccountedInit == Init => Accounted
  <1> SUFFICES ASSUME Init PROVE Accounted
    OBVIOUS
  <1>1. Live = {}
    BY DEF Init, Live, Alive, Phase, Known, Unexpected
  <1>2. Lost = {} /\ Strayed = FALSE /\ incidents = 0
    BY <1>1 DEF Init, Lost, Strayed, Running
  <1> QED BY <1>2, BalancedEmpty DEF Accounted

\* A reconcile that starts from the stored object names what the object names;
\* one that starts from another copy is an incident.
LEMMA AccountedReconcile ==
    ASSUME Typed, Traced, Accounted, Reconcile
    PROVE  Accounted'
  <1>1. /\ ~Running /\ cache.exists /\ cache \in Object
        /\ UNCHANGED <<api, phase>> /\ before' = cache
    BY DEF Reconcile, Running, object, cloud, Typed, TypeOK
  <1>2. mem'.label = cache.label /\ (~cache.deleting => mem'.finalizer)
    BY DEF Reconcile, Typed, TypeOK, Object
  <1>3. Running' /\ ~Doomed'
    BY <1>1, NetworkStepNamed DEF Reconcile, Running, Doomed, Released
  <1>4. ASSUME NEW c \in Cluster, Credited(c), Fresh' => api.label = cache.label
        PROVE  Credited(c)'
    BY <1>1, <1>2, <1>3, <1>4 DEF Credited, Strayed
  <1>5. api.exists /\ Fresh' => api.label = cache.label
    BY <1>1, <1>2 DEF Fresh
  <1>6. Lost' \subseteq Lost
    BY <1>1, <1>4, <1>5 DEF Lost, Live, Alive, Credited
  <1>7. CASE cache = api
    <2>1. ~Strayed' /\ incidents' = incidents
      BY <1>1, <1>7 DEF Strayed, Fresh, Reconcile, NoFault, counters
    <2> QED BY <1>6, <2>1, AccountedStep DEF Typed, TypeOK
  <1>8. CASE cache # api
    <2>1. incidents' = incidents + 1
      BY <1>8 DEF Reconcile, Fault, Losing
    <2> QED BY <1>6, <2>1, AccountedIncident
  <1> QED BY <1>7, <1>8

\* A patch in the middle of a reconcile may replace the stored label by the
\* one of the copy, which takes a stray reconcile back.
LEMMA AccountedPatch ==
    ASSUME Typed, Traced, Accounted, AddFinalizer \/ SetStatus \/ SetActiveStatus
    PROVE  Accounted'
  <1> USE DEF Typed
  <1> DEFINE Next1 == {"CreateVpc", "CreateSubnet", "ShowCluster", "CreateCluster",
                       "WaitActive", "ShowEndpoints", "ShowReady", "Close"}
  <1>1. PICK served \in Next1 : PatchObject("callFails", served, "Close")
    <2>1. mem \in Object
      BY DEF TypeOK
    <2>2. NetworkStep(mem) \in Next1 /\ ReadyStep \in Next1
      BY <2>1, NetworkStepNamed DEF ReadyStep
    <2> QED BY <2>2 DEF AddFinalizer, SetStatus, SetActiveStatus
  <1>2. /\ pc \in {"AddFinalizer", "SetStatus", "SetActiveStatus"}
        /\ UNCHANGED <<before, mem, phase>>
    BY DEF AddFinalizer, SetStatus, SetActiveStatus, cloud
  <1>3. mem.finalizer /\ (pc = "AddFinalizer" => ~before.finalizer)
    BY <1>2 DEF Traced, Copied, Running
  <1>4. /\ api'.exists = api.exists
        /\ ~api.exists => api' = api
        /\ api'.label = api.label \/ api'.label = mem.label
        /\ pc' \in Next1
        /\ pc = "AddFinalizer" /\ pc' # "Close" => api'.exists
    BY <1>1, <1>3, PatchObjectFields DEF Traced
  <1>5. incidents' \in Nat /\ incidents' >= incidents
    BY <1>1, PatchCounts
  <1>6. Running /\ Running' /\ ~Doomed /\ ~Doomed'
    BY <1>2, <1>3, <1>4 DEF Running, Doomed, Released
  <1>7. Strayed' => Strayed
    BY <1>2, <1>4, <1>6 DEF Strayed, Fresh
  <1>8. ASSUME NEW c \in Cluster, Credited(c), ~Credited(c)'
        PROVE  Strayed /\ ~Strayed' /\ c = api.label
    <2>1. Strayed /\ api.exists /\ api.label = c
      BY <1>2, <1>6, <1>8 DEF Credited
    <2>2. ~(Strayed' /\ api'.label = api.label)
      BY <1>4, <1>8, <2>1 DEF Credited
    <2>3. ~Strayed'
      BY <1>2, <1>4, <1>6, <2>1, <2>2 DEF Strayed, Fresh
    <2> QED BY <2>1, <2>3
  <1>9. \/ Lost' \subseteq Lost
        \/ Lost' \subseteq Lost \cup {api.label} /\ Strayed /\ ~Strayed'
    BY <1>2, <1>8 DEF Lost, Live, Alive
  <1> QED BY <1>5, <1>7, <1>9, AccountedStep

\* A cluster is made only when the copy names none that is alive.
LEMMA AccountedCreate ==
    ASSUME Typed, Traced, Accounted, CreateCluster
    PROVE  Accounted'
  <1> USE DEF Typed
  <1>1. PICK c \in Cluster :
           /\ phase' = [phase EXCEPT ![c] = "Creating"]
           /\ mem' = [mem EXCEPT !.label = c, !.ready = FALSE]
    BY DEF CreateCluster
  <1>2. mem'.label = c /\ mem'.finalizer = mem.finalizer
    BY <1>1 DEF TypeOK, Object
  <1>3. /\ Running /\ Running' /\ ~Doomed' /\ mem.label = before.label
        /\ ~(mem.label \in Cluster /\ Alive(mem.label))
        /\ UNCHANGED <<api, before, incidents>> /\ pc = "CreateCluster"
    BY <1>2 DEF CreateCluster, Traced, Copied, Running, EarlySteps, Doomed, Released,
                object, counters
  <1>4. \A d \in Cluster : Alive(d)' => Alive(d) \/ d = c
    BY <1>1 DEF TypeOK, Alive
  <1>5. Strayed' => Strayed
    BY <1>2, <1>3 DEF Strayed, Fresh
  <1>6. ASSUME NEW d \in Cluster, Alive(d)', ~Credited(d)' PROVE Alive(d) /\ ~Credited(d)
    <2>1. d # c /\ Alive(d)
      BY <1>2, <1>3, <1>4, <1>6 DEF Credited
    <2>2. ~(Strayed /\ api.exists /\ api.label = d)
      BY <1>2, <1>3, <1>6, <2>1 DEF Credited, Strayed, Fresh
    <2> QED BY <1>3, <2>1, <2>2 DEF Credited
  <1>7. Lost' \subseteq Lost
    BY <1>6 DEF Lost, Live
  <1> QED BY <1>3, <1>5, <1>7, AccountedStep DEF TypeOK

\* The other calls, whether they work, time out or fail: the finalizer is dropped
\* from the copy when no cluster is left that it names.
LEMMA AccountedCall ==
    ASSUME Typed, Traced, Accounted,
           \/ CreateVpc \/ CreateSubnet \/ ShowCluster \/ WaitActive \/ WaitTimesOut
           \/ ShowActive \/ ShowEndpoints \/ CreatePublicip \/ BindEip \/ ShowReady
           \/ Kubeconfig \/ Dependencies \/ ShowDeleting \/ DeleteCluster
           \/ WaitDeleted \/ CallFails
    PROVE  Accounted'
  <1> USE DEF Typed
  <1> DEFINE Cloudy == CreateVpc \/ CreateSubnet \/ CreatePublicip \/ BindEip
             Looking == \/ ShowCluster \/ ShowActive \/ WaitActive \/ WaitTimesOut
                        \/ ShowEndpoints \/ ShowReady \/ Kubeconfig \/ CallFails
             Deleting == Dependencies \/ ShowDeleting \/ WaitDeleted \/ DeleteCluster
  <1>1. /\ UNCHANGED <<api, before>>
        /\ pc \notin {"Idle", "AddFinalizer", "Close"} /\ pc' # "Idle"
    <2>1. CASE Cloudy
      <3>1. CreateVpc => mem' \in Object
        BY DEF CreateVpc, TypeOK, Object
      <3> QED BY <2>1, <3>1, NetworkStepNamed
           DEF CreateVpc, CreateSubnet, CreatePublicip, BindEip, ClusterStep, object
    <2>2. CASE Looking \/ Deleting
      BY <2>2 DEF ShowCluster, WaitActive, WaitTimesOut, ShowActive, ShowEndpoints,
                  ShowReady, Kubeconfig, Dependencies, ShowDeleting, DeleteCluster,
                  WaitDeleted, RemoveFinalizer, CallFails, Observe, Calls, object
    <2> QED BY <2>1, <2>2
  <1>2. incidents' = incidents /\ incidents \in Nat
    <2>1. CASE Cloudy
      BY <2>1 DEF CreateVpc, CreateSubnet, CreatePublicip, BindEip, counters, TypeOK
    <2>2. CASE Looking
      BY <2>2 DEF ShowCluster, ShowActive, WaitActive, WaitTimesOut, ShowEndpoints,
                  ShowReady, Kubeconfig, CallFails, Fault, Losing, counters, TypeOK
    <2>3. CASE Deleting
      BY <2>3 DEF Dependencies, ShowDeleting, WaitDeleted, DeleteCluster, counters, TypeOK
    <2> QED BY <2>1, <2>2, <2>3
  <1>3. mem.finalizer
    BY <1>1 DEF Traced, Copied, Running
  <1>4. mem'.label = mem.label /\ (~Deleting => mem'.finalizer)
    <2>1. mem \in Object
      BY DEF TypeOK
    <2>2. CASE Cloudy
      BY <1>3, <2>1, <2>2 DEF CreateVpc, CreateSubnet, CreatePublicip, BindEip, Object
    <2>3. CASE Looking
      BY <1>3, <2>1, <2>3
         DEF ShowCluster, ShowActive, Observe, WaitActive, WaitTimesOut, ShowEndpoints,
             ShowReady, Kubeconfig, CallFails, Object
    <2>4. CASE Deleting
      BY <2>1, <2>4 DEF Dependencies, ShowDeleting, WaitDeleted, DeleteCluster,
                        RemoveFinalizer, Object
    <2> QED BY <2>2, <2>3, <2>4
  <1>5. \A c \in Cluster : Alive(c)' => Alive(c)
    <2>1. CASE DeleteCluster
      BY <2>1 DEF DeleteCluster, Alive, TypeOK
    <2>2. CASE Cloudy
      BY <2>2 DEF CreateVpc, CreateSubnet, CreatePublicip, BindEip, Alive
    <2>3. CASE Looking \/ Dependencies \/ ShowDeleting \/ WaitDeleted
      <3>1. UNCHANGED cloud
        BY <2>3 DEF ShowCluster, ShowActive, WaitActive, WaitTimesOut, ShowEndpoints,
                    ShowReady, Kubeconfig, CallFails, Dependencies, ShowDeleting,
                    WaitDeleted
      <3> QED BY <3>1 DEF cloud, Alive
    <2> QED BY <2>1, <2>2, <2>3
  <1>6. Doomed' => Doomed \/ mem.label \notin Cluster \/ ~Alive(mem.label)'
    <2>1. CASE ~Deleting
      <3>1. pc' # "WaitDeleted"
        <4>1. CASE Cloudy
          <5>1. CreateVpc => mem' \in Object
            BY DEF CreateVpc, TypeOK, Object
          <5> QED BY <4>1, <5>1, NetworkStepNamed
               DEF CreateVpc, CreateSubnet, CreatePublicip, BindEip, ClusterStep
        <4>2. CASE Looking
          BY <4>2 DEF ShowCluster, ShowActive, Observe, WaitActive, WaitTimesOut,
                      ShowEndpoints, ShowReady, Kubeconfig, CallFails
        <4> QED BY <2>1, <4>1, <4>2
      <3> QED BY <1>4, <2>1, <3>1 DEF Doomed, Released
    <2>2. CASE Dependencies \/ ShowDeleting \/ WaitDeleted
      <3>1. UNCHANGED phase
        BY <2>2 DEF Dependencies, ShowDeleting, WaitDeleted, cloud
      <3>2. CASE WaitDeleted
        BY <3>2 DEF WaitDeleted, Doomed
      <3>3. CASE ShowDeleting \/ Dependencies
        <4>1. CASE Alive(mem.label) /\ mem.label # None
          <5>1. mem' = mem /\ pc' \in {"Close", "ShowDeleting", "DeleteCluster"}
            BY <3>3, <4>1 DEF ShowDeleting, Dependencies
          <5> QED BY <1>3, <5>1 DEF Doomed, Released
        <4>2. CASE mem.label = None
          BY <4>2, Environment
        <4>3. CASE ~Alive(mem.label)
          BY <1>4, <3>1, <4>3 DEF Alive
        <4> QED BY <4>1, <4>2, <4>3
      <3> QED BY <2>2, <3>2, <3>3
    <2>3. CASE DeleteCluster
      <3>1. CASE Alive(mem.label)
        BY <2>3, <3>1 DEF DeleteCluster, Doomed, Released, TypeOK
      <3>2. CASE ~Alive(mem.label)
        BY <1>4, <2>3, <3>2 DEF DeleteCluster, RemoveFinalizer, Alive
      <3> QED BY <3>1, <3>2
    <2> QED BY <2>1, <2>2, <2>3
  <1> QED BY <1>1, <1>2, <1>4, <1>5, <1>6, AccountedQuiet DEF Running

\* The last patch: the object is left with the label of the copy, with its own
\* (which the reconcile knew, or had an incident for), or with none.
LEMMA AccountedClose ==
    ASSUME Typed, Traced, Accounted, Close
    PROVE  Accounted'
  <1> USE DEF Typed
  <1>1. /\ Running /\ ~Running' /\ UNCHANGED phase /\ pc = "Close"
        /\ PatchObject("closeFails", "Idle", "Idle")
    BY DEF Close, PatchObject, Running, cloud
  <1>2. /\ incidents' \in Nat /\ incidents' >= incidents
        /\ incidents' = incidents \/ incidents' = incidents + 1
    BY <1>1, PatchCounts
  <1>3. /\ ~api.exists => api' = api
        /\ api'.exists => api.exists
        /\ api'.label = api.label \/ api'.label = mem.label
        /\ mem.finalizer => api'.exists = api.exists
    BY <1>1, PatchObjectFields DEF Traced
  <1>4. ~Strayed'
    BY <1>1 DEF Strayed
  <1>5. \E x : Lost' \subseteq Lost \cup {x}
    <2> DEFINE x == IF ~api.exists \/ (api'.exists /\ api'.label = api.label)
                    THEN mem.label ELSE api.label
    <2>1. ASSUME NEW c \in Cluster, Credited(c), ~Credited(c)' PROVE c = x
      BY <1>1, <1>3, <2>1 DEF Credited, Doomed, Released
    <2> QED BY <1>1, <2>1 DEF Lost, Live, Alive
  <1>6. CASE Strayed
    BY <1>2, <1>4, <1>5, <1>6, AccountedStep
  <1>7. CASE incidents' = incidents + 1
    BY <1>4, <1>5, <1>7, AccountedIncident
  <1>8. CASE ~Strayed /\ incidents' = incidents
    <2>1. CASE ~api.exists
      <3>1. ASSUME NEW c \in Cluster PROVE ~Credited(c)
        BY <1>1, <1>8, <2>1, <3>1, Environment DEF Credited, Strayed, Fresh
      <3> QED BY <1>1, <1>2, <1>4, <3>1, AccountedStep DEF Lost, Live, Alive
    <2>2. CASE api.exists /\ mem.finalizer
      <3>1. api' = Persisted(TRUE, TRUE)
        <4>1. ~Fault("closeFails")
          BY <1>8 DEF Fault, Losing, TypeOK
        <4> QED BY <1>1, <2>2, <4>1 DEF PatchObject
      <3>2. api'.exists /\ api'.label = mem.label
        BY <1>1, <1>3, <1>8, <2>2, <3>1, PersistedFields DEF Strayed, Fresh
      <3>3. ASSUME NEW c \in Cluster, Credited(c) PROVE Credited(c)'
        BY <1>1, <1>8, <3>2, <3>3 DEF Credited
      <3> QED BY <1>1, <1>2, <1>4, <3>3, AccountedStep DEF Lost, Live, Alive
    <2>3. CASE ~mem.finalizer
      <3>1. ASSUME NEW c \in Cluster PROVE ~Credited(c)
        BY <1>1, <1>8, <2>3 DEF Credited, Doomed, Released
      <3> QED BY <1>1, <1>2, <1>4, <3>1, AccountedStep DEF Lost, Live, Alive
    <2> QED BY <2>1, <2>2, <2>3
  <1> QED BY <1>2, <1>6, <1>7, <1>8

\* A crash gives up the copy, and with it the cluster that only the copy names.
LEMMA AccountedCrash ==
    ASSUME Typed, Accounted, Crash
    PROVE  Accounted'
  <1>1. /\ Running /\ ~Running' /\ UNCHANGED <<api, phase>>
        /\ incidents' = incidents + 1
    BY DEF Crash, Running, Fault, Losing, cloud
  <1>2. ASSUME NEW c \in Cluster, Credited(c), ~Credited(c)' PROVE c = mem.label
    BY <1>1, <1>2 DEF Credited
  <1>3. Lost' \subseteq Lost \cup {mem.label} /\ ~Strayed'
    BY <1>1, <1>2 DEF Lost, Live, Alive, Strayed
  <1> QED BY <1>1, <1>3, AccountedIncident

\* An answer that was lost leaves one cluster that nobody knows of.
LEMMA AccountedReplyLost ==
    ASSUME Typed, Traced, Accounted, ReplyLost
    PROVE  Accounted'
  <1> USE DEF Typed
  <1>1. /\ incidents' = incidents + 1 /\ Running /\ Running'
        /\ UNCHANGED <<api, before, mem>>
        /\ pc' = "Close" /\ pc \notin {"AddFinalizer", "Close"}
    BY DEF ReplyLost, Fault, Losing, Running, object
  <1>2. ~Doomed'
    BY <1>1 DEF Doomed, Released, Traced, Copied, Running
  <1>3. \E x : \A d \in Cluster : Alive(d)' => Alive(d) \/ d = x
    <2>1. CASE \E c \in Cluster : phase' = [phase EXCEPT ![c] = "Creating"]
      BY <2>1 DEF TypeOK, Alive
    <2>2. CASE Alive(mem.label) /\ phase' = [phase EXCEPT ![mem.label] = "Deleting"]
      BY <2>2 DEF TypeOK, Alive
    <2>3. CASE UNCHANGED phase
      BY <2>3 DEF Alive
    <2> QED BY <2>1, <2>2, <2>3 DEF ReplyLost, cloud
  <1>4. PICK x : \A d \in Cluster : Alive(d)' => Alive(d) \/ d = x
    BY <1>3
  <1>5. Strayed' => Strayed
    BY <1>1 DEF Strayed, Fresh
  <1>6. ASSUME NEW d \in Cluster, Credited(d) PROVE Credited(d)'
    BY <1>1, <1>2, <1>6 DEF Credited, Strayed, Fresh
  <1>7. Lost' \subseteq Lost \cup {x}
    BY <1>4, <1>6 DEF Lost, Live
  <1> QED BY <1>1, <1>5, <1>7, AccountedIncident

\* The cloud's own steps leave the accounts alone: CCE ends a deletion with the
\* cluster gone, unless it gives it up, which is an incident.
LEMMA AccountedCloud ==
    ASSUME Typed, Accounted,
           \/ ExternalDelete \/ DeletionFails \/ CloudProgress \/ PhaseDrift
           \/ PoolsChange \/ InfrastructureReady
    PROVE  Accounted'
  <1> USE DEF Typed
  <1>1. /\ \A c \in Cluster : Alive(c)' => Alive(c)
        /\ UNCHANGED <<object, worker>>
        /\ \A c \in Cluster : phase[c] = "Deleting" /\ ~DeletionFails
                                 => phase'[c] \in {"Deleting", "Gone"}
    BY ClustersOnlyGo
  <1>2. UNCHANGED <<api, before, mem, pc>>
    BY <1>1 DEF object, worker
  <1>3. incidents' \in Nat /\ incidents' >= incidents
    BY FaultCounts
       DEF ExternalDelete, DeletionFails, CloudProgress, PhaseDrift, PoolsChange,
           InfrastructureReady, counters, TypeOK, NoFault
  <1>4. CASE DeletionFails
    <2>1. incidents' = incidents + 1
      BY <1>4 DEF DeletionFails, Fault, Losing
    <2>2. Strayed' <=> Strayed
      BY <1>2 DEF Strayed, Fresh, Running
    <2>3. ASSUME NEW c \in Cluster, Credited(c), ~Credited(c)' PROVE c = mem.label
      BY <1>2, <2>2, <2>3 DEF Credited, Running
    <2>4. Lost' \subseteq Lost \cup {mem.label}
      BY <1>1, <2>3 DEF Lost, Live
    <2> QED BY <2>1, <2>2, <2>4, AccountedIncident
  <1>5. CASE ~DeletionFails
    <2>1. mem.label \in Cluster /\ phase[mem.label] = "Deleting"
                /\ phase'[mem.label] # "Deleting" => ~Alive(mem.label)'
      BY <1>1, <1>2, <1>5 DEF Alive, Phase, Known, Unexpected
    <2>2. Doomed' => Doomed \/ mem.label \notin Cluster \/ ~Alive(mem.label)'
      BY <1>2, <2>1 DEF Doomed, Released
    <2> QED BY <1>1, <1>2, <1>3, <2>2, AccountedQuiet DEF Running
  <1> QED BY <1>4, <1>5

\* A user's deletion takes the object away only if it has no label.
LEMMA AccountedUser ==
    ASSUME Typed, Traced, Accounted, SyncCache \/ UserDeletes \/ UserEdits
    PROVE  Accounted'
  <1> USE DEF Typed
  <1>1. UNCHANGED <<before, mem, pc, phase>> /\ incidents' = incidents /\ incidents \in Nat
    BY DEF SyncCache, UserDeletes, UserEdits, worker, cloud, counters, TypeOK
  <1>2. \/ api' = api
        \/ /\ api.exists /\ api'.label = api.label
           /\ api'.exists \/ (api.label = None /\ (Running => /\ mem.label = None
                                                         /\ pc \in {"AddFinalizer", "Close"}))
    <2>1. CASE SyncCache
      BY <2>1 DEF SyncCache
    <2>2. CASE UserDeletes
      BY <2>2, UserDeletesFields DEF Traced, Stored, Copied
    <2>3. CASE UserEdits
      BY <2>3, UserEditsFields
    <2> QED BY <2>1, <2>2, <2>3
  <1>3. Strayed' => Strayed
    BY <1>1, <1>2 DEF Strayed, Fresh, Running
  <1>4. ASSUME NEW c \in Cluster, Credited(c) PROVE Credited(c)'
    BY <1>1, <1>2, <1>4, Environment DEF Credited, Strayed, Fresh, Running, Doomed, Released
  <1>5. Lost' \subseteq Lost
    BY <1>1, <1>4 DEF Lost, Live, Alive
  <1> QED BY <1>1, <1>3, <1>5, AccountedStep

LEMMA AccountedNext == Typed /\ Traced /\ Accounted /\ [Next]_vars => Accounted'
  <1> SUFFICES ASSUME Typed, Traced, Accounted, [Next]_vars PROVE Accounted'
    OBVIOUS
  <1>1. CASE Worker
    BY <1>1, AccountedReconcile, AccountedPatch, AccountedCreate, AccountedCall,
       AccountedClose DEF Worker
  <1>2. CASE Adversity
    BY <1>2, AccountedCall, AccountedReplyLost, AccountedCrash, AccountedCloud
       DEF Adversity
  <1>3. CASE Environs
    BY <1>3, AccountedCloud, AccountedUser DEF Environs
  <1>4. CASE UNCHANGED vars
    <2>1. /\ UNCHANGED <<api, before, mem, pc, phase>>
          /\ incidents' = incidents /\ incidents \in Nat
      BY <1>4 DEF vars, object, worker, cloud, counters, Typed, TypeOK
    <2>2. Doomed' <=> Doomed
      BY <2>1 DEF Doomed, Released
    <2> QED BY <2>1, <2>2, AccountedQuiet DEF Alive, Running
  <1> QED BY <1>1, <1>2, <1>3, <1>4 DEF Next

----
(***************************************************************************)
(* The theorems.                                                           *)
(***************************************************************************)

\* Through every order of calls, faults, restarts and stale reads, each live
\* cluster is named by the copy that counts or put down to an incident of its own.
THEOREM Invariance == Spec => []IInv
  <1>1. Init => IInv
    BY TypedInit, TracedInit, AccountedInit DEF IInv
  <1>2. IInv /\ [Next]_vars => IInv'
    BY TypedNext, TracedNext, AccountedNext DEF IInv
  <1> QED BY <1>1, <1>2, PTL DEF Spec

\* Without incidents every live cluster is named where the next step looks for it.
LEMMA NothingLost ==
    ASSUME IInv, incidents = 0
    PROVE  Lost = {} /\ ~Strayed
  <1>1. Balanced(Lost, Strayed, 0)
    BY DEF IInv, Accounted
  <1>2. Strayed \in BOOLEAN
    BY DEF Strayed
  <1> QED BY <1>1, <1>2, BalancedClean

\* createCluster never makes a second cluster, nor one the controller cannot
\* name, as long as no incident separates it from what it has created: whatever
\* calls and patches fail, whatever CCE does with the phase, whoever deletes what.
THEOREM ClusterOwnership == Spec => []ClusterOwned
  <1>1. IInv => ClusterOwned
    <2> SUFFICES ASSUME IInv, incidents = 0,
                        NEW c \in Cluster, NEW d \in Cluster, Alive(c), Alive(d)
                 PROVE  c = d /\ Held(c)
      BY DEF ClusterOwned
    <2>1. Credited(c) /\ Credited(d) /\ ~Strayed
      BY NothingLost DEF Lost, Live
    <2> QED BY <2>1 DEF Credited, Running, Held
  <1> QED BY <1>1, Invariance, PTL

\* Each crash, lost answer, failed Close, stale read or abandoned deletion makes
\* the reconciler lose one cluster at most, in whatever order they come.
THEOREM ClusterLeaks == Spec => []ClusterLeakBound
  <1>1. IInv => ClusterLeakBound
    <2> SUFFICES ASSUME IInv
                 PROVE  Cardinality({c \in Cluster : Alive(c) /\ ~Held(c)}) <= incidents
      BY DEF ClusterLeakBound
    <2> DEFINE Leaked == {c \in Cluster : Alive(c) /\ ~Held(c)}
    <2>1. Leaked \subseteq Lost
      BY DEF Lost, Live, Credited, Held, Running
    <2>2. Balanced(Lost, Strayed, incidents) /\ incidents \in Nat
      BY DEF IInv, Accounted, Typed, TypeOK
    <2> HIDE DEF Leaked
    <2>3. Cardinality(Leaked) <= incidents
      BY <2>1, <2>2, BalancedBounds
    <2> QED BY <2>3 DEF Leaked
  <1> QED BY <1>1, Invariance, PTL

\* No call that creates something is made for an object whose finalizer is not
\* stored: a deletion cannot slip past the controller.
THEOREM FinalizerPrecedence == Spec => []FinalizerFirst
  <1>1. IInv => FinalizerFirst
    <2> SUFFICES ASSUME IInv, incidents = 0,
                        pc \in {"CreateVpc", "CreateSubnet", "CreateCluster",
                                "CreatePublicip", "BindEip"}
                 PROVE  api.exists /\ api.finalizer
      BY DEF FinalizerFirst
    <2>1. api.exists
      BY NothingLost DEF Strayed, Running, Fresh
    <2> QED BY <2>1 DEF IInv, Traced, Copied, Running
  <1> QED BY <1>1, Invariance, PTL

----
(***************************************************************************)
(* The reconciler implements Ownership.                                    *)
(***************************************************************************)

Guarded == api.exists /\ api.finalizer

\* The instance counts as this module does.
LEMMA SameCardinality == \A S : Clusters!Cardinality(S) = Cardinality(S)
  BY DEF Clusters!Cardinality, Cardinality

\* When the copy names no live cluster that it will not give up, every live
\* cluster is put down to an incident.
LEMMA ClearedWhen ==
    ASSUME IInv, Running, \A c \in Cluster : Alive(c) /\ mem.label = c => Doomed
    PROVE  Clusters!Cleared
  <1>1. Balanced(Lost, Strayed, incidents) /\ incidents \in Nat
    BY DEF IInv, Accounted, Typed, TypeOK
  <1>2. Live \subseteq Lost \/ (Strayed /\ Live \subseteq Lost \cup {api.label})
    BY DEF Lost, Live, Credited
  <1>3. Cardinality(Live) <= incidents
    BY <1>1, <1>2, BalancedBounds
  <1> QED BY <1>3, SameCardinality DEF Live, Clusters!Cleared

\* A step that makes no cluster and takes none: it stores the finalizer, drops
\* it when nothing is left to clean up, or leaves it.
LEMMA OwnsQuiet ==
    ASSUME Typed, Live' = Live, incidents' = incidents \/ incidents' = incidents + 1,
           Guarded /\ ~Guarded' => Clusters!Cleared
    PROVE  [Clusters!Next]_Clusters!vars
  <1>1. Guarded \in BOOLEAN /\ Guarded' \in BOOLEAN
    BY DEF Guarded
  <1>2. CASE incidents' = incidents + 1
    BY <1>1, <1>2 DEF Live, Guarded, Clusters!Next, Clusters!Incident
  <1>3. CASE incidents' = incidents
    <2>1. CASE Guarded' = Guarded
      BY <1>3, <2>1 DEF Live, Guarded, Clusters!vars
    <2>2. CASE ~Guarded /\ Guarded'
      BY <1>1, <1>3, <2>2 DEF Live, Guarded, Clusters!Next, Clusters!Guard
    <2>3. CASE Guarded /\ ~Guarded'
      BY <1>1, <1>3, <2>3 DEF Live, Guarded, Clusters!Next, Clusters!Release
    <2> QED BY <1>1, <2>1, <2>2, <2>3
  <1> QED BY <1>2, <1>3

LEMMA OwnsPatch ==
    ASSUME IInv, AddFinalizer \/ SetStatus \/ SetActiveStatus \/ Close
    PROVE  [Clusters!Next]_Clusters!vars
  <1> USE DEF IInv, Typed
  <1>1. \E fault, served, failed : PatchObject(fault, served, failed)
    BY DEF AddFinalizer, SetStatus, SetActiveStatus, Close
  <1>2. UNCHANGED phase /\ Running
    BY DEF AddFinalizer, SetStatus, SetActiveStatus, Close, Running, cloud
  <1>3. incidents' = incidents \/ incidents' = incidents + 1
    BY <1>1, PatchCounts
  <1>4. CASE mem.finalizer
    BY <1>1, <1>2, <1>3, <1>4, PatchObjectFields, OwnsQuiet
       DEF Traced, Guarded, Live, Alive
  <1>5. CASE ~mem.finalizer
    <2>1. Doomed
      BY <1>2, <1>5 DEF Traced, Copied, Doomed, Released
    <2> QED BY <1>2, <1>3, <2>1, ClearedWhen, OwnsQuiet DEF Live, Alive
  <1> QED BY <1>4, <1>5

\* A cluster is made when the one that the copy names is gone.
LEMMA OwnsCreate ==
    ASSUME IInv, pc = "CreateCluster", NEW c \in Cluster, ~Alive(c),
           phase' = [phase EXCEPT ![c] = "Creating"], api' = api,
           incidents' = incidents \/ incidents' = incidents + 1
    PROVE  [Clusters!Next]_Clusters!vars
  <1>1. Live' = Live \cup {c} /\ c \in Live' \ Live
    BY DEF IInv, Typed, TypeOK, Live, Alive, Phase, Known
  <1>2. Clusters!OneMore
    BY <1>1 DEF Live, Clusters!OneMore
  <1>3. Clusters!Cleared
    BY ClearedWhen DEF IInv, Traced, Copied, Running
  <1>4. incidents = 0 => Guarded
    <2> SUFFICES ASSUME incidents = 0 PROVE Guarded
      OBVIOUS
    <2>1. api.exists
      BY NothingLost DEF Strayed, Running, Fresh
    <2> QED BY <2>1 DEF IInv, Traced, Copied, Running, Guarded
  <1>5. Guarded' = Guarded
    BY DEF Guarded
  <1>6. CASE incidents' = incidents
    <2>1. Guarded \/ incidents > 0
      BY <1>4 DEF IInv, Typed, TypeOK
    <2> QED BY <1>2, <1>3, <1>5, <1>6, <2>1 DEF Guarded, Clusters!Next, Clusters!Create
  <1>7. CASE incidents' = incidents + 1
    BY <1>2, <1>3, <1>5, <1>7 DEF Guarded, Clusters!Next, Clusters!Incident
  <1> QED BY <1>6, <1>7

\* Everything else makes no cluster and leaves the finalizer alone.
LEMMA OwnsRest ==
    ASSUME IInv, api' = api, \A c \in Cluster : Alive(c)' => Alive(c),
           \/ incidents' = incidents
           \/ incidents' = incidents + 1 /\ Live' = Live
    PROVE  [Clusters!Next]_Clusters!vars
  <1>1. Guarded' = Guarded /\ Live' \subseteq Live
    BY DEF Guarded, Live
  <1>2. CASE Live' = Live
    BY <1>1, <1>2, OwnsQuiet DEF IInv
  <1>3. CASE Live' # Live /\ incidents' = incidents
    BY <1>1, <1>3 DEF Guarded, Live, Clusters!Next, Clusters!Destroy
  <1> QED BY <1>2, <1>3

LEMMA OwnsWorker ==
    ASSUME IInv, Worker
    PROVE  [Clusters!Next]_Clusters!vars
  <1> USE DEF IInv, Typed
  <1>1. CASE AddFinalizer \/ SetStatus \/ SetActiveStatus \/ Close
    BY <1>1, OwnsPatch
  <1>2. CASE CreateCluster
    <2>1. PICK c \in Cluster :
             phase[c] = "Unborn" /\ phase' = [phase EXCEPT ![c] = "Creating"]
      BY <1>2 DEF CreateCluster
    <2>2. ~Alive(c)
      BY <2>1 DEF Alive, Phase, Known, Unexpected
    <2> QED BY <1>2, <2>1, <2>2, OwnsCreate DEF CreateCluster, object, counters
  <1>3. CASE Reconcile
    <2>1. incidents' = incidents \/ incidents' = incidents + 1
      BY <1>3, FaultCounts DEF Reconcile
    <2> QED BY <1>3, <2>1, OwnsRest DEF Reconcile, object, cloud, Live, Alive
  <1>4. CASE DeleteCluster
    <2>1. \A c \in Cluster : Alive(c)' => Alive(c)
      BY <1>4 DEF DeleteCluster, Alive, TypeOK
    <2> QED BY <1>4, <2>1, OwnsRest DEF DeleteCluster, object, counters
  <1>5. CASE CreateVpc \/ CreateSubnet \/ CreatePublicip \/ BindEip
    <2>1. UNCHANGED <<api, phase, incidents>>
      BY <1>5 DEF CreateVpc, CreateSubnet, CreatePublicip, BindEip, object, counters
    <2> QED BY <2>1, OwnsRest DEF Alive
  <1>6. CASE \/ ShowCluster \/ WaitActive \/ WaitTimesOut \/ ShowActive \/ ShowEndpoints
             \/ ShowReady \/ Kubeconfig \/ Dependencies \/ ShowDeleting \/ WaitDeleted
    <2>1. UNCHANGED <<api, phase, incidents>>
      BY <1>6 DEF ShowCluster, WaitActive, WaitTimesOut, ShowActive, ShowEndpoints,
                  ShowReady, Kubeconfig, Dependencies, ShowDeleting, WaitDeleted,
                  object, cloud, counters
    <2> QED BY <2>1, OwnsRest DEF Alive
  <1> QED BY <1>1, <1>2, <1>3, <1>4, <1>5, <1>6 DEF Worker

LEMMA OwnsAdversity ==
    ASSUME IInv, Adversity
    PROVE  [Clusters!Next]_Clusters!vars
  <1> USE DEF IInv, Typed
  <1>1. /\ incidents' = incidents \/ incidents' = incidents + 1
        /\ api' = api
    BY FaultCounts DEF Adversity, CallFails, ReplyLost, Crash, ExternalDelete,
                       DeletionFails, object
  <1>2. CASE CallFails \/ Crash
    BY <1>1, <1>2, OwnsRest DEF CallFails, Crash, cloud, Live, Alive
  <1>3. CASE ReplyLost
    <2>1. CASE pc = "CreateCluster"
      <3>1. PICK c \in Cluster :
               phase[c] = "Unborn" /\ phase' = [phase EXCEPT ![c] = "Creating"]
        BY <1>3, <2>1 DEF ReplyLost
      <3>2. ~Alive(c)
        BY <3>1 DEF Alive, Phase, Known, Unexpected
      <3> QED BY <1>1, <2>1, <3>1, <3>2, OwnsCreate
    <2>2. CASE pc # "CreateCluster"
      <3>1. \/ UNCHANGED phase
            \/ phase' = [phase EXCEPT ![mem.label] = "Deleting"] /\ Alive(mem.label)
        BY <1>3, <2>2 DEF ReplyLost, cloud
      <3>2. \A c \in Cluster : Alive(c)' <=> Alive(c)
        BY <3>1 DEF Alive, TypeOK, Phase, Known
      <3> QED BY <1>1, <3>2, OwnsRest DEF Live
    <2> QED BY <2>1, <2>2
  <1>4. CASE ExternalDelete \/ DeletionFails
    <2>1. \A c \in Cluster : Alive(c)' <=> Alive(c)
      BY <1>4 DEF ExternalDelete, DeletionFails, Alive, TypeOK, Phase, Known
    <2> QED BY <1>1, <2>1, OwnsRest DEF Live
  <1> QED BY <1>2, <1>3, <1>4 DEF Adversity

LEMMA OwnsEnvirons ==
    ASSUME IInv, Environs
    PROVE  [Clusters!Next]_Clusters!vars
  <1> USE DEF IInv, Typed
  <1>1. CASE SyncCache \/ UserDeletes \/ UserEdits
    <2>1. UNCHANGED <<phase, incidents>>
      BY <1>1 DEF SyncCache, UserDeletes, UserEdits, cloud, counters
    <2>2. Guarded' = Guarded
      BY <1>1, UserDeletesFields, UserEditsFields DEF SyncCache, Guarded
    <2> QED BY <2>1, <2>2, OwnsQuiet DEF Live, Alive
  <1>2. CASE CloudProgress \/ PhaseDrift \/ PoolsChange \/ InfrastructureReady
    <2>1. incidents' = incidents
      BY <1>2 DEF CloudProgress, PhaseDrift, PoolsChange, InfrastructureReady, counters
    <2>2. api' = api /\ \A c \in Cluster : Alive(c)' => Alive(c)
      BY <1>2, ClustersOnlyGo DEF object
    <2> QED BY <2>1, <2>2, OwnsRest
  <1> QED BY <1>1, <1>2 DEF Environs

\* The reconciler implements Ownership for every set of clusters: it makes them
\* one at a time and under a stored finalizer, and gives the finalizer up only
\* when every cluster that is left is put down to an incident.
THEOREM ClustersOwned == Spec => OwnsClusters
  <1>1. Init => Clusters!Init
    BY DEF Init, Clusters!Init, Alive, Phase, Known, Unexpected, NewObject
  <1>2. IInv /\ [Next]_vars => [Clusters!Next]_Clusters!vars
    <2> SUFFICES ASSUME IInv, [Next]_vars PROVE [Clusters!Next]_Clusters!vars
      OBVIOUS
    <2>1. CASE Next
      BY <2>1, OwnsWorker, OwnsAdversity, OwnsEnvirons DEF Next
    <2>2. CASE UNCHANGED vars
      BY <2>2, OwnsRest DEF vars, object, cloud, counters, Alive
    <2> QED BY <2>1, <2>2
  <1> QED BY <1>1, <1>2, Invariance, PTL DEF Spec, OwnsClusters, Clusters!Spec

----
(***************************************************************************)
(* As long as nothing goes wrong, a cluster that has been deleted does not *)
(* come back: what the node pools need to know of their cluster.           *)
(***************************************************************************)

\* A cluster goes only for an object that is being deleted, or gone, and no
\* reconcile of such an object creates another.
Torn ==
    /\ pc \in DeleteSteps => (api.exists => api.deleting)
    /\ (\E c \in Cluster : phase[c] \in {"Deleting", "Gone"}) =>
           /\ api.exists => api.deleting
           /\ pc \in DeleteSteps \cup {"Idle", "Close"}

LEMMA TornInit == ASSUME Init PROVE Torn
  BY DEF Init, Torn, DeleteSteps

LEMMA NoFaultCounted ==
    ASSUME TypeOK, faults' = faults, NEW kind
    PROVE  ~Fault(kind)
  BY DEF Fault, TypeOK

\* What happens to the object without faults.
LEMMA DeletionStays ==
    ASSUME Typed, [Next]_vars, faults' = faults, api.exists => api.deleting
    PROVE  (api.exists => api.deleting)'
  <1> USE DEF Typed
  <1>1. ASSUME NEW fault, NEW served, NEW failed, PatchObject(fault, served, failed)
        PROVE  (api.exists => api.deleting)'
    <2>1. api' = Persisted(TRUE, TRUE) \/ api' = api
      BY <1>1, NoFaultCounted DEF PatchObject
    <2>2. Persisted(TRUE, TRUE).deleting = api.deleting
      BY PersistedFields
    <2> QED BY <1>1, <2>1, <2>2 DEF PatchObject
  <1>2. CASE AddFinalizer \/ SetStatus \/ SetActiveStatus \/ Close
    BY <1>1, <1>2 DEF AddFinalizer, SetStatus, SetActiveStatus, Close
  <1>3. CASE UserDeletes
    BY <1>3, UserDeletesFields
  <1>4. CASE UserEdits
    BY <1>4, UserEditsFields
  <1>5. CASE UNCHANGED api
    BY <1>5
  <1>6. Adversity => UNCHANGED api
    BY DEF Adversity, CallFails, ReplyLost, Crash, ExternalDelete, DeletionFails, object
  <1> QED
    BY <1>2, <1>3, <1>4, <1>5, <1>6 DEF Next, Worker, Environs, Reconcile, CreateVpc,
       CreateSubnet, ShowCluster, CreateCluster, WaitActive, WaitTimesOut, ShowActive,
       ShowEndpoints, CreatePublicip, BindEip, ShowReady, Kubeconfig, Dependencies,
       ShowDeleting, DeleteCluster, WaitDeleted, SyncCache, CloudProgress, PhaseDrift,
       PoolsChange, InfrastructureReady, object, vars

\* What happens to the clusters without faults.
LEMMA ClustersAge ==
    ASSUME Typed, [Next]_vars, faults' = faults
    PROVE  \/ UNCHANGED phase
           \/ /\ pc = "CreateCluster" /\ UNCHANGED cache
              /\ \E c \in Cluster :
                    phase[c] = "Unborn" /\ phase' = [phase EXCEPT ![c] = "Creating"]
           \/ /\ pc = "DeleteCluster" /\ pc' = "WaitDeleted"
              /\ UNCHANGED <<cache, api>>
              /\ Alive(mem.label)
              /\ phase' = [phase EXCEPT ![mem.label] = "Deleting"]
           \/ /\ UNCHANGED <<api, cache, pc>>
              /\ \E c \in Cluster, p \in Phase :
                    /\ phase[c] \in Phase /\ p # "Deleting"
                    /\ phase' = [phase EXCEPT ![c] = p]
           \/ /\ UNCHANGED <<api, cache, pc>>
              /\ \E c \in Cluster :
                    /\ phase[c] = "Deleting"
                    /\ phase' = [phase EXCEPT ![c] = "Gone"]
  <1> USE DEF Typed
  <1>1. ~Adversity
    BY NoFaultCounted DEF Adversity, CallFails, ReplyLost, Crash, ExternalDelete,
       DeletionFails
  <1>2. CASE CreateCluster
    BY <1>2 DEF CreateCluster, object
  <1>3. CASE DeleteCluster
    BY <1>3 DEF DeleteCluster, object
  <1>4. CASE PhaseDrift
    <2>1. PICK c \in Cluster, p \in Phase :
             <<phase[c], p>> \in Drift /\ phase' = [phase EXCEPT ![c] = p]
      BY <1>4 DEF PhaseDrift
    <2>2. phase[c] \in Phase /\ p # "Deleting"
      BY <2>1, DriftKeepsClusters
    <2> QED BY <1>4, <2>1, <2>2 DEF PhaseDrift, object, worker
  <1>5. CASE CloudProgress
    BY <1>5 DEF CloudProgress, object, worker, Phase, Known
  <1> QED
    BY <1>1, <1>2, <1>3, <1>4, <1>5 DEF Next, Worker, Environs, Reconcile, AddFinalizer,
       CreateVpc, CreateSubnet, ShowCluster, SetStatus, WaitActive, WaitTimesOut,
       ShowActive, SetActiveStatus, ShowEndpoints, CreatePublicip, BindEip, ShowReady,
       Kubeconfig, Dependencies, ShowDeleting, WaitDeleted, Close, SyncCache,
       UserDeletes, UserEdits, PoolsChange, InfrastructureReady, cloud, vars

\* A reconcile that starts from the stored object, as all do without faults.
LEMMA ReconcileEnding ==
    ASSUME Typed, Reconcile, faults' = faults
    PROVE  /\ api.exists
           /\ api.deleting => pc' = "Dependencies"
           /\ ~api.deleting => pc' \notin DeleteSteps
  <1>1. cache = api /\ cache.exists /\ api \in Object
    BY NoFaultCounted DEF Reconcile, Typed, TypeOK
  <1>2. CASE cache.deleting
    BY <1>1, <1>2 DEF Reconcile
  <1>3. CASE ~cache.deleting
    BY <1>1, <1>3, NetworkStepNamed DEF Reconcile, DeleteSteps
  <1> QED BY <1>2, <1>3, <1>1

\* The steps of a deletion follow one another, up to Close.
LEMMA DeletionSteps ==
    ASSUME Typed, [Next]_vars, faults' = faults
    PROVE  /\ pc' \in DeleteSteps =>
                  \/ pc \in DeleteSteps
                  \/ pc = "Idle" /\ (api.exists => api.deleting)
           /\ (api.exists => api.deleting) /\ pc \in DeleteSteps \cup {"Idle", "Close"} =>
                  pc' \in DeleteSteps \cup {"Idle", "Close"}
           /\ pc' \in DeleteSteps \ {"Dependencies"} =>
                  \/ pc \in DeleteSteps \ {"Dependencies"}
                  \/ pc = "Dependencies" /\ ~pools
  <1> USE DEF Typed
  <1>1. ~Adversity
    BY NoFaultCounted DEF Adversity, CallFails, ReplyLost, Crash, ExternalDelete,
       DeletionFails
  <1>2. CASE Reconcile
    BY <1>2, ReconcileEnding DEF Reconcile, DeleteSteps
  <1>3. CASE AddFinalizer \/ SetStatus \/ SetActiveStatus
    <2>1. pc \notin DeleteSteps \cup {"Idle", "Close"}
      BY <1>3 DEF AddFinalizer, SetStatus, SetActiveStatus, DeleteSteps
    <2>2. PICK fault, served, failed :
             /\ PatchObject(fault, served, failed)
             /\ {served, failed} \cap DeleteSteps = {}
      <3>1. NetworkStep(mem) \notin DeleteSteps /\ ReadyStep \notin DeleteSteps
        BY NetworkStepNamed DEF TypeOK, ReadyStep, DeleteSteps
      <3> QED
        BY <1>3, <3>1 DEF AddFinalizer, SetStatus, SetActiveStatus, DeleteSteps
    <2> QED BY <2>1, <2>2 DEF PatchObject
  <1>4. CASE Close
    BY <1>4 DEF Close, PatchObject, DeleteSteps
  <1>5. CASE \/ CreateVpc \/ CreateSubnet \/ ShowCluster \/ CreateCluster \/ WaitActive
             \/ WaitTimesOut \/ ShowActive \/ ShowEndpoints \/ CreatePublicip \/ BindEip
             \/ ShowReady \/ Kubeconfig
    <2>1. CASE CreateVpc \/ CreateSubnet
      BY <2>1 DEF CreateVpc, CreateSubnet, NetworkStep, ClusterStep, DeleteSteps
    <2>2. CASE ShowCluster \/ CreateCluster \/ WaitActive \/ WaitTimesOut \/ ShowActive
      BY <2>2 DEF ShowCluster, CreateCluster, WaitActive, WaitTimesOut, ShowActive,
         Observe, DeleteSteps
    <2>3. CASE ShowEndpoints \/ CreatePublicip \/ BindEip \/ ShowReady \/ Kubeconfig
      BY <2>3 DEF ShowEndpoints, CreatePublicip, BindEip, ShowReady, Kubeconfig,
         DeleteSteps
    <2> QED BY <1>5, <2>1, <2>2, <2>3
  <1>6. CASE Dependencies \/ ShowDeleting \/ DeleteCluster \/ WaitDeleted
    BY <1>6 DEF Dependencies, ShowDeleting, DeleteCluster, WaitDeleted,
       RemoveFinalizer, DeleteSteps
  <1>7. CASE UNCHANGED pc
    BY <1>7 DEF DeleteSteps
  <1> QED
    BY <1>1, <1>2, <1>3, <1>4, <1>5, <1>6, <1>7 DEF Next, Worker, Environs, SyncCache,
       UserDeletes, UserEdits, CloudProgress, PhaseDrift, PoolsChange,
       InfrastructureReady, worker, vars

LEMMA TornNext ==
    ASSUME Typed, Torn, [Next]_vars, faults' = faults
    PROVE  Torn'
  <1> DEFINE Ending == api.exists => api.deleting
  <1> USE DEF Typed
  <1>1. Ending => Ending'
    BY DeletionStays
  <1>2. pc' \in DeleteSteps => Ending'
    BY <1>1, DeletionSteps DEF Torn
  <1>3. ASSUME NEW c \in Cluster, phase'[c] \in {"Deleting", "Gone"}
        PROVE  Ending /\ pc \in DeleteSteps \cup {"Idle", "Close"}
    <2>1. CASE phase[c] \in {"Deleting", "Gone"}
      BY <2>1 DEF Torn
    <2>2. CASE phase[c] \notin {"Deleting", "Gone"}
      <3>1. pc = "DeleteCluster"
        BY <1>3, <2>2, ClustersAge DEF TypeOK, Phase, Known, Unexpected
      <3> QED BY <3>1 DEF Torn, DeleteSteps
    <2> QED BY <2>1, <2>2
  <1> QED BY <1>1, <1>2, <1>3, DeletionSteps DEF Torn
====
