---- MODULE ControlPlaneNetworkProofs ----
(***************************************************************************)
(* What holds of the network that ControlPlane makes for its cluster: the  *)
(* VPC, the subnet and the public addresses.  The invariants stand on the  *)
(* accounts of ControlPlaneProofs.                                         *)
(***************************************************************************)
EXTENDS ControlPlaneProofs

\* reconcileEIP and what follows it.
AddressSteps == {"ShowEndpoints", "CreatePublicip", "BindEip", "ShowReady",
                 "Kubeconfig"}

\* reconcileNetwork, and AddFinalizer before it.
NetworkSteps == {"AddFinalizer", "CreateVpc", "CreateSubnet"}

\* An address is bought and bound only for a cluster without one, and when
\* reconcileEIP is through a public cluster has one.
Addressed ==
    /\ pc \in {"ShowEndpoints", "CreatePublicip", "BindEip"} => mem.access = "public"
    /\ pc \in {"CreatePublicip", "BindEip"} => bound[mem.label] = None
    /\ pc = "BindEip" => mem.eip # None
    /\ pc \in {"ShowReady", "Kubeconfig"} /\ mem.access = "public"
           => bound[mem.label] # None

\* The object is there, and nobody has asked for its deletion.
Wanted == api.exists /\ ~api.deleting

\* The cluster is gone, or on its way out.
Failing(c) == phase[c] \notin Phase \ {"Deleting"}

\* The addresses that nothing uses, or will use: the reconcile is not about to
\* bind them, and the cluster they are bound to is failing a user who wants it.
Stranded == {e \in eips : /\ ~(pc = "BindEip" /\ mem.eip = e)
                          /\ \A c \in Cluster : bound[c] = e => Failing(c) /\ Wanted}

\* reconcileEIP is on its way for a cluster without an address that was found
\* ready, and that a fault is taking away: the next address serves no cluster.
Indebted ==
    /\ \/ pc \in {"ShowEndpoints", "CreatePublicip", "BindEip"}
       \/ pc \in {"SetStatus", "SetActiveStatus"} /\ mem.ready
    /\ bound[mem.label] = None
    /\ Failing(mem.label)

\* Every stranded address, and the one that may yet be stranded, is put down to
\* a fault of its own.
Spent == Balanced(Stranded, Indebted, faults)

\* Without incidents the VPC is the one of the copy, or of the stored object,
\* which is as it was when the reconcile started or as its patches make it; and
\* there is none before the finalizer is stored.
Networked ==
    /\ api.subnet \in {None, api.vpc}
    /\ ~Running => vpcs \subseteq {api.vpc}
    /\ Running =>
           /\ vpcs \subseteq {mem.vpc}
           /\ api.vpc \in {before.vpc, mem.vpc}
           /\ api.subnet \in {before.subnet, mem.subnet}
           /\ mem.subnet \in {None, mem.vpc}
           /\ pc \in {"AddFinalizer", "CreateVpc"} => mem.vpc = before.vpc
           /\ pc \in NetworkSteps => mem.subnet = before.subnet
           /\ pc = "CreateVpc" => mem.vpc = None
           /\ ~api.exists => vpcs = {}
    /\ api.exists /\ ~api.finalizer => vpcs = {}

NetworkInv == Addressed /\ Spent /\ (incidents = 0 => Networked)
----
(***************************************************************************)
(* The addresses.                                                          *)
(***************************************************************************)

\* The steps that do not lead to reconcileEIP or past it.
LEMMA Elsewhere ==
    ASSUME Typed,
           \/ Reconcile \/ AddFinalizer \/ CreateVpc \/ CreateSubnet \/ ShowCluster
           \/ CreateCluster \/ WaitActive \/ WaitTimesOut \/ ShowActive \/ Kubeconfig
           \/ Dependencies \/ ShowDeleting \/ DeleteCluster \/ WaitDeleted \/ Close
           \/ CallFails \/ ReplyLost \/ Crash
    PROVE  pc' \notin AddressSteps
  <1>1. cache \in Object /\ mem \in Object
    BY DEF Typed, TypeOK
  <1>2. CASE Reconcile \/ AddFinalizer \/ CreateVpc \/ CreateSubnet
    <2>1. CreateVpc => mem' \in Object
      BY <1>1 DEF CreateVpc, Object
    <2> QED BY <1>1, <1>2, <2>1, NetworkStepNamed
         DEF Reconcile, AddFinalizer, CreateVpc, CreateSubnet, ClusterStep, PatchObject,
             AddressSteps
  <1>3. CASE \/ ShowCluster \/ CreateCluster \/ WaitActive \/ WaitTimesOut \/ ShowActive
             \/ Kubeconfig \/ Close \/ CallFails \/ ReplyLost \/ Crash
    BY <1>3 DEF ShowCluster, CreateCluster, WaitActive, WaitTimesOut, ShowActive, Observe,
                Kubeconfig, Close, PatchObject, CallFails, ReplyLost, Crash, AddressSteps
  <1>4. CASE Dependencies \/ ShowDeleting \/ DeleteCluster \/ WaitDeleted
    BY <1>4 DEF Dependencies, ShowDeleting, DeleteCluster, WaitDeleted, RemoveFinalizer,
                AddressSteps
  <1> QED BY <1>2, <1>3, <1>4

\* After setStatus, reconcileEIP follows for a public cluster that is ready.
LEMMA StatusLeads ==
    ASSUME SetStatus \/ SetActiveStatus
    PROVE  /\ pc' \in {"WaitActive", "Close", "ShowEndpoints", "ShowReady"}
           /\ pc' = "ShowEndpoints" => mem.access = "public" /\ mem.ready
           /\ pc' = "ShowReady" => mem.access # "public"
           /\ UNCHANGED <<mem, phase, eips, bound>>
  BY DEF SetStatus, SetActiveStatus, PatchObject, ReadyStep, cloud, network

LEMMA AddressedNext ==
    ASSUME Typed, Addressed, [Next]_vars
    PROVE  Addressed'
  <1>1. mem \in Object /\ bound \in [Cluster -> Eip \cup {None}]
    BY DEF Typed, TypeOK
  <1>2. pc \in ClusterSteps => mem.label \in Cluster
    BY <1>1 DEF Typed, Named, Object
  <1>3. CASE pc' \notin AddressSteps
    BY <1>3 DEF Addressed, AddressSteps
  <1>4. CASE SetStatus \/ SetActiveStatus
    BY <1>4, StatusLeads DEF Addressed
  <1>5. CASE ShowEndpoints
    BY <1>5 DEF ShowEndpoints, Addressed, cloud, network
  <1>6. CASE CreatePublicip
    <2>1. PICK e \in Eip : mem' = [mem EXCEPT !.eip = e]
      BY <1>6 DEF CreatePublicip
    <2>2. mem'.label = mem.label /\ mem'.access = mem.access /\ mem'.eip # None
      BY <1>1, <2>1, Environment DEF Object
    <2> QED BY <1>6, <2>2 DEF CreatePublicip, Addressed
  <1>7. CASE BindEip
    BY <1>1, <1>2, <1>7 DEF BindEip, Addressed, ClusterSteps
  <1>8. CASE ShowReady
    <2>1. mem'.label = mem.label /\ mem'.access = mem.access
      BY <1>1, <1>8 DEF ShowReady, Object
    <2> QED BY <1>8, <2>1 DEF ShowReady, Addressed, cloud, network
  <1>9. CASE UNCHANGED <<mem, pc, bound>>
    BY <1>9 DEF Addressed
  <1>10. Environs \/ ExternalDelete \/ DeletionFails \/ UNCHANGED vars
            => UNCHANGED <<mem, pc, bound>>
    BY DEF Environs, SyncCache, UserDeletes, UserEdits, CloudProgress, PhaseDrift,
           PoolsChange, InfrastructureReady, ExternalDelete, DeletionFails, vars, worker,
           cloud, network
  <1> QED BY <1>3, <1>4, <1>5, <1>6, <1>7, <1>8, <1>9, <1>10, Elsewhere
       DEF Next, Worker, Adversity

\* An object that nobody wants is never wanted again.
LEMMA WantedStays ==
    ASSUME Typed, Traced, [Next]_vars
    PROVE  Wanted' => Wanted
  <1> USE DEF Typed
  <1>1. ASSUME NEW fault, NEW served, NEW failed, PatchObject(fault, served, failed)
        PROVE  Wanted' => Wanted
    BY <1>1, PatchObjectFields DEF Traced, Wanted
  <1>2. CASE AddFinalizer \/ SetStatus \/ SetActiveStatus \/ Close
    BY <1>1, <1>2 DEF AddFinalizer, SetStatus, SetActiveStatus, Close
  <1>3. CASE UserDeletes \/ UserEdits
    BY <1>3, UserDeletesFields, UserEditsFields DEF Wanted
  <1>4. CASE UNCHANGED api
    BY <1>4 DEF Wanted
  <1>5. Adversity \/ UNCHANGED vars => UNCHANGED api
    BY DEF Adversity, CallFails, ReplyLost, Crash, ExternalDelete, DeletionFails, object,
           vars
  <1>6. Environs => UNCHANGED api \/ UserDeletes \/ UserEdits
    BY DEF Environs, SyncCache, CloudProgress, PhaseDrift, PoolsChange,
           InfrastructureReady, object
  <1>7. Worker => UNCHANGED api \/ AddFinalizer \/ SetStatus \/ SetActiveStatus \/ Close
    BY DEF Worker, Reconcile, CreateVpc, CreateSubnet, ShowCluster, CreateCluster,
           WaitActive, WaitTimesOut, ShowActive, ShowEndpoints, CreatePublicip, BindEip,
           ShowReady, Kubeconfig, Dependencies, ShowDeleting, DeleteCluster, WaitDeleted,
           object
  <1> QED BY <1>2, <1>3, <1>4, <1>5, <1>6, <1>7 DEF Next

\* The reconciler asks for no deletion of a cluster that is still wanted.
LEMMA WorkerFailsNone ==
    ASSUME Typed, Traced, Worker, NEW c \in Cluster, Wanted', Failing(c)'
    PROVE  Failing(c)
  <1> USE DEF Typed
  <1>1. CASE CreateCluster
    BY <1>1 DEF CreateCluster, Failing, TypeOK, Phase, Known
  <1>2. CASE DeleteCluster
    <2>1. ~Wanted'
      BY <1>2 DEF DeleteCluster, Traced, Copied, Running, DeleteSteps, Wanted, object
    <2> QED BY <2>1
  <1>3. CASE UNCHANGED phase
    BY <1>3 DEF Failing
  <1> QED
    BY <1>1, <1>2, <1>3 DEF Worker, Reconcile, AddFinalizer, CreateVpc, CreateSubnet,
       ShowCluster, SetStatus, WaitActive, WaitTimesOut, ShowActive, SetActiveStatus,
       ShowEndpoints, CreatePublicip, BindEip, ShowReady, Kubeconfig, Dependencies,
       ShowDeleting, WaitDeleted, Close, cloud

\* A step that makes and binds no address, and takes no cluster away from a user
\* who wants it, strands none.
LEMMA StrandedStays ==
    ASSUME pc # "BindEip", UNCHANGED <<eips, bound>>, Wanted' => Wanted,
           \A c \in Cluster : Wanted' /\ Failing(c)' => Failing(c)
    PROVE  Stranded' \subseteq Stranded
  BY DEF Stranded

\* The counter of faults only grows.
LEMMA FaultsGrow ==
    ASSUME Typed, NEW kind, Fault(kind) \/ NoFault
    PROVE  faults' \in Nat /\ faults' >= faults
  BY DEF Typed, TypeOK, Fault, NoFault, counters

LEMMA PatchFaults ==
    ASSUME Typed, NEW fault, NEW served, NEW failed, PatchObject(fault, served, failed)
    PROVE  faults' \in Nat /\ faults' >= faults
  BY FaultsGrow DEF PatchObject

LEMMA SpentWorker ==
    ASSUME Typed, Traced, Addressed, Spent, Worker
    PROVE  Spent'
  <1>1. /\ mem \in Object /\ bound \in [Cluster -> Eip \cup {None}]
        /\ phase \in [Cluster -> Phase \cup {"Unborn", "Gone"}]
        /\ faults \in Nat
    BY DEF Typed, TypeOK
  <1>2. pc \in ClusterSteps => mem.label \in Cluster
    BY <1>1 DEF Typed, Named, Object
  <1>wanted. /\ Wanted' => Wanted
             /\ \A c \in Cluster : Wanted' /\ Failing(c)' => Failing(c)
    BY WantedStays, WorkerFailsNone DEF Next
  <1>3. ASSUME Stranded' \subseteq Stranded, Indebted' => Indebted,
               faults' \in Nat, faults' >= faults
        PROVE  Spent'
    BY <1>1, <1>3, KeepsBalance DEF Spent
  <1>4. CASE Reconcile \/ AddFinalizer \/ Close
    <2>1. faults' \in Nat /\ faults' >= faults
      BY <1>4, FaultsGrow, PatchFaults DEF Reconcile, AddFinalizer, Close
    <2>2. Stranded' \subseteq Stranded
      BY <1>4, <1>wanted, StrandedStays DEF Reconcile, AddFinalizer, Close, cloud, network
    <2>3. pc' \notin {"SetStatus", "SetActiveStatus"}
      BY <1>4, NetworkStepNamed DEF Reconcile, AddFinalizer, Close, PatchObject, Typed, TypeOK
    <2> QED BY <1>3, <1>4, <2>1, <2>2, <2>3, Elsewhere DEF Indebted, AddressSteps
  <1>5. CASE SetStatus \/ SetActiveStatus
    <2>1. faults' \in Nat /\ faults' >= faults
      BY <1>5, PatchFaults DEF SetStatus, SetActiveStatus
    <2>2. Stranded' \subseteq Stranded
      BY <1>5, StatusLeads, <1>wanted, StrandedStays DEF SetStatus, SetActiveStatus
    <2>3. Indebted' => Indebted
      BY <1>5, StatusLeads DEF SetStatus, SetActiveStatus, Indebted, Failing
    <2> QED BY <1>3, <2>1, <2>2, <2>3
  <1>6. CASE ShowCluster \/ ShowActive
    <2>1. Stranded' \subseteq Stranded /\ faults' = faults /\ UNCHANGED phase
      BY <1>6, <1>wanted, StrandedStays DEF ShowCluster, ShowActive, cloud, network, counters
    <2>2. ~Indebted'
      <3>1. CASE Alive(mem.label)
        <4>1. CASE ShowCluster
          BY <1>1, <2>1, <3>1, <4>1
             DEF ShowCluster, Observe, Alive, Indebted, Failing, Object, Serving
        <4>2. CASE ShowActive
          BY <1>1, <2>1, <3>1, <4>2
             DEF ShowActive, Observe, Alive, Indebted, Failing, Object, Serving
        <4> QED BY <1>6, <4>1, <4>2
      <3>2. CASE ~Alive(mem.label)
        BY <1>6, <3>2 DEF ShowCluster, ShowActive, Indebted
      <3> QED BY <3>1, <3>2
    <2> QED BY <1>1, <1>3, <2>1, <2>2
  <1>7. CASE CreateCluster
    <2>1. Stranded' \subseteq Stranded /\ faults' = faults
      BY <1>7, <1>wanted, StrandedStays DEF CreateCluster, network, counters
    <2>2. mem'.ready = FALSE /\ pc' = "SetStatus"
      BY <1>1, <1>7 DEF CreateCluster, Object
    <2> QED BY <1>1, <1>3, <2>1, <2>2 DEF Indebted
  <1>8. CASE \/ CreateVpc \/ CreateSubnet \/ WaitActive \/ WaitTimesOut \/ ShowReady
             \/ Kubeconfig \/ Dependencies \/ ShowDeleting \/ DeleteCluster \/ WaitDeleted
    <2>1. UNCHANGED <<eips, bound>> /\ faults' = faults /\ pc # "BindEip"
      BY <1>8 DEF CreateVpc, CreateSubnet, WaitActive, WaitTimesOut, ShowReady, Kubeconfig,
                  Dependencies, ShowDeleting, DeleteCluster, WaitDeleted, cloud, network,
                  counters
    <2>2. pc' \notin {"ShowEndpoints", "CreatePublicip", "BindEip", "SetStatus",
                      "SetActiveStatus"}
      <3>1. CreateVpc => mem' \in Object
        BY <1>1 DEF CreateVpc, Object
      <3> QED BY <1>8, <3>1, NetworkStepNamed
           DEF CreateVpc, CreateSubnet, ClusterStep, WaitActive, WaitTimesOut, ShowReady,
               Kubeconfig, Dependencies, ShowDeleting, DeleteCluster, WaitDeleted,
               RemoveFinalizer
    <2> QED BY <1>1, <1>3, <2>1, <2>2, <1>wanted, StrandedStays DEF Indebted
  <1>9. CASE ShowEndpoints
    <2>1. Stranded' \subseteq Stranded /\ faults' = faults
      BY <1>9, <1>wanted, StrandedStays DEF ShowEndpoints, cloud, network, counters
    <2>2. Indebted' => Indebted
      BY <1>9 DEF ShowEndpoints, Indebted, Failing, cloud, network
    <2> QED BY <1>1, <1>3, <2>1, <2>2
  <1>10. CASE CreatePublicip
    <2>1. PICK e \in Eip : eips' = eips \cup {e} /\ mem' = [mem EXCEPT !.eip = e]
      BY <1>10 DEF CreatePublicip
    <2>2. mem'.label = mem.label /\ mem'.eip = e
      BY <1>1, <2>1 DEF Object
    <2>3. Stranded' \subseteq Stranded
      BY <1>10, <2>1, <2>2, <1>wanted DEF CreatePublicip, Stranded
    <2>4. Indebted' => Indebted
      BY <1>10, <2>2 DEF CreatePublicip, Indebted, Failing
    <2> QED BY <1>1, <1>3, <1>10, <2>3, <2>4 DEF CreatePublicip, counters
  <1>11. CASE BindEip
    <2>1. mem.label \in Cluster /\ bound[mem.label] = None /\ ~Indebted'
      BY <1>2, <1>11 DEF BindEip, ClusterSteps, Addressed, Indebted
    <2>2. faults' = faults /\ UNCHANGED <<eips, mem, phase>> /\ pc = "BindEip" /\ pc' # "BindEip"
      BY <1>11 DEF BindEip, counters
    <2>3. /\ \A c \in Cluster \ {mem.label} : bound'[c] = bound[c]
          /\ Alive(mem.label) => bound'[mem.label] = mem.eip
      <3>1. CASE Alive(mem.label)
        <4>1. bound' = [bound EXCEPT ![mem.label] = mem.eip]
          BY <1>11, <3>1 DEF BindEip
        <4> QED BY <1>1, <2>1, <4>1
      <3>2. CASE ~Alive(mem.label)
        BY <1>11, <3>2 DEF BindEip
      <3> QED BY <3>1, <3>2
    <2>4. ASSUME NEW e \in Stranded', e # mem.eip PROVE e \in Stranded
      <3>1. e \in eips /\ e # None
        BY <2>2, Environment DEF Stranded, Typed, TypeOK
      <3>2. ASSUME NEW c \in Cluster, bound[c] = e PROVE Failing(c) /\ Wanted
        BY <1>wanted, <2>1, <2>3, <3>1, <3>2 DEF Stranded
      <3> QED BY <2>4, <3>1, <3>2 DEF Stranded
    <2>5. CASE ~Failing(mem.label)
      <3>1. mem.eip \notin Stranded'
        BY <2>1, <2>2, <2>3, <2>5 DEF Stranded, Failing, Alive
      <3> QED BY <1>1, <1>3, <2>1, <2>2, <2>4, <3>1
    <2>6. CASE Failing(mem.label)
      <3>1. Indebted = TRUE /\ Indebted' = FALSE
        <4>1. Indebted
          BY <2>1, <2>2, <2>6 DEF Indebted
        <4>2. Indebted \in BOOLEAN /\ Indebted' \in BOOLEAN
          BY DEF Indebted
        <4> QED BY <2>1, <4>1, <4>2
      <3>2. Balanced(Stranded, TRUE, faults)
        BY <3>1 DEF Spent
      <3>3. Balanced(Stranded', FALSE, faults')
        <4>1. faults' \in Nat /\ faults <= faults'
          BY <1>1, <2>2
        <4>2. Stranded' \subseteq Stranded \cup {mem.eip}
          BY <2>4
        <4> QED BY <1>1, <3>2, <4>1, <4>2, ReturnPays
      <3> QED BY <3>1, <3>3 DEF Spent
    <2> QED BY <2>5, <2>6
  <1> QED BY <1>4, <1>5, <1>6, <1>7, <1>8, <1>9, <1>10, <1>11 DEF Worker

\* A fault strands one address at most.
LEMMA SpentAdversity ==
    ASSUME Typed, Traced, Addressed, Spent, Adversity
    PROVE  Spent'
  <1>1. faults \in Nat /\ faults' = faults + 1
    BY DEF Typed, TypeOK, Adversity, CallFails, ReplyLost, Crash, ExternalDelete,
           DeletionFails, Fault
  <1>2. ASSUME NEW x, \/ Stranded' \subseteq Stranded \cup {x} /\ (Indebted' => Indebted)
                      \/ Stranded' \subseteq Stranded
        PROVE  Spent'
    BY <1>1, <1>2, IncidentPays DEF Spent
  <1>3. Wanted' => Wanted
    BY WantedStays DEF Next
  <1>4. CASE CallFails \/ Crash
    <2>1. UNCHANGED <<phase, eips, bound>> /\ pc' \in {"Close", "Idle"}
      BY <1>4 DEF CallFails, Crash, cloud, network
    <2>2. Stranded' \subseteq Stranded \cup {mem.eip} /\ ~Indebted'
      BY <1>3, <2>1 DEF Stranded, Failing, Indebted
    <2> QED BY <1>2, <2>2
  <1>5. CASE ReplyLost
    <2>1. pc' = "Close" /\ ~Indebted'
      BY <1>5 DEF ReplyLost, Indebted
    <2>2. CASE pc = "CreatePublicip"
      <3>1. PICK e \in Eip : eips' = eips \cup {e} /\ UNCHANGED <<phase, bound>>
        BY <1>5, <2>2 DEF ReplyLost
      <3>2. Stranded' \subseteq Stranded \cup {e}
        BY <1>3, <2>2, <3>1 DEF Stranded, Failing
      <3> QED BY <1>2, <2>1, <3>2
    <2>3. CASE pc = "BindEip"
      <3>1. /\ bound' = [bound EXCEPT ![mem.label] = mem.eip] /\ UNCHANGED <<phase, eips>>
            /\ bound \in [Cluster -> Eip \cup {None}] /\ bound[mem.label] = None
        BY <1>5, <2>3 DEF ReplyLost, Addressed, Typed, TypeOK
      <3>2. ASSUME NEW e \in Stranded', e # mem.eip PROVE e \in Stranded
        <4>1. e \in eips /\ e # None
          BY <3>1, Environment DEF Stranded, Typed, TypeOK
        <4>2. ASSUME NEW c \in Cluster, bound[c] = e PROVE Failing(c) /\ Wanted
          <5>1. bound'[c] = e
            BY <3>1, <4>1, <4>2
          <5> QED BY <1>3, <3>1, <5>1 DEF Stranded, Failing
        <4> QED BY <3>2, <4>1, <4>2 DEF Stranded
      <3>3. Stranded' \subseteq Stranded \cup {mem.eip}
        BY <3>2
      <3> QED BY <1>2, <2>1, <3>3
    <2>4. CASE pc \notin {"CreatePublicip", "BindEip"}
      <3>1. UNCHANGED <<eips, bound>>
        BY <1>5, <2>4 DEF ReplyLost, cloud, network
      <3>2. ASSUME NEW c \in Cluster, Wanted', Failing(c)' PROVE Failing(c)
        <4>1. CASE pc = "CreateCluster"
          BY <1>5, <3>2, <4>1 DEF ReplyLost, Failing, Typed, TypeOK, Phase, Known
        <4>2. CASE pc = "DeleteCluster"
          BY <1>5, <3>2, <4>2
             DEF ReplyLost, Traced, Copied, Running, DeleteSteps, Wanted, object
        <4>3. CASE pc \notin {"CreateCluster", "DeleteCluster"}
          BY <1>5, <2>4, <3>2, <4>3 DEF ReplyLost, Failing, cloud
        <4> QED BY <4>1, <4>2, <4>3
      <3> QED BY <1>2, <1>3, <2>4, <3>1, <3>2, StrandedStays
    <2> QED BY <2>2, <2>3, <2>4
  <1>6. CASE ExternalDelete
    <2>1. PICK c \in Cluster : phase' = [phase EXCEPT ![c] = "Deleting"]
      BY <1>6 DEF ExternalDelete
    <2>2. UNCHANGED <<mem, pc, eips, bound>>
      BY <1>6 DEF ExternalDelete, worker, network
    <2>3. \A d \in Cluster \ {c} : Failing(d)' => Failing(d)
      BY <2>1 DEF Failing, Typed, TypeOK
    <2>4. ASSUME NEW e \in Stranded', e # bound[c] PROVE e \in Stranded
      BY <1>3, <2>2, <2>3, <2>4 DEF Stranded
    <2>5. CASE bound[c] = None
      <3>1. None \notin Stranded'
        BY <2>2, Environment DEF Stranded, Typed, TypeOK
      <3> QED BY <1>2, <2>4, <2>5, <3>1
    <2>6. CASE bound[c] # None
      <3>1. pc \in ClusterSteps => mem.label \in Cluster
        BY DEF Typed, TypeOK, Named, Object
      <3>2. Indebted' => Indebted
        BY <2>2, <2>3, <2>6, <3>1 DEF Indebted, ClusterSteps
      <3>3. Stranded' \subseteq Stranded \cup {bound[c]}
        BY <2>4
      <3> QED BY <1>2, <3>2, <3>3
    <2> QED BY <2>5, <2>6
  <1>7. CASE DeletionFails
    <2>1. \A c \in Cluster : Failing(c)' => Failing(c)
      BY <1>7 DEF DeletionFails, Failing, Typed, TypeOK
    <2>2. Stranded' \subseteq Stranded
      BY <1>3, <1>7, <2>1 DEF DeletionFails, Stranded, worker, network
    <2> QED BY <1>2, <2>2
  <1> QED BY <1>4, <1>5, <1>6, <1>7 DEF Adversity

LEMMA SpentEnvirons ==
    ASSUME Typed, Traced, Spent, Environs \/ UNCHANGED vars
    PROVE  Spent'
  <1>1. UNCHANGED <<mem, pc, eips, bound>> /\ faults' = faults /\ faults \in Nat
    BY DEF Environs, SyncCache, UserDeletes, UserEdits, CloudProgress, PhaseDrift,
           PoolsChange, InfrastructureReady, vars, worker, cloud, network, counters, Typed,
           TypeOK
  <1>2. \A c \in Cluster : Failing(c)' => Failing(c)
    <2>1. CASE CloudProgress
      BY <2>1 DEF CloudProgress, Failing, Typed, TypeOK, Phase, Known
    <2>2. CASE PhaseDrift
      BY <2>2, DriftKeepsClusters DEF PhaseDrift, Failing, Typed, TypeOK
    <2>3. CASE \/ SyncCache \/ UserDeletes \/ UserEdits \/ PoolsChange
               \/ InfrastructureReady \/ UNCHANGED vars
      BY <2>3 DEF SyncCache, UserDeletes, UserEdits, PoolsChange, InfrastructureReady,
                  vars, cloud, Failing
    <2> QED BY <2>1, <2>2, <2>3 DEF Environs
  <1>3. pc \in ClusterSteps => mem.label \in Cluster
    BY DEF Typed, TypeOK, Named, Object
  <1>4. Indebted' => Indebted
    BY <1>1, <1>2, <1>3 DEF Indebted, ClusterSteps
  <1>5. Wanted' => Wanted
    BY WantedStays DEF Next
  <1>6. Stranded' \subseteq Stranded
    BY <1>1, <1>2, <1>5 DEF Stranded
  <1> QED BY <1>1, <1>4, <1>6, KeepsBalance DEF Spent

----
(***************************************************************************)
(* The VPC and the subnet.                                                 *)
(***************************************************************************)

\* What a patch makes of the network that the object records.
LEMMA PatchObjectNetwork ==
    ASSUME TypeOK, NEW fault, NEW served, NEW failed,
           PatchObject(fault, served, failed)
    PROVE  \/ api'.vpc = api.vpc /\ api'.subnet = api.subnet
           \/ /\ api'.vpc = Merge(TRUE, before.vpc, mem.vpc, api.vpc)
              /\ api'.subnet = Merge(TRUE, before.subnet, mem.subnet, api.subnet)
  <1>1. ASSUME NEW meta \in BOOLEAN, NEW status \in BOOLEAN, api' = Persisted(meta, status)
        PROVE  /\ api'.vpc = Merge(meta, before.vpc, mem.vpc, api.vpc)
               /\ api'.subnet = Merge(meta, before.subnet, mem.subnet, api.subnet)
    BY <1>1 DEF TypeOK, Object, Persisted
  <1> QED BY <1>1 DEF PatchObject, Merge

\* The patch that nothing disturbs.
LEMMA CleanClose ==
    ASSUME TypeOK, Close, incidents' = incidents, api.exists
    PROVE  api' = Persisted(TRUE, TRUE)
  <1>1. ~Fault("closeFails")
    BY DEF Fault, Losing, TypeOK
  <1> QED BY <1>1 DEF Close, PatchObject

\* Incidents are never taken back.
LEMMA IncidentsStay ==
    ASSUME Typed, [Next]_vars, incidents' = 0
    PROVE  incidents = 0
  <1>1. ASSUME NEW kind, Fault(kind) \/ NoFault PROVE incidents = 0
    BY <1>1, FaultCounts DEF Typed, TypeOK
  <1>2. ASSUME NEW fault, NEW served, NEW failed, PatchObject(fault, served, failed)
        PROVE  incidents = 0
    BY <1>1, <1>2 DEF PatchObject
  <1>3. CASE Reconcile
    BY <1>1, <1>3 DEF Reconcile
  <1>4. CASE AddFinalizer \/ SetStatus \/ SetActiveStatus \/ Close
    BY <1>2, <1>4 DEF AddFinalizer, SetStatus, SetActiveStatus, Close
  <1>5. CASE Adversity
    BY <1>1, <1>5 DEF Adversity, CallFails, ReplyLost, Crash, ExternalDelete, DeletionFails
  <1>6. CASE UNCHANGED counters
    BY <1>6 DEF counters
  <1>7. Worker => UNCHANGED counters \/ Reconcile \/ AddFinalizer \/ SetStatus
                      \/ SetActiveStatus \/ Close
    BY DEF Worker, CreateVpc, CreateSubnet, ShowCluster, CreateCluster, WaitActive,
           WaitTimesOut, ShowActive, ShowEndpoints, CreatePublicip, BindEip, ShowReady,
           Kubeconfig, Dependencies, ShowDeleting, DeleteCluster, WaitDeleted
  <1>8. Environs \/ UNCHANGED vars => UNCHANGED counters
    BY DEF Environs, SyncCache, UserDeletes, UserEdits, CloudProgress, PhaseDrift,
           PoolsChange, InfrastructureReady, vars
  <1> QED BY <1>3, <1>4, <1>5, <1>6, <1>7, <1>8 DEF Next

\* Without incidents a reconcile that is past AddFinalizer has its object.
LEMMA StillThere ==
    ASSUME IInv, incidents = 0, Running, pc \notin {"AddFinalizer", "Close"}
    PROVE  api.exists /\ api.finalizer
  <1>1. api.exists
    BY NothingLost DEF Strayed, Fresh
  <1> QED BY <1>1 DEF IInv, Traced, Copied

\* A call that makes nothing of the network.
LEMMA NetworkedQuiet ==
    ASSUME Networked, UNCHANGED <<api, before, vpcs>>,
           Running, Running', pc' \notin NetworkSteps,
           mem'.vpc = mem.vpc, mem'.subnet = mem.subnet
    PROVE  Networked'
  BY DEF Networked, NetworkSteps

\* A patch stores the network of the copy, or leaves the one that is stored.
LEMMA NetworkedPatch ==
    ASSUME IInv, Networked, Running, incidents = 0, incidents' = 0,
           AddFinalizer \/ SetStatus \/ SetActiveStatus \/ Close
    PROVE  Networked'
  <1> USE DEF IInv, Typed
  <1>1. PICK fault, served, failed : PatchObject(fault, served, failed)
    BY DEF AddFinalizer, SetStatus, SetActiveStatus, Close
  <1>2. UNCHANGED vpcs
    BY DEF AddFinalizer, SetStatus, SetActiveStatus, Close, cloud, network
  <1>3. /\ api'.vpc \in {api.vpc, mem.vpc} /\ api'.subnet \in {api.subnet, mem.subnet}
        /\ api'.subnet \in {None, api'.vpc}
    BY <1>1, PatchObjectNetwork DEF Networked, Merge
  <1>4. /\ ~api.exists => api' = api
        /\ api'.exists => api.exists
        /\ api'.exists /\ api'.deleting => api'.finalizer
        /\ mem.finalizer => api'.exists = api.exists /\ (api.finalizer => api'.finalizer)
        /\ api'.deleting = api.deleting
    BY <1>1, PatchObjectFields DEF Traced
  <1>5. CASE AddFinalizer \/ SetStatus \/ SetActiveStatus
    <2>1. mem.finalizer /\ UNCHANGED <<before, mem>> /\ Running'
      <3>1. mem.finalizer /\ UNCHANGED <<before, mem>>
        BY <1>5 DEF AddFinalizer, SetStatus, SetActiveStatus, Traced, Copied
      <3> QED BY <1>5, <3>1, NetworkStepNamed
           DEF AddFinalizer, SetStatus, SetActiveStatus, PatchObject, ReadyStep, Running,
               TypeOK
    <2>2. /\ pc' # "AddFinalizer"
          /\ pc' \in NetworkSteps => pc = "AddFinalizer"
          /\ pc' = "CreateVpc" => mem.vpc = None
      BY <1>5 DEF AddFinalizer, SetStatus, SetActiveStatus, PatchObject, ReadyStep,
                  NetworkStep, ClusterStep, NetworkSteps
    <2> QED BY <1>2, <1>3, <1>4, <2>1, <2>2 DEF Networked, NetworkSteps
  <1>6. CASE Close
    <2>1. ~Running' /\ pc = "Close"
      BY <1>6 DEF Close, PatchObject, Running
    <2>2. api'.exists /\ ~api'.finalizer => vpcs = {}
      <3>1. CASE mem.finalizer
        BY <1>4, <3>1 DEF Networked
      <3>2. CASE ~mem.finalizer
        BY <1>4, <2>1, <3>2 DEF Traced, Copied, Released
      <3> QED BY <3>1, <3>2
    <2>3. vpcs \subseteq {api'.vpc}
      <3>1. CASE api.exists
        <4>1. api' = Persisted(TRUE, TRUE)
          BY <1>6, <3>1, CleanClose
        <4>2. api'.vpc = Merge(TRUE, before.vpc, mem.vpc, api.vpc)
          BY <4>1 DEF TypeOK, Object, Persisted
        <4> QED BY <4>2 DEF Networked, Merge
      <3>2. CASE ~api.exists
        BY <1>4, <3>2 DEF Networked
      <3> QED BY <3>1, <3>2
    <2> QED BY <1>2, <1>3, <2>1, <2>2, <2>3 DEF Networked
  <1> QED BY <1>5, <1>6

LEMMA NetworkedWorker ==
    ASSUME IInv, Networked, incidents = 0, incidents' = 0, Worker
    PROVE  Networked'
  <1> USE DEF IInv, Typed
  <1>1. mem \in Object /\ cache \in Object /\ api \in Object /\ vpcs \subseteq Vpc
    BY DEF TypeOK
  <1>2. CASE Reconcile
    <2>1. cache = api /\ before' = api /\ api' = api /\ api.exists /\ vpcs' = vpcs /\ ~Running
      BY <1>2 DEF Reconcile, Fault, Losing, TypeOK, object, cloud, network, Running
    <2>2. /\ mem'.vpc = api.vpc /\ mem'.subnet = api.subnet
          /\ Running' /\ (pc' = "CreateVpc" => api.vpc = None)
      BY <1>1, <1>2, <2>1, NetworkStepNamed
         DEF Reconcile, Object, NetworkStep, ClusterStep, Running
    <2> QED BY <2>1, <2>2 DEF Networked
  <1>3. CASE AddFinalizer \/ SetStatus \/ SetActiveStatus \/ Close
    BY <1>3, NetworkedPatch
       DEF AddFinalizer, SetStatus, SetActiveStatus, Close, Running
  <1>4. CASE CreateVpc
    <2>1. PICK v \in Vpc : vpcs' = vpcs \cup {v} /\ mem' = [mem EXCEPT !.vpc = v]
      BY <1>4 DEF CreateVpc
    <2>2. /\ mem' \in Object /\ mem'.vpc = v /\ mem'.subnet = mem.subnet /\ v # None
      BY <1>1, <2>1, Environment DEF Object
    <2>3. /\ Running /\ mem.vpc = None /\ before.vpc = None
          /\ vpcs = {} /\ mem.subnet = None /\ mem.subnet = before.subnet
      BY <1>1, <1>4, Environment DEF CreateVpc, Networked, NetworkSteps, Running
    <2>4. api.exists /\ api.finalizer /\ UNCHANGED <<api, before>>
      BY <1>4, <2>3, StillThere DEF CreateVpc, object
    <2>5. Running' /\ pc' \notin {"AddFinalizer", "CreateVpc"}
      BY <1>4, <2>2 DEF CreateVpc, NetworkStep, ClusterStep, Running
    <2> QED BY <2>1, <2>2, <2>3, <2>4, <2>5 DEF Networked, NetworkSteps
  <1>5. CASE CreateSubnet
    <2>1. mem'.subnet = mem.vpc /\ mem'.vpc = mem.vpc
      BY <1>1, <1>5 DEF CreateSubnet, Object
    <2> QED BY <1>5, <2>1 DEF CreateSubnet, ClusterStep, Networked, NetworkSteps, Running, object
  <1>6. CASE \/ ShowCluster \/ CreateCluster \/ WaitActive \/ WaitTimesOut \/ ShowActive
             \/ ShowEndpoints \/ CreatePublicip \/ BindEip \/ ShowReady \/ Kubeconfig
    <2>1. mem'.vpc = mem.vpc /\ mem'.subnet = mem.subnet
      BY <1>1, <1>6 DEF ShowCluster, CreateCluster, WaitActive, WaitTimesOut, ShowActive,
                        Observe, ShowEndpoints, CreatePublicip, BindEip, ShowReady,
                        Kubeconfig, Object
    <2>2. /\ UNCHANGED <<api, before, vpcs>>
          /\ Running /\ Running' /\ pc' \notin NetworkSteps
      BY <1>6 DEF ShowCluster, CreateCluster, WaitActive, WaitTimesOut, ShowActive,
                  Observe, ShowEndpoints, CreatePublicip, BindEip, ShowReady, Kubeconfig,
                  object, cloud, network, NetworkSteps, Running
    <2> QED BY <2>1, <2>2, NetworkedQuiet
  <1>7. CASE Dependencies \/ ShowDeleting \/ DeleteCluster \/ WaitDeleted
    <2>1. /\ mem'.vpc = mem.vpc /\ mem'.subnet = mem.subnet
          /\ UNCHANGED <<api, before, vpcs>>
          /\ Running /\ Running' /\ pc' \notin NetworkSteps
      BY <1>1, <1>7 DEF Dependencies, ShowDeleting, DeleteCluster, WaitDeleted,
                        RemoveFinalizer, Object, object, cloud, network, NetworkSteps,
                        Running
    <2> QED BY <2>1, NetworkedQuiet
  <1> QED BY <1>2, <1>3, <1>4, <1>5, <1>6, <1>7 DEF Worker

LEMMA NetworkedRest ==
    ASSUME IInv, Networked, incidents = 0, incidents' = 0,
           Adversity \/ Environs \/ UNCHANGED vars
    PROVE  Networked'
  <1> USE DEF IInv, Typed
  <1>1. CASE CallFails
    <2>1. Running /\ Running' /\ pc' \notin NetworkSteps
      BY <1>1 DEF CallFails, Calls, NetworkSteps, Running
    <2> QED BY <1>1, <2>1, NetworkedQuiet DEF CallFails, object, cloud, network
  <1>2. ~(ReplyLost \/ Crash \/ DeletionFails)
    BY DEF ReplyLost, Crash, DeletionFails, Fault, Losing, TypeOK
  <1>3. CASE UserDeletes
    BY <1>3, UserDeletesFields DEF UserDeletes, Networked, Running, worker, cloud, network
  <1>5. CASE UserEdits
    BY <1>5, UserEditsFields DEF UserEdits, Networked, Running, worker, cloud, network
  <1>4. CASE \/ ExternalDelete \/ SyncCache \/ CloudProgress \/ PhaseDrift \/ PoolsChange
             \/ InfrastructureReady \/ UNCHANGED vars
    <2>1. UNCHANGED <<api, before, mem, pc, vpcs>>
      BY <1>4 DEF ExternalDelete, SyncCache, CloudProgress, PhaseDrift, PoolsChange,
                  InfrastructureReady, vars, object, worker, cloud, network
    <2> QED BY <2>1 DEF Networked, Running
  <1> QED BY <1>1, <1>2, <1>3, <1>4, <1>5 DEF Adversity, Environs

----
(***************************************************************************)
(* The theorems.                                                           *)
(***************************************************************************)

LEMMA NetworkInit == Init => NetworkInv
  <1> SUFFICES ASSUME Init PROVE NetworkInv
    OBVIOUS
  <1>1. Addressed /\ Networked
    BY DEF Init, Addressed, Networked, Running, NewObject
  <1>2. Stranded = {} /\ Indebted = FALSE /\ faults = 0
    BY DEF Init, Stranded, Indebted
  <1> QED BY <1>1, <1>2, BalancedEmpty DEF NetworkInv, Spent

LEMMA NetworkNext == IInv /\ NetworkInv /\ [Next]_vars => NetworkInv'
  <1> SUFFICES ASSUME IInv, NetworkInv, [Next]_vars PROVE NetworkInv'
    OBVIOUS
  <1>1. Addressed'
    BY AddressedNext DEF IInv, NetworkInv
  <1>2. Spent'
    BY SpentWorker, SpentAdversity, SpentEnvirons DEF IInv, NetworkInv, Next
  <1>3. incidents' = 0 => Networked'
    BY IncidentsStay, NetworkedWorker, NetworkedRest DEF IInv, NetworkInv, Next
  <1> QED BY <1>1, <1>2, <1>3 DEF NetworkInv

\* reconcileVPC, reconcileSubnets and reconcileEIP keep their books in every
\* behaviour of the reconciler.
THEOREM NetworkInvariance == Spec => []NetworkInv
  <1> QED BY NetworkInit, NetworkNext, Invariance, PTL DEF Spec

\* Without incidents reconcileVPC never makes a second VPC, nor, while its object
\* exists, one that neither the object nor the running reconcile records, although
\* the identifier waits in memory for the patch that follows createCluster.  With
\* the object the VPC loses its holder (reconcileDelete leaves it behind), and no
\* reconcile that is still under way makes another then.
THEOREM NetworkOwnership == Spec => []NetworkOwned
  <1>1. NetworkInv => NetworkOwned
    <2> SUFFICES ASSUME NetworkInv, incidents = 0
                 PROVE  /\ api.exists =>
                              \A v \in vpcs : api.vpc = v \/ (pc # "Idle" /\ mem.vpc = v)
                        /\ ~api.exists /\ pc # "Idle" => vpcs = {}
                        /\ \A v, w \in vpcs : v = w
                        /\ api.subnet \in {None, api.vpc}
      BY DEF NetworkOwned
    <2> QED BY DEF NetworkInv, Networked, Running
  <1> QED BY <1>1, NetworkInvariance, PTL

\* While nobody asks for a deletion, each fault makes reconcileEIP leave one
\* address at most that no live cluster uses, in whatever order the faults come: a
\* failed bind leaves one, and so does a cluster that is gone when its address is
\* there.  Afterwards the count takes in only the addresses that were never bound:
\* those of the clusters that reconcileDelete deletes stay behind by design.
THEOREM AddressLeaks == Spec => []EipLeakBound
  <1>1. IInv /\ NetworkInv => EipLeakBound
    <2> SUFFICES ASSUME IInv, NetworkInv
                 PROVE  Cardinality({e \in eips : Unused(e)}) <= faults
      BY DEF EipLeakBound
    <2>1. Balanced(Stranded, Indebted, faults) /\ faults \in Nat
      BY DEF IInv, Typed, TypeOK, NetworkInv, Spent
    <2>2. {e \in eips : Unused(e)} \subseteq Stranded
      BY DEF Unused, Stranded, Failing, Wanted, Alive
    <2> QED BY <2>1, <2>2, BalancedBounds
  <1> QED BY <1>1, Invariance, NetworkInvariance, PTL

====
