---- MODULE ControlPlane ----
(***************************************************************************)
(* The CCEManagedControlPlane reconciler: one worker handling one object   *)
(* against the Kubernetes API server and the Huawei Cloud services.        *)
(*                                                                         *)
(*   api     the object stored by the API server                           *)
(*   cache   the copy the manager's informer cache returns                 *)
(*   before  the patch helper's snapshot, taken when the scope is built    *)
(*   mem     managedScope.ControlPlane, the copy the handlers change       *)
(*   pc      the next call of the running reconcile, or "Idle"             *)
(*   seen    the phase the last ShowCluster or CreateCluster returned      *)
(*   phase, vpcs, subnets, eips, bound      the cloud                      *)
(*   secret  the <cluster>-kubeconfig Secret                               *)
(*   pools   whether dependencyCount finds CCEManagedMachinePools          *)
(*   infraReady   Cluster.Status.InfrastructureReady                       *)
(*   faults, incidents    accounting of adverse events (see Fault)         *)
(*                                                                         *)
(* Every action is one call to the API server or to the cloud together     *)
(* with the code between its return and the next call.                     *)
(***************************************************************************)
EXTENDS Naturals, FiniteSets, PatchHelper

CONSTANTS
    Cluster,         \* identifiers the CCE service may give to clusters
    Vpc,             \* identifiers the VPC service may give to VPCs
    Eip,             \* identifiers the EIP service may give to addresses
    None,            \* the empty string
    EndpointAccess,  \* Spec.EndpointAccess of the object as it is created
    Edits,           \* changes of it that the user may make, as pairs
    Drift,           \* phase changes CCE may make on its own, as pairs
    FaultKinds,      \* the kinds of adverse events of this instance
    MaxFaults        \* how many of them a behaviour may contain

\* Phases of a cluster that setStatus handles, the ones it marks ready, and
\* one that stands for every phase it rejects (Hibernation, Hibernating, ...).
Known == {"Creating", "Available", "Upgrading", "Unavailable", "Deleting"}
Serving == {"Available", "Upgrading"}
Unexpected == "Hibernation"
Phase == Known \cup {Unexpected}

\* What may go wrong.  A `losing' fault can separate the controller from
\* what it has created; a plain failed call ("callFails") cannot.
Losing == {"crash", "lostReply", "closeFails", "staleRead", "deleteFails"}
AllFaults == Losing \cup {"callFails", "externalDelete"}

\* A URL found in ShowCluster's endpoints: the internal one of a cluster, or
\* the external one its bound address serves (via).
Endpoint == [cluster : Cluster, via : Eip \cup {None}]

\* Spec.EndpointAccess: absent, or with Public true (the default) or false.
Access == {"public", "private", "unset"}

\* What the kubeconfig Secret says: the server, and whose client certificate.
\* access is a history: what the reconcile that created the Secret went by.
Kubeconfigs == [server : Endpoint \cup {None}, cert : Cluster \cup {None},
                access : Access]

ASSUME Environment ==
    /\ EndpointAccess \in Access
    /\ Edits \subseteq Access \X Access
    /\ FaultKinds \subseteq AllFaults
    /\ MaxFaults \in Nat
    /\ None \notin Cluster \cup Vpc \cup Eip \cup Phase \cup Endpoint \cup Kubeconfigs

\* CCE never brings a cluster into being, or deletes one, on its own: that is
\* CreateCluster, DeleteCluster and the faults "externalDelete", "deleteFails".
ASSUME DriftKeepsClusters ==
    Drift \subseteq (Phase \ {"Deleting"}) \X (Phase \ {"Creating", "Deleting"})

VARIABLES api, cache, before, mem, pc, seen,
          phase, vpcs, subnets, eips, bound, secret,
          pools, infraReady, faults, incidents

object == <<api, cache>>
worker == <<before, mem, pc, seen>>
network == <<vpcs, subnets, eips, bound>>
cloud == <<phase, network>>
others == <<pools, infraReady>>
counters == <<faults, incidents>>
vars == <<object, worker, cloud, secret, others, counters>>

\* failure says whether FailureMessage is set.
Object == [exists : BOOLEAN, deleting : BOOLEAN, finalizer : BOOLEAN,
           label : Cluster \cup {None}, vpc : Vpc \cup {None},
           subnet : Vpc \cup {None}, endpoint : Endpoint \cup {None},
           ready : BOOLEAN, failure : BOOLEAN, initialized : BOOLEAN,
           eip : Eip \cup {None}, access : Access]

NewObject == [exists |-> TRUE, deleting |-> FALSE, finalizer |-> FALSE,
              label |-> None, vpc |-> None, subnet |-> None,
              endpoint |-> None, ready |-> FALSE, failure |-> FALSE,
              initialized |-> FALSE, eip |-> None, access |-> EndpointAccess]

Init ==
    /\ api = NewObject
    /\ cache = NewObject
    /\ before = NewObject
    /\ mem = NewObject
    /\ pc = "Idle"
    /\ seen = None
    /\ phase = [c \in Cluster |-> "Unborn"]
    /\ vpcs = {}
    /\ subnets = {}
    /\ eips = {}
    /\ bound = [c \in Cluster |-> None]
    /\ secret = None
    /\ pools \in BOOLEAN
    /\ infraReady \in BOOLEAN
    /\ faults = 0
    /\ incidents = 0

Alive(c) == phase[c] \in Phase

----
(***************************************************************************)
(* Steps common to the handlers.                                           *)
(***************************************************************************)

\* One adverse event of the environment, within the budget of the instance.
Fault(kind) ==
    /\ kind \in FaultKinds
    /\ faults < MaxFaults
    /\ faults' = faults + 1
    /\ incidents' = IF kind \in Losing THEN incidents + 1 ELSE incidents

NoFault == UNCHANGED counters

\* Where the reconcile stops next once the network, or the cluster, is done.
ClusterStep(o) == IF o.label = None THEN "CreateCluster" ELSE "ShowCluster"

\* Variant: the subnet is looked at before the VPC it needs.
NetworkStepSubnetFirst(o) ==
    CASE o.subnet = None -> "CreateSubnet"
      [] o.subnet # None /\ o.vpc = None -> "CreateVpc"
      [] OTHER -> ClusterStep(o)

\* Variant: a missing subnet makes the whole network.
NetworkStepAgain(o) ==
    IF o.vpc = None \/ o.subnet = None THEN "CreateVpc" ELSE ClusterStep(o)

NetworkStep(o) ==
    CASE o.vpc = None -> "CreateVpc"
      [] o.vpc # None /\ o.subnet = None -> "CreateSubnet"
      [] OTHER -> ClusterStep(o)

\* reconcileCluster from line 80 on: nothing more to do for a cluster that is
\* not ready; a nil EndpointAccess is dereferenced at line 87 and the panic
\* that RecoverPanic catches still runs the deferred Close.  The field is the
\* one this reconcile has read: a user may edit it between two of them.
ReadyStep ==
    CASE ~mem.ready \/ mem.access = "unset" -> "Close"
      [] mem.ready /\ mem.access = "public" -> "ShowEndpoints"
      [] OTHER -> "ShowReady"

\* Variant: the default branch of setStatus takes the cluster for ready.
ObserveDefaultReady(p, next) ==
    /\ seen' = p
    /\ mem' = [mem EXCEPT !.ready = (p \notin {"Creating", "Unavailable", "Deleting"}),
                          !.failure = p = "Unavailable" \/ (@ /\ p # "Available")]
    /\ pc' = next

\* Variant: the cluster that is found available keeps its FailureMessage.
ObserveKeepsFailure(p, next) ==
    /\ seen' = p
    /\ IF p \in Known
       THEN /\ mem' = [mem EXCEPT !.ready = (p \in Serving),
                                  !.failure = @ \/ p = "Unavailable"]
            /\ pc' = next
       ELSE /\ pc' = "Close"
            /\ UNCHANGED mem

\* setStatus up to its PatchObject: an unexpected phase is an error, and
\* leaves Ready and FailureMessage as they were.
Observe(p, next) ==
    /\ seen' = p
    /\ IF p \in Known
       THEN /\ mem' = [mem EXCEPT
                          !.ready = (p \in Serving),
                          !.failure = p = "Unavailable" \/ (@ /\ p # "Available")]
            /\ pc' = next
       ELSE /\ pc' = "Close"
            /\ UNCHANGED mem

\* The object after a PatchObject of which the metadata-and-spec request and
\* the status request were, or were not, served.  An object that is being
\* deleted is gone with its last finalizer.
Persisted(meta, status) ==
    LET kept == Merge(meta, before.finalizer, mem.finalizer, api.finalizer)
    IN  [api EXCEPT
            !.exists      = ~(api.deleting /\ ~kept),
            !.finalizer   = kept,
            !.label       = Merge(meta, before.label, mem.label, @),
            !.vpc         = Merge(meta, before.vpc, mem.vpc, @),
            !.subnet      = Merge(meta, before.subnet, mem.subnet, @),
            !.endpoint    = Merge(meta, before.endpoint, mem.endpoint, @),
            !.ready       = Merge(status, before.ready, mem.ready, @),
            !.failure     = Merge(status, before.failure, mem.failure, @),
            !.initialized = Merge(status, before.initialized, mem.initialized, @),
            !.eip         = Merge(status, before.eip, mem.eip, @)]

\* PatchObject: served, served in part or not at all (a fault), or refused
\* because the object is gone; a copy without changes sends nothing.
PatchObject(fault, served, failed) ==
    \/ /\ api.exists
       /\ api' = Persisted(TRUE, TRUE)
       /\ pc' = served
       /\ NoFault
    \/ /\ api.exists
       /\ \E meta, status \in BOOLEAN :
             /\ ~(meta /\ status)
             /\ api' = Persisted(meta, status)
       /\ pc' = failed
       /\ Fault(fault)
    \/ /\ ~api.exists
       /\ pc' = failed \/ (mem = before /\ pc' = served)
       /\ UNCHANGED api
       /\ NoFault

----
(***************************************************************************)
(* Reconcile, reconcileNormal and ReconcileNetwork.                        *)
(***************************************************************************)

\* Variant: the finalizer waits in memory for the next patch.
ReconcileLateFinalizer ==
    /\ pc = "Idle"
    /\ cache.exists
    /\ IF cache = api THEN NoFault ELSE Fault("staleRead")
    /\ before' = cache
    /\ \/ /\ cache.deleting
          /\ mem' = cache
          /\ pc' = "Dependencies"
       \/ /\ ~cache.deleting
          /\ infraReady
          /\ mem' = [cache EXCEPT !.finalizer = TRUE]
          /\ pc' = NetworkStep(cache)
    /\ UNCHANGED <<object, seen, cloud, secret, others>>

\* Reconcile reads the object from the cache and builds the scope.  While the
\* infrastructure is not ready reconcileNormal only asks to be requeued, and
\* for an object the cache does not hold Reconcile returns: no step.
Reconcile ==
    /\ pc = "Idle"
    /\ cache.exists
    /\ IF cache = api THEN NoFault ELSE Fault("staleRead")
    /\ before' = cache
    /\ \/ /\ cache.deleting
          /\ mem' = cache
          /\ pc' = "Dependencies"
       \/ /\ ~cache.deleting
          /\ infraReady
          /\ mem' = [cache EXCEPT !.finalizer = TRUE]
          /\ pc' = IF cache.finalizer THEN NetworkStep(cache) ELSE "AddFinalizer"
    /\ UNCHANGED <<object, seen, cloud, secret, others>>

AddFinalizer ==
    /\ pc = "AddFinalizer"
    /\ PatchObject("callFails", NetworkStep(mem), "Close")
    /\ UNCHANGED <<cache, before, mem, seen, cloud, secret, others>>

\* reconcileVPC: the new identifier stays in memory until the next patch.  The
\* patch of line 29 carries conditions and the finalizer AddFinalizer stored,
\* so it is told from the creation only when it fails (CallFails).
CreateVpc ==
    /\ pc = "CreateVpc"
    /\ \E v \in Vpc \ vpcs :
          /\ vpcs' = vpcs \cup {v}
          /\ mem' = [mem EXCEPT !.vpc = v]
    /\ pc' = NetworkStep(mem')
    /\ UNCHANGED <<object, before, seen, phase, subnets, eips, bound, secret,
                   others, counters>>

\* createSubnet: the only subnet with the default range in the VPC, made now
\* or, on error VPC.0204, found by listSubnets.  It is named by its VPC.
CreateSubnet ==
    /\ pc = "CreateSubnet"
    /\ subnets' = subnets \cup {mem.vpc}
    /\ mem' = [mem EXCEPT !.subnet = mem.vpc]
    /\ pc' = ClusterStep(mem)
    /\ UNCHANGED <<object, before, seen, phase, vpcs, eips, bound, secret,
                   others, counters>>

----
(***************************************************************************)
(* reconcileCluster, setStatus and waitForClusterActive.                   *)
(***************************************************************************)

\* A 404 sends the reconcile to createCluster.
ShowCluster ==
    /\ pc = "ShowCluster"
    /\ IF Alive(mem.label)
       THEN Observe(phase[mem.label], "SetStatus")
       ELSE pc' = "CreateCluster" /\ UNCHANGED <<mem, seen>>
    /\ UNCHANGED <<object, before, cloud, secret, others, counters>>

\* CreateCluster answers with phase Creating; the label is set in memory and
\* setStatus clears Ready.
CreateCluster ==
    /\ pc = "CreateCluster"
    /\ \E c \in Cluster :
          /\ phase[c] = "Unborn"
          /\ phase' = [phase EXCEPT ![c] = "Creating"]
          /\ mem' = [mem EXCEPT !.label = c, !.ready = FALSE]
    /\ seen' = "Creating"
    /\ pc' = "SetStatus"
    /\ UNCHANGED <<object, before, network, secret, others, counters>>

\* The PatchObject that ends setStatus, then the switch of line 70.
SetStatus ==
    /\ pc = "SetStatus"
    /\ PatchObject("callFails",
                   IF seen \in {"Creating", "Upgrading"} THEN "WaitActive"
                                                         ELSE ReadyStep,
                   "Close")
    /\ UNCHANGED <<cache, before, mem, seen, cloud, secret, others>>

\* The poll that ends the wait: Available goes on; a 404 is dereferenced at
\* line 155, and the panic runs the deferred Close.
WaitActive ==
    /\ pc = "WaitActive"
    /\ \/ phase[mem.label] = "Available" /\ pc' = "ShowActive"
       \/ ~Alive(mem.label) /\ pc' = "Close"
    /\ UNCHANGED <<object, before, mem, seen, cloud, secret, others, counters>>

\* Variant: waitUntil reports success when its retries run out.
WaitTimesOutAsDone ==
    /\ \/ pc = "WaitActive" /\ phase[mem.label] \in Phase \ {"Available"} /\ UNCHANGED mem
       \/ /\ pc = "WaitDeleted" /\ phase[mem.label] = "Deleting"
          /\ mem' = [mem EXCEPT !.finalizer = FALSE]
    /\ pc' = "Close"
    /\ UNCHANGED <<object, before, seen, cloud, secret, others, counters>>

\* Forty polls without the phase the loop waits for: both waits return an error.
WaitTimesOut ==
    /\ \/ pc = "WaitActive" /\ phase[mem.label] \in Phase \ {"Available"}
       \/ pc = "WaitDeleted" /\ phase[mem.label] = "Deleting"
    /\ pc' = "Close"
    /\ UNCHANGED <<object, before, mem, seen, cloud, secret, others, counters>>

\* The ShowCluster after the wait; the phase may have moved on, and a 404 is
\* dereferenced at line 171.
ShowActive ==
    /\ pc = "ShowActive"
    /\ IF Alive(mem.label)
       THEN Observe(phase[mem.label], "SetActiveStatus")
       ELSE pc' = "Close" /\ UNCHANGED <<mem, seen>>
    /\ UNCHANGED <<object, before, cloud, secret, others, counters>>

SetActiveStatus ==
    /\ pc = "SetActiveStatus"
    /\ PatchObject("callFails", ReadyStep, "Close")
    /\ UNCHANGED <<cache, before, mem, seen, cloud, secret, others>>

----
(***************************************************************************)
(* reconcileEIP, the endpoint and reconcileKubeconfig.                     *)
(***************************************************************************)

\* The kubeconfig that createCAPIKubeconfigSecret stores.
NewKubeconfig ==
    [server |-> mem.endpoint, cert |-> mem.label, access |-> mem.access]

\* The Secret after reconcileKubeconfig: one that exists keeps its server and
\* gets a new client certificate.
KubeconfigSecret ==
    IF secret = None THEN NewKubeconfig ELSE [secret EXCEPT !.cert = mem.label]

\* Variant: the address the cluster already has is not looked at.
ShowEndpointsUnchecked ==
    /\ pc = "ShowEndpoints"
    /\ pc' = IF Alive(mem.label) THEN "CreatePublicip" ELSE "Close"
    /\ UNCHANGED <<object, before, mem, seen, cloud, secret, others, counters>>

\* Only the cluster is asked for a public endpoint: the address a failed bind
\* left in Status.Network is not looked at.
ShowEndpoints ==
    /\ pc = "ShowEndpoints"
    /\ pc' = CASE ~Alive(mem.label) -> "Close"
               [] Alive(mem.label) /\ bound[mem.label] = None -> "CreatePublicip"
               [] OTHER -> "ShowReady"
    /\ UNCHANGED <<object, before, mem, seen, cloud, secret, others, counters>>

CreatePublicip ==
    /\ pc = "CreatePublicip"
    /\ \E e \in Eip \ eips :
          /\ eips' = eips \cup {e}
          /\ mem' = [mem EXCEPT !.eip = e]
    /\ pc' = "BindEip"
    /\ UNCHANGED <<object, before, seen, phase, vpcs, subnets, bound, secret,
                   others, counters>>

BindEip ==
    /\ pc = "BindEip"
    /\ IF Alive(mem.label)
       THEN bound' = [bound EXCEPT ![mem.label] = mem.eip] /\ pc' = "ShowReady"
       ELSE pc' = "Close" /\ UNCHANGED bound
    /\ UNCHANGED <<object, before, mem, seen, phase, vpcs, subnets, eips,
                   secret, others, counters>>

\* The external URL wins over the internal one; a 404 is dereferenced at
\* line 97.
ShowReady ==
    /\ pc = "ShowReady"
    /\ IF Alive(mem.label)
       THEN /\ mem' = [mem EXCEPT !.endpoint =
                          [cluster |-> mem.label, via |-> bound[mem.label]]]
            /\ pc' = "Kubeconfig"
       ELSE pc' = "Close" /\ UNCHANGED mem
    /\ UNCHANGED <<object, before, seen, cloud, secret, others, counters>>

\* Variant: the error of reconcileKubeconfig is dropped.
KubeconfigErrorDropped ==
    /\ pc = "Kubeconfig"
    /\ secret' = IF secret = None /\ Alive(mem.label)
                 THEN NewKubeconfig
                 ELSE secret
    /\ mem' = [mem EXCEPT !.initialized = TRUE]
    /\ pc' = "Close"
    /\ UNCHANGED <<object, before, seen, cloud, others, counters>>

\* Variant: the Secret is always created, never updated.
KubeconfigCreateOnly ==
    /\ pc = "Kubeconfig"
    /\ IF Alive(mem.label) /\ secret = None
       THEN /\ secret' = NewKubeconfig
            /\ mem' = [mem EXCEPT !.initialized = TRUE]
       ELSE UNCHANGED <<secret, mem>>
    /\ pc' = "Close"
    /\ UNCHANGED <<object, before, seen, cloud, others, counters>>

\* CreateKubernetesClusterCert needs the cluster.
Kubeconfig ==
    /\ pc = "Kubeconfig"
    /\ IF Alive(mem.label)
       THEN /\ secret' = KubeconfigSecret
            /\ mem' = [mem EXCEPT !.initialized = TRUE]
       ELSE UNCHANGED <<secret, mem>>
    /\ pc' = "Close"
    /\ UNCHANGED <<object, before, seen, cloud, others, counters>>

----
(***************************************************************************)
(* reconcileDelete, deleteCluster and Close.                               *)
(***************************************************************************)

\* DeleteNetwork does nothing: RemoveFinalizer follows the cluster's deletion.
RemoveFinalizer ==
    /\ pc' = "Close"
    /\ mem' = [mem EXCEPT !.finalizer = FALSE]

\* dependencyCount, then the head of deleteCluster: an object without a label
\* has nothing to delete.
Dependencies ==
    /\ pc = "Dependencies"
    /\ \/ pools /\ pc' = "Close" /\ UNCHANGED mem
       \/ ~pools /\ mem.label # None /\ pc' = "ShowDeleting" /\ UNCHANGED mem
       \/ ~pools /\ mem.label = None /\ RemoveFinalizer
    /\ UNCHANGED <<object, before, seen, cloud, secret, others, counters>>

\* Variant: a 404 is an error here too.
ShowDeleting404IsError ==
    /\ pc = "ShowDeleting"
    /\ pc' = IF Alive(mem.label) THEN "DeleteCluster" ELSE "Close"
    /\ UNCHANGED <<object, before, mem, seen, cloud, secret, others, counters>>

ShowDeleting ==
    /\ pc = "ShowDeleting"
    /\ IF Alive(mem.label)
       THEN pc' = "DeleteCluster" /\ UNCHANGED mem
       ELSE RemoveFinalizer
    /\ UNCHANGED <<object, before, seen, cloud, secret, others, counters>>

\* Variant: the deletion is not waited for.
DeleteClusterNoWait ==
    /\ pc = "DeleteCluster"
    /\ phase' = IF Alive(mem.label) THEN [phase EXCEPT ![mem.label] = "Deleting"]
                                    ELSE phase
    /\ RemoveFinalizer
    /\ UNCHANGED <<object, before, seen, network, secret, others, counters>>

DeleteCluster ==
    /\ pc = "DeleteCluster"
    /\ IF Alive(mem.label)
       THEN /\ phase' = [phase EXCEPT ![mem.label] = "Deleting"]
            /\ pc' = "WaitDeleted"
            /\ UNCHANGED mem
       ELSE RemoveFinalizer /\ UNCHANGED phase
    /\ UNCHANGED <<object, before, seen, network, secret, others, counters>>

\* Variant: Reconcile lacks the return before reconcileDelete, and goes on.
WaitDeletedFallsThrough ==
    /\ pc = "WaitDeleted"
    /\ phase[mem.label] # "Deleting"
    /\ pc' = NetworkStep(mem)
    /\ UNCHANGED <<object, before, mem, seen, cloud, secret, others, counters>>

\* The poll that ends the wait: no cluster, or any phase but Deleting.
WaitDeleted ==
    /\ pc = "WaitDeleted"
    /\ phase[mem.label] # "Deleting"
    /\ RemoveFinalizer
    /\ UNCHANGED <<object, before, seen, cloud, secret, others, counters>>

\* The deferred Close; the worker then drops its copy.
Close ==
    /\ pc = "Close"
    /\ PatchObject("closeFails", "Idle", "Idle")
    /\ before' = NewObject
    /\ mem' = NewObject
    /\ seen' = None
    /\ UNCHANGED <<cache, cloud, secret, others>>

----
(***************************************************************************)
(* Faults of the calls, of the process and of the cloud.                   *)
(***************************************************************************)

Calls == {"CreateVpc", "CreateSubnet", "ShowCluster", "CreateCluster",
          "WaitActive", "ShowActive", "ShowEndpoints", "CreatePublicip",
          "BindEip", "ShowReady", "Kubeconfig", "Dependencies",
          "ShowDeleting", "DeleteCluster", "WaitDeleted"}

\* Variant: every error of ShowCluster is taken for a 404.
CallFailsAs404 ==
    /\ pc \in Calls
    /\ Fault("callFails")
    /\ pc' = IF pc = "ShowCluster" THEN "CreateCluster" ELSE "Close"
    /\ UNCHANGED <<object, before, mem, seen, cloud, secret, others>>

\* Variant: reconcileCluster goes on without the address it cannot get.
CallFailsEipOptional ==
    /\ pc \in Calls
    /\ Fault("callFails")
    /\ pc' = IF pc \in {"CreatePublicip", "BindEip"} THEN "ShowReady" ELSE "Close"
    /\ UNCHANGED <<object, before, mem, seen, cloud, secret, others>>

\* A call (or the NewService before it) fails without effect: every handler
\* returns the error and the deferred Close runs.
CallFails ==
    /\ pc \in Calls
    /\ Fault("callFails")
    /\ pc' = "Close"
    /\ UNCHANGED <<object, before, mem, seen, cloud, secret, others>>

\* The service (or, for the Secret, the API server) did what was asked, and the
\* answer was lost.
ReplyLost ==
    /\ Fault("lostReply")
    /\ pc' = "Close"
    /\ \/ /\ pc = "CreateVpc"
          /\ \E v \in Vpc \ vpcs : vpcs' = vpcs \cup {v}
          /\ UNCHANGED <<phase, subnets, eips, bound, secret>>
       \/ /\ pc = "CreateSubnet"
          /\ subnets' = subnets \cup {mem.vpc}
          /\ UNCHANGED <<phase, vpcs, eips, bound, secret>>
       \/ /\ pc = "CreateCluster"
          /\ \E c \in Cluster :
                /\ phase[c] = "Unborn"
                /\ phase' = [phase EXCEPT ![c] = "Creating"]
          /\ UNCHANGED <<network, secret>>
       \/ /\ pc = "CreatePublicip"
          /\ \E e \in Eip \ eips : eips' = eips \cup {e}
          /\ UNCHANGED <<phase, vpcs, subnets, bound, secret>>
       \/ /\ pc = "BindEip"
          /\ Alive(mem.label)
          /\ bound' = [bound EXCEPT ![mem.label] = mem.eip]
          /\ UNCHANGED <<phase, vpcs, subnets, eips, secret>>
       \/ /\ pc = "Kubeconfig"
          /\ Alive(mem.label)
          /\ secret' = KubeconfigSecret
          /\ UNCHANGED cloud
       \/ /\ pc = "DeleteCluster"
          /\ Alive(mem.label)
          /\ phase' = [phase EXCEPT ![mem.label] = "Deleting"]
          /\ UNCHANGED <<network, secret>>
    /\ UNCHANGED <<object, before, mem, seen, others>>

\* The manager dies, or loses its lease; its successor lists the objects anew.
Crash ==
    /\ pc # "Idle"
    /\ Fault("crash")
    /\ pc' = "Idle"
    /\ before' = NewObject
    /\ mem' = NewObject
    /\ seen' = None
    /\ cache' = api
    /\ UNCHANGED <<api, cloud, secret, others>>

\* Someone deletes the cluster in the console, or CCE gives up a deletion.
ExternalDelete ==
    /\ Fault("externalDelete")
    /\ \E c \in Cluster :
          /\ phase[c] \in Phase \ {"Deleting"}
          /\ phase' = [phase EXCEPT ![c] = "Deleting"]
    /\ UNCHANGED <<object, worker, network, secret, others>>

DeletionFails ==
    /\ Fault("deleteFails")
    /\ \E c \in Cluster :
          /\ phase[c] = "Deleting"
          /\ phase' = [phase EXCEPT ![c] = "Unavailable"]
    /\ UNCHANGED <<object, worker, network, secret, others>>

----
(***************************************************************************)
(* The rest of the environment.                                            *)
(***************************************************************************)

SyncCache ==
    /\ cache # api
    /\ cache' = api
    /\ UNCHANGED <<api, worker, cloud, secret, others, counters>>

UserDeletes ==
    /\ api.exists /\ ~api.deleting
    /\ api' = IF api.finalizer THEN [api EXCEPT !.deleting = TRUE]
                               ELSE [api EXCEPT !.exists = FALSE]
    /\ UNCHANGED <<cache, worker, cloud, secret, others, counters>>

\* endpointAccess is mutable, and read afresh by every reconcile.
UserEdits ==
    /\ api.exists
    /\ \E access \in Access :
          /\ <<api.access, access>> \in Edits
          /\ api' = [api EXCEPT !.access = access]
    /\ UNCHANGED <<cache, worker, cloud, secret, others, counters>>

\* CCE finishes what it was asked for.
CloudProgress ==
    /\ \E c \in Cluster :
          \/ phase[c] = "Creating" /\ phase' = [phase EXCEPT ![c] = "Available"]
          \/ phase[c] = "Deleting" /\ phase' = [phase EXCEPT ![c] = "Gone"]
    /\ UNCHANGED <<object, worker, network, secret, others, counters>>

PhaseDrift ==
    /\ \E c \in Cluster, p \in Phase :
          /\ <<phase[c], p>> \in Drift
          /\ phase' = [phase EXCEPT ![c] = p]
    /\ UNCHANGED <<object, worker, network, secret, others, counters>>

\* The first machine pool of the cluster is created, the last one is gone.
PoolsChange ==
    /\ pools' = ~pools
    /\ UNCHANGED <<object, worker, cloud, secret, infraReady, counters>>

InfrastructureReady ==
    /\ ~infraReady
    /\ infraReady' = TRUE
    /\ UNCHANGED <<object, worker, cloud, secret, pools, counters>>

Worker ==
    \/ Reconcile \/ AddFinalizer \/ CreateVpc \/ CreateSubnet
    \/ ShowCluster \/ CreateCluster \/ SetStatus
    \/ WaitActive \/ WaitTimesOut \/ ShowActive \/ SetActiveStatus
    \/ ShowEndpoints \/ CreatePublicip \/ BindEip \/ ShowReady \/ Kubeconfig
    \/ Dependencies \/ ShowDeleting \/ DeleteCluster \/ WaitDeleted
    \/ Close

Adversity ==
    \/ CallFails \/ ReplyLost \/ Crash \/ ExternalDelete \/ DeletionFails

Environs ==
    \/ SyncCache \/ UserDeletes \/ UserEdits \/ CloudProgress \/ PhaseDrift
    \/ PoolsChange \/ InfrastructureReady

Next == Worker \/ Adversity \/ Environs

Spec == Init /\ [][Next]_vars

\* The work queue brings the object back (events, backoff, the ten-minute
\* resync), calls return, the informer catches up, CCE finishes, and Cluster
\* API publishes that the infrastructure is ready.
Fairness ==
    /\ WF_vars(Worker)
    /\ WF_vars(SyncCache)
    /\ WF_vars(CloudProgress)
    /\ WF_vars(InfrastructureReady)

FairSpec == Spec /\ Fairness
----
(***************************************************************************)
(* Properties.                                                             *)
(***************************************************************************)

Steps == Calls \cup {"Idle", "AddFinalizer", "SetStatus", "SetActiveStatus",
                     "Close"}

\* Every variable keeps the shape the code gives it.
TypeOK ==
    /\ api \in Object /\ cache \in Object
    /\ before \in Object /\ mem \in Object
    /\ pc \in Steps
    /\ seen \in Phase \cup {None}
    /\ phase \in [Cluster -> Phase \cup {"Unborn", "Gone"}]
    /\ vpcs \subseteq Vpc /\ subnets \subseteq Vpc
    /\ eips \subseteq Eip
    /\ bound \in [Cluster -> Eip \cup {None}]
    /\ secret \in Kubeconfigs \cup {None}
    /\ pools \in BOOLEAN /\ infraReady \in BOOLEAN
    /\ faults \in Nat /\ incidents \in Nat

\* The object's label names the cluster, or the running reconcile does.
Held(c) ==
    \/ api.exists /\ api.label = c
    \/ pc # "Idle" /\ mem.label = c

\* As long as no crash, lost answer, failed Close, stale read or abandoned
\* deletion has happened, calls and patches may fail at will and CCE may lose
\* clusters: there is at most one live cluster, and the controller holds its
\* identifier (createCluster's label, kept in memory until a patch).
ClusterOwned ==
    incidents = 0 =>
        \A c, d \in Cluster : Alive(c) /\ Alive(d) => c = d /\ Held(c)

\* Each such incident orphans at most one cluster.
ClusterLeakBound ==
    Cardinality({c \in Cluster : Alive(c) /\ ~Held(c)}) <= incidents

\* Without incidents there is at most one VPC; while the object exists the
\* object records it, or the running reconcile holds it (its identifier reaches
\* the API server only with the patch that follows createCluster), and a
\* reconcile whose object vanished under it has made none.  A VPC loses its
\* holder in one way only, with the object: reconcileDelete leaves it behind.
NetworkOwned ==
    incidents = 0 =>
        /\ api.exists =>
              \A v \in vpcs : api.vpc = v \/ (pc # "Idle" /\ mem.vpc = v)
        /\ ~api.exists /\ pc # "Idle" => vpcs = {}
        /\ \A v, w \in vpcs : v = w
        /\ api.subnet \in {None, api.vpc}

\* A public address no cluster uses: about to be bound it is not, and any
\* cluster it was bound to is gone though nobody asked for a deletion.  (With
\* the cluster that reconcileDelete deletes, its address stays behind, as the
\* VPC does: deleteCluster and DeleteNetwork release none.)
Unused(e) ==
    /\ ~(pc = "BindEip" /\ mem.eip = e)
    /\ \A c \in Cluster :
          bound[c] = e => ~Alive(c) /\ api.exists /\ ~api.deleting

\* Each unused address is paid for by one fault: a failed bind, say, after
\* which reconcileEIP asks for another, or a cluster that CCE has lost.
EipLeakBound == Cardinality({e \in eips : Unused(e)}) <= faults

\* AddFinalizer is stored before any call that creates something: a deletion
\* requested at any time finds the controller in charge.
FinalizerFirst ==
    incidents = 0 /\ pc \in {"CreateVpc", "CreateSubnet", "CreateCluster",
                             "CreatePublicip", "BindEip"}
        => api.exists /\ api.finalizer

\* Status.Initialized is published only after the kubeconfig Secret was
\* written, and (incidents aside) together with an endpoint.
KubeconfigFirst ==
    api.initialized => /\ secret # None
                       /\ incidents = 0 => api.endpoint # None

\* Status.Ready changes only towards what the last phase read says, whatever
\* the patch helper's old snapshot makes of the patches.
ReadyFollowsPhase ==
    [][api'.ready # api.ready => (api'.ready <=> seen \in Serving)]_vars

\* What the reconciler promises of the clusters it makes, as Ownership puts it.
Clusters == INSTANCE Ownership
            WITH live <- {c \in Cluster : Alive(c)},
                 guarded <- api.exists /\ api.finalizer

\* The reconciler implements it through every step of its calls and patches:
\* clusters are made one at a time and under a stored finalizer, and no patch
\* takes the finalizer off while a cluster is left, incidents aside.
OwnsClusters == Clusters!Spec

\* The kubeconfig leads where the object says: between reconciles the server in
\* the Secret is the published endpoint, or belongs to a cluster that is gone
\* (reconcileKubeconfig never rewrites it), or it is the internal URL of the
\* same cluster and the Secret was made before the user opened the cluster up.
KubeconfigServer ==
    incidents = 0 /\ pc = "Idle" /\ api.initialized
        => \/ secret.server = api.endpoint
           \/ ~Alive(secret.server.cluster)
           \/ /\ secret.access # "public"
              /\ secret.server = [api.endpoint EXCEPT !.via = None]

\* A deletion of the object completes once its pools are gone for good, through
\* crashes, lost answers, failed calls and clusters CCE fails to delete.
DeletionCompletes == <>[]~pools => (api.deleting ~> ~api.exists)

\* CCE has stopped taking clusters away from service on its own.
Calm == \A c \in Cluster : Alive(c) => phase[c] \in {"Creating", "Available", "Deleting"}

\* Once CCE is calm, an object nobody deletes is eventually initialized: cluster
\* created, endpoint found, kubeconfig written.
Initializes == <>[]Calm => <>(api.initialized \/ api.deleting \/ ~api.exists)

Settled ==
    /\ api.exists /\ ~api.deleting /\ api.label # None
    /\ phase[api.label] = "Available"

\* Once the cluster the object names is available for good, the object ends up
\* ready and without the FailureMessage of earlier days, whatever reconcile was
\* under way and whatever its patches were computed against.
StatusConverges == <>[]Settled => <>[](api.ready /\ ~api.failure)

----
(***************************************************************************)
(* What comments of the code say, and the code does not do.                *)
(***************************************************************************)

\* network.go:36, "DeleteNetwork deletes the network of the given cluster":
\* once the object is gone, so are the VPC and the address it recorded.
NetworkDeleted == ~api.exists => api.vpc \notin vpcs /\ api.eip \notin eips

\* The finalizer's comment, "allows the controller to clean up resources on
\* delete": the object outlives the cluster its label names.
FinalizerGuards == ~api.exists /\ api.label # None => ~Alive(api.label)

\* The comment on Status.Ready, "denotes that the CCEManagedControlPlane API
\* Server is ready to receive requests": a reconcile that has read a phase
\* does not end with Ready published for a cluster that does not serve.
ReadyMeansServing ==
    [][pc = "Close" /\ pc' = "Idle" /\ api'.ready
            => seen \in Serving \cup {None}]_vars

====
