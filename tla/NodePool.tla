---- MODULE NodePool ----
(***************************************************************************)
(* The CCEManagedMachinePool reconciler: one worker handling one object    *)
(* against the Kubernetes API server and the node pools of a CCE cluster.  *)
(*                                                                         *)
(*   api, cache, before, mem     the stored object, the informer's copy,   *)
(*           the patch helper's snapshot, the copy the handlers change     *)
(*   pc      the next call of the running reconcile, or "Idle"             *)
(*   seen, current     phase and CurrentNode of the last ShowNodePool or   *)
(*           CreateNodePool                                                *)
(*   phase, nodes      the node pools of the cluster, and their nodes      *)
(*   control   whether the informer holds a CCEManagedControlPlane whose   *)
(*           Status.Ready is true                                          *)
(*   cluster   the CCE cluster that control plane names: "Unborn",         *)
(*           "Alive" or "Gone"                                             *)
(*   faults, incidents    accounting of adverse events (see Fault)         *)
(*                                                                         *)
(* Every action is one call to the API server or to the cloud together     *)
(* with the code between its return and the next call.                     *)
(***************************************************************************)
EXTENDS Naturals, FiniteSets, PatchHelper

CONSTANTS
    Pool,         \* identifiers the CCE service may give to node pools
    None,         \* the empty string
    MaxNodes,     \* the nodes a pool may have
    FaultKinds,   \* the kinds of adverse events of this instance
    MaxFaults     \* how many of them a behaviour may contain

\* "Active" stands for the empty phase, "Synchronizing" for Synchronized too,
\* and "Error" for SoldOut too.
Phase == {"Active", "Synchronizing", "Error", "Deleting"}

\* What may go wrong, as in ControlPlane.
Losing == {"crash", "lostReply", "closeFails", "staleRead", "deleteFails"}
AllFaults == Losing \cup {"callFails", "externalDelete"}

ASSUME Environment ==
    /\ FaultKinds \subseteq AllFaults
    /\ MaxFaults \in Nat /\ MaxNodes \in Nat
    /\ None \notin Pool \cup Phase

VARIABLES api, cache, before, mem, pc, seen, current,
          phase, nodes, control, cluster, faults, incidents

object == <<api, cache>>
worker == <<before, mem, pc, seen, current>>
cloud == <<phase, nodes>>
others == <<control, cluster>>
counters == <<faults, incidents>>
vars == <<object, worker, cloud, others, counters>>

\* listed is the length of ProviderIDList, failure whether FailureMessage is set.
Object == [exists : BOOLEAN, deleting : BOOLEAN, finalizer : BOOLEAN,
           label : Pool \cup {None}, listed : 0 .. MaxNodes,
           ready : BOOLEAN, replicas : 0 .. MaxNodes, failure : BOOLEAN]

NewObject == [exists |-> TRUE, deleting |-> FALSE, finalizer |-> FALSE,
              label |-> None, listed |-> 0,
              ready |-> FALSE, replicas |-> 0, failure |-> FALSE]

\* Before it is created.
Absent == [NewObject EXCEPT !.exists = FALSE]

Init ==
    /\ api \in {NewObject, Absent}
    /\ cache = api
    /\ before = NewObject
    /\ mem = NewObject
    /\ pc = "Idle"
    /\ seen = None
    /\ current = 0
    /\ phase = [p \in Pool |-> "Unborn"]
    /\ nodes = [p \in Pool |-> 0]
    /\ control = FALSE
    /\ cluster = "Unborn"
    /\ faults = 0
    /\ incidents = 0

Alive(p) == phase[p] \in Phase

----
(***************************************************************************)
(* Steps common to the handlers.                                           *)
(***************************************************************************)

Fault(kind) ==
    /\ kind \in FaultKinds
    /\ faults < MaxFaults
    /\ faults' = faults + 1
    /\ incidents' = IF kind \in Losing THEN incidents + 1 ELSE incidents

NoFault == UNCHANGED counters

\* reconcileNodepool looks a pool up by its label, or creates one.
FirstStep(o) == IF o.label = None THEN "CreateNodePool" ELSE "ShowNodePool"

\* Variant: the pool that is found active keeps its FailureMessage.
ObserveKeepsFailure(p, n, listing, patching) ==
    /\ seen' = p
    /\ current' = n
    /\ mem' = [mem EXCEPT !.ready = (p = "Active"), !.failure = @ \/ (p = "Error")]
    /\ pc' = IF p = "Active" /\ n > 0 THEN listing ELSE patching

\* Variant: a synchronizing pool is taken for ready.
ObserveSynchronizingReady(p, n, listing, patching) ==
    /\ seen' = p
    /\ current' = n
    /\ mem' = [mem EXCEPT !.ready = (p \in {"Active", "Synchronizing"}),
                          !.failure = p = "Error" \/ (@ /\ p # "Active")]
    /\ pc' = IF mem'.ready /\ n > 0 THEN listing ELSE patching

\* Variant: the nodes are listed only when the pool has become ready.
ObserveListsOnce(p, n, listing, patching) ==
    /\ seen' = p
    /\ current' = n
    /\ mem' = [mem EXCEPT !.ready = (p = "Active"),
                          !.failure = p = "Error" \/ (@ /\ p # "Active")]
    /\ pc' = IF p = "Active" /\ n > 0 /\ ~mem.ready THEN listing ELSE patching

\* setStatus up to its ListNodes, which only a ready pool with nodes gets, or
\* to its PatchObject.
Observe(p, n, listing, patching) ==
    /\ seen' = p
    /\ current' = n
    /\ mem' = [mem EXCEPT !.ready = (p = "Active"),
                          !.failure = p = "Error" \/ (@ /\ p # "Active")]
    /\ pc' = IF p = "Active" /\ n > 0 THEN listing ELSE patching

\* The object after a PatchObject of which the metadata-and-spec request and
\* the status request were, or were not, served.
Persisted(meta, status) ==
    LET kept == Merge(meta, before.finalizer, mem.finalizer, api.finalizer)
    IN  [api EXCEPT
            !.exists    = ~(api.deleting /\ ~kept),
            !.finalizer = kept,
            !.label     = Merge(meta, before.label, mem.label, @),
            !.listed    = Merge(meta, before.listed, mem.listed, @),
            !.ready     = Merge(status, before.ready, mem.ready, @),
            !.replicas  = Merge(status, before.replicas, mem.replicas, @),
            !.failure   = Merge(status, before.failure, mem.failure, @)]

\* PatchObject: served, served in part or not at all (a fault), or refused
\* because the object is gone; a copy without changes sends nothing.
PatchObject(fault, served, failed) ==
    \/ /\ api.exists
       /\ api' = Persisted(TRUE, TRUE)
       /\ pc' = served
       /\ NoFault
    \/ /\ api.exists
       /\ \E meta, status \in BOOLEAN :
             /\ ~(meta /\ status)
             /\ api' = Persisted(meta, status)
       /\ pc' = failed
       /\ Fault(fault)
    \/ /\ ~api.exists
       /\ pc' = failed \/ (mem = before /\ pc' = served)
       /\ UNCHANGED api
       /\ NoFault

----
(***************************************************************************)
(* Reconcile and reconcileNormal.                                          *)
(***************************************************************************)

\* Variant: the finalizer waits in memory for the next patch.
ReconcileLateFinalizer ==
    /\ pc = "Idle"
    /\ cache.exists /\ control
    /\ IF cache = api THEN NoFault ELSE Fault("staleRead")
    /\ before' = cache
    /\ \/ /\ cache.deleting
          /\ mem' = cache
          /\ pc' = "ShowDeleting"
       \/ /\ ~cache.deleting
          /\ mem' = [cache EXCEPT !.finalizer = TRUE]
          /\ pc' = FirstStep(cache)
    /\ UNCHANGED <<object, seen, current, cloud, others>>

\* Without a ready control plane Reconcile returns before it builds the scope,
\* for an object that is being deleted too: no step.
Reconcile ==
    /\ pc = "Idle"
    /\ cache.exists /\ control
    /\ IF cache = api THEN NoFault ELSE Fault("staleRead")
    /\ before' = cache
    /\ \/ /\ cache.deleting
          /\ mem' = cache
          /\ pc' = "ShowDeleting"
       \/ /\ ~cache.deleting
          /\ mem' = [cache EXCEPT !.finalizer = TRUE]
          /\ pc' = IF cache.finalizer THEN FirstStep(cache) ELSE "AddFinalizer"
    /\ UNCHANGED <<object, seen, current, cloud, others>>

AddFinalizer ==
    /\ pc = "AddFinalizer"
    /\ PatchObject("callFails", FirstStep(mem), "Close")
    /\ UNCHANGED <<cache, before, mem, seen, current, cloud, others>>

\* A 404 sends reconcileNodepool to createNodepool.
ShowNodePool ==
    /\ pc = "ShowNodePool"
    /\ IF Alive(mem.label)
       THEN Observe(phase[mem.label], nodes[mem.label], "ListNodes", "SetStatus")
       ELSE pc' = "CreateNodePool" /\ UNCHANGED <<mem, seen, current>>
    /\ UNCHANGED <<object, before, cloud, others, counters>>

\* A new pool has no nodes yet; without a cluster the call is refused.
CreateNodePool ==
    /\ pc = "CreateNodePool"
    /\ \/ /\ cluster = "Alive"
          /\ \E p \in Pool, s \in {"Synchronizing", "Active"} :
                /\ phase[p] = "Unborn"
                /\ phase' = [phase EXCEPT ![p] = s]
                /\ mem' = [mem EXCEPT !.label = p, !.ready = (s = "Active"),
                                      !.failure = @ /\ s # "Active"]
                /\ seen' = s
          /\ current' = 0
          /\ pc' = "SetStatus"
       \/ /\ cluster # "Alive"
          /\ pc' = "Close"
          /\ UNCHANGED <<mem, seen, current, phase>>
    /\ UNCHANGED <<object, before, nodes, others, counters>>

\* Variant: a node of another pool is taken for one of this pool.
ListNodesUnfiltered ==
    /\ pc \in {"ListNodes", "ListActiveNodes"}
    /\ mem' = [mem EXCEPT !.replicas = current,
                          !.listed = nodes[mem.label] +
                              Cardinality({p \in Pool \ {mem.label} : nodes[p] > 0})]
    /\ pc' = IF pc = "ListNodes" THEN "SetStatus" ELSE "SetActiveStatus"
    /\ UNCHANGED <<object, before, seen, current, cloud, others, counters>>

\* The nodes are listed now; Replicas is the CurrentNode of the earlier Show.
ListNodes ==
    /\ pc \in {"ListNodes", "ListActiveNodes"}
    /\ mem' = [mem EXCEPT !.replicas = current, !.listed = nodes[mem.label]]
    /\ pc' = IF pc = "ListNodes" THEN "SetStatus" ELSE "SetActiveStatus"
    /\ UNCHANGED <<object, before, seen, current, cloud, others, counters>>

\* The PatchObject that ends setStatus, then the switch of line 121.
SetStatus ==
    /\ pc = "SetStatus"
    /\ PatchObject("callFails",
                   IF seen = "Synchronizing" THEN "WaitActive" ELSE "Close", "Close")
    /\ UNCHANGED <<cache, before, mem, seen, current, cloud, others>>

\* The poll that ends the wait; a 404 is dereferenced at line 296, and the
\* panic that RecoverPanic catches still runs the deferred Close.
WaitActive ==
    /\ pc = "WaitActive"
    /\ \/ phase[mem.label] = "Active" /\ pc' = "ShowActive"
       \/ ~Alive(mem.label) /\ pc' = "Close"
    /\ UNCHANGED <<object, before, mem, seen, current, cloud, others, counters>>

\* Variant: waitUntil reports success when its retries run out.
WaitTimesOutAsDone ==
    /\ \/ /\ pc = "WaitActive"
          /\ phase[mem.label] \in Phase \ {"Active"}
          /\ pc' = "Close"
       \/ /\ pc = "WaitDeleted"
          /\ phase[mem.label] = "Deleting"
          /\ pc' = "MarkDeleted"
    /\ UNCHANGED <<object, before, mem, seen, current, cloud, others, counters>>

\* Forty polls without the phase the loop waits for.
WaitTimesOut ==
    /\ \/ /\ pc = "WaitActive"
          /\ phase[mem.label] \in Phase \ {"Active"}
          /\ pc' = "Close"
       \/ /\ pc = "WaitDeleted"
          /\ phase[mem.label] = "Deleting"
          /\ pc' = "MarkFailed"
    /\ UNCHANGED <<object, before, mem, seen, current, cloud, others, counters>>

\* The ShowNodePool after the wait; setStatus dereferences a 404.
ShowActive ==
    /\ pc = "ShowActive"
    /\ IF Alive(mem.label)
       THEN Observe(phase[mem.label], nodes[mem.label],
                    "ListActiveNodes", "SetActiveStatus")
       ELSE pc' = "Close" /\ UNCHANGED <<mem, seen, current>>
    /\ UNCHANGED <<object, before, cloud, others, counters>>

SetActiveStatus ==
    /\ pc = "SetActiveStatus"
    /\ PatchObject("callFails", "Close", "Close")
    /\ UNCHANGED <<cache, before, mem, seen, current, cloud, others>>

----
(***************************************************************************)
(* reconcileDelete, deleteNodepoolAndWait and Close.                       *)
(***************************************************************************)

\* Variant: a 404 is an error here too.
ShowDeleting404IsError ==
    /\ pc = "ShowDeleting"
    /\ IF mem.label # None /\ Alive(mem.label)
       THEN pc' = "MarkDeleting"
       ELSE pc' = "Close"
    /\ UNCHANGED <<object, before, mem, seen, current, cloud, others, counters>>

\* ReconcilePoolDelete's showNodepool.  An object without a label asks for the
\* pool "", which the service answers with a 404.
ShowDeleting ==
    /\ pc = "ShowDeleting"
    /\ IF mem.label # None /\ Alive(mem.label)
       THEN pc' = "MarkDeleting"
       ELSE pc' = "RemoveFinalizer"
    /\ UNCHANGED <<object, before, mem, seen, current, cloud, others, counters>>

\* NodepoolReadyFalse before the deletion; it changes a condition only.
MarkDeleting ==
    /\ pc = "MarkDeleting"
    /\ PatchObject("callFails", "DeleteNodePool", "Close")
    /\ UNCHANGED <<cache, before, mem, seen, current, cloud, others>>

\* Variant: the deletion is not waited for.
DeleteNodePoolNoWait ==
    /\ pc = "DeleteNodePool"
    /\ phase' = IF Alive(mem.label) THEN [phase EXCEPT ![mem.label] = "Deleting"]
                                    ELSE phase
    /\ pc' = "MarkDeleted"
    /\ UNCHANGED <<object, before, mem, seen, current, nodes, others, counters>>

DeleteNodePool ==
    /\ pc = "DeleteNodePool"
    /\ IF Alive(mem.label)
       THEN /\ phase' = [phase EXCEPT ![mem.label] = "Deleting"]
            /\ pc' = "WaitDeleted"
       ELSE pc' = "MarkDeleted" /\ UNCHANGED phase
    /\ UNCHANGED <<object, before, mem, seen, current, nodes, others, counters>>

\* The poll that ends the wait: no pool, or any phase but Deleting.
WaitDeleted ==
    /\ pc = "WaitDeleted"
    /\ phase[mem.label] # "Deleting"
    /\ pc' = "MarkDeleted"
    /\ UNCHANGED <<object, before, mem, seen, current, cloud, others, counters>>

\* NodepoolReadyFalse in the deferred function: an error of its patch turns a
\* deletion that worked into a failure.
MarkDeleted ==
    /\ pc = "MarkDeleted"
    /\ PatchObject("callFails", "RemoveFinalizer", "Close")
    /\ UNCHANGED <<cache, before, mem, seen, current, cloud, others>>

MarkFailed ==
    /\ pc = "MarkFailed"
    /\ PatchObject("callFails", "Close", "Close")
    /\ UNCHANGED <<cache, before, mem, seen, current, cloud, others>>

RemoveFinalizer ==
    /\ pc = "RemoveFinalizer"
    /\ mem' = [mem EXCEPT !.finalizer = FALSE]
    /\ pc' = "Close"
    /\ UNCHANGED <<object, before, seen, current, cloud, others, counters>>

\* The deferred Close; the worker then drops its copy.
Close ==
    /\ pc = "Close"
    /\ PatchObject("closeFails", "Idle", "Idle")
    /\ before' = NewObject
    /\ mem' = NewObject
    /\ seen' = None
    /\ current' = 0
    /\ UNCHANGED <<cache, cloud, others>>

----
(***************************************************************************)
(* Faults of the calls, of the process and of the cloud.                   *)
(***************************************************************************)

Calls == {"ShowNodePool", "CreateNodePool", "ListNodes", "WaitActive",
          "ShowActive", "ListActiveNodes", "ShowDeleting", "DeleteNodePool",
          "WaitDeleted"}

\* Variant: every error of ShowNodePool is taken for a 404.
CallFailsAs404 ==
    /\ pc \in Calls
    /\ Fault("callFails")
    /\ pc' = CASE pc = "ShowNodePool" -> "CreateNodePool"
               [] pc \in {"DeleteNodePool", "WaitDeleted"} -> "MarkFailed"
               [] OTHER -> "Close"
    /\ UNCHANGED <<object, before, mem, seen, current, cloud, others>>

\* A call (or the NewNodepoolService before it) fails without effect: the
\* handlers return the error, through the deferred patch of a deletion.
CallFails ==
    /\ pc \in Calls
    /\ Fault("callFails")
    /\ pc' = IF pc \in {"DeleteNodePool", "WaitDeleted"} THEN "MarkFailed" ELSE "Close"
    /\ UNCHANGED <<object, before, mem, seen, current, cloud, others>>

\* The service did what was asked, and the answer was lost.
ReplyLost ==
    /\ Fault("lostReply")
    /\ \/ /\ pc = "CreateNodePool"
          /\ cluster = "Alive"
          /\ \E p \in Pool :
                /\ phase[p] = "Unborn"
                /\ phase' = [phase EXCEPT ![p] = "Synchronizing"]
          /\ pc' = "Close"
       \/ /\ pc = "DeleteNodePool"
          /\ Alive(mem.label)
          /\ phase' = [phase EXCEPT ![mem.label] = "Deleting"]
          /\ pc' = "MarkFailed"
    /\ UNCHANGED <<object, before, mem, seen, current, nodes, others>>

\* The manager dies, or loses its lease; its successor lists the objects anew.
Crash ==
    /\ pc # "Idle"
    /\ Fault("crash")
    /\ pc' = "Idle"
    /\ before' = NewObject
    /\ mem' = NewObject
    /\ seen' = None
    /\ current' = 0
    /\ cache' = api
    /\ UNCHANGED <<api, cloud, others>>

\* Someone deletes the pool in the console, or CCE gives up a deletion.
ExternalDelete ==
    /\ Fault("externalDelete")
    /\ \E p \in Pool :
          /\ phase[p] \in Phase \ {"Deleting"}
          /\ phase' = [phase EXCEPT ![p] = "Deleting"]
    /\ UNCHANGED <<object, worker, nodes, others>>

DeletionFails ==
    /\ Fault("deleteFails")
    /\ \E p \in Pool :
          /\ phase[p] = "Deleting"
          /\ phase' = [phase EXCEPT ![p] = "Error"]
    /\ UNCHANGED <<object, worker, nodes, others>>

----
(***************************************************************************)
(* The rest of the environment.                                            *)
(***************************************************************************)

SyncCache ==
    /\ cache # api
    /\ cache' = api
    /\ UNCHANGED <<api, worker, cloud, others, counters>>

UserCreates ==
    /\ api = Absent
    /\ api' = NewObject
    /\ UNCHANGED <<cache, worker, cloud, others, counters>>

\* Without a finalizer the object is gone at once.
UserDeletes ==
    /\ api.exists /\ ~api.deleting
    /\ api' = [api EXCEPT !.deleting = TRUE, !.exists = api.finalizer]
    /\ UNCHANGED <<cache, worker, cloud, others, counters>>

\* CCE finishes what it was asked for; the nodes go with their pool.
CloudProgress(p) ==
    /\ \/ /\ phase[p] = "Synchronizing"
          /\ phase' = [phase EXCEPT ![p] = "Active"]
          /\ UNCHANGED nodes
       \/ /\ phase[p] = "Deleting"
          /\ phase' = [phase EXCEPT ![p] = "Gone"]
          /\ nodes' = [nodes EXCEPT ![p] = 0]
    /\ UNCHANGED <<object, worker, others, counters>>

\* A pool resynchronizes, fails and recovers, and changes its nodes meanwhile.
PoolDrift ==
    /\ \E p \in Pool :
          \/ /\ phase[p] \in {"Active", "Error"}
             /\ phase' = [phase EXCEPT ![p] = "Synchronizing"]
             /\ UNCHANGED nodes
          \/ /\ phase[p] \in {"Active", "Synchronizing"}
             /\ phase' = [phase EXCEPT ![p] = "Error"]
             /\ UNCHANGED nodes
          \/ /\ phase[p] = "Synchronizing"
             /\ \E n \in 0 .. MaxNodes : nodes' = [nodes EXCEPT ![p] = n]
             /\ UNCHANGED phase
    /\ UNCHANGED <<object, worker, others, counters>>

\* The control plane becomes ready, or not ready, or goes.
ControlPlaneChanges ==
    /\ control' = ~control
    /\ UNCHANGED <<object, worker, cloud, cluster, counters>>

\* The cluster of the pools is created, disappears with all of them, or (having
\* been deleted in the console) is replaced by another one.  The control plane
\* may also move to a new cluster and leave the old one running (a stale read
\* in its reconciler): the next reconcile here then looks for the pools in the
\* new one, where there are none; those of the old cluster are orphans with it.
ClusterChanges ==
    /\ \/ /\ cluster = "Unborn" /\ cluster' = "Alive"
          /\ UNCHANGED <<cloud, counters>>
       \/ /\ cluster = "Alive"
          /\ \/ cluster' = "Gone" /\ NoFault
             \/ cluster' = "Alive" /\ pc = "Idle" /\ Fault("externalDelete")
          /\ phase' = [p \in Pool |-> IF Alive(p) THEN "Gone" ELSE phase[p]]
          /\ nodes' = [p \in Pool |-> 0]
       \/ /\ cluster = "Gone" /\ cluster' = "Alive"
          /\ Fault("externalDelete")
          /\ UNCHANGED cloud
    /\ UNCHANGED <<object, worker, control>>

Worker ==
    \/ Reconcile \/ AddFinalizer
    \/ ShowNodePool \/ CreateNodePool \/ ListNodes \/ SetStatus
    \/ WaitActive \/ WaitTimesOut \/ ShowActive \/ SetActiveStatus
    \/ ShowDeleting \/ MarkDeleting \/ DeleteNodePool \/ WaitDeleted
    \/ MarkDeleted \/ MarkFailed \/ RemoveFinalizer \/ Close

Adversity ==
    \/ CallFails \/ ReplyLost \/ Crash \/ ExternalDelete \/ DeletionFails

Environs ==
    \/ SyncCache \/ UserCreates \/ UserDeletes \/ PoolDrift
    \/ \E p \in Pool : CloudProgress(p)
    \/ ControlPlaneChanges \/ ClusterChanges

Next == Worker \/ Adversity \/ Environs

Spec == Init /\ [][Next]_vars

\* The work queue brings the object back (events, backoff, the ten-minute
\* resync), calls return, the informer catches up and CCE finishes.
Fairness ==
    /\ WF_vars(Worker)
    /\ WF_vars(SyncCache)
    /\ \A p \in Pool : WF_vars(CloudProgress(p))

FairSpec == Spec /\ Fairness

----
(***************************************************************************)
(* Properties.                                                             *)
(***************************************************************************)

Steps == Calls \cup {"Idle", "AddFinalizer", "SetStatus", "SetActiveStatus",
                     "MarkDeleting", "MarkDeleted", "MarkFailed",
                     "RemoveFinalizer", "Close"}

\* Every variable keeps the shape the code gives it: what setStatus lists and
\* counts for the object never exceeds what one pool can have.
TypeOK ==
    /\ api \in Object /\ cache \in Object
    /\ before \in Object /\ mem \in Object
    /\ pc \in Steps
    /\ seen \in Phase \cup {None}
    /\ current \in 0 .. MaxNodes
    /\ phase \in [Pool -> Phase \cup {"Unborn", "Gone"}]
    /\ nodes \in [Pool -> 0 .. MaxNodes]
    /\ control \in BOOLEAN
    /\ cluster \in {"Unborn", "Alive", "Gone"}
    /\ faults \in Nat /\ incidents \in Nat

\* The object's label names the pool, or the running reconcile does.
Held(p) ==
    \/ api.exists /\ api.label = p
    \/ pc # "Idle" /\ mem.label = p

\* As long as no crash, lost answer, failed Close, stale read or abandoned
\* deletion has happened, there is at most one live node pool and the
\* controller holds its identifier: an error of ShowNodePool, or a cluster that
\* goes and comes back, never makes createNodepool add a second one.
PoolOwned ==
    incidents = 0 =>
        \A p, q \in Pool : Alive(p) /\ Alive(q) => p = q /\ Held(p)

\* Each such incident orphans at most one node pool.
PoolLeakBound ==
    Cardinality({p \in Pool : Alive(p) /\ ~Held(p)}) <= incidents

\* The finalizer is stored before CreateNodePool is called.
FinalizerFirst ==
    incidents = 0 /\ pc = "CreateNodePool" => api.exists /\ api.finalizer

\* Status.Ready changes only towards what the last phase read says, whatever
\* the patch helper's old snapshot makes of the patches.
ReadyFollowsPhase ==
    [][api'.ready # api.ready => (api'.ready <=> seen = "Active")]_vars

\* A pool is never published as ready and as failed at once (FailureMessage is
\* terminal for Cluster API), although each field goes its own way through the
\* partial patches of one reconcile: two calls of setStatus against one snapshot,
\* each sending both fields in its status request (a stale read, an incident,
\* can compute the patch against an old object).
NeverReadyAndFailed == incidents = 0 => ~(api.ready /\ api.failure)

\* What the reconciler promises of the node pools it makes, as Ownership puts it.
Pools == INSTANCE Ownership
         WITH live <- {p \in Pool : Alive(p)},
              guarded <- api.exists /\ api.finalizer

\* The reconciler implements it through every step of its calls and patches:
\* pools are made one at a time and under a stored finalizer, and no patch takes
\* the finalizer off while a pool is left, incidents aside.
OwnsPools == Pools!Spec

\* With a ready control plane the deletion of the object completes, through
\* crashes, lost answers, failed calls and deletions CCE gives up.
DeletionCompletes ==
    <>[]control => (api.deleting ~> ~api.exists)

Settled ==
    /\ control /\ cluster = "Alive"
    /\ api.exists /\ ~api.deleting /\ api.label # None
    /\ phase[api.label] = "Active" /\ nodes[api.label] > 0

\* Once the pool is left alone with some nodes, the object ends up ready with
\* its Replicas and as many ProviderIDs, whatever reconcile was under way.
StatusConverges ==
    <>[]Settled => <>[](Settled => /\ api.ready
                                   /\ api.replicas = nodes[api.label]
                                   /\ api.listed = nodes[api.label])

----
(***************************************************************************)
(* What comments of the code say, and the code does not do.                *)
(***************************************************************************)

\* managednodepool.go:94, "Close closes the current scope persisting the
\* control plane configuration and status": after a served Close the stored
\* Ready is the one the reconcile computed.
ClosePersists ==
    [][pc = "Close" /\ pc' = "Idle" /\ api.exists /\ UNCHANGED faults
            => api'.ready = mem.ready]_vars

====
