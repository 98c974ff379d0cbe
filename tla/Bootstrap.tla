---- MODULE Bootstrap ----
(***************************************************************************)
(* How the three reconcilers of one Cluster wake each other: the           *)
(* CCEManagedCluster ("ic"), its CCEManagedControlPlane ("cp") and one     *)
(* CCEManagedMachinePool ("pool"), each with its work queue and the        *)
(* watches its SetupWithManager registers, and the gate Cluster API puts   *)
(* between them (InfrastructureReady).                                     *)
(*                                                                         *)
(*   cluster   the Cluster, as the manager's informer shows it             *)
(*   owned     the objects whose OwnerRef is set                           *)
(*   ic, cp, pool      what the reconcilers publish of the objects         *)
(*   serving   whether CCE reports the cluster as available                *)
(*   queue     the objects whose key is in a work queue                    *)
(*   timers    the objects with a RequeueAfter or a backoff running        *)
(*   running   what the reconcile of each object is about to do            *)
(*   missed    history: the objects that have had no reconcile since a     *)
(*             change that concerns them and that no watch reports         *)
(*   faults    how many failures there have been                           *)
(*                                                                         *)
(* The cloud calls of a reconcile are ControlPlane's and NodePool's; here  *)
(* a reconcile is what it reads at first and what it publishes at last.    *)
(***************************************************************************)
EXTENDS Naturals

CONSTANTS
    None,        \* the zero endpoint; no reconcile running
    Endpoint,    \* the API server URLs a control plane may get
    MaxFaults    \* failed reconciles and crashes in a behaviour

\* What a running reconcile is about to do: publish the endpoint it has read,
\* setStatus, Close or the end of a deletion, the patch of a pool's status.
ClusterPlan == [copy : Endpoint \cup {None}]
ControlPlanePlan == {"Observe", "Close", "Delete"}
PoolPlan == {"Serve", "Delete"}

ASSUME Environment ==
    /\ None \notin Endpoint \cup ClusterPlan
    /\ None \notin ControlPlanePlan \cup PoolPlan
    /\ MaxFaults \in Nat

VARIABLES cluster, owned, ic, cp, pool, serving,
          queue, timers, running, missed, faults

objects == <<ic, cp, pool>>
queues == <<queue, timers>>
vars == <<cluster, owned, objects, serving, queues, running, missed, faults>>

Key == {"ic", "cp", "pool"}

\* A control plane or pool with a finalizer is "Guarded"; "Deleting" has a
\* deletion timestamp too.
Life == {"Absent", "New", "Guarded", "Deleting", "Gone"}

Exists(o) == o.life \notin {"Absent", "Gone"}

\* The manifests are applied together, the pool's now or later.
Init ==
    /\ cluster \in [seen : BOOLEAN, paused : BOOLEAN, infraReady : {FALSE}]
    /\ owned = {}
    /\ ic = [ready |-> FALSE, endpoint |-> None]
    /\ cp = [life |-> "New", ready |-> FALSE, endpoint |-> None]
    /\ pool = [life |-> "Absent", served |-> FALSE]
    /\ serving \in BOOLEAN
    /\ queue = {"ic", "cp"}
    /\ timers = {}
    /\ running = [k \in Key |-> None]
    /\ missed = {}
    /\ faults = 0

Fault == faults < MaxFaults /\ faults' = faults + 1

----
(***************************************************************************)
(* The watches.                                                            *)
(***************************************************************************)

\* managedClusterToManagedControlPlane, next to the object's own watch.
HeardFromCluster(owners) ==
    {"ic"} \cup {k \in {"cp"} : "ic" \in owners /\ cluster.seen}

Kept(c) == c.life \in {"New", "Guarded"}

\* managedControlPlaneToManagedCluster: not under deletion, not without an
\* endpoint, not before the Cluster can be read.
TellsCluster(owners, c) ==
    {k \in {"ic"} : Kept(c) /\ c.endpoint # None /\ "cp" \in owners /\ cluster.seen}

\* Variant: the pools too are told only of a control plane with an endpoint.
TellsPoolsEndpoint(owners, c) ==
    {k \in {"pool"} : Kept(c) /\ c.endpoint # None /\ "cp" \in owners /\ Exists(pool)}

\* managedControlPlaneToManagedMachinePool: not under deletion; the OwnerRef
\* names the Cluster whose MachinePools are listed.
TellsPools(owners, c) ==
    {k \in {"pool"} : Kept(c) /\ "cp" \in owners /\ Exists(pool)}

HeardFromControlPlane(owners, c) ==
    {"cp"} \cup TellsCluster(owners, c) \cup TellsPools(owners, c)

\* What a change of the control plane tells nobody of although it concerns
\* them: publishing under deletion.
UnheardFromControlPlane(c) ==
    IF c.life = "Deleting" /\ (c.ready # cp.ready \/ c.endpoint # cp.endpoint)
    THEN {"ic", "pool"} ELSE {}

\* An update of the control plane, as its informer delivers it.
Publish(c) ==
    /\ cp' = c
    /\ queue' = IF c = cp THEN queue
                          ELSE queue \cup HeardFromControlPlane(owned, c)
    /\ missed' = missed \cup UnheardFromControlPlane(c)

\* The OwnerRef is an update of the object, which wakes the same keys.
SetOwnerRef(k) ==
    /\ k \notin owned /\ cluster.seen /\ ~cluster.paused
    /\ k = "cp" => Exists(cp)
    /\ k = "pool" => Exists(pool)
    /\ owned' = owned \cup {k}
    /\ queue' = queue \cup CASE k = "ic" -> HeardFromCluster(owned')
                             [] k = "cp" -> HeardFromControlPlane(owned', cp)
                             [] k = "pool" -> {"pool"}
    /\ UNCHANGED <<cluster, objects, serving, timers, running, missed, faults>>

\* The Cluster shows up in the informer: ClusterUnpaused lets a creation
\* through that is not paused, and ClusterToInfrastructureMapFunc maps it to
\* the CCEManagedCluster.  The control plane's watch of the Cluster maps to
\* nothing: it is built with the kind of an empty object (line 147), and the
\* InfrastructureRef names a CCEManagedCluster.  The pools have no such watch.
ClusterSeen ==
    /\ ~cluster.seen
    /\ cluster' = [cluster EXCEPT !.seen = TRUE]
    /\ queue' = IF cluster.paused THEN queue ELSE queue \cup {"ic"}
    /\ UNCHANGED <<owned, objects, serving, timers, running, missed, faults>>

Pause ==
    /\ ~cluster.paused
    /\ cluster' = [cluster EXCEPT !.paused = TRUE]
    /\ UNCHANGED <<owned, objects, serving, queues, running, missed, faults>>

\* As for ClusterSeen: control plane and pools are not told.
Unpause ==
    /\ cluster.paused
    /\ cluster' = [cluster EXCEPT !.paused = FALSE]
    /\ queue' = IF cluster.seen THEN queue \cup {"ic"} ELSE queue
    /\ missed' = missed \cup {"cp", "pool"}
    /\ UNCHANGED <<owned, objects, serving, timers, running, faults>>

\* Cluster API copies CCEManagedCluster.Status.Ready; nobody is told.
InfrastructureReady ==
    /\ ic.ready /\ ~cluster.infraReady /\ cluster.seen /\ ~cluster.paused
    /\ cluster' = [cluster EXCEPT !.infraReady = TRUE]
    /\ UNCHANGED <<owned, objects, serving, queues, running, missed, faults>>

----
(***************************************************************************)
(* The reconciles.  A worker takes a key off the queue and reads; events   *)
(* that arrive while it works put the key back.                            *)
(***************************************************************************)

Paused == cluster.seen /\ cluster.paused

\* Variant: ready only with the endpoint, as the type's comment has it.
ClusterReturnsNoEndpoint == "ic" \notin owned \/ Paused \/ cp.endpoint = None

\* Where the CCEManagedCluster's Reconcile returns nil, and where an error.
ClusterReturns == "ic" \notin owned \/ Paused

ClusterErrs == ~cluster.seen \/ ~Exists(cp)

\* Variant: the wait for the infrastructure relies on the watch of the Cluster.
ControlPlaneReturnsWaiting ==
    \/ "cp" \notin owned \/ ~Exists(cp) \/ Paused
    \/ cluster.seen /\ cp.life # "Deleting" /\ ~cluster.infraReady

\* Where the control plane's Reconcile returns nil, and where it comes back:
\* an error, or RequeueAfter until the pools are gone or the infrastructure is
\* ready.
ControlPlaneReturns == "cp" \notin owned \/ ~Exists(cp) \/ Paused

ControlPlaneWaits ==
    \/ ~cluster.seen
    \/ cp.life = "Deleting" /\ Exists(pool)
    \/ cp.life # "Deleting" /\ ~cluster.infraReady

\* A pool's Reconcile returns nil, no error, for a Cluster or a control plane
\* it cannot read too, and for a control plane that is not ready.
PoolReturns ==
    \/ "pool" \notin owned \/ ~Exists(pool)
    \/ ~cluster.seen \/ Paused
    \/ ~Exists(cp) \/ ~cp.ready

Returns(k) ==
    \/ k = "ic" /\ ClusterReturns
    \/ k = "cp" /\ ControlPlaneReturns
    \/ k = "pool" /\ PoolReturns

Waits(k) ==
    /\ ~Returns(k)
    /\ \/ k = "ic" /\ ClusterErrs
       \/ k = "cp" /\ ControlPlaneWaits

Take(k) ==
    /\ k \in queue /\ running[k] = None
    /\ missed' = missed \ {k}
    /\ UNCHANGED <<cluster, owned, serving, faults>>

\* A reconcile that ends before it has changed anything, for good or with the
\* key due again after a backoff or a RequeueAfter.
TakeAndReturn(k) ==
    /\ Take(k)
    /\ Returns(k) \/ Waits(k)
    /\ queue' = queue \ {k}
    /\ timers' = IF Waits(k) THEN timers \cup {k} ELSE timers
    /\ UNCHANGED <<objects, running>>

Begin(k, plan) ==
    /\ Take(k)
    /\ ~Returns(k) /\ ~Waits(k)
    /\ running' = [running EXCEPT ![k] = plan]
    /\ UNCHANGED timers

\* The endpoint that will be written is the one read now, the zero one included.
BeginCluster ==
    /\ Begin("ic", [copy |-> cp.endpoint])
    /\ queue' = queue \ {"ic"}
    /\ UNCHANGED objects

\* The patch of the CCEManagedCluster.
EndCluster ==
    /\ running["ic"] # None
    /\ ic' = [ready |-> TRUE, endpoint |-> running["ic"].copy]
    /\ queue' = IF ic' = ic THEN queue ELSE queue \cup HeardFromCluster(owned)
    /\ running' = [running EXCEPT !["ic"] = None]
    /\ UNCHANGED <<cluster, owned, cp, pool, serving, timers, missed, faults>>

\* Up to the first publication; the finalizer is patched first.
BeginControlPlane ==
    \/ /\ cp.life = "Deleting"
       /\ Begin("cp", "Delete")
       /\ queue' = queue \ {"cp"}
       /\ UNCHANGED objects
    \/ /\ Kept(cp)
       /\ Begin("cp", "Observe")
       /\ cp' = [cp EXCEPT !.life = "Guarded"]
       /\ queue' = IF cp' = cp THEN queue \ {"cp"}
                               ELSE queue \cup HeardFromControlPlane(owned, cp')
       /\ UNCHANGED <<ic, pool>>

\* setStatus publishes Ready; a cluster that does not serve ends the reconcile
\* without an error and without a requeue.
ObserveControlPlane ==
    /\ running["cp"] = "Observe"
    /\ cp' = [cp EXCEPT !.ready = serving]
    /\ queue' = IF cp' = cp THEN queue
                            ELSE queue \cup HeardFromControlPlane(owned, cp')
    /\ missed' = missed \cup UnheardFromControlPlane(cp')
                        \cup (IF serving THEN {} ELSE {"cp"})
    /\ running' = [running EXCEPT !["cp"] = IF serving THEN "Close" ELSE None]
    /\ UNCHANGED <<cluster, owned, ic, pool, serving, timers, faults>>

\* The endpoint is published by Close, after the EIP and the kubeconfig.
CloseControlPlane ==
    /\ running["cp"] = "Close"
    /\ \E e \in Endpoint : Publish([cp EXCEPT !.endpoint = e])
    /\ running' = [running EXCEPT !["cp"] = None]
    /\ UNCHANGED <<cluster, owned, ic, pool, serving, timers, faults>>

DeleteControlPlane ==
    /\ running["cp"] = "Delete"
    /\ Publish([cp EXCEPT !.life = "Gone"])
    /\ running' = [running EXCEPT !["cp"] = None]
    /\ UNCHANGED <<cluster, owned, ic, pool, serving, timers, faults>>

\* Variant: the finalizer waits for the patch that ends the reconcile.
BeginPoolLateFinalizer ==
    /\ Begin("pool", IF pool.life = "Deleting" THEN "Delete" ELSE "Serve")
    /\ queue' = queue \ {"pool"}
    /\ UNCHANGED objects

\* The same for a pool.
BeginPool ==
    /\ Begin("pool", IF pool.life = "Deleting" THEN "Delete" ELSE "Serve")
    /\ pool' = [pool EXCEPT !.life = IF @ = "New" THEN "Guarded" ELSE @]
    /\ queue' = IF pool' = pool THEN queue \ {"pool"} ELSE queue
    /\ UNCHANGED <<ic, cp>>

EndPool ==
    /\ running["pool"] # None
    /\ pool' = IF running["pool"] = "Delete" THEN [pool EXCEPT !.life = "Gone"]
                                             ELSE [pool EXCEPT !.served = TRUE]
    /\ queue' = IF pool' = pool THEN queue ELSE queue \cup {"pool"}
    /\ running' = [running EXCEPT !["pool"] = None]
    /\ UNCHANGED <<cluster, owned, ic, cp, serving, timers, missed, faults>>

----
(***************************************************************************)
(* Failures, time and users.                                               *)
(***************************************************************************)

\* A call or a patch fails: every reconcile returns the error.
ReconcileFails(k) ==
    /\ running[k] # None
    /\ Fault
    /\ running' = [running EXCEPT ![k] = None]
    /\ timers' = timers \cup {k}
    /\ UNCHANGED <<cluster, owned, objects, serving, queue, missed>>

\* The manager dies, or loses its lease; its successor lists the objects anew.
Crash ==
    /\ Fault
    /\ queue' = {"ic"} \cup {k \in {"cp"} : Exists(cp)}
                       \cup {k \in {"pool"} : Exists(pool)}
    /\ timers' = {}
    /\ running' = [k \in Key |-> None]
    /\ UNCHANGED <<cluster, owned, objects, serving, missed>>

TimerFires(k) ==
    /\ k \in timers
    /\ timers' = timers \ {k}
    /\ queue' = queue \cup {k}
    /\ UNCHANGED <<cluster, owned, objects, serving, running, missed, faults>>

\* The informers' resync, every SyncPeriod.
Resync ==
    /\ queue' = queue \cup {"ic"} \cup {k \in {"cp"} : Exists(cp)}
                      \cup {k \in {"pool"} : Exists(pool)}
    /\ UNCHANGED <<cluster, owned, objects, serving, timers, running, missed, faults>>

\* CCE takes the cluster out of service, or brings it up.
ServiceChanges ==
    /\ serving' = ~serving
    /\ UNCHANGED <<cluster, owned, objects, queues, running, missed, faults>>

UserCreatesPool ==
    /\ pool.life = "Absent"
    /\ pool' = [pool EXCEPT !.life = "New"]
    /\ queue' = queue \cup {"pool"}
    /\ UNCHANGED <<cluster, owned, ic, cp, serving, timers, running, missed, faults>>

\* An object without a finalizer is gone at once.
Deleted(o) == [o EXCEPT !.life = IF @ = "New" THEN "Gone" ELSE "Deleting"]

UserDeletesPool ==
    /\ Kept(pool)
    /\ pool' = Deleted(pool)
    /\ queue' = queue \cup {"pool"}
    /\ UNCHANGED <<cluster, owned, ic, cp, serving, timers, running, missed, faults>>

UserDeletesControlPlane ==
    /\ Kept(cp)
    /\ Publish(Deleted(cp))
    /\ UNCHANGED <<cluster, owned, ic, pool, serving, timers, running, faults>>

Worker(k) ==
    \/ TakeAndReturn(k)
    \/ k = "ic" /\ (BeginCluster \/ EndCluster)
    \/ k = "cp" /\ (BeginControlPlane \/ ObserveControlPlane
                        \/ CloseControlPlane \/ DeleteControlPlane)
    \/ k = "pool" /\ (BeginPool \/ EndPool)

ClusterApi ==
    \/ ClusterSeen \/ InfrastructureReady
    \/ \E k \in Key : SetOwnerRef(k)

Environs ==
    \/ Pause \/ Unpause \/ ServiceChanges
    \/ UserCreatesPool \/ UserDeletesPool \/ UserDeletesControlPlane

Next ==
    \/ \E k \in Key : Worker(k) \/ TimerFires(k) \/ ReconcileFails(k)
    \/ ClusterApi \/ Resync \/ Crash \/ Environs

Spec == Init /\ [][Next]_vars

\* Workers return, timers fire and Cluster API does its part.  No fairness for
\* the resync: what must happen happens by watches and requeues.
Fairness ==
    /\ \A k \in Key : WF_vars(Worker(k)) /\ WF_vars(TimerFires(k))
    /\ WF_vars(ClusterSeen)
    /\ WF_vars(InfrastructureReady)
    /\ \A k \in Key : WF_vars(SetOwnerRef(k))

FairSpec == Spec /\ Fairness

----
(***************************************************************************)
(* Properties.                                                             *)
(***************************************************************************)

\* Every variable keeps the shape the code gives it, and nothing is published
\* of an object, or served for it, before its finalizer is stored.
TypeOK ==
    /\ cluster \in [seen : BOOLEAN, paused : BOOLEAN, infraReady : BOOLEAN]
    /\ owned \subseteq Key
    /\ ic \in [ready : BOOLEAN, endpoint : Endpoint \cup {None}]
    /\ cp \in [life : Life, ready : BOOLEAN, endpoint : Endpoint \cup {None}]
    /\ cp.life = "New" => ~cp.ready /\ cp.endpoint = None
    /\ pool \in [life : Life, served : BOOLEAN]
    /\ pool.served => pool.life \notin {"Absent", "New"}
    /\ serving \in BOOLEAN
    /\ queue \subseteq Key /\ timers \subseteq Key /\ missed \subseteq Key
    /\ DOMAIN running = Key
    /\ running["ic"] \in {None} \cup ClusterPlan
    /\ running["cp"] \in {None} \cup ControlPlanePlan
    /\ running["pool"] \in {None} \cup PoolPlan
    /\ faults \in 0 .. MaxFaults

\* There is something for a reconcile of the object to do, or to wait for.
Due(k) ==
    /\ k \in owned /\ cluster.seen /\ ~cluster.paused /\ Exists(cp)
    /\ CASE k = "ic" -> ~ic.ready \/ ic.endpoint # cp.endpoint
         [] k = "cp" -> cp.life # "Guarded" \/ cp.endpoint = None
         [] k = "pool" -> /\ Exists(pool) /\ cp.ready
                          /\ pool.life = "Deleting" \/ ~pool.served

\* No wakeup is lost: an object that has something to do is queued, or waits
\* for a timer, or is being reconciled, whatever changed under the reconcile
\* that read it.  The exceptions are the changes no watch reports, collected in
\* missed: an unpaused Cluster (control plane and pools), a control plane that
\* publishes under deletion (CCEManagedCluster and pools), and a cluster that
\* was found out of service (control plane).
NoLostWakeup ==
    \A k \in Key : Due(k) => \/ k \in queue \cup timers \cup missed
                             \/ running[k] # None

\* The Cluster is up: the CCEManagedCluster shows the control plane's endpoint,
\* the control plane is ready and no pool waits to be served or deleted.
Up ==
    /\ ic.ready /\ cp.ready
    /\ ic.endpoint # None /\ ic.endpoint = cp.endpoint
    /\ Exists(pool) => pool.served /\ pool.life # "Deleting"

Undisturbed == ~cluster.paused /\ serving /\ Kept(cp)

\* The gates do not block each other: CCEManagedCluster.Ready waits for nobody,
\* InfrastructureReady for it, the control plane for that, the pools for the
\* control plane, and the watches and requeues carry each step to the next;
\* the resync is not needed once nothing is missed.
Bootstraps == <>[](Undisturbed /\ missed = {}) => <>[]Up

\* The resync makes up for every change that no watch reports: a Cluster that
\* has been unpaused, or whose control plane was found out of service.
ResyncRescues == WF_vars(Resync) => (<>[]Undisturbed => <>[]Up)

====
