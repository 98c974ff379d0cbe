---- MODULE Teardown ----
(***************************************************************************)
(* A control plane and a machine pool of the same cluster, each with its   *)
(* reconciler, in one manager and one CCE cluster.  They meet in three     *)
(* places: dependencyCount makes the deletion of the control plane wait    *)
(* for pool objects, Reconcile of the pools waits for a ready control      *)
(* plane, and the node pools live and die with the CCE cluster.            *)
(*                                                                         *)
(* The variables of NodePool carry the prefix p.  No adverse event of      *)
(* either module happens here, and the pool does not drift by itself.      *)
(* The pool object may be created at any time; counted is a history of     *)
(* dependencyCount: "passed" once it has found no pool, "late" when there  *)
(* was or is one all the same, not in the cache yet or created afterwards. *)
(***************************************************************************)
EXTENDS Naturals, FiniteSets

CONSTANTS Cluster, Vpc, Eip, Pool, None, EndpointAccess, Drift

VARIABLES api, cache, before, mem, pc, seen,
          phase, vpcs, subnets, eips, bound, secret, infraReady,
          papi, pcache, pbefore, pmem, ppc, pseen, pcurrent, pphase, pnodes,
          counted

\* Variant: pools that are being deleted are not counted.
ListedButDeleting == pcache.exists /\ ~pcache.deleting

\* dependencyCount lists the CCEManagedMachinePools of the informer cache.
Listed == pcache.exists

\* Variant: a control plane that is being deleted is not good enough.
ControlPlaneReadyAndKept == cache.exists /\ cache.ready /\ ~cache.deleting

\* The pools' Reconcile reads the control plane from the same cache.
ControlPlaneReady == cache.exists /\ cache.ready

CP == INSTANCE ControlPlane
      WITH pools <- Listed, faults <- 0, incidents <- 0,
           Edits <- {}, FaultKinds <- {}, MaxFaults <- 0

\* The life of the CCE cluster of the control plane, as the calls of the pools find it.
ClusterLife ==
    CASE \E c \in Cluster : CP!Alive(c) -> "Alive"
      [] \A c \in Cluster : ~CP!Alive(c) /\ phase[c] # "Gone" -> "Unborn"
      [] OTHER -> "Gone"

NP == INSTANCE NodePool
      WITH api <- papi, cache <- pcache, before <- pbefore, mem <- pmem,
           pc <- ppc, seen <- pseen, current <- pcurrent,
           phase <- pphase, nodes <- pnodes,
           control <- ControlPlaneReady, cluster <- ClusterLife,
           faults <- 0, incidents <- 0, MaxNodes <- 1,
           FaultKinds <- {}, MaxFaults <- 0

\* What the two modules assume of their constants.
ASSUME Environment ==
    /\ EndpointAccess \in CP!Access
    /\ Drift \subseteq (CP!Phase \ {"Deleting"}) \X (CP!Phase \ {"Creating", "Deleting"})
    /\ None \notin Cluster \cup Vpc \cup Eip \cup CP!Phase \cup CP!Endpoint
                    \cup CP!Kubeconfigs
    /\ None \notin Pool \cup NP!Phase

controlPlane == <<api, cache, before, mem, pc, seen,
                  phase, vpcs, subnets, eips, bound, secret, infraReady>>
nodePool == <<papi, pcache, pbefore, pmem, ppc, pseen, pcurrent, pphase, pnodes>>
vars == <<controlPlane, nodePool, counted>>

Init ==
    /\ pcache \in {NP!NewObject, NP!Absent}
    /\ counted = "open"
    /\ CP!Init /\ NP!Init

----
(***************************************************************************)
(* Steps.                                                                  *)
(***************************************************************************)

\* The node pools of a cluster that CCE has deleted are gone too.
PoolsFollow ==
    IF ClusterLife = "Alive" /\ ClusterLife' = "Gone"
    THEN /\ pphase' = [p \in Pool |-> IF NP!Alive(p) THEN "Gone" ELSE pphase[p]]
         /\ pnodes' = [p \in Pool |-> 0]
    ELSE UNCHANGED <<pphase, pnodes>>

\* What the step makes of the pool that dependencyCount has, or has not, seen.
Count ==
    counted' = CASE pc = "Dependencies" /\ pc' # pc /\ ~Listed ->
                        IF papi.exists /\ ~pcache.exists THEN "late" ELSE "passed"
                 [] counted = "passed" /\ papi'.exists /\ ~papi.exists -> "late"
                 [] OTHER -> counted

\* A step of one reconciler, or of its environment, beside the other one.
BesidePool(step) ==
    /\ UNCHANGED <<papi, pcache, pbefore, pmem, ppc, pseen, pcurrent>>
    /\ step
    /\ PoolsFollow
    /\ Count

BesideControlPlane(step) ==
    /\ UNCHANGED controlPlane
    /\ step
    /\ Count

ControlPlaneStep ==
    BesidePool(\/ CP!Worker \/ CP!SyncCache \/ CP!UserDeletes
               \/ CP!CloudProgress \/ CP!PhaseDrift \/ CP!InfrastructureReady)

NodePoolStep ==
    BesideControlPlane(
        \/ NP!Worker \/ NP!SyncCache \/ NP!UserCreates \/ NP!UserDeletes
        \/ \E p \in Pool : NP!CloudProgress(p))

Next == ControlPlaneStep \/ NodePoolStep

Spec == Init /\ [][Next]_vars

\* What the two modules assume of their own work queues, informers and clouds;
\* that the pools go away is no longer assumed of an owner but left to them.
Fairness ==
    /\ WF_vars(BesidePool(CP!Worker))
    /\ WF_vars(BesidePool(CP!SyncCache))
    /\ WF_vars(BesidePool(CP!CloudProgress))
    /\ WF_vars(BesidePool(CP!InfrastructureReady))
    /\ WF_vars(BesideControlPlane(NP!Worker))
    /\ WF_vars(BesideControlPlane(NP!SyncCache))
    /\ \A p \in Pool : WF_vars(BesideControlPlane(NP!CloudProgress(p)))

FairSpec == Spec /\ Fairness

----
(***************************************************************************)
(* Properties.                                                             *)
(***************************************************************************)

\* To the reconciler of the pools the control plane is the environment NodePool
\* assumes when nothing goes wrong: the cluster it finds is made once, and is
\* not replaced when it is gone.  What is checked and proved of NodePool alone
\* holds with the control plane's reconciler, waits and patches beside it.
NodePoolSpec == NP!Spec

\* DeleteCluster is called only when no node pool is left in the cluster: the
\* object of a pool outlives the pool, and dependencyCount waits for it, unless
\* the object is created behind its back.
PoolsFirst ==
    counted # "late" /\ (\E c \in Cluster : phase[c] = "Deleting")
        => \A p \in Pool : ~NP!Alive(p)

\* When both objects are deleted both disappear: the control plane, which waits
\* for the pools, does not keep them waiting for a ready control plane.  A pool
\* created after dependencyCount has passed is left out: it may stay for ever.
TeardownCompletes ==
    [](counted # "late") /\ <>[](papi.deleting \/ ~papi.exists)
        => (api.deleting ~> (~api.exists /\ ~papi.exists))

====
