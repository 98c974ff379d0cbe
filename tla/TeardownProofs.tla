---- MODULE TeardownProofs ----
(***************************************************************************)
(* The invariants of ControlPlane and of NodePool hold side by side, the   *)
(* control plane is an environment that NodePool allows, and no cluster is *)
(* deleted under a node pool.                                              *)
(*                                                                         *)
(* What the pools' specification asks of the control plane is that the     *)
(* cluster does not come back; ControlPlaneProofs!Torn says why it does    *)
(* not.  What PoolsFirst asks of the pools is that a live pool keeps its   *)
(* object in the store; NodePoolProofs!PoolSheltered says so.              *)
(***************************************************************************)
EXTENDS Teardown, TLAPS

CPP == INSTANCE ControlPlaneProofs
       WITH pools <- Listed, faults <- 0, incidents <- 0,
            Edits <- {}, FaultKinds <- {}, MaxFaults <- 0

NPP == INSTANCE NodePoolProofs
       WITH api <- papi, cache <- pcache, before <- pbefore, mem <- pmem,
            pc <- ppc, seen <- pseen, current <- pcurrent,
            phase <- pphase, nodes <- pnodes,
            control <- ControlPlaneReady, cluster <- ClusterLife,
            faults <- 0, incidents <- 0, MaxNodes <- 1,
            FaultKinds <- {}, MaxFaults <- 0

----
(***************************************************************************)
(* The instances of the specifications and of their proofs are the same.   *)
(***************************************************************************)

LEMMA SameControlPlane ==
    /\ CP!Init <=> CPP!Init
    /\ [CP!Next]_CP!vars <=> [CPP!Next]_CPP!vars
  BY DEF
         CP!Known, CPP!Known, CP!Serving, CPP!Serving, CP!Unexpected,
         CPP!Unexpected, CP!Phase, CPP!Phase, CP!Losing, CPP!Losing,
         CP!Access, CPP!Access, CP!NewKubeconfig, CPP!NewKubeconfig,
         CP!KubeconfigSecret, CPP!KubeconfigSecret, CP!UserEdits, CPP!UserEdits,
         CP!object, CPP!object, CP!worker, CPP!worker, CP!network,
         CPP!network, CP!cloud, CPP!cloud, CP!others, CPP!others,
         CP!counters, CPP!counters, CP!vars, CPP!vars, CP!NewObject,
         CPP!NewObject, CP!Init, CPP!Init, CP!Alive, CPP!Alive, CP!Fault,
         CPP!Fault, CP!NoFault, CPP!NoFault, CP!ClusterStep, CPP!ClusterStep,
         CP!NetworkStep, CPP!NetworkStep, CP!ReadyStep, CPP!ReadyStep,
         CP!Observe, CPP!Observe, CP!Persisted, CPP!Persisted,
         CP!PatchObject, CPP!PatchObject, CP!Reconcile, CPP!Reconcile,
         CP!AddFinalizer, CPP!AddFinalizer, CP!CreateVpc, CPP!CreateVpc,
         CP!CreateSubnet, CPP!CreateSubnet, CP!ShowCluster, CPP!ShowCluster,
         CP!CreateCluster, CPP!CreateCluster, CP!SetStatus, CPP!SetStatus,
         CP!WaitActive, CPP!WaitActive, CP!WaitTimesOut, CPP!WaitTimesOut,
         CP!ShowActive, CPP!ShowActive, CP!SetActiveStatus,
         CPP!SetActiveStatus, CP!ShowEndpoints, CPP!ShowEndpoints,
         CP!CreatePublicip, CPP!CreatePublicip, CP!BindEip, CPP!BindEip,
         CP!ShowReady, CPP!ShowReady, CP!Kubeconfig, CPP!Kubeconfig,
         CP!RemoveFinalizer, CPP!RemoveFinalizer, CP!Dependencies,
         CPP!Dependencies, CP!ShowDeleting, CPP!ShowDeleting,
         CP!DeleteCluster, CPP!DeleteCluster, CP!WaitDeleted,
         CPP!WaitDeleted, CP!Close, CPP!Close, CP!Calls, CPP!Calls,
         CP!CallFails, CPP!CallFails, CP!ReplyLost, CPP!ReplyLost, CP!Crash,
         CPP!Crash, CP!ExternalDelete, CPP!ExternalDelete, CP!DeletionFails,
         CPP!DeletionFails, CP!SyncCache, CPP!SyncCache, CP!UserDeletes,
         CPP!UserDeletes, CP!CloudProgress, CPP!CloudProgress, CP!PhaseDrift,
         CPP!PhaseDrift, CP!PoolsChange, CPP!PoolsChange,
         CP!InfrastructureReady, CPP!InfrastructureReady, CP!Worker,
         CPP!Worker, CP!Adversity, CPP!Adversity, CP!Environs, CPP!Environs,
         CP!Next, CPP!Next, CP!Merge, CPP!Merge

LEMMA SameNodePool ==
    /\ NP!Init <=> NPP!Init
    /\ [NP!Next]_NP!vars <=> [NPP!Next]_NPP!vars
    /\ \A p \in Pool : NP!Alive(p) <=> NPP!Alive(p)
  BY DEF
         NP!Phase, NPP!Phase, NP!Losing, NPP!Losing, NP!object, NPP!object,
         NP!worker, NPP!worker, NP!cloud, NPP!cloud, NP!others, NPP!others,
         NP!counters, NPP!counters, NP!vars, NPP!vars, NP!NewObject,
         NPP!NewObject, NP!Absent, NPP!Absent, NP!Init, NPP!Init, NP!Alive,
         NPP!Alive, NP!Fault, NPP!Fault, NP!NoFault, NPP!NoFault,
         NP!FirstStep, NPP!FirstStep, NP!Observe, NPP!Observe, NP!Persisted,
         NPP!Persisted, NP!PatchObject, NPP!PatchObject, NP!Reconcile,
         NPP!Reconcile, NP!AddFinalizer, NPP!AddFinalizer, NP!ShowNodePool,
         NPP!ShowNodePool, NP!CreateNodePool, NPP!CreateNodePool,
         NP!ListNodes, NPP!ListNodes, NP!SetStatus, NPP!SetStatus,
         NP!WaitActive, NPP!WaitActive, NP!WaitTimesOut, NPP!WaitTimesOut,
         NP!ShowActive, NPP!ShowActive, NP!SetActiveStatus,
         NPP!SetActiveStatus, NP!ShowDeleting, NPP!ShowDeleting,
         NP!MarkDeleting, NPP!MarkDeleting, NP!DeleteNodePool,
         NPP!DeleteNodePool, NP!WaitDeleted, NPP!WaitDeleted, NP!MarkDeleted,
         NPP!MarkDeleted, NP!MarkFailed, NPP!MarkFailed, NP!RemoveFinalizer,
         NPP!RemoveFinalizer, NP!Close, NPP!Close, NP!Calls, NPP!Calls,
         NP!CallFails, NPP!CallFails, NP!ReplyLost, NPP!ReplyLost, NP!Crash,
         NPP!Crash, NP!ExternalDelete, NPP!ExternalDelete, NP!DeletionFails,
         NPP!DeletionFails, NP!SyncCache, NPP!SyncCache, NP!UserCreates,
         NPP!UserCreates, NP!UserDeletes, NPP!UserDeletes, NP!CloudProgress,
         NPP!CloudProgress, NP!PoolDrift, NPP!PoolDrift,
         NP!ControlPlaneChanges, NPP!ControlPlaneChanges, NP!ClusterChanges,
         NPP!ClusterChanges, NP!Worker, NPP!Worker, NP!Adversity,
         NPP!Adversity, NP!Environs, NPP!Environs, NP!Next, NPP!Next,
         NP!Merge, NPP!Merge

\* What the two modules assume of their constants, as their instances see it.
LEMMA SamePhases ==
    /\ CPP!Phase = CP!Phase /\ CPP!Endpoint = CP!Endpoint
    /\ CPP!Kubeconfigs = CP!Kubeconfigs /\ CPP!Access = CP!Access
    /\ NPP!Phase = NP!Phase
  BY DEF CP!Phase, CP!Access, CPP!Access, CP!Known, CP!Unexpected, CP!Endpoint,
         CP!Kubeconfigs, CPP!Phase,
         CPP!Known, CPP!Unexpected, CPP!Endpoint, CPP!Kubeconfigs, NP!Phase, NPP!Phase

LEMMA ControlPlaneProved ==
    /\ CP!Init => CPP!Typed /\ CPP!Torn
    /\ CPP!Typed /\ [CP!Next]_CP!vars => CPP!Typed'
    /\ CPP!Typed /\ CPP!Torn /\ [CP!Next]_CP!vars => CPP!Torn'
  <1>1. CP!Init => CPP!Typed /\ CPP!Torn
    BY SameControlPlane, CPP!TypedInit, CPP!TornInit, Environment, SamePhases
       DEF Environment
  <1>2. CPP!Typed /\ [CP!Next]_CP!vars => CPP!Typed'
    BY SameControlPlane, CPP!TypedNext, Environment, SamePhases DEF Environment
  <1>3. CPP!Typed /\ CPP!Torn /\ [CP!Next]_CP!vars => CPP!Torn'
    BY SameControlPlane, CPP!TornNext, Environment, SamePhases DEF Environment
  <1> QED BY <1>1, <1>2, <1>3

LEMMA NodePoolProved ==
    /\ NP!Init => NPP!IInv
    /\ NPP!IInv /\ [NP!Next]_NP!vars => NPP!IInv'
  <1>1. NP!Init => NPP!IInv
    BY SameNodePool, NPP!TypedInit, NPP!TracedInit, NPP!AccountedInit, NPP!StatusInit,
       Environment, SamePhases DEF Environment, NPP!IInv
  <1>2. NPP!IInv /\ [NP!Next]_NP!vars => NPP!IInv'
    BY SameNodePool, NPP!TypedNext, NPP!TracedNext, NPP!AccountedNext, NPP!ToldNext,
       NPP!CleanNext, Environment, SamePhases DEF Environment, NPP!IInv
  <1> QED BY <1>1, <1>2

----
(***************************************************************************)
(* Each is an environment that the other has a specification for.          *)
(***************************************************************************)

\* Whether dependencyCount has passed whenever a cluster is being deleted, and
\* what it has found.
Counted ==
    /\ counted \in {"open", "passed", "late"}
    /\ pc \in {"ShowDeleting", "DeleteCluster", "WaitDeleted"} => counted # "open"
    /\ (\E c \in Cluster : phase[c] \in {"Deleting", "Gone"}) => counted # "open"
    /\ counted = "passed" => ~papi.exists

IInv == CPP!Typed /\ CPP!Torn /\ NPP!IInv /\ Counted

LEMMA Typing ==
    /\ CPP!Typed => /\ phase \in [Cluster -> CP!Phase \cup {"Unborn", "Gone"}]
                    /\ cache.exists \in BOOLEAN /\ cache.ready \in BOOLEAN
    /\ NPP!IInv => pcache.exists \in BOOLEAN /\ papi.exists \in BOOLEAN
  BY SamePhases
     DEF CPP!Typed, CPP!TypeOK, CPP!Object, NPP!IInv, NPP!Typed, NPP!TypeOK, NPP!Object

LEMMA LifeIs ==
    /\ ClusterLife = IF \E c \in Cluster : phase[c] \in CP!Phase THEN "Alive"
                     ELSE IF \E c \in Cluster : phase[c] = "Gone" THEN "Gone"
                     ELSE "Unborn"
    /\ ClusterLife' = IF \E c \in Cluster : phase'[c] \in CP!Phase THEN "Alive"
                      ELSE IF \E c \in Cluster : phase'[c] = "Gone" THEN "Gone"
                      ELSE "Unborn"
  BY DEF ClusterLife, CP!Alive

\* The cluster is born once and dies once, and the cache has no part in it.
LEMMA LifeAges ==
    ASSUME CPP!Typed, CPP!Torn, [CP!Next]_CP!vars
    PROVE  \/ ClusterLife' = ClusterLife
           \/ /\ UNCHANGED cache
              /\ \/ ClusterLife = "Unborn" /\ ClusterLife' = "Alive"
                 \/ ClusterLife = "Alive" /\ ClusterLife' = "Gone"
  <1>1. phase \in [Cluster -> CP!Phase \cup {"Unborn", "Gone"}]
    BY Typing
  <1>2. /\ {"Creating", "Available", "Deleting"} \subseteq CP!Phase
        /\ "Unborn" \notin CP!Phase /\ "Gone" \notin CP!Phase
    BY DEF CP!Phase, CP!Known, CP!Unexpected
  <1>3. \/ UNCHANGED phase
        \/ /\ pc = "CreateCluster" /\ UNCHANGED cache
           /\ \E c \in Cluster :
                 phase[c] = "Unborn" /\ phase' = [phase EXCEPT ![c] = "Creating"]
        \/ /\ UNCHANGED cache
           /\ CPP!Alive(mem.label)
           /\ phase' = [phase EXCEPT ![mem.label] = "Deleting"]
        \/ /\ UNCHANGED cache
           /\ \E c \in Cluster, p \in CP!Phase :
                 phase[c] \in CP!Phase /\ phase' = [phase EXCEPT ![c] = p]
        \/ /\ UNCHANGED cache
           /\ \E c \in Cluster :
                 phase[c] = "Deleting" /\ phase' = [phase EXCEPT ![c] = "Gone"]
    BY CPP!ClustersAge, SameControlPlane, Environment, SamePhases DEF Environment
  <1>4. CASE UNCHANGED phase
    BY <1>4 DEF ClusterLife, CP!Alive
  <1>5. CASE /\ pc = "CreateCluster" /\ UNCHANGED cache
             /\ \E c \in Cluster :
                   phase[c] = "Unborn" /\ phase' = [phase EXCEPT ![c] = "Creating"]
    <2>1. \A c \in Cluster : phase[c] # "Gone"
      BY <1>5 DEF CPP!Torn, CPP!DeleteSteps
    <2>2. ClusterLife' = "Alive"
      BY <1>1, <1>2, <1>5, LifeIs
    <2> QED BY <1>5, <2>1, <2>2, LifeIs
  <1>6. CASE /\ UNCHANGED cache
             /\ CPP!Alive(mem.label)
             /\ phase' = [phase EXCEPT ![mem.label] = "Deleting"]
    <2>1. phase[mem.label] \in CP!Phase
      BY <1>6, SamePhases DEF CPP!Alive
    <2>2. \A c \in Cluster : phase'[c] \in CP!Phase <=> phase[c] \in CP!Phase
      BY <1>1, <1>2, <1>6, <2>1
    <2>3. \A c \in Cluster : phase'[c] = "Gone" <=> phase[c] = "Gone"
      BY <1>1, <1>2, <1>6, <2>1
    <2> QED BY <2>2, <2>3, LifeIs
  <1>7. CASE /\ UNCHANGED cache
             /\ \E c \in Cluster, p \in CP!Phase :
                   phase[c] \in CP!Phase /\ phase' = [phase EXCEPT ![c] = p]
    BY <1>1, <1>7, LifeIs
  <1>8. CASE /\ UNCHANGED cache
             /\ \E c \in Cluster :
                   phase[c] = "Deleting" /\ phase' = [phase EXCEPT ![c] = "Gone"]
    BY <1>1, <1>2, <1>8, LifeIs
  <1> QED BY <1>3, <1>4, <1>5, <1>6, <1>7, <1>8

\* A step of the pools is one of the control plane's environment, which may
\* change what dependencyCount finds.
LEMMA ControlPlaneRefined ==
    ASSUME NPP!IInv, NPP!IInv', [Next]_vars
    PROVE  [CP!Next]_CP!vars
  <1>1. CASE ControlPlaneStep
    BY <1>1 DEF ControlPlaneStep, BesidePool, CP!Next, CP!Environs
  <1>2. CASE UNCHANGED controlPlane
    <2>1. Listed \in BOOLEAN /\ Listed' \in BOOLEAN
      BY DEF Listed, NPP!IInv, NPP!Typed, NPP!TypeOK, NPP!Object
    <2>2. UNCHANGED <<CP!object, CP!worker, CP!cloud, secret, infraReady, CP!counters>>
      BY <1>2 DEF controlPlane, CP!object, CP!worker, CP!cloud, CP!network, CP!counters
    <2>3. CASE Listed' = Listed
      BY <2>2, <2>3 DEF CP!vars, CP!others
    <2>4. CASE Listed' # Listed
      BY <2>1, <2>2, <2>4 DEF CP!Next, CP!Environs, CP!PoolsChange
    <2> QED BY <2>3, <2>4
  <1> QED BY <1>1, <1>2 DEF Next, NodePoolStep, BesideControlPlane, vars

\* A step of the control plane is one of the pools' environment: it makes the
\* control plane ready or not, or brings the cluster to life, or takes it and
\* the pools away.
LEMMA NodePoolRefined ==
    ASSUME CPP!Typed, CPP!Torn, CPP!Typed', ControlPlaneStep
    PROVE  [NP!Next]_NP!vars
  <1>1. [CP!Next]_CP!vars
    BY DEF ControlPlaneStep, BesidePool, CP!Next, CP!Environs
  <1>2. UNCHANGED <<NP!object, NP!worker>>
    BY DEF ControlPlaneStep, BesidePool, NP!object, NP!worker
  <1>3. CASE ClusterLife' = ClusterLife
    <2>1. UNCHANGED <<NP!cloud, NP!counters>>
      BY <1>3 DEF ControlPlaneStep, BesidePool, PoolsFollow, NP!cloud, NP!counters
    <2>2. ControlPlaneReady \in BOOLEAN /\ ControlPlaneReady' \in BOOLEAN
      BY DEF ControlPlaneReady
    <2>3. CASE ControlPlaneReady' = ControlPlaneReady
      BY <1>2, <1>3, <2>1, <2>3 DEF NP!vars, NP!others
    <2>4. CASE ControlPlaneReady' # ControlPlaneReady
      BY <1>2, <1>3, <2>1, <2>2, <2>4 DEF NP!Next, NP!Environs, NP!ControlPlaneChanges
    <2> QED BY <2>3, <2>4
  <1>4. CASE ClusterLife' # ClusterLife
    <2>1. UNCHANGED ControlPlaneReady
      BY <1>1, <1>4, LifeAges DEF ControlPlaneReady
    <2>2. CASE ClusterLife = "Unborn" /\ ClusterLife' = "Alive"
      BY <1>2, <2>1, <2>2 DEF ControlPlaneStep, BesidePool, PoolsFollow, NP!Next, NP!Environs,
         NP!ClusterChanges, NP!cloud, NP!counters
    <2>3. CASE ClusterLife = "Alive" /\ ClusterLife' = "Gone"
      BY <1>2, <2>1, <2>3 DEF ControlPlaneStep, BesidePool, PoolsFollow, NP!Next, NP!Environs,
         NP!ClusterChanges, NP!NoFault, NP!counters
    <2> QED BY <1>1, <1>4, <2>2, <2>3, LifeAges
  <1> QED BY <1>3, <1>4

\* What dependencyCount has found stays so, or is late.
LEMMA CountedNext ==
    ASSUME CPP!Typed, CPP!Torn, NPP!IInv, Counted, [CP!Next]_CP!vars, [Next]_vars
    PROVE  Counted'
  <1>1. CASE NodePoolStep
    <2>1. UNCHANGED <<pc, phase>> /\ Count
      BY <1>1 DEF NodePoolStep, BesideControlPlane, controlPlane
    <2>2. counted' = IF counted = "passed" /\ papi'.exists /\ ~papi.exists
                     THEN "late" ELSE counted
      BY <2>1 DEF Count
    <2> QED BY <2>1, <2>2 DEF Counted
  <1>2. CASE ControlPlaneStep
    <2>1. UNCHANGED <<papi, pcache>> /\ Count
      BY <1>2 DEF ControlPlaneStep, BesidePool
    <2>2. CASE pc = "Dependencies" /\ pc' # pc /\ ~Listed
      BY <2>1, <2>2, Typing DEF Count, Counted, Listed
    <2>3. CASE ~(pc = "Dependencies" /\ pc' # pc /\ ~Listed)
      <3>1. counted' = counted
        BY <2>1, <2>3 DEF Count
      <3>2. pc' \in {"ShowDeleting", "DeleteCluster", "WaitDeleted"} =>
               pc \in {"ShowDeleting", "DeleteCluster", "WaitDeleted"}
        BY <2>3, CPP!DeletionSteps, SameControlPlane, Environment, SamePhases
           DEF Environment, CPP!DeleteSteps
      <3>3. ASSUME NEW c \in Cluster, phase'[c] \in {"Deleting", "Gone"}
            PROVE  phase[c] \in {"Deleting", "Gone"} \/ pc = "DeleteCluster"
        BY <3>3, CPP!ClustersAge, SameControlPlane, Environment, SamePhases, Typing
           DEF Environment, CP!Phase, CP!Known, CP!Unexpected
      <3> QED BY <2>1, <3>1, <3>2, <3>3 DEF Counted
    <2> QED BY <2>2, <2>3
  <1>3. CASE UNCHANGED vars
    BY <1>3 DEF vars, controlPlane, nodePool, Counted
  <1> QED BY <1>1, <1>2, <1>3 DEF Next

LEMMA InitIInv == Init => IInv
  <1>1. ASSUME Init PROVE Counted
    BY <1>1 DEF Init, Counted, CP!Init, CP!NewObject
  <1> QED BY <1>1, ControlPlaneProved, NodePoolProved DEF Init, IInv

LEMMA StepIInv ==
    ASSUME IInv, [Next]_vars
    PROVE  [CP!Next]_CP!vars /\ [NP!Next]_NP!vars /\ IInv'
  <1> USE DEF IInv
  <1>1. CASE ControlPlaneStep
    <2>1. [CP!Next]_CP!vars
      BY <1>1 DEF ControlPlaneStep, BesidePool, CP!Next, CP!Environs
    <2>2. CPP!Typed'
      BY <2>1, ControlPlaneProved
    <2> QED
      BY <1>1, <2>1, <2>2, NodePoolRefined, ControlPlaneProved, NodePoolProved, CountedNext
  <1>2. CASE NodePoolStep \/ UNCHANGED vars
    <2>1. [NP!Next]_NP!vars
      <3>1. CASE NodePoolStep
        BY <3>1 DEF NodePoolStep, BesideControlPlane, NP!Next, NP!Environs
      <3>2. CASE UNCHANGED vars
        BY <3>2 DEF vars, controlPlane, nodePool, NP!vars, NP!object, NP!worker, NP!cloud,
           NP!others, NP!counters, ControlPlaneReady, ClusterLife, CP!Alive
      <3> QED BY <1>2, <3>1, <3>2
    <2>2. NPP!IInv'
      BY <2>1, NodePoolProved
    <2> QED BY <2>1, <2>2, ControlPlaneRefined, ControlPlaneProved, CountedNext
  <1> QED BY <1>1, <1>2 DEF Next

\* In the composition each reconciler keeps its own invariant, and dependencyCount
\* has passed before a cluster is on its way out.
THEOREM Invariance == Spec => []IInv
  BY InitIInv, StepIInv, PTL DEF Spec

----
\* The control plane and its cluster are to the pools nothing but the environment
\* that NodePool allows: what is proved there holds here.
THEOREM NodePoolComposes == Spec => NodePoolSpec
  <1>1. Init => NP!Init
    BY DEF Init
  <1>2. IInv /\ [Next]_vars => [NP!Next]_NP!vars
    BY StepIInv
  <1> QED BY <1>1, <1>2, Invariance, PTL DEF Spec, NodePoolSpec, NP!Spec

\* deleteCluster calls DeleteCluster under no live node pool: dependencyCount has
\* found no object, none has come since, and without an object there is no pool.
THEOREM PoolsGoFirst == Spec => []PoolsFirst
  <1>1. IInv => PoolsFirst
    <2> SUFFICES ASSUME IInv, counted # "late",
                        NEW c \in Cluster, phase[c] = "Deleting",
                        NEW p \in Pool, NP!Alive(p)
                 PROVE  FALSE
      BY DEF PoolsFirst
    <2>1. ~papi.exists
      BY DEF IInv, Counted
    <2>2. papi.exists
      BY NPP!PoolSheltered, SameNodePool, Environment, SamePhases DEF Environment, IInv
    <2> QED BY <2>1, <2>2
  <1> QED BY <1>1, Invariance, PTL
====
