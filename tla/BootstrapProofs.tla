---- MODULE BootstrapProofs ----
(***************************************************************************)
(* Proofs about Bootstrap, for any endpoints and any number of failures.   *)
(* NoLostWakeup is not inductive: a reconcile that is running says nothing *)
(* of what it will leave behind.  Fresh adds it: what a running reconcile  *)
(* has read is either still so, or its key is queued again.                *)
(***************************************************************************)
EXTENDS Bootstrap, TLAPS

Plan == {None} \cup ClusterPlan \cup ControlPlanePlan \cup PoolPlan

\* Who works, and on what: a reconcile passes its gates before it begins, and
\* the finalizer keeps the object of a running reconcile in the store.
Begun ==
    /\ owned # {} => cluster.seen
    /\ running["cp"] # None => "cp" \in owned /\ cp.life \in {"Guarded", "Deleting"}
    /\ running["cp"] = "Delete" => cp.life = "Deleting"
    /\ running["pool"] # None => pool.life \in {"Guarded", "Deleting"}
    /\ running["pool"] = "Delete" => pool.life = "Deleting"

\* The keys that will be, or need not be, reconciled.
Awaited == queue \cup timers \cup missed

\* What a running reconcile has read is so, or its key is awaited: the endpoint
\* that will be copied, and that there is no deletion timestamp.
Fresh ==
    /\ running["ic"] # None /\ running["ic"].copy # cp.endpoint => "ic" \in Awaited
    /\ running["cp"] \in {"Observe", "Close"} /\ cp.life = "Deleting"
           => "cp" \in Awaited
    /\ running["pool"] = "Serve" /\ pool.life = "Deleting" => "pool" \in Awaited

Typed == TypeOK /\ running \in [Key -> Plan]

IInv == Typed /\ Begun /\ Fresh /\ NoLostWakeup

----
(***************************************************************************)
(* Types, and who works.                                                   *)
(***************************************************************************)

LEMMA PlansDiffer ==
    /\ None \notin Endpoint
    /\ \A e \in Endpoint \cup {None} :
           [copy |-> e] # None /\ [copy |-> e] \in ClusterPlan
    /\ None \notin {"Observe", "Close", "Delete", "Serve"}
    /\ ControlPlanePlan = {"Observe", "Close", "Delete"}
    /\ PoolPlan = {"Serve", "Delete"}
    /\ MaxFaults \in Nat
  BY Environment DEF Environment, ClusterPlan, ControlPlanePlan, PoolPlan

LEMMA InitIInv == ASSUME Init PROVE IInv
  <1>1. Typed
    <2>1. TypeOK
      <3>1. /\ running["ic"] = None /\ running["cp"] = None /\ running["pool"] = None
            /\ DOMAIN running = Key
        BY DEF Init, Key
      <3>2. 0 \in 0 .. MaxFaults
        BY PlansDiffer
      <3> QED BY <3>1, <3>2 DEF Init, TypeOK, Key, Life
    <2>2. running \in [Key -> Plan]
      BY DEF Init, Plan
    <2> QED BY <2>1, <2>2 DEF Typed
  <1>2. Begun
    BY PlansDiffer DEF Init, Begun, Key
  <1>3. Fresh
    BY PlansDiffer DEF Init, Fresh, Key
  <1>4. NoLostWakeup
    BY DEF Init, NoLostWakeup, Due
  <1> QED BY <1>1, <1>2, <1>3, <1>4 DEF IInv

\* A reconcile is one of the three, and each has plans of its own.
LEMMA PlanStep ==
    ASSUME Typed, [Next]_vars
    PROVE  running' \in [Key -> Plan]
  <1> USE DEF Typed
  <1>1. None \in Plan /\ {"Observe", "Close", "Delete", "Serve"} \subseteq Plan
    BY DEF Plan, ControlPlanePlan, PoolPlan
  <1>2. [copy |-> cp.endpoint] \in Plan
    BY DEF Plan, ClusterPlan, TypeOK
  <1>3. ASSUME NEW k \in Key, NEW p \in Plan, running' = [running EXCEPT ![k] = p]
        PROVE  running' \in [Key -> Plan]
    BY <1>3
  <1>4. ASSUME NEW k \in Key, Worker(k) PROVE running' \in [Key -> Plan]
    BY <1>1, <1>2, <1>3, <1>4 DEF Worker, TakeAndReturn, BeginCluster, EndCluster,
       BeginControlPlane, ObserveControlPlane, CloseControlPlane,
       DeleteControlPlane, BeginPool, EndPool, Begin
  <1>5. ASSUME NEW k \in Key, ReconcileFails(k) \/ Crash
        PROVE  running' \in [Key -> Plan]
    BY <1>1, <1>3, <1>5 DEF ReconcileFails, Crash
  <1>6. CASE UNCHANGED running
    BY <1>6
  <1> QED
    BY <1>4, <1>5, <1>6 DEF Next, TimerFires, ClusterApi, ClusterSeen,
       InfrastructureReady, SetOwnerRef, Resync, Environs, Pause, Unpause,
       ServiceChanges, UserCreatesPool, UserDeletesPool, UserDeletesControlPlane,
       Key, vars

LEMMA BegunStep ==
    ASSUME Typed, Begun, [Next]_vars
    PROVE  Begun'
  <1> USE DEF Typed, TypeOK, Begun
  <1>1. ASSUME NEW k \in Key, SetOwnerRef(k) PROVE Begun'
    BY <1>1 DEF SetOwnerRef, objects
  <1>2. CASE ClusterSeen \/ Pause \/ Unpause \/ InfrastructureReady
             \/ ServiceChanges \/ Resync
    BY <1>2 DEF ClusterSeen, Pause, Unpause, InfrastructureReady, ServiceChanges,
       Resync, objects, queues
  <1>3. ASSUME NEW k \in Key, TakeAndReturn(k) \/ TimerFires(k) PROVE Begun'
    BY <1>3 DEF TakeAndReturn, Take, TimerFires, objects
  <1>4. CASE BeginCluster
    BY <1>4 DEF BeginCluster, Begin, Take, objects
  <1>5. CASE EndCluster
    BY <1>5 DEF EndCluster
  <1>6. CASE BeginControlPlane
    <2>1. "cp" \in owned
      BY <1>6 DEF BeginControlPlane, Begin, Returns, ControlPlaneReturns
    <2> QED
      BY <1>6, <2>1, PlansDiffer
         DEF BeginControlPlane, Begin, Take, objects, Life, Key
  <1>7. CASE ObserveControlPlane \/ CloseControlPlane \/ DeleteControlPlane
    BY <1>7, PlansDiffer
       DEF ObserveControlPlane, CloseControlPlane, DeleteControlPlane, Publish, Key
  <1>8. CASE BeginPool
    BY <1>8, PlansDiffer
       DEF BeginPool, Begin, Take, Returns, PoolReturns, Exists, Life, Key
  <1>9. CASE EndPool
    BY <1>9, PlansDiffer DEF EndPool, Key
  <1>10. ASSUME NEW k \in Key, ReconcileFails(k) PROVE Begun'
    BY <1>10, PlansDiffer DEF ReconcileFails, objects, Key
  <1>11. CASE Crash
    BY <1>11, PlansDiffer DEF Crash, objects, Key
  <1>12. CASE UserCreatesPool \/ UserDeletesPool
    BY <1>12 DEF UserCreatesPool, UserDeletesPool, Kept, Deleted
  <1>13. CASE UserDeletesControlPlane
    BY <1>13 DEF UserDeletesControlPlane, Publish, Kept, Deleted
  <1>14. CASE UNCHANGED vars
    BY <1>14 DEF vars, objects, queues
  <1> QED
    BY <1>1, <1>2, <1>3, <1>4, <1>5, <1>6, <1>7, <1>8, <1>9, <1>10, <1>11, <1>12,
       <1>13, <1>14 DEF Key, Next, Worker, ClusterApi, Environs

\* Every watch of every step puts keys in the queues.
LEMMA QueueStep ==
    ASSUME Typed, [Next]_vars
    PROVE  /\ queue' \subseteq Key /\ timers' \subseteq Key
           /\ missed' \subseteq Key /\ owned' \subseteq Key
  <1> DEFINE Q == /\ queue' \subseteq Key /\ timers' \subseteq Key
                  /\ missed' \subseteq Key /\ owned' \subseteq Key
  <1> USE DEF Typed, TypeOK
  <1>1. /\ \A o : HeardFromCluster(o) \subseteq Key
        /\ \A o, c : HeardFromControlPlane(o, c) \subseteq Key
        /\ \A c : UnheardFromControlPlane(c) \subseteq Key
    BY DEF HeardFromCluster, HeardFromControlPlane, TellsCluster, TellsPools,
       UnheardFromControlPlane, Key
  <1>2. "ic" \in Key /\ "cp" \in Key /\ "pool" \in Key
    BY DEF Key
  <1>3. ASSUME NEW k \in Key, SetOwnerRef(k) PROVE Q
    <2>1. CASE k = "ic"
      BY <1>1, <1>2, <1>3, <2>1 DEF SetOwnerRef
    <2>2. CASE k = "cp"
      BY <1>1, <1>2, <1>3, <2>2 DEF SetOwnerRef
    <2>3. CASE k = "pool"
      BY <1>1, <1>2, <1>3, <2>3 DEF SetOwnerRef
    <2> QED BY <2>1, <2>2, <2>3 DEF Key
  <1>4. CASE ClusterSeen \/ Pause \/ Unpause \/ InfrastructureReady
             \/ ServiceChanges \/ Resync \/ Crash
    BY <1>2, <1>4 DEF ClusterSeen, Pause, Unpause, InfrastructureReady,
       ServiceChanges, Resync, Crash, queues
  <1>5. ASSUME NEW k \in Key, TakeAndReturn(k) \/ TimerFires(k) \/ ReconcileFails(k)
        PROVE  Q
    BY <1>5 DEF TakeAndReturn, Take, TimerFires, ReconcileFails
  <1>6. CASE BeginCluster \/ BeginPool
    BY <1>6 DEF BeginCluster, BeginPool, Begin, Take
  <1>7. CASE BeginControlPlane
    BY <1>1, <1>7 DEF BeginControlPlane, Begin, Take
  <1>8. CASE EndCluster \/ EndPool
    BY <1>1, <1>2, <1>8 DEF EndCluster, EndPool
  <1>9. CASE ObserveControlPlane
    BY <1>1, <1>2, <1>9 DEF ObserveControlPlane
  <1>10. CASE CloseControlPlane \/ DeleteControlPlane \/ UserDeletesControlPlane
    BY <1>1, <1>10 DEF CloseControlPlane, DeleteControlPlane,
       UserDeletesControlPlane, Publish
  <1>11. CASE UserCreatesPool \/ UserDeletesPool
    BY <1>2, <1>11 DEF UserCreatesPool, UserDeletesPool
  <1>12. CASE UNCHANGED vars
    BY <1>12 DEF vars, queues
  <1> QED
    BY <1>3, <1>4, <1>5, <1>6, <1>7, <1>8, <1>9, <1>10, <1>11, <1>12
       DEF Next, Worker, ClusterApi, Environs

\* What the reconcilers publish of the objects.
LEMMA ObjectStep ==
    ASSUME Typed, Begun, [Next]_vars
    PROVE  /\ ic' \in [ready : BOOLEAN, endpoint : Endpoint \cup {None}]
           /\ cp' \in [life : Life, ready : BOOLEAN, endpoint : Endpoint \cup {None}]
           /\ cp'.life = "New" => ~cp'.ready /\ cp'.endpoint = None
           /\ pool' \in [life : Life, served : BOOLEAN]
           /\ pool'.served => pool'.life \notin {"Absent", "New"}
  <1> DEFINE O == /\ ic' \in [ready : BOOLEAN, endpoint : Endpoint \cup {None}]
                  /\ cp' \in [life : Life, ready : BOOLEAN, endpoint : Endpoint \cup {None}]
                  /\ cp'.life = "New" => ~cp'.ready /\ cp'.endpoint = None
                  /\ pool' \in [life : Life, served : BOOLEAN]
                  /\ pool'.served => pool'.life \notin {"Absent", "New"}
  <1> USE DEF Typed, TypeOK
  <1>1. CASE UNCHANGED objects
    BY <1>1 DEF objects
  <1>2. CASE EndCluster
    <2>1. running["ic"].copy \in Endpoint \cup {None}
      BY <1>2 DEF EndCluster, ClusterPlan
    <2> QED BY <1>2, <2>1 DEF EndCluster
  <1>3. CASE BeginControlPlane
    BY <1>3 DEF BeginControlPlane, objects, Life, Kept
  <1>4. CASE ObserveControlPlane
    BY <1>4, PlansDiffer DEF ObserveControlPlane, Begun
  <1>5. CASE CloseControlPlane
    BY <1>5, PlansDiffer DEF CloseControlPlane, Publish, Begun
  <1>6. CASE DeleteControlPlane
    BY <1>6 DEF DeleteControlPlane, Publish, Life
  <1>7. CASE BeginPool
    BY <1>7 DEF BeginPool, Life
  <1>8. CASE EndPool
    BY <1>8 DEF EndPool, Begun, Life
  <1>9. CASE UserCreatesPool \/ UserDeletesPool
    BY <1>9 DEF UserCreatesPool, UserDeletesPool, Kept, Deleted, Life
  <1>10. CASE UserDeletesControlPlane
    BY <1>10 DEF UserDeletesControlPlane, Publish, Kept, Deleted, Life
  <1> QED
    BY <1>1, <1>2, <1>3, <1>4, <1>5, <1>6, <1>7, <1>8, <1>9, <1>10
       DEF Next, Worker, ClusterApi, Environs, vars, objects, ClusterSeen, Pause,
       Unpause, InfrastructureReady, ServiceChanges, Resync, Crash, TakeAndReturn,
       TimerFires, ReconcileFails, BeginCluster, SetOwnerRef

\* Each reconciler has its own plans.
LEMMA RunningStep ==
    ASSUME Typed, [Next]_vars
    PROVE  /\ running'["ic"] \in {None} \cup ClusterPlan
           /\ running'["cp"] \in {None} \cup ControlPlanePlan
           /\ running'["pool"] \in {None} \cup PoolPlan
  <1> DEFINE R == /\ running'["ic"] \in {None} \cup ClusterPlan
                  /\ running'["cp"] \in {None} \cup ControlPlanePlan
                  /\ running'["pool"] \in {None} \cup PoolPlan
  <1> USE DEF Typed, TypeOK
  <1>1. ASSUME NEW k \in Key, TakeAndReturn(k) PROVE R
    BY <1>1 DEF TakeAndReturn
  <1>2. CASE BeginCluster \/ EndCluster
    BY <1>2, PlansDiffer DEF BeginCluster, EndCluster, Begin, Key
  <1>3. CASE BeginControlPlane
    BY <1>3, PlansDiffer DEF BeginControlPlane, Begin, Key
  <1>4. CASE ObserveControlPlane \/ CloseControlPlane \/ DeleteControlPlane
    BY <1>4, PlansDiffer
       DEF ObserveControlPlane, CloseControlPlane, DeleteControlPlane, Key
  <1>5. CASE BeginPool \/ EndPool
    BY <1>5, PlansDiffer DEF BeginPool, EndPool, Begin, Key
  <1>6. ASSUME NEW k \in Key, ReconcileFails(k) \/ Crash PROVE R
    BY <1>6 DEF ReconcileFails, Crash, Key
  <1>7. CASE UNCHANGED running
    BY <1>7
  <1> QED
    BY <1>1, <1>2, <1>3, <1>4, <1>5, <1>6, <1>7 DEF Next, Worker, TimerFires,
       ClusterApi, ClusterSeen, InfrastructureReady, SetOwnerRef, Resync, Environs,
       Pause, Unpause, ServiceChanges, UserCreatesPool, UserDeletesPool,
       UserDeletesControlPlane, Key, vars

LEMMA EnvironsStep ==
    ASSUME Typed, [Next]_vars
    PROVE  /\ cluster' \in [seen : BOOLEAN, paused : BOOLEAN, infraReady : BOOLEAN]
           /\ serving' \in BOOLEAN
           /\ faults' \in 0 .. MaxFaults
  <1> USE DEF Typed, TypeOK
  <1>1. ASSUME Fault PROVE faults' \in 0 .. MaxFaults
    BY <1>1, PlansDiffer DEF Fault
  <1>2. ASSUME NEW k \in Key, Worker(k) PROVE UNCHANGED <<cluster, serving, faults>>
    BY <1>2 DEF Worker, TakeAndReturn, BeginCluster, EndCluster, BeginControlPlane,
       ObserveControlPlane, CloseControlPlane, DeleteControlPlane, BeginPool,
       EndPool, Begin, Take
  <1>3. CASE \/ ClusterSeen \/ Pause \/ Unpause \/ InfrastructureReady
             \/ ServiceChanges
    BY <1>3 DEF ClusterSeen, Pause, Unpause, InfrastructureReady, ServiceChanges
  <1>4. CASE Crash \/ \E k \in Key : ReconcileFails(k)
    BY <1>1, <1>4 DEF Crash, ReconcileFails
  <1>5. CASE UNCHANGED <<cluster, serving, faults>>
    BY <1>5
  <1> QED
    BY <1>2, <1>3, <1>4, <1>5 DEF Next, TimerFires, ClusterApi, SetOwnerRef, Resync,
       Environs, UserCreatesPool, UserDeletesPool, UserDeletesControlPlane, vars

LEMMA TypedStep == ASSUME Typed, Begun, [Next]_vars PROVE Typed'
  <1>1. running' \in [Key -> Plan]
    BY PlanStep
  <1>2. DOMAIN running' = Key
    BY <1>1
  <1>3. TypeOK'
    BY <1>2, QueueStep, ObjectStep, RunningStep, EnvironsStep DEF TypeOK
  <1> QED BY <1>1, <1>3 DEF Typed

----
(***************************************************************************)
(* The wakeups.                                                            *)
(***************************************************************************)

LEMMA FreshStep == ASSUME Typed, Begun, Fresh, [Next]_vars PROVE Fresh'
  <1> USE DEF Typed, Fresh, Awaited
  <1>1. ASSUME NEW k \in Key, SetOwnerRef(k) PROVE Fresh'
    BY <1>1 DEF SetOwnerRef, objects
  <1>2. CASE ClusterSeen \/ Pause \/ Unpause \/ InfrastructureReady
             \/ ServiceChanges \/ Resync
    BY <1>2 DEF ClusterSeen, Pause, Unpause, InfrastructureReady, ServiceChanges,
       Resync, objects, queues
  <1>3. ASSUME NEW k \in Key, TakeAndReturn(k) PROVE Fresh'
    BY <1>3, PlansDiffer DEF TakeAndReturn, Take, objects, Key
  <1>4. CASE BeginCluster
    BY <1>4, PlansDiffer DEF BeginCluster, Begin, Take, objects, Key
  <1>5. CASE EndCluster
    BY <1>5 DEF EndCluster, Key
  <1>6. CASE BeginControlPlane
    BY <1>6, PlansDiffer
       DEF BeginControlPlane, Begin, Take, objects, Kept, Key, TypeOK
  <1>7. CASE ObserveControlPlane
    BY <1>7, PlansDiffer DEF ObserveControlPlane, Key, TypeOK
  <1>8. CASE CloseControlPlane
    <2>1. PICK e \in Endpoint : Publish([cp EXCEPT !.endpoint = e])
      BY <1>8 DEF CloseControlPlane
    <2>2. /\ cp' = [cp EXCEPT !.endpoint = e]
          /\ cp'.life = cp.life /\ cp'.endpoint = e /\ e # None
          /\ "cp" \in owned /\ cluster.seen
          /\ cp.life \in {"Guarded", "Deleting"}
      BY <1>8, <2>1, PlansDiffer DEF CloseControlPlane, Publish, Begun, TypeOK
    <2>3. cp'.endpoint # cp.endpoint => "ic" \in queue' \cup missed'
      BY <2>1, <2>2 DEF Publish, UnheardFromControlPlane, HeardFromControlPlane,
         TellsCluster, Kept
    <2>4. Awaited \subseteq Awaited'
      BY <1>8, <2>1 DEF CloseControlPlane, Publish
    <2> QED
      BY <1>8, <2>2, <2>3, <2>4, PlansDiffer DEF CloseControlPlane, Key, TypeOK
  <1>9. CASE DeleteControlPlane
    BY <1>9, PlansDiffer DEF DeleteControlPlane, Publish, Key, TypeOK
  <1>10. CASE BeginPool
    BY <1>10, PlansDiffer DEF BeginPool, Begin, Take, Key, TypeOK
  <1>11. CASE EndPool
    BY <1>11, PlansDiffer DEF EndPool, Key, TypeOK
  <1>12. ASSUME NEW k \in Key, ReconcileFails(k) PROVE Fresh'
    BY <1>12, PlansDiffer DEF ReconcileFails, objects, Key
  <1>13. CASE Crash
    BY <1>13, PlansDiffer DEF Crash, Key
  <1>14. ASSUME NEW k \in Key, TimerFires(k) PROVE Fresh'
    BY <1>14 DEF TimerFires, objects
  <1>15. CASE UserCreatesPool \/ UserDeletesPool
    BY <1>15 DEF UserCreatesPool, UserDeletesPool, TypeOK
  <1>16. CASE UserDeletesControlPlane
    BY <1>16 DEF UserDeletesControlPlane, Publish, Deleted,
       HeardFromControlPlane, TypeOK
  <1>17. CASE UNCHANGED vars
    BY <1>17 DEF vars, objects, queues
  <1> QED
    BY <1>1, <1>2, <1>3, <1>4, <1>5, <1>6, <1>7, <1>8, <1>9, <1>10, <1>11, <1>12,
       <1>13, <1>14, <1>15, <1>16, <1>17 DEF Next, Worker, ClusterApi, Environs

\* An update of the control plane that gives a key something to do is heard by
\* its reconciler, or collected in missed.
LEMMA ControlPlaneHeard ==
    ASSUME Typed, UNCHANGED <<cluster, owned, ic, pool>>,
           cp' \in [life : Life, ready : BOOLEAN, endpoint : Endpoint \cup {None}],
           cp' = cp \/ queue \cup HeardFromControlPlane(owned, cp') \subseteq queue',
           missed \cup UnheardFromControlPlane(cp') \subseteq missed',
           Exists(cp') => Exists(cp),
           cp'.endpoint # cp.endpoint => cp'.endpoint # None /\ "cp" \in owned,
           cp'.ready # cp.ready => "cp" \in owned
    PROVE  \A k \in Key : Due(k)' => Due(k) \/ k \in Awaited'
  <1> SUFFICES ASSUME NEW k \in Key, Due(k)', ~Due(k), cp' # cp
               PROVE  k \in queue' \cup missed'
    BY DEF Awaited, Due
  <1>1. cluster.seen /\ Exists(cp')
    BY DEF Due
  <1>2. cp'.life \in {"New", "Guarded", "Deleting"}
    BY <1>1 DEF Exists, Life
  <1>3. CASE k = "cp"
    BY <1>3 DEF HeardFromControlPlane
  <1>4. CASE k = "ic"
    <2>1. cp'.endpoint # cp.endpoint
      BY <1>4 DEF Due
    <2> QED
      BY <1>1, <1>2, <1>4, <2>1 DEF HeardFromControlPlane, TellsCluster,
         UnheardFromControlPlane, Kept
  <1>5. CASE k = "pool"
    <2>1. cp'.ready # cp.ready /\ Exists(pool)
      BY <1>5 DEF Due
    <2> QED
      BY <1>1, <1>2, <1>5, <2>1 DEF HeardFromControlPlane, TellsPools,
         UnheardFromControlPlane, Kept
  <1> QED BY <1>3, <1>4, <1>5 DEF Key

\* Which keys a step makes due that were not, or has due that are taken.
LEMMA WakeupStep ==
    ASSUME Typed, Begun, Fresh, NoLostWakeup, [Next]_vars
    PROVE  NoLostWakeup'
  <1> USE DEF Typed, Awaited, NoLostWakeup, Due
  <1>1. ASSUME NEW k \in Key, SetOwnerRef(k) PROVE NoLostWakeup'
    <2>1. k \in queue'
      BY <1>1 DEF SetOwnerRef, HeardFromCluster, HeardFromControlPlane, Key
    <2>2. owned' = owned \cup {k} /\ queue \subseteq queue'
      BY <1>1 DEF SetOwnerRef
    <2> QED BY <1>1, <2>1, <2>2 DEF SetOwnerRef, objects
  <1>2. CASE ClusterSeen
    BY <1>2 DEF ClusterSeen, objects, Begun
  <1>3. CASE Pause \/ InfrastructureReady \/ ServiceChanges \/ Resync
    BY <1>3 DEF Pause, InfrastructureReady, ServiceChanges, Resync, objects,
       queues, TypeOK, Exists
  <1>4. CASE Unpause
    BY <1>4 DEF Unpause, objects, TypeOK, Key
  <1>5. ASSUME NEW k \in Key, TakeAndReturn(k) PROVE NoLostWakeup'
    <2>1. CASE Waits(k)
      BY <1>5, <2>1 DEF TakeAndReturn, Take, objects
    <2>2. CASE Returns(k)
      <3>1. ~Due(k)
        BY <2>2 DEF Returns, ClusterReturns, ControlPlaneReturns, PoolReturns, Paused
      <3> QED BY <1>5, <3>1 DEF TakeAndReturn, Take, objects
    <2> QED BY <1>5, <2>1, <2>2 DEF TakeAndReturn
  <1>6. CASE BeginCluster
    <2>1. /\ queue' = queue \ {"ic"} /\ missed' = missed \ {"ic"}
          /\ UNCHANGED <<cluster, owned, ic, cp, pool, timers>>
          /\ running' = [running EXCEPT !["ic"] = [copy |-> cp.endpoint]]
      BY <1>6 DEF BeginCluster, Begin, Take, objects
    <2>2. running'["ic"] # None /\ \A k \in Key \ {"ic"} : running'[k] = running[k]
      BY <2>1, PlansDiffer DEF Key, TypeOK
    <2> QED BY <2>1, <2>2
  <1>7. CASE EndCluster
    <2>1. /\ ic'.endpoint = running["ic"].copy /\ ic'.ready
          /\ queue \subseteq queue' /\ running["ic"] # None
          /\ UNCHANGED <<cluster, owned, cp, pool, timers, missed>>
          /\ \A k \in Key \ {"ic"} : running'[k] = running[k]
      BY <1>7 DEF EndCluster
    <2>2. Due("ic")' => "ic" \in Awaited'
      BY <2>1 DEF Fresh
    <2>3. \A k \in Key \ {"ic"} : Due(k)' => Due(k)
      BY <2>1 DEF Key
    <2> QED BY <2>1, <2>2, <2>3
  <1>8. CASE BeginControlPlane
    <2>1. CASE cp' = cp
      <3>1. /\ queue' = queue \ {"cp"} /\ missed' = missed \ {"cp"}
            /\ UNCHANGED <<cluster, owned, ic, cp, pool, timers>>
            /\ \/ running' = [running EXCEPT !["cp"] = "Delete"]
               \/ running' = [running EXCEPT !["cp"] = "Observe"]
        BY <1>8, <2>1 DEF BeginControlPlane, Begin, Take, objects
      <3>2. running'["cp"] # None /\ \A k \in Key \ {"cp"} : running'[k] = running[k]
        BY <3>1, PlansDiffer DEF Key
      <3> QED BY <3>1, <3>2
    <2>2. CASE cp' # cp
      <3>1. /\ queue' = queue \cup HeardFromControlPlane(owned, cp')
            /\ Kept(cp) /\ cp' = [cp EXCEPT !.life = "Guarded"]
            /\ UNCHANGED <<cluster, owned, ic, pool, timers>>
            /\ missed' = missed \ {"cp"}
            /\ running' = [running EXCEPT !["cp"] = "Observe"]
        BY <1>8, <2>2 DEF BeginControlPlane, Begin, Take, objects
      <3>2. \A k \in Key : k # "cp" /\ Due(k)' => Due(k) \/ k \in queue'
        BY <3>1 DEF Exists, Kept, TypeOK, Key
      <3> QED BY <3>1, <3>2, PlansDiffer DEF Key
    <2> QED BY <2>1, <2>2
  <1>9. CASE ObserveControlPlane
    <2>1. /\ cp' = [cp EXCEPT !.ready = serving]
          /\ UNCHANGED <<cluster, owned, ic, pool, timers>>
          /\ queue \subseteq queue'
          /\ missed \cup UnheardFromControlPlane(cp') \subseteq missed'
          /\ ~serving => "cp" \in missed'
      BY <1>9 DEF ObserveControlPlane
    <2>2. \A k \in Key : Due(k)' => Due(k) \/ k \in Awaited'
      <3>1. cp' = cp \/ queue \cup HeardFromControlPlane(owned, cp') \subseteq queue'
        BY <1>9 DEF ObserveControlPlane
      <3>2. "cp" \in owned /\ cp'.life = cp.life /\ cp'.endpoint = cp.endpoint
        BY <1>9, <2>1, PlansDiffer DEF ObserveControlPlane, Begun, TypeOK
      <3> QED
        BY <2>1, <3>1, <3>2, ObjectStep, ControlPlaneHeard DEF Exists
    <2>3. \A k \in Key : running[k] # None
                              => running'[k] # None \/ k \in Awaited'
      BY <1>9, <2>1, PlansDiffer DEF ObserveControlPlane, Key
    <2> QED BY <2>1, <2>2, <2>3
  <1>10. CASE CloseControlPlane
    <2>1. PICK e \in Endpoint : Publish([cp EXCEPT !.endpoint = e])
      BY <1>10 DEF CloseControlPlane
    <2>2. /\ cp' = [cp EXCEPT !.endpoint = e]
          /\ UNCHANGED <<cluster, owned, ic, pool, timers>>
          /\ queue \subseteq queue'
          /\ missed \cup UnheardFromControlPlane(cp') \subseteq missed'
          /\ cp' = cp \/ queue \cup HeardFromControlPlane(owned, cp') \subseteq queue'
      BY <1>10, <2>1 DEF CloseControlPlane, Publish
    <2>3. /\ "cp" \in owned /\ cp'.life = cp.life /\ cp'.endpoint # None
          /\ cp'.ready = cp.ready /\ cp.life \in {"Guarded", "Deleting"}
      BY <1>10, <2>2, PlansDiffer DEF CloseControlPlane, Begun, TypeOK
    <2>4. \A k \in Key : Due(k)' => Due(k) \/ k \in Awaited'
      BY <2>2, <2>3, ObjectStep, ControlPlaneHeard DEF Exists
    <2>5. Due("cp")' => "cp" \in Awaited'
      <3>1. Due("cp")' => cp.life = "Deleting"
        BY <2>3
      <3> QED BY <1>10, <2>2, <3>1 DEF Fresh, CloseControlPlane
    <2>6. \A k \in Key \ {"cp"} : running'[k] = running[k]
      BY <1>10 DEF CloseControlPlane
    <2> QED BY <2>2, <2>4, <2>5, <2>6
  <1>11. CASE DeleteControlPlane
    BY <1>11 DEF DeleteControlPlane, Publish, Exists, TypeOK
  <1>12. CASE BeginPool
    <2>1. /\ queue \ {"pool"} \subseteq queue' /\ missed' = missed \ {"pool"}
          /\ UNCHANGED <<cluster, owned, ic, cp, timers>>
          /\ \/ running' = [running EXCEPT !["pool"] = "Delete"]
             \/ running' = [running EXCEPT !["pool"] = "Serve"]
      BY <1>12 DEF BeginPool, Begin, Take
    <2>2. running'["pool"] # None /\ \A k \in Key \ {"pool"} : running'[k] = running[k]
      BY <2>1, PlansDiffer DEF Key
    <2>3. \A k \in Key \ {"pool"} : Due(k)' => Due(k)
      BY <2>1 DEF Key
    <2> QED BY <2>1, <2>2, <2>3
  <1>13. CASE EndPool
    <2>1. /\ queue \subseteq queue'
          /\ UNCHANGED <<cluster, owned, ic, cp, timers, missed>>
          /\ \A k \in Key \ {"pool"} : running'[k] = running[k]
      BY <1>13 DEF EndPool
    <2>2. Due("pool")' => "pool" \in Awaited'
      <3>1. CASE running["pool"] = "Delete"
        BY <1>13, <3>1 DEF EndPool, TypeOK, Exists
      <3>2. CASE running["pool"] = "Serve"
        <4>1. pool'.served /\ pool'.life = pool.life
          BY <1>13, <3>2 DEF EndPool, TypeOK
        <4> QED BY <2>1, <3>2, <4>1 DEF Fresh
      <3> QED BY <1>13, <3>1, <3>2, PlansDiffer DEF EndPool, TypeOK
    <2>3. \A k \in Key \ {"pool"} : Due(k)' => Due(k)
      BY <2>1 DEF Key
    <2> QED BY <2>1, <2>2, <2>3
  <1>14. ASSUME NEW k \in Key, ReconcileFails(k) PROVE NoLostWakeup'
    BY <1>14, PlansDiffer DEF ReconcileFails, objects, Key
  <1>15. CASE Crash
    BY <1>15 DEF Crash, objects, Key, Exists
  <1>16. ASSUME NEW k \in Key, TimerFires(k) PROVE NoLostWakeup'
    BY <1>16 DEF TimerFires, objects
  <1>17. CASE UserCreatesPool \/ UserDeletesPool
    <2>1. /\ queue \subseteq queue' /\ (pool' = pool \/ "pool" \in queue')
          /\ UNCHANGED <<cluster, owned, ic, cp, timers, running, missed>>
      BY <1>17 DEF UserCreatesPool, UserDeletesPool
    <2>2. \A k \in Key \ {"pool"} : Due(k)' => Due(k)
      BY <2>1 DEF Key
    <2>3. Due("pool")' => Due("pool") \/ "pool" \in queue'
      BY <2>1 DEF Exists
    <2> QED BY <2>1, <2>2, <2>3
  <1>18. CASE UserDeletesControlPlane
    <2>1. /\ cp' = Deleted(cp)
          /\ UNCHANGED <<cluster, owned, ic, pool, timers, running>>
          /\ queue \subseteq queue'
          /\ missed \cup UnheardFromControlPlane(cp') \subseteq missed'
          /\ cp' = cp \/ queue \cup HeardFromControlPlane(owned, cp') \subseteq queue'
      BY <1>18 DEF UserDeletesControlPlane, Publish
    <2>2. Exists(cp) /\ cp'.ready = cp.ready /\ cp'.endpoint = cp.endpoint
      BY <1>18, <2>1 DEF UserDeletesControlPlane, Kept, Exists, Deleted, TypeOK
    <2>3. \A k \in Key : Due(k)' => Due(k) \/ k \in Awaited'
      BY <2>1, <2>2, ObjectStep, ControlPlaneHeard
    <2> QED BY <2>1, <2>3
  <1>19. CASE UNCHANGED vars
    BY <1>19 DEF vars, objects, queues
  <1> QED
    BY <1>1, <1>2, <1>3, <1>4, <1>5, <1>6, <1>7, <1>8, <1>9, <1>10, <1>11, <1>12,
       <1>13, <1>14, <1>15, <1>16, <1>17, <1>18, <1>19
       DEF Next, Worker, ClusterApi, Environs

\* Whatever the three reconcilers, Cluster API, the users and the service do in
\* between, a running reconcile works on what it has read or will run again.
THEOREM Invariance == Spec => []IInv
  <1>1. Init => IInv
    BY InitIInv
  <1>2. IInv /\ [Next]_vars => IInv'
    BY TypedStep, BegunStep, FreshStep, WakeupStep DEF IInv
  <1> QED BY <1>1, <1>2, PTL DEF Spec

\* Every variable keeps the shape the code gives it, and nothing is published of
\* an object before SetupFinalizers' patch has been stored.
THEOREM TypesHold == Spec => []TypeOK
  <1>1. IInv => TypeOK
    BY DEF IInv, Typed
  <1> QED BY <1>1, Invariance, PTL

\* The watches of the three SetupWithManager and the requeues of the three
\* Reconcile lose no wakeup but the ones collected in missed.
THEOREM WakeupsKept == Spec => []NoLostWakeup
  <1>1. IInv => NoLostWakeup
    BY DEF IInv
  <1> QED BY <1>1, Invariance, PTL
====
