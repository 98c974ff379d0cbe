---- MODULE ControlPlaneStatusProofs ----
(***************************************************************************)
(* What holds of the status that ControlPlane publishes, and of the        *)
(* kubeconfig it writes.  Told follows Status.Ready from the phase it      *)
(* comes from, Written and Kept follow the endpoint and                    *)
(* Status.Initialized to the stored object, and Pointed follows the server *)
(* of the Secret through the addresses and clusters that come and go.      *)
(***************************************************************************)
EXTENDS ControlPlaneNetworkProofs

\* Ready differs from the snapshot as the last phase read says, or it is
\* published: the phase that setStatus rejects comes after a patch that was
\* served, or after none.
Told ==
    Running =>
        /\ mem.ready # before.ready
               => (mem.ready <=> seen \in Serving) \/ api.ready = mem.ready
        /\ pc \in EarlySteps \cup DeleteSteps => mem.ready = before.ready
        /\ pc \in {"WaitActive", "ShowActive"} /\ mem.ready # before.ready
               => api.ready = mem.ready

\* Any copy that says Initialized was made after the Secret.
Written ==
    api.initialized \/ cache.initialized \/ before.initialized \/ mem.initialized
        => secret # None

\* Without incidents the endpoint and Initialized are stored together, by Close.
Kept ==
    /\ api.initialized => api.endpoint # None
    /\ Running =>
           /\ api.endpoint = before.endpoint /\ api.initialized = before.initialized
           /\ pc \notin {"Kubeconfig", "Close"} => mem.endpoint = before.endpoint
           /\ pc # "Close" => mem.initialized = before.initialized
           /\ mem.initialized => mem.endpoint # None
           /\ pc = "Kubeconfig" =>
                  mem.endpoint = [cluster |-> mem.label, via |-> bound[mem.label]]

\* The endpoint that is, or will be, published.
Current == IF Running THEN mem.endpoint ELSE api.endpoint

\* Without incidents the Secret leads to a cluster that is gone for good, or to
\* the endpoint of the copy or of the stored object.  Only the address that a user
\* asks for later comes between the two: that of a cluster which was public when
\* the Secret was written was bound before.
Pointed ==
    secret # None =>
        /\ secret.server \in Endpoint
        /\ phase[secret.server.cluster] # "Unborn"
        /\ Alive(secret.server.cluster) =>
               /\ secret.server.via \in {bound[secret.server.cluster], None}
               /\ secret.access = "public" =>
                     /\ secret.server.via = bound[secret.server.cluster]
                     /\ secret.server.via # None
               /\ \/ secret.server = Current
                  \/ /\ secret.access # "public"
                     /\ secret.server = [Current EXCEPT !.via = None]

StatusInv == Told /\ Written /\ (incidents = 0 => Kept /\ Pointed)
----
(***************************************************************************)
(* Ready.                                                                  *)
(***************************************************************************)

\* What a patch makes of the fields that this module follows.
LEMMA PatchObjectStatus ==
    ASSUME TypeOK, NEW fault, NEW served, NEW failed,
           PatchObject(fault, served, failed)
    PROVE  \E meta, status \in BOOLEAN :
             /\ api'.endpoint = Merge(meta, before.endpoint, mem.endpoint, api.endpoint)
             /\ api'.ready = Merge(status, before.ready, mem.ready, api.ready)
             /\ api'.initialized
                   = Merge(status, before.initialized, mem.initialized, api.initialized)
             /\ status \/ pc' = failed \/ mem = before
  <1>1. ASSUME NEW meta \in BOOLEAN, NEW status \in BOOLEAN, api' = Persisted(meta, status)
        PROVE  /\ api'.endpoint = Merge(meta, before.endpoint, mem.endpoint, api.endpoint)
               /\ api'.ready = Merge(status, before.ready, mem.ready, api.ready)
               /\ api'.initialized
                     = Merge(status, before.initialized, mem.initialized, api.initialized)
    BY <1>1 DEF TypeOK, Object, Persisted
  <1>2. CASE \E meta, status \in BOOLEAN :
                /\ api' = Persisted(meta, status)
                /\ status \/ pc' = failed
    BY <1>1, <1>2
  <1>3. CASE api' = api /\ (pc' = failed \/ mem = before)
    BY <1>3 DEF Merge
  <1> QED BY <1>2, <1>3 DEF PatchObject

\* A step that leaves Ready, and what was read of the phase.
LEMMA ToldQuiet ==
    ASSUME Told, Running, Running', UNCHANGED <<before, seen>>,
           api'.ready = api.ready, mem'.ready = mem.ready,
           pc' \in EarlySteps \cup DeleteSteps => pc \in EarlySteps \cup DeleteSteps,
           pc' \in {"WaitActive", "ShowActive"} => pc \in {"WaitActive", "ShowActive"}
    PROVE  Told'
  BY DEF Told, Running

LEMMA ToldNext == Typed /\ Told /\ [Next]_vars => Told'
  <1> SUFFICES ASSUME Typed, Told, [Next]_vars PROVE Told'
    OBVIOUS
  <1>1. mem \in Object /\ cache \in Object /\ before \in Object /\ api \in Object
    BY DEF Typed, TypeOK
  <1>2. CASE Reconcile
    <2>1. mem'.ready = cache.ready /\ before' = cache
      BY <1>1, <1>2 DEF Reconcile, Object
    <2>2. pc' \notin {"WaitActive", "ShowActive"}
      BY <1>1, <1>2, NetworkStepNamed DEF Reconcile
    <2> QED BY <2>1, <2>2 DEF Told
  <1>3. CASE AddFinalizer \/ SetStatus \/ SetActiveStatus
    <2>1. PICK served : PatchObject("callFails", served, "Close")
      BY <1>3 DEF AddFinalizer, SetStatus, SetActiveStatus
    <2>2. UNCHANGED <<before, mem, seen>> /\ Running
      BY <1>3 DEF AddFinalizer, SetStatus, SetActiveStatus, Running
    <2>3. /\ api'.ready = api.ready \/ (mem.ready # before.ready /\ api'.ready = mem.ready)
          /\ pc' # "Close" /\ mem.ready # before.ready => api'.ready = mem.ready
      BY <2>1, PatchObjectStatus DEF Merge, Typed
    <2>4. \/ pc = "AddFinalizer"
          \/ pc' \notin EarlySteps \cup DeleteSteps
      BY <1>3, StatusLeads DEF AddFinalizer, EarlySteps, DeleteSteps
    <2>5. mem.ready # before.ready /\ pc' \in {"WaitActive", "ShowActive"}
              => api'.ready = mem.ready
      BY <2>3
    <2>6. pc = "AddFinalizer" => mem.ready = before.ready
      BY <2>2 DEF Told, EarlySteps
    <2> QED BY <2>2, <2>3, <2>4, <2>5, <2>6 DEF Told
  <1>4. CASE ShowCluster \/ ShowActive
    <2>1. UNCHANGED <<api, before>> /\ Running
      BY <1>4 DEF ShowCluster, ShowActive, object, Running
    <2>2. CASE Alive(mem.label) /\ phase[mem.label] \in Known
      <3>1. seen' = phase[mem.label] /\ (mem'.ready <=> phase[mem.label] \in Serving)
            /\ pc' \in {"SetStatus", "SetActiveStatus"}
        BY <1>1, <1>4, <2>2 DEF ShowCluster, ShowActive, Observe, Object
      <3> QED BY <3>1 DEF Told, EarlySteps, DeleteSteps
    <2>3. CASE Alive(mem.label) /\ phase[mem.label] \notin Known
      <3>1. pc' = "Close" /\ mem' = mem
        BY <1>4, <2>3 DEF ShowCluster, ShowActive, Observe
      <3>2. mem.ready # before.ready => api.ready = mem.ready
        BY <1>4, <2>1 DEF ShowCluster, ShowActive, Told, EarlySteps
      <3> QED BY <2>1, <3>1, <3>2 DEF Told, EarlySteps, DeleteSteps
    <2>4. CASE ~Alive(mem.label)
      BY <1>4, <2>1, <2>4, ToldQuiet
         DEF ShowCluster, ShowActive, Running, EarlySteps, DeleteSteps
    <2> QED BY <2>2, <2>3, <2>4
  <1>5. CASE CreateCluster
    <2>1. mem'.ready = FALSE /\ seen' = "Creating" /\ pc' = "SetStatus"
      BY <1>1, <1>5 DEF CreateCluster, Object
    <2> QED BY <2>1 DEF Told, Serving, EarlySteps, DeleteSteps
  <1>6. CASE CreateVpc \/ CreateSubnet
    <2>1. mem'.ready = mem.ready /\ UNCHANGED <<api, before, seen>>
      BY <1>1, <1>6 DEF CreateVpc, CreateSubnet, Object, object
    <2>2. pc' \in EarlySteps
      <3>1. CreateVpc => mem' \in Object
        BY <1>1 DEF CreateVpc, Object
      <3> QED BY <1>6, <3>1, NetworkStepNamed
           DEF CreateVpc, CreateSubnet, ClusterStep, EarlySteps
    <2> QED BY <1>6, <2>1, <2>2, ToldQuiet
         DEF CreateVpc, CreateSubnet, Running, EarlySteps, DeleteSteps
  <1>7. CASE \/ WaitActive \/ WaitTimesOut \/ ShowEndpoints \/ CreatePublicip \/ BindEip
             \/ ShowReady \/ Kubeconfig \/ CallFails \/ ReplyLost
    <2>1. mem'.ready = mem.ready
      BY <1>1, <1>7 DEF WaitActive, WaitTimesOut, ShowEndpoints, CreatePublicip, BindEip,
                        ShowReady, Kubeconfig, CallFails, ReplyLost, Object
    <2> QED BY <1>7, <2>1, ToldQuiet
         DEF WaitActive, WaitTimesOut, ShowEndpoints, CreatePublicip, BindEip, ShowReady,
             Kubeconfig, CallFails, ReplyLost, Calls, object, Running, EarlySteps,
             DeleteSteps
  <1>8. CASE Dependencies \/ ShowDeleting \/ DeleteCluster \/ WaitDeleted
    <2>1. mem'.ready = mem.ready
      BY <1>1, <1>8 DEF Dependencies, ShowDeleting, DeleteCluster, WaitDeleted,
                        RemoveFinalizer, Object
    <2> QED BY <1>8, <2>1, ToldQuiet
         DEF Dependencies, ShowDeleting, DeleteCluster, WaitDeleted, RemoveFinalizer,
             object, Running, EarlySteps, DeleteSteps
  <1>9. CASE Close \/ Crash
    BY <1>9 DEF Close, PatchObject, Crash, Told, Running
  <1>10. CASE UserDeletes
    <2>1. api'.ready = api.ready
      BY <1>1, <1>10 DEF UserDeletes, Object
    <2> QED BY <1>10, <2>1 DEF UserDeletes, worker, Told, Running
  <1>12. CASE UserEdits
    <2>1. api'.ready = api.ready
      BY <1>12, UserEditsFields DEF Typed
    <2> QED BY <1>12, <2>1 DEF UserEdits, worker, Told, Running
  <1>11. CASE UNCHANGED <<api, worker>>
    BY <1>11 DEF worker, Told, Running
  <1> QED BY <1>2, <1>3, <1>4, <1>5, <1>6, <1>7, <1>8, <1>9, <1>10, <1>11, <1>12
       DEF Next, Worker, Adversity, Environs, ExternalDelete, DeletionFails, SyncCache,
           CloudProgress, PhaseDrift, PoolsChange, InfrastructureReady, vars, object

\* A step that changes the stored Ready stores the one of the copy.
LEMMA ReadyFollows ==
    ASSUME Typed, Told, [Next]_vars, api'.ready # api.ready
    PROVE  api'.ready <=> seen \in Serving
  <1>1. ASSUME NEW fault, NEW served, NEW failed, PatchObject(fault, served, failed), Running
        PROVE  api'.ready <=> seen \in Serving
    <2>1. mem.ready # before.ready /\ api'.ready = mem.ready
      BY <1>1, PatchObjectStatus DEF Merge, Typed
    <2> QED BY <1>1, <2>1 DEF Told
  <1>2. CASE AddFinalizer \/ SetStatus \/ SetActiveStatus \/ Close
    BY <1>1, <1>2 DEF AddFinalizer, SetStatus, SetActiveStatus, Close, Running
  <1>3. ~UserDeletes /\ ~UserEdits
    BY UserEditsFields DEF UserDeletes, Typed, TypeOK, Object
  <1>4. CASE Worker /\ ~(AddFinalizer \/ SetStatus \/ SetActiveStatus \/ Close)
    BY <1>4 DEF Worker, Reconcile, CreateVpc, CreateSubnet, ShowCluster, CreateCluster,
                WaitActive, WaitTimesOut, ShowActive, ShowEndpoints, CreatePublicip,
                BindEip, ShowReady, Kubeconfig, Dependencies, ShowDeleting, DeleteCluster,
                WaitDeleted, object
  <1>5. CASE Adversity \/ Environs \/ UNCHANGED vars
    BY <1>3, <1>5 DEF Adversity, CallFails, ReplyLost, Crash, ExternalDelete, DeletionFails,
                      Environs, SyncCache, CloudProgress, PhaseDrift, PoolsChange,
                      InfrastructureReady, vars, object
  <1> QED BY <1>2, <1>4, <1>5 DEF Next

----
(***************************************************************************)
(* The Secret and Initialized.                                             *)
(***************************************************************************)

\* What reconcileKubeconfig leaves: a Secret, once there is one.
LEMMA SecretFields ==
    ASSUME Typed
    PROVE  /\ KubeconfigSecret # None
           /\ secret # None => /\ KubeconfigSecret.server = secret.server
                               /\ KubeconfigSecret.access = secret.access
           /\ secret = None => /\ KubeconfigSecret.server = mem.endpoint
                               /\ KubeconfigSecret.access = mem.access
  <1>1. KubeconfigSecret # None
    BY KubeconfigType, Environment DEF Typed
  <1>2. CASE secret = None
    BY <1>1, <1>2 DEF KubeconfigSecret, NewKubeconfig
  <1>3. CASE secret # None
    BY <1>1, <1>3 DEF KubeconfigSecret, Kubeconfigs, Typed, TypeOK
  <1> QED BY <1>2, <1>3

LEMMA SecretStays ==
    ASSUME Typed, Kubeconfig
    PROVE  /\ secret # None => /\ secret' # None
                               /\ secret'.server = secret.server
                               /\ secret'.access = secret.access
           /\ secret = None /\ Alive(mem.label) =>
                  /\ secret' # None
                  /\ secret'.server = mem.endpoint
                  /\ secret'.access = mem.access
           /\ ~Alive(mem.label) => secret' = secret /\ mem' = mem
  BY SecretFields DEF Kubeconfig

\* Elsewhere the Secret stays, and Initialized with it.
LEMMA InitializedStays ==
    ASSUME Typed, Worker, pc \notin {"Idle", "AddFinalizer", "SetStatus", "SetActiveStatus",
                                   "Close", "Kubeconfig"}
    PROVE  /\ UNCHANGED <<api, cache, before, secret>> /\ Running'
           /\ mem'.initialized = mem.initialized
           /\ pc # "ShowReady" => mem'.endpoint = mem.endpoint
           /\ pc' = "Kubeconfig" => pc = "ShowReady"
           /\ pc' # "Idle"
  <1>1. mem \in Object
    BY DEF Typed, TypeOK
  <1>2. CASE CreateVpc \/ CreateSubnet
    <2>1. CreateVpc => mem' \in Object
      BY <1>1 DEF CreateVpc, Object
    <2> QED BY <1>1, <1>2, <2>1, NetworkStepNamed
         DEF CreateVpc, CreateSubnet, ClusterStep, Object, object, Running
  <1>3. CASE ShowCluster \/ ShowActive
    BY <1>1, <1>3 DEF ShowCluster, ShowActive, Observe, Object, object, Running
  <1>4. CASE CreateCluster \/ CreatePublicip \/ ShowReady
    BY <1>1, <1>4 DEF CreateCluster, CreatePublicip, ShowReady, Object, object, Running
  <1>5. CASE WaitActive \/ WaitTimesOut \/ ShowEndpoints \/ BindEip
    BY <1>5 DEF WaitActive, WaitTimesOut, ShowEndpoints, BindEip, object, Running
  <1>6. CASE Dependencies \/ ShowDeleting \/ DeleteCluster \/ WaitDeleted
    BY <1>1, <1>6 DEF Dependencies, ShowDeleting, DeleteCluster, WaitDeleted,
                      RemoveFinalizer, Object, object, Running
  <1> QED BY <1>2, <1>3, <1>4, <1>5, <1>6
       DEF Worker, Reconcile, AddFinalizer, SetStatus, SetActiveStatus, Kubeconfig, Close

LEMMA WrittenNext == Typed /\ Written /\ [Next]_vars => Written'
  <1> SUFFICES ASSUME Typed, Written, [Next]_vars PROVE Written'
    OBVIOUS
  <1>1. mem \in Object /\ cache \in Object /\ before \in Object /\ api \in Object
    BY DEF Typed, TypeOK
  <1>2. CASE Reconcile
    <2>1. mem'.initialized = cache.initialized
      BY <1>1, <1>2 DEF Reconcile, Object
    <2> QED BY <1>2, <2>1 DEF Reconcile, Written, object
  <1>3. CASE AddFinalizer \/ SetStatus \/ SetActiveStatus \/ Close
    <2>1. api'.initialized => api.initialized \/ mem.initialized
      BY <1>3, PatchObjectStatus
         DEF AddFinalizer, SetStatus, SetActiveStatus, Close, Merge, Typed
    <2> QED BY <1>3, <2>1
         DEF AddFinalizer, SetStatus, SetActiveStatus, Close, Written, NewObject
  <1>4. CASE Kubeconfig
    BY <1>4, SecretStays DEF Kubeconfig, Written, object
  <1>5. CASE Worker /\ pc \notin {"Idle", "AddFinalizer", "SetStatus", "SetActiveStatus",
                                  "Close", "Kubeconfig"}
    BY <1>5, InitializedStays DEF Written
  <1>6. CASE Crash
    BY <1>6 DEF Crash, Written, NewObject
  <1>7. CASE UserDeletes
    <2>1. api'.initialized = api.initialized
      BY <1>1, <1>7 DEF UserDeletes, Object
    <2> QED BY <1>7, <2>1 DEF UserDeletes, worker, Written
  <1>11. CASE UserEdits
    <2>1. api'.initialized = api.initialized
      BY <1>11, UserEditsFields DEF Typed
    <2> QED BY <1>11, <2>1 DEF UserEdits, worker, Written
  <1>12. CASE ReplyLost
    <2>1. UNCHANGED <<api, cache, before, mem>> /\ secret' \in {secret, KubeconfigSecret}
      BY <1>12 DEF ReplyLost, object
    <2> QED BY <2>1, SecretFields DEF Written
  <1>8. CASE SyncCache
    BY <1>8 DEF SyncCache, worker, Written
  <1>9. CASE \/ CallFails \/ ExternalDelete \/ DeletionFails \/ CloudProgress
             \/ PhaseDrift \/ PoolsChange \/ InfrastructureReady \/ UNCHANGED vars
    BY <1>9 DEF CallFails, ExternalDelete, DeletionFails, CloudProgress,
                PhaseDrift, PoolsChange, InfrastructureReady, vars, object, worker, Written
  <1>10. Worker => \/ Reconcile \/ AddFinalizer \/ SetStatus \/ SetActiveStatus \/ Close
                   \/ Kubeconfig
                   \/ pc \notin {"Idle", "AddFinalizer", "SetStatus", "SetActiveStatus",
                                 "Close", "Kubeconfig"}
    BY DEF Worker, CreateVpc, CreateSubnet, ShowCluster, CreateCluster, WaitActive,
           WaitTimesOut, ShowActive, ShowEndpoints, CreatePublicip, BindEip, ShowReady,
           Dependencies, ShowDeleting, DeleteCluster, WaitDeleted
  <1> QED BY <1>2, <1>3, <1>4, <1>5, <1>6, <1>7, <1>8, <1>9, <1>10, <1>11, <1>12
       DEF Next, Adversity, Environs

\* Without incidents a live cluster is the one that the copy names.
LEMMA OneAlive ==
    ASSUME IInv, incidents = 0, NEW c \in Cluster, Alive(c)
    PROVE  /\ Running => mem.label = c
           /\ ~Running => api.exists /\ api.label = c
           /\ \A d \in Cluster : Alive(d) => d = c
  BY NothingLost DEF Lost, Live, Credited

\* A step that leaves the stored object, the snapshot and the endpoint.
LEMMA KeptQuiet ==
    ASSUME Kept, UNCHANGED <<api, before>>, Running, Running', pc' # "Kubeconfig",
           pc \in {"Kubeconfig", "Close"} => pc' = "Close",
           mem'.endpoint = mem.endpoint, mem'.initialized = mem.initialized
    PROVE  Kept'
  BY DEF Kept, Running

LEMMA KeptNext ==
    ASSUME IInv, Kept, incidents = 0, incidents' = 0, [Next]_vars
    PROVE  Kept'
  <1> USE DEF IInv, Typed
  <1>1. mem \in Object /\ cache \in Object /\ before \in Object /\ api \in Object
    BY DEF TypeOK
  <1>2. CASE Reconcile
    <2>1. cache = api /\ before' = api /\ api' = api
      BY <1>2 DEF Reconcile, Fault, Losing, TypeOK, object
    <2>2. mem'.initialized = api.initialized /\ mem'.endpoint = api.endpoint
      BY <1>1, <1>2, <2>1 DEF Reconcile, Object
    <2>3. pc' # "Kubeconfig"
      BY <1>2, Elsewhere DEF AddressSteps
    <2> QED BY <2>1, <2>2, <2>3 DEF Kept
  <1>3. CASE AddFinalizer \/ SetStatus \/ SetActiveStatus
    <2>1. /\ UNCHANGED <<before, mem>> /\ Running /\ pc \notin {"Kubeconfig", "Close"}
          /\ pc' # "Kubeconfig"
      <3>1. AddFinalizer => pc' # "Kubeconfig"
        BY Elsewhere DEF AddressSteps
      <3> QED BY <1>3, <3>1, StatusLeads
           DEF AddFinalizer, SetStatus, SetActiveStatus, Running
    <2>2. api'.endpoint = api.endpoint /\ api'.initialized = api.initialized
      <3>1. mem.endpoint = before.endpoint /\ mem.initialized = before.initialized
        BY <2>1 DEF Kept
      <3> QED BY <1>3, <3>1, PatchObjectStatus
           DEF AddFinalizer, SetStatus, SetActiveStatus, Merge
    <2> QED BY <2>1, <2>2 DEF Kept
  <1>4. CASE Close
    <2>1. pc = "Close" /\ ~Running' /\ Running
      BY <1>4 DEF Close, PatchObject, Running
    <2>2. CASE api.exists
      <3>1. api' = Persisted(TRUE, TRUE)
        BY <1>4, <2>2, CleanClose
      <3>2. /\ api'.endpoint = Merge(TRUE, before.endpoint, mem.endpoint, api.endpoint)
            /\ api'.initialized
                  = Merge(TRUE, before.initialized, mem.initialized, api.initialized)
        BY <1>1, <3>1 DEF Object, Persisted
      <3>3. api'.endpoint = mem.endpoint /\ api'.initialized = mem.initialized
        BY <2>1, <3>2 DEF Kept, Merge
      <3> QED BY <2>1, <3>3 DEF Kept
    <2>3. CASE ~api.exists
      BY <1>4, <2>1, <2>3 DEF Close, PatchObject, Kept
    <2> QED BY <2>2, <2>3
  <1>5. CASE ShowReady
    <2>1. CASE Alive(mem.label)
      <3>1. /\ mem'.endpoint = [cluster |-> mem.label, via |-> bound[mem.label]]
            /\ mem'.label = mem.label /\ mem'.initialized = mem.initialized
            /\ UNCHANGED <<api, before, bound>> /\ pc' = "Kubeconfig" /\ pc = "ShowReady"
        BY <1>1, <1>5, <2>1 DEF ShowReady, Object, object, cloud, network
      <3>2. mem'.endpoint \in Endpoint
        <4>1. mem.label \in Cluster /\ bound[mem.label] \in Eip \cup {None}
          BY <1>1, <3>1 DEF TypeOK, Named, ClusterSteps, Object
        <4> QED BY <3>1, <4>1 DEF Endpoint
      <3>3. mem'.endpoint # None
        BY <3>2, Environment
      <3> QED BY <3>1, <3>3 DEF Kept, Running
    <2>2. CASE ~Alive(mem.label)
      BY <1>5, <2>2, KeptQuiet DEF ShowReady, object, Running
    <2> QED BY <2>1, <2>2
  <1>6. CASE Kubeconfig
    <2>1. mem'.endpoint = mem.endpoint /\ UNCHANGED <<api, before>> /\ pc' = "Close"
          /\ Running /\ pc = "Kubeconfig"
      BY <1>1, <1>6 DEF Kubeconfig, Object, object, Running
    <2>2. mem.endpoint # None
      <3>1. mem.endpoint = [cluster |-> mem.label, via |-> bound[mem.label]]
        BY <2>1 DEF Kept
      <3>2. mem.label \in Cluster /\ bound[mem.label] \in Eip \cup {None}
        BY <1>1, <2>1 DEF TypeOK, Named, ClusterSteps, Object
      <3>3. mem.endpoint \in Endpoint
        BY <3>1, <3>2 DEF Endpoint
      <3> QED BY <3>3, Environment
    <2> QED BY <2>1, <2>2 DEF Kept, Running
  <1>7. CASE Worker /\ pc \notin {"Idle", "AddFinalizer", "SetStatus", "SetActiveStatus",
                                  "Close", "Kubeconfig", "ShowReady"}
    BY <1>7, InitializedStays, KeptQuiet DEF Running
  <1>8. CASE CallFails
    BY <1>8, KeptQuiet DEF CallFails, Calls, object, Running
  <1>9. ~(ReplyLost \/ Crash \/ DeletionFails)
    BY DEF ReplyLost, Crash, DeletionFails, Fault, Losing, TypeOK
  <1>10. CASE UserDeletes
    <2>1. api'.initialized = api.initialized /\ api'.endpoint = api.endpoint
      BY <1>1, <1>10 DEF UserDeletes, Object
    <2> QED BY <1>10, <2>1 DEF UserDeletes, worker, cloud, network, Kept, Running
  <1>13. CASE UserEdits
    <2>1. api'.initialized = api.initialized /\ api'.endpoint = api.endpoint
      BY <1>13, UserEditsFields
    <2> QED BY <1>13, <2>1 DEF UserEdits, worker, cloud, network, Kept, Running
  <1>11. CASE \/ ExternalDelete \/ SyncCache \/ CloudProgress \/ PhaseDrift \/ PoolsChange
              \/ InfrastructureReady \/ UNCHANGED vars
    <2>1. UNCHANGED <<api, before, mem, pc, bound>>
      BY <1>11 DEF ExternalDelete, SyncCache, CloudProgress, PhaseDrift, PoolsChange,
                   InfrastructureReady, vars, object, worker, cloud, network
    <2> QED BY <2>1 DEF Kept, Running
  <1>12. Worker => \/ Reconcile \/ AddFinalizer \/ SetStatus \/ SetActiveStatus \/ Close
                   \/ Kubeconfig \/ ShowReady
                   \/ pc \notin {"Idle", "AddFinalizer", "SetStatus", "SetActiveStatus",
                                 "Close", "Kubeconfig", "ShowReady"}
    BY DEF Worker, CreateVpc, CreateSubnet, ShowCluster, CreateCluster, WaitActive,
           WaitTimesOut, ShowActive, ShowEndpoints, CreatePublicip, BindEip,
           Dependencies, ShowDeleting, DeleteCluster, WaitDeleted
  <1> QED BY <1>2, <1>3, <1>4, <1>5, <1>6, <1>7, <1>8, <1>9, <1>10, <1>11, <1>12, <1>13
       DEF Next, Adversity, Environs

\* CCE never gives an identifier twice.
LEMMA NeverReborn ==
    ASSUME Typed, [Next]_vars, NEW c \in Cluster, phase[c] # "Unborn"
    PROVE  phase'[c] # "Unborn" /\ (Alive(c)' => Alive(c))
  <1>1. phase \in [Cluster -> Phase \cup {"Unborn", "Gone"}] /\ "Unborn" \notin Phase
    BY DEF Typed, TypeOK, Phase, Known, Unexpected
  <1>2. CASE UNCHANGED phase
    BY <1>2 DEF Alive
  <1>3. CASE CreateCluster \/ ReplyLost
    <2>1. \/ UNCHANGED phase
          \/ \E d \in Cluster : phase[d] = "Unborn" /\ phase' = [phase EXCEPT ![d] = "Creating"]
          \/ Alive(mem.label) /\ phase' = [phase EXCEPT ![mem.label] = "Deleting"]
      BY <1>3 DEF CreateCluster, ReplyLost, cloud
    <2> QED BY <1>1, <2>1 DEF Alive
  <1>4. CASE DeleteCluster
    BY <1>1, <1>4 DEF DeleteCluster, Alive
  <1>5. CASE ExternalDelete \/ DeletionFails \/ CloudProgress
    BY <1>1, <1>5 DEF ExternalDelete, DeletionFails, CloudProgress, Alive, Phase, Known
  <1>6. CASE PhaseDrift
    <2>1. PICK d \in Cluster, p \in Phase :
             <<phase[d], p>> \in Drift /\ phase' = [phase EXCEPT ![d] = p]
      BY <1>6 DEF PhaseDrift
    <2>2. phase[d] \in Phase
      BY <2>1, DriftKeepsClusters
    <2> QED BY <1>1, <2>1, <2>2 DEF Alive
  <1>7. Worker => UNCHANGED phase \/ CreateCluster \/ DeleteCluster
    BY DEF Worker, Reconcile, AddFinalizer, CreateVpc, CreateSubnet, ShowCluster, SetStatus,
           WaitActive, WaitTimesOut, ShowActive, SetActiveStatus, ShowEndpoints,
           CreatePublicip, BindEip, ShowReady, Kubeconfig, Dependencies, ShowDeleting,
           WaitDeleted, Close, cloud
  <1>8. Environs \/ CallFails \/ Crash \/ UNCHANGED vars
            => UNCHANGED phase \/ CloudProgress \/ PhaseDrift
    BY DEF Environs, SyncCache, UserDeletes, UserEdits, PoolsChange, InfrastructureReady,
           CallFails, Crash, vars, cloud
  <1> QED BY <1>2, <1>3, <1>4, <1>5, <1>6, <1>7, <1>8 DEF Next, Adversity

\* A step that leaves the Secret and the current endpoint, and binds no address.
LEMMA PointedQuiet ==
    ASSUME Typed, Pointed, [Next]_vars, UNCHANGED <<secret, bound>>, Current' = Current
    PROVE  Pointed'
  <1> SUFFICES ASSUME secret # None
               PROVE  /\ secret.server \in Endpoint
                      /\ phase'[secret.server.cluster] # "Unborn"
                      /\ Alive(secret.server.cluster)' =>
                             /\ secret.server.via \in {bound[secret.server.cluster], None}
                             /\ secret.access = "public" =>
                                   /\ secret.server.via = bound[secret.server.cluster]
                                   /\ secret.server.via # None
                             /\ \/ secret.server = Current
                                \/ /\ secret.access # "public"
                                   /\ secret.server = [Current EXCEPT !.via = None]
    BY DEF Pointed
  <1>1. secret.server \in Endpoint /\ phase[secret.server.cluster] # "Unborn"
    BY DEF Pointed
  <1>2. secret.server.cluster \in Cluster
    BY <1>1 DEF Endpoint
  <1>3. /\ phase'[secret.server.cluster] # "Unborn"
        /\ phase'[secret.server.cluster] \in Phase => Alive(secret.server.cluster)
    BY <1>1, <1>2, NeverReborn DEF Alive
  <1> QED BY <1>1, <1>3 DEF Pointed, Alive

LEMMA PointedNext ==
    ASSUME IInv, Addressed, Kept, Pointed, incidents = 0, incidents' = 0, [Next]_vars
    PROVE  Pointed'
  <1> USE DEF IInv, Typed
  <1>1. mem \in Object /\ cache \in Object /\ before \in Object /\ api \in Object
    BY DEF TypeOK
  <1>2. CASE Reconcile
    <2>1. cache = api /\ api' = api /\ ~Running /\ UNCHANGED <<secret, bound>>
      BY <1>2 DEF Reconcile, Fault, Losing, TypeOK, object, cloud, network, Running
    <2>2. mem'.endpoint = api.endpoint /\ Running'
      BY <1>1, <1>2, <2>1, NetworkStepNamed DEF Reconcile, Object, Running
    <2> QED BY <2>1, <2>2, PointedQuiet DEF Current
  <1>3. CASE AddFinalizer \/ SetStatus \/ SetActiveStatus
    <2>1. UNCHANGED <<mem, secret, bound>> /\ Running
      BY <1>3 DEF AddFinalizer, SetStatus, SetActiveStatus, cloud, network, Running
    <2>2. Running'
      BY <1>1, <1>3, StatusLeads, NetworkStepNamed
         DEF AddFinalizer, PatchObject, Running
    <2> QED BY <2>1, <2>2, PointedQuiet DEF Current
  <1>4. CASE Close
    <2>1. pc = "Close" /\ Running /\ ~Running' /\ UNCHANGED <<secret, bound, phase>>
      BY <1>4 DEF Close, PatchObject, Running, cloud, network
    <2>2. CASE api.exists
      <3>1. api' = Persisted(TRUE, TRUE)
        BY <1>4, <2>2, CleanClose
      <3>2. api'.endpoint = Merge(TRUE, before.endpoint, mem.endpoint, api.endpoint)
        BY <1>1, <3>1 DEF Object, Persisted
      <3>3. api'.endpoint = mem.endpoint
        BY <2>1, <3>2 DEF Kept, Merge
      <3> QED BY <2>1, <3>3, PointedQuiet DEF Current
    <2>3. CASE ~api.exists
      <3>1. mem.label = None
        BY <2>1, <2>3, NothingLost DEF Strayed, Fresh
      <3>2. \A c \in Cluster : ~Alive(c)
        BY <2>1, <3>1, OneAlive, Environment
      <3> QED BY <2>1, <3>2 DEF Pointed, Alive, Endpoint
    <2> QED BY <2>2, <2>3
  <1>5. CASE ShowReady
    <2>1. CASE Alive(mem.label)
      <3>1. /\ mem'.endpoint = [cluster |-> mem.label, via |-> bound[mem.label]]
            /\ UNCHANGED <<secret, bound, phase>> /\ Running /\ Running'
        BY <1>1, <1>5, <2>1 DEF ShowReady, Object, cloud, network, Running
      <3> SUFFICES ASSUME secret # None, Alive(secret.server.cluster)
                   PROVE  \/ secret.server = mem'.endpoint
                          \/ /\ secret.access # "public"
                             /\ secret.server = [mem'.endpoint EXCEPT !.via = None]
        BY <3>1 DEF Pointed, Current, Alive
      <3>2. /\ secret.server \in Endpoint
            /\ secret.server.via \in {bound[secret.server.cluster], None}
            /\ secret.access = "public" =>
                  secret.server.via = bound[secret.server.cluster]
        BY DEF Pointed
      <3>3. secret.server = [cluster |-> secret.server.cluster, via |-> secret.server.via]
            /\ secret.server.cluster \in Cluster
        BY <3>2 DEF Endpoint
      <3>4. secret.server.cluster = mem.label
        BY <3>1, <3>3, OneAlive
      <3>5. [mem'.endpoint EXCEPT !.via = None] = [cluster |-> mem.label, via |-> None]
        BY <3>1
      <3> QED BY <3>1, <3>2, <3>3, <3>4, <3>5
    <2>2. CASE ~Alive(mem.label)
      BY <1>5, <2>2, PointedQuiet DEF ShowReady, cloud, network, Running, Current
    <2> QED BY <2>1, <2>2
  <1>6. CASE Kubeconfig
    <2>1. /\ UNCHANGED <<phase, bound>> /\ pc = "Kubeconfig" /\ Running /\ Running'
          /\ mem'.endpoint = mem.endpoint
      BY <1>1, <1>6 DEF Kubeconfig, Object, cloud, network, Running
    <2>2. mem.endpoint = [cluster |-> mem.label, via |-> bound[mem.label]]
          /\ (mem.access = "public" => bound[mem.label] # None)
      BY <2>1 DEF Kept, Addressed
    <2>3. CASE secret # None
      <3>1. secret'.server = secret.server /\ secret'.access = secret.access
        BY <1>6, <2>3, SecretStays
      <3> QED BY <2>1, <2>3, <3>1 DEF Pointed, Current, Alive
    <2>4. CASE secret = None /\ Alive(mem.label)
      <3>1. secret'.server = mem.endpoint /\ secret'.access = mem.access
        BY <1>6, <2>4, SecretStays
      <3>2. mem.label \in Cluster /\ bound[mem.label] \in Eip \cup {None}
        BY <1>1, <2>1 DEF TypeOK, Named, ClusterSteps, Object
      <3>3. mem.endpoint \in Endpoint /\ phase[mem.label] # "Unborn"
        BY <2>2, <2>4, <3>2 DEF Endpoint, Alive, Phase, Known, Unexpected
      <3> QED BY <2>1, <2>2, <3>1, <3>3 DEF Pointed, Current
    <2>5. CASE secret = None /\ ~Alive(mem.label)
      BY <1>6, <2>5, SecretStays DEF Pointed
    <2> QED BY <2>3, <2>4, <2>5
  <1>7. CASE BindEip
    <2>1. CASE Alive(mem.label)
      <3>1. /\ mem.label \in Cluster /\ Running /\ Running' /\ bound[mem.label] = None
            /\ UNCHANGED <<mem, secret, phase>>
            /\ bound' = [bound EXCEPT ![mem.label] = mem.eip]
        BY <1>1, <1>7, <2>1
           DEF BindEip, Addressed, TypeOK, Named, ClusterSteps, Object, Running
      <3>2. ASSUME secret # None, Alive(secret.server.cluster)
            PROVE  secret.server.via = None /\ secret.access # "public"
        <4>1. secret.server \in Endpoint
          BY <3>2 DEF Pointed
        <4>2. secret.server.cluster = mem.label
          BY <3>1, <3>2, <4>1, OneAlive DEF Endpoint
        <4> QED BY <3>1, <3>2, <4>2 DEF Pointed
      <3> QED BY <3>1, <3>2 DEF Pointed, Alive, Current
    <2>2. CASE ~Alive(mem.label)
      BY <1>7, <2>2, PointedQuiet DEF BindEip, Running, Current
    <2> QED BY <2>1, <2>2
  <1>8. CASE Worker /\ pc \notin {"Idle", "AddFinalizer", "SetStatus", "SetActiveStatus",
                                  "Close", "Kubeconfig", "ShowReady", "BindEip"}
    <2>1. UNCHANGED <<api, secret>> /\ Running /\ Running' /\ mem'.endpoint = mem.endpoint
      BY <1>8, InitializedStays DEF Running
    <2>2. UNCHANGED bound
      BY <1>8 DEF Worker, Reconcile, AddFinalizer, CreateVpc, CreateSubnet, ShowCluster,
                  CreateCluster, SetStatus, WaitActive, WaitTimesOut, ShowActive,
                  SetActiveStatus, ShowEndpoints, CreatePublicip, BindEip, ShowReady,
                  Kubeconfig, Dependencies, ShowDeleting, DeleteCluster, WaitDeleted,
                  Close, cloud, network
    <2> QED BY <2>1, <2>2, PointedQuiet DEF Current
  <1>9. ~(ReplyLost \/ Crash \/ DeletionFails)
    BY DEF ReplyLost, Crash, DeletionFails, Fault, Losing, TypeOK
  <1>10. CASE UserDeletes
    <2>1. api'.endpoint = api.endpoint
      BY <1>1, <1>10 DEF UserDeletes, Object
    <2> QED BY <1>10, <2>1, PointedQuiet
         DEF UserDeletes, worker, cloud, network, Current, Running
  <1>14. CASE UserEdits
    <2>1. api'.endpoint = api.endpoint
      BY <1>14, UserEditsFields
    <2> QED BY <1>14, <2>1, PointedQuiet
         DEF UserEdits, worker, cloud, network, Current, Running
  <1>11. CASE CallFails
    BY <1>11, PointedQuiet DEF CallFails, Calls, object, cloud, network, Current, Running
  <1>12. CASE \/ ExternalDelete \/ SyncCache \/ CloudProgress \/ PhaseDrift \/ PoolsChange
              \/ InfrastructureReady \/ UNCHANGED vars
    <2>1. UNCHANGED <<api, mem, pc, secret, bound>>
      BY <1>12 DEF ExternalDelete, SyncCache, CloudProgress, PhaseDrift, PoolsChange,
                   InfrastructureReady, vars, object, worker, cloud, network
    <2> QED BY <2>1, PointedQuiet DEF Current, Running
  <1>13. Worker => \/ Reconcile \/ AddFinalizer \/ SetStatus \/ SetActiveStatus \/ Close
                   \/ Kubeconfig \/ ShowReady \/ BindEip
                   \/ pc \notin {"Idle", "AddFinalizer", "SetStatus", "SetActiveStatus",
                                 "Close", "Kubeconfig", "ShowReady", "BindEip"}
    BY DEF Worker, CreateVpc, CreateSubnet, ShowCluster, CreateCluster, WaitActive,
           WaitTimesOut, ShowActive, ShowEndpoints, CreatePublicip,
           Dependencies, ShowDeleting, DeleteCluster, WaitDeleted
  <1> QED BY <1>2, <1>3, <1>4, <1>5, <1>6, <1>7, <1>8, <1>9, <1>10, <1>11, <1>12, <1>13,
             <1>14
       DEF Next, Adversity, Environs

----
(***************************************************************************)
(* The theorems.                                                           *)
(***************************************************************************)

LEMMA StatusInit == Init => StatusInv
  BY DEF Init, StatusInv, Told, Written, Kept, Pointed, Running, NewObject

LEMMA StatusNext == IInv /\ NetworkInv /\ StatusInv /\ [Next]_vars => StatusInv'
  <1> SUFFICES ASSUME IInv, NetworkInv, StatusInv, [Next]_vars PROVE StatusInv'
    OBVIOUS
  <1>1. Told' /\ Written'
    BY ToldNext, WrittenNext DEF IInv, StatusInv
  <1>2. incidents' = 0 => incidents = 0
    BY IncidentsStay DEF IInv
  <1>3. incidents' = 0 => Kept' /\ Pointed'
    BY <1>2, KeptNext, PointedNext DEF StatusInv, NetworkInv
  <1> QED BY <1>1, <1>3 DEF StatusInv

\* So do setStatus and reconcileKubeconfig with Ready, the endpoint, Initialized
\* and the server in the Secret.
THEOREM StatusInvariance == Spec => []StatusInv
  <1> QED BY StatusInit, StatusNext, Invariance, NetworkInvariance, PTL DEF Spec

\* Status.Ready moves only towards what the last phase read says, although every
\* patch of a reconcile compares with the same old snapshot.
THEOREM ReadyTruthful == Spec => ReadyFollowsPhase
  <1>1. IInv /\ StatusInv /\ [Next]_vars
          => [api'.ready # api.ready => (api'.ready <=> seen \in Serving)]_vars
    BY ReadyFollows DEF IInv, StatusInv
  <1> QED BY <1>1, Invariance, StatusInvariance, PTL DEF Spec, ReadyFollowsPhase

\* Initialized is published only when reconcileKubeconfig has written the Secret,
\* whatever happens, and with an endpoint unless an incident separates the two
\* requests of Close.
THEOREM KubeconfigPrecedence == Spec => []KubeconfigFirst
  <1>1. StatusInv => KubeconfigFirst
    BY DEF StatusInv, Written, Kept, KubeconfigFirst
  <1> QED BY <1>1, StatusInvariance, PTL

\* Without incidents the server that reconcileKubeconfig wrote once stays the
\* published endpoint until its cluster is gone, however the user edits
\* endpointAccess meanwhile, or it is the internal URL of the same cluster and was
\* written by a reconcile that did not find the cluster public.
THEOREM KubeconfigLeads == Spec => []KubeconfigServer
  <1>1. StatusInv => KubeconfigServer
    BY DEF StatusInv, Written, Pointed, Current, Running, KubeconfigServer
  <1> QED BY <1>1, StatusInvariance, PTL

====
