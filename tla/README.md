# A verification of cluster-api-provider-cce

This directory models the controllers of `cluster-api-provider-cce`, the
Cluster API infrastructure provider for Huawei Cloud CCE, in TLA+. The models
are translated from the Go source; TLC checks them on small instances, and
TLAPS proves their safety properties and refinements for every instance. `PROJECT.json` maps every definition to the lines it stands for.

## The system

| Part | Source | State it keeps | Operations |
| --- | --- | --- | --- |
| Control plane reconciler | `internal/controller/ccemanagedcontrolplane_controller.go`, `pkg/cloud/services/cce/cluster.go` | the `CCEManagedControlPlane` object: finalizer, label with the cluster identifier, network identifiers, endpoint, `Ready`, `FailureMessage`, `Initialized` | `reconcileNormal` (finalizer, network, cluster, wait, EIP, kubeconfig), `reconcileDelete` (wait for the pools, delete the cluster, drop the finalizer) |
| Network service | `vpc.go`, `subnets.go`, `eip.go`, `network.go` | VPC and subnet identifiers in the spec, the EIP in the status | create once, bind; `DeleteNetwork` is empty |
| Kubeconfig service | `config.go` | the `<cluster>-kubeconfig` Secret | create with the endpoint, later renew the client certificate only |
| Machine pool reconciler | `ccemanagedmachinepool_controller.go`, `nodepool.go` | the `CCEManagedMachinePool` object: finalizer, label with the pool identifier, `ProviderIDList`, `Ready`, `Replicas`, `FailureMessage` | create, observe and wait; delete, wait, with patches of conditions around |
| Scopes | `pkg/cloud/scope/*.go` | the copy in memory and Cluster API's patch helper with its snapshot | `PatchObject`, `Close`, label accessors |
| `CCEManagedCluster` reconciler | `ccemanagedcluster_controller.go` | the `CCEManagedCluster` object: endpoint, `Ready` | copies the endpoint, sets `Ready` |
| Watches and work queues | the three `SetupWithManager` functions and their mapping functions | one work queue per controller, timers of requeues and backoffs | which change of which object wakes which reconciler; early returns, errors, `RequeueAfter` |
| Service set-up, `waitUntil` | `service.go` | none | credentials from a Secret; forty polls thirty seconds apart |
| Manager | `cmd/main.go` | the lease | one active process, one worker per object at a time, ten-minute resync, recovered panics |
| Webhooks, generated code, manifests | `api/v1beta1`, `config`, `templates` | none | scaffolding (webhooks are not even registered) |

The parts interact through the API server only. A reconcile reads objects from
an informer cache that may be behind, works on a copy, and sends differences to
the snapshot it started from, in two requests (metadata and spec; status). The
control plane waits for the pool objects to go (`dependencyCount`) before it
deletes the cluster; a pool's reconcile does nothing at all, not even a
deletion, before the control plane is `Ready`; the node pools live in the CCE
cluster and go with it. The control plane waits for Cluster API's
`InfrastructureReady`, which the `CCEManagedCluster` reconciler brings about by
being ready long before there is an endpoint. Between reconciles everything
depends on wakeups: an object whose reconcile returned without an error sleeps
until a watch, a timer or the resync puts its key back into the queue.

What is hard here: every cloud resource is known only in memory between the
call that makes it and the patch that records it (crashes, lost answers, failed
or half-served patches, stale reads); requests carry no idempotency key;
several patches of one reconcile share one snapshot; waits of up to twenty
minutes during which the object is deleted or the cloud moves on; nil
dereferences that end a reconcile in a recovered panic; an `endpointAccess` that
the user may edit between two reconciles; two deletions that wait for each other; pool objects that appear behind `dependencyCount`; and
changes no watch reports to the reconciler they concern. `PROJECT.json` lists these hazards at their lines.

What makes each part correct:

* control plane: at most one live cluster, and the controller knows its
  identifier; one VPC, held until the object goes; no more idle addresses than
  faults; a kubeconfig that leads where the object says; the finalizer is stored before
  anything is created and removed only when the cluster is gone; `Ready` and
  `Initialized` say what was observed; creation and deletion complete;
* pools: the same of one node pool; the published replicas and provider IDs
  converge; never ready and failed at once;
* together: no cluster is deleted under its pools, and both deletions complete;
* the three reconcilers: no wakeup is lost, and the gates open one after the
  other until the endpoint stands in the `CCEManagedCluster`.

## Modules

| Module | What it is |
| --- | --- |
| `PatchHelper` | `Merge`: what one served or unserved request of the patch helper leaves in a field |
| `ControlPlane` | the control plane reconciler, the network and kubeconfig services, and the cloud they call |
| `ControlPlaneProofs` | theorems about `ControlPlane`: types, whose clusters are, the refinement of `Ownership` |
| `ControlPlaneNetworkProofs` | on top of it: VPC, subnet and addresses |
| `ControlPlaneStatusProofs` | on top of that: `Ready`, `Initialized`, endpoint and kubeconfig |
| `Ownership` | abstract: what a reconciler promises of the resources it makes for an object |
| `OwnershipProofs` | what follows from that promise |
| `AccountsProofs` | lemmas about accounts: resources that are lost, each put down to an incident of its own |
| `NodePool` | the machine pool reconciler and the node pools of a cluster |
| `NodePoolProofs` | theorems about `NodePool` |
| `Teardown` | one instance of each side by side, meeting where the code makes them meet; `BesidePool` and `BesideControlPlane` say what a step of one does to the other |
| `TeardownProofs` | theorems about `Teardown`, from those of its two parts |
| `Bootstrap` | all three reconcilers as what wakes them, what they read first and what they publish last: queues, timers, watches, gates |
| `BootstrapProofs` | theorems about `Bootstrap` |
| `MCControlPlane`, `MCNodePool`, `MCTeardown` | values for the constants, and symmetry |

### How state and actions correspond to the code

`api` is the object at the API server, `cache` the informer's copy, `before`
the patch helper's snapshot and `mem` the object the scope holds. `pc` names the
next call of the running reconcile; an action is one call to the API server or
the cloud with the code that runs until the next call, so every interleaving of
the environment with the calls is explored, and nothing else is interleaved
(controller-runtime never runs two reconciles of one object at once).
`ControlPlane` and `NodePool` name their actions after the calls: `CreateVpc`,
`ShowCluster`, `SetStatus` (the `PatchObject` that ends `setStatus`),
`WaitActive`, `BindEip`, `Kubeconfig`, `MarkDeleting`, `Close`. `Observe` is
what `setStatus` does before it patches. Errors and recovered panics go to
`Close`, because the deferred `Close` runs in both cases.

`PatchObject` has three outcomes: both requests served; some subset served and
an error (a fault); the object gone. A patch sends only the fields in which
`mem` differs from `before` (`Merge`): that rule, with a snapshot shared by all
patches of a reconcile, is what `ReadyFollowsPhase`, `NeverReadyAndFailed` and
`ClosePersists` are about.

`access` is `spec.endpointAccess` of the stored object: absent, private or
public. It can be edited (no webhook is registered, the CRD does not make it
immutable) and every reconcile acts on the copy it has read (`cluster.go:87`), so
`UserEdits` may change it between any two steps, and a reconcile under way keeps
the older value. `Edits` names the changes an instance allows. A cluster that is
opened up later gets its address and its external endpoint then, while
`reconcileKubeconfig` (`config.go:178`) keeps the server of the Secret that
exists: `KubeconfigServer` states that exception, and nothing wider, through
`secret.access`, a history of what the reconcile that made the Secret went by.
`KubeconfigSecret` is the Secret after `reconcileKubeconfig`, also when the API
server's answer is lost (`ReplyLost`).

`NetworkOwned` and `EipLeakBound` speak of an object that somebody wants. While
it exists, its VPC is the one it records or the one its running reconcile holds;
once it is gone nobody holds the VPC any more, for `DeleteNetwork` is empty
(`cp_network_left`), and all that is said is that no reconcile left over has
made another. An address is `Unused` when the reconcile is not about to bind it
and no live cluster has it, unless a deletion was asked for: the address of a
cluster that `reconcileDelete` deletes stays behind with the VPC. So a fault-free
life that ends in a deletion leaves one address and one VPC, which the two
invariants do not count as leaks of a fault.

A cluster or pool identifier goes from `"Unborn"` through its phases to
`"Gone"`. `Hibernation` stands for every phase `setStatus` rejects; in a pool
`"Active"` stands for the empty phase, `"Synchronizing"` for `Synchronized`
too, `"Error"` for `SoldOut` too.

Adverse events are counted: `faults` counts all, `incidents` those that can
separate the controller from what it made (`crash`, `lostReply`, `closeFails`,
`staleRead`, `deleteFails`). `callFails` and `externalDelete` cannot: a
property with `incidents = 0` holds through any number of them. This makes leak
bounds expressible: the code cannot promise that nothing is ever orphaned, but
each incident orphans at most one cluster or pool.

`Ownership` is the abstraction both reconcilers implement (`OwnsClusters`,
`OwnsPools`): a set of live resources, whether the stored object carries the
finalizer, and the incidents so far. `Create` may add a resource only under the
finalizer and only when every live one is put down to an incident; `Release`
may take the finalizer away only then; an incident adds one resource at most.
The dozens of steps of a reconcile map to these five or to a stutter.

`NodePool` knows its cluster by `ClusterChanges`: it comes, goes with its pools,
is replaced, or the label moves to a new cluster while the old one lives on (a
stale read in the other reconciler). After such a move the calls address the new
cluster, where there are no pools; those of the old one are orphans with it and
counted there, by `ClusterLeakBound`. `ControlPlaneChanges` stands for the other
reconciler's `Ready` and translates no code of it; that it does what the control
plane really does is `NodePoolSpec` of `Teardown`.

In `Teardown` the pool object may be created, cached and deleted at any time.
The history `counted` follows `dependencyCount`: `"passed"` when it finds no
pool, `"late"` when there is one all the same, not in the cache yet or created
afterwards. A late pool loses its cluster and keeps its finalizer for ever,
since a pool's `Reconcile` returns without an error when it finds no control
plane; `PoolsFirst` and `TeardownCompletes` are stated for every other pool.

`Bootstrap` turns the view round. The cloud calls of a reconcile are left to
the other modules; a reconcile is a step that takes the key off `queue` and
reads (`BeginCluster`, `BeginControlPlane`, `BeginPool`, or `TakeAndReturn`
where it returns at once), and steps that publish (`EndCluster`,
`ObserveControlPlane`, `CloseControlPlane`, ...), so that everything can change
in between. `running` is what the reconcile will publish from what it has read.
`HeardFromCluster`, `TellsCluster`, `TellsPools` are the mapping functions with
their early returns; `ClusterReturns`, `ControlPlaneWaits`, `PoolReturns` and
the rest are the conditions under which each `Reconcile` returns nil, an error
or a `RequeueAfter`. Changes that concern an object and that the code tells it
nothing of are collected in the history `missed`, until its next reconcile. It
has three sources: an unpaused `Cluster` (the control plane's watch of
`Cluster`, `ccemanagedcontrolplane_controller.go:147`, is given the kind of an
empty object, so its mapping matches nothing; pools have no such watch), a
control plane that publishes while it is being deleted, and a cluster found out
of service, after which `reconcileCluster` returns nil (`cluster.go:80`).

### Assumed of what is not in this repository

* Patch helper (Cluster API 1.4.3): field-wise merge patches against the
  snapshot, metadata and spec in one request, status in another; the last
  finalizer removed from a deleting object removes the object.
* Informer: `cache` lags, and moves to the stored object in one step.
* CCE: `CreateCluster` answers `Creating`; `DeleteCluster` makes the phase
  `Deleting` at once; a deletion may be given up (`DeletionFails`);
  `ShowNodePool` with the empty identifier answers 404; a missing thing is a
  404; the phase of an active pool is the empty string, not a missing field.
* Cluster API: `InfrastructureReady`, once true, stays true; it is copied from
  `CCEManagedCluster.Status.Ready`; owner references are set while the
  `Cluster` is neither paused nor unseen. `ClusterToInfrastructureMapFunc` maps
  a `Cluster` only to an `InfrastructureRef` of the kind it was built with.
* controller-runtime: a key in the queue is there once; a key that arrives
  during its own reconcile is processed again; an error or `RequeueAfter`
  brings it back; a restart lists all objects; a resync sends each an update.
  In `Bootstrap` an event is delivered with the change it reports, and a read
  sees what was delivered.

## Runs

| Run | Instance | Shows |
| --- | --- | --- |
| `cp_accounting` | 3 clusters, VPCs, addresses; any 2 faults of 7 kinds; a private cluster that its user opens to the public at any moment | nothing created is lost or doubled beyond the incidents, which is `Ownership`; finalizer first; kubeconfig before `Initialized`, and for the published endpoint or the internal URL from before the edit |
| `cp_liveness` | 2 of each; a public cluster; any 1 fault; a late start and hibernation | deletion completes; an undeleted object is initialized once CCE is calm; `Ready` follows the phase read; `Ready` and `FailureMessage` settle with the cluster |
| `np_accounting` | 4 pools; any 3 faults of 7 kinds; drift, cluster comes and goes | the same for pools, without their nodes; `Ready` follows the phase read; never ready and failed |
| `np_liveness` | 2 pools; any 1 fault but a stale read | types; deletion completes while the control plane is ready; the status converges |
| `td_composition` | one object of each kind, the pool's at any time; 2 clusters; upgrades | the control plane's reconciler is the environment that `NodePool` takes it for; pools before the cluster; both deletions complete |
| `bs_wakeups` | one object of each kind; pauses, an unreliable service, one failed reconcile or crash | no wakeup is lost but the three kinds in `missed`; with none missed the cluster comes up without the resync, and with the resync always |
| `cp_network_left`, `cp_failed_deletion`, `cp_hibernation`, `cp_no_access`, `np_resync`, `td_outage` | smallest instance that shows it | six statements of comments or types the code does not live up to (PROJECT.json, `findings`) |

One more such statement has no run of its own: `Replicas` is the "most recently
observed number of replicas" in `ccemanagedmachinepool_types.go`, but
`nodepool.go:262` writes it for a pool with nodes only, so scaling to zero
leaves the old number; `StatusConverges` therefore asks for nodes.

Deadlock checking is off in all of them but `bs_wakeups`: an object that is
gone and whose cloud is quiet has no further step, which is the end the code
intends.

Bounds. `MaxFaults` bounds adverse events. Two are enough for every fault to
meet the recovery from another one (a crash after a lost answer, a failed patch
in the reconcile after a stale read); leaks need one. The pools, with the
smaller state space, have three. Identifiers are never reused, so their sets
bound how often a resource is made: three allow the first and one replacement
per fault. With fewer identifiers than faults a creation could be disabled for
lack of an identifier; the accounting runs have one more than `MaxFaults`, and
in the liveness runs with one fault there are two. In `np_liveness`, `MaxNodes
= 1` distinguishes a pool without nodes, with its nodes, and with more listed
than it has; no property of `np_accounting` reads the nodes, which are left out
there (`MaxNodes = 0`). Symmetry is used where no liveness is checked.
`np_liveness` leaves the stale read out to stay small: that fault delays a
reconcile there and its consequences for the status are covered in safety by
`np_accounting`. `Bootstrap` needs one endpoint value, since the properties
compare it with none and with the copy, and one fault: a failed reconcile or a
crash at each point of a wakeup; users, pauses and the service act without
bound. `Teardown` has no faults and no drift of the pool: it is about the order
in which the two reconcilers meet, and each has its faults in its own module.
`td_composition` ties the two levels: `NodePoolSpec` says that the control plane,
its reconciler and its cloud together do to a pool nothing that `NodePool`'s own
environment (`ControlPlaneChanges`, `ClusterChanges`) does not have. In a module
without faults that excludes a cluster that comes back, and the second
identifier is there so that the reconciler could make one if its code let it.
`endpointAccess` is not edited in the liveness runs and in `Teardown`: no
liveness property depends on it but through `cp_no_access`, where it is absent.

Fairness. `WF_vars(Worker)`: the work queue brings an object back after an
error (backoff), a requeue, an event or the ten-minute resync (`syncPeriod` in
`cmd/main.go`), and every call and wait is finite (forty polls of thirty
seconds). The informer catches up, CCE finishes what it has been asked for and
the infrastructure becomes ready. That pools go away is not assumed:
`DeletionCompletes` of the control plane has it as its premise, and in
`Teardown` the pools' own reconciler sees to it. `Bootstrap` has fairness for
each worker, each timer and Cluster API's own controllers, and deliberately
none for the resync: `Bootstraps` shows that watches and requeues are enough
when nothing is missed, and `ResyncRescues` takes the fairness of `Resync` as
its premise. There is no fairness for faults, drift, edits or users, and none that
separates the outcomes of one wait: a wait may time out as often as it likes,
but CCE's own progress eventually ends it. The control plane runs split the
environment to keep each within minutes (edits under two faults, a late start and
hibernation under one with liveness, upgrades in `td_composition`); the theorems
hold for every `Drift` and every `Edits` together.

`DeletionCompletes` of the pools is conditional on the control plane staying
ready; `td_outage` shows why: with both objects under deletion and the cluster
unavailable, the pool waits for `Ready`, which nobody updates any more, and the
control plane waits for the pool.

## Proofs

Every invariant and every action property that a run checks is a theorem for
all values of the constants: any identifiers, `Drift`, `Edits`,
`FaultKinds`, `MaxFaults`, `MaxNodes`, endpoints. The constants are subject to the
assumption `Environment` of each module (`None` is none of the values it stands
beside, `EndpointAccess` is one of its three values, `Edits` are pairs of them, the fault kinds are those
of the module) and to `DriftKeepsClusters` of `ControlPlane` (CCE alone neither
makes nor deletes a cluster). TLC evaluates them in the runs. Sets of
identifiers may be infinite.

| Module | Theorems (property) |
| --- | --- |
| `ControlPlaneProofs` | `TypesHold` (`TypeOK`), `Invariance`, `ClusterOwnership` (`ClusterOwned`), `ClusterLeaks` (`ClusterLeakBound`), `FinalizerPrecedence` (`FinalizerFirst`), `ClustersOwned` (`OwnsClusters`) |
| `ControlPlaneNetworkProofs` | `NetworkInvariance`, `NetworkOwnership` (`NetworkOwned`), `AddressLeaks` (`EipLeakBound`) |
| `ControlPlaneStatusProofs` | `StatusInvariance`, `ReadyTruthful` (`ReadyFollowsPhase`), `KubeconfigPrecedence` (`KubeconfigFirst`), `KubeconfigLeads` (`KubeconfigServer`) |
| `NodePoolProofs` | `TypesHold` (`TypeOK`), `Invariance`, `PoolOwnership` (`PoolOwned`), `PoolLeaks` (`PoolLeakBound`), `FinalizerPrecedence` (`FinalizerFirst`), `ReadyTruthful` (`ReadyFollowsPhase`), `StatusConsistent` (`NeverReadyAndFailed`), `PoolsOwned` (`OwnsPools`) |
| `OwnershipProofs` | `OwnershipBounds` (`Bounded`) |
| `TeardownProofs` | `Invariance`, `NodePoolComposes` (`NodePoolSpec`), `PoolsGoFirst` (`PoolsFirst`) |
| `BootstrapProofs` | `Invariance`, `TypesHold` (`TypeOK`), `WakeupsKept` (`NoLostWakeup`) |

**Whose clusters and pools are.** `ClusterOwned` is not inductive, nor is the
leak bound. A call could be reached with a label that is neither stored nor
about to be, `createCluster` could be reached with a cluster alive, a patch
could overwrite the label. `IInv` of `ControlPlaneProofs` has three parts:

* `Typed`: `TypeOK`, and a call that names a cluster or VPC has its identifier;
* `Traced`: what stored object, cache, snapshot and copy can differ in. A label
  is stored under a finalizer only, the cache is an earlier state, a copy keeps
  its label until the step that changes it, a deletion runs for a deleted object;
* `Accounted`: every live cluster that is not `Credited` (named by the copy that
  will be there when the reconcile ends) is put down to an incident of its own.

`Accounted` holds for any number of incidents. A crash or lost answer loses one
cluster and counts one; the difficult case is the stale read, which loses
nothing when it happens and lets a later patch overwrite a label. It is charged
when the reconcile starts: `Strayed` stands for the one label that may yet be
lost, and the account (`Balanced`) keeps an incident in reserve for it.
`AccountsProofs` has the arithmetic. `ClusterOwned` is the case of no incident,
`ClusterLeakBound` the comparison of two sets. `ClustersOwned` maps every step
to one of `Ownership`: when a cluster is made no live one is credited, which is
`Cleared`; the finalizer is dropped in the same situation. `NodePoolProofs`
follows the same argument. The step proofs have one lemma per group of actions
and one per conjunct, over lemmas about what a patch can leave.

**Status.** `ReadyFollowsPhase` needs `Told`: the copy differs from the snapshot
in `Ready` only as the last phase read says. For the control plane that is true
up to the phase `setStatus` rejects, whose patch has been served then. Pools
need `Clean` besides for `NeverReadyAndFailed`: while a pool synchronizes, the
copy keeps the snapshot's failure, so that no two patches of one reconcile add
one field to the other. `Written` and `Kept` carry `Initialized` and the
endpoint to the stored object. `Pointed` follows the server in the Secret: while
its cluster lives it is the endpoint that is or will be published, or it lacks
the address that was bound after the Secret was made, and then `secret.access`
was not public; a Secret made for a public cluster had the address before.

**Network.** `Networked` says where the VPC and the subnet are recorded, before
and after the one patch that stores them, and that there is no VPC while the
reconcile of a vanished object runs. `Addressed` and `Spent` account for
addresses as `Accounted` does for clusters. `Stranded` is what `Unused` needs to
be inductive: it counts an address already when its cluster is on its way out
(`Failing`) for a user who still wants the object (`Wanted`), since the fault
happens then and the cluster is gone only later. A deletion that the reconciler
asks for itself strands nothing, because by `Traced` the object is no longer
wanted when `deleteCluster` runs. `Indebted` holds an address back for a failing
cluster without one, for which `reconcileEIP` is on its way.

**Composition.** `TeardownProofs` instantiates the two proof modules at the
constants and state functions of `Teardown` (no faults) and reuses their step
lemmas. Each reconciler's invariant gives the other what its environment must
not do: a deleted cluster does not come back (`Torn`: without faults a deletion
only starts for a deleted object, whose reconciles create nothing), and a live
pool keeps its object with the finalizer (`PoolSheltered`). With `Counted`, what
`dependencyCount` has seen stays true until a late pool object appears, which
is `PoolsFirst`.

**Wakeups.** `NoLostWakeup` is not inductive: it excuses the key of a running
reconcile, and says nothing of what that reconcile leaves behind when it ends.
`Fresh` adds it: what a running reconcile has read is still so, or its key is
in `Awaited` (queued, timed or in `missed`). `Begun` says who can be running at
all: owner references and finalizers come first.

Only model-checked, since liveness under fairness and `ENABLED` are out of the
prover's reach: `DeletionCompletes`, `Initializes` and `StatusConverges` of the
control plane, `DeletionCompletes` and `StatusConverges` of the pools,
`TeardownCompletes`, `Bootstraps` and `ResyncRescues`. `NodePoolSpec` is stated,
and proved, without fairness.

## Not modelled

Conditions, events and logs (no step depends on them but the first patch of
`reconcileVPC`, which is folded into `CreateVpc`); the pause annotation of a single
object and the watch-filter label (`Bootstrap` has the pause of the `Cluster`);
tags, taints and flavours;
`NewService`'s Secret lookup, whose error is `CallFails`; panics on a missing
`IdentityRef` or other malformed objects, except the optional `EndpointAccess`;
edits of the spec other than `endpointAccess`; the deletion of the
`CCEManagedCluster`, which has no finalizer and no deletion branch; the content
of the kubeconfig beyond its server and the cluster of its certificate; webhooks,
generated code, manifests.

## Plan

Done: `ControlPlane`, `NodePool`, `Teardown` with late pools, `Bootstrap`,
`Ownership`, and the proofs of all their safety properties and refinements.
Left, in this order:

1. The safety part of what the liveness runs rely on: in `Bootstrap`, that a
   key in `missed` belongs to one of the three named kinds of change, as an
   action property with a theorem.
2. In `NodePool`, a safety statement of what `ProviderIDList` and `Replicas`
   may say while nodes come and go, beyond their types.
3. `Teardown` with faults: `Torn` and `Counted` under incidents, which the two
   modules have one by one already.
