# TLA+ models of the habana-ai-operator reconciliation engine

This directory holds TLA+ models of the DeviceConfig controller in `src/`,
together with the TLC configurations that check them. Run the tools from
this directory:

```
tlasany DeviceConfigController.tla
tlc -workers 2 -config MCSafety.cfg MCDeviceConfigController
```

## The system

The operator watches `DeviceConfig` resources. For each one it maintains these
children:

- a KMM `Module` named `<name>-module`, which installs the Gaudi driver on the
  selected nodes;
- a node-metrics `DaemonSet` named `<name>-node-metrics`, which has a hostPort;
- a node-metrics `Service` with the same name.

The controller-runtime framework calls `Reconciler.Reconcile`
(`src/controllers/deviceconfig_controller.go:95-168`) for one DeviceConfig at a
time. Passes of different DeviceConfigs may run concurrently (spec section
5; one manager with the default single worker runs them one after another,
which is one of the interleavings the model allows). Each pass does the
following, in order:

1. `Get` the DeviceConfig. If it is NotFound, the pass is done.
2. If it is marked for deletion and carries the finalizer, call
   `deleteDeviceConfigResources`, which deletes **only the Module**. Then
   remove the finalizer.
3. `CheckDeviceConfigForConflictingNodeSelector`
   (`src/controllers/nodeselector.go`) lists every DeviceConfig, deleting ones
   included. It concatenates the names of the nodes each one selects and runs
   `containsDuplicates` on the result. On a conflict the pass records an event,
   sets the `ReconciliationFailed` gauge to 1 and returns nil. It sets no
   condition and requests no requeue.
4. Add the deletion finalizer, which is an `Update` of the fetched copy.
5. `ReconcileModule` (`src/internal/module/module.go`), then
   `ReconcileNodeMetrics` (`src/internal/node/metrics/metrics.go`, DaemonSet then
   Service). Each is a `CreateOrPatch` of the desired object. On any error the
   pass calls `SetConditionsErrored`, sets the gauge to 1 and returns the error.
6. On success the pass sets the gauge to 0 and calls `SetConditionsReady`.

Both condition setters (`src/internal/conditions/conditions.go`) set Ready and
Errored on the fetched copy, then write both in one resourceVersion-guarded
`Status().Update`.

The pieces interact only through the cluster store:

- The validator reads every DeviceConfig.
- Each update is refused when the object changed since the `Get`.
- Children carry a controller owner reference, so the garbage collector removes
  them once their DeviceConfig is gone.

## Modules

`DeviceConfigController.tla` is the engine. `MCDeviceConfigController.tla`
fixes the initial node labels for TLC; `MCEmptySelector.tla` fixes another
set, with a node that lacks the device label. `DeviceConfigLifecycle.tla` is
the abstract specification of what the engine promises for one DeviceConfig
and its Module, with no reconcile passes in it. The engine is shown to
implement it (`ImplementsLifecycle` in the `safety` run below). `ManagerBootstrap.tla` models the start-up of the
process (`main.go`) and `settings.Load`. `MCManagerBootstrap.tla` names its
environment variables.

| code | model |
|---|---|
| DeviceConfig object (`phase`, `spec.nodeSelector`, finalizer, two conditions, UID) | `dc[d]` (`uid` counts the incarnations of the name) |
| `<name>-module`, DaemonSet, Service | `module[d]`, `nmDS[d]` (the node selector each targets, or `NoChild`), `nmSvc[d]` |
| pass in flight: next call, fetched copy, whether the store changed since | `pass[d]` |
| `ReconciliationFailed` gauge | `gauge[d]` |
| `Get` plus branches (lines 98-122) | `Reconcile` |
| `deleteDeviceConfigResources` / `DeleteModule` | `DeleteModule` |
| `RemoveDeletionFinalizer` | `RemoveDeletionFinalizer` |
| conflict check (lines 124-134) | `CheckDeviceConfigForConflictingNodeSelector`, `SelectedNodeNames`, `SelectedNodes`, `ContainsDuplicates`/`Dup` |
| `AddDeletionFinalizer` | `AddDeletionFinalizer` |
| `ReconcileModule` / `SetDesiredModule` | `ReconcileModule` / `DesiredModule` |
| `ReconcileNodeMetricsDaemonSet`, `ReconcileNodeMetricsService` | actions of the same names |
| `SetConditionsErrored`, `SetConditionsReady`, `Status().Update` | actions of the same names, `StatusUpdate` |
| user `kubectl apply/edit/delete` | `CreateDeviceConfig`, `UpdateNodeSelector`, `DeleteDeviceConfig` |
| owner-reference garbage collection by UID | `GarbageCollect`, `Collectable`, `oldOwner[d]` (children still controlled by an earlier DeviceConfig of the same name) |
| `ctrl.SetControllerReference` in each `SetDesired*` (module.go:158, metrics.go:261, 290) | `Adopt` |
| work queue: `For(DeviceConfig)`, `Owns(Module)`, requeue on error (lines 171-182) | `queued[d]`, `Requeue` |
| informer periodic resync | `ResyncAll` (enabled by the constant `Resync`) |
| `mgr.GetClient()` given to every collaborator (main.go:117-125): Get/List from the informer cache | `Read` = `cache`, `events`, `Deliver`, `Fetched`, `Pending` |
| node-metrics pod labels and the Service's endpoints | `labelsForNodeMetricsDaemonSet`, `NodeMetricsEndpoints` |
| `getDeviceConfigSelectedNodes`: nil-only defaulting, then a label-selector List of Nodes (nodeselector.go:67-82) | `ListSelector`, `MatchingNodes`, `SelectedNodes` |
| node labels (`kubectl label node`) | `labels` (initially `SelectedBy`), `LabelNode` for the selectors in `Relabel` |

A pass starts only for a queued name. A pass that returns an error requeues
the name. A write that changes an object watched by the controller also
requeues it: a DeviceConfig update, or a Module create or patch. A write that
changes nothing, and any write to the DaemonSet or Service (not watched),
queues nothing. With `Recreate = TRUE`, a name whose DeviceConfig is gone can be
created again before garbage collection has removed its children. Those
children keep the old controller reference (`oldOwner`) until either the
garbage collector deletes them or a pass of the new object patches them.
`SetControllerReference` recognises an existing controller reference by
group, kind and name, not by UID. So it does not fail with AlreadyOwned:
it replaces the old UID with the UID of the copy the pass fetched, and the
new object adopts the child (`Adopt`). A pass whose copy came from a cache
still holding an earlier incarnation would write that earlier UID, and the
child would stay collectable. `Adopt` models this too. The cache can hold
an earlier incarnation only with more watch events in flight than the runs
allow, so no run reaches that case.

Reads of DeviceConfigs go through the informer cache, because every
collaborator is built on `mgr.GetClient()`. These reads are the `Get` in
`Reconcile` and the `List` in the conflict check. Writes go to the store. A
write that changes a DeviceConfig is appended to `events`. `Deliver` applies
the oldest event to `cache` and queues the name. The watch stream of one kind
is ordered, so the cache is always an earlier state of the store. At most
`CacheLag` events are in flight; a write waits while that many are pending.
With `CacheLag = 0` the cache is the store, and the runs without lag reach
exactly the state counts they reached before the cache was added. A copy
fetched while a write to its object is pending is stale from the start
(`Pending`), so its resourceVersion-guarded writes fail.

Each cluster-API call is one step. A failed call is the `Fault` disjunct of
that step, bounded by `MaxFaults`. A write by the user sets `pass[d].stale`, so
every later resourceVersion-guarded write of that pass (`Writable`) fails.
Data that is the same in every pass is left out of the model: images,
containers, volumes, event text and condition messages. A selector is a model
value, and `labels` maps each selector to the nodes its labels match now;
it starts as `SelectedBy` and changes only by `LabelNode`. The controller
watches no Nodes, so a relabel queues nothing. A spec selector is unset
(`NilSelector`), empty (`EmptySelector`, a non-nil empty map) or one of the
others. `GetNodeSelector` gives the default for both of the first two, as
spec section 3 describes. The validator defaults only the nil one, and the
label selector of an empty map matches every node (`MatchingNodes`).

The finalizer helpers (`internal/finalizers`) and `GetNodeSelector`
(`api/v1alpha1`) are not in `src/`. They are modelled from spec sections 3
and 4.2, and `PROJECT.json` marks them `spec_modelled`.

## Runs

The controller runs use two DeviceConfigs `a`, `b` (three in
`global_conflict`, one in `liveness_faults`) and two nodes. There are three
selectors: `SelA` = {n1}, `SelB` = {n2}, and the default = {n1, n2};
`empty_selector` has its own nodes and selectors (`MCEmptySelector.tla`).
Every run except `liveness`, `quiesce`, `global_conflict` and
`empty_selector` allows transient API errors (two in `liveness_faults`, one
elsewhere). Node labels change only in `liveness`.

- **safety** (`MCSafety.cfg`, pass, `CacheLag = 1`, 3 user operations, spec
  edits and re-created names allowed, one API error). Passes start from
  cached copies that may be older than the store. It checks these properties:
  - `ChildrenRequireFinalizer`: a Module exists only while its DeviceConfig
    exists with the finalizer.
  - `SettledReadyIsRealised`: a live DeviceConfig that shows Ready with a
    gauge of 0 has children that realise its current spec under its own UID.
    This must hold whenever it is settled: no pass running, not queued, and
    no watch event of it in flight. A conflict leaves Ready untouched on
    purpose (spec 4.3) and raises the gauge instead, so that case is exempt.
    The property fails if any of these leaves a DeviceConfig settled but
    untrue: a spec edit, a failed child call, a stale status write, a
    re-creation or a missed adoption. A Module that is created but never
    patched is one mutant of this kind.
  - `ReadyOnlyForCurrentSpec`: an action property. A step that turns Ready to
    True leaves children that realise the spec as it is at that moment. This
    holds because of the resourceVersion guard on the status update. A copy
    fetched while an edit is still in flight is stale from the start.
  - `ImplementsLifecycle`: `DeviceConfigLifecycle!Spec` under the mapping
    `guarded <- finalizer` and `status <- the two conditions`. Every step of
    passes, user operations, deliveries, resync and garbage collection is a
    lifecycle step or leaves the mapped state unchanged. In particular:
    - the finalizer is added before any Module is created;
    - it is released only once the Module is gone;
    - Ready is set only while the Module realises the current selector.

  `ChildrenRequireFinalizer` survives the lag because the cache never goes
  back in time. A pass that removed the finalizer had read `Deleting`, so no
  later pass reads `Live` and re-creates the Module.
- **liveness** (`MCLiveness.cfg`, pass, two DeviceConfigs with an unset
  selector or `SelA`, 3 user operations among creations, deletions and
  changes of the device label of n1 or n2, no API errors) and
  **liveness_faults** (`MCLivenessFaults.cfg`, pass, one DeviceConfig,
  `CacheLag = 1`, 3 user operations including edits and a re-creation, two
  API errors at any call). Checking fairness costs far more per state than
  safety, so each liveness run keeps to about 15 000 to 40 000 states. The
  first run covers conflicts between two DeviceConfigs made or healed by a
  deletion or a relabel. The second covers recovery from failed calls and
  from passes that read a stale copy: their guarded writes fail and they are
  repeated once the pending event is delivered. Both check:
  - `Teardown`: every deletion eventually completes and leaves no children.
  - `Converges`: every live DeviceConfig with no overlap ends up Ready, with
    matching children and a gauge of 0.

  `liveness` also checks `ConflictReported`: every live DeviceConfig whose
  Module targets a node another one targets ends with the gauge at 1, the
  only trace of a conflict (no condition is set). When the overlap comes from
  a node relabel, nothing queues a pass. The gauge catches up only at the
  periodic resync, and so does `Converges` after a relabel that ends a
  conflict.
- **partition** (`MCPartition.cfg`, pass, no spec edits, `CacheLag = 2`). It
  checks `NodesPartitioned`: the Modules of two DeviceConfigs never share a
  node, in any interleaving of creations, deletions, passes and deliveries.
  One might expect two creations, each checked against a cache that lacks the
  other, to both pass. That does not happen: the cache applies writes in
  order, so the pass of the later DeviceConfig always lists the earlier one.
- **partition_with_edits** (`MCPartitionUpdates.cfg`, violation). Once
  selectors can be edited, `NodesPartitioned` fails, as follows:
  1. `a`'s Module sits on `SelA`.
  2. `a` is edited to `SelB`.
  3. A new `b` with `SelA` passes the check, because the check compares specs
     and not deployed Modules.
  4. `b` gets a Module on n1 while `a`'s old Module is still there.
- **orphaned_node_metrics** (`MCOrphans.cfg`, violation). It checks
  `AllChildrenRequireFinalizer`, which states spec sections 3 and 8: every
  child is deleted before the finalizer is removed. TLC shows that the
  finalizer is removed while the DaemonSet and Service still exist, because
  `deleteDeviceConfigResources` deletes only the Module. Until garbage
  collection runs, the hostPort DaemonSet of the deleted DeviceConfig is still
  running.

- **quiesce** (`MCQuiesce.cfg`, pass, no resync, no API errors). It checks
  `Quiesces`: once the user stops, the work queue empties. The watch events
  caused by the controller's own finalizer, Module and status writes die out,
  because an `Update` that changes nothing produces no event.
- **swallowed_list_error** (`MCSwallowedError.cfg`, violation). It checks
  `TransientErrorsRequeued`: a pass that ends because of a transient API error
  leaves its name queued. TLC shows a failed `List` in the conflict check. The
  code reports it as a conflict (event, gauge 1) and returns nil
  (controller lines 124-134). Nothing requeues the name until the next edit or
  resync. This contradicts spec section 7.
- **shared_metrics_endpoints** (`MCSharedMetrics.cfg`, violation). It checks
  `MetricsServiceOwnPods`: a DeviceConfig's node-metrics Service selects only
  its own DaemonSet's pods. `labelsForNodeMetricsDaemonSet` ignores the
  DeviceConfig, so with `a` on n1 and `b` on n2, `a`'s Service routes to `b`'s
  pod on n2. This contradicts the comment at metrics.go:341 and spec section 3.

- **global_conflict** (`MCGlobalConflict.cfg`, violation, three DeviceConfigs).
  It checks `RejectsOnlyConflicting`: the check rejects a DeviceConfig only
  when its own nodes meet another's. TLC creates `a` on SelA, then `b` and
  `c` both on SelB, overlapping on n2; `a`, alone on n1, is rejected. `containsDuplicates` runs over
  the union of all DeviceConfigs (nodeselector.go:60). The algorithm
  paragraph of spec section 4.1 says the same, but its edge-case sentence
  ("a node matched by exactly one instance ... is fine") does not.
- **empty_selector** (`MCEmptySelector.cfg`, violation). Nodes n1 and n2
  carry the device label; n3 has only the label of `SelC`. It checks
  `RejectsOnlyConflicting`. TLC creates `a` on `SelC` (its Module targets
  n3), then `b` with an empty selector (its Module targets the default n1,
  n2). The validator lists every node for `b`, so `a`'s check sees n3 twice
  and rejects `a`. Only a nil selector is defaulted at nodeselector.go:70,
  while spec section 3 says an empty selector stands for the default.
- **bootstrap** (`MCBootstrap.cfg`, pass, every assignment of the four
  environment variables). It checks `StartsOnlyConfigured`: the process
  reaches `mgr.Start` only with all three image variables set, and a failed
  `Load` exits having reported every unset variable, not only the first.

### Why these bounds are enough

- Two DeviceConfigs and overlapping/disjoint selectors cover every branch of
  the validator: no overlap, overlap, and overlap with a deleting DeviceConfig.
- Three user operations allow each of these: create both and edit or delete
  one in the middle of a pass, or create, delete and re-create one name.
  `liveness` spends its three on creations, deletions and relabels.
  `partition` has four operations.
- In `liveness`, the device label of either node may come or go. With `a`
  unset and `b` on `SelA`, that is enough to turn an overlap into disjoint
  targets and back. Relabels of `SelA` or `SelB` add only more ways to do
  the same.
- One event in flight is enough for a pass to start from a stale copy, or for
  a check to miss the latest write. Two (in `partition`) let two creations
  both be pending while passes run.
- One fault is enough to reach every error path. Faults are independent, so
  more of them only repeat paths the model already has. `liveness_faults`
  allows two, so that a retry can itself fail before a later one succeeds.

### Fairness

Every DeviceConfig's controller steps are weakly fair. This is justified
because:

- a failed pass is requeued with backoff;
- every watch event triggers a pass;
- the manager's periodic resync re-runs every object.

Garbage collection and `ResyncAll` are weakly fair too. The informer
re-delivers every cached object on its resync period. The user is never forced
to act. `Converges` relies on the resync for a DeviceConfig that the validator
once rejected: the conflict path returns nil and requests no requeue.
`Quiesces` is checked with `Resync = FALSE`, because a periodic resync keeps
re-queuing forever by design.

Every configuration sets `CHECK_DEADLOCK FALSE`. Once no name is queued and
the user has no operation left, the controller really does idle.

## Not modelled

- The node labeler (`src/internal/node/labeler`). Nothing wires it in: neither
  `main.go` nor the controller constructs it. It also does not compile:
  - labeler.go:143 reads `return nil+`;
  - `nodeLabelerPort` is undefined;
  - `ControllerSettings` has no `NodeLabelerImage`.
- The generated mocks, flag parsing, and the metrics and probe endpoints.
- Lag of the Module, DaemonSet and Node caches: the validator reads node
  labels as they are now.
- An image variable set to the empty string is accepted by `Load`
  (`os.LookupEnv` reports it as found). The model includes this value, but no
  property asks for more than the spec does (presence).
- The Module type: `module.go` builds oot-operator `v1alpha1` Modules,
  `main.go` registers the kubernetes-sigs KMM `v1beta1` type, and the
  controller `Owns()` the rh-ecosystem-edge KMM type. `go.mod` is not in the
  repository, so the model takes them to be one kind.
- Several manager replicas: leader election is off by default (main.go:83).
  Two replicas would each have their own work queue and cache, and could run
  passes of the same name at once. The model has one manager, so it runs at
  most one pass per name. Adding replicas would index every pass, queue and
  cache by replica, which is beyond what TLC checks in the run budget.
- `DeleteNodeMetrics*`: the controller never calls them.
- The package paths of the node-metrics reconciler: the controller imports
  `internal/metrics/node` and `main.go` passes `internal/node/metrics`. Only
  the latter exists, and the model takes the two to be that one package.

## Plan for later sittings

1. Model the lag of the Module cache in `CreateOrPatch` (AlreadyExists and
   NotFound on a stale read).
2. Model two manager replicas for one DeviceConfig (main.go:83).
