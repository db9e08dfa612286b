----------------------- MODULE DeviceConfigController -----------------------
(***************************************************************************)
(* The DeviceConfig reconciliation engine of the habana-ai-operator.      *)
(*                                                                         *)
(* One reconcile pass (controllers/deviceconfig_controller.go, Reconcile)  *)
(* is split at its calls to the cluster API: every call is one step, and   *)
(* passes of different DeviceConfigs interleave with each other, with a    *)
(* user who creates, edits and deletes DeviceConfigs, and with the         *)
(* owner-reference garbage collector.  The framework never runs two passes *)
(* of the same DeviceConfig at once, so each DeviceConfig has one program  *)
(* counter.  Every call may fail with a transient API error (bounded by   *)
(* MaxFaults); a failed pass ends and is retried from scratch.             *)
(*                                                                         *)
(* Every collaborator reads through the manager's client, so Get and List  *)
(* of DeviceConfigs are served by the informer cache.  The cache applies    *)
(* the watch events of the store in the order the writes were made; up to  *)
(* CacheLag of them may be in flight (CacheLag = 0: the cache is the store).*)
(***************************************************************************)
EXTENDS Naturals, FiniteSets, Sequences, SequencesExt

CONSTANTS
    DCs,              \* names of DeviceConfig resources
    Nodes,            \* cluster nodes
    UserSelectors,    \* spec.nodeSelector values a user may write
    NilSelector,      \* spec.nodeSelector left unset (nil map)
    EmptySelector,    \* spec.nodeSelector set to an empty, non-nil map
    DefaultSelector,  \* device-presence selector substituted for an unset one
    SelectedBy,       \* [selector -> SUBSET Nodes]: the nodes its labels match
    NoChild,          \* a child resource that does not exist
    SpecUpdates,      \* whether the user edits the selector of a live DeviceConfig
    Recreate,         \* whether the user re-creates a deleted name
    Resync,           \* whether the manager's periodic resync runs
    Relabel,          \* the selectors whose node labels may change
    CacheLag,         \* bound on watch events not yet applied to the cache
    MaxUserOps,       \* bound on user create/update/delete operations
    MaxFaults         \* bound on transient API errors

Selectors == (UserSelectors \ {NilSelector, EmptySelector}) \cup {DefaultSelector}

ASSUME /\ NilSelector \in UserSelectors
       /\ EmptySelector \notin {NilSelector, DefaultSelector}
       /\ DefaultSelector \notin UserSelectors
       /\ \A s \in Selectors : s \in DOMAIN SelectedBy /\ SelectedBy[s] \subseteq Nodes
       /\ NoChild \notin Selectors
       /\ SpecUpdates \in BOOLEAN /\ Recreate \in BOOLEAN /\ Resync \in BOOLEAN
       /\ Relabel \subseteq Selectors
       /\ CacheLag \in Nat /\ MaxUserOps \in Nat /\ MaxFaults \in Nat

VARIABLES
    dc,       \* the DeviceConfig objects in the cluster store
    module,   \* [DCs -> Selectors \cup {NoChild}]: the KMM Module <name>-module
    nmDS,     \* the node-metrics DaemonSet <name>-node-metrics
    nmSvc,    \* [DCs -> BOOLEAN]: the node-metrics Service
    oldOwner, \* [DCs -> SUBSET Children]: children of d whose controller
              \* reference names an earlier DeviceConfig of the same name
    queued,   \* [DCs -> BOOLEAN]: the name waits in the work queue
    cache,    \* the DeviceConfigs as the informer cache holds them
    events,   \* watch events <<name, object>> not yet applied to the cache
    pass,     \* the reconcile pass of each DeviceConfig and its fetched copy
    gauge,    \* the ReconciliationFailed metric per DeviceConfig
    labels,   \* [Selectors -> SUBSET Nodes]: the nodes each selector matches now
    userOps,  \* user operations so far
    faults    \* transient API errors so far

vars == <<dc, module, nmDS, nmSvc, oldOwner, queued, cache, events, pass, gauge,
          labels, userOps, faults>>

Children == {"Module", "DaemonSet", "Service"}
Phases == {"Absent", "Live", "Deleting", "Gone"}
CondVal == {"Unset", "True", "False"}
PassSteps == {"Idle", "DeleteModule", "RemoveFinalizer", "CheckConflict",
              "AddFinalizer", "ReconcileModule", "ReconcileNodeMetricsDS",
              "ReconcileNodeMetricsSvc", "SetErrored", "SetReady"}
(* uid: the incarnation of the name, new on every creation.              *)
DCRecord == [phase: Phases, sel: UserSelectors, fin: BOOLEAN,
             ready: CondVal, errored: CondVal, uid: 0..MaxUserOps]
(* at: the next call of the pass; sel, fin, uid: the copy fetched by Get; *)
(* stale: the stored object was written by someone else since the Get.    *)
PassRecord == [at: PassSteps, sel: UserSelectors, fin: BOOLEAN, uid: 0..MaxUserOps,
               stale: BOOLEAN]
IdlePass == [at |-> "Idle", sel |-> NilSelector, fin |-> FALSE, uid |-> 0, stale |-> FALSE]

TypeOK ==
    /\ dc \in [DCs -> DCRecord]
    /\ module \in [DCs -> Selectors \cup {NoChild}]
    /\ nmDS \in [DCs -> Selectors \cup {NoChild}]
    /\ nmSvc \in [DCs -> BOOLEAN]
    /\ oldOwner \in [DCs -> SUBSET Children]
    /\ queued \in [DCs -> BOOLEAN]
    /\ cache \in [DCs -> DCRecord]
    /\ events \in Seq(DCs \X DCRecord) /\ Len(events) <= CacheLag
    /\ pass \in [DCs -> PassRecord]
    /\ gauge \in [DCs -> {0, 1}]
    /\ labels \in [Selectors -> SUBSET Nodes]
    /\ userOps \in 0..MaxUserOps
    /\ faults \in 0..MaxFaults

Exists(d) == dc[d].phase \in {"Live", "Deleting"}

Present(d) == {c \in Children : \/ c = "Module" /\ module[d] /= NoChild
                                \/ c = "DaemonSet" /\ nmDS[d] /= NoChild
                                \/ c = "Service" /\ nmSvc[d]}

(* cr.GetNodeSelector(): the explicit selector, or the default one when  *)
(* the selector is empty, nil or not (spec sections 3 and 8).              *)
GetNodeSelector(s) == IF s \in {NilSelector, EmptySelector} THEN DefaultSelector ELSE s

(* The client every collaborator gets from mgr.GetClient(): reads of     *)
(* DeviceConfigs come from the informer cache, writes go to the store.    *)
Read == cache

(* A DeviceConfig as a view of the store holds it.                        *)
InView(v, d) == v[d].phase \in {"Live", "Deleting"}

(* getDeviceConfigSelectedNodes resolves only a nil selector; the label  *)
(* selector of an empty map (labels.Set{}.AsSelector()) matches every node.*)
ListSelector(s) == IF s = NilSelector THEN GetNodeSelector(s) ELSE s
MatchingNodes(s) == IF s = EmptySelector THEN Nodes ELSE labels[s]
SelectedNodes(v, d) == MatchingNodes(ListSelector(v[d].sel))

(* The nodes the KMM Module of d is placed on: those its Selector, set by *)
(* SetDesiredModule to cr.GetNodeSelector(), matches.                     *)
TargetedNodes(v, d) == labels[GetNodeSelector(v[d].sel)]

(* containsDuplicates: walk the names, remembering the visited ones.      *)
RECURSIVE Dup(_, _)
Dup(arr, visited) ==
    IF arr = <<>> THEN FALSE
    ELSE Head(arr) \in visited \/ Dup(Tail(arr), visited \cup {Head(arr)})
ContainsDuplicates(arr) == Dup(arr, {})

(* CheckDeviceConfigForConflictingNodeSelector lists every DeviceConfig   *)
(* in the store (deleting ones included) and concatenates the names of    *)
(* the nodes each one selects.                                            *)
(* Mutant: DeviceConfigs marked for deletion are left out of the list.  *)
SelectedNodeNamesLiveOnly(v) ==
    LET items == SetToSeq({d \in DCs : v[d].phase = "Live"})
    IN  FlattenSeq([i \in 1..Len(items) |-> SetToSeq(SelectedNodes(v, items[i]))])
SelectedNodeNames(v) ==
    LET items == SetToSeq({d \in DCs : InView(v, d)})
    IN  FlattenSeq([i \in 1..Len(items) |-> SetToSeq(SelectedNodes(v, items[i]))])

(* A write guarded by the resourceVersion of the fetched copy succeeds    *)
(* only if the object still exists and nobody else wrote it since.        *)
Writable(d) == Exists(d) /\ ~pass[d].stale

(* A call fails with a transient API error.                               *)
Fault == faults < MaxFaults /\ faults' = faults + 1

(* The work queue: a watch event on the DeviceConfig or on its Module, or *)
(* an error returned by Reconcile, queues the name (again).               *)
Requeue(d, cond) == queued' = [queued EXCEPT ![d] = @ \/ cond]

(* A write to the store that changes d is a watch event.  The informer    *)
(* applies it to the cache and hands d to the work queue, at once when    *)
(* CacheLag = 0, else later in order (Deliver).  A write waits while      *)
(* CacheLag events are in flight.                                         *)
CanWrite == CacheLag = 0 \/ Len(events) < CacheLag
WatchEvent(d) == CacheLag = 0 /\ dc'[d] /= dc[d]
Observe(d) ==
    IF dc'[d] = dc[d] THEN UNCHANGED <<cache, events>>
    ELSE IF CacheLag = 0 THEN cache' = dc' /\ UNCHANGED events
    ELSE events' = Append(events, <<d, dc'[d]>>) /\ UNCHANGED cache

(* The cached copy is older than the stored object: a write to d has not   *)
(* reached the cache yet.                                                  *)
Pending(d) == \E i \in 1..Len(events) : events[i][1] = d

Goto(d, step) == pass' = [pass EXCEPT ![d].at = step]
EndPass(d) == pass' = [pass EXCEPT ![d] = IdlePass]

(* SetControllerReference in the mutate function of CreateOrPatch: an     *)
(* existing controller reference is recognised by group, kind and name    *)
(* only, not by UID, and is replaced by one to the UID of the fetched     *)
(* copy.  The current object adopts a child left by an earlier one of the *)
(* same name; a copy of an earlier incarnation, read from a lagging       *)
(* cache, hands the child back to that earlier UID.                       *)
Adopt(d, c) ==
    oldOwner' = [oldOwner EXCEPT ![d] = IF pass[d].uid = dc[d].uid THEN @ \ {c}
                                                                   ELSE @ \cup {c}]

(* Mutant: the Module takes spec.nodeSelector as is, without defaulting. *)
DesiredModuleUndefaulted(d) == pass[d].sel

(* SetDesiredModule: Spec.Selector = cr.GetNodeSelector() of the fetched *)
(* copy; kernel mappings, containers, volumes and the owner reference are *)
(* the same for every pass and are not modelled.                          *)
DesiredModule(d) == GetNodeSelector(pass[d].sel)

(* SetDesiredNodeMetricsDaemonSet: the pod NodeSelector is the resolved   *)
(* selector of the fetched copy.                                          *)
DesiredNodeMetricsDaemonSet(d) == GetNodeSelector(pass[d].sel)

(* labelsForNodeMetricsDaemonSet: the operator name and the component;    *)
(* the DeviceConfig is not among them.  They label the pod template and   *)
(* form the DaemonSet selector.                                           *)
labelsForNodeMetricsDaemonSet(d) ==
    [name |-> "habana-ai-operator", component |-> "node-metrics"]

(* SetDesiredNodeMetricsService selects pods by those labels: the Service *)
(* of d routes to every node-metrics pod (DaemonSet owner, node) whose    *)
(* labels match.                                                          *)
NodeMetricsEndpoints(d) ==
    {ep \in DCs \X Nodes :
        /\ nmDS[ep[1]] /= NoChild
        /\ ep[2] \in labels[nmDS[ep[1]]]
        /\ labelsForNodeMetricsDaemonSet(ep[1]) = labelsForNodeMetricsDaemonSet(d)}

Init ==
    /\ dc = [d \in DCs |-> [phase |-> "Absent", sel |-> NilSelector,
                            fin |-> FALSE, ready |-> "Unset", errored |-> "Unset",
                            uid |-> 0]]
    /\ module = [d \in DCs |-> NoChild]
    /\ nmDS = [d \in DCs |-> NoChild]
    /\ nmSvc = [d \in DCs |-> FALSE]
    /\ oldOwner = [d \in DCs |-> {}]
    /\ queued = [d \in DCs |-> FALSE]
    /\ cache = dc
    /\ events = <<>>
    /\ pass = [d \in DCs |-> IdlePass]
    /\ gauge = [d \in DCs |-> 0]
    /\ labels = [s \in Selectors |-> SelectedBy[s]]
    /\ userOps = 0
    /\ faults = 0

-----------------------------------------------------------------------------
(* The copy r.Get returns from the cache, about to be used at step at; it *)
(* is stale from the start when a write to d has not reached the cache.   *)
Fetched(d, at) ==
    [at |-> at, sel |-> Read[d].sel, fin |-> Read[d].fin, uid |-> Read[d].uid,
     stale |-> Pending(d)]

(* Mutant: the deletion timestamp is not looked at.                      *)
ReconcileIgnoringDeletion(d) ==
    /\ pass[d].at = "Idle"
    /\ queued[d]
    /\ \/ /\ ~InView(Read, d)
          /\ gauge' = [gauge EXCEPT ![d] = 0]
          /\ UNCHANGED <<pass, faults>>
       \/ /\ InView(Read, d)
          /\ pass' = [pass EXCEPT ![d] = Fetched(d, "CheckConflict")]
          /\ UNCHANGED <<gauge, faults>>
    /\ queued' = [queued EXCEPT ![d] = FALSE]
    /\ UNCHANGED <<dc, module, nmDS, nmSvc, userOps, oldOwner, cache, events>>

(* Mutant: the finalizer is removed without deleteDeviceConfigResources. *)
ReconcileSkippingResourceDeletion(d) ==
    /\ pass[d].at = "Idle"
    /\ queued[d]
    /\ \/ /\ ~InView(Read, d)
          /\ gauge' = [gauge EXCEPT ![d] = 0]
          /\ UNCHANGED <<pass, faults>>
       \/ /\ Read[d].phase = "Deleting"
          /\ gauge' = [gauge EXCEPT ![d] = 0]
          /\ pass' = [pass EXCEPT ![d] = Fetched(d, "RemoveFinalizer")]
          /\ UNCHANGED faults
       \/ /\ Read[d].phase = "Live"
          /\ pass' = [pass EXCEPT ![d] = Fetched(d, "CheckConflict")]
          /\ UNCHANGED <<gauge, faults>>
    /\ queued' = [queued EXCEPT ![d] = FALSE]
    /\ UNCHANGED <<dc, module, nmDS, nmSvc, userOps, oldOwner, cache, events>>

(* Reconcile: Get the DeviceConfig and branch on NotFound and on the      *)
(* deletion timestamp.                                                    *)
Reconcile(d) ==
    /\ pass[d].at = "Idle"
    /\ queued[d]
    /\ \/ /\ ~InView(Read, d)
          /\ gauge' = [gauge EXCEPT ![d] = 0]
          /\ UNCHANGED <<pass, faults>>
       \/ /\ InView(Read, d)
          /\ Fault
          /\ UNCHANGED <<pass, gauge>>
       \/ /\ Read[d].phase = "Deleting"
          /\ gauge' = [gauge EXCEPT ![d] = 0]
          /\ IF Read[d].fin
               THEN pass' = [pass EXCEPT ![d] = Fetched(d, "DeleteModule")]
               ELSE UNCHANGED pass
          /\ UNCHANGED faults
       \/ /\ Read[d].phase = "Live"
          /\ pass' = [pass EXCEPT ![d] = Fetched(d, "CheckConflict")]
          /\ UNCHANGED <<gauge, faults>>
    /\ queued' = [queued EXCEPT ![d] = faults' /= faults]
    /\ UNCHANGED <<dc, module, nmDS, nmSvc, userOps, oldOwner, cache, events>>

(* deleteDeviceConfigResources -> DeleteModule: NotFound counts as done.  *)
DeleteModule(d) ==
    /\ pass[d].at = "DeleteModule"
    /\ \/ /\ module' = [module EXCEPT ![d] = NoChild]
          /\ Goto(d, "RemoveFinalizer")
          /\ UNCHANGED faults
       \/ /\ Fault
          /\ EndPass(d)
          /\ UNCHANGED module
    /\ Requeue(d, module[d] /= NoChild \/ faults' /= faults)
    /\ UNCHANGED <<dc, nmDS, nmSvc, gauge, userOps, oldOwner, cache, events>>

(* RemoveDeletionFinalizer; with no finalizer left the API server         *)
(* completes the deletion of the object.                                  *)
RemoveDeletionFinalizer(d) ==
    /\ pass[d].at = "RemoveFinalizer"
    /\ \/ /\ Writable(d) /\ CanWrite
          /\ dc' = [dc EXCEPT ![d].fin = FALSE, ![d].phase = "Gone"]
          /\ UNCHANGED faults
       \/ /\ ~Writable(d)
          /\ UNCHANGED <<dc, faults>>
       \/ /\ Fault
          /\ UNCHANGED dc
    /\ EndPass(d)
    /\ Observe(d)
    /\ Requeue(d, ~Writable(d) \/ faults' /= faults \/ WatchEvent(d))
    /\ UNCHANGED <<module, nmDS, nmSvc, gauge, userOps, oldOwner>>

(* Mutant: the finalizer step is skipped after a passed check.           *)
CheckConflictSkippingFinalizer(d) ==
    /\ pass[d].at = "CheckConflict"
    /\ ~ContainsDuplicates(SelectedNodeNames(Read))
    /\ Goto(d, "ReconcileModule")
    /\ UNCHANGED <<dc, module, nmDS, nmSvc, gauge, userOps, faults, oldOwner, queued, cache, events>>

(* Mutant: the conflict branch leaves the gauge as it was.               *)
CheckConflictLeavingGauge(d) ==
    LET conflict == ContainsDuplicates(SelectedNodeNames(Read)) IN
    /\ pass[d].at = "CheckConflict"
    /\ \/ /\ Fault
          /\ gauge' = [gauge EXCEPT ![d] = 1]
          /\ EndPass(d)
       \/ /\ conflict
          /\ EndPass(d)
          /\ UNCHANGED <<gauge, faults>>
       \/ /\ ~conflict
          /\ Goto(d, IF pass[d].fin THEN "ReconcileModule" ELSE "AddFinalizer")
          /\ UNCHANGED <<gauge, faults>>
    /\ UNCHANGED <<dc, module, nmDS, nmSvc, userOps, oldOwner, queued, cache, events>>

(* The node-selector check: on conflict a warning event, the gauge set to *)
(* 1 and the pass ends without error and without touching the status.    *)
(* Then AddDeletionFinalizer unless the fetched copy has it.              *)
CheckDeviceConfigForConflictingNodeSelector(d) ==
    LET conflict == ContainsDuplicates(SelectedNodeNames(Read)) IN
    /\ pass[d].at = "CheckConflict"
    /\ \/ /\ Fault
          /\ gauge' = [gauge EXCEPT ![d] = 1]
          /\ EndPass(d)
       \/ /\ conflict
          /\ gauge' = [gauge EXCEPT ![d] = 1]
          /\ EndPass(d)
          /\ UNCHANGED faults
       \/ /\ ~conflict
          /\ Goto(d, IF pass[d].fin THEN "ReconcileModule" ELSE "AddFinalizer")
          /\ UNCHANGED <<gauge, faults>>
    /\ UNCHANGED <<dc, module, nmDS, nmSvc, userOps, oldOwner, queued, cache, events>>

(* AddDeletionFinalizer: an Update of the fetched copy.                   *)
AddDeletionFinalizer(d) ==
    /\ pass[d].at = "AddFinalizer"
    /\ \/ /\ Writable(d) /\ CanWrite
          /\ dc' = [dc EXCEPT ![d].fin = TRUE]
          /\ pass' = [pass EXCEPT ![d].fin = TRUE, ![d].at = "ReconcileModule"]
          /\ UNCHANGED faults
       \/ /\ ~Writable(d)
          /\ EndPass(d)
          /\ UNCHANGED <<dc, faults>>
       \/ /\ Fault
          /\ EndPass(d)
          /\ UNCHANGED dc
    /\ Observe(d)
    /\ Requeue(d, ~Writable(d) \/ faults' /= faults \/ WatchEvent(d))
    /\ UNCHANGED <<module, nmDS, nmSvc, gauge, userOps, oldOwner>>

(* Mutant: the Module is created when absent but never patched.          *)
ReconcileModuleCreateOnly(d) ==
    /\ pass[d].at = "ReconcileModule"
    /\ module' = [module EXCEPT ![d] = IF @ = NoChild THEN DesiredModule(d) ELSE @]
    /\ Adopt(d, "Module")
    /\ Goto(d, "ReconcileNodeMetricsDS")
    /\ Requeue(d, module'[d] /= module[d])
    /\ UNCHANGED <<dc, nmDS, nmSvc, gauge, userOps, faults, cache, events>>

(* ReconcileModule: get-or-new, then CreateOrPatch with SetDesiredModule, *)
(* whose Selector is the fetched copy's GetNodeSelector().  On error the  *)
(* pass goes on to SetConditionsErrored.                                  *)
ReconcileModule(d) ==
    /\ pass[d].at = "ReconcileModule"
    /\ \/ /\ module' = [module EXCEPT ![d] = DesiredModule(d)]
          /\ Adopt(d, "Module")
          /\ Goto(d, "ReconcileNodeMetricsDS")
          /\ UNCHANGED faults
       \/ /\ Fault
          /\ Goto(d, "SetErrored")
          /\ UNCHANGED <<module, oldOwner>>
    /\ Requeue(d, module'[d] /= module[d])
    /\ UNCHANGED <<dc, nmDS, nmSvc, gauge, userOps, cache, events>>

(* ReconcileNodeMetricsDaemonSet: the same create-or-patch pattern, which *)
(* adopts a DaemonSet left by an earlier DeviceConfig of this name.       *)
ReconcileNodeMetricsDaemonSet(d) ==
    /\ pass[d].at = "ReconcileNodeMetricsDS"
    /\ \/ /\ nmDS' = [nmDS EXCEPT ![d] = DesiredNodeMetricsDaemonSet(d)]
          /\ Adopt(d, "DaemonSet")
          /\ Goto(d, "ReconcileNodeMetricsSvc")
          /\ UNCHANGED faults
       \/ /\ Fault
          /\ Goto(d, "SetErrored")
          /\ UNCHANGED <<nmDS, oldOwner>>
    /\ UNCHANGED <<dc, module, nmSvc, gauge, userOps, queued, cache, events>>

(* ReconcileNodeMetricsService; setNodeMetricsConditions is a no-op.      *)
ReconcileNodeMetricsService(d) ==
    /\ pass[d].at = "ReconcileNodeMetricsSvc"
    /\ \/ /\ nmSvc' = [nmSvc EXCEPT ![d] = TRUE]
          /\ Adopt(d, "Service")
          /\ Goto(d, "SetReady")
          /\ UNCHANGED faults
       \/ /\ Fault
          /\ Goto(d, "SetErrored")
          /\ UNCHANGED <<nmSvc, oldOwner>>
    /\ UNCHANGED <<dc, module, nmDS, gauge, userOps, queued, cache, events>>

(* Mutant: the status is written without the resourceVersion check.      *)
StatusUpdateUnguarded(d, ready, errored) ==
    /\ Exists(d) /\ CanWrite
    /\ dc' = [dc EXCEPT ![d].ready = ready, ![d].errored = errored]
    /\ UNCHANGED faults

(* A Status().Update of both conditions, guarded by the resourceVersion.  *)
StatusUpdate(d, ready, errored) ==
    \/ /\ Writable(d) /\ CanWrite
       /\ dc' = [dc EXCEPT ![d].ready = ready, ![d].errored = errored]
       /\ UNCHANGED faults
    \/ /\ ~Writable(d)
       /\ UNCHANGED <<dc, faults>>
    \/ /\ Fault
       /\ UNCHANGED dc

(* SetConditionsErrored (Ready=False, Errored=True), then the gauge is 1. *)
SetConditionsErrored(d) ==
    /\ pass[d].at = "SetErrored"
    /\ StatusUpdate(d, "False", "True")
    /\ gauge' = [gauge EXCEPT ![d] = 1]
    /\ EndPass(d)
    /\ Observe(d)
    /\ Requeue(d, TRUE)
    /\ UNCHANGED <<module, nmDS, nmSvc, userOps, oldOwner>>

(* Mutant: the gauge is not reset to 0 on success.                       *)
SetConditionsReadyKeepingGauge(d) ==
    /\ pass[d].at = "SetReady"
    /\ StatusUpdate(d, "True", "False")
    /\ EndPass(d)
    /\ Observe(d)
    /\ Requeue(d, faults' /= faults \/ ~Writable(d) \/ WatchEvent(d))
    /\ UNCHANGED <<module, nmDS, nmSvc, userOps, oldOwner, gauge>>

(* Mutant: the Ready condition carries a value that differs on every    *)
(* write (a timestamp in its message), so each write is a change.         *)
SetConditionsReadyStamped(d) ==
    /\ pass[d].at = "SetReady"
    /\ gauge' = [gauge EXCEPT ![d] = 0]
    /\ StatusUpdate(d, "True", "False")
    /\ EndPass(d)
    /\ Observe(d)
    /\ Requeue(d, TRUE)
    /\ UNCHANGED <<module, nmDS, nmSvc, userOps, oldOwner>>

(* Success: gauge 0, then SetConditionsReady (Ready=True, Errored=False). *)
SetConditionsReady(d) ==
    /\ pass[d].at = "SetReady"
    /\ gauge' = [gauge EXCEPT ![d] = 0]
    /\ StatusUpdate(d, "True", "False")
    /\ EndPass(d)
    /\ Observe(d)
    /\ Requeue(d, faults' /= faults \/ ~Writable(d) \/ WatchEvent(d))
    /\ UNCHANGED <<module, nmDS, nmSvc, userOps, oldOwner>>

-----------------------------------------------------------------------------
(* The environment: a user and the owner-reference garbage collector.     *)
(* A write by the user makes a pass in flight hold a stale copy.          *)
UserOp == userOps < MaxUserOps /\ CanWrite /\ userOps' = userOps + 1

MarkStale(d) ==
    pass' = IF pass[d].at = "Idle" THEN pass ELSE [pass EXCEPT ![d].stale = TRUE]

(* A re-created name gets a new UID: children left by the old object     *)
(* still carry the old controller reference.                              *)
CreateDeviceConfig(d) ==
    /\ \/ dc[d].phase = "Absent"
       \/ Recreate /\ dc[d].phase = "Gone"
    /\ UserOp
    /\ \E s \in UserSelectors :
          dc' = [dc EXCEPT ![d] = [phase |-> "Live", sel |-> s, fin |-> FALSE,
                                   ready |-> "Unset", errored |-> "Unset",
                                   uid |-> dc[d].uid + 1]]
    /\ oldOwner' = [oldOwner EXCEPT ![d] = Present(d)]
    /\ Observe(d)
    /\ Requeue(d, WatchEvent(d))
    /\ UNCHANGED <<module, nmDS, nmSvc, pass, gauge, faults>>

(* The API server accepts spec edits until the object is gone.           *)
UpdateNodeSelector(d) ==
    /\ SpecUpdates
    /\ Exists(d)
    /\ UserOp
    /\ \E s \in UserSelectors \ {dc[d].sel} : dc' = [dc EXCEPT ![d].sel = s]
    /\ MarkStale(d)
    /\ Observe(d)
    /\ Requeue(d, WatchEvent(d))
    /\ UNCHANGED <<module, nmDS, nmSvc, gauge, faults, oldOwner>>

(* Deletion sets the deletion timestamp; without finalizers the object    *)
(* goes at once.                                                          *)
DeleteDeviceConfig(d) ==
    /\ dc[d].phase = "Live"
    /\ UserOp
    /\ dc' = [dc EXCEPT ![d].phase = IF dc[d].fin THEN "Deleting" ELSE "Gone"]
    /\ MarkStale(d)
    /\ Observe(d)
    /\ Requeue(d, WatchEvent(d))
    /\ UNCHANGED <<module, nmDS, nmSvc, gauge, faults, oldOwner>>

(* Children carry a controller reference to the UID of their DeviceConfig *)
(* and are collected once no object with that UID exists.                *)
Collectable(d) == IF Exists(d) THEN oldOwner[d] ELSE Present(d)

GarbageCollect(d) ==
    /\ Collectable(d) /= {}
    /\ module' = IF "Module" \in Collectable(d)
                  THEN [module EXCEPT ![d] = NoChild] ELSE module
    /\ nmDS' = IF "DaemonSet" \in Collectable(d)
                THEN [nmDS EXCEPT ![d] = NoChild] ELSE nmDS
    /\ nmSvc' = IF "Service" \in Collectable(d)
                 THEN [nmSvc EXCEPT ![d] = FALSE] ELSE nmSvc
    /\ oldOwner' = [oldOwner EXCEPT ![d] = {}]
    /\ Requeue(d, "Module" \in Collectable(d))
    /\ UNCHANGED <<dc, cache, events, pass, gauge, labels, userOps, faults>>

(* A node gains or loses a label that one selector matches (kubectl      *)
(* label node).  The controller watches no Nodes: nothing is queued.     *)
LabelNode ==
    /\ userOps < MaxUserOps /\ userOps' = userOps + 1
    /\ \E s \in Relabel, n \in Nodes :
          labels' = [labels EXCEPT ![s] = IF n \in @ THEN @ \ {n} ELSE @ \cup {n}]
    /\ UNCHANGED <<dc, module, nmDS, nmSvc, oldOwner, queued, cache, events, pass,
                   gauge, faults>>

(* The informer applies the oldest watch event to the cache and hands the *)
(* name to the work queue (For(&DeviceConfig{}) with no predicate).       *)
Deliver ==
    /\ events /= <<>>
    /\ cache' = [cache EXCEPT ![Head(events)[1]] = Head(events)[2]]
    /\ queued' = [queued EXCEPT ![Head(events)[1]] = TRUE]
    /\ events' = Tail(events)
    /\ UNCHANGED <<dc, module, nmDS, nmSvc, oldOwner, pass, gauge, labels, userOps, faults>>

(* The informer's periodic resync delivers every cached DeviceConfig to   *)
(* the work queue again.                                                  *)
ResyncAll ==
    /\ Resync
    /\ \E d \in DCs : InView(cache, d) /\ ~queued[d]
    /\ queued' = [d \in DCs |-> queued[d] \/ InView(cache, d)]
    /\ UNCHANGED <<dc, module, nmDS, nmSvc, oldOwner, cache, events, pass, gauge,
                   labels, userOps, faults>>

Controller(d) ==
    /\ \/ Reconcile(d)
       \/ DeleteModule(d)
       \/ RemoveDeletionFinalizer(d)
       \/ CheckDeviceConfigForConflictingNodeSelector(d)
       \/ AddDeletionFinalizer(d)
       \/ ReconcileModule(d)
       \/ ReconcileNodeMetricsDaemonSet(d)
       \/ ReconcileNodeMetricsService(d)
       \/ SetConditionsErrored(d)
       \/ SetConditionsReady(d)
    /\ UNCHANGED labels

User(d) ==
    /\ \/ CreateDeviceConfig(d)
       \/ UpdateNodeSelector(d)
       \/ DeleteDeviceConfig(d)
    /\ UNCHANGED labels

Next == \/ \E d \in DCs : Controller(d) \/ User(d) \/ GarbageCollect(d)
        \/ Deliver \/ ResyncAll \/ LabelNode

(* A worker takes every queued name and finishes every pass, the garbage *)
(* collector keeps working and the resync period does elapse; the user is *)
(* never forced to act.                                                   *)
Fairness == /\ \A d \in DCs : WF_vars(Controller(d))
            /\ WF_vars(\E d \in DCs : GarbageCollect(d))
            /\ WF_vars(Deliver)
            /\ WF_vars(ResyncAll)

Spec == Init /\ [][Next]_vars /\ Fairness

-----------------------------------------------------------------------------
(* Properties.                                                            *)

(* The children of d realise the current spec of d.                       *)
Realised(d) ==
    /\ module[d] = GetNodeSelector(dc[d].sel)
    /\ nmDS[d] = GetNodeSelector(dc[d].sel)
    /\ nmSvc[d]
    /\ oldOwner[d] = {}

(* Another DeviceConfig in the store targets a node d targets.            *)
SharesNode(d) ==
    \E e \in DCs \ {d} : Exists(e) /\ TargetedNodes(dc, d) \cap TargetedNodes(dc, e) /= {}

(* Two DeviceConfigs in the store select a common node.                   *)
Overlap == \E d \in DCs : Exists(d) /\ SharesNode(d)

(* Spec section 4.1: a node matched by exactly one DeviceConfig is fine,  *)
(* only multiplicity per node is disallowed, and an empty selector means  *)
(* the default one.  So the check of Reconcile rejects a DeviceConfig     *)
(* only when, in the list it read, the nodes its Module targets meet      *)
(* those another DeviceConfig's Module targets.                           *)
RejectsOnlyConflicting ==
    [][\A d \in DCs :
         (pass[d].at = "CheckConflict" /\ pass'[d].at = "Idle" /\ faults' = faults)
            => \E e \in DCs \ {d} :
                  /\ InView(Read, e)
                  /\ TargetedNodes(Read, d) \cap TargetedNodes(Read, e) /= {}]_vars

(* Node targeting is partitioned: no node is selected by the KMM Modules  *)
(* of two DeviceConfigs (the conflict check in Reconcile is what keeps    *)
(* two driver installations off one node).                                *)
NodesPartitioned ==
    \A d1, d2 \in DCs :
        (d1 /= d2 /\ module[d1] /= NoChild /\ module[d2] /= NoChild)
            => labels[module[d1]] \cap labels[module[d2]] = {}

(* A Module exists only while its DeviceConfig exists and carries the     *)
(* deletion finalizer: Reconcile adds the finalizer before ReconcileModule *)
(* and deletes the Module before RemoveDeletionFinalizer.                 *)
ChildrenRequireFinalizer ==
    \A d \in DCs : module[d] /= NoChild => Exists(d) /\ dc[d].fin

(* Spec section 3/8: every child (Module, node-metrics DaemonSet and      *)
(* Service) is deleted before the finalizer is removed.                   *)
AllChildrenRequireFinalizer ==
    \A d \in DCs :
        (module[d] /= NoChild \/ nmDS[d] /= NoChild \/ nmSvc[d])
            => Exists(d) /\ dc[d].fin

(* Spec section 3: a DeviceConfig owns its children exclusively, and the  *)
(* comment on labelsForNodeMetricsDaemonSet says its labels select the    *)
(* resources of the given DeviceConfig: the node-metrics Service of d     *)
(* routes only to pods of d's own DaemonSet.                              *)
MetricsServiceOwnPods ==
    \A d \in DCs : nmSvc[d] => \A ep \in NodeMetricsEndpoints(d) : ep[1] = d

(* Whenever a pass turns Ready to True, the children already realise the  *)
(* spec the DeviceConfig has at that moment: an edit made during the pass *)
(* makes the resourceVersion-guarded status update fail.                  *)
ReadyOnlyForCurrentSpec ==
    [][\A d \in DCs : (dc[d].ready /= "True" /\ dc'[d].ready = "True")
                         => Realised(d)']_vars

(* The health a user reads is true whenever nothing is left to do for d: *)
(* a live DeviceConfig that shows Ready with the ReconciliationFailed     *)
(* gauge at 0, with no pass running, no name in the queue and no watch    *)
(* event on its way, has children that realise its current spec under    *)
(* its own UID.  A conflict leaves Ready as it was on purpose (spec 4.3)  *)
(* and raises the gauge instead.  A spec edit, a failed call, a stale     *)
(* status write or a re-creation must each leave d queued, flagged or not *)
(* Ready.                                                                 *)
SettledReadyIsRealised ==
    \A d \in DCs :
        (/\ dc[d].phase = "Live" /\ dc[d].ready = "True" /\ gauge[d] = 0
         /\ pass[d].at = "Idle" /\ ~queued[d] /\ ~Pending(d))
            => Realised(d)

(* Once the user stops, every deletion completes: no DeviceConfig stays  *)
(* stuck behind its finalizer and none that is gone leaves children.      *)
Teardown ==
    <>[](\A d \in DCs :
            /\ dc[d].phase /= "Deleting"
            /\ ~Exists(d) => (module[d] = NoChild /\ nmDS[d] = NoChild /\ ~nmSvc[d]))

(* Once the user stops, every live DeviceConfig without a conflict ends   *)
(* Ready with its children matching its spec and the failure gauge at 0.  *)
Converges ==
    <>[](\A d \in DCs :
            (dc[d].phase = "Live" /\ ~Overlap)
                => Realised(d) /\ dc[d].ready = "True" /\ gauge[d] = 0)

(* A conflict shows only in the ReconciliationFailed gauge: the check    *)
(* sets it to 1 and returns nil, with no condition and no requeue.  Once  *)
(* the user stops, every live DeviceConfig sharing a node with another    *)
(* reports the failure, also when a node relabel made the overlap: the    *)
(* controller watches no Nodes, so only a later pass can see it.          *)
ConflictReported ==
    <>[](\A d \in DCs : (dc[d].phase = "Live" /\ SharesNode(d)) => gauge[d] = 1)

(* Without the periodic resync the controller comes to rest once the user *)
(* stops: its own Module and status writes trigger watch events, but the  *)
(* pass they start writes nothing new (CreateOrPatch and a Status().Update *)
(* of unchanged conditions leave the objects as they are).                *)
Quiesces ==
    <>[](\A d \in DCs : ~queued[d] /\ pass[d].at = "Idle")

(* Spec section 7: a transient API error is never swallowed; a pass that  *)
(* ends on one returns it, so the work queue retries the name.            *)
TransientErrorsRequeued ==
    [][\A d \in DCs :
         (faults' /= faults /\ pass[d].at /= "Idle" /\ pass'[d].at = "Idle")
            => queued'[d]]_vars

-----------------------------------------------------------------------------
(* Refinement: the two conditions read as one status, the finalizer as   *)
(* the deletion guard; the pass, the node-metrics children, the gauge and *)
(* the bounds are hidden.                                                 *)
ConditionStatus(d) ==
    CASE dc[d].ready = "True"    -> "Ready"
      [] dc[d].errored = "True"  -> "Errored"
      [] OTHER                   -> "Unset"

Lifecycle == INSTANCE DeviceConfigLifecycle WITH
    dc <- [d \in DCs |-> [phase |-> dc[d].phase, sel |-> dc[d].sel,
                          guarded |-> dc[d].fin, status |-> ConditionStatus(d)]],
    module <- module

(* Every step of the engine, the user and the garbage collector is a step *)
(* of the lifecycle or leaves it unchanged: finalizer before the Module,  *)
(* Module gone before the finalizer, Ready only for the current selector. *)
ImplementsLifecycle == Lifecycle!Spec

=============================================================================
