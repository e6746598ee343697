# Verification of the AMD GPU operator

TLA+ models of the controllers of the ROCm GPU operator, checked with TLC and,
where it matters most, proved with TLAPS. `PROJECT.json` is the index: which
definition models which lines, what every run checks, what is proved.

## The system

The operator is one process (controller-runtime). **One worker** runs
`Reconcile` passes, one DeviceConfig at a time; upgrade **goroutines** started by
a pass run on while later passes go by; **watch handlers** run besides. KMM, the
kubelet, Argo and the users act on the same API objects. All memory is lost when
the process restarts; only the API objects remain.

| Component | State it keeps | Operations | Interacts through |
|---|---|---|---|
| Reconcile loop (`device_config_reconciler.go`) | `nodeAssignments`, `once`/`initErr` in memory; finalizer, conditions and `status.nodeModuleStatus` in the DeviceConfig | init, validate, apply operands, publish status, finalize | calls every handler below; the status is what a restarted operator starts from |
| Upgrade manager (`upgrademgr.go`) | `nodeStatus`, `nodeUpgradeStartTime`, `nodeBootID`, `currentSpec`, `init` in memory; taint, version label, retry label on nodes; reboot pods | `HandleUpgrade`, `HandleDelete`, goroutines `handleNodeUpgrade`, `handleNodeReboot`, `deleteRebootPod` | version label read by KMM; NodeModulesConfig written by KMM; status published by the reconcile loop |
| KMM module handling (`kmmmodule.go`) | the KMM Module of a DeviceConfig | render and apply it; first version label | KMM |
| Remediation (`remediation_handler.go`) | recovery attempts in memory and in the RemediationWorkflowStatus resource, Argo workflows | start, resume, abort, delete workflows; enforce the recovery policy | node conditions, Argo, taints; reads the upgrade status |
| VFIO workers (`workermgr/`, `watchers/node.go`, `watchers/pod.go`) | ready label and boot id per node, worker pods | load, unload, react to pod and node events | node labels, pods |
| DaemonSet watcher | none | copy counters into the status | DaemonSets |
| Operand rendering (metrics exporter, test runner, config manager, node labeller, device plugin) | none | spec to DaemonSet | reconcile loop |
| Validators, conditions | none | field checks, condition lists | reconcile loop |

What is hard: passes and goroutines interleave on one node's state; a pass uses a
node list it read at its start; goroutines give up or lose their status entry when
the spec changes; restarts fall between any two API calls and the status lags
behind; API calls fail between the steps of an upgrade; timeouts race late
goroutines; several DeviceConfigs share one upgrade manager and contend for
nodes; finalization is repeated until KMM is done. `PROJECT.json` lists these as
hazards at their lines.

What makes the components correct:

* upgrade: never more nodes in an upgrade, or out of service, than the policy
  allows; one goroutine per node; a driver is replaced only on a cordoned node; a
  node is rebooted, if required, before it is complete; a complete node is
  uncordoned; every upgrade ends, and with a working cluster it ends well;
* node ownership: no two DeviceConfigs manage one node; a restart finds what was
  there before; a node comes free when its DeviceConfig is gone; a KMM Module has
  a DeviceConfig that will see to its removal;
* remediation: one workflow per node, attempts counted across restarts and kept
  within the policy; a node is disturbed only while it is tainted; needy nodes are
  tried;
* VFIO: a ready label means the devices are bound since the last boot; finalization
  leaves no binding behind and comes to an end;
* operands: a Ready status for the current generation means that what runs is what
  the spec asks for; a deletion takes down everything, users of the driver first.

## Modules

| Module | Models | Checked by | Proofs |
|---|---|---|---|
| `DriverUpgrade` | upgrade manager, its goroutines, status publication | `MCDriverUpgrade` | `DriverUpgradeProofs`, `DriverUpgradeLimitProofs`, `DriverUpgradeCordonProofs` |
| `NodeAssignment` | ownership of nodes, acceptance, finalization | `MCNodeAssignment` | `NodeAssignmentProofs` |
| `NodeLease` | abstract: exclusive leases of nodes; `NodeAssignment` implements it | `LeaseRefined` in AssignAll | `LeasesImplemented` |
| `Remediation` | `HandleRemediation`, `HandleDelete`, the steps Argo runs | `MCRemediation` | `RemediationProofs` |
| `VFIOWorker` | worker manager, node and pod watcher, their part of finalization | itself | `VFIOWorkerProofs` |
| `Rendering` | pure: validators, kernel mappings, what each operand looks like | through `Operands` | `OperandsProofs`, `OperandsDriverProofs` |
| `Operands` | the calls of a pass of one DeviceConfig, finalization, DaemonSet watcher | `MCOperands` | `OperandsProofs`, `OperandsDriverProofs` |

Modules meet where the code does: `NodeAssignment` sees a DeviceConfig's pass as a
few writes, `Operands` goes through it call by call for one DeviceConfig, and
`DriverUpgrade`, `Remediation` and `VFIOWorker` are the handlers with a life of their
own. What another module does to shared state is an environment action: upgrades
switch `upgrading` in `Remediation`, KMM's Module comes and goes in `VFIOWorker`.

Left for later, in this order: a composition of `DriverUpgrade` and `Remediation`
over the taints of a node, which today meet only through the `upgrading` flag; an
abstract upgrade of one node (drained, relabelled, rebooted, open again) that
`DriverUpgrade` implements, proved from `CordonInv`; the limit on nodes out of
service when uncordoning fails.

## DriverUpgrade

Variables: `dc` (spec version and life cycle of each DeviceConfig), `cr` (its
`status.nodeModuleStatus`), `node` (labels, taint, NodeModulesConfig, boot id,
readiness, reboot pod); the manager's memory `nodeStatus`, `startTime`, `bootID`,
`inited`, `currentSpec`; the locals of the pass in `pass` and of the goroutines in
`go`. History: `orphaned` (a goroutine has lost the status entry that stands for
it: `clearNodeStatus`, a timeout, or the "already rebooted" branch of start-up; or a
deletion has begun while one was at work), `owesReboot`, `late` of a node (a goroutine
of a DeviceConfig in deletion has put a taint or a reboot pod there since the nodes
were last listed), and the budget `used`.

Actions follow the code's atomic steps: everything between two API calls that
others can observe is one step. `BeginPass` reads the DeviceConfig and the node
list; `Init*` are the branches of `initInternalNodeStates`; `Visit*` are steps 1
to 9 of the loop. They are split in two per node because steps 1 to 3 and 4 to 9
read the state afresh and a goroutine may change it in between; `StartNode` is one
iteration of the selection; `HandleKMMVersionLabel` and `PublishStatus` end the
pass. `Hnu*`, `Rb*`, `Dp*` are `handleNodeUpgrade`, `handleNodeReboot`,
`deleteRebootPod`. `KmmSync`, `RebootBegin`, `RebootEnd` are external; KMM reports no
driver on a cordoned node whose status it has dropped, so such a node depends on the
uncordon of step 4.

A deletion pass lists the nodes (`BeginDelete`), then takes them one by one:
`DeleteUncordon` goes by the taint in that list, `DeletePod` by the pod of now. It
forgets all states (`EndDelete`) and finalizes: `FinalizeModule` finds the KMM Module,
`FinalizeDone` finds none, also in a first pass, and `FinalizeAgain` gives up until the
next one. Goroutines go on between any two of these steps, and after them.

Every call of a goroutine may fail on its own: a DeviceConfig that cannot be read is
not valid, and in `RbMark` and `DpWait` it ends the goroutine without a word. A reset
of the version label fails also where the node has no NMC, with no call failing.

Abstracted: images are known by the version they end with, boot ids are numbers,
times are none, fresh or expired (older than two hours). Wait loops end on their
condition or, with `CanGiveUp`, at any time. Reads are taken to be current: the
lag of the informer cache is not modelled. Pods to drain are not modelled, only
whether draining succeeds. The upgrade policy is enabled and does not change, and
drivers are managed through KMM.

### Runs

| Run | Shows |
|---|---|
| UpgradeNoReboot | ParallelLimit, CompleteUncordonedTracked, DriverSwappedCordonedTracked on two nodes with two edits, one failure, one retry and one restart (550 thousand states) |
| UpgradeDelete | TypeOK, OneGoroutinePerNode, DeletedClean and the inductive invariant UpgradeInv: one node with an edit, a failure, a restart, waits that run out, reboots and the deletion of the DeviceConfig (2.1 million states) |
| UpgradeReboots | RebootBeforeComplete and the inductive invariant CordonInv on two nodes, one of them fresh, with an edit; EventuallyUpgraded: all nodes are upgraded in the end |
| UpgradeTimeout | UpgradeEnds: no node stays in progress, even with a KMM that never answers |
| RebootSkipped, LimitExceeded | what the code does against its documentation; see the findings |

The properties that say Tracked hold for an operator that was not restarted and
has not lost a goroutine. They need it: a version edit taken back while a
goroutine cordons leaves a complete node tainted, and after a restart and an edit
an in-progress node that is not cordoned gets another driver.

CompleteUncordonedTracked excludes failing API calls besides. With two of them the
code leaves a complete node cordoned, which docs/drivers/upgrading.md:30 does not
expect: the uncordon of an installed node fails (UncordonFailed), so the node is
selected although it has its driver; the goroutine fails to read the label,
therefore goes on instead of finding the node up to date, and cordons it after the
next pass has listed the nodes; that pass sees the driver loaded, looks for the
taint in its list, finds none and completes the node (upgrademgr.go:877 and 546).
Three edits and one failing call with two DeviceConfigs lead there too. Later passes
take a complete node as done (540), so the taint stays until the next upgrade.

DeletedClean says what a deletion leaves on the nodes: nothing, unless a call failed
or a goroutine acted after the last listing of the nodes. The exception is the code's:
no deletion waits for goroutines or stops them, and one that passes the cordon or
creates its reboot pod then leaves a node cordoned, or rebooting, for which no
DeviceConfig is responsible any more. Everything else that goroutines, restarts and
repeated passes can do is covered, also a taint put before the listing by a goroutine
that is still at work.

UpgradeDelete does not check for deadlock: once the only DeviceConfig is gone
nothing is left to do.

Bounds. Two nodes are enough for a limit of one to be exceeded and for the loop to
see one node while another changes; what concerns one node and its goroutines
(UpgradeDelete) is checked with one, which leaves room for all kinds of events. Two
versions allow an edit and its reversal. One restart separates any state from the
status it leaves; a second one would only repeat start-up from a state that the
first one already reaches. Goroutines are bounded by the number of nodes, so that
a second goroutine on one node has a slot while the other node is idle. Faults,
edits, restarts, retries and reboots are counted in `used` and `boot` and their
bounds are constants. `VersionSymmetry` permutes the versions and is used in
safety runs only.

Fairness. `ManagerFairness`: passes are triggered every 20 seconds, by spec
changes and by the NMC watch, and the work queue serves DeviceConfigs in turn
(strong fairness of BeginPass, because other passes occupy the worker in
between); a pass or goroutine that was started goes on; the clock runs.
`ClusterFairness` adds that KMM loads what the label names, reboot pods run and
nodes come back; UpgradeTimeout does without it.

UpgradeEnds does not hold once an API call may fail: a pass that fails before it
publishes, a timeout that clears the start time and a goroutine that sets the
state afterwards leave a node in progress with no start time anywhere. The run
excludes failures, and the hazard list says so.

## NodeAssignment

Variables: `dc` (life cycle, finalizer, KMM Module, Ready condition, published
nodes, nodes selected now), `assign` (`nodeAssignments`), `init` (`once` and
`initErr`), `pass`, and the history variable `stolen`: a finalization removed the
map entry of a node that belonged to another DeviceConfig.

`Accept` is the pass up to and including `setFinalizer`, `ApplyModule`, `Publish`
and `AssignNodes` are the writes that follow, with anything in between; `PassFails`
is an error of any handler. `FinalizeModule` is a finalization that still finds
the Module (each one releases the nodes again), `FinalizeDone` one that does not.
Errors of a finalization that change nothing are stuttering steps. `Managed` says
which DeviceConfigs have a KMM Module at all. An invalid spec and a node conflict
end a pass in the same way (`Refuse`). Switches, not counters, say what may
happen: the state space is finite without bounds.

| Run | Shows |
|---|---|
| AssignAll | ModuleHasOwner, ReadyDisjoint, ConflictMeansDeletion and the refinement LeaseRefined with all that may happen: deletion, relabelling, failures, restarts (515 thousand states) |
| AssignContend | TypeOK, OneModulePerNode; EventuallyReady: the nodes of deleted DeviceConfigs come free |

`NodeLease` is the promise behind all this: DeviceConfigs hold leases. One takes a
set of nodes in exchange for what it held, at an instant at which no other holds any
of them (`Take`), and gives all back at any time (`GiveBack`). The mapping reads the
leases off the status: `held[d]` is what `d` publishes while it is Ready, so a
restart, which loses the map, changes no lease; `broken` is `stolen`, after which
nothing is promised (`Anything`).

ReadyDisjoint needs its condition `~stolen`: every finalization that still finds
the KMM Module releases all selected nodes, whoever owns them by then. When
another DeviceConfig has claimed one of them in between, its claim is gone and a
third one (or the deleted one, created again) can become Ready for the same node.

Two nodes let DeviceConfigs overlap in part; two DeviceConfigs are enough for one
to be deleted, created again and contend with the other. Nodes are
interchangeable; the symmetry is used in AssignAll. Fairness: the queue serves every
DeviceConfig (strong, as the worker is shared), a pass runs on, KMM unloads.
EventuallyReady assumes no API failure: one failing list call at start-up stays in
`initErr` for ever. It speaks of DeviceConfigs whose rivals are gone, since an
entry of a node that its owner merely stopped selecting stays.

## Remediation

Variables: `node` (conditions, remediation taints, the user's labels, whether the
status shows an upgrade), `wf` (the Argo workflows; the stage is the step of the
default template that comes next), `attempts` (the RemediationWorkflowStatus object),
`objects` (the two templates), `spec` (the taint asked for), `tol` (taints that the
operator, the workflow controller and node feature discovery tolerate), `argoLimit`;
in memory `tracker` (`recoveryTracker`) and `pass`. History: `created` and `lost`
(workflows created, and those never recorded), `blind` (nodes for which a pass went
on while a workflow was there that Argo had not started), `untainted` (a taint could
not be set), `tolErr` (an update of tolerations failed).

A pass prepares (templates, parallelism, tolerations, the map rebuilt from the status
object), visits the nodes of its list, each with all the calls
`handleExistingWorkflowsOnNode` makes, then creates a workflow and records the
attempt in two more steps, with anything in between. `HandleDelete` deletes the
workflows. Argo runs the steps of `getDefaultRemediationWorkflowTemplate`; Argo
itself is external. An abort removes the user's label with a patch whose answer
refreshes the node, so the decision to schedule that follows sees the taints of then,
and not those of the node list.

Abstracted: one template; a custom taint stands for its key, value and effect;
conditions stand for their mappings; a name begins with another one as `SharesPrefix`
says; the 72 hours for which attempts are kept are the difference between `live` and
`stale`. All faults and user actions draw on one budget, `MaxDisturbances`, so that
every mix of two is covered.

Run Remediate: one node, one condition, three workflows, two runs allowed by the
policy, two disturbances of eight kinds (72 thousand states). One node is what the
properties are about; three workflows are one more than the policy allows; two
disturbances give every pair, in any order, at any two places of passes and workflows
(with three the safety properties have 616 thousand states and hold too; the proofs
cover any number). It checks

* RunsWithinPolicy: no more workflows than `maxAllowedRunsPerWindow`, plus those whose
  recording was lost. The code does lose them: a restart between `createWorkflow` and
  the patch is not made good;
* OneWorkflowUnlessConfused, DisruptionTainted: with the two exceptions the code has,
  a workflow Argo has not started and names with a common prefix;
* TaintTolerated: the three workloads tolerate the taint before the workflow sets it;
* EventuallyTried, EventuallyResumed: a needy node gets its workflow, a suspended one
  goes on, unless something the code cannot overcome is in the way (`Needy`,
  `Resumable` name it).

Fairness: `HandleRemediation` asks for the next pass after 20 seconds and a failed
pass is retried, so passes go on (weak fairness of `PassStep`); Argo goes on with
each workflow it can proceed with.

## VFIOWorker

Variables: `node` (driver type and ready label; boot, virtual functions and bindings
of the host), `pod` (worker pods), `module`, `dc`; `nodeq` and `podq`, the watch events
not handled yet, each with what the object was when it was sent; `handler` and
`pass`, the locals of the pod watcher and of the reconciler. History: `slipped`, the
nodes for which a request was lost. The watchers handle an event once and log what
fails, so this does happen, and the properties say what holds otherwise.

`HandlePostProcess` is one event at the node watcher: it starts a worker, or removes
the ready label after a reboot. `HandleWorkerMgrPodEvt` labels the node,
`DeleteWorker` deletes the pod, by name, as a step of its own.
`FinalizeLabels`, `CheckNode`, `RemoveFinalizer` are the end of
`finalizeDeviceConfig`, node by node, with the node list of the pass. A worker that has
ended is gone as soon as it is deleted; the grace period of one that is deleted while
it runs is left out, and its node counts as slipped.

Run VFIO: one node, the three driver types, two reboots, two disturbances of six
kinds (238 thousand states). Nodes do not influence each other here except that the
pass waits for all. Two reboots let the second one fall into the recovery from the
first. ReadyBacked, FinalizedClean, EventuallyBound, EventuallyFinalized. Deadlock is
not checked: with every node bound, or the DeviceConfig gone, nothing is left to do.

Fairness: reconciler and watchers work off their queues (weak). A worker succeeds and
a driver comes up if it is given the chance again and again (strong, because
a reboot interrupts both).

## Rendering and Operands

`Rendering` has the pure part: the four validators against the Secrets, ConfigMaps
and CRD that exist, kernel mappings, Module version and version labels, and per
operand the record of what other parts depend on: where its pods run, what they wait
for, port, scheme, proxy, tolerations. Where the code iterates over a Go map (the
flags of the device plugin) the result is a set of outcomes. A node list is the set of
its nodes, in the order the constant `Listed` gives: what depends on the order (the
first node of a kernel decides the image, the first and the last one the versions)
refers to it. An OS with a Dockerfile has a default driver version, so the failure of
getKM for want of one never comes up: such a node has ended the pass at its build
ConfigMap.

`Operands` turns a pass into the sequence of calls that the code makes (`todo`) and
executes one at a time, on the copy of the DeviceConfig and on the nodes read at its
start; between two calls anything may happen. A call that fails ends the pass and is
tried again (`StepFails`), with what the code does otherwise in actions of their own:
`BuildConfigMapFails` writes some of the ConfigMaps, `VersionLabelFails` leaves the
nodes before the failing one labelled, `UnlabelFails` is only logged, and
`LabellerGetFails` goes on as if nothing had happened (see below). `hist` remembers
what the properties make exceptions for: generations `validated` or `adopted` unseen
with the answer of setFinalizer, operands that somebody deleted and a labeller whose
lookup failed (`lost`, until the next pass gets to them), counters written over
(`stale`), and a finalization that ended before the version labels were removed
(`cut`).

Run Operands: three nodes with three OSs (one without Dockerfile), eight specs
(everything on, with TLS; without TLS on another port; only the labeller off; small; no
driver; invalid; selecting no node; selecting an OS that cannot be built), two kernels,
two disturbances of seven kinds (227 thousand states).
ReadyMatches, DriverFits, ScrapeReaches, ReadyValidated, NothingLeft,
DriverUsersGoneFirst, EventuallyReconciled, CountersFollow. Two disturbances are
enough for an edit in the middle of a pass that then fails, and for a restart in a
finalization.

ReadyMatches and EventuallyReconciled do not hold for a labeller that is switched off.
`handleNodeLabeller` deletes it if the lookup succeeds and takes every error of the
lookup as "not there" (device_config_reconciler.go:1109), unlike the other handlers and
unlike finalization. The edit, a Get that fails and the end of the same pass lead to a
status that is Ready for the new generation while the labeller runs on and no request
is queued. Such a labeller is an exception of both properties, as is an operand that
somebody deleted; with these two they hold whatever else fails.

Deadlock is not checked: a DeviceConfig that is gone needs nothing.

Fairness: the one worker serves the queue, watch events are delivered, KMM unloads a
Module that is being deleted, and the DaemonSet controller brings pods up.

## Findings

Three runs are expected to find a violation; `PROJECT.json` quotes the line each
contradicts.

* RebootSkipped: a restart while the driver loads makes the operator take the node
  as rebooted.
* LimitExceeded: a second DeviceConfig with another version wipes the upgrade
  states.
* PhysicalActionSkipped: a workflow that waits for a physical action is resumed
  without the user when another condition of the node comes first in its list.

Seen while modelling, and visible in the exceptions of the properties:

* a node whose uncordon fails in the middle of a pass is counted neither as failed
  nor as in progress, and another one is selected beyond maxUnavailableNodes
  (upgrademgr.go:548; docs/drivers/upgrading.md:138);
* a restart during a deletion may find two Ready DeviceConfigs for one node, and the
  error is kept for ever (device_config_reconciler.go:1385, 1407); so is a list call
  that fails at start-up (199);
* a pass failing after handleKMMModule leaves a Module on nodes it has not claimed
  (device_config_reconciler.go:337);
* two workflows may work on one node (remediation_handler.go:1240, 1231), against
  docs/autoremediation/auto-remediation.md:53;
* windowSize affects no decision, but one that is not a duration keeps attempts from
  being recorded; a resume label is refused when the policy is violated, though
  docs/autoremediation/auto-remediation.md:340 has workflows wait for just that;
* a notify template without default template makes every later pass of remediation
  fail (remediation_handler.go:591);
* deleting one DeviceConfig deletes all workflows of the namespace
  (remediation_handler.go:257);
* a ready label may stay on an unbound node when the one event was handled badly
  (watchers/node.go:255-258);
* the deletion of a DaemonSet is noticed only if it sets a deletionTimestamp first (in
  the foreground), that of a monitor and changes of Secrets other than those of the
  driver never; a Secret of the exporter is never deleted;
* a labeller that is switched off stays, with the status Ready, if its lookup fails once
  (device_config_reconciler.go:1109);
* a goroutine that cordons a node or creates its reboot pod after the last pass of a
  deletion leaves it so (upgrademgr.go:280, 877, 1183);
* flags of the device plugin are rendered in random order, so its pods may be rolled
  out again for nothing; nodes of two OSs with the same kernel share an image; one
  node with an unsupported OS blocks its DeviceConfig;
* NodesMatchingSelectorNumber is set to the number of available pods.

## Proofs

TLC checks instances; the theorems hold for any DeviceConfigs, nodes, versions,
specs, operands, kernels, conditions, policy and bounds that satisfy the assumption of
the module (`ConstantsAssumption`, `AssignmentAssumption`, `RemediationAssumption`,
`OperandsAssumption`, `VFIOAssumption`): types of the constants, finiteness of the node
set where nodes are counted or listed, `None` and `Absent` different from the values
they stand beside, every node with a place of its own in the list. All safety
properties of the passing runs are proved; every inductive invariant stands at the end
of its module and was checked with TLC before it was proved.

* `DriverUpgradeProofs`: `TypeCorrect`, `DeletionCleansUp`. DeletedClean is about the
  end of a deletion; `CleanInv` follows the pass: what a node has that no late
  goroutine put there is in the list and still to be visited (the taint until the
  uncordon, the pod until its deletion), so nothing is left when the list is done.
* `DriverUpgradeLimitProofs`: `UpgradeInvariant`, `LimitHolds`,
  `GoroutinesApart`. ParallelLimit is not inductive: whether a pass may select a
  node depends on what its counters have seen. `UpgradeInv` adds `LoopInv` (every
  node in an upgrade is still to be visited, counted, or selected in this pass, and
  no candidate is in one), `MarkInv` (the node of a working goroutine is Started or
  RebootInProgress, so the loop neither selects it nor lets it go), `InitInv`
  (during start-up only nodes that the status shows in an upgrade are in one),
  `StartInv` and `PodsInv`. Cardinalities are compared through inclusion in the
  counted sets, with FiniteSetTheorems.
* `DriverUpgradeCordonProofs`: `CordonInvariant`, `DriverSwappedCordoned`,
  `CompleteUncordons`, `RebootComesFirst`. The code cordons,
  uncordons and compares boot ids by a node list that is out of date, so the
  properties depend on what can have changed since. `CordonInv` is UpgradeInv and six
  parts. `SeenInv`: a listed taint or label may be outdated only by what a goroutine
  did. `SwapInv`: a goroutine gets to the label with its node cordoned, and a node in
  progress has the label of the version everybody works for, so relabelling it changes
  nothing. `TaintInv`: an uncordoned node whose label is ahead of KMM has the version
  it runs in the status, so it passes for ready before a goroutine cordons it, never
  after. `RebootInv`: a goroutine that has relabelled its node stays with it until the
  reboot has happened. `FirstInv` and `DeleteInv` are about start-up and about
  DeviceConfigs in deletion. The proof first tabulates what a step of a goroutine
  (`GoRows`) and of the loop (`VisitRows`) does to the node it is about, then proves
  each part from the tables.
  RebootComesFirst is about an operator that is not restarted, lost no goroutine and
  had no call fail, and waits that do not run out; RebootSkipped shows what a restart
  does.
* `NodeAssignmentProofs`: `AssignmentTypeCorrect`, `AssignmentInvariant`, `NodesApart`,
  `ModulesApart`, `ModulesOwned`, `RestartConflict`, `LeasesImplemented`.
  ReadyDisjoint needs `MapInv` (the map has every node some DeviceConfig is Ready for,
  except between publishing and claiming), `PassInv` (no node of the pass under way
  belongs to another) and `LifeInv` (finalizers and life cycle). OneModulePerNode needs
  `ClaimInv` besides (the nodes of an active Module are claimed in the map or by the
  pass under way) and, like the run AssignContend, excludes failures, restarts and
  relabelling (`Undisturbed`): a pass that ends between ApplyModule and AssignNodes
  leaves a Module on nodes it has not claimed, and a relabelled node is selected by a
  Module whose DeviceConfig never claimed it. RestartConflict says that a deletion is
  the only way to the permanent conflict at start-up. LeasesImplemented is the
  refinement: with the invariant at hand, publishing is `Take`, losing the Ready
  condition is `GiveBack`, the release of a foreign node is `Break`, and the rest are
  stuttering steps.
* `RemediationProofs`: `RemediationTypeCorrect`, `RemediationInvariant`, `PolicyKept`,
  `WorkflowsApart`, `DisruptionShielded`, `TaintsTolerated`. RunsWithinPolicy compares
  workflows created with the policy, the code compares its map in memory: `CountInv`
  accounts for every workflow created (recorded, about to be, or lost), `TrackerInv`
  says that the map of a pass that visits nodes has all that is recorded, `BoundInv`
  that there is room for the workflow being created. OneWorkflowUnlessConfused needs
  `FreeInv`: between the look at a node and the creation no workflow appears on it.
  TaintTolerated needs `TolInv`: the default taint is tolerated from the start and by
  every list the handler writes.
* `OperandsProofs`: `OperandsTypeCorrect`, `OperandsInvariant`,
  `ReadyMeansReconciled`, `ReadyMeansValidated`, `MetricsReachable`,
  `FinalizedLeavesNothing`, `DriverReleasedLast`. A pass works on copies that age
  while it runs. `OperandsInv` says what that may do: `Current` (if no request waits,
  the copies are the truth and every operand is as desired or among the calls still to
  come), `PhaseInv`, `CallsFit` and `Removing` (which calls a pass of which kind may
  still have), `Untouched` (no operand before the finalizer, no label before the
  Module), `Unlabelling`, `Vetted`, `Served`. A labeller whose lookup failed and
  operands somebody deleted are exempt from `Current` and `Served` until a pass gets
  to them. An event that ages the copies puts a request into the queue, which is why a
  status written at the end of an outdated pass is never the last word.
* `OperandsDriverProofs`: `DriverFitsNodes`, with `DriverInv` on top: a pass past the
  build ConfigMaps has them, and on a first install every label is a version of the
  one spec. Minimal and maximal listing positions exist because the node set is finite.
* `VFIOWorkerProofs`: `VFIOTypeCorrect`, `VFIOInvariant`, `ReadyIsBacked`,
  `FinalizedIsClean`. `VFIOInv` accounts for news under way: the end of a worker is the
  last event about it (`NewsInv`) and once that was handled the label agrees
  (`HandledInv`); a success that still waits to become a label is backed by the
  devices, or a worker or event that takes the label back follows it (`LoadInv`,
  `ReadyInv`); what finalization has seen of a node stays so while it looks at the
  others (`CheckInv`). Nodes for which a request was lost are exempt.

Only model-checked: all liveness (EventuallyUpgraded, UpgradeEnds, EventuallyReady,
EventuallyTried, EventuallyResumed, EventuallyBound, EventuallyFinalized,
EventuallyReconciled, CountersFollow), which is out of the prover's reach, and the
three properties the findings refute.

## Not modelled

Generated deep copies and mocks (no decisions of their own); flags, leader election
and metrics endpoints of the process; the text of DaemonSets, Dockerfiles, image
names, modprobe arguments, volumes and bind scripts, of which only the effect is
modelled; parsing of the remediation ConfigMap, custom templates and the switch that
turns remediation off while it runs; the mapping of an NMC or a node event to several
DeviceConfigs; reasons, messages and times of conditions; Helm charts, bundles,
end-to-end tests; vendored code. Changes of the upgrade policy during an upgrade and
the lag of the informer cache are not covered.
