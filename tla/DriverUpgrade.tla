--------------------------- MODULE DriverUpgrade ---------------------------
(***************************************************************************)
(* The driver upgrade manager (internal/controllers/upgrademgr.go) inside  *)
(* the DeviceConfig reconcile loop.                                        *)
(*                                                                         *)
(* One reconcile worker runs passes over the nodes of one DeviceConfig at  *)
(* a time: it classifies every node by the upgrade state kept in memory,   *)
(* selects candidates within the upgrade policy, and starts one goroutine  *)
(* per selected node that cordons, drains, relabels and possibly reboots   *)
(* it.  KMM (external) loads the driver version named by the node label    *)
(* and reports it in the NodeModulesConfig, which the end of the pass      *)
(* copies, with the in-memory state, into the DeviceConfig status.         *)
(*                                                                         *)
(* Goroutines run concurrently with later passes; the operator can restart *)
(* at any point and then only has the DeviceConfig status to go by.        *)
(***************************************************************************)
EXTENDS Integers, FiniteSets

CONSTANTS
  DCs,                  \* DeviceConfigs
  Nodes,                \* worker nodes, numbered in the order the API lists them
  dcOf,                 \* the DeviceConfig whose selector matches each node
  Versions,             \* driver versions a user may ask for
  None,                 \* an absent label, image, version or boot id
  MaxParallelUpgrades,  \* spec.driver.upgradePolicy.maxParallelUpgrades, 0 = no limit
  UnavailablePercent,   \* TRUE when maxUnavailableNodes is a percentage
  MaxUnavailableNodes,  \* its value
  RebootRequired,       \* spec.driver.upgradePolicy.rebootRequired
  Deletable,            \* the DeviceConfigs a user may delete
  FreshNodes,           \* nodes that have no driver when the operator first starts
  \* Bounds of the model
  MaxGoroutines,        \* goroutines alive at once
  MaxEdits,             \* edits of spec.driver.version
  MaxRestarts,          \* operator restarts
  MaxFaults,            \* failing API calls
  MaxRetries,           \* upgrade-required labels put by the user
  MaxReboots,           \* reboots of one node
  CanOverrun,           \* whether an upgrade may last more than two hours
  CanGiveUp             \* whether a wait loop of a reboot may run out of time

VARIABLES
  \* --- API server ---
  dc,           \* DeviceConfig: spec.driver.version (spec), life cycle (phase)
  cr,           \* DeviceConfig status: nodeModuleStatus, by node
  node,         \* Node, its NodeModulesConfig and its reboot pod
  \* --- upgrade manager memory, lost on restart ---
  nodeStatus, startTime, bootID, inited, currentSpec,
  \* --- running code ---
  pass,         \* the locals of Reconcile and HandleUpgrade
  go,           \* goroutines
  \* --- history ---
  orphaned,     \* a goroutine has lost the status entry that stands for it, or
                \* the deletion of a DeviceConfig has begun while one was at work
  owesReboot,   \* relabelled with rebootRequired and not rebooted since
  used          \* edits, restarts, faults and retries so far

manager == <<inited, currentSpec>>
memory  == <<nodeStatus, startTime, bootID, manager>>
history == <<orphaned, owesReboot, used>>

vars == <<dc, cr, node, memory, pass, go, history>>

---------------------------------------------------------------------------
\* States and records

Goroutines == 1..MaxGoroutines

UpgradeState == {"Empty", "NotStarted", "Started", "InstallInProgress",
                 "InstallComplete", "InProgress", "Complete", "Failed",
                 "TimedOut", "CordonFailed", "UncordonFailed", "DrainFailed",
                 "RebootInProgress", "RebootFailed"}

\* isNodeInFailedUpgradeStates: RebootFailed is not one of them
FailedStates == {"Failed", "CordonFailed", "UncordonFailed", "DrainFailed",
                 "TimedOut"}

\* the states a pass counts as upgradeInProgress
BusyStates == {"Started", "RebootInProgress", "InProgress"}

DoneStates == {"Complete", "InstallComplete"}

Time    == {"none", "fresh", "expired"}
BootIds == Nat \cup {None}
Labels  == Versions \cup {None}

\* Finalizing: the KMM Module is deleted, the finalizer is still there
DeviceConfig == [spec : Versions,
                 phase : {"present", "deleting", "finalizing", "gone"}]

\* An image is known by the driver version it ends with
ModuleStatus == [has : BOOLEAN, status : UpgradeState, image : Labels,
                 start : Time, boot : BootIds]
NoStatus == [has |-> FALSE, status |-> "Empty", image |-> None,
             start |-> "none", boot |-> None]

\* label: kmm version-module label.  taint: amd-gpu-driver-upgrade.  retry:
\* gpu-driver-upgrade-state=upgrade-required.  nmc: version reported loaded.
\* pod: the reboot pod, pending until it acts.  late (history): a goroutine has
\* put taint or pod since the last deletion pass listed the node.
Node == [label : Labels, taint : BOOLEAN, retry : BOOLEAN, nmc : Labels,
         boot : Nat, ready : BOOLEAN, pod : {"none", "pending", "fired"},
         late : BOOLEAN]

\* What a pass keeps of the node list it reads at its start
Seen == [label : Labels, taint : BOOLEAN, retry : BOOLEAN, boot : Nat,
         ready : BOOLEAN]
SeenOf(n) == [label |-> node[n].label, taint |-> node[n].taint,
              retry |-> node[n].retry, boot |-> node[n].boot,
              ready |-> node[n].ready]

\* todo: nodes still to initialise or to visit.  again: steps 1 to 3, or the
\* uncordoning of HandleDelete, are over for the node being visited.  sync:
\* goroutine slot of a handleNodeReboot that the pass itself runs, or 0.  The last
\* four are the node lists and counters.
Pass == [pc : {"idle", "init", "visit", "select", "label", "publish",
               "delete", "finalize"},
         dc : DCs \cup {None}, spec : Labels, seen : [Nodes -> Seen],
         todo : SUBSET Nodes, again : BOOLEAN, sync : Goroutines \cup {0},
         inprog : SUBSET Nodes, failed : SUBSET Nodes,
         cand : SUBSET Nodes, started : SUBSET Nodes]
NoPass == [pc |-> "idle", dc |-> None, spec |-> None,
           seen |-> [n \in Nodes |-> [label |-> None, taint |-> FALSE,
                                      retry |-> FALSE, boot |-> 0,
                                      ready |-> TRUE]],
           todo |-> {}, again |-> FALSE, sync |-> 0,
           inprog |-> {}, failed |-> {}, cand |-> {}, started |-> {}]

\* A goroutine and the copies it took: DeviceConfig version, taint, boot id
Goroutine == [pc : {"idle", "hnuCheck", "hnuCordon", "hnuDrain", "hnuLabel",
                    "rbBegin", "rbDriver", "rbWait", "rbMark",
                    "dpBegin", "dpBeginForce", "dpWait", "dpForce"},
              node : Nodes \cup {None}, spec : Labels, taint : BOOLEAN,
              boot : BootIds]
NoGoroutine == [pc |-> "idle", node |-> None, spec |-> None, taint |-> FALSE,
                boot |-> None]

Used == [edits : Nat, restarts : Nat, faults : Nat, retries : Nat]

ASSUME ConstantsAssumption ==
  /\ Nodes \subseteq Nat /\ IsFiniteSet(Nodes)
  /\ dcOf \in [Nodes -> DCs]
  /\ None \notin Versions \cup Nat \cup DCs
  /\ {MaxParallelUpgrades, MaxUnavailableNodes, MaxGoroutines, MaxEdits,
      MaxRestarts, MaxFaults, MaxRetries, MaxReboots} \subseteq Nat
  /\ {UnavailablePercent, RebootRequired, CanOverrun, CanGiveUp} \subseteq BOOLEAN
  /\ Deletable \subseteq DCs
  /\ FreshNodes \subseteq Nodes

NodesOf(d) == {n \in Nodes : dcOf[n] = d}

Active(g) == go[g].pc # "idle"

---------------------------------------------------------------------------
\* isUpgradePolicyViolated

\* intstr.GetScaledValueFromIntOrPercent with rounding up
MaxUnavailable(total) ==
  IF UnavailablePercent THEN (MaxUnavailableNodes * total + 99) \div 100
                        ELSE MaxUnavailableNodes

MaxParallelAllowed(total, failed) ==
  LET remaining == MaxUnavailable(total) - failed
  IN  IF MaxParallelUpgrades = 0 \/ remaining < MaxParallelUpgrades
      THEN remaining
      ELSE MaxParallelUpgrades

PolicyViolated(total, inProgress, failed) ==
  LET allowed == MaxParallelAllowed(total, failed)
  IN  allowed = 0 \/ inProgress >= allowed

\* The most nodes of d that may be upgraded at once
UpgradeLimit(d) == MaxParallelAllowed(Cardinality(NodesOf(d)), 0)

---------------------------------------------------------------------------
\* The operator first starts on a cluster where every node but the fresh ones
\* already runs the version the DeviceConfig asks for.

Init ==
  /\ \E v \in Versions :
       /\ dc = [d \in DCs |-> [spec |-> v, phase |-> "present"]]
       /\ node = [n \in Nodes |->
                    LET w == IF n \in FreshNodes THEN None ELSE v
                    IN  [label |-> w, taint |-> FALSE, retry |-> FALSE,
                         nmc |-> w, boot |-> 0, ready |-> TRUE, pod |-> "none",
                         late |-> FALSE]]
       /\ cr = [n \in Nodes |->
                  IF n \in FreshNodes THEN NoStatus
                  ELSE [has |-> TRUE, status |-> "InstallComplete", image |-> v,
                        start |-> "none", boot |-> None]]
  /\ nodeStatus = [n \in Nodes |-> "Empty"]
  /\ startTime  = [n \in Nodes |-> "none"]
  /\ bootID     = [n \in Nodes |-> None]
  /\ inited = FALSE /\ currentSpec = None
  /\ pass = NoPass
  /\ go = [g \in Goroutines |-> NoGoroutine]
  /\ orphaned = FALSE
  /\ owesReboot = [n \in Nodes |-> FALSE]
  /\ used = [edits |-> 0, restarts |-> 0, faults |-> 0, retries |-> 0]

\* A step in which API calls fail, charged to the fault budget
Fault == used.faults < MaxFaults /\ used' = [used EXCEPT !.faults = @ + 1]
NoFault == UNCHANGED used

SetStatus(n, s) == nodeStatus' = [nodeStatus EXCEPT ![n] = s]

---------------------------------------------------------------------------
\* Goroutines

\* Started by the pass in the first free slot
Spawn(g, pc, n, t, b) ==
  /\ ~Active(g)
  /\ \A h \in Goroutines : ~Active(h) => g <= h
  /\ go' = [go EXCEPT ![g] = [pc |-> pc, node |-> n, spec |-> pass.spec,
                              taint |-> t, boot |-> b]]

\* The copy of the taint is read by the cordon and not after it
Goto(g, pc) == go' = [go EXCEPT ![g].pc = pc, ![g].taint = @ /\ pc = "hnuCordon"]
End(g) == go' = [go EXCEPT ![g] = NoGoroutine]

\* setNodeStatus as the last thing a goroutine does
EndWith(g, s) == End(g) /\ SetStatus(go[g].node, s)

\* The DeviceConfig of the goroutine's node; isDeviceConfigValid for the copy
\* of it that the goroutine has
DcOf(g)  == dc[dcOf[go[g].node]]
Valid(g) == DcOf(g).phase # "gone" /\ DcOf(g).spec = go[g].spec

\* Mutant: the test of the DeviceConfig is inverted
EndWithIfInvalid(g, s) ==
  IF Valid(g) THEN End(g) /\ UNCHANGED nodeStatus ELSE EndWith(g, s)

\* The last step: the state is set only if the DeviceConfig is still the same
EndWithIfValid(g, s) ==
  IF Valid(g) THEN EndWith(g, s) ELSE End(g) /\ UNCHANGED nodeStatus

\* A wait loop ends on its condition, or on its last iteration
WaitFor(condition) == condition \/ CanGiveUp

GoFrame == UNCHANGED <<dc, cr, startTime, manager, pass, orphaned>>

\* handleNodeUpgrade -------------------------------------------------------

\* The label already names the version: nothing to cordon, drain or reboot
HnuCheckLabel(g) ==
  /\ go[g].pc = "hnuCheck"
  /\ LET same == node[go[g].node].label = go[g].spec
     IN  \/ same /\ EndWith(g, "InProgress") /\ NoFault
         \/ /\ IF same THEN Fault ELSE NoFault
            /\ Goto(g, "hnuCordon")
            /\ UNCHANGED nodeStatus
  /\ UNCHANGED <<node, bootID, owesReboot>> /\ GoFrame

\* The DeviceConfig is being deleted, or gone
Abandoned(g) == DcOf(g).phase # "present"

\* Mutant: the taint is added only where the node list already had it
CordonedIfTainted(g) == [node EXCEPT ![go[g].node].taint = @ \/ go[g].taint]

\* addOrRemoveTaintToNode(true) looks for the taint in the node list of the
\* pass that selected the node
CordonedBy(g) ==
  LET n == go[g].node
  IN  [node EXCEPT ![n].taint = @ \/ ~go[g].taint,
                   ![n].late = @ \/ (Abandoned(g) /\ ~go[g].taint /\ ~node[n].taint)]

\* Cordon, then isDeviceConfigValid: the outcome of the cordon is looked at
\* only when the DeviceConfig is still the same.  A DeviceConfig that cannot be
\* read is not valid either.
HnuCordon(g) ==
  /\ go[g].pc = "hnuCordon"
  /\ \/ /\ node' = CordonedBy(g) /\ NoFault
        /\ IF Valid(g) THEN Goto(g, "hnuDrain") ELSE End(g)
        /\ UNCHANGED nodeStatus
     \/ /\ Fault /\ node' \in {node, CordonedBy(g)}
        /\ End(g) /\ UNCHANGED nodeStatus
     \/ /\ Fault /\ UNCHANGED node
        /\ EndWithIfValid(g, "CordonFailed")
  /\ UNCHANGED <<bootID, owesReboot>> /\ GoFrame

\* deleteOrDrainPods, then isDeviceConfigValid
HnuDrain(g) ==
  /\ go[g].pc = "hnuDrain"
  /\ \/ /\ (~Valid(g) /\ NoFault) \/ Fault
        /\ End(g) /\ UNCHANGED nodeStatus
     \/ /\ Valid(g)
        /\ Goto(g, IF RebootRequired THEN "rbBegin" ELSE "hnuLabel")
        /\ NoFault /\ UNCHANGED nodeStatus
     \/ Valid(g) /\ Fault /\ EndWith(g, "DrainFailed")
  /\ UNCHANGED <<node, bootID, owesReboot>> /\ GoFrame

\* updateModuleVersionOnNode without a reboot
HnuLabel(g) ==
  /\ go[g].pc = "hnuLabel"
  /\ \/ /\ node' = [node EXCEPT ![go[g].node].label = go[g].spec]
        /\ NoFault /\ EndWith(g, "InProgress")
     \/ /\ Fault /\ UNCHANGED node
        /\ EndWith(g, "Failed")
  /\ UNCHANGED <<bootID, owesReboot>> /\ GoFrame

\* handleNodeReboot --------------------------------------------------------

\* Delete a left-over reboot pod, if it can be read, then
\* updateModuleVersionOnNode
RbBegin(g) ==
  LET n == go[g].node
  IN  /\ go[g].pc = "rbBegin"
      /\ \/ /\ \E p \in {"none", node[n].pod} :
                 /\ IF p = "none" THEN NoFault ELSE Fault
                 /\ node' = [node EXCEPT ![n].pod = p, ![n].label = go[g].spec]
            /\ owesReboot' = [owesReboot EXCEPT
                                ![n] = @ \/ node[n].nmc # go[g].spec]
            /\ Goto(g, "rbDriver") /\ UNCHANGED nodeStatus
         \/ /\ node[n].pod # "none"
            /\ Fault /\ EndWith(g, "RebootFailed")
            /\ UNCHANGED <<node, owesReboot>>
         \/ /\ node' = [node EXCEPT ![n].pod = "none"]
            /\ Fault /\ EndWith(g, "Failed")
            /\ UNCHANGED owesReboot
      /\ UNCHANGED bootID /\ GoFrame

\* waitForDriverUpgrade returns when the NMC shows the version or after an
\* hour; then the boot id is recorded and the reboot pod created
RbDriver(g) ==
  LET n == go[g].node
  IN  /\ go[g].pc = "rbDriver"
      /\ WaitFor(node[n].nmc = go[g].spec)
      /\ bootID' = [bootID EXCEPT ![n] = go[g].boot]
      /\ \/ /\ node[n].pod = "none"
            /\ node' = [node EXCEPT ![n].pod = "pending", ![n].late = @ \/ Abandoned(g)]
            /\ NoFault /\ Goto(g, "rbWait") /\ UNCHANGED nodeStatus
         \/ /\ IF node[n].pod = "none" THEN Fault ELSE NoFault
            /\ EndWith(g, "RebootFailed")
            /\ UNCHANGED node
      /\ UNCHANGED owesReboot /\ GoFrame

\* waitForRebootPod: until the boot id changed, the node is not ready, or ten
\* minutes passed
RbWait(g) ==
  LET n == go[g].node
      rebooted == node[n].pod # "none" /\ node[n].boot # bootID[n]
  IN  /\ go[g].pc = "rbWait"
      /\ WaitFor(rebooted \/ (node[n].pod # "none" /\ ~node[n].ready))
      /\ bootID' = [bootID EXCEPT ![n] = IF rebooted THEN node[n].boot ELSE @]
      /\ Goto(g, "rbMark")
      /\ UNCHANGED <<node, nodeStatus, owesReboot, used>> /\ GoFrame

\* Without the DeviceConfig the goroutine ends and says nothing
RbMark(g) ==
  /\ go[g].pc = "rbMark"
  /\ \/ /\ (DcOf(g).phase = "gone" /\ NoFault) \/ Fault
        /\ End(g) /\ UNCHANGED nodeStatus
     \/ /\ DcOf(g).phase # "gone" /\ NoFault
        /\ Goto(g, "dpBegin")
        /\ IF Valid(g) THEN SetStatus(go[g].node, "RebootInProgress")
                       ELSE UNCHANGED nodeStatus
  /\ UNCHANGED <<node, bootID, owesReboot>> /\ GoFrame

\* deleteRebootPod ---------------------------------------------------------

\* Without a reboot pod, or when it cannot be read, it returns and leaves the
\* node's state as it is
DpBegin(g) ==
  LET none == node[go[g].node].pod = "none"
  IN  /\ go[g].pc \in {"dpBegin", "dpBeginForce"}
      /\ \/ none /\ NoFault /\ End(g)
         \/ ~none /\ Fault /\ End(g)
         \/ /\ ~none /\ NoFault
            /\ Goto(g, IF go[g].pc = "dpBegin" THEN "dpWait" ELSE "dpForce")
      /\ UNCHANGED <<node, nodeStatus, bootID, owesReboot>> /\ GoFrame

\* A pod that cannot be deleted stays, and the goroutine goes on as if it had been
RemovePod(g) ==
  \/ node' = [node EXCEPT ![go[g].node].pod = "none"] /\ NoFault
  \/ UNCHANGED node /\ Fault

\* Wait up to an hour for the node to be ready again
DpWait(g) ==
  /\ go[g].pc = "dpWait"
  /\ \/ /\ (DcOf(g).phase = "gone" /\ NoFault) \/ Fault
        /\ End(g) /\ UNCHANGED <<node, nodeStatus>>
     \/ /\ DcOf(g).phase # "gone" /\ node[go[g].node].ready
        /\ RemovePod(g) /\ EndWithIfValid(g, "InProgress")
     \/ /\ DcOf(g).phase # "gone" /\ ~node[go[g].node].ready /\ CanGiveUp /\ NoFault
        /\ Goto(g, "dpForce") /\ UNCHANGED <<node, nodeStatus>>
  /\ UNCHANGED <<bootID, owesReboot>> /\ GoFrame

\* Forced, or the hour is over; the DeviceConfig may then not be read
DpForce(g) ==
  /\ go[g].pc = "dpForce"
  /\ \/ RemovePod(g) /\ EndWithIfValid(g, "InProgress")
     \/ /\ node' = [node EXCEPT ![go[g].node].pod = "none"] /\ Fault
        /\ End(g) /\ UNCHANGED nodeStatus
  /\ UNCHANGED <<bootID, owesReboot>> /\ GoFrame

GoStep(g) ==
  \/ HnuCheckLabel(g) \/ HnuCordon(g) \/ HnuDrain(g) \/ HnuLabel(g)
  \/ RbBegin(g) \/ RbDriver(g) \/ RbWait(g) \/ RbMark(g)
  \/ DpBegin(g) \/ DpWait(g) \/ DpForce(g)

---------------------------------------------------------------------------
\* The start of a pass: operator start-up, and a changed driver version

LeaveBehind == orphaned' = (orphaned \/ \E g \in Goroutines : Active(g))

\* clearNodeStatus forgets the state of every node, also of the nodes that a
\* goroutine is still working on
ClearNodeStatus ==
  /\ nodeStatus' = [n \in Nodes |-> "Empty"]
  /\ LeaveBehind

\* specChanged and setcurrentSpec.  There is one currentSpec for all
\* DeviceConfigs.
NoteSpec(v) ==
  /\ IF currentSpec \notin {None, v} THEN ClearNodeStatus
                                     ELSE UNCHANGED <<nodeStatus, orphaned>>
  /\ currentSpec' = v

\* Reconcile reads the DeviceConfig and the node list.  isInit is true once.
BeginPass(d) ==
  /\ pass.pc = "idle" /\ dc[d].phase = "present"
  /\ pass' = [NoPass EXCEPT
                !.pc = IF inited THEN "visit" ELSE "init",
                !.dc = d, !.spec = dc[d].spec,
                !.seen = [n \in Nodes |-> SeenOf(n)],
                !.todo = {n \in NodesOf(d) : inited \/ cr[n].has}]
  /\ IF inited THEN NoteSpec(dc[d].spec)
               ELSE UNCHANGED <<nodeStatus, orphaned, currentSpec>>
  /\ inited' = TRUE
  /\ UNCHANGED <<dc, cr, node, startTime, bootID, go, owesReboot, used>>

\* initInternalNodeStates, for one entry of status.nodeModuleStatus.  A
\* handleNodeReboot run by the pass itself (sync) holds up everything else.
InitEntry(n, status) ==
  /\ pass.pc = "init" /\ n \in pass.todo /\ pass.sync = 0
  /\ cr[n].status \in status
  /\ UNCHANGED <<dc, cr, node, startTime, manager, owesReboot>>

Initialised(n) == pass' = [pass EXCEPT !.todo = @ \ {n}]

InitCopy(n) ==
  /\ InitEntry(n, UpgradeState \ {"Started", "RebootInProgress"})
  /\ SetStatus(n, cr[n].status)
  /\ Initialised(n)
  /\ UNCHANGED <<bootID, go, orphaned, used>>

\* Interrupted before the label: start over from Empty
InitStartedNoReboot(n) ==
  /\ InitEntry(n, {"Started"}) /\ ~RebootRequired
  /\ SetStatus(n, "Empty")
  /\ \E g \in Goroutines : Spawn(g, "dpBeginForce", n, FALSE, node[n].boot)
  /\ Initialised(n)
  /\ UNCHANGED <<bootID, orphaned, used>>

\* The recorded boot id is still the node's: reboot it now, synchronously
InitStartedReboot(n) ==
  /\ InitEntry(n, {"Started"}) /\ RebootRequired
  /\ node[n].boot = cr[n].boot
  /\ \E g \in Goroutines :
       /\ Spawn(g, "rbBegin", n, FALSE, node[n].boot)
       /\ pass' = [pass EXCEPT !.todo = @ \ {n}, !.sync = g]
  /\ UNCHANGED <<nodeStatus, bootID, orphaned, used>>

\* The boot id differs: taken as already rebooted.  The node's state stays
\* Empty while a goroutine that may set it runs.
InitStartedRebooted(n) ==
  /\ InitEntry(n, {"Started"}) /\ RebootRequired
  /\ node[n].boot # cr[n].boot
  /\ bootID' = [bootID EXCEPT ![n] = node[n].boot]
  /\ \E g \in Goroutines : Spawn(g, "dpBegin", n, FALSE, node[n].boot)
  /\ orphaned' = TRUE
  /\ Initialised(n)
  /\ UNCHANGED <<nodeStatus, used>>

\* getNode failed: the entry is skipped
InitStartedSkip(n) ==
  /\ InitEntry(n, {"Started"}) /\ RebootRequired
  /\ Fault
  /\ Initialised(n)
  /\ UNCHANGED <<nodeStatus, bootID, go, orphaned>>

\* A reboot pod that cannot be read is taken as gone
InitRebootInProgress(n) ==
  /\ InitEntry(n, {"RebootInProgress"})
  /\ \/ /\ IF node[n].pod = "none" THEN NoFault ELSE Fault
        /\ SetStatus(n, "InProgress") /\ UNCHANGED go
     \/ /\ node[n].pod # "none" /\ NoFault
        /\ SetStatus(n, "RebootInProgress")
        /\ \E g \in Goroutines : Spawn(g, "dpBegin", n, FALSE, node[n].boot)
  /\ Initialised(n)
  /\ UNCHANGED <<bootID, orphaned>>

\* The synchronous handleNodeReboot returned
InitRebootDone ==
  /\ pass.pc = "init" /\ pass.sync # 0
  /\ ~Active(pass.sync)
  /\ pass' = [pass EXCEPT !.sync = 0]
  /\ UNCHANGED <<dc, cr, node, memory, go, history>>

EndInit ==
  /\ pass.pc = "init" /\ pass.todo = {} /\ pass.sync = 0
  /\ NoteSpec(pass.spec)
  /\ pass' = [pass EXCEPT !.pc = "visit", !.todo = NodesOf(pass.dc)]
  /\ UNCHANGED <<dc, cr, node, startTime, bootID, inited, go, owesReboot, used>>

InitStep ==
  \/ \E n \in Nodes : \/ InitCopy(n) \/ InitStartedNoReboot(n)
                      \/ InitStartedReboot(n) \/ InitStartedRebooted(n)
                      \/ InitStartedSkip(n) \/ InitRebootInProgress(n)
  \/ InitRebootDone \/ EndInit

---------------------------------------------------------------------------
\* The loop of HandleUpgrade, for the next node of the node list.
\*
\* Steps 1 to 3 look at the node's state, then steps 4 to 9 look at it again: a
\* goroutine of the node may have changed it in between.

FirstOf(n, S) == n \in S /\ \A m \in S : n <= m

Visiting(n, again) ==
  /\ pass.pc = "visit" /\ FirstOf(n, pass.todo) /\ pass.again = again
  /\ UNCHANGED <<dc, cr, bootID, manager, go, owesReboot>>

\* Mutant: only the start time in memory counts
MemoryTimeExceeded(n) == cr[n].has /\ startTime[n] = "expired"

\* hasUpgradeTimeExceeded: the start time of a restarted operator is the one
\* in the DeviceConfig status
UpgradeTimeExceeded(n) ==
  /\ cr[n].has
  /\ \/ startTime[n] = "expired"
     \/ /\ startTime[n] = "none" /\ cr[n].start = "expired"
        /\ cr[n].status \in BusyStates \cup {"InstallInProgress"}

\* Steps 1 to 3 leave the node for steps 4 to 9
GoOn == pass' = [pass EXCEPT !.again = TRUE] /\ UNCHANGED startTime

\* Step 3 counts a failed node; it is not a candidate
CountFailed(n) ==
  /\ startTime' = [startTime EXCEPT ![n] = "none"]
  /\ pass' = [pass EXCEPT !.failed = @ \cup {n}, !.todo = @ \ {n}]

\* handleInitStatus of a node that is in no failed state
VisitInit(n) ==
  /\ Visiting(n, FALSE)
  /\ nodeStatus[n] \notin FailedStates
  /\ ~(nodeStatus[n] \in BusyStates /\ UpgradeTimeExceeded(n))
  /\ SetStatus(n, IF nodeStatus[n] = "Empty" THEN "NotStarted" ELSE nodeStatus[n])
  /\ GoOn
  /\ UNCHANGED <<node, orphaned, used>>

\* handleUpgradeTimedOut; a goroutine still at work on the node is not stopped
VisitTimedOut(n) ==
  /\ Visiting(n, FALSE)
  /\ nodeStatus[n] \in BusyStates /\ UpgradeTimeExceeded(n)
  /\ SetStatus(n, "TimedOut")
  /\ orphaned' = (orphaned \/ \E g \in Goroutines : go[g].node = n)
  /\ CountFailed(n)
  /\ UNCHANGED <<node, used>>

VisitFailed(n) ==
  /\ Visiting(n, FALSE)
  /\ nodeStatus[n] \in FailedStates /\ ~pass.seen[n].retry
  /\ CountFailed(n)
  /\ UNCHANGED <<node, nodeStatus, orphaned, used>>

\* resetModuleVersionOnNode: the label goes back to the version in the NMC
ResetLabel(n) ==
  IF node[n].label # None /\ node[n].nmc # None THEN node[n].nmc ELSE node[n].label

\* The user asked for a retry: drop the request, reset the label, start over.
\* If dropping or resetting fails the node stays failed; resetting also fails
\* where the node has no NMC.
VisitRetry(n) ==
  /\ Visiting(n, FALSE)
  /\ nodeStatus[n] \in FailedStates /\ pass.seen[n].retry
  /\ \/ /\ node' = [node EXCEPT ![n].retry = FALSE, ![n].label = ResetLabel(n)]
        /\ SetStatus(n, "NotStarted")
        /\ GoOn /\ NoFault
     \/ /\ node' \in {node, [node EXCEPT ![n].retry = FALSE]}
        /\ CountFailed(n) /\ Fault
        /\ UNCHANGED nodeStatus
     \/ /\ node[n].label # None /\ node[n].nmc = None
        /\ node' = [node EXCEPT ![n].retry = FALSE]
        /\ CountFailed(n) /\ NoFault
        /\ UNCHANGED nodeStatus
  /\ UNCHANGED orphaned

\* Steps 4 to 9 and the readiness check ------------------------------------

\* Mutant: the taint is never removed
StillCordoned(n) == node

\* cordonOrUncordonNode(false) with the node of the node list
Uncordoned(n) == [node EXCEPT ![n].taint = @ /\ ~pass.seen[n].taint]

Visited(n) == [pass EXCEPT !.todo = @ \ {n}, !.again = FALSE]

NmcStatusMissing(n) ==
  cr[n].has /\ cr[n].image = None /\ nodeStatus[n] = "InProgress"

\* Mutants: one of the two states is not recognised
StartedButNotRebooting(n) == nodeStatus[n] = "Started"
RebootingButNotStarted(n) == nodeStatus[n] = "RebootInProgress"

UpgradeStarted(n) == nodeStatus[n] \in {"Started", "RebootInProgress"}

DriverInstalled(n) == cr[n].has /\ cr[n].image = pass.spec

\* Step 4: KMM dropped the NMC status after a reboot; uncordon to let it go on
VisitNmcMissing(n) ==
  /\ Visiting(n, TRUE)
  /\ NmcStatusMissing(n)
  /\ node' = Uncordoned(n)
  /\ pass' = [Visited(n) EXCEPT !.inprog = @ \cup {n}]
  /\ UNCHANGED <<nodeStatus, startTime, orphaned, used>>

\* Step 5
VisitStarted(n) ==
  /\ Visiting(n, TRUE)
  /\ UpgradeStarted(n)
  /\ pass' = [Visited(n) EXCEPT !.inprog = @ \cup {n}]
  /\ UNCHANGED <<node, nodeStatus, startTime, orphaned, used>>

\* Step 6: the DeviceConfig status shows the wanted version
VisitReady(n) ==
  /\ Visiting(n, TRUE)
  /\ ~UpgradeStarted(n) /\ DriverInstalled(n)
  /\ startTime' = [startTime EXCEPT ![n] = "none"]
  /\ IF nodeStatus[n] \in DoneStates
     THEN UNCHANGED <<nodeStatus, node>>
     ELSE /\ node' = Uncordoned(n)
          /\ SetStatus(n, IF nodeStatus[n] = "InstallInProgress"
                          THEN "InstallComplete" ELSE "Complete")
  /\ pass' = Visited(n)
  /\ UNCHANGED <<orphaned, used>>

\* The first install of a driver is not subject to the policy
InstallOn(n) ==
  \/ pass.seen[n].label = None
  \/ /\ cr[n].has /\ cr[n].status = "InstallInProgress"
     /\ pass.seen[n].label # pass.spec

\* updateModuleVersionOnNode with the version of the pass, if the call succeeds
Relabel(n, ok) ==
  node' = IF ok THEN [node EXCEPT ![n].label = pass.spec] ELSE node

\* Steps 7 to 9 and isNodeReadyForUpgrade for a node in state s; ok is whether
\* a call to updateModuleVersionOnNode succeeds
Classify(n, s, ok) ==
  \/ /\ InstallOn(n)
     /\ Relabel(n, ok /\ pass.seen[n].label # None)
     /\ SetStatus(n, "InstallInProgress")
     /\ pass' = Visited(n)
  \/ /\ ~InstallOn(n) /\ s = "InstallInProgress"
     /\ pass' = Visited(n)
     /\ UNCHANGED <<node, nodeStatus>>
  \/ /\ ~InstallOn(n) /\ s = "InProgress"
     /\ Relabel(n, ok /\ pass.seen[n].label # pass.spec)
     /\ SetStatus(n, IF ok \/ pass.seen[n].label = pass.spec THEN s ELSE "Failed")
     /\ pass' = [Visited(n) EXCEPT !.inprog = @ \cup {n}]
  \/ /\ ~InstallOn(n) /\ s \notin {"InstallInProgress", "InProgress"}
     /\ SetStatus(n, s)
     /\ pass' = [Visited(n) EXCEPT !.cand = IF pass.seen[n].ready THEN @ \cup {n} ELSE @]
     /\ UNCHANGED node

VisitClassify(n) ==
  /\ Visiting(n, TRUE)
  /\ ~UpgradeStarted(n) /\ ~DriverInstalled(n) /\ ~NmcStatusMissing(n)
  /\ \/ Classify(n, nodeStatus[n], TRUE) /\ NoFault
     \/ /\ pass.seen[n].label \notin {None, pass.spec}
        /\ Classify(n, nodeStatus[n], FALSE) /\ Fault
  /\ UNCHANGED <<startTime, orphaned>>

\* Steps 4 or 6 could not uncordon the node: it is marked failed, and then
\* classified by the remaining steps of the same pass
VisitUncordonFails(n) ==
  /\ Visiting(n, TRUE)
  /\ \/ NmcStatusMissing(n)
     \/ /\ ~UpgradeStarted(n) /\ DriverInstalled(n)
        /\ nodeStatus[n] \notin DoneStates
  /\ \E ok \in BOOLEAN : Classify(n, "UncordonFailed", ok)
  /\ Fault
  /\ UNCHANGED <<startTime, orphaned>>

VisitStep(n) ==
  \/ VisitInit(n) \/ VisitTimedOut(n) \/ VisitFailed(n) \/ VisitRetry(n)
  \/ VisitNmcMissing(n) \/ VisitStarted(n) \/ VisitReady(n)
  \/ VisitClassify(n) \/ VisitUncordonFails(n)

---------------------------------------------------------------------------
\* Selection, and the end of the pass

PassGoesTo(pc) ==
  /\ pass' = [pass EXCEPT !.pc = pc]
  /\ UNCHANGED <<dc, cr, memory, go, history>>

EndVisit ==
  pass.pc = "visit" /\ pass.todo = {} /\ PassGoesTo("select") /\ UNCHANGED node

\* Mutant: nodes in progress are not subtracted from the limit
MaySelectMore ==
  LET total  == Cardinality(NodesOf(pass.dc))
      failed == Cardinality(pass.failed)
  IN  /\ pass.cand # {}
      /\ ~PolicyViolated(total, 0, failed)
      /\ Cardinality(pass.started) < MaxParallelAllowed(total, failed)

\* "Add nodes per policy": candidates in the order of the node list, while
\* the policy has room for them
MaySelect ==
  LET total  == Cardinality(NodesOf(pass.dc))
      inprog == Cardinality(pass.inprog)
      failed == Cardinality(pass.failed)
  IN  /\ pass.cand # {}
      /\ ~PolicyViolated(total, inprog, failed)
      /\ Cardinality(pass.started) < MaxParallelAllowed(total, failed) - inprog

StartNode(n) ==
  /\ pass.pc = "select" /\ MaySelect
  /\ FirstOf(n, pass.cand)
  /\ SetStatus(n, "Started")
  /\ startTime' = [startTime EXCEPT ![n] = "fresh"]
  /\ \E g \in Goroutines :
       Spawn(g, "hnuCheck", n, pass.seen[n].taint, pass.seen[n].boot)
  /\ pass' = [pass EXCEPT !.cand = @ \ {n}, !.started = @ \cup {n}]
  /\ UNCHANGED <<dc, cr, node, bootID, manager, history>>

EndSelect ==
  pass.pc = "select" /\ ~MaySelect /\ PassGoesTo("label") /\ UNCHANGED node

\* handleKMMVersionLabel: the version label of nodes that had none
HandleKMMVersionLabel ==
  /\ pass.pc = "label"
  /\ node' = [n \in Nodes |->
                IF dcOf[n] = pass.dc /\ pass.seen[n].label = None
                THEN [node[n] EXCEPT !.label = pass.spec] ELSE node[n]]
  /\ PassGoesTo("publish")

\* Mutant: the boot id is published as the start time
PublishedStartSlip(n) == IF bootID[n] = None THEN cr[n].boot ELSE bootID[n]

\* An empty start time or boot id does not replace the published one
PublishedStart(n) == IF startTime[n] = "none" THEN cr[n].start ELSE startTime[n]
PublishedBoot(n)  == IF bootID[n] = None THEN cr[n].boot ELSE bootID[n]

\* buildDeviceConfigNodeStatus and updateDeviceConfigStatus
PublishStatus ==
  /\ pass.pc = "publish"
  /\ cr' = [n \in Nodes |->
              IF dcOf[n] # pass.dc THEN cr[n]
              ELSE [has |-> TRUE, status |-> nodeStatus[n],
                    image |-> node[n].nmc, start |-> PublishedStart(n),
                    boot |-> PublishedBoot(n)]]
  /\ pass' = NoPass
  /\ UNCHANGED <<dc, node, memory, go, history>>

\* A later handler of Reconcile returns an error: the pass ends, nothing is
\* published, the request is queued again
ReconcileError ==
  /\ pass.pc \in {"label", "publish"}
  /\ Fault
  /\ pass' = NoPass
  /\ UNCHANGED <<dc, cr, node, memory, go, orphaned, owesReboot>>

PassStep ==
  \/ \E n \in Nodes : VisitStep(n) \/ StartNode(n)
  \/ EndVisit \/ EndSelect \/ HandleKMMVersionLabel \/ PublishStatus
  \/ ReconcileError

---------------------------------------------------------------------------
\* Deletion of a DeviceConfig

UserDelete(d) ==
  /\ d \in Deletable /\ dc[d].phase = "present"
  /\ dc' = [dc EXCEPT ![d].phase = "deleting"]
  /\ UNCHANGED <<cr, node, memory, pass, go, history>>

\* Reconcile of a DeviceConfig that is being deleted lists the nodes, of which only
\* the taints are looked at, and calls HandleDelete, whatever goroutines are at work
BeginDelete(d) ==
  /\ pass.pc = "idle" /\ dc[d].phase \in {"deleting", "finalizing"}
  /\ pass' = [NoPass EXCEPT
                !.pc = "delete", !.dc = d, !.spec = dc[d].spec, !.todo = NodesOf(d),
                !.seen = [n \in Nodes |-> [@[n] EXCEPT !.taint = node[n].taint]]]
  /\ node' = [n \in Nodes |-> IF dcOf[n] = d THEN [node[n] EXCEPT !.late = FALSE]
                                            ELSE node[n]]
  /\ LeaveBehind
  /\ UNCHANGED <<dc, cr, memory, go, owesReboot, used>>

DeleteVisiting(n, again) ==
  /\ pass.pc = "delete" /\ FirstOf(n, pass.todo) /\ pass.again = again
  /\ UNCHANGED <<dc, cr, startTime, bootID, manager, go, owesReboot>>

\* HandleDelete uncordons the next node; a failure is only logged
DeleteUncordon(n) ==
  /\ DeleteVisiting(n, FALSE)
  /\ \/ node' = Uncordoned(n) /\ NoFault
     \/ UNCHANGED node /\ Fault
  /\ pass' = [pass EXCEPT !.again = TRUE]
  /\ UNCHANGED <<nodeStatus, orphaned>>

\* ... and deletes its reboot pod by force (deleteRebootPod), which marks the node
\* as in progress.  Reading the pod, deleting it or reading the DeviceConfig may
\* fail.
DeletePod(n) ==
  /\ DeleteVisiting(n, TRUE)
  /\ \/ /\ node[n].pod = "none" /\ NoFault
        /\ UNCHANGED <<node, nodeStatus, orphaned>>
     \/ /\ node[n].pod # "none"
        /\ \E removed, marked \in BOOLEAN :
             /\ IF removed /\ marked THEN NoFault ELSE Fault
             /\ node' = IF removed THEN [node EXCEPT ![n].pod = "none"] ELSE node
             /\ IF marked /\ dc[pass.dc].spec = pass.spec
                THEN SetStatus(n, "InProgress") /\ orphaned' = TRUE
                ELSE UNCHANGED <<nodeStatus, orphaned>>
  /\ pass' = Visited(n)

\* The end of HandleDelete forgets the state of every node of every DeviceConfig
EndDelete ==
  /\ pass.pc = "delete" /\ pass.todo = {}
  /\ ClearNodeStatus
  /\ pass' = [NoPass EXCEPT !.pc = "finalize", !.dc = pass.dc, !.spec = pass.spec]
  /\ UNCHANGED <<dc, cr, node, startTime, bootID, manager, go, owesReboot, used>>

\* finalizeDeviceConfig finds the KMM Module: it deletes it and the version labels.
\* A node (kept) where that fails keeps its label.
FinalizeModule ==
  /\ pass.pc = "finalize"
  /\ \E kept \in NodesOf(pass.dc) \cup {None} :
       /\ IF kept = None THEN NoFault ELSE Fault
       /\ node' = [n \in Nodes |-> IF dcOf[n] = pass.dc /\ n # kept
                                   THEN [node[n] EXCEPT !.label = None] ELSE node[n]]
  /\ dc' = [dc EXCEPT ![pass.dc].phase = "finalizing"]
  /\ pass' = NoPass
  /\ UNCHANGED <<cr, memory, go, orphaned, owesReboot>>

\* It finds no Module, because KMM is done with it or because there never was one:
\* the finalizer is removed
FinalizeDone ==
  /\ pass.pc = "finalize"
  /\ dc' = [dc EXCEPT ![pass.dc].phase = "gone"]
  /\ cr' = [n \in Nodes |-> IF dcOf[n] = pass.dc THEN NoStatus ELSE cr[n]]
  /\ pass' = NoPass
  /\ UNCHANGED <<node, memory, go, history>>

\* It returns an error, or has to wait for the VFIO workers
FinalizeAgain ==
  /\ pass.pc = "finalize"
  /\ pass' = NoPass
  /\ UNCHANGED <<dc, cr, node, memory, go, history>>

DeleteStep ==
  \/ \E n \in Nodes : DeleteUncordon(n) \/ DeletePod(n)
  \/ EndDelete \/ FinalizeModule \/ FinalizeDone \/ FinalizeAgain

---------------------------------------------------------------------------
\* The environment

\* The user changes spec.driver.version
EditSpec(d, v) ==
  /\ dc[d].phase = "present" /\ v # dc[d].spec
  /\ used.edits < MaxEdits /\ used' = [used EXCEPT !.edits = @ + 1]
  /\ dc' = [dc EXCEPT ![d].spec = v]
  /\ UNCHANGED <<cr, node, memory, pass, go, orphaned, owesReboot>>

\* The operator process dies and comes back: memory, the pass and all
\* goroutines are lost
Restart ==
  /\ used.restarts < MaxRestarts /\ used' = [used EXCEPT !.restarts = @ + 1]
  /\ nodeStatus' = [n \in Nodes |-> "Empty"]
  /\ startTime'  = [n \in Nodes |-> "none"]
  /\ bootID'     = [n \in Nodes |-> None]
  /\ inited' = FALSE /\ currentSpec' = None
  /\ pass' = NoPass
  /\ go' = [g \in Goroutines |-> NoGoroutine]
  /\ UNCHANGED <<dc, cr, node, orphaned, owesReboot>>

\* Two hours after the upgrade of n started
TwoHoursPass(n) ==
  LET Aged(t) == IF t = "fresh" THEN "expired" ELSE t
  IN  /\ CanOverrun
      /\ "fresh" \in {startTime[n], cr[n].start}
      /\ startTime' = [startTime EXCEPT ![n] = Aged(@)]
      /\ cr' = [cr EXCEPT ![n].start = Aged(@)]
      /\ UNCHANGED <<dc, node, nodeStatus, bootID, manager, pass, go, history>>

\* The user asks for a failed node to be upgraded again
UserRetry(n) ==
  /\ cr[n].status \in FailedStates /\ ~node[n].retry
  /\ used.retries < MaxRetries /\ used' = [used EXCEPT !.retries = @ + 1]
  /\ node' = [node EXCEPT ![n].retry = TRUE]
  /\ UNCHANGED <<dc, cr, memory, pass, go, orphaned, owesReboot>>

\* KMM (external): the driver the label names is loaded and reported; where it has
\* dropped its status, only once the node is open to scheduling (step 4)
KmmSync(n) ==
  /\ node[n].ready /\ node[n].nmc # node[n].label
  /\ node[n].nmc # None \/ ~node[n].taint
  /\ node' = [node EXCEPT ![n].nmc = node[n].label]
  /\ UNCHANGED <<dc, cr, memory, pass, go, history>>

\* The reboot pod (external) takes the node down ...
RebootBegin(n) ==
  /\ node[n].pod = "pending" /\ node[n].ready /\ node[n].boot < MaxReboots
  /\ node' = [node EXCEPT ![n].pod = "fired", ![n].ready = FALSE]
  /\ UNCHANGED <<dc, cr, memory, pass, go, history>>

\* ... and it comes back with a new boot id; KMM may drop its NMC status
RebootEnd(n) ==
  /\ ~node[n].ready
  /\ \E m \in {node[n].nmc, None} :
       node' = [node EXCEPT ![n].ready = TRUE, ![n].boot = @ + 1, ![n].nmc = m]
  /\ owesReboot' = [owesReboot EXCEPT ![n] = FALSE]
  /\ UNCHANGED <<dc, cr, memory, pass, go, orphaned, used>>

Environment ==
  \/ \E d \in DCs : UserDelete(d) \/ (\E v \in Versions : EditSpec(d, v))
  \/ Restart
  \/ \E n \in Nodes : \/ TwoHoursPass(n) \/ UserRetry(n) \/ KmmSync(n)
                      \/ RebootBegin(n) \/ RebootEnd(n)

Next ==
  \/ \E g \in Goroutines : GoStep(g)
  \/ \E d \in DCs : BeginPass(d) \/ BeginDelete(d)
  \/ InitStep
  \/ PassStep
  \/ DeleteStep
  \/ Environment

Spec == Init /\ [][Next]_vars

\* Passes are triggered by the 20 second requeue, by spec changes and by the
\* watch on the NMCs, and served in turn; a pass or a goroutine that was started
\* runs on; the clock runs.
ManagerFairness ==
  /\ \A d \in DCs : SF_vars(BeginPass(d))
  /\ WF_vars(InitStep \/ PassStep)
  /\ \A g \in Goroutines : WF_vars(GoStep(g))
  /\ \A n \in Nodes : WF_vars(TwoHoursPass(n))

\* KMM gets to the driver the label names, reboot pods start, nodes come back
ClusterFairness ==
  \A n \in Nodes : WF_vars(KmmSync(n)) /\ WF_vars(RebootBegin(n))
                                      /\ WF_vars(RebootEnd(n))

ManagerFairSpec == Spec /\ ManagerFairness
FairSpec == ManagerFairSpec /\ ClusterFairness

---------------------------------------------------------------------------
\* Properties

\* Every variable keeps its type: the upgrade manager's maps, the locals of a
\* pass (HandleUpgrade) and of the goroutines, and what the API server holds.
\* A pass under way has a DeviceConfig, a goroutine has a node and a version.
TypeOK ==
  /\ dc \in [DCs -> DeviceConfig]
  /\ cr \in [Nodes -> ModuleStatus]
  /\ node \in [Nodes -> Node]
  /\ nodeStatus \in [Nodes -> UpgradeState]
  /\ startTime \in [Nodes -> Time] /\ bootID \in [Nodes -> BootIds]
  /\ inited \in BOOLEAN /\ currentSpec \in Labels
  /\ pass \in Pass
  /\ pass.pc # "idle" => pass.dc \in DCs /\ pass.spec \in Versions
  /\ go \in [Goroutines -> Goroutine]
  /\ \A g \in Goroutines :
       Active(g) => go[g].node \in Nodes /\ go[g].spec \in Versions
  /\ orphaned \in BOOLEAN /\ owesReboot \in [Nodes -> BOOLEAN]
  /\ used \in Used

Busy(d)   == {n \in NodesOf(d) : nodeStatus[n] \in BusyStates}
CrBusy(d) == {n \in NodesOf(d) : cr[n].status \in BusyStates}

\* No goroutine was left behind and the operator was not restarted
Tracked == ~orphaned /\ used.restarts = 0

\* The nodes of a DeviceConfig that are in an upgrade never outnumber the
\* limit of isUpgradePolicyViolated, neither in memory nor in the published
\* status a restarted operator starts from, as long as no goroutine was left
\* behind by clearNodeStatus, by a timeout or by initInternalNodeStates.
ParallelLimit ==
  ~orphaned =>
    \A d \in DCs : /\ Cardinality(Busy(d)) <= UpgradeLimit(d)
                   /\ Cardinality(CrBusy(d)) <= UpgradeLimit(d)

\* The same without the condition: maxParallelUpgrades as the user guide
\* states it.
ParallelLimitAlways == \A d \in DCs : Cardinality(Busy(d)) <= UpgradeLimit(d)

\* A goroutine at work.  A forced deleteRebootPod is started only without
\* rebootRequired, when there is no pod for it to delete.
Works(g) == Active(g) /\ go[g].pc # "dpBeginForce"

\* No two goroutines work on one node: handleNodeUpgrade and the reboot it
\* runs are started again for a node only after the last one has ended.
OneGoroutinePerNode ==
  ~orphaned =>
    \A g, h \in Goroutines :
      Works(g) /\ Works(h) /\ go[g].node = go[h].node => g = h

\* Between passes, a node whose upgrade the manager calls complete is open to
\* scheduling again unless a goroutine is at work on it, for an operator that
\* has kept track of its goroutines and had no API call fail.
CompleteUncordonedTracked ==
  Tracked /\ used.faults = 0 =>
    \A n \in Nodes :
      /\ pass.pc = "idle" /\ dc[dcOf[n]].phase = "present"
      /\ nodeStatus[n] \in DoneStates
      /\ \A g \in Goroutines : go[g].node # n
      => ~node[n].taint

\* Deleting a DeviceConfig undoes its upgrades at whatever point they are, through
\* repeated passes and restarts: unless a call failed, a node of a DeviceConfig that
\* is gone is cordoned, or has a reboot pod, only if a goroutine that the deletion
\* did not stop put it there after HandleDelete had listed the nodes for the last time.
DeletedClean ==
  used.faults = 0 =>
    \A n \in Nodes :
      dc[dcOf[n]].phase = "gone" /\ (node[n].taint \/ node[n].pod # "none") => node[n].late

\* With rebootRequired, a node that got another driver is rebooted before its
\* upgrade counts as complete.
RebootBeforeComplete ==
  \A n \in Nodes : nodeStatus[n] = "Complete" => ~owesReboot[n]

\* A step that makes the version label of a labelled node differ from the
\* loaded version.  First installs are exempt (isNodeNew).
SwapsDriver(n) ==
  /\ node[n].label # None
  /\ node'[n].label \notin {None, node[n].label, node[n].nmc}
  /\ nodeStatus'[n] # "InstallInProgress"

\* A driver in use is replaced only on a cordoned node, by an operator that has
\* kept track of its goroutines.
DriverSwappedCordonedTracked ==
  [][Tracked => \A n \in Nodes : SwapsDriver(n) => node[n].taint]_vars

\* What the user waits for: every node runs the version its DeviceConfig asks
\* for, is reported complete and is open to scheduling.
AllUpgraded ==
  \A n \in Nodes : /\ cr[n].status \in DoneStates
                   /\ node[n].nmc = dc[dcOf[n]].spec
                   /\ ~node[n].taint

\* The cluster gets there and stays there.
EventuallyUpgraded == <>[]AllUpgraded

\* No upgrade lasts forever: a node counted as in progress leaves those states
\* again, by completing, failing, timing out or starting over.
UpgradeEnds ==
  \A n \in Nodes :
    (nodeStatus[n] \in BusyStates) ~> (nodeStatus[n] \notin BusyStates)

---------------------------------------------------------------------------
\* The inductive invariant behind ParallelLimit and OneGoroutinePerNode

\* Without rebootRequired there are no reboot pods, with it none is deleted by
\* force.
PodsInv ==
  IF RebootRequired
  THEN \A g \in Goroutines : go[g].pc # "dpBeginForce"
  ELSE /\ \A n \in Nodes : node[n].pod = "none"
       /\ \A g \in Goroutines :
            go[g].pc \notin {"rbBegin", "rbDriver", "rbWait", "rbMark"}

\* Nothing is known and nothing runs before the first pass; a deletion that comes
\* first may mark nodes, and forgets them again.
StartInv ==
  ~inited => /\ pass.pc \in {"idle", "delete", "finalize"}
             /\ pass.pc # "delete" => \A n \in Nodes : nodeStatus[n] = "Empty"
             /\ \A g \in Goroutines : ~Active(g)

\* While initInternalNodeStates rebuilds the memory from the DeviceConfig
\* status, only nodes that the status shows in an upgrade are in one, and
\* goroutines are at work only on such nodes, once their entry is dealt with.
InitInv ==
  /\ pass.sync # 0 => pass.pc = "init"
  /\ pass.pc = "init" =>
       /\ pass.todo \subseteq NodesOf(pass.dc) /\ pass.cand = {}
       /\ Busy(pass.dc) \subseteq CrBusy(pass.dc)
       /\ \A g \in Goroutines :
            Active(g) => go[g].node \in CrBusy(pass.dc) \ pass.todo

\* A goroutine's node is marked as being upgraded, so that no pass touches it,
\* but for the one reboot that start-up itself waits for.
MarkInv ==
  ~orphaned =>
    \A g \in Goroutines :
      Works(g) => \/ nodeStatus[go[g].node] \in {"Started", "RebootInProgress"}
                  \/ pass.sync = g

\* The loop of HandleUpgrade misses no node that is in an upgrade, and a
\* candidate is in none.
LoopInv ==
  ~orphaned /\ pass.pc \in {"visit", "select"} =>
    /\ pass.todo \subseteq NodesOf(pass.dc) /\ pass.cand \subseteq NodesOf(pass.dc)
    /\ pass.pc = "select" => pass.todo = {}
    /\ Busy(pass.dc) \subseteq pass.todo \cup pass.inprog \cup pass.started
    /\ \A n \in pass.cand : nodeStatus[n] \notin BusyStates

\* What every step of HandleUpgrade and of its goroutines keeps: the limit holds
\* because of how memory, status, pass and goroutines agree.
UpgradeInv ==
  /\ TypeOK /\ PodsInv /\ StartInv /\ InitInv /\ MarkInv /\ LoopInv
  /\ OneGoroutinePerNode /\ ParallelLimit

---------------------------------------------------------------------------
\* The inductive invariant behind DeletedClean

\* What a deletion pass has not come to yet and no goroutine has put there, the
\* pass has listed; what it has come to is clean.
CleanInv ==
  /\ pass.pc \in {"delete", "finalize"} =>
       /\ dc[pass.dc].phase \in {"deleting", "finalizing"}
       /\ pass.pc = "finalize" => pass.todo = {}
       /\ used.faults = 0 =>
            \A n \in NodesOf(pass.dc) : ~node[n].late =>
              /\ node[n].taint => n \in pass.todo /\ pass.seen[n].taint
              /\ node[n].taint /\ pass.again => ~FirstOf(n, pass.todo)
              /\ node[n].pod # "none" => n \in pass.todo
  /\ DeletedClean

---------------------------------------------------------------------------
\* The inductive invariant behind the properties about cordons and reboots

\* A pass under way that is not one of a deletion
InPass == pass.pc \notin {"idle", "delete", "finalize"}

AtWork(n) == \E g \in Goroutines : Active(g) /\ go[g].node = n

\* ... and no API call has failed
Calm == Tracked /\ used.faults = 0

\* While no goroutine was left behind, a DeviceConfig is deleted when nothing else
\* runs, all states are forgotten before it is finalized, and from then on it is
\* nobody's business any more.
DeleteInv ==
  ~orphaned =>
    /\ pass.pc \in {"delete", "finalize"} =>
         /\ pass.todo \subseteq NodesOf(pass.dc) /\ dc[pass.dc].phase # "present"
         /\ \A g \in Goroutines : ~Active(g)
    /\ pass.pc = "finalize" => \A n \in Nodes : nodeStatus[n] = "Empty"
    /\ \A n \in Nodes : dc[dcOf[n]].phase \in {"finalizing", "gone"} =>
         ~AtWork(n) /\ (InPass => pass.dc # dcOf[n])

\* Until the first pass gets to its loop there is no upgrade.
FirstInv ==
  Tracked /\ (~inited \/ pass.pc = "init") =>
    /\ \A n \in Nodes : /\ cr[n].status \notin BusyStates
                        /\ nodeStatus[n] \notin BusyStates
                        /\ ~node[n].taint
    /\ \A g \in Goroutines : ~Active(g)

\* The node as the pass has listed it is out of date only in what a goroutine
\* has done to it since.
SeenInv ==
  Tracked /\ InPass =>
    /\ pass.pc # "init" => pass.spec = currentSpec
    /\ pass.todo \cap pass.cand = {}
    /\ pass.pc \in {"select", "label", "publish"} => pass.todo = {}
    /\ \A n \in pass.cand : pass.seen[n].label # None
    /\ \A n \in NodesOf(pass.dc) :
         /\ pass.pc # "publish" /\ pass.seen[n].label = None => node[n].label = None
         /\ pass.seen[n].label # None => node[n].label # None
         /\ pass.pc = "init" \/ n \in pass.todo \cup pass.cand =>
              (pass.seen[n].taint => node[n].taint)

\* A goroutine gets to the version label of its node with the node cordoned, and
\* the label then names the version that all of the manager works for.
GoSwapInv(g) ==
  LET n == go[g].node
  IN  /\ go[g].spec = currentSpec /\ node[n].label # None
      /\ go[g].pc # "dpBeginForce"
      /\ go[g].pc \in {"hnuCheck", "hnuCordon"} => (go[g].taint => node[n].taint)
      /\ go[g].pc \in {"hnuDrain", "hnuLabel", "rbBegin"} => node[n].taint
      /\ go[g].pc \in {"rbDriver", "rbWait", "rbMark", "dpBegin", "dpWait", "dpForce"} =>
           node[n].label = go[g].spec

SwapInv ==
  Tracked =>
    /\ \A n \in Nodes : nodeStatus[n] = "InProgress" =>
         node[n].label = currentSpec /\ currentSpec # None
    /\ \A g \in Goroutines : Active(g) => GoSwapInv(g)

\* An uncordoned node whose label is ahead of KMM has the version it still runs in
\* the DeviceConfig status: a pass that takes it for ready does so before a
\* goroutine cordons it.
NodeTaintInv(n) ==
  /\ nodeStatus[n] \in DoneStates => ~node[n].taint
  /\ /\ ~node[n].taint /\ node[n].nmc \notin {None, node[n].label}
     /\ \/ pass.pc = "init" \/ ~InPass \/ pass.dc # dcOf[n]
        \/ n \in pass.todo \cup pass.cand
     => cr[n].image = node[n].nmc
  /\ pass.pc = "visit" /\ n \in pass.todo /\ node[n].taint /\ ~pass.seen[n].taint
     => cr[n].image # pass.spec
  /\ pass.pc \in {"visit", "select"} /\ n \in pass.cand => cr[n].image # pass.spec
  /\ ~cr[n].has => cr[n].image = None

GoTaintInv(g) ==
  LET n == go[g].node
  IN  /\ go[g].pc = "hnuCordon" => node[n].label # go[g].spec
      /\ /\ go[g].pc \in {"hnuCheck", "hnuCordon"}
         /\ ~node[n].taint /\ node[n].label # go[g].spec
         => go[g].spec \notin {cr[n].image, node[n].nmc}

TaintInv ==
  Calm =>
    /\ \A n \in Nodes : dc[dcOf[n]].phase = "present" => NodeTaintInv(n)
    /\ \A g \in Goroutines :
         Active(g) /\ dc[dcOf[go[g].node]].phase = "present" => GoTaintInv(g)

\* Where no wait is given up, a goroutine that has relabelled its node stays until
\* the node has rebooted.
NodeRebootInv(n) ==
  /\ ~node[n].ready => node[n].pod = "fired"
  /\ node[n].pod # "none" \/ owesReboot[n] =>
       \E g \in Goroutines :
         /\ go[g].pc \in {"rbDriver", "rbWait", "rbMark", "dpBegin", "dpWait"}
         /\ go[g].node = n
  /\ /\ InPass /\ pass.dc = dcOf[n]
     /\ pass.pc = "init" \/ n \in pass.todo \cup pass.cand
     /\ nodeStatus[n] \notin BusyStates
     => pass.seen[n].boot = node[n].boot

GoRebootInv(g) ==
  LET n == go[g].node
  IN  /\ go[g].pc # "dpForce"
      /\ go[g].pc \in {"hnuCheck", "hnuCordon", "hnuDrain", "hnuLabel", "rbBegin",
                       "rbDriver"} =>
           node[n].pod = "none" /\ node[n].boot = go[g].boot
      /\ go[g].pc = "rbWait" =>
           /\ bootID[n] = go[g].boot /\ node[n].pod # "none"
           /\ owesReboot[n] => node[n].boot = go[g].boot
      /\ go[g].pc \in {"rbMark", "dpBegin", "dpWait"} =>
           (owesReboot[n] => ~node[n].ready)

RebootInv ==
  Calm /\ ~CanGiveUp =>
    /\ \A n \in Nodes : NodeRebootInv(n)
    /\ \A g \in Goroutines : Active(g) => GoRebootInv(g)

CordonInv ==
  UpgradeInv /\ DeleteInv /\ FirstInv /\ SeenInv /\ SwapInv /\ TaintInv /\ RebootInv
====
