----------------------------- MODULE Remediation -----------------------------
(***************************************************************************)
(* Automatic remediation of unhealthy nodes                                *)
(* (internal/controllers/remediation_handler.go).                          *)
(*                                                                         *)
(* Every pass of Reconcile ends in HandleRemediation.  It looks at each    *)
(* node of the DeviceConfig with a condition that the ConfigMap maps to a  *)
(* workflow template, deletes, aborts or resumes the Argo workflows it     *)
(* finds for the node, and creates a new one when the node has no          *)
(* remediation taint, no driver upgrade under way and attempts left.  The  *)
(* attempts are recorded in the RemediationWorkflowStatus object, from     *)
(* which every pass rebuilds the map it decides by.                        *)
(*                                                                         *)
(* Argo runs the steps of the template beside the passes.  Users label     *)
(* nodes and remove taints, conditions come and go, API calls fail and the *)
(* operator restarts between any two of the steps below.                   *)
(***************************************************************************)
EXTENDS Integers, FiniteSets

CONSTANTS
  Nodes,
  Conditions,           \* node conditions the ConfigMap has a mapping for
  Position,             \* their places in the list of conditions of a node
  None,                 \* no node, no condition
  Physical,             \* mappings with physicalActionNeeded
  SkipReboot,           \* mappings with skipRebootStep
  BadWindow,            \* mappings whose windowSize is not a duration
  MaxRuns,              \* maxAllowedRunsPerWindow
  AutoStart,            \* values autoStartWorkflow takes
  MaxParallelWorkflows, \* 0: no limit
  SharesPrefix,         \* <<n, m>>: the name of m begins with the name of n and "-"
  TaintKeys,            \* taints the spec may ask for
  DefaultTaint,         \* amd-gpu-unhealthy, when it asks for none
  Workloads,            \* workflow controller, operator, node feature discovery
  \* What may happen in the model, and its bounds
  Disturbances,         \* kinds of disturbances, of those in AllDisturbances
  MaxDisturbances,      \* ... in all
  MaxWorkflows          \* workflows created

VARIABLES
  node,      \* API server: the nodes, and the upgrade state the status shows
  wf,        \* API server: Argo workflows, numbered in the order of creation
  made,      \* workflows created so far
  attempts,  \* API server: the RemediationWorkflowStatus object
  objects,   \* API server: the two workflow templates
  spec,      \* API server: the taint the DeviceConfig asks for
  tol,       \* API server: the taints each of the workloads tolerates
  argoLimit, \* API server: namespaceParallelism of Argo
  tracker,   \* recoveryTracker, lost on restart
  pass,      \* the locals of HandleRemediation, lost on restart
  hist,      \* history: what the properties refer to
  used       \* disturbances so far

vars == <<node, wf, made, attempts, objects, spec, tol, argoLimit, tracker, pass,
          hist, used>>

AllDisturbances == {"fault", "restart", "delete", "flap", "label", "edit", "time", "upgrade"}

ASSUME RemediationAssumption ==
  /\ None \notin Nodes \cup Conditions
  /\ Position \in [Conditions -> Nat]
  /\ MaxRuns \in Nat \ {0} /\ MaxParallelWorkflows \in Nat /\ MaxWorkflows \in Nat
  /\ MaxDisturbances \in Nat /\ Disturbances \subseteq AllDisturbances
  /\ Physical \cup SkipReboot \cup BadWindow \subseteq Conditions
  /\ DefaultTaint \in TaintKeys /\ SharesPrefix \subseteq Nodes \X Nodes
  /\ AutoStart \subseteq BOOLEAN

\* bad: mapped conditions that are True.  abort, resume: the labels of the user.
Node == [bad : SUBSET Conditions, taints : SUBSET TaintKeys, abort : BOOLEAN,
         resume : BOOLEAN, upgrading : BOOLEAN]

\* The stage is the step of the default template that comes next; a workflow
\* that Argo has not picked up yet is "new", its phase is empty or Pending
Stages == {"absent", "new", "autostart", "taint", "drain", "suspend", "reboot",
           "test", "wait", "untaint", "Succeeded", "Failed"}
Workflow == [node : Nodes \cup {None}, cond : Conditions \cup {None},
             taint : TaintKeys, stage : Stages]
NoWorkflow == [node |-> None, cond |-> None, taint |-> DefaultTaint, stage |-> "absent"]
Ids == 1 .. MaxWorkflows

\* snap: the node list the pass read at its start.  taint: as in the spec then.
Pass == [pc : {"idle", "prepare", "nodes", "create", "register"},
         snap : [Nodes -> Node], taint : TaintKeys, todo : SUBSET Nodes,
         node : Nodes \cup {None}, cond : Conditions \cup {None}]
Healthy == [bad |-> {}, taints |-> {}, abort |-> FALSE, resume |-> FALSE,
            upgrading |-> FALSE]
NoPass == [pc |-> "idle", snap |-> [n \in Nodes |-> Healthy], taint |-> DefaultTaint,
           todo |-> {}, node |-> None, cond |-> None]

\* stale: recorded more than 72 hours ago
Attempts == [live : Nat, stale : Nat]

\* A number for every node and condition
Counts == [Nodes -> [Conditions -> Nat]]
Zero == [n \in Nodes |-> [c \in Conditions |-> 0]]

\* Remediation is enabled on a cluster with healthy and unhealthy nodes
Init ==
  /\ \E bad \in [Nodes -> SUBSET Conditions] :
       node = [n \in Nodes |-> [Healthy EXCEPT !.bad = bad[n]]]
  /\ wf = [w \in Ids |-> NoWorkflow] /\ made = 0
  /\ attempts = [n \in Nodes |-> [c \in Conditions |-> [live |-> 0, stale |-> 0]]]
  /\ objects = "none" /\ spec = DefaultTaint /\ argoLimit = 0
  /\ tol = [x \in Workloads |-> {DefaultTaint}]
  /\ tracker = Zero /\ pass = NoPass
  /\ hist = [created |-> Zero, lost |-> Zero, blind |-> {}, untainted |-> {}, tolErr |-> FALSE]
  /\ used = 0

Disturb(what) == what \in Disturbances /\ used < MaxDisturbances /\ used' = used + 1
Fault == Disturb("fault")

---------------------------------------------------------------------------
\* Workflows

Stage(w) == wf[w].stage
Active(w) == Stage(w) \notin {"absent", "Succeeded", "Failed"}
Running(w) == Active(w) /\ Stage(w) # "new"
Suspended(w) == Stage(w) \in {"autostart", "suspend"}

\* Workflows are told apart by the prefix of their name: the node and a hyphen
Matches(n, w) == wf[w].node = n \/ <<n, wf[w].node>> \in SharesPrefix
FinishedOn(n) == {w \in Ids : Matches(n, w) /\ Stage(w) = "Succeeded"}

\* Mutant: only a workflow that is executing a step counts
BusyOn(n) == {w \in Ids : Matches(n, w) /\ Running(w) /\ ~Suspended(w)}

\* Mutant: a failed workflow counts as well
UnsuccessfulOn(n) == {w \in Ids : Matches(n, w) /\ (Running(w) \/ Stage(w) = "Failed")}

RunningOn(n) == {w \in Ids : Matches(n, w) /\ Running(w)}

Without(ws) == [w \in Ids |-> IF w \in ws THEN NoWorkflow ELSE wf[w]]

\* Mutant: both suspend steps lead to the reboot
ResumedAtReboot(w) == [wf[w] EXCEPT !.stage = "reboot"]

\* resumeSuspendedWorkflow: the suspend step has succeeded, the next one is due
Resumed(w) ==
  [wf[w] EXCEPT !.stage = IF @ = "autostart" THEN "taint"
                          ELSE IF wf[w].cond \in SkipReboot THEN "test" ELSE "reboot"]

---------------------------------------------------------------------------
\* A pass: preparation

\* The node list and the DeviceConfig are read once, at the start of Reconcile
PassStart ==
  /\ pass.pc = "idle"
  /\ pass' = [NoPass EXCEPT !.pc = "prepare", !.snap = node, !.taint = spec, !.todo = Nodes]
  /\ UNCHANGED <<node, wf, made, attempts, objects, spec, tol, argoLimit, tracker, hist, used>>

\* createDefaultObjects: the templates are created when the second one is
\* missing.  The first one is created without looking for it: when it is there
\* and the second is not, its creation fails, in this pass and in every other.
CreateDefaultObjects == objects # "notify" /\ objects' = "all"

\* ... or it fails before, between or after the two
CreateDefaultObjectsFails ==
  \/ objects = "notify" /\ UNCHANGED <<objects, used>>
  \/ Fault /\ objects' \in (IF objects = "none" THEN {"none", "notify"} ELSE {objects})

\* updateMaxParallelWorkflows, whose failure is ignored
UpdateMaxParallelWorkflows ==
  \/ argoLimit' = MaxParallelWorkflows /\ UNCHANGED used
  \/ Fault /\ argoLimit # MaxParallelWorkflows /\ UNCHANGED argoLimit

\* dropOlderRecoveryAttemptsFromStatusCR
DropOlder ==
  /\ attempts' = [n \in Nodes |-> [c \in Conditions |-> [attempts[n][c] EXCEPT !.stale = 0]]]
  /\ hist' = [hist EXCEPT !.created =
               [n \in Nodes |-> [c \in Conditions |-> @[n][c] - attempts[n][c].stale]]]

\* Mutant: the map is built once and kept
TrackerKept == tracker

\* Mutant: nodes without attempts have no entry
TrackerSparse ==
  [n \in {m \in Nodes : \E c \in Conditions : attempts[m][c].live > 0} |->
     [c \in Conditions |-> attempts[n][c].live]]

\* syncInternalMapFromStatusCR
TrackerFromCR == [n \in Nodes |-> [c \in Conditions |-> attempts[n][c].live]]

\* HandleRemediation up to its loop over the nodes
Prepare ==
  /\ pass.pc = "prepare" /\ CreateDefaultObjects
  /\ UpdateMaxParallelWorkflows /\ DropOlder
  /\ tracker' = TrackerFromCR /\ pass' = [pass EXCEPT !.pc = "nodes"]
  /\ UNCHANGED <<node, wf, made, spec, tol>>

\* ... returns an error: from the default objects, or from the status object
PrepareFails ==
  /\ pass.pc = "prepare" /\ pass' = NoPass
  /\ \/ CreateDefaultObjectsFails /\ UNCHANGED <<attempts, hist>>
     \/ CreateDefaultObjects /\ Fault /\ (DropOlder \/ UNCHANGED <<attempts, hist>>)
  /\ UNCHANGED <<node, wf, made, spec, tol, argoLimit, tracker>>

---------------------------------------------------------------------------
\* A pass: the nodes, one after the other

Visiting(n) == pass.pc = "nodes" /\ n \in pass.todo
Skip(n) == pass' = [pass EXCEPT !.todo = @ \ {n}] /\ UNCHANGED hist

\* validateNodeConditions: the first condition of the list that is True and mapped
FirstBad(n, c) ==
  c \in pass.snap[n].bad /\ \A d \in pass.snap[n].bad : Position[c] <= Position[d]

IsRecoveryPolicyViolated(n, c) == tracker[n][c] >= MaxRuns

\* isWorkflowSchedulableOnNode, for the node object at
Schedulable(n, c, at) ==
  /\ pass.taint \notin at.taints
  /\ ~at.upgrading
  /\ ~IsRecoveryPolicyViolated(n, c)

\* Go on to create a workflow.  The history notes that a workflow of the node is
\* there which Argo has not started: handleExistingWorkflowsOnNode passes it over.
Schedule(n, c, at) ==
  IF Schedulable(n, c, at)
    THEN /\ pass' = [pass EXCEPT !.pc = "create", !.todo = @ \ {n}, !.node = n, !.cond = c]
         /\ hist' = [hist EXCEPT !.blind =
              IF \E w \in Ids : wf[w].node = n /\ Stage(w) = "new" THEN @ \cup {n} ELSE @]
    ELSE Skip(n)

\* No mapped condition is True: the workflows of the node are left alone
VisitHealthy(n) ==
  /\ Visiting(n) /\ pass.snap[n].bad = {}
  /\ Skip(n) /\ UNCHANGED <<node, wf, used>>

\* handleExistingWorkflowsOnNode finds nothing that runs
VisitIdle(n, c) ==
  /\ Visiting(n) /\ FirstBad(n, c) /\ RunningOn(n) = {}
  /\ wf' = Without(FinishedOn(n))
  /\ Schedule(n, c, pass.snap[n]) /\ UNCHANGED <<node, used>>

\* ... cannot list the workflows, or delete one that has succeeded
VisitError(n, c) ==
  /\ Visiting(n) /\ FirstBad(n, c) /\ Fault
  /\ \E done \in SUBSET FinishedOn(n) : wf' = Without(done)
  /\ Skip(n) /\ UNCHANGED node

\* ... finds one that executes a step.  Workflows that come before it in the
\* list and have succeeded are deleted, here and below.
VisitBusy(n, c) ==
  /\ Visiting(n) /\ FirstBad(n, c)
  /\ \E r \in RunningOn(n) : ~Suspended(r)
  /\ \E done \in SUBSET FinishedOn(n) : wf' = Without(done)
  /\ Skip(n) /\ UNCHANGED <<node, used>>

\* attemptAbortWorkflowOnNode on a suspended one: a new one may be created at
\* once, unless the label cannot be removed.  The answer to the patch of the label
\* brings the node of now into the list.
VisitAbort(n, c) ==
  /\ Visiting(n) /\ FirstBad(n, c) /\ pass.snap[n].abort
  /\ \E r \in RunningOn(n), done \in SUBSET FinishedOn(n) :
       Suspended(r) /\ wf' = Without(done \cup {r})
  /\ \/ node' = [node EXCEPT ![n].abort = FALSE] /\ Schedule(n, c, node[n]) /\ UNCHANGED used
     \/ Fault /\ Skip(n) /\ UNCHANGED node

\* Mutant: the label of the user is always needed
ResumeIfLabelled(n, c, stage) ==
  ~IsRecoveryPolicyViolated(n, c) /\ pass.snap[n].resume

\* canResumeWorkflowOnNode, by the mapping of the condition of this visit
CanResumeWorkflowOnNode(n, c, stage) ==
  /\ ~IsRecoveryPolicyViolated(n, c)
  /\ (c \notin Physical /\ stage # "autostart") \/ pass.snap[n].resume

\* attemptResumeWorkflowOnNode: nobody asked to abort, or the abortion failed.
\* The update of the workflow and the removal of the label may fail.
VisitResume(n, c) ==
  /\ Visiting(n) /\ FirstBad(n, c)
  /\ \E r \in RunningOn(n), done \in SUBSET FinishedOn(n) :
       /\ Suspended(r)
       /\ IF CanResumeWorkflowOnNode(n, c, Stage(r))
          THEN \/ /\ wf' = [Without(done) EXCEPT ![r] = Resumed(r)]
                  /\ \/ node' = [node EXCEPT ![n].resume = @ /\ ~pass.snap[n].resume]
                        /\ IF pass.snap[n].abort THEN Fault ELSE UNCHANGED used
                     \/ ~pass.snap[n].abort /\ pass.snap[n].resume /\ Fault /\ UNCHANGED node
               \/ ~pass.snap[n].abort /\ Fault /\ wf' = Without(done) /\ UNCHANGED node
          ELSE /\ wf' = Without(done) /\ UNCHANGED node
               /\ IF pass.snap[n].abort THEN Fault ELSE UNCHANGED used
  /\ Skip(n)

Visit ==
  /\ \E n \in Nodes :
       VisitHealthy(n)
       \/ \E c \in Conditions : VisitIdle(n, c) \/ VisitBusy(n, c) \/ VisitAbort(n, c)
                                \/ VisitResume(n, c)
  /\ UNCHANGED <<made, attempts, objects, spec, tol, argoLimit, tracker>>

VisitFails ==
  /\ \E n \in Nodes, c \in Conditions : VisitError(n, c)
  /\ UNCHANGED <<made, attempts, objects, spec, tol, argoLimit, tracker>>

---------------------------------------------------------------------------
\* A pass: a new workflow

\* Mutant: the cache of tolerations is not emptied, so a taint is new only once
ChangedOnce == tol = [x \in Workloads |-> {DefaultTaint}] /\ pass.taint # DefaultTaint

\* customTaintsChanged compares the value of a taint with the effect kept in the
\* cache, so custom taints always count as changed (but for one whose value is
\* spelled like its effect)
CustomTaintsChanged == pass.taint # DefaultTaint

\* updateCustomTolerations; the errors of single workloads are only logged
HandleDeviceConfigChanges ==
  \/ ~CustomTaintsChanged /\ UNCHANGED <<tol, used>>
  \/ /\ CustomTaintsChanged /\ UNCHANGED used
     /\ tol' = [x \in Workloads |-> {DefaultTaint, pass.taint}]
  \/ /\ CustomTaintsChanged /\ Fault
     /\ \E bad \in SUBSET Workloads \ {{}} :
          tol' = [x \in Workloads |-> IF x \in bad THEN tol[x] ELSE {DefaultTaint, pass.taint}]

\* populateWorkflow, handleDeviceConfigChanges and createWorkflow
Create ==
  /\ pass.pc = "create" /\ made < MaxWorkflows
  /\ HandleDeviceConfigChanges
  /\ made' = made + 1
  /\ wf' = [wf EXCEPT ![made + 1] =
       [node |-> pass.node, cond |-> pass.cond, taint |-> pass.taint, stage |-> "new"]]
  /\ hist' = [hist EXCEPT !.created[pass.node][pass.cond] = @ + 1, !.tolErr = used' # used]
  /\ pass' = [pass EXCEPT !.pc = "register"]
  /\ UNCHANGED <<node, attempts, objects, spec, argoLimit, tracker>>

\* The template is not found or the creation fails: on to the next node.  The
\* same way out stands for the bound on workflows.
CreateFails ==
  /\ pass.pc = "create"
  /\ IF made < MaxWorkflows THEN Fault ELSE UNCHANGED used
  /\ pass' = [pass EXCEPT !.pc = "nodes", !.node = None, !.cond = None]
  /\ UNCHANGED <<node, wf, made, attempts, objects, spec, tol, argoLimit, tracker, hist>>

\* registerRecoveryAttempt, in the status object and in the map.  (The map was
\* cut down to the window before; the next pass rebuilds it.)
Register ==
  /\ pass.pc = "register" /\ pass.cond \notin BadWindow
  /\ attempts' = [attempts EXCEPT ![pass.node][pass.cond].live = @ + 1]
  /\ tracker' = [tracker EXCEPT ![pass.node][pass.cond] = @ + 1]
  /\ pass' = [pass EXCEPT !.pc = "nodes", !.node = None, !.cond = None]
  /\ UNCHANGED <<node, wf, made, objects, spec, tol, argoLimit, hist, used>>

Lost == [hist EXCEPT !.lost[pass.node][pass.cond] = @ + 1]

\* The window size cannot be parsed, or the status cannot be patched: the pass
\* ends, the workflow is there and no attempt is recorded
RegisterFails ==
  /\ pass.pc = "register"
  /\ IF pass.cond \in BadWindow THEN UNCHANGED used ELSE Fault
  /\ hist' = Lost
  /\ pass' = NoPass
  /\ UNCHANGED <<node, wf, made, attempts, objects, spec, tol, argoLimit, tracker>>

PassEnd ==
  /\ pass.pc = "nodes" /\ pass.todo = {}
  /\ pass' = NoPass
  /\ UNCHANGED <<node, wf, made, attempts, objects, spec, tol, argoLimit, tracker, hist, used>>

\* HandleDelete: a DeviceConfig is deleted, and with it every workflow of the
\* namespace, whatever DeviceConfig it was created for
HandleDelete ==
  /\ pass.pc = "idle" /\ Disturb("delete")
  /\ \E failed \in SUBSET {w \in Ids : Stage(w) # "absent"} : wf' = Without(Ids \ failed)
  /\ UNCHANGED <<node, made, attempts, objects, spec, tol, argoLimit, tracker, pass, hist>>

Restart ==
  /\ Disturb("restart")
  /\ hist' = IF pass.pc = "register" THEN Lost ELSE hist
  /\ pass' = NoPass /\ tracker' = Zero
  /\ UNCHANGED <<node, wf, made, attempts, objects, spec, tol, argoLimit>>

PassStep ==
  PassStart \/ Prepare \/ PrepareFails \/ Visit \/ VisitFails \/ Create \/ CreateFails
  \/ Register \/ RegisterFails \/ PassEnd

---------------------------------------------------------------------------
\* Argo runs the steps of the default template

operatorVars == <<made, attempts, objects, spec, tol, argoLimit, tracker, pass>>
To(w, stage) == wf' = [wf EXCEPT ![w].stage = stage]
At(w, stage) == w \in Ids /\ Stage(w) = stage

\* A workflow is picked up when the limit allows; autostart is a suspend step
ArgoStart(w) ==
  /\ At(w, "new")
  /\ argoLimit # 0 => Cardinality({v \in Ids : Running(v)}) < argoLimit
  /\ \E auto \in AutoStart : To(w, IF auto THEN "taint" ELSE "autostart")
  /\ UNCHANGED <<node, hist, used>>

\* taint.sh reports success even when the taint could not be set
ArgoTaint(w) ==
  /\ At(w, "taint") /\ To(w, "drain")
  /\ \/ /\ node' = [node EXCEPT ![wf[w].node].taints = @ \cup {wf[w].taint}]
        /\ UNCHANGED <<hist, used>>
     \/ Fault /\ hist' = [hist EXCEPT !.untainted = @ \cup {wf[w].node}] /\ UNCHANGED node

ArgoDrain(w) ==
  /\ At(w, "drain") /\ To(w, "suspend")
  /\ UNCHANGED <<node, hist, used>>

\* The reboot step may fail, the workflow goes on
ArgoReboot(w) ==
  /\ At(w, "reboot") /\ To(w, "test")
  /\ UNCHANGED <<node, hist, used>>

\* A failed test fails the workflow after the labels are removed; the taint stays
ArgoTest(w) ==
  /\ At(w, "test") /\ (To(w, "wait") \/ To(w, "Failed"))
  /\ UNCHANGED <<node, hist, used>>

\* wait.sh: the condition is False for two minutes, or 15 minutes are over
ArgoWait(w) ==
  /\ At(w, "wait")
  /\ IF wf[w].cond \in node[wf[w].node].bad THEN To(w, "Failed") ELSE To(w, "untaint")
  /\ UNCHANGED <<node, hist, used>>

ArgoUntaint(w) ==
  /\ At(w, "untaint") /\ To(w, "Succeeded")
  /\ \/ node' = [node EXCEPT ![wf[w].node].taints = @ \ {wf[w].taint}] /\ UNCHANGED used
     \/ Fault /\ UNCHANGED node
  /\ UNCHANGED hist

\* The pod of a step cannot run
ArgoStepFails(w) ==
  /\ w \in Ids /\ Stage(w) \in {"taint", "drain", "untaint"} /\ Fault
  /\ To(w, "Failed") /\ UNCHANGED <<node, hist>>

\* The time to live of a completed workflow is over
ArgoCollect(w) ==
  /\ w \in Ids /\ Stage(w) \in {"Succeeded", "Failed"}
  /\ wf' = Without({w}) /\ UNCHANGED <<node, hist, used>>

ArgoStep(w) ==
  /\ \/ ArgoStart(w) \/ ArgoTaint(w) \/ ArgoDrain(w) \/ ArgoReboot(w) \/ ArgoTest(w)
     \/ ArgoWait(w) \/ ArgoUntaint(w)
  /\ UNCHANGED operatorVars

Argo ==
  \E w \in Ids : ArgoStep(w) \/ ((ArgoStepFails(w) \/ ArgoCollect(w)) /\ UNCHANGED operatorVars)

---------------------------------------------------------------------------
\* The environment

\* The node problem detector sets or clears a condition
Flap(n, c) ==
  /\ Disturb("flap")
  /\ node' = [node EXCEPT ![n].bad = IF c \in @ THEN @ \ {c} ELSE @ \cup {c}]
  /\ UNCHANGED spec

\* The user asks for a workflow to be aborted or to be resumed
UserLabel(n) ==
  /\ Disturb("label")
  /\ \/ node' = [node EXCEPT ![n].abort = TRUE]
     \/ node' = [node EXCEPT ![n].resume = TRUE]
  /\ UNCHANGED spec

\* The user gives a node back that no workflow works on any more
UserUntaint(n) ==
  /\ node[n].taints # {} /\ \A w \in Ids : Active(w) => wf[w].node # n
  /\ node' = [node EXCEPT ![n].taints = {}]
  /\ UNCHANGED <<spec, used>>

\* The upgrade manager starts and finishes upgrades
UpgradeToggle(n) ==
  /\ Disturb("upgrade")
  /\ node' = [node EXCEPT ![n].upgrading = ~@]
  /\ UNCHANGED spec

UserEdit(k) ==
  /\ Disturb("edit")
  /\ spec' = k /\ UNCHANGED node

\* An attempt was recorded more than 72 hours ago
TimePasses(n, c) ==
  /\ Disturb("time") /\ attempts[n][c].live > 0
  /\ attempts' = [attempts EXCEPT ![n][c] = [live |-> @.live - 1, stale |-> @.stale + 1]]
  /\ UNCHANGED <<node, spec>>

Environment ==
  /\ \/ /\ \/ \E n \in Nodes, c \in Conditions : Flap(n, c)
           \/ \E n \in Nodes : UserLabel(n) \/ UserUntaint(n) \/ UpgradeToggle(n)
           \/ \E k \in TaintKeys \ {spec} : UserEdit(k)
        /\ UNCHANGED attempts
     \/ \E n \in Nodes, c \in Conditions : TimePasses(n, c)
  /\ UNCHANGED <<wf, made, objects, tol, argoLimit, tracker, pass, hist>>

Next == PassStep \/ HandleDelete \/ Restart \/ Argo \/ Environment

Spec == Init /\ [][Next]_vars

\* HandleRemediation asks for the next pass 20 seconds later, a failed pass is
\* retried, and a pass that was started runs on.  Argo goes on with what it has.
Fairness == WF_vars(PassStep) /\ \A w \in Ids : WF_vars(ArgoStep(w))

FairSpec == Spec /\ Fairness

---------------------------------------------------------------------------
\* Properties

\* The map of attempts and the locals of HandleRemediation, the workflows and
\* the status object keep their types, and a pass that is about to create or to
\* record a workflow knows its node and condition.
TypeOK ==
  /\ node \in [Nodes -> Node]
  /\ wf \in [Ids -> Workflow] /\ made \in 0 .. MaxWorkflows
  /\ \A w \in Ids : Stage(w) # "absent" => wf[w].node \in Nodes /\ wf[w].cond \in Conditions
  /\ attempts \in [Nodes -> [Conditions -> Attempts]]
  /\ objects \in {"none", "notify", "all"} /\ spec \in TaintKeys
  /\ tol \in [Workloads -> SUBSET TaintKeys] /\ argoLimit \in Nat
  /\ tracker \in Counts /\ pass \in Pass
  /\ pass.pc \in {"create", "register"} => pass.node \in Nodes /\ pass.cond \in Conditions
  /\ hist \in [created : [Nodes -> [Conditions -> Int]], lost : Counts,
               blind : SUBSET Nodes, untainted : SUBSET Nodes, tolErr : BOOLEAN]
  /\ used \in Nat

\* Within the 72 hours for which attempts are kept, no more workflows are created
\* for a condition of a node than the recovery policy allows
\* (isRecoveryPolicyViolated), whatever restarts and whatever conditions do, but
\* for those whose registration failed or was cut off (registerRecoveryAttempt).
RunsWithinPolicy ==
  \A n \in Nodes, c \in Conditions : hist.created[n][c] <= MaxRuns + hist.lost[n][c]

\* Workflows of n may overlap: a pass went on to create one while another had not
\* been started by Argo, or takes the workflow of another node for one of n
Confused(n) == n \in hist.blind \/ \E m \in Nodes : <<n, m>> \in SharesPrefix

\* A node has one unfinished workflow at most, except in the two cases that
\* handleExistingWorkflowsOnNode does not tell apart.
OneWorkflowUnlessConfused ==
  \A v, w \in Ids : Active(v) /\ Active(w) /\ wf[v].node = wf[w].node
                    => v = w \/ Confused(wf[v].node)

\* While a workflow drains, reboots or tests a node, the taint it has set keeps
\* other workloads away, unless it could not be set or workflows may overlap.
DisruptionTainted ==
  \A w \in Ids : Stage(w) \in {"drain", "suspend", "reboot", "test", "wait"}
                 => \/ wf[w].taint \in node[wf[w].node].taints
                    \/ Confused(wf[w].node) \/ wf[w].node \in hist.untainted

\* The operator, the workflow controller and node feature discovery tolerate the
\* taint of the newest workflow (handleDeviceConfigChanges before
\* createWorkflow), unless one of the updates for it failed.
TaintTolerated ==
  made > 0 /\ Stage(made) # "absent" /\ ~hist.tolErr =>
    \A x \in Workloads : wf[made].taint \in tol[x]

\* A workflow for a condition that needs a physical action stays suspended until
\* the user has labelled a node (canResumeWorkflowOnNode;
\* docs/autoremediation/auto-remediation.md).
PhysicalActionAwaited ==
  [][\A w \in Ids : /\ Stage(w) = "suspend" /\ wf[w].cond \in Physical
                    /\ wf'[w].stage \in {"reboot", "test"}
                    => \E n \in Nodes : pass.snap[n].resume]_vars

Left(n, c) == attempts[n][c].live + attempts[n][c].stale < MaxRuns

\* Nothing keeps a workflow from being created for node n
Needy(n) ==
  /\ node[n].bad # {} /\ node[n].taints = {} /\ ~node[n].upgrading
  /\ \A c \in node[n].bad : Left(n, c)
  /\ \A w \in Ids : Matches(n, w) => ~Active(w)
  /\ objects # "notify" /\ made < MaxWorkflows

\* An unhealthy node without taint, upgrade and workflow that has attempts left
\* gets a workflow in the end, whatever is left of earlier ones.
EventuallyTried == \A n \in Nodes : ~<>[]Needy(n)

\* Nothing keeps w from being resumed
Resumable(w) ==
  /\ Stage(w) = "suspend" /\ ~node[wf[w].node].abort /\ node[wf[w].node].bad # {}
  /\ \A c \in node[wf[w].node].bad : c \notin Physical /\ Left(wf[w].node, c)
  /\ \A v \in Ids : Running(v) => v = w
  /\ objects # "notify"

\* A workflow at its suspend step goes on without the user when no physical
\* action is needed and attempts are left (attemptResumeWorkflowOnNode).
EventuallyResumed == \A w \in Ids : ~<>[]Resumable(w)

---------------------------------------------------------------------------
\* The inductive invariant behind RunsWithinPolicy and OneWorkflowUnlessConfused

Recorded(n, c) == attempts[n][c].live + attempts[n][c].stale

\* The pass has created a workflow and not recorded it yet
Pending(n, c) ==
  IF pass.pc = "register" /\ pass.node = n /\ pass.cond = c THEN 1 ELSE 0

\* A workflow that was created is recorded, about to be, or lost.
CountInv ==
  \A n \in Nodes, c \in Conditions :
    hist.created[n][c] = Recorded(n, c) + hist.lost[n][c] + Pending(n, c)

\* While nodes are visited the map has all that is recorded, attempts that have
\* become stale since the pass began included.
TrackerInv ==
  pass.pc \in {"nodes", "create", "register"} =>
    \A n \in Nodes, c \in Conditions : tracker[n][c] = Recorded(n, c)

\* No more is recorded than the policy allows, and there is room for the
\* workflow that is being created.
BoundInv ==
  /\ \A n \in Nodes, c \in Conditions : Recorded(n, c) <= MaxRuns
  /\ pass.pc \in {"create", "register"} => Recorded(pass.node, pass.cond) < MaxRuns

\* The node for which a workflow is being created has none that is unfinished.
FreeInv ==
  pass.pc = "create" =>
    Confused(pass.node) \/ \A w \in Ids : Active(w) => wf[w].node # pass.node

\* The default taint is tolerated whatever custom taints come and go: the base of
\* TaintTolerated.
TolInv == \A x \in Workloads : DefaultTaint \in tol[x]

\* What every step of HandleRemediation, of Argo and of the users keeps.
RemediationInv ==
  TypeOK /\ CountInv /\ TrackerInv /\ BoundInv /\ FreeInv /\ OneWorkflowUnlessConfused
====
