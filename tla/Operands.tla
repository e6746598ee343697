------------------------------ MODULE Operands ------------------------------
(***************************************************************************)
(* The operands of one DeviceConfig: how a pass of Reconcile brings the    *)
(* Module, the DaemonSets and the metrics objects to what the spec asks    *)
(* for, publishes the result, and takes everything down again              *)
(* (internal/controllers/device_config_reconciler.go), and how the         *)
(* DaemonSet watcher carries pod counts into the same status               *)
(* (internal/controllers/watchers/daemonset.go).                           *)
(*                                                                         *)
(* A pass works on the copy of the DeviceConfig and the node list it read  *)
(* at its start, one API call at a time.  Meanwhile users edit and delete, *)
(* nodes change kernel, watchers write the status, calls fail and the      *)
(* operator restarts.  One worker runs the passes; requests that arrive    *)
(* during a pass wait for the next one.                                    *)
(***************************************************************************)
EXTENDS Rendering

CONSTANTS
  Specs,        \* the specs users write
  InitialSpecs, \* those a DeviceConfig is created with
  NodeSet,      \* the nodes
  OSOf,         \* node |-> the OS it runs
  Kernels,      \* kernel versions
  InitialKernel,
  Refs,         \* Secrets, ConfigMaps and CRDs that specs refer to
  Absent,       \* no object
  Edited,       \* an object somebody else wrote over
  Counted,      \* of the DaemonSets with counters in the status, those followed
  Touchable,    \* the operands that others delete and edit
  Disturbances, \* what may happen in the model
  MaxDisturbances

VARIABLES
  dc,           \* API server: the DeviceConfig
  obj,          \* API server: the operands
  terminating,  \* the Module waits for KMM to unload the driver
  cms,          \* OSs that have a build ConfigMap
  label,        \* node |-> its KMM version label, "" for none
  host,         \* node |-> OS and kernel
  exists,       \* the Refs that exist
  pods,         \* counted DaemonSet |-> its available pods, 0 or 1
  seen,         \* counted DaemonSet |-> what the watcher was last told of it
  queued,       \* a request is in the work queue
  pass,         \* the pass under way
  used,         \* disturbances so far
  hist          \* history, see History

vars == <<dc, obj, terminating, cms, label, host, exists, pods, seen, queued,
          pass, used, hist>>

DaemonSets == {"plugin", "labeller", "exporter", "runner", "manager"}
Operand == DaemonSets \cup {"module", "secret", "service", "monitor"}

Hosts == [NodeSet -> [os : DOMAIN OSInfo, kernel : Kernels]]

ASSUME OperandsAssumption ==
  /\ InitialSpecs \subseteq Specs
  /\ InitialKernel \in Kernels
  /\ \A s \in Specs : s.selector \subseteq NodeSet
  /\ OSOf \in [NodeSet -> DOMAIN OSInfo]
  /\ IsFiniteSet(NodeSet)
  /\ Listed \in [NodeSet -> 1 .. Cardinality(NodeSet)]
  /\ \A n, k \in NodeSet : Listed[n] = Listed[k] => n = k
  /\ Disturbances \subseteq {"edit", "delete", "fault", "restart", "tamper", "kernel", "ref"}
  /\ Counted \subseteq {"plugin", "exporter"}
  /\ Touchable \subseteq Operand \ {"module", "secret"}
  /\ MaxDisturbances \in Nat
  /\ Absent # Edited
  /\ \A s \in Specs, nodes \in SUBSET NodeSet, h \in Hosts :
       BuildOK(nodes, h) => SetKMMModuleAsDesired(s, nodes, h) # Absent

\* gen: metadata.generation.  observed, ready, error, count: the status.
DeviceConfig ==
  [phase : {"present", "deleting", "gone"}, finalizer : BOOLEAN,
   gen : Nat \ {0}, spec : Specs, observed : Nat, ready : BOOLEAN, error : BOOLEAN,
   count : [Counted -> 0 .. 1]]

\* spec, gen, count: from the copy read at the start; todo: the calls to come
NoPass == [pc |-> "idle", todo |-> <<>>]

\* validated: generations that passed validation.  adopted: generations that
\* the response to setFinalizer brought into a pass.  lost: operands that a pass
\* may have to do with and does not know of: one that somebody deleted, or a
\* labeller to remove that could not be looked up.  stale: counters that were
\* written over, or whose update failed.  cut: a finalizing pass died before the
\* version labels were removed.
NoHistory == [validated |-> {}, adopted |-> {}, lost |-> {}, stale |-> {},
              cut |-> FALSE]

Init ==
  /\ dc \in [phase : {"present"}, finalizer : {FALSE}, gen : {1},
             spec : InitialSpecs, observed : {0}, ready : {FALSE},
             error : {FALSE}, count : {[o \in Counted |-> 0]}]
  /\ obj = [o \in Operand |-> Absent]
  /\ terminating = FALSE
  /\ cms = {}
  /\ label = [n \in NodeSet |-> ""]
  /\ host = [n \in NodeSet |-> [os |-> OSOf[n], kernel |-> InitialKernel]]
  /\ exists = Refs
  /\ pods = [d \in Counted |-> 0]
  /\ seen = [d \in Counted |-> [obj |-> Absent, pods |-> 0]]
  /\ queued = TRUE
  /\ pass = NoPass
  /\ used = 0
  /\ hist = NoHistory

Disturb(d) == d \in Disturbances /\ used < MaxDisturbances /\ used' = used + 1

\* The nodes that a spec selects
GetK8SNodes(s) == NodeSet \cap s.selector

\* What the operand may look like for spec s, nodes and hosts
Rendered(o, s, nodes, h) ==
  CASE o = "module" -> {SetKMMModuleAsDesired(s, nodes, h)}
    [] o = "plugin" -> SetDevicePluginAsDesired(s)
    [] o = "labeller" -> {SetNodeLabellerAsDesired(s)}
    [] o = "exporter" -> {SetMetricsExporterAsDesired(s)}
    [] o = "runner" -> {SetTestRunnerAsDesired(s)}
    [] o = "manager" -> {SetConfigManagerAsDesired(s)}
    [] o = "secret" -> {SetStaticAuthSecretAsDesired(s)}
    [] o = "service" -> {SetMetricsServiceAsDesired(s)}
    [] o = "monitor" -> {SetServiceMonitorAsDesired(s)}

---------------------------------------------------------------------------
\* What a pass does, as a sequence of calls

Put(o) == [call |-> "put", on |-> o]
Remove(o) == [call |-> "remove", on |-> o]
PutOrRemove(on, o) == IF on THEN Put(o) ELSE Remove(o)
Do(c) == [call |-> c, on |-> "module"]
If(on, calls) == IF on THEN calls ELSE <<>>

\* finalizeMetricsExporter.  It looks for the Secret under the name of the
\* DaemonSet, so the static authorization Secret stays.
finalizeMetricsExporter == <<Remove("monitor"), Remove("service"), Remove("exporter")>>

\* Mutant: a ServiceMonitor that is switched off stays
handleMetricsExporterKeeps(s) ==
  IF ~s.exporter THEN finalizeMetricsExporter
  ELSE If(s.auth, <<Put("secret")>>)
       \o <<Put("exporter"), Put("service")>> \o If(s.monitor, <<Put("monitor")>>)

handleMetricsExporter(s) ==
  IF ~s.exporter THEN finalizeMetricsExporter
  ELSE If(s.auth, <<Put("secret")>>)
       \o <<Put("exporter"), Put("service"), PutOrRemove(s.monitor, "monitor")>>

\* A Module that is not wanted any more stays.  The test runner depends on
\* the metrics exporter.
Reconcile(s) ==
  If(ShouldUseKMM(s), <<Do("configmaps"), Put("module")>>)
  \o <<Put("plugin")>>
  \o If(ShouldUseKMM(s), <<Do("label")>>)
  \o <<PutOrRemove(s.labeller, "labeller")>>
  \o handleMetricsExporter(s)
  \o <<PutOrRemove(s.runner /\ s.exporter, "runner"),
       PutOrRemove(s.manager, "manager"), Do("publish")>>

\* Mutant: the driver goes first
finalizeModuleFirst ==
  <<Do("release"), Remove("manager"), Remove("runner")>> \o finalizeMetricsExporter
  \o <<Remove("plugin"), Remove("labeller")>>

\* Mutant: the device plugin is forgotten
finalizeKeepsPlugin ==
  <<Remove("manager"), Remove("runner")>> \o finalizeMetricsExporter
  \o <<Remove("labeller"), Do("release")>>

finalizeDeviceConfig ==
  <<Remove("manager"), Remove("runner")>> \o finalizeMetricsExporter
  \o <<Remove("plugin"), Remove("labeller"), Do("release")>>

---------------------------------------------------------------------------
\* The steps of a pass

Running(c) == pass.pc = "run" /\ pass.todo[1].call = c

\* The kind of a pass: how it will end
Ends(c) == pass.pc # "idle" /\ pass.todo[Len(pass.todo)].call = c

Advance == pass' = [pass EXCEPT !.todo = Tail(@)]

\* The request is done, or returned to the queue
Done == pass' = NoPass /\ UNCHANGED queued
Requeued == pass' = NoPass /\ queued' = TRUE

PassOn(pc, todo) ==
  [pc |-> pc, todo |-> todo, spec |-> dc.spec, gen |-> dc.gen, count |-> dc.count,
   nodes |-> GetK8SNodes(dc.spec), host |-> host]

TakeRequest == pass.pc = "idle" /\ queued /\ queued' = FALSE

\* The DeviceConfig is gone
PassNotFound ==
  /\ TakeRequest /\ dc.phase = "gone"
  /\ UNCHANGED <<dc, obj, terminating, cms, label, host, exists, pods, seen, pass,
                 used, hist>>

PassFinalize ==
  /\ TakeRequest /\ dc.phase = "deleting"
  /\ pass' = PassOn("run", finalizeDeviceConfig)
  /\ UNCHANGED <<dc, obj, terminating, cms, label, host, exists, pods, seen, used,
                 hist>>

\* Mutant: validation is skipped once the DeviceConfig was ready
NeedsValidationOnce == dc.observed = 0

\* validateDeviceConfig looks at a generation until it was processed
NeedsValidation == dc.gen # dc.observed

\* Accepted; without the finalizer setFinalizer comes next
PassAccept ==
  /\ TakeRequest /\ dc.phase = "present"
  /\ NeedsValidation => ValidateDeviceConfigAll(dc.spec, exists)
  /\ pass' = PassOn(IF dc.finalizer THEN "run" ELSE "finalizer", Reconcile(dc.spec))
  /\ hist' = IF NeedsValidation THEN [hist EXCEPT !.validated = @ \cup {dc.gen}]
             ELSE hist
  /\ UNCHANGED <<dc, obj, terminating, cms, label, host, exists, pods, seen, used>>

\* Refused: two status updates, each of which may fail, then the error
PassRefuse ==
  /\ pass.pc = "idle" /\ queued /\ dc.phase = "present"
  /\ NeedsValidation /\ ~ValidateDeviceConfigAll(dc.spec, exists)
  /\ \/ dc' = [dc EXCEPT !.error = TRUE, !.ready = FALSE] /\ UNCHANGED used
     \/ Disturb("fault") /\ dc' \in {[dc EXCEPT !.error = TRUE], [dc EXCEPT !.ready = FALSE]}
  /\ UNCHANGED <<obj, terminating, cms, label, host, exists, pods, seen, queued, pass,
                 hist>>

\* The answer of the patch overwrites the copy: spec, generation and status are
\* those of now, the node list is still that of the start
Adopt ==
  [pass EXCEPT !.pc = "run", !.spec = dc.spec, !.gen = dc.gen, !.count = dc.count,
               !.todo = Reconcile(dc.spec)]

\* Mutant: the finalizer is set on the copy alone
SetFinalizerLocally ==
  /\ pass.pc = "finalizer" /\ dc.phase = "present"
  /\ pass' = Adopt
  /\ UNCHANGED <<dc, obj, terminating, cms, label, host, exists, pods, seen, queued, used,
                 hist>>

SetFinalizer ==
  /\ pass.pc = "finalizer" /\ dc.phase = "present"
  /\ dc' = [dc EXCEPT !.finalizer = TRUE]
  /\ pass' = Adopt
  /\ hist' = IF dc.gen # pass.gen THEN [hist EXCEPT !.adopted = @ \cup {dc.gen}]
             ELSE hist
  /\ UNCHANGED <<obj, terminating, cms, label, host, exists, pods, seen, queued, used>>

\* ... of a DeviceConfig that was deleted in the meantime
SetFinalizerNotFound ==
  /\ pass.pc = "finalizer" /\ dc.phase = "gone"
  /\ Requeued
  /\ UNCHANGED <<dc, obj, terminating, cms, label, host, exists, pods, seen, used, hist>>

HandleBuildConfigMap ==
  /\ Running("configmaps")
  /\ cms' = cms \cup BuildConfigMaps(pass.nodes, pass.host)
  /\ IF BuildOK(pass.nodes, pass.host) THEN Advance /\ UNCHANGED queued ELSE Requeued
  /\ UNCHANGED <<dc, obj, terminating, label, host, exists, pods, seen, used, hist>>

\* Some ConfigMaps cannot be written: it goes on to the others, then reports it
BuildConfigMapFails ==
  /\ Running("configmaps") /\ Disturb("fault")
  /\ \E written \in SUBSET BuildConfigMaps(pass.nodes, pass.host) : cms' = cms \cup written
  /\ Requeued
  /\ UNCHANGED <<dc, obj, terminating, label, host, exists, pods, seen, hist>>

\* The pods of a DaemonSet that was changed or deleted go away
Rolled(o) == IF o \in Counted THEN [pods EXCEPT ![o] = 0] ELSE pods

\* Mutant: only Modules and Services are owned
OwnedTold(o, old, new) ==
  \/ o = "module" /\ old # new
  \/ o = "service" /\ (old = Absent) # (new = Absent)

\* The events that ask for a pass: a Module changed in any way, a Service was
\* created or deleted, the generation of a DaemonSet changed.  Nobody is told of a
\* DaemonSet that is gone, or of a monitor and a Secret.
OwnerTold(o, old, new) ==
  \/ o = "module" /\ old # new
  \/ o = "service" /\ (old = Absent) # (new = Absent)
  \/ o \in DaemonSets /\ Absent \notin {old, new} /\ old # new

\* CreateOrPatch
PutOperand ==
  /\ Running("put")
  /\ LET o == pass.todo[1].on IN
       /\ \E r \in Rendered(o, pass.spec, pass.nodes, pass.host) :
            obj' = [obj EXCEPT ![o] = r]
       /\ pods' = IF obj'[o] # obj[o] THEN Rolled(o) ELSE pods
       /\ hist' = [hist EXCEPT !.lost = @ \ {o}]
       /\ queued' = (queued \/ OwnerTold(o, obj[o], obj'[o]))
  /\ Advance
  /\ UNCHANGED <<dc, terminating, cms, label, host, exists, seen, used>>

RemoveOperand ==
  /\ Running("remove")
  /\ LET o == pass.todo[1].on IN
       /\ obj' = [obj EXCEPT ![o] = Absent]
       /\ pods' = Rolled(o)
       /\ hist' = [hist EXCEPT !.lost = @ \ {o}]
       /\ queued' = (queued \/ OwnerTold(o, obj[o], Absent))
  /\ Advance
  /\ UNCHANGED <<dc, terminating, cms, label, host, exists, seen, used>>

\* handleNodeLabeller removes a labeller that is switched off if the lookup finds
\* it.  Any error of the lookup counts as "not there" and the pass goes on;
\* finalizeDeviceConfig and the other handlers tell the two apart.
LabellerGetFails ==
  /\ Running("remove") /\ pass.todo[1] = Remove("labeller") /\ Ends("publish")
  /\ Disturb("fault")
  /\ hist' = [hist EXCEPT !.lost = @ \cup {"labeller"}]
  /\ Advance
  /\ UNCHANGED <<dc, obj, terminating, cms, label, host, exists, pods, seen, queued>>

HandleKMMVersionLabel ==
  /\ Running("label")
  /\ label' = VersionLabels(pass.spec, pass.nodes, pass.host, label)
  /\ queued' = (queued \/ label' # label)      \* the node watcher
  /\ Advance
  /\ UNCHANGED <<dc, obj, terminating, cms, host, exists, pods, seen, used, hist>>

\* The patch of node n fails: those before it have their label
VersionLabelFails(n) ==
  /\ Running("label") /\ n \in pass.nodes /\ label[n] = "" /\ Disturb("fault")
  /\ LET done == VersionLabels(pass.spec, pass.nodes, pass.host, label) IN
       label' = [k \in NodeSet |-> IF k \in Before(pass.nodes, n) THEN done[k] ELSE label[k]]
  /\ Requeued
  /\ UNCHANGED <<dc, obj, terminating, cms, host, exists, pods, seen, hist>>

\* updateDeviceConfigStatus patches the difference between the object it reads
\* from the cache and the status of the copy.  The counters of the copy are
\* those of the start, and they go out unless the cache lags behind as well.
Published(lag) ==
  [dc EXCEPT !.observed = pass.gen, !.ready = TRUE, !.error = FALSE,
             !.count = IF lag THEN @ ELSE pass.count]

Publish ==
  /\ Running("publish")
  /\ \E lag \in BOOLEAN : dc' = Published(lag)
  /\ hist' = [hist EXCEPT !.stale = @ \cup {o \in Counted : dc'.count[o] # dc.count[o]}]
  /\ Done
  /\ UNCHANGED <<obj, terminating, cms, label, host, exists, pods, seen, used>>

\* The last step of finalizing finds the Module and deletes it ...
ReleaseModule ==
  /\ Running("release") /\ obj["module"] # Absent
  /\ terminating' = TRUE
  /\ pass' = [pass EXCEPT !.todo = <<Do("unlabel")>>]
  /\ UNCHANGED <<dc, obj, cms, label, host, exists, pods, seen, queued, used, hist>>

Unlabelled == [n \in NodeSet |-> IF n \in pass.spec.selector THEN "" ELSE label[n]]

\* ... and the version labels of the nodes; the pass ends without an error
ReleaseLabels ==
  /\ Running("unlabel")
  /\ label' = Unlabelled
  /\ pass' = NoPass
  /\ queued' = (queued \/ label' # label)
  /\ UNCHANGED <<dc, obj, terminating, cms, host, exists, pods, seen, used, hist>>

\* It finds no Module: the finalizer goes, and the labels if the driver is switched
\* off, where again a failure is only logged
RemoveFinalizer ==
  /\ Running("release") /\ obj["module"] = Absent
  /\ \/ pass.spec.enable /\ UNCHANGED <<label, used, hist>>
     \/ ~pass.spec.enable /\ label' = Unlabelled /\ UNCHANGED <<used, hist>>
     \/ /\ ~pass.spec.enable /\ Disturb("fault") /\ UNCHANGED label
        /\ hist' = [hist EXCEPT !.cut = TRUE]
  /\ dc' = [dc EXCEPT !.phase = "gone", !.finalizer = FALSE]
  /\ queued' = TRUE
  /\ pass' = NoPass
  /\ UNCHANGED <<obj, terminating, cms, host, exists, pods, seen>>

\* Any call fails and takes no effect, or a manager the pass calls in between fails,
\* or the wait for the VFIO workers is not over
StepFails ==
  /\ pass.pc # "idle" /\ Disturb("fault")
  /\ ~Running("unlabel")
  /\ Requeued
  /\ UNCHANGED <<dc, obj, terminating, cms, label, host, exists, pods, seen, hist>>

\* A failure to remove labels is logged, and that is all
UnlabelFails ==
  /\ Running("unlabel") /\ Disturb("fault")
  /\ hist' = [hist EXCEPT !.cut = TRUE]
  /\ Done
  /\ UNCHANGED <<dc, obj, terminating, cms, label, host, exists, pods, seen>>

\* A restarted operator is told of every object anew
Restart ==
  /\ Disturb("restart")
  /\ pass' = NoPass
  /\ queued' = TRUE
  /\ seen' = [d \in Counted |-> [obj |-> Absent, pods |-> 0]]
  /\ hist' = [hist EXCEPT !.cut = @ \/ Running("unlabel")]
  /\ UNCHANGED <<dc, obj, terminating, cms, label, host, exists, pods>>

---------------------------------------------------------------------------
\* The DaemonSet watcher

\* Mutant: only the Create event is counted
CountingCreated(d, n) ==
  IF dc.phase # "gone" /\ seen[d].obj = Absent THEN [dc EXCEPT !.count[d] = n] ELSE dc

Counting(d, n) == IF dc.phase # "gone" THEN [dc EXCEPT !.count[d] = n] ELSE dc

\* Create, Update and Delete copy the counters; the object of a Delete event
\* has those it had before
DaemonsetEvent(d) ==
  /\ seen[d] # [obj |-> obj[d], pods |-> pods[d]]
  /\ seen' = [seen EXCEPT ![d] = [obj |-> obj[d], pods |-> pods[d]]]
  /\ \/ /\ dc' = Counting(d, IF obj[d] = Absent THEN seen[d].pods ELSE pods[d])
        /\ hist' = [hist EXCEPT !.stale = @ \ {d}]
        /\ UNCHANGED used
     \/ /\ Disturb("fault")       \* the patch fails and is not repeated
        /\ hist' = [hist EXCEPT !.stale = @ \cup {d}]
        /\ UNCHANGED dc
  /\ UNCHANGED <<obj, terminating, cms, label, host, exists, pods, queued, pass>>

---------------------------------------------------------------------------
\* The cluster and its users

\* The DaemonSet controller gets the pod of a counted DaemonSet going
PodsAvailable(d) ==
  /\ obj[d] # Absent /\ pods[d] = 0
  /\ pods' = [pods EXCEPT ![d] = 1]
  /\ UNCHANGED <<dc, obj, terminating, cms, label, host, exists, seen, queued, pass,
                 used, hist>>

\* KMM has unloaded the driver; the Module goes, and its owner is told
KmmUnloaded ==
  /\ terminating
  /\ terminating' = FALSE
  /\ obj' = [obj EXCEPT !["module"] = Absent]
  /\ queued' = TRUE
  /\ UNCHANGED <<dc, cms, label, host, exists, pods, seen, pass, used, hist>>

UserEdits(s) ==
  /\ dc.phase = "present" /\ s # dc.spec /\ Disturb("edit")
  /\ dc' = [dc EXCEPT !.spec = s, !.gen = @ + 1]
  /\ queued' = TRUE
  /\ UNCHANGED <<obj, terminating, cms, label, host, exists, pods, seen, pass, hist>>

UserDeletes ==
  /\ dc.phase = "present" /\ Disturb("delete")
  /\ dc' = [dc EXCEPT !.phase = IF dc.finalizer THEN "deleting" ELSE "gone"]
  /\ queued' = TRUE
  /\ UNCHANGED <<obj, terminating, cms, label, host, exists, pods, seen, pass, hist>>

\* Somebody deletes an operand.  The owner of a Service is told; that of a DaemonSet
\* only if the deletion goes through a deletionTimestamp (in the foreground).
OperandDeleted(o) ==
  /\ obj[o] # Absent /\ Disturb("tamper")
  /\ obj' = [obj EXCEPT ![o] = Absent]
  /\ pods' = Rolled(o)
  /\ \E foreground \in BOOLEAN :
       queued' = (queued \/ OwnerTold(o, obj[o], Absent) \/ (foreground /\ o \in DaemonSets))
  /\ hist' = IF o = "service" THEN hist ELSE [hist EXCEPT !.lost = @ \cup {o}]
  /\ UNCHANGED <<dc, terminating, cms, label, host, exists, seen, pass>>

\* Somebody edits a DaemonSet
OperandEdited(d) ==
  /\ obj[d] \notin {Absent, Edited} /\ Disturb("tamper")
  /\ obj' = [obj EXCEPT ![d] = Edited]
  /\ pods' = Rolled(d)
  /\ queued' = (queued \/ OwnerTold(d, obj[d], Edited))
  /\ UNCHANGED <<dc, terminating, cms, label, host, exists, seen, pass, hist>>

\* A node boots another kernel; the node watcher asks for a pass
KernelChanges(n, k) ==
  /\ host[n].kernel # k /\ Disturb("kernel")
  /\ host' = [host EXCEPT ![n].kernel = k]
  /\ queued' = TRUE
  /\ UNCHANGED <<dc, obj, terminating, cms, label, exists, pods, seen, pass, hist>>

\* findDeviceConfigsForSecret: the Secrets of the driver ask for a pass, the
\* others do not
SecretRequests(r) == dc.phase # "gone" /\ r \in dc.spec.driverRefs

\* A Secret, a ConfigMap or the CRD comes or goes
RefChanges(r) ==
  /\ Disturb("ref")
  /\ exists' = IF r \in exists THEN exists \ {r} ELSE exists \cup {r}
  /\ queued' = (queued \/ SecretRequests(r))
  /\ UNCHANGED <<dc, obj, terminating, cms, label, host, pods, seen, pass, hist>>

---------------------------------------------------------------------------

PassStep ==
  \/ PassNotFound \/ PassFinalize \/ PassAccept \/ PassRefuse
  \/ SetFinalizer \/ SetFinalizerNotFound \/ HandleBuildConfigMap
  \/ PutOperand \/ RemoveOperand \/ HandleKMMVersionLabel \/ Publish
  \/ ReleaseModule \/ ReleaseLabels \/ RemoveFinalizer

Next ==
  \/ PassStep \/ StepFails \/ BuildConfigMapFails \/ LabellerGetFails \/ UnlabelFails
  \/ Restart
  \/ \E n \in NodeSet : VersionLabelFails(n)
  \/ \E d \in Counted : DaemonsetEvent(d) \/ PodsAvailable(d)
  \/ \E d \in DaemonSets \cap Touchable : OperandEdited(d)
  \/ KmmUnloaded \/ UserDeletes
  \/ \E s \in Specs : UserEdits(s)
  \/ \E o \in Touchable : OperandDeleted(o)
  \/ \E n \in NodeSet, k \in Kernels : KernelChanges(n, k)
  \/ \E r \in Refs : RefChanges(r)

Spec == Init /\ [][Next]_vars

\* The worker of the queue keeps working, events are delivered, the cluster's
\* own controllers do their job
FairSpec ==
  /\ Spec
  /\ WF_vars(PassStep)
  /\ \A d \in Counted : WF_vars(DaemonsetEvent(d)) /\ WF_vars(PodsAvailable(d))
  /\ WF_vars(KmmUnloaded)

---------------------------------------------------------------------------
\* Properties

\* Objects, counters and the locals of a pass keep their types; a Module that
\* terminates is there; and a pass that applies or removes operands does so under
\* the finalizer (setFinalizer before the handlers).
TypeOK ==
  /\ dc \in DeviceConfig
  /\ DOMAIN obj = Operand
  /\ terminating \in BOOLEAN /\ queued \in BOOLEAN
  /\ terminating => obj["module"] # Absent
  /\ DOMAIN label = NodeSet
  /\ host \in Hosts
  /\ exists \subseteq Refs
  /\ pods \in [Counted -> 0 .. 1]
  /\ DOMAIN seen = Counted /\ \A d \in Counted : seen[d].pods \in 0 .. 1
  /\ pass.pc \in {"idle", "finalizer", "run"}
  /\ pass.pc = "run" => pass.todo # <<>> /\ pass.nodes \subseteq NodeSet
  /\ pass.pc = "run" /\ ~Running("unlabel") /\ dc.phase = "present" => dc.finalizer
  /\ used \in 0 .. MaxDisturbances
  /\ hist \in [validated : SUBSET Nat, adopted : SUBSET Nat, lost : SUBSET Operand,
               stale : SUBSET Counted, cut : BOOLEAN]

\* The operands that spec s switches on.  A Module stays when it is not used.
Wanted(s) ==
  {"plugin"}
  \cup {o \in {"labeller"} : s.labeller}
  \cup {o \in {"exporter", "service"} : s.exporter}
  \cup {o \in {"monitor"} : s.exporter /\ s.monitor}
  \cup {o \in {"runner"} : s.exporter /\ s.runner}
  \cup {o \in {"manager"} : s.manager}
  \cup {o \in {"module"} : ShouldUseKMM(s)}
Unwanted(s) == Operand \ (Wanted(s) \cup {"secret", "module"})

Desired(o, s, nodes, h) ==
  /\ o \in Wanted(s) => obj[o] \in Rendered(o, s, nodes, h)
  /\ o \in Unwanted(s) => obj[o] = Absent

\* Apart from what the passes do not know of, the operands are those of the spec
AsDesired ==
  \A o \in Operand \ hist.lost : Desired(o, dc.spec, GetK8SNodes(dc.spec), host)

\* The status says that the current generation is processed, and nothing is
\* under way
Settled ==
  /\ dc.phase = "present" /\ dc.ready /\ dc.observed = dc.gen
  /\ pass.pc = "idle" /\ ~queued
  /\ \A d \in Counted : seen[d] = [obj |-> obj[d], pods |-> pods[d]]

\* When the status is Ready for the current generation and the queue is empty,
\* every operand is what the spec and the nodes of now render to, whatever was
\* edited during the passes and whichever calls failed in between.  There are two
\* exceptions: an operand that somebody deleted, for which no watch asks for a pass,
\* and a labeller that is switched off: where its lookup fails handleNodeLabeller
\* goes on, and Ready is published with the labeller still there.
ReadyMatches == Settled => AsDesired

\* A settled DeviceConfig with KMM has, for every node, a mapping for the kernel
\* it runs and the Dockerfile of the mapping; the image is that of the node's OS
\* unless a node of another OS runs the same kernel; and on a first install KMM
\* finds its version on every node, if the nodes have one default
\* (getKernelMappings, SetNodeVersionLabelAsDesired, handleBuildConfigMap).
DriverFits ==
  Settled /\ ShouldUseKMM(dc.spec) =>
    \A n \in dc.spec.selector :
      /\ \E m \in obj["module"].mappings :
           /\ m.kernel = host[n].kernel /\ m.os \in cms
           /\ (\A k \in dc.spec.selector : host[k].kernel = host[n].kernel
                                             => host[k].os = host[n].os)
                => m.os = host[n].os
      /\ (dc.gen = 1 /\ \A k \in dc.spec.selector :
             VersionFor(dc.spec, host[k].os) = VersionFor(dc.spec, host[n].os))
           => label[n] = obj["module"].version

\* Prometheus reaches the metrics of a settled DeviceConfig: Service, monitor
\* and exporter agree on the port and on the scheme, and the exporter and its
\* proxy do not bind the same port.
ScrapeReaches ==
  Settled /\ dc.spec.exporter /\ hist.lost = {} =>
    /\ obj["service"].port = obj["exporter"].port
    /\ dc.spec.monitor => /\ obj["monitor"].port = obj["exporter"].port
                          /\ obj["monitor"].https = obj["exporter"].https
    /\ obj["exporter"].proxied => obj["exporter"].internal # obj["exporter"].port

\* A generation is reported as processed only if it passed validation, or was
\* adopted, unseen, with the answer of setFinalizer (validateDeviceConfig,
\* setFinalizer).
ReadyValidated ==
  dc.observed # 0 => dc.observed \in hist.validated \cup hist.adopted

\* Nothing that uses the driver is left to run when the deletion of the Module is
\* requested (finalizeDeviceConfig: "the exporter is using processes that could
\* occupy the gpu driver").
DriverUsersGoneFirst ==
  [][~terminating /\ terminating' => \A d \in DaemonSets : obj[d] = Absent]_vars

\* A DeviceConfig that is gone leaves none of its operands but the Secret, and no
\* version label on the nodes it selected last, unless the pass that deleted
\* the Module ended before the labels were removed.
NothingLeft ==
  dc.phase = "gone" =>
    /\ \A o \in Operand \ {"secret"} : obj[o] = Absent
    /\ hist.cut \/ \A n \in dc.spec.selector : label[n] = ""

\* No pass can do what is asked: the spec is invalid, or a node has an OS for
\* which there is no Dockerfile
Blocked ==
  \/ ~ValidateDeviceConfigAll(dc.spec, exists)
  \/ ShouldUseKMM(dc.spec) /\ ~BuildOK(GetK8SNodes(dc.spec), host)

\* In the end a DeviceConfig is gone, if it was deleted, or Ready for its last
\* generation with the operands it asks for, unless it cannot be served.  As in
\* ReadyMatches, an operand somebody deleted and a labeller whose lookup failed may
\* be what they are for good: no request brings the pass that would mend them.
EventuallyReconciled ==
  <>[](\/ dc.phase = "gone"
       \/ dc.phase = "present" /\ Blocked
       \/ dc.phase = "present" /\ dc.ready /\ dc.observed = dc.gen /\ AsDesired)

\* The counters of the status come to be those of the DaemonSets again and again,
\* unless a pass wrote an old value over them or their update failed
\* (patchDeviceConfigNodeStatus, updateDeviceConfigStatus).
CountersFollow ==
  \A o \in Counted :
    []<>(dc.phase = "gone" \/ obj[o] = Absent \/ o \in hist.stale
         \/ dc.count[o] = pods[o])

---------------------------------------------------------------------------
\* The inductive invariant

\* The calls that end a pass
Last == {"publish", "release", "unlabel"}
Call ==
  [call : {"put", "remove", "configmaps", "label"} \cup Last, on : Operand]

\* A pass under way has its locals, and exactly the last of its calls ends it
PassInv ==
  pass.pc # "idle" =>
    /\ pass \in [pc : {"finalizer", "run"}, todo : Seq(Call), spec : Specs, gen : Nat \ {0},
                 count : [Counted -> 0 .. 1], nodes : SUBSET NodeSet, host : Hosts]
    /\ pass.todo # <<>>
    /\ \A i \in DOMAIN pass.todo : pass.todo[i].call \in Last <=> i = Len(pass.todo)

ToCome(c) == \E i \in DOMAIN pass.todo : pass.todo[i] = c
Pending(o) == ToCome(Put(o)) \/ ToCome(Remove(o))

\* The life of the DeviceConfig and the passes that can meet it
PhaseInv ==
  /\ dc.phase = "present" => ~terminating /\ (pass.pc # "idle" => Ends("publish"))
  /\ dc.phase = "deleting" => dc.finalizer
  /\ pass.pc = "run" => dc.finalizer /\ dc.phase # "gone"
  /\ pass.pc = "finalizer" => Ends("publish")
  /\ Ends("publish") => ~terminating
  /\ terminating => obj["module"] # Absent
  /\ Ends("release") \/ Ends("unlabel") => pass.spec = dc.spec
  /\ Ends("unlabel") => Running("unlabel")

\* What is still to be done by a pass that publishes serves its spec
CallsServe ==
  \A o \in Operand : /\ ToCome(Put(o)) => o \in Wanted(pass.spec) \cup {"secret"}
                     /\ ToCome(Remove(o)) => o \in Unwanted(pass.spec)

\* Version labels come after the Module, the Module after the ConfigMaps
LabelsLate ==
  \A i \in DOMAIN pass.todo : pass.todo[i].call = "label" =>
    obj["module"] # Absent \/ \E j \in 1 .. i - 1 : pass.todo[j] = Put("module")
BuildFirst ==
  \A i \in DOMAIN pass.todo : pass.todo[i] = Put("module") =>
    \/ BuildOK(pass.nodes, pass.host)
    \/ \E j \in 1 .. i - 1 : pass.todo[j].call = "configmaps"

CallsFit == Ends("publish") => CallsServe /\ LabelsLate /\ BuildFirst

\* Without a request in the queue a pass works on what is there now, and what is
\* not among its calls is as it should be or not known to it
Current ==
  dc.phase = "present" /\ pass.pc # "idle" /\ ~queued =>
    /\ pass.gen = dc.gen /\ pass.spec = dc.spec /\ pass.nodes = GetK8SNodes(dc.spec)
    /\ pass.host = host
    /\ \A o \in Operand \ hist.lost :
         Pending(o) \/ Desired(o, pass.spec, pass.nodes, pass.host)

\* What a pass that finalizes has not removed yet is among its calls
Removing ==
  Ends("release") =>
    /\ \A i \in DOMAIN pass.todo : pass.todo[i].call \in {"remove", "release"}
    /\ ~ToCome(Remove("module"))
    /\ \A o \in Operand \ {"secret", "module"} : obj[o] = Absent \/ ToCome(Remove(o))

\* Nothing is created before the finalizer is set, and no version label is set
\* before the Module is created
Untouched ==
  /\ dc.phase = "present" /\ ~dc.finalizer => \A o \in Operand : obj[o] = Absent
  /\ (dc.phase = "present" \/ Ends("publish")) /\ obj["module"] = Absent =>
       \A n \in NodeSet : label[n] = ""

\* Once the Module goes, the labels of the selected nodes are gone, or will be by
\* the end of the pass
Unlabelling ==
  dc.phase = "deleting" /\ (terminating \/ obj["module"] = Absent) =>
    \/ hist.cut \/ Running("unlabel")
    \/ \A n \in dc.spec.selector : label[n] = ""

\* With nothing under way Ready means served, but for what no pass knows of
Served ==
  dc.phase = "present" /\ dc.ready /\ dc.observed = dc.gen /\ pass.pc = "idle" /\ ~queued
    => AsDesired

\* The generation of a pass was validated or adopted
Vetted == Ends("publish") => pass.gen \in hist.validated \cup hist.adopted

OperandsInv ==
  /\ TypeOK /\ PassInv /\ PhaseInv /\ CallsFit /\ Current /\ Removing /\ Untouched
  /\ Unlabelling /\ Served /\ Vetted /\ ReadyValidated /\ NothingLeft

---------------------------------------------------------------------------
\* What DriverFits needs beyond it

\* A host keeps its OS, whatever kernel it boots
SameOS ==
  \A n \in NodeSet : /\ host[n].os = OSOf[n]
                     /\ pass.pc # "idle" => pass.host[n].os = OSOf[n]

Built(nodes, h) == BuildOK(nodes, h) /\ BuildConfigMaps(nodes, h) \subseteq cms

\* A pass that is past handleBuildConfigMap has its ConfigMaps, and so has a
\* DeviceConfig that is served
BuildInv ==
  /\ Ends("publish") /\ ShouldUseKMM(pass.spec) =>
       ToCome(Do("configmaps")) \/ Built(pass.nodes, pass.host)
  /\ /\ dc.phase = "present" /\ dc.ready /\ dc.observed = dc.gen /\ pass.pc = "idle"
     /\ ~queued /\ ShouldUseKMM(dc.spec)
     => Built(GetK8SNodes(dc.spec), host)

\* The versions a first install can put on the nodes
Versions == {VersionFor(dc.spec, OSOf[k]) : k \in GetK8SNodes(dc.spec)}

\* On a first install every pass is about one spec and one set of nodes, and the
\* labels it leaves are versions of that spec
FirstInstall ==
  dc.gen = 1 =>
    /\ pass.pc # "idle" => pass.spec = dc.spec /\ pass.nodes = GetK8SNodes(dc.spec)
    /\ dc.phase = "present" =>
         \A n \in GetK8SNodes(dc.spec) :
           /\ label[n] \in {""} \cup Versions
           /\ /\ ShouldUseKMM(dc.spec)
              /\ dc.observed = 1 \/ (Ends("publish") /\ ~ToCome(Do("label")))
              => label[n] \in Versions

DriverInv == "module" \notin hist.lost /\ SameOS /\ BuildInv /\ FirstInstall
====
