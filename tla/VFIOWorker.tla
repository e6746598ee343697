----------------------------- MODULE VFIOWorker -----------------------------
(***************************************************************************)
(* Binding GPUs to vfio-pci for passthrough to virtual machines            *)
(* (internal/controllers/workermgr/workermgr.go, watchers/node.go,         *)
(* watchers/pod.go and the end of finalizeDeviceConfig).                   *)
(*                                                                         *)
(* Three goroutines work on the same nodes and talk only through labels    *)
(* and pods.  The reconciler puts the driver type label on the nodes of a  *)
(* DeviceConfig and takes it away when the DeviceConfig is deleted.  The   *)
(* node watcher compares that label with the ready label and starts a      *)
(* worker pod that binds or unbinds the devices; after a reboot it removes *)
(* the ready label.  The pod watcher sets or removes the ready label when  *)
(* a worker has succeeded and deletes the pod.  Both watchers handle an    *)
(* event once: what fails is logged and not tried again.                   *)
(*                                                                         *)
(* Watch events are kept in queues, so that each watcher acts on what the  *)
(* object was when the event was sent.  Nodes reboot, pods are evicted,    *)
(* API calls fail and the operator restarts between any two steps.  Reads  *)
(* go to the API server: the lag of the cache is left out.                 *)
(***************************************************************************)
EXTENDS Naturals, Sequences

CONSTANTS
  Nodes,           \* the nodes the DeviceConfig selects
  None,            \* no node, no pod
  DriverTypes,     \* values of spec.driver.driverType to look at
  \* What may happen in the model, and its bounds
  MaxReboots,      \* reboots of a node
  Disturbances,    \* kinds of disturbances, of those in AllDisturbances
  MaxDisturbances  \* ... in all

VARIABLES
  driverType, \* API server: spec.driver.driverType
  dc,         \* API server: the DeviceConfig
  module,     \* API server: the Module of KMM
  node,       \* API server: the labels of the nodes; boots and bindings of the hosts
  pod,        \* API server: the worker pod of each node
  nodeq,      \* updates of nodes the node watcher has not handled
  podq,       \* updates of worker pods the pod watcher has not handled
  handler,    \* node whose worker pod the pod watcher is about to delete
  pass,       \* the locals of Reconcile
  slipped,    \* history: nodes for which a request was lost
  used        \* disturbances so far

vars == <<driverType, dc, module, node, pod, nodeq, podq, handler, pass, slipped, used>>

AllDisturbances == {"restart", "delete", "fault", "evict", "resync", "touch"}

ASSUME VFIOAssumption ==
  /\ None \notin Nodes
  /\ DriverTypes \subseteq {"vf-passthrough", "pf-passthrough", "container"}
  /\ MaxReboots \in Nat /\ MaxDisturbances \in Nat
  /\ Disturbances \subseteq AllDisturbances

\* typed, ready: the driver type and the VFIO ready label.  vfs: the virtual
\* functions exist.  bound: the devices are bound to vfio-pci.
Node == [boot : 0 .. MaxReboots, typed : BOOLEAN, ready : BOOLEAN, vfs : BOOLEAN,
         bound : BOOLEAN]
Actions == {"load", "unload"}
\* boot: the boot of the node in which the worker has done its work
Pod == [action : Actions, phase : {"Running", "Succeeded", "Failed"},
        boot : 0 .. MaxReboots]
NoPod == [action |-> "load", phase |-> "None", boot |-> 0]
NodeEvent == [typed : BOOLEAN, ready : BOOLEAN, rebooted : BOOLEAN]
Pass == [pc : {"idle", "handle", "finalize", "check"}, ready : SUBSET Nodes,
         todo : SUBSET Nodes]
IdlePass == [pc |-> "idle", ready |-> {}, todo |-> {}]

Init ==
  /\ driverType \in DriverTypes
  /\ dc = "present" /\ module = "absent"
  /\ node = [n \in Nodes |-> [boot |-> 0, typed |-> FALSE, ready |-> FALSE,
                              vfs |-> FALSE, bound |-> FALSE]]
  /\ pod = [n \in Nodes |-> NoPod]
  /\ nodeq = [n \in Nodes |-> <<>>] /\ podq = [n \in Nodes |-> <<>>]
  /\ handler = None /\ pass = IdlePass
  /\ slipped = {} /\ used = 0

Disturb(kind) ==
  /\ kind \in Disturbances /\ used < MaxDisturbances
  /\ used' = used + 1

Passthrough == driverType \in {"vf-passthrough", "pf-passthrough"}
ShouldUseKMM == driverType # "pf-passthrough"

\* Mutant: the predicate does not look at the boot
UpdateOfLabels(old, new) ==
  IF old.typed # new.typed \/ old.ready # new.ready
  THEN <<[typed |-> new.typed, ready |-> new.ready, rebooted |-> old.boot # new.boot]>>
  ELSE <<>>

\* What the predicate of the node watch lets through: new labels, a new boot
Update(old, new) ==
  IF old.boot # new.boot \/ old.typed # new.typed \/ old.ready # new.ready
  THEN <<[typed |-> new.typed, ready |-> new.ready, rebooted |-> old.boot # new.boot]>>
  ELSE <<>>

\* The nodes become new, q are the events the watcher had left
Patch(new, q) ==
  /\ node' = new
  /\ nodeq' = [n \in Nodes |-> q[n] \o Update(node[n], new[n])]

Label(n, ready) == [node EXCEPT ![n].ready = ready]
Slip(ns) == slipped' = slipped \cup ns

---------------------------------------------------------------------------
\* The reconciler

PassStart ==
  /\ pass.pc = "idle" /\ dc # "gone"
  /\ pass' = [pc    |-> IF dc = "deleting" THEN "finalize" ELSE "handle",
              ready |-> {n \in Nodes : node[n].ready},
              todo  |-> Nodes]
  /\ UNCHANGED <<dc, module, node, pod, nodeq, slipped, used>>

AllTyped(done, typed) == \A n \in Nodes \ done : node[n].typed = typed

\* UpdateDriverTypeNodeLabel patches the nodes in done and fails for the others
UpdateDriverTypeNodeLabel(done, typed) ==
  /\ IF AllTyped(done, typed) THEN UNCHANGED used ELSE Disturb("fault")
  /\ Patch([n \in Nodes |-> IF n \in done THEN [node[n] EXCEPT !.typed = typed] ELSE node[n]],
           nodeq)

HandleKMMModule(done) ==
  /\ pass.pc = "handle"
  /\ UpdateDriverTypeNodeLabel(done, TRUE)
  /\ module' = IF AllTyped(done, TRUE) /\ ShouldUseKMM /\ module = "absent"
               THEN "present" ELSE module
  /\ pass' = IdlePass
  /\ UNCHANGED <<dc, pod, slipped>>

\* The part of finalizeDeviceConfig that is about drivers: no driver type label,
\* then no Module, then no trace of the workers, then no finalizer
FinalizeLabels(done) ==
  /\ pass.pc = "finalize"
  /\ UpdateDriverTypeNodeLabel(done, FALSE)
  /\ IF AllTyped(done, FALSE)
     THEN /\ module' = IF module = "absent" THEN "absent" ELSE "deleting"
          /\ pass' = IF module = "absent" THEN [pass EXCEPT !.pc = "check"] ELSE IdlePass
     ELSE pass' = IdlePass /\ UNCHANGED module
  /\ UNCHANGED <<dc, pod, slipped>>

ForceCleanup == driverType = "vf-passthrough"

\* checkPostProcessFinalizeCondition at a node of the list: the ready label as it
\* was when the nodes were listed, the pod as it is now.  A node that is not done
\* ends the pass with an error.
CheckNode(n) ==
  /\ pass.pc = "check" /\ Passthrough /\ n \in pass.todo
  /\ \/ /\ n \in pass.ready
        /\ Patch(IF ForceCleanup THEN Label(n, FALSE) ELSE node, nodeq)
        /\ pass' = IdlePass /\ UNCHANGED pod
     \/ /\ n \notin pass.ready /\ pod[n] # NoPod
        /\ pod' = IF ForceCleanup THEN [pod EXCEPT ![n] = NoPod] ELSE pod
        /\ pass' = IdlePass /\ UNCHANGED <<node, nodeq>>
     \/ /\ n \notin pass.ready /\ pod[n] = NoPod
        /\ pass' = [pass EXCEPT !.todo = @ \ {n}]
        /\ UNCHANGED <<node, pod, nodeq>>
  /\ UNCHANGED <<dc, module, slipped, used>>

\* Mutant: the finalizer goes with the Module
RemoveFinalizerUnchecked ==
  /\ pass.pc = "check"
  /\ dc' = "gone" /\ pass' = IdlePass
  /\ UNCHANGED <<module, node, pod, nodeq, slipped, used>>

RemoveFinalizer ==
  /\ pass.pc = "check" /\ (Passthrough => pass.todo = {})
  /\ dc' = "gone" /\ pass' = IdlePass
  /\ UNCHANGED <<module, node, pod, nodeq, slipped, used>>

Reconcile ==
  /\ \/ PassStart \/ RemoveFinalizer
     \/ \E done \in SUBSET Nodes : HandleKMMModule(done) \/ FinalizeLabels(done)
     \/ \E n \in Nodes : CheckNode(n)
  /\ UNCHANGED <<driverType, podq, handler>>

---------------------------------------------------------------------------
\* The node watcher

\* CreateOrPatch leaves a pod of that name alone, whatever it was made for.  The
\* request is lost on a pod that has ended or does the opposite, and the
\* reconciler does not wait for a worker on a node it has checked.
CreateWorker(n, action) ==
  /\ pod' = IF pod[n] = NoPod
            THEN [pod EXCEPT ![n] = [action |-> action, phase |-> "Running",
                                     boot |-> node[n].boot]]
            ELSE pod
  /\ Slip({m \in {n} :
             \/ pod[m] # NoPod /\ (pod[m].action # action \/ pod[m].phase # "Running")
             \/ pass.pc = "check" /\ m \notin pass.todo})

\* Mutants: whatever the driver type; a driver type forgotten
WorkAlways(n) == CreateWorker(n, "load")
WorkVF(n) ==
  IF driverType = "vf-passthrough" THEN CreateWorker(n, "load") ELSE UNCHANGED <<pod, slipped>>
CleanupVF(n) ==
  IF driverType = "vf-passthrough" THEN CreateWorker(n, "unload") ELSE UNCHANGED <<pod, slipped>>

\* Work and Cleanup, when the driver type is one of the two for passthrough
Work(n) == IF Passthrough THEN CreateWorker(n, "load") ELSE UNCHANGED <<pod, slipped>>
Cleanup(n) == IF Passthrough THEN CreateWorker(n, "unload") ELSE UNCHANGED <<pod, slipped>>

\* handlePostProcess, for the oldest event of a node
HandlePostProcess(n) ==
  LET e == Head(nodeq[n])
      rest == [nodeq EXCEPT ![n] = Tail(@)]
  IN /\ nodeq[n] # <<>>
     /\ \/ /\ e.typed /\ ~e.ready /\ dc # "gone"
           /\ Work(n) /\ Patch(node, rest)
        \/ /\ ~e.typed /\ e.ready /\ dc # "gone"
           /\ Cleanup(n) /\ Patch(node, rest)
        \/ /\ e.typed = e.ready /\ e.rebooted /\ e.ready
           /\ Patch(Label(n, FALSE), rest) /\ UNCHANGED pod
           \* a worker has bound the devices again since the reboot
           /\ Slip({m \in {n} : node[m].bound})
        \/ /\ \/ e.typed # e.ready /\ dc = "gone"
              \/ e.typed = e.ready /\ ~(e.rebooted /\ e.ready)
           /\ Patch(node, rest) /\ UNCHANGED <<pod, slipped>>
     /\ UNCHANGED <<driverType, dc, module, podq, handler, pass, used>>

\* The Get of the DeviceConfig, the Create of the pod or the patch fails
HandlePostProcessFails(n) ==
  /\ nodeq[n] # <<>> /\ Disturb("fault")
  /\ Patch(node, [nodeq EXCEPT ![n] = Tail(@)])
  /\ Slip({n})
  /\ UNCHANGED <<driverType, dc, module, pod, podq, handler, pass>>

---------------------------------------------------------------------------
\* The pod watcher

\* handleWorkerMgrPodEvt up to the deletion of the pod
HandleWorkerMgrPodEvt(n) ==
  LET e == Head(podq[n]) IN
  /\ handler = None /\ podq[n] # <<>>
  /\ podq' = [podq EXCEPT ![n] = Tail(@)]
  /\ \/ /\ e.phase = "Succeeded" /\ UNCHANGED used
        /\ Patch(Label(n, e.action = "load"), nodeq)
        \* the devices were bound before the last reboot, or the reconciler has
        \* listed the nodes for the last time
        /\ Slip({m \in {n} : /\ e.action = "load"
                            /\ \/ e.boot # node[m].boot \/ dc = "gone"
                               \/ pass.pc \in {"finalize", "check"}})
     \/ /\ e.phase = "Succeeded" /\ Disturb("fault")
        /\ Slip({n}) /\ UNCHANGED <<node, nodeq>>
     \/ /\ e.phase = "Failed"
        /\ Slip({n}) /\ UNCHANGED <<node, nodeq, used>>
  /\ handler' = n
  /\ UNCHANGED <<driverType, dc, module, pod, pass>>

\* ... which goes by the name of the pod, and may hit a newer one.  A pod that has
\* ended is gone at once.  The grace period of a newer one that still runs is left
\* out: its node counts as slipped.
DeleteWorker ==
  /\ handler # None
  /\ \/ /\ pod' = [pod EXCEPT ![handler] = NoPod] /\ UNCHANGED used
        /\ Slip({n \in {handler} : pod[n].phase = "Running" \/ podq[n] # <<>>})
     \/ /\ Disturb("fault") /\ UNCHANGED pod /\ Slip({handler})
  /\ handler' = None
  /\ UNCHANGED <<driverType, dc, module, node, nodeq, podq, pass>>

---------------------------------------------------------------------------
\* Kubelet, KMM, the garbage collector, hosts and users

Report(n, p) ==
  /\ pod' = [pod EXCEPT ![n] = p]
  /\ podq' = [podq EXCEPT ![n] = Append(@, p)]

\* The script ends.  Loading waits for the virtual functions in an init container.
WorkerSucceeds(n) ==
  /\ pod[n].phase = "Running"
  /\ pod[n].action = "load" /\ driverType = "vf-passthrough" => node[n].vfs
  /\ Report(n, [pod[n] EXCEPT !.phase = "Succeeded", !.boot = node[n].boot])
  /\ node' = [node EXCEPT ![n].bound = pod[n].action = "load"]
  /\ UNCHANGED <<driverType, dc, module, nodeq, handler, pass, slipped, used>>

\* The container is restarted when the script fails; a pod fails when it is evicted
WorkerEvicted(n) ==
  /\ pod[n].phase = "Running" /\ Disturb("evict")
  /\ Report(n, [pod[n] EXCEPT !.phase = "Failed"])
  /\ UNCHANGED <<driverType, dc, module, node, nodeq, handler, pass, slipped>>

\* The informer sends what it has once more
PodResync(n) ==
  /\ pod[n] # NoPod /\ pod[n].phase # "Running" /\ Disturb("resync")
  /\ Report(n, pod[n])
  /\ UNCHANGED <<driverType, dc, module, node, nodeq, handler, pass, slipped>>

\* The pod goes with its owner
CollectWorker(n) ==
  /\ dc = "gone" /\ pod[n] # NoPod
  /\ pod' = [pod EXCEPT ![n] = NoPod]
  /\ UNCHANGED <<driverType, dc, module, node, nodeq, podq, handler, pass, slipped, used>>

\* The GIM driver brings the virtual functions up
ModuleLoads(n) ==
  /\ driverType = "vf-passthrough" /\ module = "present" /\ ~node[n].vfs
  /\ node' = [node EXCEPT ![n].vfs = TRUE]
  /\ UNCHANGED <<driverType, dc, module, pod, nodeq, podq, handler, pass, slipped, used>>

\* ... and takes them away
ModuleUnloads ==
  /\ module = "deleting"
  /\ module' = "absent"
  /\ node' = [n \in Nodes |-> [node[n] EXCEPT !.vfs = FALSE, !.bound = FALSE]]
  /\ UNCHANGED <<driverType, dc, pod, nodeq, podq, handler, pass, slipped, used>>

Reboot(n) ==
  /\ node[n].boot < MaxReboots
  /\ Patch([node EXCEPT ![n].boot = @ + 1, ![n].vfs = FALSE, ![n].bound = FALSE], nodeq)
  /\ UNCHANGED <<driverType, dc, module, pod, podq, handler, pass, slipped, used>>

\* Something else of the node changes: another label, a taint
Touch(n) ==
  /\ Disturb("touch")
  /\ nodeq' = [nodeq EXCEPT ![n] = Append(@, [typed |-> node[n].typed,
                                              ready |-> node[n].ready, rebooted |-> FALSE])]
  /\ UNCHANGED <<driverType, dc, module, node, pod, podq, handler, pass, slipped>>

DeleteDeviceConfig ==
  /\ dc = "present" /\ Disturb("delete")
  /\ dc' = "deleting"
  /\ UNCHANGED <<driverType, module, node, pod, nodeq, podq, handler, pass, slipped>>

\* The watches begin with what there is, as Create events, for which neither
\* watcher does anything about VFIO
Restart ==
  /\ Disturb("restart")
  /\ nodeq' = [n \in Nodes |-> <<>>] /\ podq' = [n \in Nodes |-> <<>>]
  /\ handler' = None /\ pass' = IdlePass
  /\ Slip({n \in Nodes : nodeq[n] # <<>> \/ podq[n] # <<>> \/ handler = n})
  /\ UNCHANGED <<driverType, dc, module, node, pod>>

NodeWatcher == \E n \in Nodes : HandlePostProcess(n)
PodWatcher == DeleteWorker \/ \E n \in Nodes : HandleWorkerMgrPodEvt(n)
Cluster ==
  \/ ModuleUnloads
  \/ \E n \in Nodes : WorkerSucceeds(n) \/ CollectWorker(n) \/ ModuleLoads(n)

Next ==
  \/ Reconcile \/ NodeWatcher \/ PodWatcher \/ Cluster
  \/ DeleteDeviceConfig \/ Restart
  \/ \E n \in Nodes : \/ HandlePostProcessFails(n) \/ WorkerEvicted(n) \/ PodResync(n)
                      \/ Reboot(n) \/ Touch(n)

Spec == Init /\ [][Next]_vars

\* Every pass that ends in an error is followed by another, an enabled watcher
\* handles its events in order, kubelet and KMM do what they are asked to
Fairness ==
  /\ WF_vars(Reconcile) /\ WF_vars(PodWatcher) /\ WF_vars(ModuleUnloads)
  /\ \A n \in Nodes : /\ WF_vars(HandlePostProcess(n)) /\ WF_vars(CollectWorker(n))
                      /\ SF_vars(WorkerSucceeds(n)) /\ SF_vars(ModuleLoads(n))

FairSpec == Spec /\ Fairness

---------------------------------------------------------------------------
\* Properties

\* Labels, pods, queued events and the locals of the three goroutines keep their
\* types, and a worker exists for the two passthrough types only.
TypeOK ==
  /\ driverType \in DriverTypes
  /\ dc \in {"present", "deleting", "gone"} /\ module \in {"absent", "present", "deleting"}
  /\ node \in [Nodes -> Node]
  /\ pod \in [Nodes -> Pod \cup {NoPod}]
  /\ nodeq \in [Nodes -> Seq(NodeEvent)] /\ podq \in [Nodes -> Seq(Pod)]
  /\ handler \in Nodes \cup {None} /\ pass \in Pass
  /\ slipped \subseteq Nodes /\ used \in Nat
  /\ \A n \in Nodes : pod[n] # NoPod \/ podq[n] # <<>> => Passthrough

Items(q) == {q[i] : i \in DOMAIN q}

\* The ready label of n is about to be taken back: the node watcher has the
\* reboot, or the wish to unbind, still before it, or an unloading worker is on
\* its way
Retracting(n) ==
  \/ \E e \in Items(nodeq[n]) : e.rebooted \/ (e.ready /\ ~e.typed)
  \/ pod[n].phase # "None" /\ pod[n].action = "unload"
  \/ \E e \in Items(podq[n]) : e.action = "unload"

\* A node that is labelled ready has its devices bound to vfio-pci
\* (AddWorkReadyLabel, handlePostProcess), or the label is about to go, unless a
\* request for it was lost or the virtual functions go with their driver.
ReadyBacked ==
  \A n \in Nodes : node[n].ready /\ ~node[n].bound =>
    n \in slipped \/ Retracting(n) \/ (driverType = "vf-passthrough" /\ module # "present")

\* When the finalizer is gone no ready label and no binding is left behind
\* (checkPostProcessFinalizeCondition), unless a request was lost or a label was
\* set behind the back of the last pass.
FinalizedClean ==
  dc = "gone" => \A n \in Nodes : n \in slipped \/ ~(node[n].ready \/ node[n].bound)

\* With the driver type label on it, a node is bound and labelled in the end, also
\* after reboots, unless a request for it was lost.
EventuallyBound ==
  Passthrough => \A n \in Nodes :
    <>[](dc # "present" \/ n \in slipped \/ (node[n].ready /\ node[n].bound))

\* A deleted DeviceConfig goes: the workers that finalizeDeviceConfig waits for
\* are started and end, unless a request was lost.
EventuallyFinalized == dc = "deleting" ~> dc = "gone" \/ slipped # {}

---------------------------------------------------------------------------
\* The inductive invariant

\* The virtual functions of n come from a driver that is not there
Driverless == driverType = "vf-passthrough" /\ module # "present"

Unloading(n) == pod[n] # NoPod /\ pod[n].action = "unload"
Ended(n) == pod[n].phase \in {"Succeeded", "Failed"}
Loaded(p) == p.action = "load" /\ p.phase = "Succeeded"

\* The life of the DeviceConfig and its Module
LifeInv ==
  /\ pass.pc \in {"finalize", "check"} => dc = "deleting"
  /\ pass.pc = "finalize" => pass.todo = Nodes
  /\ pass.pc = "check" => module = "absent"
  /\ pass.pc = "handle" => dc # "gone"
  /\ module = "deleting" => dc # "present" /\ pass.pc # "handle"
  /\ driverType = "pf-passthrough" => module = "absent"

\* Without the driver of the virtual functions nothing is bound; before it was
\* there for the first time nothing was
DriverInv(n) ==
  /\ ~Passthrough => ~node[n].ready /\ ~node[n].bound
  /\ driverType = "vf-passthrough" /\ module = "absent" =>
       /\ ~node[n].vfs /\ ~node[n].bound
       /\ dc = "present" \/ pass.pc = "handle" =>
            /\ ~node[n].ready /\ ~Loaded(pod[n])
            /\ \A e \in Items(podq[n]) : ~Loaded(e)

\* A worker has worked in a boot there was
BootInv(n) ==
  /\ pod[n].boot <= node[n].boot
  /\ \A e \in Items(podq[n]) : e.boot <= node[n].boot

\* The end of a worker is the last news of it
NewsInv(n) ==
  /\ \A e \in Items(podq[n]) : e.phase # "Running"
  /\ Ended(n) /\ podq[n] # <<>> => podq[n][Len(podq[n])] = pod[n]
  /\ Ended(n) /\ pod[n].action = "unload" /\ pod[n].phase = "Succeeded" => ~node[n].bound

\* ... and once it was handled the label agrees
HandledInv(n) ==
  Ended(n) /\ podq[n] = <<>> =>
    /\ handler = n
    /\ IF pod[n].action = "unload" THEN ~node[n].ready
       ELSE node[n].ready \/ ~node[n].bound

\* A physical function is bound without a label only until its worker is handled
PfInv(n) ==
  driverType = "pf-passthrough" =>
    /\ \A e \in Items(podq[n]) : e = pod[n]
    /\ node[n].bound /\ ~node[n].ready => Loaded(pod[n])

\* The label to come is backed, or will be taken back
LoadInv(n) ==
  \A e \in Items(podq[n]) \cup {pod[n]} :
    Loaded(e) /\ e.boot = node[n].boot => node[n].bound \/ Unloading(n) \/ Driverless

\* ... and so is the label that is there
ReadyInv(n) ==
  node[n].ready /\ ~node[n].bound =>
    \/ Unloading(n) \/ Driverless
    \/ \E e \in Items(nodeq[n]) : e.ready /\ (e.rebooted \/ ~e.typed)

\* What finalizeDeviceConfig has seen of a node stays so
CheckInv(n) ==
  /\ pass.pc \in {"finalize", "check"} /\ n \notin pass.ready => ~node[n].ready
  /\ \/ dc = "gone"
     \/ pass.pc = "check" /\ Passthrough /\ n \notin pass.todo
     => pod[n] = NoPod /\ ~node[n].ready /\ ~node[n].bound

VFIOInv ==
  /\ TypeOK /\ LifeInv
  /\ \A n \in Nodes : DriverInv(n) /\ BootInv(n) /\ NewsInv(n)
  /\ \A n \in Nodes \ slipped :
       HandledInv(n) /\ PfInv(n) /\ LoadInv(n) /\ ReadyInv(n) /\ CheckInv(n)
====
