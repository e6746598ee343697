--------------------------- MODULE NodeAssignment ---------------------------
(***************************************************************************)
(* Which DeviceConfig owns which node: the life of DeviceConfigs under     *)
(* Reconcile (internal/controllers/device_config_reconciler.go).           *)
(*                                                                         *)
(* The reconciler keeps an in-memory map from nodes to DeviceConfigs.  A   *)
(* pass refuses a DeviceConfig that selects a node of another one; it      *)
(* enters the nodes of an accepted one only at its very end, after the KMM *)
(* Module was applied and the status published.  Finalizing a DeviceConfig *)
(* gives its nodes back when the deletion of its Module is requested.  A   *)
(* restarted operator rebuilds the map, once, from the published status of *)
(* the DeviceConfigs that are Ready.                                       *)
(*                                                                         *)
(* One worker runs the passes, so they do not overlap, but users delete,   *)
(* create and relabel, the operator fails and restarts between any two     *)
(* API calls of a pass.                                                    *)
(***************************************************************************)
EXTENDS Naturals

CONSTANTS
  DCs,          \* names of DeviceConfigs
  Nodes,        \* worker nodes
  None,         \* no DeviceConfig
  Managed,      \* DeviceConfigs that have the driver managed through KMM
  \* What may happen in the model
  CanDelete,    \* users delete DeviceConfigs
  CanRelabel,   \* node labels or selectors change
  CanRestart,   \* the operator restarts
  CanFail       \* API calls fail and specs are found invalid

VARIABLES
  dc,           \* API server: DeviceConfigs, their KMM Modules, the nodes they select
  assign,       \* nodeAssignments, lost on restart
  init,         \* once and initErr, lost on restart
  pass,         \* the pass under way, lost on restart
  stolen        \* history: a finalized DeviceConfig gave away a node of another one

vars == <<dc, assign, init, pass, stolen>>

ASSUME AssignmentAssumption ==
  /\ None \notin DCs
  /\ Managed \subseteq DCs
  /\ {CanDelete, CanRelabel, CanRestart, CanFail} \subseteq BOOLEAN

\* ready: the Ready condition is True.  status: the nodes nodeModuleStatus
\* names.  selected: the nodes the selector matches now.
DeviceConfig == [phase : {"absent", "present", "deleting"}, finalizer : BOOLEAN,
                 module : {"none", "active", "terminating"},
                 ready : BOOLEAN, status : SUBSET Nodes, selected : SUBSET Nodes]
NoDeviceConfig == [phase |-> "absent", finalizer |-> FALSE, module |-> "none",
                   ready |-> FALSE, status |-> {}, selected |-> {}]

\* nodes: the node list the pass read at its start
Pass == [pc : {"idle", "apply", "publish", "assign"}, dc : DCs \cup {None},
         nodes : SUBSET Nodes]
NoPass == [pc |-> "idle", dc |-> None, nodes |-> {}]

Init ==
  /\ dc = [d \in DCs |-> NoDeviceConfig]
  /\ assign = [n \in Nodes |-> None]
  /\ init = "todo"
  /\ pass = NoPass
  /\ stolen = FALSE

---------------------------------------------------------------------------
\* The map

\* Mutant: its own nodes count as taken
NoneEntered(d, nodes) == \A n \in nodes : assign[n] = None

\* Mutant: one free node is enough
SomeFree(d, nodes) == nodes = {} \/ \E n \in nodes : assign[n] \in {d, None}

\* validateNodeAssignments: no node is entered for another DeviceConfig
AllFree(d, nodes) == \A n \in nodes : assign[n] \in {d, None}

\* Mutant: only entries that exist are overwritten
AssignedIfForeign(d, nodes) ==
  [n \in Nodes |-> IF n \in nodes /\ assign[n] # None THEN d ELSE assign[n]]

\* updateNodeAssignments at the end of a pass
Assigned(d, nodes) == [n \in Nodes |-> IF n \in nodes THEN d ELSE assign[n]]

\* ... when the DeviceConfig is not found any more: all its own entries
ReleasedOwn(d) == [n \in Nodes |-> IF assign[n] = d THEN None ELSE assign[n]]

\* Mutant: the map has entries of the remaining nodes only
ReleasedDomain(nodes) == [n \in Nodes \ nodes |-> assign[n]]

\* ... when it is finalized: the entries of the nodes, whoever they belong to
ReleasedNodes(nodes) == [n \in Nodes |-> IF n \in nodes THEN None ELSE assign[n]]

\* The DeviceConfigs buildNodeAssignments enters for n
ReadyOn(n) == {d \in DCs : dc[d].ready /\ n \in dc[d].status}

\* Mutant: the nodes selected now count, not the published ones
OverlapSelected ==
  \E d, e \in DCs : /\ d # e /\ dc[d].ready /\ dc[e].ready
                    /\ dc[d].selected \cap dc[e].selected # {}

\* buildNodeAssignments reports two DeviceConfigs for one node
Overlap == \E n \in Nodes : \E d, e \in ReadyOn(n) : d # e

---------------------------------------------------------------------------
\* Reconcile

\* A pass may go ahead: the one initialisation was a success
Serving == pass.pc = "idle" /\ init = "ok"

\* init, run by the first pass after a start.  An error stays: every later
\* pass returns it at once, and the map is of no more use.
RunInit ==
  /\ pass.pc = "idle" /\ init = "todo"
  /\ \/ /\ ~Overlap
        /\ init' = "ok"
        /\ assign' = [n \in Nodes |->
                        IF ReadyOn(n) = {} THEN None
                        ELSE CHOOSE d \in DCs : d \in ReadyOn(n)]
     \/ Overlap /\ init' = "conflict" /\ UNCHANGED assign
     \/ CanFail /\ init' = "failed" /\ UNCHANGED assign
  /\ UNCHANGED <<dc, pass, stolen>>

\* initErr: nothing but the error is returned, again and again
InitError ==
  pass.pc = "idle" /\ init \in {"conflict", "failed"} /\ UNCHANGED vars

\* The DeviceConfig of the request is gone
NotFound(d) ==
  /\ Serving /\ dc[d].phase = "absent"
  /\ assign' = ReleasedOwn(d)
  /\ UNCHANGED <<dc, init, pass, stolen>>

\* The pass ends in a validation error: Ready becomes False, unless the status
\* update fails too
Refuse(d) ==
  /\ Serving /\ dc[d].phase = "present"
  /\ ~AllFree(d, dc[d].selected) \/ CanFail
  /\ \/ dc' = [dc EXCEPT ![d].ready = FALSE]
     \/ CanFail /\ UNCHANGED dc
  /\ UNCHANGED <<assign, init, pass, stolen>>

\* Node list, both validations, setFinalizer
Accept(d) ==
  /\ Serving /\ dc[d].phase = "present"
  /\ AllFree(d, dc[d].selected)
  /\ dc' = [dc EXCEPT ![d].finalizer = TRUE]
  /\ pass' = [pc |-> "apply", dc |-> d, nodes |-> dc[d].selected]
  /\ UNCHANGED <<assign, init, stolen>>

\* handleKMMModule, where the driver is managed
ApplyModule ==
  /\ pass.pc = "apply"
  /\ dc' = [dc EXCEPT ![pass.dc].module = IF pass.dc \in Managed THEN "active" ELSE @]
  /\ pass' = [pass EXCEPT !.pc = "publish"]
  /\ UNCHANGED <<assign, init, stolen>>

\* buildDeviceConfigStatus and updateDeviceConfigStatus; the nodes are those of
\* the node list read at the start
Publish ==
  /\ pass.pc = "publish"
  /\ dc' = [dc EXCEPT ![pass.dc] = [@ EXCEPT !.ready = TRUE, !.status = pass.nodes]]
  /\ pass' = [pass EXCEPT !.pc = "assign"]
  /\ UNCHANGED <<assign, init, stolen>>

\* updateNodeAssignments, after the status update
AssignNodes ==
  /\ pass.pc = "assign"
  /\ assign' = Assigned(pass.dc, pass.nodes)
  /\ pass' = NoPass
  /\ UNCHANGED <<dc, init, stolen>>

\* One of the handlers or the status update fails: the pass ends there
PassFails ==
  /\ CanFail /\ pass.pc \in {"apply", "publish"}
  /\ pass' = NoPass
  /\ UNCHANGED <<dc, assign, init, stolen>>

\* finalizeDeviceConfig finds the KMM Module, terminating already or not:
\* delete it (again) and give the selected nodes back
FinalizeModule(d) ==
  /\ Serving /\ dc[d].phase = "deleting" /\ dc[d].module # "none"
  /\ dc' = [dc EXCEPT ![d].module = "terminating"]
  /\ assign' = ReleasedNodes(dc[d].selected)
  /\ stolen' = (stolen \/ ~AllFree(d, dc[d].selected))
  /\ UNCHANGED <<init, pass>>

\* Mutant: a Module that is terminating counts as gone
ModuleDeleted(d) == dc[d].module # "active"

ModuleGone(d) == dc[d].module = "none"

\* finalizeDeviceConfig finds no KMM Module: the finalizer is removed, and the
\* API server removes the DeviceConfig
FinalizeDone(d) ==
  /\ Serving /\ dc[d].phase = "deleting" /\ ModuleGone(d)
  /\ dc' = [dc EXCEPT ![d] = [NoDeviceConfig EXCEPT !.module = dc[d].module]]
  /\ UNCHANGED <<assign, init, pass, stolen>>

PassStep == ApplyModule \/ Publish \/ AssignNodes

Reconcile ==
  \/ RunInit \/ InitError \/ PassStep \/ PassFails
  \/ \E d \in DCs : \/ NotFound(d) \/ Refuse(d) \/ Accept(d)
                    \/ FinalizeModule(d) \/ FinalizeDone(d)

---------------------------------------------------------------------------
\* The environment

\* The user creates a DeviceConfig, with any selector
Create(d, nodes) ==
  /\ dc[d].phase = "absent"
  /\ dc' = [dc EXCEPT ![d] = [@ EXCEPT !.phase = "present", !.selected = nodes]]
  /\ UNCHANGED <<assign, init, pass, stolen>>

\* ... and deletes it; without a finalizer it is gone at once
Delete(d) ==
  /\ CanDelete /\ dc[d].phase = "present"
  /\ dc' = [dc EXCEPT ![d] = IF @.finalizer THEN [@ EXCEPT !.phase = "deleting"]
                                            ELSE NoDeviceConfig]
  /\ UNCHANGED <<assign, init, pass, stolen>>

\* A node label or the selector changes
Relabel(d, n) ==
  /\ CanRelabel /\ dc[d].phase # "absent"
  /\ dc' = [dc EXCEPT ![d].selected = IF n \in @ THEN @ \ {n} ELSE @ \cup {n}]
  /\ UNCHANGED <<assign, init, pass, stolen>>

\* KMM (external) has unloaded the driver and lets the Module go
KmmUnloaded(d) ==
  /\ dc[d].module = "terminating"
  /\ dc' = [dc EXCEPT ![d].module = "none"]
  /\ UNCHANGED <<assign, init, pass, stolen>>

Restart ==
  /\ CanRestart
  /\ assign' = [n \in Nodes |-> None] /\ init' = "todo" /\ pass' = NoPass
  /\ UNCHANGED <<dc, stolen>>

Environment ==
  \/ \E d \in DCs : \/ \E nodes \in SUBSET Nodes : Create(d, nodes)
                    \/ \E n \in Nodes : Relabel(d, n)
                    \/ Delete(d) \/ KmmUnloaded(d)
  \/ Restart

Next == Reconcile \/ Environment

Spec == Init /\ [][Next]_vars

\* The work queue serves every DeviceConfig in turn: a refused one is queued
\* again with a back-off, a deleted one by its deletion event, one that is being
\* finalized by the events of its Module.  A pass that was started runs on, and
\* KMM unloads drivers.
Fairness ==
  /\ WF_vars(RunInit) /\ WF_vars(PassStep)
  /\ \A d \in DCs : /\ SF_vars(NotFound(d)) /\ SF_vars(Accept(d))
                    /\ SF_vars(FinalizeModule(d)) /\ SF_vars(FinalizeDone(d))
                    /\ WF_vars(KmmUnloaded(d))

FairSpec == Spec /\ Fairness

---------------------------------------------------------------------------
\* Properties

\* The node map (nodeAssignments), the locals of a pass of Reconcile and what
\* the API server holds keep their types; a pass has a DeviceConfig.
TypeOK ==
  /\ dc \in [DCs -> DeviceConfig]
  /\ assign \in [Nodes -> DCs \cup {None}]
  /\ init \in {"todo", "ok", "conflict", "failed"}
  /\ pass \in Pass /\ (pass.pc # "idle" => pass.dc \in DCs)
  /\ stolen \in BOOLEAN

Published(d) == IF dc[d].phase = "present" /\ dc[d].ready THEN dc[d].status ELSE {}

\* No two DeviceConfigs are Ready for one node (validateNodeAssignments),
\* whatever fails, restarts or is relabelled, as long as no finalized
\* DeviceConfig gave a node of another one away.
ReadyDisjoint ==
  ~stolen => \A d, e \in DCs : d # e => Published(d) \cap Published(e) = {}

\* The only thing that keeps buildNodeAssignments from rebuilding the map,
\* whatever failed, restarted or was relabelled before, is a DeviceConfig in
\* deletion that is still Ready for nodes it has released.
ConflictMeansDeletion ==
  init = "conflict" /\ ~stolen => \E d \in DCs : dc[d].phase = "deleting"

\* No two KMM Modules load drivers on one node.
OneModulePerNode ==
  ~stolen => \A d, e \in DCs : d # e /\ dc[d].module = "active" /\ dc[e].module = "active"
                                 => dc[d].selected \cap dc[e].selected = {}

\* A KMM Module always has a DeviceConfig that holds a finalizer to see to its
\* deletion (setFinalizer before handleKMMModule, finalizeDeviceConfig after).
ModuleHasOwner ==
  \A d \in DCs : dc[d].module # "none" => dc[d].finalizer /\ dc[d].phase # "absent"

\* What a DeviceConfig holds is what it is Ready for.
Lease == INSTANCE NodeLease WITH held <- [d \in DCs |-> Published(d)], broken <- stolen

\* The reconciler implements the leases of nodes: although a pass checks the map
\* (validateNodeAssignments), publishes and enters its nodes in three steps, with
\* deletions, relabelling, failures and restarts in between, every publication
\* takes nodes that are free at that very instant.
LeaseRefined == Lease!Spec

Alone(d) == /\ dc[d].phase = "present"
            /\ \A e \in DCs \ {d} : dc[e].phase = "absent"

\* Once the DeviceConfigs that contended for its nodes are gone, a DeviceConfig
\* becomes Ready for all the nodes it selects and stays so: the nodes of a
\* deleted DeviceConfig come free.
EventuallyReady ==
  \A d \in DCs : <>[]Alone(d) => <>[](dc[d].ready /\ dc[d].status = dc[d].selected)

---------------------------------------------------------------------------
\* The inductive invariant behind ReadyDisjoint

\* A DeviceConfig with a KMM Module, in deletion or in a pass has its finalizer,
\* so that it exists; nothing is left of one that does not.
LifeInv ==
  /\ \A d \in DCs :
       /\ dc[d].phase = "absent" => dc[d] = NoDeviceConfig
       /\ dc[d].module # "none" \/ dc[d].phase = "deleting" => dc[d].finalizer
  /\ pass.pc # "idle" => dc[pass.dc].finalizer

\* No node the pass under way has listed is entered for another DeviceConfig.
PassInv ==
  pass.pc # "idle" => init = "ok" /\ AllFree(pass.dc, pass.nodes)

\* The map has every node for which a DeviceConfig is Ready, but for those of
\* the pass that has just published them.
MapInv ==
  ~stolen /\ init = "ok" =>
    \A d \in DCs : \A n \in Published(d) :
      assign[n] = d \/ (pass.pc = "assign" /\ pass.dc = d /\ n \in pass.nodes)

\* What every step of Reconcile, every user and every restart keeps.
AssignmentInv == TypeOK /\ LifeInv /\ PassInv /\ MapInv /\ ReadyDisjoint

---------------------------------------------------------------------------
\* The inductive invariant behind OneModulePerNode

\* n is entered for d, or the pass under way is about to enter it
Claimed(d, n) == assign[n] = d \/ (pass.pc \in {"publish", "assign"} /\ pass.dc = d)

\* While nothing fails, restarts or is relabelled, a pass that was accepted ends in
\* updateNodeAssignments for the nodes its DeviceConfig selects, so that all nodes of
\* an active KMM Module are claimed.
ClaimInv ==
  /\ init # "ok" => \A d \in DCs : dc[d].module = "none"
  /\ pass.pc # "idle" => pass.nodes = dc[pass.dc].selected
  /\ ~stolen => \A d \in DCs : dc[d].module = "active" =>
                  \A n \in dc[d].selected : Claimed(d, n)
====
