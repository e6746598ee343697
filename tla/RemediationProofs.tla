-------------------------- MODULE RemediationProofs --------------------------
(***************************************************************************)
(* Proofs about Remediation: RemediationInv is inductive, for any nodes,   *)
(* conditions, mappings and bounds, whatever fails, restarts or is         *)
(* labelled.                                                               *)
(***************************************************************************)
EXTENDS Remediation, TLAPS

LEMMA ConstantTypes ==
  /\ NoWorkflow \in Workflow /\ Healthy \in Node /\ NoPass \in Pass
  /\ NoPass.pc = "idle" /\ Zero \in Counts
<1> USE RemediationAssumption
<1>1. NoWorkflow \in Workflow BY DEF NoWorkflow, Workflow, Stages
<1>2. Healthy \in Node BY DEF Healthy, Node
<1>3. [n \in Nodes |-> Healthy] \in [Nodes -> Node] BY <1>2
<1>4. NoPass \in Pass /\ NoPass.pc = "idle"
  <2> HIDE DEF Healthy
  <2> QED BY <1>3 DEF NoPass, Pass
<1>5. Zero \in Counts BY DEF Zero, Counts
<1> QED BY <1>1, <1>2, <1>4, <1>5

---------------------------------------------------------------------------
\* Type correctness

\* The parts of TypeOK
NodeOK == node \in [Nodes -> Node]
WfOK == /\ wf \in [Ids -> Workflow]
        /\ \A w \in Ids : Stage(w) # "absent" => wf[w].node \in Nodes /\ wf[w].cond \in Conditions
PassOK == /\ pass \in Pass
          /\ pass.pc \in {"create", "register"} => pass.node \in Nodes /\ pass.cond \in Conditions
HistOK == hist \in [created : [Nodes -> [Conditions -> Int]], lost : Counts,
                    blind : SUBSET Nodes, untainted : SUBSET Nodes, tolErr : BOOLEAN]

LEMMA TypeParts ==
  TypeOK <=> /\ NodeOK /\ WfOK /\ PassOK /\ HistOK
             /\ made \in 0 .. MaxWorkflows
             /\ attempts \in [Nodes -> [Conditions -> Attempts]]
             /\ objects \in {"none", "notify", "all"} /\ spec \in TaintKeys
             /\ tol \in [Workloads -> SUBSET TaintKeys] /\ argoLimit \in Nat
             /\ tracker \in Counts /\ used \in Nat
BY DEF TypeOK, NodeOK, WfOK, PassOK, HistOK

LEMMA TypeMade ==
  ASSUME NodeOK', WfOK', PassOK', HistOK', made' \in 0 .. MaxWorkflows,
         attempts' \in [Nodes -> [Conditions -> Attempts]],
         objects' \in {"none", "notify", "all"}, spec' \in TaintKeys,
         tol' \in [Workloads -> SUBSET TaintKeys], argoLimit' \in Nat,
         tracker' \in Counts, used' \in Nat
  PROVE  TypeOK'
BY DEF TypeOK, NodeOK, WfOK, PassOK, HistOK

\* Parts that a step leaves alone keep their types.
LEMMA SameType ==
  /\ NodeOK /\ UNCHANGED node => NodeOK'
  /\ WfOK /\ UNCHANGED wf => WfOK'
  /\ PassOK /\ UNCHANGED pass => PassOK'
  /\ HistOK /\ UNCHANGED hist => HistOK'
BY DEF NodeOK, WfOK, PassOK, HistOK, Stage

LEMMA InitType == Init => TypeOK
<1> SUFFICES ASSUME Init PROVE TypeOK OBVIOUS
<1> USE RemediationAssumption, ConstantTypes
<1>1. NodeOK
  <2>1. PICK bad \in [Nodes -> SUBSET Conditions] :
               node = [n \in Nodes |-> [Healthy EXCEPT !.bad = bad[n]]]
    BY DEF Init
  <2>2. ASSUME NEW n \in Nodes PROVE [Healthy EXCEPT !.bad = bad[n]] \in Node
    BY DEF Healthy, Node
  <2> QED BY <2>1, <2>2 DEF NodeOK
<1>2. WfOK
  BY DEF Init, WfOK, Stage, NoWorkflow
<1>3. PassOK
  BY DEF Init, PassOK
<1>4. HistOK
  BY DEF Init, HistOK, Counts
<1>5. attempts \in [Nodes -> [Conditions -> Attempts]]
  BY DEF Init, Attempts
<1>6. tol \in [Workloads -> SUBSET TaintKeys]
  BY DEF Init
<1>7. /\ made \in 0 .. MaxWorkflows /\ objects \in {"none", "notify", "all"}
      /\ spec \in TaintKeys /\ argoLimit \in Nat /\ tracker \in Counts /\ used \in Nat
  BY DEF Init
<1> QED BY <1>1, <1>2, <1>3, <1>4, <1>5, <1>6, <1>7, TypeParts

LEMMA WithoutType ==
  ASSUME WfOK, NEW ws, wf' = Without(ws) PROVE WfOK'
BY ConstantTypes DEF WfOK, Without, Stage, NoWorkflow

\* Fields of a node change.
LEMMA NodeType ==
  ASSUME NodeOK, NEW n \in Nodes,
         \/ UNCHANGED node
         \/ \E bad \in SUBSET Conditions : node' = [node EXCEPT ![n].bad = bad]
         \/ \E taints \in SUBSET TaintKeys : node' = [node EXCEPT ![n].taints = taints]
         \/ \E b \in BOOLEAN : \/ node' = [node EXCEPT ![n].abort = b]
                               \/ node' = [node EXCEPT ![n].resume = b]
                               \/ node' = [node EXCEPT ![n].upgrading = b]
  PROVE  NodeOK'
<1>1. node[n] \in Node
  BY DEF NodeOK
<1>2. ASSUME NEW r \in Node, node' = [node EXCEPT ![n] = r] PROVE NodeOK'
  BY <1>2 DEF NodeOK
<1>3. ASSUME NEW bad \in SUBSET Conditions, node' = [node EXCEPT ![n].bad = bad] PROVE NodeOK'
  <2> DEFINE r == [node[n] EXCEPT !.bad = bad]
  <2>1. r \in Node BY <1>1 DEF Node
  <2>2. node' = [node EXCEPT ![n] = r] BY <1>3 DEF NodeOK
  <2> HIDE DEF r
  <2> QED BY <1>2, <2>1, <2>2
<1>4. ASSUME NEW taints \in SUBSET TaintKeys, node' = [node EXCEPT ![n].taints = taints]
      PROVE  NodeOK'
  <2> DEFINE r == [node[n] EXCEPT !.taints = taints]
  <2>1. r \in Node BY <1>1 DEF Node
  <2>2. node' = [node EXCEPT ![n] = r] BY <1>4 DEF NodeOK
  <2> HIDE DEF r
  <2> QED BY <1>2, <2>1, <2>2
<1>5. ASSUME NEW b \in BOOLEAN,
             \/ node' = [node EXCEPT ![n].abort = b]
             \/ node' = [node EXCEPT ![n].resume = b]
             \/ node' = [node EXCEPT ![n].upgrading = b]
      PROVE  NodeOK'
  BY <1>5 DEF NodeOK, Node
<1>6. CASE UNCHANGED node
  BY <1>6 DEF NodeOK
<1> QED BY <1>3, <1>4, <1>5, <1>6

\* A step of Argo, or the update that resumes it, moves a workflow on.
LEMMA MovedType ==
  ASSUME WfOK, NEW w \in Ids, Stage(w) # "absent", NEW s \in Stages
  PROVE  /\ [wf[w] EXCEPT !.stage = s] \in Workflow
         /\ [wf[w] EXCEPT !.stage = s].node = wf[w].node
         /\ [wf[w] EXCEPT !.stage = s].cond = wf[w].cond
         /\ [wf[w] EXCEPT !.stage = s].stage = s
BY DEF WfOK, Workflow

\* Another workflow takes a place.
LEMMA PutType ==
  ASSUME WfOK, NEW w \in Ids, NEW r \in Workflow, wf' = [wf EXCEPT ![w] = r],
         r.stage # "absent" => r.node \in Nodes /\ r.cond \in Conditions
  PROVE  WfOK'
BY DEF WfOK, Stage

LEMMA ToType ==
  ASSUME WfOK, NEW w \in Ids, Stage(w) # "absent", NEW s \in Stages, To(w, s) PROVE WfOK'
<1> DEFINE r == [wf[w] EXCEPT !.stage = s]
<1>1. r \in Workflow /\ r.node \in Nodes /\ r.cond \in Conditions
  BY MovedType DEF WfOK
<1>2. wf' = [wf EXCEPT ![w] = r]
  BY DEF To, WfOK
<1> HIDE DEF r
<1> QED BY <1>1, <1>2, PutType

LEMMA SkipType ==
  ASSUME PassOK, HistOK, NEW n, Skip(n) PROVE PassOK' /\ HistOK'
BY DEF Skip, PassOK, HistOK, Pass

LEMMA ScheduleType ==
  ASSUME PassOK, HistOK, NEW n \in Nodes, NEW c \in Conditions, NEW at,
         Schedule(n, c, at)
  PROVE  PassOK' /\ HistOK'
<1>1. CASE Schedulable(n, c, at)
  <2>1. PassOK'
    <3>1. pass' = [pass EXCEPT !.pc = "create", !.todo = pass.todo \ {n},
                               !.node = n, !.cond = c]
      BY <1>1 DEF Schedule
    <3>2. pass \in Pass
      BY DEF PassOK
    <3>3. pass' \in Pass /\ pass'.node = n /\ pass'.cond = c
      BY <3>1, <3>2 DEF Pass
    <3> QED BY <3>3 DEF PassOK
  <2>2. HistOK'
    BY <1>1 DEF Schedule, HistOK
  <2> QED BY <2>1, <2>2
<1>2. CASE ~Schedulable(n, c, at)
  BY <1>2, SkipType DEF Schedule
<1> QED BY <1>1, <1>2

LEMMA ResumedType ==
  ASSUME WfOK, NEW r \in Ids, Suspended(r), NEW ws, wf' = [Without(ws) EXCEPT ![r] = Resumed(r)]
  PROVE  WfOK'
<1> DEFINE s == IF wf[r].stage = "autostart" THEN "taint"
                ELSE IF wf[r].cond \in SkipReboot THEN "test" ELSE "reboot"
<1>1. Resumed(r) = [wf[r] EXCEPT !.stage = s] /\ s \in Stages /\ Stage(r) # "absent"
  BY DEF Resumed, WfOK, Workflow, Stages, Suspended, Stage
<1> HIDE DEF s
<1>2. /\ Resumed(r) \in Workflow
      /\ Resumed(r).node = wf[r].node /\ Resumed(r).cond = wf[r].cond
  BY <1>1, MovedType
<1>3. Without(ws) \in [Ids -> Workflow]
  BY ConstantTypes DEF Without, WfOK
<1>4. wf' \in [Ids -> Workflow]
  BY <1>2, <1>3
<1>5. \A v \in Ids : wf'[v] = IF v = r THEN Resumed(r) ELSE IF v \in ws THEN NoWorkflow ELSE wf[v]
  BY <1>3 DEF Without
<1> QED BY <1>1, <1>2, <1>4, <1>5 DEF WfOK, Stage, NoWorkflow

LEMMA TypePrepare ==
  ASSUME TypeOK, PassStart \/ Prepare \/ PrepareFails \/ PassEnd PROVE TypeOK'
<1> USE RemediationAssumption, ConstantTypes
<1>1. CASE PassStart
  <2>1. PassOK'
    BY <1>1, TypeParts DEF PassStart, PassOK, Pass, NodeOK
  <2> QED BY <1>1, <2>1, TypeParts, TypeMade, SameType DEF PassStart
<1>2. ASSUME DropOlder
      PROVE  attempts' \in [Nodes -> [Conditions -> Attempts]] /\ HistOK'
  <2>1. attempts \in [Nodes -> [Conditions -> Attempts]] /\ HistOK
    BY TypeParts
  <2>2. attempts' \in [Nodes -> [Conditions -> Attempts]]
    BY <1>2, <2>1 DEF DropOlder, Attempts
  <2>3. [n \in Nodes |-> [c \in Conditions |-> hist.created[n][c] - attempts[n][c].stale]]
          \in [Nodes -> [Conditions -> Int]]
    BY <2>1 DEF HistOK, Attempts
  <2>4. HistOK'
    BY <1>2, <2>1, <2>3 DEF DropOlder, HistOK
  <2> QED BY <2>2, <2>4
<1>3. CASE Prepare
  <2>1. PassOK'
    BY <1>3, TypeParts DEF Prepare, PassOK, Pass
  <2>2. objects' \in {"none", "notify", "all"}
    BY <1>3 DEF Prepare, CreateDefaultObjects
  <2>3. tracker' \in Counts
    BY <1>3, TypeParts DEF Prepare, TrackerFromCR, Counts, Attempts
  <2>4. argoLimit' \in Nat /\ used' \in Nat
    BY <1>3, TypeParts DEF Prepare, UpdateMaxParallelWorkflows, Fault, Disturb
  <2> QED BY <1>2, <1>3, <2>1, <2>2, <2>3, <2>4, TypeParts, TypeMade, SameType
         DEF Prepare
<1>4. CASE PrepareFails
  <2>1. PassOK'
    BY <1>4 DEF PrepareFails, PassOK
  <2>2. objects' \in {"none", "notify", "all"} /\ used' \in Nat
    BY <1>4, TypeParts
       DEF PrepareFails, CreateDefaultObjects, CreateDefaultObjectsFails, Fault, Disturb
  <2>3. attempts' \in [Nodes -> [Conditions -> Attempts]] /\ HistOK'
    BY <1>2, <1>4, TypeParts DEF PrepareFails, HistOK
  <2> QED BY <1>4, <2>1, <2>2, <2>3, TypeParts, TypeMade, SameType DEF PrepareFails
<1>5. CASE PassEnd
  <2>1. PassOK'
    BY <1>5 DEF PassEnd, PassOK
  <2> QED BY <1>5, <2>1, TypeParts, TypeMade, SameType DEF PassEnd
<1> QED BY <1>1, <1>3, <1>4, <1>5

LEMMA AbortLabelType ==
  ASSUME NodeOK, NEW n \in Nodes, NEW b \in BOOLEAN, node' = [node EXCEPT ![n].abort = b]
  PROVE  NodeOK'
<1>1. [node[n] EXCEPT !.abort = b] \in Node
  BY DEF NodeOK, Node
<1>2. node' = [node EXCEPT ![n] = [node[n] EXCEPT !.abort = b]]
  OBVIOUS
<1> QED BY <1>1, <1>2 DEF NodeOK

LEMMA ResumeLabelType ==
  ASSUME NodeOK, NEW n \in Nodes, NEW b \in BOOLEAN, node' = [node EXCEPT ![n].resume = b]
  PROVE  NodeOK'
<1>1. [node[n] EXCEPT !.resume = b] \in Node
  BY DEF NodeOK, Node
<1>2. node' = [node EXCEPT ![n] = [node[n] EXCEPT !.resume = b]]
  OBVIOUS
<1> QED BY <1>1, <1>2 DEF NodeOK

\* What a visit of a node may do to the variables it changes
LEMMA TypeVisit ==
  ASSUME TypeOK, NEW n \in Nodes, NEW c \in Conditions,
         \/ VisitHealthy(n) \/ VisitIdle(n, c) \/ VisitBusy(n, c) \/ VisitAbort(n, c)
         \/ VisitResume(n, c) \/ VisitError(n, c)
  PROVE  NodeOK' /\ WfOK' /\ PassOK' /\ HistOK' /\ used' \in Nat
<1> USE TypeParts
<1>1. CASE VisitHealthy(n)
  <2>1. NodeOK' /\ WfOK' /\ used' \in Nat
    BY <1>1 DEF VisitHealthy, NodeOK, WfOK, Stage
  <2> QED BY <1>1, <2>1, SkipType DEF VisitHealthy
<1>2. CASE VisitIdle(n, c)
  <2>1. NodeOK' /\ WfOK' /\ used' \in Nat
    BY <1>2, WithoutType DEF VisitIdle, NodeOK
  <2> QED BY <1>2, <2>1, ScheduleType DEF VisitIdle
<1>3. CASE VisitBusy(n, c)
  <2>1. NodeOK' /\ WfOK' /\ used' \in Nat
    BY <1>3, WithoutType DEF VisitBusy, NodeOK
  <2> QED BY <1>3, <2>1, SkipType DEF VisitBusy
<1>4. CASE VisitError(n, c)
  <2>1. NodeOK' /\ WfOK'
    BY <1>4, WithoutType DEF VisitError, NodeOK
  <2>2. used' \in Nat
    BY <1>4 DEF VisitError, Fault, Disturb
  <2> QED BY <1>4, <2>1, <2>2, SkipType DEF VisitError
<1>5. CASE VisitAbort(n, c)
  <2>1. WfOK'
    BY <1>5, WithoutType DEF VisitAbort
  <2>2. NodeOK'
    <3>1. node' = [node EXCEPT ![n].abort = FALSE] \/ UNCHANGED node
      BY <1>5 DEF VisitAbort
    <3>2. UNCHANGED node => NodeOK'
      BY DEF NodeOK
    <3> QED BY <3>1, <3>2, AbortLabelType
  <2>3. used' \in Nat
    BY <1>5 DEF VisitAbort, Fault, Disturb
  <2>4. PassOK' /\ HistOK'
    BY <1>5, SkipType, ScheduleType DEF VisitAbort
  <2> QED BY <2>1, <2>2, <2>3, <2>4
<1>6. CASE VisitResume(n, c)
  <2>1. PICK r \in RunningOn(n), done \in SUBSET FinishedOn(n) :
          /\ Suspended(r)
          /\ wf' = Without(done) \/ wf' = [Without(done) EXCEPT ![r] = Resumed(r)]
    BY <1>6 DEF VisitResume
  <2>2. WfOK'
    BY <2>1, WithoutType, ResumedType DEF RunningOn
  <2>3. NodeOK'
    <3>1. \/ node' = [node EXCEPT ![n].resume = node[n].resume /\ ~pass.snap[n].resume]
          \/ UNCHANGED node
      BY <1>6 DEF VisitResume
    <3>2. (node[n].resume /\ ~pass.snap[n].resume) \in BOOLEAN
      OBVIOUS
    <3>3. (\E b \in BOOLEAN : node' = [node EXCEPT ![n].resume = b]) \/ UNCHANGED node
      BY <3>1, <3>2, Zenon
    <3>4. UNCHANGED node => NodeOK'
      BY DEF NodeOK
    <3> QED BY <3>3, <3>4, ResumeLabelType
  <2>4. used' \in Nat
    BY <1>6 DEF VisitResume, Fault, Disturb
  <2> QED BY <1>6, <2>2, <2>3, <2>4, SkipType DEF VisitResume
<1> QED BY <1>1, <1>2, <1>3, <1>4, <1>5, <1>6

LEMMA LostType ==
  ASSUME HistOK, pass.node \in Nodes, pass.cond \in Conditions, hist' = Lost PROVE HistOK'
<1> DEFINE y == [hist.lost EXCEPT ![pass.node][pass.cond] = @ + 1]
<1>1. hist.lost \in [Nodes -> [Conditions -> Nat]]
  BY DEF HistOK, Counts
<1>2. y \in [Nodes -> [Conditions -> Nat]]
  BY <1>1
<1>3. hist' = [hist EXCEPT !.lost = y]
  BY DEF Lost
<1> HIDE DEF y
<1> QED BY <1>2, <1>3 DEF HistOK, Counts

LEMMA CreateType ==
  ASSUME TypeOK, Create \/ CreateFails \/ Register \/ RegisterFails PROVE TypeOK'
<1> USE RemediationAssumption, ConstantTypes
<1>1. CASE Create
  <2>1. pass \in Pass /\ pass.node \in Nodes /\ pass.cond \in Conditions
    BY <1>1, TypeParts DEF Create, PassOK
  <2>2. PassOK'
    <3>1. pass' \in Pass /\ pass'.node = pass.node /\ pass'.cond = pass.cond
      BY <1>1, <2>1 DEF Create, Pass
    <3> QED BY <2>1, <3>1 DEF PassOK
  <2>3. WfOK'
    <3> DEFINE r == [node |-> pass.node, cond |-> pass.cond, taint |-> pass.taint,
                     stage |-> "new"]
    <3>1. r \in Workflow /\ r.node \in Nodes /\ r.cond \in Conditions
      BY <2>1 DEF Workflow, Stages, Pass
    <3>2. wf' = [wf EXCEPT ![made + 1] = r] /\ made + 1 \in Ids
      BY <1>1, TypeParts DEF Create, Ids
    <3> HIDE DEF r
    <3> QED BY <3>1, <3>2, PutType, TypeParts
  <2>4. HistOK'
    <3> DEFINE x == hist.created
               y == [x EXCEPT ![pass.node][pass.cond] = @ + 1]
    <3>1. x \in [Nodes -> [Conditions -> Int]]
      BY TypeParts DEF HistOK
    <3>2. y \in [Nodes -> [Conditions -> Int]]
      BY <2>1, <3>1
    <3>3. hist' = [hist EXCEPT !.created = y, !.tolErr = (used' # used)]
      BY <1>1 DEF Create
    <3>4. (used' # used) \in BOOLEAN
      OBVIOUS
    <3> HIDE DEF y
    <3>5. \E b \in BOOLEAN : hist' = [hist EXCEPT !.created = y, !.tolErr = b]
      BY <3>3, <3>4, Zenon
    <3> QED BY <3>2, <3>5, TypeParts DEF HistOK
  <2>5. tol' \in [Workloads -> SUBSET TaintKeys] /\ used' \in Nat
    <3>1. {DefaultTaint, pass.taint} \in SUBSET TaintKeys
      BY <2>1 DEF Pass
    <3>2. tol \in [Workloads -> SUBSET TaintKeys] /\ used \in Nat
      BY TypeParts
    <3>3. HandleDeviceConfigChanges
      BY <1>1 DEF Create
    <3>4. used' \in Nat
      BY <3>2, <3>3 DEF HandleDeviceConfigChanges, Fault, Disturb
    <3> QED BY <3>1, <3>2, <3>3, <3>4 DEF HandleDeviceConfigChanges
  <2>6. made' \in 0 .. MaxWorkflows
    BY <1>1, TypeParts DEF Create
  <2> QED BY <1>1, <2>2, <2>3, <2>4, <2>5, <2>6, TypeParts, TypeMade, SameType DEF Create
<1>2. ASSUME pass' = [pass EXCEPT !.pc = "nodes", !.node = None, !.cond = None]
      PROVE  PassOK'
  <2>1. pass' \in Pass /\ pass'.pc = "nodes"
    BY <1>2, TypeParts DEF PassOK, Pass
  <2> QED BY <2>1 DEF PassOK
<1>3. CASE CreateFails
  <2>1. used' \in Nat
    BY <1>3, TypeParts DEF CreateFails, Fault, Disturb
  <2> QED BY <1>2, <1>3, <2>1, TypeParts, TypeMade, SameType DEF CreateFails
<1>4. CASE Register
  <2>1. pass.node \in Nodes /\ pass.cond \in Conditions
    BY <1>4, TypeParts DEF Register, PassOK
  <2>2. attempts' \in [Nodes -> [Conditions -> Attempts]]
    <3>1. attempts \in [Nodes -> [Conditions -> Attempts]]
      BY TypeParts
    <3> DEFINE r == [attempts[pass.node][pass.cond] EXCEPT
                       !.live = attempts[pass.node][pass.cond].live + 1]
    <3>2. r \in Attempts
      BY <2>1, <3>1 DEF Attempts
    <3>3. attempts' = [attempts EXCEPT ![pass.node][pass.cond] = r]
      BY <1>4 DEF Register
    <3> HIDE DEF r
    <3> QED BY <2>1, <3>1, <3>2, <3>3
  <2>3. tracker' \in Counts
    BY <1>4, <2>1, TypeParts DEF Register, Counts
  <2> QED BY <1>2, <1>4, <2>2, <2>3, TypeParts, TypeMade, SameType DEF Register
<1>5. CASE RegisterFails
  <2>1. used' \in Nat
    BY <1>5, TypeParts DEF RegisterFails, Fault, Disturb
  <2>2. PassOK'
    BY <1>5 DEF RegisterFails, PassOK
  <2>3. HistOK'
    BY <1>5, TypeParts, LostType DEF RegisterFails, PassOK
  <2> QED BY <1>5, <2>1, <2>2, <2>3, TypeParts, TypeMade, SameType DEF RegisterFails
<1> QED BY <1>1, <1>3, <1>4, <1>5

LEMMA DisturbType ==
  ASSUME TypeOK, HandleDelete \/ Restart PROVE TypeOK'
<1> USE RemediationAssumption, ConstantTypes
<1>1. CASE HandleDelete
  <2>1. used' \in Nat
    BY <1>1, TypeParts DEF HandleDelete, Disturb
  <2>2. WfOK'
    BY <1>1, TypeParts, WithoutType DEF HandleDelete
  <2> QED BY <1>1, <2>1, <2>2, TypeParts, TypeMade, SameType DEF HandleDelete
<1>2. CASE Restart
  <2>1. used' \in Nat
    BY <1>2, TypeParts DEF Restart, Disturb
  <2>2. PassOK' /\ tracker' \in Counts
    BY <1>2 DEF Restart, PassOK
  <2>3. HistOK'
    BY <1>2, TypeParts, LostType, SameType DEF Restart, PassOK
  <2> QED BY <1>2, <2>1, <2>2, <2>3, TypeParts, TypeMade, SameType DEF Restart
<1> QED BY <1>1, <1>2

\* Which workflows Argo moves on: those that are not finished
LEMMA ArgoMoves ==
  ASSUME NEW w \in Ids,
         ArgoStep(w) \/ ArgoStepFails(w)
  PROVE  Active(w) /\ \E s \in Stages \ {"absent", "new"} : To(w, s)
<1> USE DEF Stages
<1>1. CASE ArgoStart(w)
  BY <1>1 DEF ArgoStart, At, Active
<1>2. CASE ArgoTest(w)
  BY <1>2 DEF ArgoTest, At, Active
<1>3. CASE ArgoWait(w)
  BY <1>3 DEF ArgoWait, At, Active
<1>4. CASE ArgoTaint(w) \/ ArgoDrain(w) \/ ArgoReboot(w)
  BY <1>4 DEF ArgoTaint, ArgoDrain, ArgoReboot, At, Active
<1>5. CASE ArgoUntaint(w) \/ ArgoStepFails(w)
  BY <1>5 DEF ArgoUntaint, ArgoStepFails, At, Active
<1> QED BY <1>1, <1>2, <1>3, <1>4, <1>5 DEF ArgoStep

LEMMA ArgoType ==
  ASSUME TypeOK, Argo PROVE TypeOK'
<1> USE RemediationAssumption, ConstantTypes
<1>1. PICK w \in Ids : /\ ArgoStep(w) \/ ArgoStepFails(w) \/ ArgoCollect(w)
                       /\ UNCHANGED operatorVars
  BY DEF Argo, ArgoStep
<1>2. CASE ArgoCollect(w)
  <2>1. WfOK'
    BY <1>2, WithoutType, TypeParts DEF ArgoCollect
  <2> QED BY <1>1, <1>2, <2>1, TypeParts, TypeMade, SameType DEF ArgoCollect, operatorVars
<1>3. CASE ArgoStep(w) \/ ArgoStepFails(w)
  <2>1. PICK s \in Stages : To(w, s)
    BY <1>3, ArgoMoves
  <2>2. Stage(w) # "absent"
    BY <1>3, ArgoMoves DEF Active
  <2>3. WfOK'
    BY <2>1, <2>2, ToType, TypeParts
  <2>4. wf[w].node \in Nodes /\ wf[w].taint \in TaintKeys
    BY <2>2, TypeParts DEF WfOK, Workflow
  <2>5. /\ \/ UNCHANGED node
           \/ node' = [node EXCEPT ![wf[w].node].taints = @ \cup {wf[w].taint}]
           \/ node' = [node EXCEPT ![wf[w].node].taints = @ \ {wf[w].taint}]
        /\ UNCHANGED hist \/ hist' = [hist EXCEPT !.untainted = @ \cup {wf[w].node}]
        /\ UNCHANGED used \/ Fault
    BY <1>3 DEF ArgoStep, ArgoStart, ArgoTaint, ArgoDrain, ArgoReboot, ArgoTest, ArgoWait,
                ArgoUntaint, ArgoStepFails
  <2>6. NodeOK'
    <3>1. \A n \in Nodes : node[n].taints \in SUBSET TaintKeys
      BY TypeParts DEF NodeOK, Node
    <3>2. \/ UNCHANGED node
          \/ \E taints \in SUBSET TaintKeys :
               node' = [node EXCEPT ![wf[w].node].taints = taints]
      BY <2>4, <2>5, <3>1
    <3> QED BY <2>4, <3>2, NodeType, TypeParts
  <2>7. HistOK'
    BY <2>4, <2>5, TypeParts DEF HistOK
  <2>8. used' \in Nat
    BY <2>5, TypeParts DEF Fault, Disturb
  <2> QED BY <1>1, <2>3, <2>6, <2>7, <2>8, TypeParts, TypeMade, SameType DEF operatorVars
<1> QED BY <1>1, <1>2, <1>3

LEMMA EnvironmentType ==
  ASSUME TypeOK, Environment PROVE TypeOK'
<1> USE RemediationAssumption
<1>1. NodeOK' /\ spec' \in TaintKeys /\ used' \in Nat
  <2>1. ASSUME NEW n \in Nodes, NEW c \in Conditions, Flap(n, c)
        PROVE  NodeOK' /\ spec' \in TaintKeys /\ used' \in Nat
    <3>1. node[n].bad \in SUBSET Conditions
      BY TypeParts DEF NodeOK, Node
    <3>2. \E bad \in SUBSET Conditions : node' = [node EXCEPT ![n].bad = bad]
      BY <2>1, <3>1 DEF Flap
    <3>3. NodeOK'
      BY <3>2, NodeType, TypeParts
    <3> QED BY <2>1, <3>3, TypeParts DEF Flap, Disturb
  <2>2. ASSUME NEW n \in Nodes, UserLabel(n) \/ UserUntaint(n)
        PROVE  NodeOK' /\ spec' \in TaintKeys /\ used' \in Nat
    <3>1. \/ \E b \in BOOLEAN : \/ node' = [node EXCEPT ![n].abort = b]
                               \/ node' = [node EXCEPT ![n].resume = b]
          \/ \E taints \in SUBSET TaintKeys : node' = [node EXCEPT ![n].taints = taints]
      BY <2>2 DEF UserLabel, UserUntaint
    <3>2. NodeOK'
      BY <3>1, NodeType, TypeParts
    <3> QED BY <2>2, <3>2, TypeParts DEF UserLabel, UserUntaint, Disturb
  <2>3. ASSUME NEW n \in Nodes, UpgradeToggle(n)
        PROVE  NodeOK' /\ spec' \in TaintKeys /\ used' \in Nat
    <3>1. \E b \in BOOLEAN : node' = [node EXCEPT ![n].upgrading = b]
      BY <2>3 DEF UpgradeToggle
    <3>2. NodeOK'
      BY <3>1, NodeType, TypeParts
    <3> QED BY <2>3, <3>2, TypeParts DEF UpgradeToggle, Disturb
  <2>4. ASSUME NEW k \in TaintKeys, UserEdit(k)
        PROVE  NodeOK' /\ spec' \in TaintKeys /\ used' \in Nat
    BY <2>4, TypeParts DEF UserEdit, Disturb, NodeOK
  <2>5. ASSUME NEW n \in Nodes, NEW c \in Conditions, TimePasses(n, c)
        PROVE  NodeOK' /\ spec' \in TaintKeys /\ used' \in Nat
    BY <2>5, TypeParts DEF TimePasses, Disturb, NodeOK
  <2> QED BY <2>1, <2>2, <2>3, <2>4, <2>5 DEF Environment
<1>2. attempts' \in [Nodes -> [Conditions -> Attempts]]
  <2>1. attempts \in [Nodes -> [Conditions -> Attempts]]
    BY TypeParts
  <2>2. ASSUME NEW n \in Nodes, NEW c \in Conditions, TimePasses(n, c)
        PROVE  attempts' \in [Nodes -> [Conditions -> Attempts]]
    <3> DEFINE r == [live |-> attempts[n][c].live - 1, stale |-> attempts[n][c].stale + 1]
    <3>1. r \in Attempts
      BY <2>1, <2>2 DEF TimePasses, Attempts
    <3>2. attempts' = [attempts EXCEPT ![n][c] = r]
      BY <2>2 DEF TimePasses
    <3> HIDE DEF r
    <3> QED BY <2>1, <3>1, <3>2
  <2> QED BY <2>1, <2>2 DEF Environment
<1> QED BY <1>1, <1>2, TypeParts, TypeMade, SameType DEF Environment

LEMMA VisitType ==
  ASSUME TypeOK, Visit \/ VisitFails PROVE TypeOK'
<1>1. NodeOK' /\ WfOK' /\ PassOK' /\ HistOK' /\ used' \in Nat
  <2>1. ASSUME NEW n \in Nodes, VisitHealthy(n)
        PROVE  NodeOK' /\ WfOK' /\ PassOK' /\ HistOK' /\ used' \in Nat
    BY <2>1, TypeParts, SameType, SkipType DEF VisitHealthy
  <2> QED BY <2>1, TypeVisit DEF Visit, VisitFails
<1> QED BY <1>1, TypeParts, TypeMade DEF Visit, VisitFails

LEMMA StepType == TypeOK /\ [Next]_vars => TypeOK'
<1> SUFFICES ASSUME TypeOK, [Next]_vars PROVE TypeOK' OBVIOUS
<1>1. CASE UNCHANGED vars
  BY <1>1, TypeParts, TypeMade, SameType DEF vars
<1>2. CASE PassStep
  BY <1>2, TypePrepare, VisitType, CreateType DEF PassStep
<1> QED BY <1>1, <1>2, DisturbType, ArgoType, EnvironmentType DEF Next

\* The map of attempts, the locals of HandleRemediation and all objects of the
\* API server keep their types.
THEOREM RemediationTypeCorrect == Spec => []TypeOK
BY InitType, StepType, PTL DEF Spec

---------------------------------------------------------------------------
\* Attempts: what is created is recorded, pending or lost

CountsInv == CountInv /\ TrackerInv /\ BoundInv

LEMMA RecordedType ==
  ASSUME TypeOK
  PROVE  \A n \in Nodes, c \in Conditions :
           /\ attempts[n][c].live \in Nat /\ attempts[n][c].stale \in Nat
           /\ Recorded(n, c) \in Nat
           /\ hist.created[n][c] \in Int /\ hist.lost[n][c] \in Nat
           /\ tracker[n][c] \in Nat
<1>1. attempts \in [Nodes -> [Conditions -> Attempts]] /\ HistOK /\ tracker \in Counts
  BY TypeParts
<1>2. \A n \in Nodes, c \in Conditions : attempts[n][c] \in Attempts
  BY <1>1
<1>3. \A n \in Nodes, c \in Conditions :
           attempts[n][c].live \in Nat /\ attempts[n][c].stale \in Nat
  BY <1>2 DEF Attempts
<1>4. hist.created \in [Nodes -> [Conditions -> Int]] /\ hist.lost \in Counts
  BY <1>1 DEF HistOK
<1> QED BY <1>1, <1>3, <1>4 DEF Recorded, Counts

\* A pass moves between states in which it has created nothing.
LEMMA CountsKept ==
  ASSUME TypeOK, TypeOK', CountsInv,
         \A n \in Nodes, c \in Conditions : Recorded(n, c)' = Recorded(n, c),
         hist'.created = hist.created, hist'.lost = hist.lost, UNCHANGED tracker,
         \/ UNCHANGED pass
         \/ /\ pass.pc # "register" /\ pass'.pc # "register"
            /\ pass'.pc \in {"nodes", "create"} => pass.pc \in {"nodes", "create"}
            /\ pass'.pc = "create" => Recorded(pass'.node, pass'.cond) < MaxRuns
  PROVE  CountsInv'
<1> USE DEF CountsInv
<1>1. CountInv'
  BY DEF CountInv, Pending
<1>2. TrackerInv'
  BY DEF TrackerInv
<1>3. BoundInv'
  <2>1. pass'.pc \in {"create", "register"} => pass'.node \in Nodes /\ pass'.cond \in Conditions
    BY TypeMade DEF TypeOK
  <2>2. pass'.pc \in {"create", "register"} => Recorded(pass'.node, pass'.cond) < MaxRuns
    BY DEF BoundInv
  <2>3. pass'.pc \in {"create", "register"} => Recorded(pass.node, pass.cond)' < MaxRuns
    <3> SUFFICES ASSUME pass'.pc \in {"create", "register"}
                 PROVE  Recorded(pass.node, pass.cond)' < MaxRuns
      OBVIOUS
    <3>1. PICK n \in Nodes, c \in Conditions : n = pass'.node /\ c = pass'.cond
      BY <2>1
    <3>2. Recorded(n, c)' = Recorded(n, c) /\ Recorded(n, c) < MaxRuns
      BY <2>2, <3>1
    <3> QED BY <3>1, <3>2 DEF Recorded
  <2> QED BY <2>3 DEF BoundInv
<1> QED BY <1>1, <1>2, <1>3

LEMMA CountsInit == Init => CountsInv
<1> SUFFICES ASSUME Init PROVE CountsInv OBVIOUS
<1>1. \A n \in Nodes, c \in Conditions :
        Recorded(n, c) = 0 /\ hist.created[n][c] = 0 /\ hist.lost[n][c] = 0
  BY DEF Init, Recorded, Zero
<1>2. pass.pc = "idle"
  BY ConstantTypes DEF Init
<1> QED BY <1>1, <1>2, RemediationAssumption
        DEF CountsInv, CountInv, TrackerInv, BoundInv, Pending

\* The status object loses its stale attempts.
LEMMA CountsDrop ==
  ASSUME TypeOK, TypeOK', CountsInv, DropOlder, pass.pc = "prepare",
         \/ pass'.pc = "nodes" /\ tracker' = TrackerFromCR
         \/ pass'.pc = "idle"
  PROVE  CountsInv'
<1>1. \A n \in Nodes, c \in Conditions : attempts[n][c] \in Attempts
  BY TypeParts
<1>2. ASSUME NEW n \in Nodes, NEW c \in Conditions
      PROVE  /\ Recorded(n, c)' = attempts[n][c].live
             /\ Recorded(n, c)' <= Recorded(n, c)
             /\ hist'.created[n][c] = hist.created[n][c] - attempts[n][c].stale
             /\ hist'.lost[n][c] = hist.lost[n][c]
             /\ Pending(n, c) = 0 /\ Pending(n, c)' = 0
  <2>1. attempts'[n][c] = [attempts[n][c] EXCEPT !.stale = 0]
    BY DEF DropOlder
  <2>2. attempts'[n][c].live = attempts[n][c].live /\ attempts'[n][c].stale = 0
    BY <1>1, <2>1 DEF Attempts
  <2>3. Recorded(n, c)' = attempts[n][c].live /\ Recorded(n, c)' <= Recorded(n, c)
    BY <2>2, RecordedType DEF Recorded
  <2>4. /\ hist'.created[n][c] = hist.created[n][c] - attempts[n][c].stale
        /\ hist'.lost[n][c] = hist.lost[n][c]
    BY TypeParts DEF DropOlder, HistOK
  <2> QED BY <2>3, <2>4 DEF Pending
<1>3. CountInv'
  BY <1>2, RecordedType DEF CountsInv, CountInv, Recorded
<1>4. TrackerInv'
  BY <1>2 DEF TrackerInv, TrackerFromCR
<1>5. BoundInv'
  <2>1. \A n \in Nodes, c \in Conditions : Recorded(n, c)' <= MaxRuns
    BY <1>2, RecordedType, RemediationAssumption DEF CountsInv, BoundInv, Recorded
  <2> QED BY <2>1 DEF BoundInv
<1> QED BY <1>3, <1>4, <1>5 DEF CountsInv

LEMMA CountsSchedule ==
  ASSUME TypeOK, CountsInv, NEW n \in Nodes, NEW c \in Conditions,
         NEW at, Visiting(n), Schedule(n, c, at) \/ Skip(n)
  PROVE  /\ hist'.created = hist.created /\ hist'.lost = hist.lost
         /\ pass.pc = "nodes" /\ pass'.pc \in {"nodes", "create"}
         /\ pass'.pc = "create" => Recorded(pass'.node, pass'.cond) < MaxRuns
<1>1. pass \in Pass /\ pass.pc = "nodes" /\ HistOK
  BY TypeParts DEF Visiting, PassOK
<1>2. CASE Skip(n)
  BY <1>1, <1>2 DEF Skip, Pass
<1>3. CASE Schedule(n, c, at) /\ Schedulable(n, c, at)
  <2>1. pass'.pc = "create" /\ pass'.node = n /\ pass'.cond = c
    BY <1>1, <1>3 DEF Schedule, Pass
  <2>2. Recorded(n, c) < MaxRuns
    BY <1>1, <1>3, RecordedType, RemediationAssumption
       DEF CountsInv, TrackerInv, Schedulable, IsRecoveryPolicyViolated
  <2>3. hist'.created = hist.created /\ hist'.lost = hist.lost
    BY <1>1, <1>3 DEF Schedule, HistOK
  <2> QED BY <1>1, <2>1, <2>2, <2>3
<1> QED BY <1>2, <1>3 DEF Schedule

\* The attempt of the pass leaves its hands: recorded or lost.
LEMMA CountsLeave ==
  ASSUME TypeOK, TypeOK', CountsInv, pass.pc = "register", pass'.pc \in {"idle", "nodes"},
         hist'.created = hist.created,
         \A n \in Nodes, c \in Conditions :
           Recorded(n, c)' + hist'.lost[n][c]
             = Recorded(n, c) + hist.lost[n][c] + Pending(n, c),
         \A n \in Nodes, c \in Conditions :
           Recorded(n, c)' <= Recorded(n, c) + Pending(n, c),
         pass'.pc = "nodes" =>
           \A n \in Nodes, c \in Conditions : tracker'[n][c] = Recorded(n, c)'
  PROVE  CountsInv'
<1>1. pass.node \in Nodes /\ pass.cond \in Conditions
  BY TypeParts DEF PassOK
<1>2. \A n \in Nodes, c \in Conditions :
        /\ Pending(n, c) \in {0, 1} /\ Pending(n, c)' = 0
        /\ Pending(n, c) = 1 => n = pass.node /\ c = pass.cond
  BY DEF Pending
<1>3. \A n \in Nodes, c \in Conditions : Recorded(n, c)' \in Nat /\ hist'.lost[n][c] \in Nat
  <2>1. \A n \in Nodes, c \in Conditions : attempts'[n][c] \in Attempts
    BY DEF TypeOK
  <2>2. hist'.lost \in Counts
    BY DEF TypeOK
  <2> QED BY <2>1, <2>2 DEF Recorded, Attempts, Counts
<1>4. CountInv'
  BY <1>2, <1>3, RecordedType DEF CountsInv, CountInv
<1>5. TrackerInv'
  BY DEF TrackerInv
<1>6. \A n \in Nodes, c \in Conditions : Recorded(n, c)' <= MaxRuns
  BY <1>1, <1>2, <1>3, RecordedType, RemediationAssumption DEF CountsInv, BoundInv
<1>7. BoundInv'
  BY <1>6 DEF BoundInv
<1> QED BY <1>4, <1>5, <1>7 DEF CountsInv

LEMMA CountsLost ==
  ASSUME TypeOK, TypeOK', CountsInv, pass.pc = "register", pass'.pc = "idle",
         UNCHANGED attempts, hist' = Lost
  PROVE  CountsInv'
<1>1. pass.node \in Nodes /\ pass.cond \in Conditions
  BY TypeParts DEF PassOK
<1>2. hist.lost \in [Nodes -> [Conditions -> Nat]] /\ HistOK
  BY TypeParts DEF HistOK, Counts
<1>3. /\ hist'.created = hist.created
      /\ hist'.lost = [hist.lost EXCEPT ![pass.node][pass.cond] = hist.lost[pass.node][pass.cond] + 1]
  BY <1>2 DEF HistOK, Lost
<1>4. \A n \in Nodes, c \in Conditions : hist'.lost[n][c] = hist.lost[n][c] + Pending(n, c)
  BY <1>1, <1>2, <1>3 DEF Pending
<1>5. \A n \in Nodes, c \in Conditions : Recorded(n, c)' = Recorded(n, c)
  BY DEF Recorded
<1>6. \A n \in Nodes, c \in Conditions : Pending(n, c) \in {0, 1}
  BY DEF Pending
<1>7. \A n \in Nodes, c \in Conditions :
        /\ Recorded(n, c)' + hist'.lost[n][c] = Recorded(n, c) + hist.lost[n][c] + Pending(n, c)
        /\ Recorded(n, c)' <= Recorded(n, c) + Pending(n, c)
  BY <1>4, <1>5, <1>6, RecordedType
<1> QED BY <1>3, <1>7, CountsLeave

LEMMA CountsRegister ==
  ASSUME TypeOK, TypeOK', CountsInv, Register PROVE CountsInv'
<1>1. pass.node \in Nodes /\ pass.cond \in Conditions /\ pass.pc = "register"
  BY TypeParts DEF PassOK, Register
<1>2. pass'.pc = "nodes" /\ UNCHANGED hist
  BY TypeParts DEF Register, PassOK, Pass
<1> DEFINE r == [attempts[pass.node][pass.cond] EXCEPT
                   !.live = attempts[pass.node][pass.cond].live + 1]
<1>3. attempts \in [Nodes -> [Conditions -> Attempts]]
  BY TypeParts
<1>4. /\ r.live = attempts[pass.node][pass.cond].live + 1
      /\ r.stale = attempts[pass.node][pass.cond].stale
  BY <1>1, <1>3 DEF Attempts
<1>5. attempts' = [attempts EXCEPT ![pass.node][pass.cond] = r]
  BY DEF Register
<1> HIDE DEF r
<1>6. ASSUME NEW n \in Nodes, NEW c \in Conditions
      PROVE  Recorded(n, c)' = Recorded(n, c) + Pending(n, c)
  <2>1. attempts'[n][c] = IF n = pass.node /\ c = pass.cond THEN r ELSE attempts[n][c]
    BY <1>1, <1>3, <1>5
  <2>2. CASE n = pass.node /\ c = pass.cond
    <3>1. Pending(n, c) = 1
      BY <1>1, <2>2 DEF Pending
    <3>2. Recorded(n, c)' = r.live + r.stale
      BY <2>1, <2>2 DEF Recorded
    <3>3. r.live = attempts[n][c].live + 1 /\ r.stale = attempts[n][c].stale
      BY <1>4, <2>2
    <3> QED BY <3>1, <3>2, <3>3, RecordedType DEF Recorded
  <2>3. CASE ~(n = pass.node /\ c = pass.cond)
    <3>1. Recorded(n, c)' = Recorded(n, c) /\ Pending(n, c) = 0
      BY <2>1, <2>3 DEF Recorded, Pending
    <3> QED BY <3>1, RecordedType
  <2> QED BY <2>2, <2>3
<1>7. \A n \in Nodes, c \in Conditions : tracker'[n][c] = tracker[n][c] + Pending(n, c)
  <2>1. tracker \in [Nodes -> [Conditions -> Nat]]
    BY TypeParts DEF Counts
  <2> QED BY <1>1, <2>1 DEF Register, Pending
<1>8. \A n \in Nodes, c \in Conditions : tracker'[n][c] = Recorded(n, c)'
  BY <1>1, <1>6, <1>7 DEF CountsInv, TrackerInv
<1>9. \A n \in Nodes, c \in Conditions : Pending(n, c) \in {0, 1}
  BY DEF Pending
<1>10. \A n \in Nodes, c \in Conditions :
        /\ Recorded(n, c)' + hist'.lost[n][c] = Recorded(n, c) + hist.lost[n][c] + Pending(n, c)
        /\ Recorded(n, c)' <= Recorded(n, c) + Pending(n, c)
  BY <1>2, <1>6, <1>9, RecordedType
<1> QED BY <1>1, <1>2, <1>8, <1>10, CountsLeave

LEMMA CountsCreate ==
  ASSUME TypeOK, TypeOK', CountsInv, Create PROVE CountsInv'
<1>1. pass.node \in Nodes /\ pass.cond \in Conditions /\ pass.pc = "create"
  BY TypeParts DEF PassOK, Create
<1>2. pass'.pc = "register" /\ pass'.node = pass.node /\ pass'.cond = pass.cond
  BY TypeParts DEF Create, PassOK, Pass
<1>3. hist.created \in [Nodes -> [Conditions -> Int]] /\ HistOK
  BY TypeParts DEF HistOK
<1>4. /\ hist'.lost = hist.lost
      /\ hist'.created
           = [hist.created EXCEPT ![pass.node][pass.cond] = hist.created[pass.node][pass.cond] + 1]
  BY <1>3 DEF HistOK, Create
<1>5. \A n \in Nodes, c \in Conditions :
        /\ Pending(n, c) = 0 /\ Pending(n, c)' \in {0, 1}
        /\ hist'.created[n][c] = hist.created[n][c] + Pending(n, c)'
  BY <1>1, <1>2, <1>3, <1>4 DEF Pending
<1>6. \A n \in Nodes, c \in Conditions : Recorded(n, c)' = Recorded(n, c)
  BY DEF Recorded, Create
<1>7. CountInv'
  BY <1>4, <1>5, <1>6, RecordedType DEF CountsInv, CountInv
<1>8. TrackerInv'
  BY <1>1, <1>6 DEF Create, CountsInv, TrackerInv
<1>9. BoundInv'
  BY <1>1, <1>2, <1>6 DEF CountsInv, BoundInv
<1> QED BY <1>7, <1>8, <1>9 DEF CountsInv

LEMMA CountsEnvironment ==
  ASSUME TypeOK, TypeOK', CountsInv, Environment PROVE CountsInv'
<1>1. ASSUME NEW m \in Nodes, NEW d \in Conditions, TimePasses(m, d),
             NEW n \in Nodes, NEW c \in Conditions
      PROVE  Recorded(n, c)' = Recorded(n, c)
  <2> DEFINE r == [live |-> attempts[m][d].live - 1, stale |-> attempts[m][d].stale + 1]
  <2>1. attempts' = [attempts EXCEPT ![m][d] = r]
    BY <1>1 DEF TimePasses
  <2>2. r.live + r.stale = Recorded(m, d)
    BY RecordedType DEF Recorded
  <2> HIDE DEF r
  <2>3. attempts'[n][c] = IF n = m /\ c = d THEN r ELSE attempts[n][c]
    BY <2>1, TypeParts
  <2> QED BY <2>2, <2>3 DEF Recorded
<1>2. UNCHANGED attempts \/ \E m \in Nodes, d \in Conditions : TimePasses(m, d)
  BY DEF Environment
<1>3. \A n \in Nodes, c \in Conditions : Recorded(n, c)' = Recorded(n, c)
  <2>1. CASE UNCHANGED attempts BY <2>1 DEF Recorded
  <2> QED BY <1>1, <1>2, <2>1
<1>4. UNCHANGED <<hist, tracker, pass>>
  BY DEF Environment
<1> QED BY <1>3, <1>4, CountsKept

LEMMA StepCounts ==
  ASSUME TypeOK, TypeOK', CountsInv, [Next]_vars PROVE CountsInv'
<1>1. UNCHANGED attempts => \A n \in Nodes, c \in Conditions : Recorded(n, c)' = Recorded(n, c)
  BY DEF Recorded
<1>2. CASE PassStart \/ PassEnd
  <2>1. pass'.pc \in {"prepare", "idle"} /\ pass.pc # "register"
    BY <1>2, ConstantTypes DEF PassStart, PassEnd, Pass
  <2>2. UNCHANGED <<attempts, hist, tracker>>
    BY <1>2 DEF PassStart, PassEnd
  <2> QED BY <1>1, <2>1, <2>2, CountsKept
<1>3. CASE Prepare
  <2>1. pass'.pc = "nodes"
    BY <1>3, TypeParts DEF Prepare, PassOK, Pass
  <2> QED BY <1>3, <2>1, CountsDrop DEF Prepare
<1>4. CASE PrepareFails
  <2>1. pass'.pc = "idle" /\ pass.pc = "prepare"
    BY <1>4, ConstantTypes DEF PrepareFails
  <2>2. DropOlder \/ UNCHANGED <<attempts, hist>>
    BY <1>4 DEF PrepareFails
  <2>3. UNCHANGED tracker
    BY <1>4 DEF PrepareFails
  <2> QED BY <1>1, <2>1, <2>2, <2>3, CountsDrop, CountsKept
<1>5. CASE Visit \/ VisitFails
  <2>1. UNCHANGED <<attempts, tracker>>
    BY <1>5 DEF Visit, VisitFails
  <2>2. ASSUME NEW n \in Nodes, VisitHealthy(n)
        PROVE  /\ UNCHANGED hist /\ pass.pc = "nodes" /\ pass'.pc = "nodes"
    BY <2>2, TypeParts DEF VisitHealthy, Visiting, Skip, PassOK, Pass
  <2>3. ASSUME NEW n \in Nodes, NEW c \in Conditions,
               \/ VisitIdle(n, c) \/ VisitBusy(n, c) \/ VisitAbort(n, c)
               \/ VisitResume(n, c) \/ VisitError(n, c)
        PROVE  Visiting(n) /\ \E at : Schedule(n, c, at) \/ Skip(n)
    BY <2>3 DEF VisitIdle, VisitBusy, VisitAbort, VisitResume, VisitError
  <2>4. \/ \E n \in Nodes : VisitHealthy(n)
        \/ \E n \in Nodes, c \in Conditions :
             Visiting(n) /\ \E at : Schedule(n, c, at) \/ Skip(n)
    BY <1>5, <2>3 DEF Visit, VisitFails
  <2>5. /\ hist'.created = hist.created /\ hist'.lost = hist.lost
        /\ pass.pc = "nodes" /\ pass'.pc \in {"nodes", "create"}
        /\ pass'.pc = "create" => Recorded(pass'.node, pass'.cond) < MaxRuns
    BY <2>2, <2>4, CountsSchedule
  <2> QED BY <1>1, <2>1, <2>5, CountsKept
<1>6. CASE CreateFails
  <2>1. pass.pc = "create" /\ pass'.pc = "nodes"
    BY <1>6, TypeParts DEF CreateFails, PassOK, Pass
  <2>2. UNCHANGED <<attempts, hist, tracker>>
    BY <1>6 DEF CreateFails
  <2> QED BY <1>1, <2>1, <2>2, CountsKept
<1>7. CASE RegisterFails
  BY <1>7, ConstantTypes, CountsLost DEF RegisterFails
<1>8. CASE Restart
  <2>1. pass'.pc = "idle" /\ UNCHANGED attempts
    BY <1>8, ConstantTypes DEF Restart
  <2>2. CASE pass.pc = "register"
    BY <1>8, <2>1, <2>2, CountsLost DEF Restart
  <2>3. CASE pass.pc # "register"
    <3>1. UNCHANGED hist
      BY <1>8, <2>3 DEF Restart
    <3>2. \A n \in Nodes, c \in Conditions : Recorded(n, c)' = Recorded(n, c)
      BY <1>1, <2>1
    <3>3. CountInv'
      BY <2>1, <2>3, <3>1, <3>2 DEF CountsInv, CountInv, Pending
    <3> QED BY <2>1, <3>2, <3>3 DEF CountsInv, TrackerInv, BoundInv
  <2> QED BY <2>2, <2>3
<1>9. CASE HandleDelete \/ UNCHANGED vars
  <2>1. UNCHANGED <<attempts, hist, tracker, pass>>
    BY <1>9 DEF HandleDelete, vars
  <2> QED BY <1>1, <2>1, CountsKept
<1>10. CASE Argo
  <2>1. PICK w \in Ids : /\ ArgoStep(w) \/ ArgoStepFails(w) \/ ArgoCollect(w)
                         /\ UNCHANGED operatorVars
    BY <1>10 DEF Argo, ArgoStep
  <2>2. UNCHANGED hist \/ hist' = [hist EXCEPT !.untainted = @ \cup {wf[w].node}]
    BY <2>1 DEF ArgoStep, ArgoStart, ArgoTaint, ArgoDrain, ArgoReboot, ArgoTest, ArgoWait,
                ArgoUntaint, ArgoStepFails, ArgoCollect
  <2>3. hist'.created = hist.created /\ hist'.lost = hist.lost
    BY <2>2, TypeParts DEF HistOK
  <2> QED BY <1>1, <2>1, <2>3, CountsKept DEF operatorVars
<1> QED BY <1>2, <1>3, <1>4, <1>5, <1>6, <1>7, <1>8, <1>9, <1>10, CountsCreate, CountsRegister,
           CountsEnvironment DEF Next, PassStep

LEMMA PolicyFromCounts == TypeOK /\ CountsInv => RunsWithinPolicy
<1> SUFFICES ASSUME TypeOK, CountsInv, NEW n \in Nodes, NEW c \in Conditions
             PROVE  hist.created[n][c] <= MaxRuns + hist.lost[n][c]
  BY DEF RunsWithinPolicy
<1>1. hist.created[n][c] = Recorded(n, c) + hist.lost[n][c] + Pending(n, c)
  BY DEF CountsInv, CountInv
<1>2. Recorded(n, c) <= MaxRuns
  BY DEF CountsInv, BoundInv
<1>3. Pending(n, c) = 0 \/ (Pending(n, c) = 1 /\ Recorded(n, c) < MaxRuns)
  BY DEF CountsInv, BoundInv, Pending
<1> QED BY <1>1, <1>2, <1>3, RecordedType, RemediationAssumption

LEMMA CountsAlways == Spec => []CountsInv
<1>1. Init => CountsInv BY CountsInit
<1>2. TypeOK /\ TypeOK' /\ CountsInv /\ [Next]_vars => CountsInv'
  BY StepCounts
<1> QED BY <1>1, <1>2, RemediationTypeCorrect, PTL DEF Spec

\* For any nodes, conditions and policy: workflows are created within the limit
\* of the recovery policy (isRecoveryPolicyViolated), through restarts, failures,
\* edits and attempts that grow stale, but for those whose registration was lost.
THEOREM PolicyKept == Spec => []RunsWithinPolicy
BY CountsAlways, PolicyFromCounts, RemediationTypeCorrect, PTL

---------------------------------------------------------------------------
\* Workflows: one per node, unless their names or their start confuse a pass

WorkflowsInv == FreeInv /\ OneWorkflowUnlessConfused

\* No workflow becomes active, and none changes its node.
NoneAdded == \A w \in Ids : Active(w)' => Active(w) /\ wf'[w].node = wf[w].node

LEMMA ConfusedStays ==
  ASSUME hist.blind \subseteq hist'.blind, NEW n, Confused(n) PROVE Confused(n)'
BY DEF Confused

LEMMA WorkflowsFewer ==
  ASSUME WorkflowsInv, NoneAdded, hist.blind \subseteq hist'.blind PROVE OneWorkflowUnlessConfused'
<1> SUFFICES ASSUME NEW v \in Ids, NEW w \in Ids, Active(v)', Active(w)',
                    wf'[v].node = wf'[w].node, v # w
             PROVE  Confused(wf[v].node)'
  BY DEF OneWorkflowUnlessConfused
<1>1. PICK n : n = wf'[v].node
  OBVIOUS
<1>2. Active(v) /\ Active(w) /\ wf[v].node = n /\ wf[w].node = n
  BY <1>1 DEF NoneAdded
<1>3. Confused(n)
  BY <1>2 DEF WorkflowsInv, OneWorkflowUnlessConfused
<1>4. Confused(n)'
  BY <1>3, ConfusedStays
<1> QED BY <1>1, <1>4 DEF Confused

LEMMA WorkflowsKept ==
  ASSUME WorkflowsInv, NoneAdded, hist.blind \subseteq hist'.blind,
         pass'.pc = "create" => pass.pc = "create" /\ pass'.node = pass.node
  PROVE  WorkflowsInv'
<1>1. FreeInv'
  <2> SUFFICES ASSUME pass'.pc = "create"
               PROVE  Confused(pass.node)' \/ \A w \in Ids : Active(w)' => wf'[w].node # pass'.node
    BY DEF FreeInv
  <2>1. PICK n : n = pass.node
    OBVIOUS
  <2>2. Confused(n) \/ \A w \in Ids : Active(w) => wf[w].node # n
    BY <2>1 DEF WorkflowsInv, FreeInv
  <2>3. CASE Confused(n)
    <3>1. Confused(n)' BY <2>3, ConfusedStays
    <3> QED BY <2>1, <3>1 DEF Confused
  <2>4. CASE \A w \in Ids : Active(w) => wf[w].node # n
    BY <2>1, <2>4 DEF NoneAdded
  <2> QED BY <2>2, <2>3, <2>4
<1> QED BY <1>1, WorkflowsFewer DEF WorkflowsInv

LEMMA WithoutAdds ==
  ASSUME NEW ws, wf' = Without(ws)
  PROVE  NoneAdded /\ \A w \in Ids : Active(w)' => w \notin ws /\ wf'[w] = wf[w]
BY DEF NoneAdded, Without, Active, Stage, NoWorkflow

LEMMA SameAdds == ASSUME UNCHANGED wf PROVE NoneAdded
BY DEF NoneAdded, Active, Stage

\* The pass goes on to create a workflow for n.
LEMMA WorkflowsSchedule ==
  ASSUME TypeOK, WorkflowsInv, NoneAdded, NEW n \in Nodes, NEW c \in Conditions,
         NEW at, Visiting(n), Schedule(n, c, at),
         Confused(n) \/ \A w \in Ids : Active(w)' /\ wf[w].node = n => Stage(w) = "new"
  PROVE  WorkflowsInv'
<1>1. pass \in Pass /\ pass.pc = "nodes" /\ HistOK
  BY TypeParts DEF Visiting, PassOK
<1>2. CASE ~Schedulable(n, c, at)
  <2>1. pass'.pc = "nodes" /\ UNCHANGED hist
    BY <1>1, <1>2 DEF Schedule, Skip, Pass
  <2> QED BY <2>1, WorkflowsKept
<1>3. CASE Schedulable(n, c, at)
  <2>1. pass'.pc = "create" /\ pass'.node = n
    BY <1>1, <1>3 DEF Schedule, Pass
  <2>2. hist'.blind = IF \E w \in Ids : wf[w].node = n /\ Stage(w) = "new"
                      THEN hist.blind \cup {n} ELSE hist.blind
    BY <1>1, <1>3 DEF Schedule, HistOK
  <2>3. Confused(n)' \/ \A w \in Ids : Active(w)' => wf'[w].node # n
    <3>1. CASE Confused(n)
      BY <2>2, <3>1, ConfusedStays
    <3>2. CASE ~Confused(n)
      <4> SUFFICES ASSUME NEW w \in Ids, Active(w)', wf'[w].node = n PROVE Confused(n)'
        OBVIOUS
      <4>1. wf[w].node = n /\ Stage(w) = "new"
        BY <3>2 DEF NoneAdded
      <4> QED BY <2>2, <4>1 DEF Confused
    <3> QED BY <3>1, <3>2
  <2>4. FreeInv'
    BY <2>1, <2>3 DEF FreeInv, Confused
  <2>5. OneWorkflowUnlessConfused'
    BY <2>2, WorkflowsFewer
  <2> QED BY <2>4, <2>5 DEF WorkflowsInv
<1> QED BY <1>2, <1>3

LEMMA WorkflowsSkip ==
  ASSUME TypeOK, WorkflowsInv, NoneAdded, NEW n, Visiting(n), Skip(n) PROVE WorkflowsInv'
<1>1. pass'.pc = "nodes" /\ UNCHANGED hist
  BY TypeParts DEF Visiting, Skip, PassOK, Pass
<1> QED BY <1>1, WorkflowsKept

LEMMA WorkflowsVisit ==
  ASSUME TypeOK, WorkflowsInv, NEW n \in Nodes, NEW c \in Conditions,
         \/ VisitIdle(n, c) \/ VisitBusy(n, c) \/ VisitAbort(n, c)
         \/ VisitResume(n, c) \/ VisitError(n, c)
  PROVE  WorkflowsInv'
<1>1. CASE VisitBusy(n, c) \/ VisitError(n, c)
  <2>1. NoneAdded
    BY <1>1, WithoutAdds DEF VisitBusy, VisitError
  <2> QED BY <1>1, <2>1, WorkflowsSkip DEF VisitBusy, VisitError
<1>2. CASE VisitIdle(n, c)
  <2>1. NoneAdded /\ \A w \in Ids : Active(w)' => wf'[w] = wf[w]
    BY <1>2, WithoutAdds DEF VisitIdle
  <2>2. ASSUME NEW w \in Ids, Active(w)', wf[w].node = n PROVE Stage(w) = "new"
    <3>1. Active(w)
      BY <2>1, <2>2 DEF NoneAdded
    <3> QED BY <1>2, <2>2, <3>1 DEF VisitIdle, RunningOn, Matches, Running
  <2> QED BY <1>2, <2>1, <2>2, WorkflowsSchedule DEF VisitIdle
<1>3. CASE VisitAbort(n, c)
  <2>1. PICK r \in RunningOn(n), done \in SUBSET FinishedOn(n) :
               Suspended(r) /\ wf' = Without(done \cup {r})
    BY <1>3 DEF VisitAbort
  <2>2. NoneAdded /\ \A w \in Ids : Active(w)' => w # r
    BY <2>1, WithoutAdds
  <2>3. r \in Ids /\ Active(r) /\ Matches(n, r) /\ wf[r].node \in Nodes
    BY <2>1, TypeParts DEF RunningOn, Running, Active, WfOK
  <2>4. ASSUME ~Confused(n), NEW w \in Ids, Active(w)', wf[w].node = n PROVE FALSE
    <3>1. wf[r].node = n
      BY <2>3, <2>4 DEF Matches, Confused
    <3>2. Active(w) /\ w # r
      BY <2>2, <2>4 DEF NoneAdded
    <3> QED BY <2>3, <2>4, <3>1, <3>2 DEF WorkflowsInv, OneWorkflowUnlessConfused
  <2>5. Visiting(n) /\ (Schedule(n, c, node[n]) \/ Skip(n))
    BY <1>3 DEF VisitAbort
  <2> QED BY <2>2, <2>4, <2>5, WorkflowsSchedule, WorkflowsSkip
<1>4. CASE VisitResume(n, c)
  <2>1. PICK r \in RunningOn(n), done \in SUBSET FinishedOn(n) :
          /\ Suspended(r)
          /\ wf' = Without(done) \/ wf' = [Without(done) EXCEPT ![r] = Resumed(r)]
    BY <1>4 DEF VisitResume
  <2>2. NoneAdded
    <3>1. CASE wf' = Without(done)
      BY <3>1, WithoutAdds
    <3>2. CASE wf' = [Without(done) EXCEPT ![r] = Resumed(r)]
      <4>1. r \in Ids /\ Active(r) /\ wf[r] \in Workflow
        BY <2>1, TypeParts DEF RunningOn, Running, WfOK
      <4>2. Resumed(r).node = wf[r].node
        BY <4>1 DEF Resumed, Workflow
      <4>3. \A v \in Ids :
              wf'[v] = IF v = r THEN Resumed(r) ELSE IF v \in done THEN NoWorkflow ELSE wf[v]
        BY <3>2 DEF Without
      <4> QED BY <4>1, <4>2, <4>3 DEF NoneAdded, Active, Stage, NoWorkflow
    <3> QED BY <2>1, <3>1, <3>2
  <2> QED BY <1>4, <2>2, WorkflowsSkip DEF VisitResume
<1> QED BY <1>1, <1>2, <1>3, <1>4

LEMMA WorkflowsCreate ==
  ASSUME TypeOK, WorkflowsInv, Create PROVE WorkflowsInv'
<1>1. pass.pc = "create" /\ pass'.pc = "register" /\ hist'.blind = hist.blind
  BY TypeParts DEF Create, PassOK, Pass, HistOK
<1>2. PICK n \in Nodes, k \in Ids : n = pass.node /\ k = made + 1
  BY TypeParts, RemediationAssumption DEF Create, Ids, PassOK
<1>3. \A w \in Ids : w # k => wf'[w] = wf[w]
  BY <1>2, TypeParts DEF Create, WfOK
<1>4. wf'[k].node = n
  BY <1>2, TypeParts DEF Create, WfOK
<1>5. Confused(n) \/ \A w \in Ids : Active(w) => wf[w].node # n
  BY <1>1, <1>2 DEF WorkflowsInv, FreeInv
<1>6. OneWorkflowUnlessConfused'
  <2> SUFFICES ASSUME NEW v \in Ids, NEW w \in Ids, Active(v)', Active(w)',
                      wf'[v].node = wf'[w].node, v # w
               PROVE  Confused(wf[v].node)'
    BY DEF OneWorkflowUnlessConfused
  <2>1. PICK m : m = wf'[v].node
    OBVIOUS
  <2>2. CASE v # k /\ w # k
    <3>1. Confused(m)
      BY <1>3, <2>1, <2>2 DEF WorkflowsInv, OneWorkflowUnlessConfused, Active, Stage
    <3> QED BY <1>1, <2>1, <3>1 DEF Confused
  <2>3. CASE v = k \/ w = k
    <3>1. m = n
      BY <1>4, <2>1, <2>3
    <3>2. \E u \in Ids : Active(u) /\ wf[u].node = n
      BY <1>3, <2>1, <2>3, <3>1 DEF Active, Stage
    <3>3. Confused(m)
      BY <1>5, <3>1, <3>2
    <3> QED BY <1>1, <2>1, <3>3 DEF Confused
  <2> QED BY <2>2, <2>3
<1> QED BY <1>1, <1>6 DEF WorkflowsInv, FreeInv

LEMMA WorkflowsArgo ==
  ASSUME TypeOK, WorkflowsInv, Argo PROVE WorkflowsInv'
<1>1. PICK w \in Ids : /\ ArgoStep(w) \/ ArgoStepFails(w) \/ ArgoCollect(w)
                       /\ UNCHANGED operatorVars
  BY DEF Argo, ArgoStep
<1>2. NoneAdded
  <2>1. CASE ArgoCollect(w)
    BY <2>1, WithoutAdds DEF ArgoCollect
  <2>2. CASE ArgoStep(w) \/ ArgoStepFails(w)
    <3>1. PICK s \in Stages : To(w, s)
      BY <2>2, ArgoMoves
    <3>2. Active(w) /\ wf \in [Ids -> Workflow]
      BY <2>2, ArgoMoves, TypeParts DEF WfOK
    <3>3. wf'[w].node = wf[w].node /\ \A v \in Ids : v # w => wf'[v] = wf[v]
      BY <3>1, <3>2 DEF To, Workflow
    <3> QED BY <3>2, <3>3 DEF NoneAdded, Active, Stage
  <2> QED BY <1>1, <2>1, <2>2
<1>3. UNCHANGED hist \/ hist' = [hist EXCEPT !.untainted = @ \cup {wf[w].node}]
  BY <1>1 DEF ArgoStep, ArgoStart, ArgoTaint, ArgoDrain, ArgoReboot, ArgoTest, ArgoWait,
              ArgoUntaint, ArgoStepFails, ArgoCollect
<1>4. hist'.blind = hist.blind
  BY <1>3, TypeParts DEF HistOK
<1> QED BY <1>1, <1>2, <1>4, WorkflowsKept DEF operatorVars

LEMMA StepWorkflows ==
  ASSUME TypeOK, WorkflowsInv, [Next]_vars PROVE WorkflowsInv'
<1>1. CASE PassStart \/ Prepare \/ PrepareFails \/ CreateFails \/ Register
           \/ RegisterFails \/ PassEnd \/ Restart
  <2>1. NoneAdded
    <3>1. UNCHANGED wf
      BY <1>1 DEF PassStart, Prepare, PrepareFails, CreateFails, Register, RegisterFails,
                  PassEnd, Restart
    <3> QED BY <3>1, SameAdds
  <2>2. pass'.pc # "create"
    BY <1>1, ConstantTypes, TypeParts
       DEF PassStart, Prepare, PrepareFails, CreateFails, Register, RegisterFails, PassEnd,
           Restart, PassOK, Pass
  <2>3. hist'.blind = hist.blind
    BY <1>1, TypeParts
       DEF PassStart, Prepare, PrepareFails, CreateFails, Register, RegisterFails, PassEnd,
           Restart, HistOK, DropOlder, Lost
  <2> QED BY <2>1, <2>2, <2>3, WorkflowsKept
<1>2. CASE Visit \/ VisitFails
  <2>1. ASSUME NEW n \in Nodes, VisitHealthy(n) PROVE WorkflowsInv'
    BY <2>1, SameAdds, WorkflowsSkip DEF VisitHealthy
  <2> QED BY <1>2, <2>1, WorkflowsVisit DEF Visit, VisitFails
<1>3. CASE HandleDelete
  <2>1. NoneAdded
    BY <1>3, WithoutAdds DEF HandleDelete
  <2> QED BY <1>3, <2>1, WorkflowsKept DEF HandleDelete
<1>4. CASE Environment \/ UNCHANGED vars
  BY <1>4, SameAdds, WorkflowsKept DEF Environment, vars
<1> QED BY <1>1, <1>2, <1>3, <1>4, WorkflowsCreate, WorkflowsArgo DEF Next, PassStep

LEMMA WorkflowsAlways == Spec => []WorkflowsInv
<1>1. Init => WorkflowsInv
  BY ConstantTypes
     DEF Init, WorkflowsInv, FreeInv, OneWorkflowUnlessConfused, Active, Stage, NoWorkflow
<1>2. TypeOK /\ WorkflowsInv /\ [Next]_vars => WorkflowsInv'
  BY StepWorkflows
<1> QED BY <1>1, <1>2, RemediationTypeCorrect, PTL DEF Spec

\* For any nodes and names of nodes: HandleRemediation never gives a node a second
\* unfinished workflow, except where it passes over one that Argo has not started
\* or takes the workflow of another node for one of this node.
THEOREM WorkflowsApart == Spec => []OneWorkflowUnlessConfused
<1>1. WorkflowsInv => OneWorkflowUnlessConfused
  BY DEF WorkflowsInv
<1> QED BY <1>1, WorkflowsAlways, PTL

---------------------------------------------------------------------------
\* Taints: set while a node is disturbed, tolerated by those who must stay

Disrupting(w) == Stage(w) \in {"drain", "suspend", "reboot", "test", "wait"}

\* No workflow appears, none changes its node or its taint, and none begins to
\* disturb its node but by the step that sets the taint.
Onward ==
  \A w \in Ids :
    /\ Stage(w)' # "absent" => /\ Stage(w) # "absent"
                               /\ wf'[w].node = wf[w].node /\ wf'[w].taint = wf[w].taint
    /\ Disrupting(w)' => Disrupting(w) \/ ArgoTaint(w)

LEMMA OnwardWithout ==
  ASSUME NEW ws, wf' = Without(ws) PROVE Onward
BY DEF Onward, Disrupting, Without, Stage, NoWorkflow

LEMMA OnwardSame == ASSUME UNCHANGED wf PROVE Onward
BY DEF Onward, Disrupting, Stage

LEMMA OnwardResume ==
  ASSUME TypeOK, NEW r \in Ids, Suspended(r), NEW ws,
         wf' = [Without(ws) EXCEPT ![r] = Resumed(r)]
  PROVE  Onward
<1>1. wf[r] \in Workflow
  BY TypeParts DEF WfOK
<1>2. /\ Resumed(r).node = wf[r].node /\ Resumed(r).taint = wf[r].taint
      /\ Stage(r) = "autostart" => Resumed(r).stage = "taint"
  BY <1>1 DEF Resumed, Workflow, Stage
<1>3. \A w \in Ids :
        wf'[w] = IF w = r THEN Resumed(r) ELSE IF w \in ws THEN NoWorkflow ELSE wf[w]
  BY DEF Without
<1>4. Stage(r) = "autostart" \/ Stage(r) = "suspend"
  BY DEF Suspended
<1> QED BY <1>2, <1>3, <1>4 DEF Onward, Disrupting, Stage, NoWorkflow

\* Where each step of Argo takes a workflow.
LEMMA OnwardArgo ==
  ASSUME TypeOK, NEW w \in Ids, ArgoStep(w) \/ ArgoStepFails(w) PROVE Onward
<1>1. PICK s \in Stages : To(w, s)
  BY ArgoMoves
<1>2. Stage(w) # "absent" /\ wf \in [Ids -> Workflow]
  BY ArgoMoves, TypeParts DEF Active, WfOK
<1>3. /\ wf'[w].node = wf[w].node /\ wf'[w].taint = wf[w].taint /\ wf'[w].stage = s
      /\ \A v \in Ids : v # w => wf'[v] = wf[v]
  BY <1>1, <1>2 DEF To, Workflow
<1>4. Disrupting(w)' => Disrupting(w) \/ ArgoTaint(w)
  <2>1. CASE ArgoStart(w)
    <3>1. \E auto \in AutoStart : To(w, IF auto THEN "taint" ELSE "autostart")
      BY <2>1 DEF ArgoStart
    <3>2. wf'[w].stage \in {"taint", "autostart"}
      BY <1>2, <3>1 DEF To, Workflow
    <3> QED BY <3>2 DEF Disrupting, Stage
  <2>2. CASE ArgoUntaint(w) \/ ArgoStepFails(w)
    <3>1. wf'[w].stage \in {"Succeeded", "Failed"}
      BY <1>2, <2>2 DEF ArgoUntaint, ArgoStepFails, To, Workflow
    <3> QED BY <3>1 DEF Disrupting, Stage
  <2>3. CASE ArgoDrain(w) \/ ArgoReboot(w) \/ ArgoTest(w) \/ ArgoWait(w)
    BY <2>3 DEF ArgoDrain, ArgoReboot, ArgoTest, ArgoWait, At, Disrupting
  <2> QED BY <2>1, <2>2, <2>3 DEF ArgoStep
<1> QED BY <1>2, <1>3, <1>4 DEF Onward, Disrupting, Stage

LEMMA StepOnward ==
  ASSUME TypeOK, [Next]_vars, ~Create PROVE Onward
<1>1. CASE PassStart \/ Prepare \/ PrepareFails \/ CreateFails \/ Register
           \/ RegisterFails \/ PassEnd \/ Restart \/ Environment \/ UNCHANGED vars
  <2>1. UNCHANGED wf
    BY <1>1 DEF PassStart, Prepare, PrepareFails, CreateFails, Register, RegisterFails,
                PassEnd, Restart, Environment, vars
  <2> QED BY <2>1, OnwardSame
<1>2. CASE HandleDelete
  BY <1>2, OnwardWithout DEF HandleDelete
<1>3. CASE Visit \/ VisitFails
  <2>1. ASSUME NEW n \in Nodes, VisitHealthy(n) PROVE Onward
    BY <2>1, OnwardSame DEF VisitHealthy
  <2>2. ASSUME NEW n \in Nodes, NEW c \in Conditions,
               VisitIdle(n, c) \/ VisitBusy(n, c) \/ VisitAbort(n, c) \/ VisitError(n, c)
        PROVE  Onward
    BY <2>2, OnwardWithout DEF VisitIdle, VisitBusy, VisitAbort, VisitError
  <2>3. ASSUME NEW n \in Nodes, NEW c \in Conditions, VisitResume(n, c) PROVE Onward
    <3>1. PICK r \in RunningOn(n), done \in SUBSET FinishedOn(n) :
            /\ Suspended(r)
            /\ wf' = Without(done) \/ wf' = [Without(done) EXCEPT ![r] = Resumed(r)]
      BY <2>3 DEF VisitResume
    <3> QED BY <3>1, OnwardWithout, OnwardResume DEF RunningOn
  <2> QED BY <1>3, <2>1, <2>2, <2>3 DEF Visit, VisitFails
<1>4. CASE Argo
  <2>1. PICK w \in Ids : ArgoStep(w) \/ ArgoStepFails(w) \/ ArgoCollect(w)
    BY <1>4 DEF Argo
  <2> QED BY <2>1, OnwardArgo, OnwardWithout DEF ArgoCollect
<1> QED BY <1>1, <1>2, <1>3, <1>4 DEF Next, PassStep

\* What was said of a node in the history stays said.
LEMMA HistoryGrows ==
  ASSUME TypeOK, [Next]_vars
  PROVE  hist.blind \subseteq hist'.blind /\ hist.untainted \subseteq hist'.untainted
<1> USE TypeParts DEF HistOK
<1>1. CASE PassStart \/ CreateFails \/ Register \/ PassEnd \/ HandleDelete \/ Environment
           \/ UNCHANGED vars
  BY <1>1 DEF PassStart, CreateFails, Register, PassEnd, HandleDelete, Environment, vars
<1>2. CASE Prepare \/ PrepareFails
  BY <1>2 DEF Prepare, PrepareFails, DropOlder
<1>3. CASE RegisterFails \/ Restart
  BY <1>3 DEF RegisterFails, Restart, Lost
<1>4. CASE Create
  BY <1>4 DEF Create
<1>5. CASE Visit \/ VisitFails
  <2>1. PICK n \in Nodes : Skip(n) \/ \E c \in Conditions : \E at : Schedule(n, c, at)
    BY <1>5 DEF Visit, VisitFails, VisitHealthy, VisitIdle, VisitBusy, VisitAbort,
                VisitResume, VisitError
  <2> QED BY <2>1 DEF Skip, Schedule
<1>6. CASE Argo
  <2>1. UNCHANGED hist \/ \E w \in Ids : hist' = [hist EXCEPT !.untainted = @ \cup {wf[w].node}]
    BY <1>6 DEF Argo, ArgoStep, ArgoStart, ArgoTaint, ArgoDrain, ArgoReboot, ArgoTest,
                ArgoWait, ArgoUntaint, ArgoStepFails, ArgoCollect
  <2> QED BY <2>1
<1> QED BY <1>1, <1>2, <1>3, <1>4, <1>5, <1>6 DEF Next, PassStep

\* Only two steps remove a taint: untaint.sh, from the node of its workflow, and
\* the user, from a node without unfinished workflows.
LEMMA TaintsStay ==
  ASSUME TypeOK, [Next]_vars, NEW n \in Nodes
  PROVE  \/ node[n].taints \subseteq node'[n].taints
         \/ UserUntaint(n)
         \/ \E v \in Ids : ArgoUntaint(v) /\ wf[v].node = n
<1>0. node \in [Nodes -> Node]
  BY TypeParts DEF NodeOK
<1>1. CASE PassStart \/ Prepare \/ PrepareFails \/ Create \/ CreateFails \/ Register
           \/ RegisterFails \/ PassEnd \/ Restart \/ HandleDelete \/ VisitFails
           \/ UNCHANGED vars
  <2>1. UNCHANGED node
    BY <1>1 DEF PassStart, Prepare, PrepareFails, Create, CreateFails, Register,
                RegisterFails, PassEnd, Restart, HandleDelete, VisitFails, VisitError, vars
  <2> QED BY <2>1
<1>2. CASE Visit
  <2>1. PICK m \in Nodes : \/ UNCHANGED node
                           \/ \E b : \/ node' = [node EXCEPT ![m].abort = b]
                                     \/ node' = [node EXCEPT ![m].resume = b]
    BY <1>2 DEF Visit, VisitHealthy, VisitIdle, VisitBusy, VisitAbort, VisitResume
  <2> QED BY <1>0, <2>1 DEF Node
<1>3. CASE Argo
  <2>1. PICK v \in Ids : ArgoStep(v) \/ ArgoStepFails(v) \/ ArgoCollect(v)
    BY <1>3 DEF Argo
  <2>2. CASE ArgoUntaint(v)
    BY <1>0, <2>2 DEF ArgoUntaint, Node
  <2>3. CASE ~ArgoUntaint(v)
    <3>1. UNCHANGED node \/ node' = [node EXCEPT ![wf[v].node].taints = @ \cup {wf[v].taint}]
      BY <2>1, <2>3 DEF ArgoStep, ArgoStart, ArgoTaint, ArgoDrain, ArgoReboot, ArgoTest,
                        ArgoWait, ArgoStepFails, ArgoCollect
    <3> QED BY <1>0, <3>1 DEF Node
  <2> QED BY <2>2, <2>3
<1>4. CASE Environment
  <2>1. \/ UNCHANGED node
        \/ \E m \in Nodes :
             \/ UserUntaint(m) /\ node' = [node EXCEPT ![m].taints = {}]
             \/ \E b : \/ node' = [node EXCEPT ![m].abort = b]
                       \/ node' = [node EXCEPT ![m].resume = b]
                       \/ node' = [node EXCEPT ![m].bad = b]
                       \/ node' = [node EXCEPT ![m].upgrading = b]
    BY <1>4 DEF Environment, Flap, UserLabel, UserUntaint, UpgradeToggle, UserEdit, TimePasses
  <2> QED BY <1>0, <2>1 DEF Node
<1> QED BY <1>1, <1>2, <1>3, <1>4 DEF Next, PassStep

LEMMA StepTainted ==
  ASSUME TypeOK, TypeOK', WorkflowsInv, DisruptionTainted, [Next]_vars PROVE DisruptionTainted'
<1> SUFFICES ASSUME NEW w \in Ids, Disrupting(w)'
             PROVE  \/ wf'[w].taint \in node'[wf'[w].node].taints
                    \/ Confused(wf[w].node)' \/ wf'[w].node \in hist'.untainted
  BY DEF DisruptionTainted, Disrupting
<1>0. PICK n : n = wf'[w].node
  OBVIOUS
<1>1. ASSUME Confused(n) PROVE Confused(wf[w].node)'
  BY <1>0, <1>1, HistoryGrows, ConfusedStays DEF Confused
<1>2. CASE Create
  <2>1. made + 1 \in Ids /\ wf \in [Ids -> Workflow]
    BY <1>2, TypeParts, RemediationAssumption DEF Create, Ids, WfOK
  <2>2. w # made + 1 /\ UNCHANGED node
    BY <1>2, <2>1 DEF Create, Disrupting, Stage
  <2>3. wf'[w] = wf[w]
    BY <1>2, <2>1, <2>2 DEF Create
  <2>4. \/ wf[w].taint \in node[n].taints \/ Confused(n) \/ n \in hist.untainted
    BY <1>0, <2>3 DEF DisruptionTainted, Disrupting, Stage
  <2> QED BY <1>0, <1>1, <2>2, <2>3, <2>4, HistoryGrows
<1>3. CASE ~Create
  <2>1. Onward
    BY <1>3, StepOnward
  <2>2. Stage(w) # "absent" /\ wf[w].node = n /\ wf'[w].taint = wf[w].taint /\ n \in Nodes
    BY <1>0, <2>1, TypeParts DEF Onward, Disrupting, Stage, WfOK
  <2>3. CASE ArgoTaint(w)
    <3>1. \/ node' = [node EXCEPT ![n].taints = @ \cup {wf[w].taint}]
          \/ hist' = [hist EXCEPT !.untainted = @ \cup {n}]
      BY <2>2, <2>3 DEF ArgoTaint
    <3>2. wf[w].taint \in node'[n].taints \/ n \in hist'.untainted
      BY <2>2, <3>1, TypeParts DEF NodeOK, Node, HistOK
    <3> QED BY <1>0, <2>2, <3>2
  <2>4. CASE Disrupting(w)
    <3>1. wf[w].taint \in node[n].taints \/ Confused(n) \/ n \in hist.untainted
      BY <2>2, <2>4 DEF DisruptionTainted, Disrupting
    <3>2. CASE node[n].taints \subseteq node'[n].taints
      BY <1>0, <1>1, <2>2, <3>1, <3>2, HistoryGrows
    <3>3. CASE UserUntaint(n)
      BY <2>2, <2>4, <3>3 DEF UserUntaint, Disrupting, Active
    <3>4. ASSUME NEW v \in Ids, ArgoUntaint(v), wf[v].node = n PROVE Confused(n)
      <4>1. v # w /\ Active(v) /\ Active(w)
        BY <2>4, <3>4 DEF ArgoUntaint, At, Disrupting, Active
      <4> QED BY <2>2, <3>4, <4>1 DEF WorkflowsInv, OneWorkflowUnlessConfused
    <3> QED BY <1>1, <2>2, <3>2, <3>3, <3>4, TaintsStay
  <2> QED BY <2>1, <2>3, <2>4 DEF Onward
<1> QED BY <1>2, <1>3

\* For any nodes and any number of workflows: taint.sh keeps other workloads away
\* from a node for as long as its workflow drains, reboots or tests it, whatever
\* passes, Argo and users do meanwhile, unless the taint could not be set or
\* workflows of the node overlap.
THEOREM DisruptionShielded == Spec => []DisruptionTainted
<1>1. Init => DisruptionTainted
  BY DEF Init, DisruptionTainted, Stage, NoWorkflow
<1>2. TypeOK /\ TypeOK' /\ WorkflowsInv /\ DisruptionTainted /\ [Next]_vars
        => DisruptionTainted'
  BY StepTainted
<1> QED BY <1>1, <1>2, RemediationTypeCorrect, WorkflowsAlways, PTL DEF Spec

LEMMA StepTolerated ==
  ASSUME TypeOK, TypeOK', TolInv, TaintTolerated, [Next]_vars PROVE (TolInv /\ TaintTolerated)'
<1>1. CASE Create
  <2>0. pass.taint \in TaintKeys /\ DefaultTaint \in TaintKeys /\ used \in Nat
        /\ tol \in [Workloads -> SUBSET TaintKeys]
    BY TypeParts, RemediationAssumption DEF PassOK, Pass
  <2>1. TolInv'
    BY <1>1, <2>0 DEF Create, HandleDeviceConfigChanges, TolInv
  <2>2. used' = used => \A x \in Workloads : pass.taint \in tol'[x]
    BY <1>1, <2>0 DEF Create, HandleDeviceConfigChanges, CustomTaintsChanged, TolInv, Fault,
                      Disturb
  <2>3. hist'.tolErr = (used' # used)
    BY <1>1, TypeParts DEF Create, HistOK
  <2>4. made + 1 \in Ids /\ made' = made + 1
    BY <1>1, TypeParts, RemediationAssumption DEF Create, Ids
  <2>5. wf'[made'].taint = pass.taint
    BY <1>1, <2>4, TypeParts DEF Create, WfOK
  <2> QED BY <2>1, <2>2, <2>3, <2>5 DEF TaintTolerated
<1>2. CASE ~Create
  <2>1. UNCHANGED <<made, tol>> /\ (hist'.tolErr = hist.tolErr)
    <3>1. CASE PassStart \/ CreateFails \/ Register \/ PassEnd \/ HandleDelete \/ Environment
               \/ UNCHANGED vars
      BY <3>1 DEF PassStart, CreateFails, Register, PassEnd, HandleDelete, Environment, vars
    <3>2. CASE Prepare \/ PrepareFails
      BY <3>2, TypeParts DEF Prepare, PrepareFails, DropOlder, HistOK
    <3>3. CASE RegisterFails \/ Restart
      BY <3>3, TypeParts DEF RegisterFails, Restart, Lost, HistOK
    <3>4. CASE Visit \/ VisitFails
      <4>1. PICK n \in Nodes : Skip(n) \/ \E c \in Conditions : \E at : Schedule(n, c, at)
        BY <3>4 DEF Visit, VisitFails, VisitHealthy, VisitIdle, VisitBusy, VisitAbort,
                    VisitResume, VisitError
      <4>2. hist'.tolErr = hist.tolErr
        BY <4>1, TypeParts DEF Skip, Schedule, HistOK
      <4> QED BY <3>4, <4>2 DEF Visit, VisitFails
    <3>5. CASE Argo
      <4>1. \/ UNCHANGED hist
            \/ \E w \in Ids : hist' = [hist EXCEPT !.untainted = @ \cup {wf[w].node}]
        BY <3>5 DEF Argo, ArgoStep, ArgoStart, ArgoTaint, ArgoDrain, ArgoReboot, ArgoTest,
                    ArgoWait, ArgoUntaint, ArgoStepFails, ArgoCollect
      <4>2. hist'.tolErr = hist.tolErr
        BY <4>1, TypeParts DEF HistOK
      <4>3. UNCHANGED operatorVars
        BY <3>5 DEF Argo, ArgoStep
      <4> QED BY <4>2, <4>3 DEF operatorVars
    <3> QED BY <1>2, <3>1, <3>2, <3>3, <3>4, <3>5 DEF Next, PassStep
  <2>2. made > 0 => made \in Ids
    BY TypeParts, RemediationAssumption DEF Ids
  <2>3. Onward
    BY <1>2, StepOnward
  <2>4. made > 0 /\ Stage(made)' # "absent" =>
          Stage(made) # "absent" /\ wf'[made].taint = wf[made].taint
    BY <2>1, <2>2, <2>3 DEF Onward, Stage
  <2> QED BY <2>1, <2>4 DEF TolInv, TaintTolerated, Stage
<1> QED BY <1>1, <1>2

\* For any workloads and any custom taints: handleDeviceConfigChanges has all
\* workloads tolerate the taint of a workflow before the workflow is created, and
\* the newest workflow stays tolerated, unless an update failed.
THEOREM TaintsTolerated == Spec => []TaintTolerated
<1>1. Init => TolInv /\ TaintTolerated
  BY DEF Init, TolInv, TaintTolerated
<1>2. TypeOK /\ TypeOK' /\ TolInv /\ TaintTolerated /\ [Next]_vars => (TolInv /\ TaintTolerated)'
  BY StepTolerated
<1> QED BY <1>1, <1>2, RemediationTypeCorrect, PTL DEF Spec

\* The inductive invariant of HandleRemediation: the status object, the map of the
\* pass, the workflow in its hands and the workflows of the cluster agree.
THEOREM RemediationInvariant == Spec => []RemediationInv
<1>1. TypeOK /\ CountsInv /\ WorkflowsInv => RemediationInv
  BY DEF CountsInv, WorkflowsInv, RemediationInv
<1> QED BY <1>1, RemediationTypeCorrect, CountsAlways, WorkflowsAlways, PTL
====
