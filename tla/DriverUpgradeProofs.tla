------------------------ MODULE DriverUpgradeProofs ------------------------
(***************************************************************************)
(* Theorems about DriverUpgrade, for every value of its constants.         *)
(***************************************************************************)
EXTENDS DriverUpgrade, FiniteSetTheorems, TLAPS

---------------------------------------------------------------------------
\* Type correctness

\* The conjuncts of TypeOK that are more than the type of a variable
PassOK == /\ pass \in Pass
          /\ pass.pc # "idle" => pass.dc \in DCs /\ pass.spec \in Versions
GoOK == /\ go \in [Goroutines -> Goroutine]
        /\ \A g \in Goroutines :
             Active(g) => go[g].node \in Nodes /\ go[g].spec \in Versions
MemoryOK == /\ nodeStatus \in [Nodes -> UpgradeState]
            /\ startTime \in [Nodes -> Time] /\ bootID \in [Nodes -> BootIds]
            /\ inited \in BOOLEAN /\ currentSpec \in Labels
HistoryOK == /\ orphaned \in BOOLEAN /\ owesReboot \in [Nodes -> BOOLEAN]
             /\ used \in Used

LEMMA TypeParts ==
  TypeOK <=> /\ dc \in [DCs -> DeviceConfig] /\ cr \in [Nodes -> ModuleStatus]
             /\ node \in [Nodes -> Node]
             /\ MemoryOK /\ PassOK /\ GoOK /\ HistoryOK
BY DEF TypeOK, MemoryOK, PassOK, GoOK, HistoryOK

LEMMA Records ==
  /\ NoPass \in Pass /\ NoPass.pc = "idle"
  /\ NoGoroutine \in Goroutine /\ NoGoroutine.pc = "idle"
  /\ NoStatus \in ModuleStatus
  /\ TypeOK => \A n \in Nodes : SeenOf(n) \in Seen
BY ConstantsAssumption
   DEF NoPass, Pass, NoGoroutine, Goroutine, NoStatus, ModuleStatus, Seen,
       SeenOf, TypeOK, Node, Labels, BootIds, Time, UpgradeState

LEMMA InitTypeOK == Init => TypeOK
<1> SUFFICES ASSUME Init PROVE TypeOK
  OBVIOUS
<1> USE ConstantsAssumption, Records
<1>1. dc \in [DCs -> DeviceConfig] /\ node \in [Nodes -> Node]
  BY DEF Init, DeviceConfig, Node, Labels
<1>2. cr \in [Nodes -> ModuleStatus]
  BY DEF Init, ModuleStatus, NoStatus, Labels, UpgradeState
<1>3. used \in Used
  BY DEF Init, Used
<1> QED
  BY <1>1, <1>2, <1>3
     DEF Init, TypeOK, UpgradeState, Time, BootIds, Labels, Active

\* What the steps of a goroutine do to the goroutines
LEMMA GotoOK ==
  ASSUME GoOK, NEW g \in Goroutines, Active(g), NEW pc, Goto(g, pc),
         pc \in {"hnuCordon", "hnuDrain", "hnuLabel", "rbBegin", "rbDriver",
                 "rbWait", "rbMark", "dpBegin", "dpWait", "dpForce"}
  PROVE  GoOK'
BY DEF GoOK, Goto, Goroutine, Active

LEMMA EndOK ==
  ASSUME GoOK, NEW g \in Goroutines, End(g)
  PROVE  GoOK'
BY Records DEF GoOK, End, Active

LEMMA SpawnOK ==
  ASSUME TypeOK, pass.pc # "idle", NEW g \in Goroutines, NEW n \in Nodes,
         NEW pc \in {"hnuCheck", "rbBegin", "dpBegin", "dpBeginForce"},
         NEW t \in BOOLEAN, NEW b \in Nat, Spawn(g, pc, n, t, b)
  PROVE  GoOK'
BY DEF GoOK, Spawn, Active, TypeOK, Goroutine, Labels, BootIds

LEMMA StatusOK ==
  ASSUME nodeStatus \in [Nodes -> UpgradeState], NEW n \in Nodes,
         NEW s \in UpgradeState, SetStatus(n, s)
  PROVE  nodeStatus' \in [Nodes -> UpgradeState]
BY DEF SetStatus

LEMMA FaultOK ==
  ASSUME used \in Used, Fault \/ NoFault
  PROVE  used' \in Used /\ used'.restarts = used.restarts
BY DEF Fault, NoFault, Used

LEMMA GoTypeOK ==
  ASSUME TypeOK, NEW g \in Goroutines, GoStep(g)
  PROVE  TypeOK'
<1> DEFINE n == go[g].node
<1>0. /\ Active(g) => n \in Nodes /\ go[g].spec \in Versions
      /\ go[g] \in Goroutine /\ GoOK /\ used \in Used
      /\ nodeStatus \in [Nodes -> UpgradeState]
      /\ node \in [Nodes -> Node]
  BY DEF GoOK, TypeOK
<1>1. Active(g)
  BY DEF GoStep, Active, HnuCheckLabel, HnuCordon, HnuDrain, HnuLabel, RbBegin,
         RbDriver, RbWait, RbMark, DpBegin, DpWait, DpForce
<1>2. GoOK'
  <2>1. CASE End(g)
    BY <2>1, <1>0, EndOK
  <2>2. CASE \E pc \in {"hnuCordon", "hnuDrain", "hnuLabel", "rbBegin", "rbDriver",
                  "rbWait", "rbMark", "dpBegin", "dpWait", "dpForce"} : Goto(g, pc)
    BY <2>2, <1>0, <1>1, GotoOK
  <2> QED
    BY <2>1, <2>2 DEF GoStep, HnuCheckLabel, HnuCordon, HnuDrain, HnuLabel, RbBegin,
         RbDriver, RbWait, RbMark, DpBegin, DpWait, DpForce, EndWith, EndWithIfValid
<1>3. used' \in Used
  BY <1>0, FaultOK DEF GoStep, HnuCheckLabel, HnuCordon, HnuDrain, HnuLabel, RbBegin,
         RbDriver, RbWait, RbMark, DpBegin, DpWait, DpForce, RemovePod, NoFault
<1>4. nodeStatus' \in [Nodes -> UpgradeState]
  <2>1. CASE UNCHANGED nodeStatus
    BY <2>1, <1>0
  <2>2. CASE \E s \in UpgradeState : SetStatus(n, s)
    BY <2>2, <1>0, <1>1, StatusOK
  <2> QED
    BY <2>1, <2>2 DEF GoStep, HnuCheckLabel, HnuCordon, HnuDrain, HnuLabel, RbBegin,
         RbDriver, RbWait, RbMark, DpBegin, DpWait, DpForce, EndWith, EndWithIfValid,
         UpgradeState
<1>5. node' \in [Nodes -> Node]
  <2>1. CASE UNCHANGED node
    BY <2>1, <1>0
  <2>2. CASE HnuCordon(g)
    <3>1. go[g].taint \in BOOLEAN /\ node[n].taint \in BOOLEAN
      BY <1>0, <1>1 DEF Goroutine, Node
    <3>2. (node[n].taint \/ ~go[g].taint) \in BOOLEAN
      BY <3>1
    <3> DEFINE late == node[n].late \/ (Abandoned(g) /\ ~go[g].taint /\ ~node[n].taint)
               tainted == [node EXCEPT ![n].taint = @ \/ ~go[g].taint]
    <3>3. late \in BOOLEAN
      BY <1>0, <1>1 DEF Node
    <3>4. tainted \in [Nodes -> Node]
      BY <3>2, <1>0, <1>1 DEF Node
    <3>5. CordonedBy(g) = [tainted EXCEPT ![n].late = late]
      BY <1>0, <1>1 DEF CordonedBy, Node
    <3> HIDE DEF late, tainted
    <3>6. CordonedBy(g) \in [Nodes -> Node]
      BY <3>3, <3>4, <3>5, <1>0, <1>1 DEF Node
    <3> QED
      BY <2>2, <3>6, <1>0 DEF HnuCordon
  <2>3. CASE HnuLabel(g)
    BY <2>3, <1>0, <1>1 DEF HnuLabel, Labels, Node
  <2>4. CASE RbBegin(g)
    <3>1. ASSUME NEW p \in {"none", node[n].pod}
          PROVE  [node EXCEPT ![n].pod = p, ![n].label = go[g].spec] \in [Nodes -> Node]
      BY <1>0, <1>1 DEF Node, Labels
    <3>2. [node EXCEPT ![n].pod = "none"] \in [Nodes -> Node]
      BY <1>0, <1>1 DEF Node
    <3> QED
      BY <2>4, <1>0, <3>1, <3>2 DEF RbBegin
  <2>5. CASE RbDriver(g)
    <3>1. (node[n].late \/ Abandoned(g)) \in BOOLEAN
      BY <1>0, <1>1 DEF Node
    <3> QED
      BY <2>5, <3>1, <1>0, <1>1 DEF RbDriver, Node
  <2>6. CASE DpWait(g) \/ DpForce(g)
    <3>1. [node EXCEPT ![n].pod = "none"] \in [Nodes -> Node]
      BY <1>0, <1>1 DEF Node
    <3> QED
      BY <2>6, <3>1, <1>0 DEF DpWait, DpForce, RemovePod
  <2> QED
    BY <2>1, <2>2, <2>3, <2>4, <2>5, <2>6
       DEF GoStep, HnuCheckLabel, HnuDrain, RbWait, RbMark, DpBegin
<1>6. bootID' \in [Nodes -> BootIds] /\ owesReboot' \in [Nodes -> BOOLEAN]
  <2>1. go[g].boot \in BootIds /\ node[n].boot \in BootIds
    BY <1>0, <1>1 DEF Goroutine, Node, BootIds
  <2>2. bootID \in [Nodes -> BootIds] /\ owesReboot \in [Nodes -> BOOLEAN]
    BY DEF TypeOK
  <2>3. CASE RbBegin(g)
    BY <2>2, <2>3, <1>0, <1>1 DEF RbBegin
  <2>4. CASE RbDriver(g)
    BY <2>1, <2>2, <2>4, <1>0, <1>1 DEF RbDriver
  <2>5. CASE RbWait(g)
    BY <2>1, <2>2, <2>5, <1>0, <1>1 DEF RbWait
  <2> QED
    BY <2>2, <2>3, <2>4, <2>5
       DEF GoStep, HnuCheckLabel, HnuCordon, HnuDrain, HnuLabel, RbMark, DpBegin,
           DpWait, DpForce
<1>7. GoFrame
  BY DEF GoStep, HnuCheckLabel, HnuCordon, HnuDrain, HnuLabel, RbBegin,
         RbDriver, RbWait, RbMark, DpBegin, DpWait, DpForce
<1> QED
  BY <1>2, <1>3, <1>4, <1>5, <1>6, <1>7
     DEF GoFrame, manager, TypeOK, GoOK, Active

\* What the steps of a pass do to its locals
LEMMA VisitedOK ==
  ASSUME PassOK, NEW n
  PROVE  /\ Visited(n) \in Pass /\ Visited(n).pc = pass.pc
         /\ Visited(n).dc = pass.dc /\ Visited(n).spec = pass.spec
BY DEF PassOK, Visited, Pass

LEMMA ClearOK ==
  ASSUME nodeStatus \in [Nodes -> UpgradeState], orphaned \in BOOLEAN,
         ClearNodeStatus \/ UNCHANGED <<nodeStatus, orphaned>>
  PROVE  nodeStatus' \in [Nodes -> UpgradeState] /\ orphaned' \in BOOLEAN
BY DEF ClearNodeStatus, LeaveBehind, UpgradeState

LEMMA BeginPassTypeOK ==
  ASSUME TypeOK, NEW d \in DCs, BeginPass(d)
  PROVE  TypeOK'
<1>1. dc[d].spec \in Versions
  BY DEF TypeOK, DeviceConfig
<1>2. \A n \in Nodes : SeenOf(n) \in Seen
  BY Records
<1>3. PassOK'
  <2>1. [n \in Nodes |-> SeenOf(n)] \in [Nodes -> Seen]
    BY <1>2
  <2>2. {n \in NodesOf(d) : inited \/ cr[n].has} \in SUBSET Nodes
    BY DEF NodesOf
  <2> DEFINE todo == {n \in NodesOf(d) : inited \/ cr[n].has}
             seen == [n \in Nodes |-> SeenOf(n)]
             pc == IF inited THEN "visit" ELSE "init"
  <2>3. pass' = [NoPass EXCEPT !.pc = pc, !.dc = d, !.spec = dc[d].spec,
                               !.seen = seen, !.todo = todo]
    BY DEF BeginPass
  <2>4. pc \in {"visit", "init"}
    OBVIOUS
  <2> HIDE DEF todo, seen, pc
  <2> QED
    BY <2>1, <2>2, <2>3, <2>4, <1>1 DEF PassOK, NoPass, Pass, Labels, seen, todo
<1>4. nodeStatus' \in [Nodes -> UpgradeState] /\ orphaned' \in BOOLEAN
      /\ currentSpec' \in Labels
  BY <1>1, ClearOK DEF BeginPass, NoteSpec, TypeOK, Labels
<1> QED
  BY <1>3, <1>4 DEF BeginPass, TypeOK, PassOK, Active

LEMMA InitStepTypeOK ==
  ASSUME TypeOK, InitStep
  PROVE  TypeOK'
<1>1. /\ PassOK /\ GoOK /\ nodeStatus \in [Nodes -> UpgradeState]
      /\ orphaned \in BOOLEAN /\ used \in Used
  BY TypeParts DEF TypeOK
<1>2. pass.pc = "init"
  BY DEF InitStep, InitCopy, InitStartedNoReboot, InitStartedReboot,
         InitStartedRebooted, InitStartedSkip, InitRebootInProgress,
         InitRebootDone, EndInit, InitEntry
<1>3. ASSUME NEW n \in Nodes, Initialised(n) PROVE PassOK'
  BY <1>1, <1>3 DEF Initialised, PassOK, Pass
<1>4. ASSUME NEW n \in Nodes, NEW g \in Goroutines,
             NEW pc \in {"rbBegin", "dpBegin", "dpBeginForce"},
             Spawn(g, pc, n, FALSE, node[n].boot)
      PROVE  GoOK'
  <2>1. node[n].boot \in Nat
    BY DEF TypeOK, Node
  <2>2. pc \in {"hnuCheck", "rbBegin", "dpBegin", "dpBeginForce"}
    OBVIOUS
  <2>3. pass.pc # "idle"
    BY <1>2
  <2> QED
    BY <1>4, <2>1, <2>2, <2>3, SpawnOK, Zenon
<1>5. ASSUME NEW n \in Nodes, InitCopy(n) PROVE TypeOK'
  <2>1. cr[n].status \in UpgradeState
    BY DEF TypeOK, ModuleStatus
  <2>2. nodeStatus' \in [Nodes -> UpgradeState]
    BY <1>1, <1>5, <2>1, StatusOK DEF InitCopy
  <2> QED
    BY <1>3, <1>5, <2>2
       DEF InitCopy, InitEntry, manager, TypeOK, PassOK, Active
<1>6. ASSUME NEW n \in Nodes, InitStartedNoReboot(n) PROVE TypeOK'
  <2>1. nodeStatus' \in [Nodes -> UpgradeState]
    BY <1>1, <1>6, StatusOK DEF InitStartedNoReboot, UpgradeState
  <2>2. GoOK'
    BY <1>4, <1>6 DEF InitStartedNoReboot
  <2> QED
    BY <1>3, <1>6, <2>1, <2>2
       DEF InitStartedNoReboot, InitEntry, manager, TypeOK, PassOK, GoOK, Active
<1>7. ASSUME NEW n \in Nodes, InitStartedReboot(n) PROVE TypeOK'
  <2>1. PICK g \in Goroutines :
          /\ Spawn(g, "rbBegin", n, FALSE, node[n].boot)
          /\ pass' = [pass EXCEPT !.todo = @ \ {n}, !.sync = g]
    BY <1>7 DEF InitStartedReboot
  <2>2. GoOK'
    BY <1>4, <2>1
  <2>3. PassOK'
    BY <1>1, <2>1 DEF PassOK, Pass
  <2> QED
    BY <1>7, <2>2, <2>3
       DEF InitStartedReboot, InitEntry, manager, TypeOK, PassOK, GoOK, Active
<1>8. ASSUME NEW n \in Nodes, InitStartedRebooted(n) PROVE TypeOK'
  <2>1. GoOK'
    BY <1>4, <1>8 DEF InitStartedRebooted
  <2>2. node[n].boot \in BootIds
    BY DEF TypeOK, Node, BootIds
  <2> QED
    BY <1>3, <1>8, <2>1, <2>2
       DEF InitStartedRebooted, InitEntry, manager, TypeOK, PassOK, GoOK, Active
<1>9. ASSUME NEW n \in Nodes, InitStartedSkip(n) PROVE TypeOK'
  <2>1. used' \in Used
    BY <1>1, <1>9, FaultOK DEF InitStartedSkip
  <2> QED
    BY <1>3, <1>9, <2>1
       DEF InitStartedSkip, InitEntry, manager, TypeOK, PassOK, Active
<1>10. ASSUME NEW n \in Nodes, InitRebootInProgress(n) PROVE TypeOK'
  <2>1. nodeStatus' \in [Nodes -> UpgradeState]
    BY <1>1, <1>10, StatusOK DEF InitRebootInProgress, UpgradeState
  <2>2. GoOK'
    BY <1>1, <1>4, <1>10 DEF InitRebootInProgress, GoOK, Active
  <2>3. used' \in Used
    BY <1>1, <1>10, FaultOK DEF InitRebootInProgress
  <2> QED
    BY <1>3, <1>10, <2>1, <2>2, <2>3
       DEF InitRebootInProgress, InitEntry, manager, TypeOK, PassOK, GoOK, Active
<1>11. ASSUME InitRebootDone PROVE TypeOK'
  <2>1. PassOK'
    BY <1>1, <1>11 DEF InitRebootDone, PassOK, Pass
  <2> QED
    BY <1>11, <2>1
       DEF InitRebootDone, memory, history, manager, TypeOK, PassOK, Active
<1>12. ASSUME EndInit PROVE TypeOK'
  <2>1. PassOK'
    BY <1>1, <1>12 DEF EndInit, PassOK, Pass, NodesOf
  <2>2. /\ nodeStatus' \in [Nodes -> UpgradeState] /\ orphaned' \in BOOLEAN
        /\ currentSpec' \in Labels
    BY <1>1, <1>12, ClearOK DEF EndInit, NoteSpec, PassOK, Pass
  <2> QED
    BY <1>12, <2>1, <2>2 DEF EndInit, TypeOK, PassOK, Active
<1> QED
  BY <1>5, <1>6, <1>7, <1>8, <1>9, <1>10, <1>11, <1>12 DEF InitStep

LEMMA VisitTypeOK ==
  ASSUME TypeOK, NEW n \in Nodes, VisitStep(n)
  PROVE  TypeOK'
<1>1. /\ PassOK /\ GoOK /\ nodeStatus \in [Nodes -> UpgradeState]
      /\ used \in Used /\ startTime \in [Nodes -> Time]
      /\ node \in [Nodes -> Node] /\ pass.seen[n] \in Seen
  BY TypeParts DEF TypeOK, Pass
<1>2. pass.pc = "visit" /\ pass.spec \in Versions
  <2>1. \E a \in BOOLEAN : Visiting(n, a)
    BY DEF VisitStep, VisitInit, VisitTimedOut, VisitFailed, VisitRetry,
           VisitNmcMissing, VisitStarted, VisitReady, VisitClassify,
           VisitUncordonFails
  <2> QED
    BY <1>1, <2>1 DEF Visiting, PassOK
<1>3. ASSUME GoOn PROVE PassOK' /\ UNCHANGED startTime
  BY <1>1, <1>3 DEF GoOn, PassOK, Pass
<1>4. ASSUME CountFailed(n) PROVE PassOK' /\ startTime' \in [Nodes -> Time]
  BY <1>1, <1>4 DEF CountFailed, PassOK, Pass, Time
<1>5. ASSUME \/ pass' = Visited(n) \/ pass' = [Visited(n) EXCEPT !.inprog = @ \cup {n}]
             \/ pass' = [Visited(n) EXCEPT !.cand = IF pass.seen[n].ready
                                                 THEN @ \cup {n} ELSE @]
      PROVE  PassOK'
  <2>1. /\ Visited(n) \in Pass /\ Visited(n).pc = pass.pc
        /\ Visited(n).dc = pass.dc /\ Visited(n).spec = pass.spec
    BY <1>1, VisitedOK
  <2> DEFINE V == Visited(n)
  <2> HIDE DEF V
  <2>2. CASE pass' = V
    BY <1>1, <2>1, <2>2 DEF PassOK, V
  <2>3. CASE pass' = [V EXCEPT !.inprog = @ \cup {n}]
    BY <1>1, <2>1, <2>3 DEF PassOK, V, Pass
  <2>4. CASE pass' = [V EXCEPT !.cand = IF pass.seen[n].ready THEN @ \cup {n} ELSE @]
    BY <1>1, <2>1, <2>4 DEF PassOK, V, Pass
  <2> QED
    BY <1>5, <2>2, <2>3, <2>4 DEF V
<1>6. Uncordoned(n) \in [Nodes -> Node]
  <2>1. (node[n].taint /\ ~pass.seen[n].taint) \in BOOLEAN
    BY <1>1 DEF Node, Seen
  <2> QED
    BY <1>1, <2>1 DEF Uncordoned, Node
<1>7. ASSUME NEW v \in Labels
      PROVE  [node EXCEPT ![n].label = v] \in [Nodes -> Node]
  BY <1>1, <1>7 DEF Node
<1>8. ASSUME NEW s \in UpgradeState, NEW ok \in BOOLEAN, Classify(n, s, ok)
      PROVE  /\ node' \in [Nodes -> Node] /\ PassOK'
             /\ nodeStatus' \in [Nodes -> UpgradeState]
  <2>1. node' \in [Nodes -> Node]
    BY <1>1, <1>2, <1>7, <1>8 DEF Classify, Relabel, Labels
  <2>2. PassOK'
    BY <1>5, <1>8 DEF Classify
  <2>3. nodeStatus' \in [Nodes -> UpgradeState]
    BY <1>1, <1>8, StatusOK DEF Classify, UpgradeState
  <2> QED
    BY <2>1, <2>2, <2>3
<1>9. nodeStatus[n] \in UpgradeState
  BY <1>1
<1>10. UNCHANGED <<dc, cr, bootID, manager, go, owesReboot>>
  BY DEF VisitStep, VisitInit, VisitTimedOut, VisitFailed, VisitRetry,
         VisitNmcMissing, VisitStarted, VisitReady, VisitClassify,
         VisitUncordonFails, Visiting
<1>11. PassOK'
  BY <1>3, <1>4, <1>5, <1>8, <1>9
     DEF VisitStep, VisitInit, VisitTimedOut, VisitFailed, VisitRetry,
         VisitNmcMissing, VisitStarted, VisitReady, VisitClassify,
         VisitUncordonFails, UpgradeState
<1>12. nodeStatus' \in [Nodes -> UpgradeState]
  <2>1. CASE UNCHANGED nodeStatus
    BY <1>1, <2>1
  <2>2. CASE \E s \in UpgradeState : SetStatus(n, s)
    BY <1>1, <2>2, StatusOK
  <2> QED
    BY <1>8, <1>9, <2>1, <2>2
       DEF VisitStep, VisitInit, VisitTimedOut, VisitFailed, VisitRetry,
           VisitNmcMissing, VisitStarted, VisitReady, VisitClassify,
           VisitUncordonFails, UpgradeState
<1>13. node' \in [Nodes -> Node]
  <2>1. ResetLabel(n) \in Labels
    BY <1>1 DEF ResetLabel, Node
  <2>2. [node EXCEPT ![n].retry = FALSE, ![n].label = ResetLabel(n)] \in [Nodes -> Node]
    BY <1>1, <2>1 DEF Node
  <2>3. [node EXCEPT ![n].retry = FALSE] \in [Nodes -> Node]
    BY <1>1 DEF Node
  <2> QED
    BY <1>1, <1>6, <1>8, <1>9, <2>2, <2>3
       DEF VisitStep, VisitInit, VisitTimedOut, VisitFailed, VisitRetry,
           VisitNmcMissing, VisitStarted, VisitReady, VisitClassify,
           VisitUncordonFails, UpgradeState
<1>14. startTime' \in [Nodes -> Time]
  BY <1>1, <1>3, <1>4
     DEF VisitStep, VisitInit, VisitTimedOut, VisitFailed, VisitRetry,
         VisitNmcMissing, VisitStarted, VisitReady, VisitClassify,
         VisitUncordonFails, Time
<1>15. used' \in Used /\ orphaned' \in BOOLEAN
  <2>1. Fault \/ NoFault
    BY DEF VisitStep, VisitInit, VisitTimedOut, VisitFailed, VisitRetry,
           VisitNmcMissing, VisitStarted, VisitReady, VisitClassify,
           VisitUncordonFails, NoFault
  <2> QED
    BY <1>1, <2>1, FaultOK
       DEF TypeOK, VisitStep, VisitInit, VisitTimedOut, VisitFailed, VisitRetry,
           VisitNmcMissing, VisitStarted, VisitReady, VisitClassify,
           VisitUncordonFails
<1> QED
  BY <1>10, <1>11, <1>12, <1>13, <1>14, <1>15
     DEF manager, TypeOK, PassOK, Active

LEMMA PassStepTypeOK ==
  ASSUME TypeOK, PassStep
  PROVE  TypeOK'
<1>1. PassOK /\ GoOK /\ used \in Used
  BY TypeParts DEF TypeOK
<1>2. ASSUME NEW n \in Nodes, StartNode(n) PROVE TypeOK'
  <2>1. pass.seen[n].taint \in BOOLEAN /\ pass.seen[n].boot \in Nat
    BY <1>1 DEF PassOK, Pass, Seen
  <2>2. pass.pc # "idle"
    BY <1>2 DEF StartNode
  <2>3. GoOK'
    BY <1>2, <2>1, <2>2, SpawnOK DEF StartNode
  <2>4. PassOK'
    BY <1>1, <1>2 DEF StartNode, PassOK, Pass
  <2> QED
    BY <1>2, <2>3, <2>4
       DEF StartNode, SetStatus, manager, history, TypeOK, PassOK, GoOK, Active,
           UpgradeState, Time
<1>3. ASSUME NEW pc \in {"select", "label", "publish"}, PassGoesTo(pc), pass.pc # "idle",
             node' \in [Nodes -> Node]
      PROVE  TypeOK'
  <2>1. PassOK'
    BY <1>1, <1>3 DEF PassGoesTo, PassOK, Pass
  <2> QED
    BY <1>3, <2>1 DEF PassGoesTo, memory, history, manager, TypeOK, PassOK, Active
<1>4. ASSUME EndVisit \/ EndSelect PROVE TypeOK'
  BY <1>3, <1>4 DEF EndVisit, EndSelect, TypeOK
<1>5. ASSUME HandleKMMVersionLabel PROVE TypeOK'
  <2>1. pass.spec \in Labels
    BY <1>1 DEF PassOK, Pass
  <2>2. \A n \in Nodes : [node[n] EXCEPT !.label = pass.spec] \in Node
    BY <2>1 DEF TypeOK, Node
  <2>3. node' \in [Nodes -> Node]
    BY <1>5, <2>2 DEF HandleKMMVersionLabel, TypeOK
  <2> QED
    BY <1>3, <1>5, <2>3 DEF HandleKMMVersionLabel
<1>6. ASSUME PublishStatus PROVE TypeOK'
  <2>1. \A n \in Nodes : PublishedStart(n) \in Time /\ PublishedBoot(n) \in BootIds
    BY DEF PublishedStart, PublishedBoot, TypeOK, ModuleStatus
  <2>2. \A n \in Nodes : nodeStatus[n] \in UpgradeState /\ node[n].nmc \in Labels
    BY DEF TypeOK, Node
  <2>3. \A n \in Nodes :
          [has |-> TRUE, status |-> nodeStatus[n], image |-> node[n].nmc,
           start |-> PublishedStart(n), boot |-> PublishedBoot(n)] \in ModuleStatus
    BY <2>1, <2>2 DEF ModuleStatus
  <2>4. cr' \in [Nodes -> ModuleStatus]
    BY <1>6, <2>3 DEF PublishStatus, TypeOK
  <2>5. PassOK'
    BY <1>6, Records DEF PublishStatus, PassOK
  <2> QED
    BY <1>6, <2>4, <2>5
       DEF PublishStatus, memory, history, manager, TypeOK, PassOK, Active
<1>7. ASSUME ReconcileError PROVE TypeOK'
  <2>1. PassOK'
    BY <1>7, Records DEF ReconcileError, PassOK
  <2>2. used' \in Used
    BY <1>1, <1>7, FaultOK DEF ReconcileError
  <2> QED
    BY <1>7, <2>1, <2>2 DEF ReconcileError, memory, manager, TypeOK, PassOK, Active
<1> QED
  BY <1>2, <1>4, <1>5, <1>6, <1>7, VisitTypeOK DEF PassStep

LEMMA BeginDeleteTypeOK ==
  ASSUME TypeOK, NEW d \in DCs, BeginDelete(d)
  PROVE  TypeOK'
<1>1. dc[d].spec \in Versions /\ node \in [Nodes -> Node]
  BY DEF TypeOK, DeviceConfig
<1>2. PassOK'
  <2> DEFINE seen == [n \in Nodes |-> [NoPass.seen[n] EXCEPT !.taint = node[n].taint]]
  <2>1. seen \in [Nodes -> Seen]
    <3>1. \A n \in Nodes : NoPass.seen[n] \in Seen
      BY Records DEF Pass
    <3>2. \A n \in Nodes : node[n].taint \in BOOLEAN
      BY <1>1 DEF Node
    <3> QED
      BY <3>1, <3>2 DEF Seen
  <2>2. pass' = [NoPass EXCEPT !.pc = "delete", !.dc = d, !.spec = dc[d].spec,
                               !.todo = NodesOf(d), !.seen = seen]
    BY DEF BeginDelete
  <2>3. NodesOf(d) \in SUBSET Nodes
    BY DEF NodesOf
  <2> HIDE DEF seen
  <2> QED
    BY <2>1, <2>2, <2>3, <1>1, Records DEF PassOK, Pass, Labels
<1>3. node' \in [Nodes -> Node]
  <2>1. \A n \in Nodes : [node[n] EXCEPT !.late = FALSE] \in Node
    BY <1>1 DEF Node
  <2> QED
    BY <1>1, <2>1 DEF BeginDelete
<1> QED
  BY <1>2, <1>3 DEF BeginDelete, LeaveBehind, memory, manager, TypeOK, PassOK, Active

LEMMA DeleteStepTypeOK ==
  ASSUME TypeOK, DeleteStep
  PROVE  TypeOK'
<1>1. /\ PassOK /\ GoOK /\ nodeStatus \in [Nodes -> UpgradeState]
      /\ used \in Used /\ orphaned \in BOOLEAN /\ node \in [Nodes -> Node]
      /\ dc \in [DCs -> DeviceConfig]
  BY TypeParts DEF TypeOK
<1>2. ASSUME NEW n \in Nodes, DeleteUncordon(n) PROVE TypeOK'
  <2>1. (node[n].taint /\ ~pass.seen[n].taint) \in BOOLEAN
    BY <1>1 DEF Node
  <2>2. Uncordoned(n) \in [Nodes -> Node]
    BY <1>1, <2>1 DEF Uncordoned, Node
  <2>3. PassOK'
    BY <1>1, <1>2 DEF DeleteUncordon, PassOK, Pass
  <2>4. used' \in Used /\ node' \in [Nodes -> Node]
    BY <1>1, <1>2, <2>2, FaultOK DEF DeleteUncordon
  <2> QED
    BY <1>2, <2>3, <2>4
       DEF DeleteUncordon, DeleteVisiting, manager, TypeOK, PassOK, Active
<1>3. ASSUME NEW n \in Nodes, DeletePod(n) PROVE TypeOK'
  <2>1. [node EXCEPT ![n].pod = "none"] \in [Nodes -> Node]
    BY <1>1 DEF Node
  <2>2. PassOK'
    BY <1>1, <1>3, VisitedOK DEF DeletePod, PassOK
  <2>3. used' \in Used
    BY <1>1, <1>3, FaultOK DEF DeletePod
  <2>4. node' \in [Nodes -> Node] /\ orphaned' \in BOOLEAN
    BY <1>1, <1>3, <2>1 DEF DeletePod
  <2>5. nodeStatus' \in [Nodes -> UpgradeState]
    BY <1>1, <1>3, StatusOK DEF DeletePod, UpgradeState
  <2> QED
    BY <1>3, <2>2, <2>3, <2>4, <2>5
       DEF DeletePod, DeleteVisiting, manager, TypeOK, PassOK, Active
<1>4. ASSUME EndDelete PROVE TypeOK'
  <2>1. PassOK'
    BY <1>1, <1>4, Records DEF EndDelete, PassOK, Pass
  <2>2. nodeStatus' \in [Nodes -> UpgradeState] /\ orphaned' \in BOOLEAN
    BY <1>1, <1>4, ClearOK DEF EndDelete
  <2> QED
    BY <1>4, <2>1, <2>2 DEF EndDelete, manager, TypeOK, PassOK, Active
<1>5. ASSUME FinalizeModule PROVE TypeOK'
  <2>1. \A n \in Nodes : [node[n] EXCEPT !.label = None] \in Node
    BY <1>1 DEF Node, Labels
  <2>2. node' \in [Nodes -> Node] /\ used' \in Used
    BY <1>1, <1>5, <2>1, FaultOK DEF FinalizeModule
  <2>3. dc' \in [DCs -> DeviceConfig] /\ PassOK'
    BY <1>1, <1>5, Records DEF FinalizeModule, DeviceConfig, PassOK
  <2> QED
    BY <1>5, <2>2, <2>3 DEF FinalizeModule, memory, manager, TypeOK, PassOK, Active
<1>6. ASSUME FinalizeDone PROVE TypeOK'
  <2>1. dc' \in [DCs -> DeviceConfig] /\ PassOK'
    BY <1>1, <1>6, Records DEF FinalizeDone, DeviceConfig, PassOK
  <2>2. cr' \in [Nodes -> ModuleStatus]
    BY <1>6, Records DEF FinalizeDone, TypeOK
  <2> QED
    BY <1>6, <2>1, <2>2
       DEF FinalizeDone, memory, manager, history, TypeOK, PassOK, Active
<1>7. ASSUME FinalizeAgain PROVE TypeOK'
  <2>1. PassOK'
    BY <1>7, Records DEF FinalizeAgain, PassOK
  <2> QED
    BY <1>7, <2>1 DEF FinalizeAgain, memory, manager, history, TypeOK, PassOK, Active
<1> QED
  BY <1>2, <1>3, <1>4, <1>5, <1>6, <1>7 DEF DeleteStep

LEMMA EnvironmentTypeOK ==
  ASSUME TypeOK, Environment
  PROVE  TypeOK'
<1>1. ASSUME NEW d \in DCs, UserDelete(d) PROVE TypeOK'
  <2>1. dc' \in [DCs -> DeviceConfig]
    BY <1>1 DEF UserDelete, TypeOK, DeviceConfig
  <2> QED
    BY <1>1, <2>1 DEF UserDelete, memory, history, manager, TypeOK, Active
<1>2. ASSUME NEW d \in DCs, NEW v \in Versions, EditSpec(d, v) PROVE TypeOK'
  <2>1. dc' \in [DCs -> DeviceConfig]
    BY <1>2 DEF EditSpec, TypeOK, DeviceConfig
  <2>2. used' \in Used
    BY <1>2 DEF EditSpec, TypeOK, Used
  <2> QED
    BY <1>2, <2>1, <2>2 DEF EditSpec, memory, manager, TypeOK, Active
<1>3. ASSUME Restart PROVE TypeOK'
  <2>1. used' \in Used
    BY <1>3 DEF Restart, TypeOK, Used
  <2> QED
    BY <1>3, <2>1, Records
       DEF Restart, TypeOK, Active, UpgradeState, Time, BootIds, Labels
<1>4. ASSUME NEW n \in Nodes, TwoHoursPass(n) PROVE TypeOK'
  <2>1. cr' \in [Nodes -> ModuleStatus]
    BY <1>4 DEF TwoHoursPass, TypeOK, ModuleStatus, Time
  <2>2. startTime' \in [Nodes -> Time]
    BY <1>4 DEF TwoHoursPass, TypeOK, Time
  <2> QED
    BY <1>4, <2>1, <2>2 DEF TwoHoursPass, history, manager, TypeOK, Active
<1>5. ASSUME NEW n \in Nodes, UserRetry(n) PROVE TypeOK'
  <2>1. node' \in [Nodes -> Node]
    <3>1. node \in [Nodes -> Node]
      BY DEF TypeOK
    <3> QED
      BY <1>5, <3>1 DEF UserRetry, Node
  <2>2. used' \in Used
    BY <1>5 DEF UserRetry, TypeOK, Used
  <2> QED
    BY <1>5, <2>1, <2>2 DEF UserRetry, memory, manager, TypeOK, Active
<1>6. ASSUME NEW n \in Nodes, KmmSync(n) \/ RebootBegin(n) PROVE TypeOK'
  <2>1. node' \in [Nodes -> Node]
    <3>1. node \in [Nodes -> Node]
      BY DEF TypeOK
    <3>2. CASE KmmSync(n)
      BY <3>1, <3>2 DEF KmmSync, Node
    <3>3. CASE RebootBegin(n)
      BY <3>1, <3>3 DEF RebootBegin, Node
    <3> QED
      BY <1>6, <3>2, <3>3
  <2> QED
    BY <1>6, <2>1 DEF KmmSync, RebootBegin, memory, history, manager, TypeOK, Active
<1>7. ASSUME NEW n \in Nodes, RebootEnd(n) PROVE TypeOK'
  <2>1. PICK m \in {node[n].nmc, None} :
          node' = [node EXCEPT ![n].ready = TRUE, ![n].boot = @ + 1, ![n].nmc = m]
    BY <1>7 DEF RebootEnd
  <2>2. m \in Labels /\ node[n].boot + 1 \in Nat
    BY DEF TypeOK, Node, Labels
  <2>3. node' \in [Nodes -> Node]
    <3>1. node \in [Nodes -> Node]
      BY DEF TypeOK
    <3> DEFINE up == [node EXCEPT ![n].ready = TRUE, ![n].boot = node[n].boot + 1]
    <3>2. up \in [Nodes -> Node]
      BY <2>2, <3>1 DEF Node
    <3>3. node' = [up EXCEPT ![n].nmc = m]
      BY <2>1, <3>1 DEF Node
    <3> HIDE DEF up
    <3> QED
      BY <2>2, <3>2, <3>3 DEF Node
  <2> QED
    BY <1>7, <2>3 DEF RebootEnd, memory, manager, TypeOK, Active
<1> QED
  BY <1>1, <1>2, <1>3, <1>4, <1>5, <1>6, <1>7 DEF Environment

\* Every reachable state is well typed, whatever the number of nodes,
\* DeviceConfigs, versions and goroutines and whatever the policy.
THEOREM TypeCorrect == Spec => []TypeOK
<1>1. Init => TypeOK
  BY InitTypeOK
<1>2. TypeOK /\ [Next]_vars => TypeOK'
  <2> SUFFICES ASSUME TypeOK, [Next]_vars PROVE TypeOK'
    OBVIOUS
  <2>1. CASE UNCHANGED vars
    BY <2>1 DEF vars, memory, history, manager, TypeOK, Active
  <2> QED
    BY <2>1, GoTypeOK, BeginPassTypeOK, BeginDeleteTypeOK, InitStepTypeOK,
       PassStepTypeOK, DeleteStepTypeOK, EnvironmentTypeOK DEF Next
<1> QED
  BY <1>1, <1>2, PTL DEF Spec

---------------------------------------------------------------------------
\* What deletion leaves behind

LEMMA FaultGrows ==
  ASSUME used \in Used, Fault \/ NoFault
  PROVE  used'.faults = 0 => used.faults = 0 /\ NoFault
BY DEF Fault, NoFault, Used

\* A step outside a deletion pass: it lets a node of a DeviceConfig that is being
\* deleted become cordoned, or get a pod, only where it also says late
LEMMA CleanFrame ==
  ASSUME TypeOK, CleanInv, TypeOK',
         used'.faults = 0 => used.faults = 0,
         \A d \in DCs : dc'[d].phase = "gone" => dc[d].phase = "gone",
         \/ pass'.pc \notin {"delete", "finalize"}
         \/ /\ pass' = pass
            /\ \A d \in DCs : dc[d].phase \in {"deleting", "finalizing"} =>
                                dc'[d].phase = dc[d].phase,
         \A n \in Nodes :
           dc[dcOf[n]].phase # "present" /\ ~node'[n].late =>
             /\ ~node[n].late
             /\ node'[n].taint => node[n].taint
             /\ node'[n].pod # "none" => node[n].pod # "none"
  PROVE  CleanInv'
<1> USE ConstantsAssumption
<1>1. DeletedClean'
  <2> SUFFICES ASSUME used'.faults = 0, NEW n \in Nodes, dc'[dcOf[n]].phase = "gone",
                      node'[n].taint \/ node'[n].pod # "none"
               PROVE  node'[n].late
    BY DEF DeletedClean
  <2>1. dc[dcOf[n]].phase = "gone"
    OBVIOUS
  <2> QED
    BY <2>1 DEF CleanInv, DeletedClean
<1>2. CASE pass'.pc \notin {"delete", "finalize"}
  BY <1>1, <1>2 DEF CleanInv
<1>3. CASE pass'.pc \in {"delete", "finalize"}
  <2>1. /\ pass' = pass /\ pass.dc \in DCs
        /\ dc[pass.dc].phase \in {"deleting", "finalizing"}
        /\ dc'[pass.dc].phase = dc[pass.dc].phase
    BY <1>3 DEF CleanInv, TypeOK
  <2>2. \A n \in NodesOf(pass.dc) : n \in Nodes /\ dc[dcOf[n]].phase # "present"
    BY <2>1 DEF NodesOf
  <2>3. \A n : FirstOf(n, pass.todo)' = FirstOf(n, pass.todo)
    BY <2>1 DEF FirstOf
  <2>4. NodesOf(pass.dc)' = NodesOf(pass.dc)
    BY <2>1 DEF NodesOf
  <2>5. ASSUME used'.faults = 0, NEW n \in NodesOf(pass.dc), ~node'[n].late
        PROVE  /\ node'[n].taint => n \in pass.todo /\ pass.seen[n].taint
               /\ node'[n].taint /\ pass.again => ~FirstOf(n, pass.todo)
               /\ node'[n].pod # "none" => n \in pass.todo
    BY <1>3, <2>1, <2>2, <2>5 DEF CleanInv
  <2> QED
    BY <1>1, <2>1, <2>3, <2>4, <2>5 DEF CleanInv
<1> QED
  BY <1>2, <1>3

\* A goroutine's step is one of the frame's
LEMMA GoClean ==
  ASSUME TypeOK, CleanInv, TypeOK', NEW g \in Goroutines, GoStep(g)
  PROVE  CleanInv'
<1>1. PICK n \in Nodes : n = go[g].node
  BY DEF TypeOK, GoStep, Active, HnuCheckLabel, HnuCordon, HnuDrain, HnuLabel, RbBegin,
         RbDriver, RbWait, RbMark, DpBegin, DpWait, DpForce
<1>2. node \in [Nodes -> Node] /\ used \in Used
  BY DEF TypeOK
<1>3. UNCHANGED <<dc, pass>> /\ (Fault \/ NoFault)
  BY DEF GoStep, HnuCheckLabel, HnuCordon, HnuDrain, HnuLabel, RbBegin,
         RbDriver, RbWait, RbMark, DpBegin, DpWait, DpForce, RemovePod, GoFrame, NoFault
<1>4. \A m \in Nodes : m # n => node'[m] = node[m]
  BY <1>1, <1>2 DEF GoStep, HnuCheckLabel, HnuCordon, HnuDrain, HnuLabel, RbBegin,
         RbDriver, RbWait, RbMark, DpBegin, DpWait, DpForce, RemovePod, CordonedBy
<1>5. dc[dcOf[n]].phase # "present" /\ ~node'[n].late =>
        /\ ~node[n].late
        /\ node'[n].taint => node[n].taint
        /\ node'[n].pod # "none" => node[n].pod # "none"
  <2>1. CASE HnuCordon(g)
    <3>1. node' = node \/ node' = CordonedBy(g)
      BY <2>1 DEF HnuCordon
    <3>2. /\ CordonedBy(g)[n].taint = (node[n].taint \/ ~go[g].taint)
          /\ CordonedBy(g)[n].late = (node[n].late \/ (/\ dc[dcOf[n]].phase # "present"
                                                      /\ ~go[g].taint /\ ~node[n].taint))
          /\ CordonedBy(g)[n].pod = node[n].pod
      BY <1>1, <1>2 DEF CordonedBy, Abandoned, DcOf, Node
    <3> QED
      BY <3>1, <3>2
  <2>2. CASE RbDriver(g)
    BY <1>1, <1>2, <2>2 DEF RbDriver, Abandoned, DcOf, Node
  <2>3. CASE RbBegin(g)
    BY <1>1, <1>2, <2>3 DEF RbBegin, Node
  <2>4. CASE HnuLabel(g)
    BY <1>1, <1>2, <2>4 DEF HnuLabel, Node
  <2>5. CASE DpWait(g) \/ DpForce(g)
    BY <1>1, <1>2, <2>5 DEF DpWait, DpForce, RemovePod, Node
  <2> QED
    BY <2>1, <2>2, <2>3, <2>4, <2>5
       DEF GoStep, HnuCheckLabel, HnuDrain, RbWait, RbMark, DpBegin
<1> QED
  BY <1>2, <1>3, <1>4, <1>5, CleanFrame, FaultGrows

\* So is a step of a pass that upgrades, and one of the environment
LEMMA PassClean ==
  ASSUME TypeOK, CleanInv, TypeOK',
         PassStep \/ InitStep \/ \E d \in DCs : BeginPass(d)
  PROVE  CleanInv'
<1>1. node \in [Nodes -> Node] /\ used \in Used
  BY DEF TypeOK
<1>2. UNCHANGED dc
  BY DEF BeginPass, PassStep, InitStep, InitCopy, InitStartedNoReboot, InitStartedReboot,
         InitStartedRebooted, InitStartedSkip, InitRebootInProgress,
         InitRebootDone, EndInit, InitEntry, StartNode, EndVisit, EndSelect,
         HandleKMMVersionLabel, PassGoesTo, PublishStatus, ReconcileError,
         VisitStep, VisitInit, VisitTimedOut, VisitFailed, VisitRetry,
         VisitNmcMissing, VisitStarted, VisitReady, VisitClassify,
         VisitUncordonFails, Visiting
<1>3. Fault \/ NoFault
  BY DEF BeginPass, PassStep, InitStep, InitCopy, InitStartedNoReboot, InitStartedReboot,
         InitStartedRebooted, InitStartedSkip, InitRebootInProgress,
         InitRebootDone, EndInit, InitEntry, StartNode, EndVisit, EndSelect,
         HandleKMMVersionLabel, PassGoesTo, PublishStatus, ReconcileError,
         VisitStep, VisitInit, VisitTimedOut, VisitFailed, VisitRetry,
         VisitNmcMissing, VisitStarted, VisitReady, VisitClassify,
         VisitUncordonFails, NoFault, history
<1>4. pass'.pc \notin {"delete", "finalize"}
  <2>0. pass \in Pass
    BY DEF TypeOK
  <2>1. CASE \E d \in DCs : BeginPass(d)
    BY <2>1, Records DEF BeginPass, Pass
  <2>2. CASE InitStep
    BY <2>0, <2>2 DEF InitStep, InitCopy, InitStartedNoReboot, InitStartedReboot,
         InitStartedRebooted, InitStartedSkip, InitRebootInProgress,
         InitRebootDone, EndInit, InitEntry, Initialised, Pass
  <2>3. CASE \E n \in Nodes : VisitStep(n)
    <3>1. PICK n \in Nodes : VisitStep(n)
      BY <2>3
    <3>2. pass.pc = "visit"
      BY <3>1 DEF VisitStep, VisitInit, VisitTimedOut, VisitFailed, VisitRetry,
           VisitNmcMissing, VisitStarted, VisitReady, VisitClassify,
           VisitUncordonFails, Visiting
    <3>3. Visited(n) \in Pass /\ Visited(n).pc = pass.pc
      BY <2>0, VisitedOK DEF TypeOK, PassOK
    <3>4. pass'.pc = pass.pc
      BY <2>0, <3>1, <3>3
         DEF VisitStep, VisitInit, VisitTimedOut, VisitFailed, VisitRetry,
           VisitNmcMissing, VisitStarted, VisitReady, VisitClassify,
           VisitUncordonFails, GoOn, CountFailed, Classify, Pass
    <3> QED
      BY <3>2, <3>4
  <2>4. CASE \/ \E n \in Nodes : StartNode(n)
             \/ EndVisit \/ EndSelect \/ HandleKMMVersionLabel \/ PublishStatus
             \/ ReconcileError
    BY <2>0, <2>4, Records
       DEF StartNode, EndVisit, EndSelect, HandleKMMVersionLabel, PassGoesTo,
           PublishStatus, ReconcileError, Pass
  <2> QED
    BY <2>1, <2>2, <2>3, <2>4 DEF PassStep
<1>5. \A m \in Nodes : /\ node'[m].late = node[m].late
                       /\ node'[m].taint => node[m].taint
                       /\ node'[m].pod = node[m].pod
  <2>1. CASE UNCHANGED node
    BY <2>1
  <2>2. ASSUME NEW n \in Nodes, VisitRetry(n)
        PROVE  \A m \in Nodes : /\ node'[m].late = node[m].late
                                /\ node'[m].taint = node[m].taint
                                /\ node'[m].pod = node[m].pod
    BY <1>1, <2>2 DEF VisitRetry, Node
  <2>3. ASSUME NEW n \in Nodes, node' = Uncordoned(n)
        PROVE  \A m \in Nodes : /\ node'[m].late = node[m].late
                                /\ node'[m].taint => node[m].taint
                                /\ node'[m].pod = node[m].pod
    BY <1>1, <2>3 DEF Uncordoned, Node
  <2>4. ASSUME NEW n \in Nodes, NEW ok, Relabel(n, ok)
        PROVE  \A m \in Nodes : /\ node'[m].late = node[m].late
                                /\ node'[m].taint = node[m].taint
                                /\ node'[m].pod = node[m].pod
    BY <1>1, <2>4 DEF Relabel, Node
  <2>5. CASE HandleKMMVersionLabel
    BY <1>1, <2>5 DEF HandleKMMVersionLabel, Node
  <2>6. CASE \E n \in Nodes : VisitStep(n)
    BY <2>1, <2>2, <2>3, <2>4, <2>6
       DEF VisitStep, VisitInit, VisitTimedOut, VisitFailed,
         VisitNmcMissing, VisitStarted, VisitReady, VisitClassify,
         VisitUncordonFails, Classify
  <2> QED
    BY <2>1, <2>5, <2>6
       DEF BeginPass, PassStep, InitStep, InitCopy, InitStartedNoReboot,
         InitStartedReboot, InitStartedRebooted, InitStartedSkip, InitRebootInProgress,
         InitRebootDone, EndInit, InitEntry, StartNode, EndVisit, EndSelect,
         PassGoesTo, PublishStatus, ReconcileError
<1> QED
  BY <1>1, <1>2, <1>3, <1>4, <1>5, CleanFrame, FaultGrows

LEMMA EnvironmentClean ==
  ASSUME TypeOK, CleanInv, TypeOK', Environment
  PROVE  CleanInv'
<1>1. /\ node \in [Nodes -> Node] /\ used \in Used /\ dc \in [DCs -> DeviceConfig]
  BY DEF TypeOK
<1>2. used'.faults = 0 => used.faults = 0
  BY <1>1 DEF Environment, UserDelete, EditSpec, Restart, TwoHoursPass, UserRetry,
              KmmSync, RebootBegin, RebootEnd, history, Used
<1>3. \A d \in DCs : /\ dc'[d].phase = "gone" => dc[d].phase = "gone"
                     /\ dc[d].phase \in {"deleting", "finalizing"} =>
                          dc'[d].phase = dc[d].phase
  <2>1. CASE UNCHANGED dc
    BY <2>1
  <2>2. ASSUME NEW d \in DCs, UserDelete(d) \/ (\E v \in Versions : EditSpec(d, v))
        PROVE  \A e \in DCs : \/ dc'[e].phase = dc[e].phase
                              \/ dc[e].phase = "present" /\ dc'[e].phase = "deleting"
    BY <1>1, <2>2 DEF UserDelete, EditSpec, DeviceConfig
  <2> QED
    BY <2>1, <2>2 DEF Environment, Restart, TwoHoursPass, UserRetry,
                      KmmSync, RebootBegin, RebootEnd
<1>4. pass' = pass \/ pass'.pc = "idle"
  BY Records DEF Environment, UserDelete, EditSpec, Restart, TwoHoursPass, UserRetry,
                 KmmSync, RebootBegin, RebootEnd
<1>5. \A m \in Nodes : /\ node'[m].late = node[m].late
                       /\ node'[m].taint = node[m].taint
                       /\ node'[m].pod # "none" => node[m].pod # "none"
  <2>1. CASE UNCHANGED node
    BY <2>1
  <2>2. ASSUME NEW n \in Nodes, KmmSync(n) \/ RebootBegin(n)
        PROVE  \A m \in Nodes : /\ node'[m].late = node[m].late
                                /\ node'[m].taint = node[m].taint
                                /\ node'[m].pod # "none" => node[m].pod # "none"
    BY <1>1, <2>2 DEF KmmSync, RebootBegin, Node
  <2>3. ASSUME NEW n \in Nodes, UserRetry(n) \/ RebootEnd(n)
        PROVE  \A m \in Nodes : /\ node'[m].late = node[m].late
                                /\ node'[m].taint = node[m].taint
                                /\ node'[m].pod = node[m].pod
    BY <1>1, <2>3 DEF UserRetry, RebootEnd, Node
  <2> QED
    BY <2>1, <2>2, <2>3
       DEF Environment, UserDelete, EditSpec, Restart, TwoHoursPass
<1> QED
  BY <1>2, <1>3, <1>4, <1>5, CleanFrame

\* A deletion pass goes through its nodes in order, first the taint, then the pod
LEMMA DeleteClean ==
  ASSUME TypeOK, CleanInv, TypeOK', DeleteStep
  PROVE  CleanInv'
<1> USE ConstantsAssumption
<1> DEFINE Listed(n) == /\ node[n].taint => n \in pass.todo /\ pass.seen[n].taint
                        /\ node[n].taint /\ pass.again => ~FirstOf(n, pass.todo)
                        /\ node[n].pod # "none" => n \in pass.todo
<1>1. /\ node \in [Nodes -> Node] /\ used \in Used /\ dc \in [DCs -> DeviceConfig]
      /\ pass \in Pass
  BY DEF TypeOK
<1>2. /\ pass.pc \in {"delete", "finalize"} /\ pass.dc \in DCs
      /\ dc[pass.dc].phase \in {"deleting", "finalizing"}
      /\ pass.pc = "finalize" => pass.todo = {}
      /\ used.faults = 0 => \A n \in NodesOf(pass.dc) : ~node[n].late => Listed(n)
  BY DEF CleanInv, TypeOK, DeleteStep, DeleteUncordon, DeletePod, DeleteVisiting,
         EndDelete, FinalizeModule, FinalizeDone, FinalizeAgain
<1>3. \A d : \A n \in NodesOf(d) : n \in Nodes /\ dcOf[n] = d
  BY DEF NodesOf
<1>4. Fault \/ NoFault
  BY DEF DeleteStep, DeleteUncordon, DeletePod, EndDelete, FinalizeModule, FinalizeDone,
         FinalizeAgain, history, NoFault
<1>5. used'.faults = 0 => used.faults = 0 /\ NoFault
  BY <1>1, <1>4, FaultGrows
<1>6. ASSUME NEW n \in Nodes, DeleteUncordon(n) PROVE CleanInv'
  <2>1. /\ pass.pc = "delete" /\ FirstOf(n, pass.todo) /\ ~pass.again
        /\ UNCHANGED <<dc, cr>> /\ pass' = [pass EXCEPT !.again = TRUE]
    BY <1>6 DEF DeleteUncordon, DeleteVisiting
  <2>2. node' = node \/ node' = Uncordoned(n)
    BY <1>6 DEF DeleteUncordon
  <2>3. \A m \in Nodes : /\ node'[m].late = node[m].late
                         /\ node'[m].taint => node[m].taint
                         /\ node'[m].pod = node[m].pod
    BY <1>1, <2>2 DEF Uncordoned, Node
  <2>4. NoFault => (node'[n].taint => ~pass.seen[n].taint)
    <3>1. NoFault => ~Fault
      BY <1>1 DEF Fault, NoFault, Used
    <3>2. NoFault => node' = Uncordoned(n)
      BY <1>6, <3>1 DEF DeleteUncordon
    <3>3. Uncordoned(n)[n].taint = (node[n].taint /\ ~pass.seen[n].taint)
      BY <1>1 DEF Uncordoned, Node
    <3> QED
      BY <3>2, <3>3
  <2>5. /\ pass'.pc = "delete" /\ pass'.dc = pass.dc /\ pass'.todo = pass.todo
        /\ pass'.seen = pass.seen
    BY <1>1, <2>1 DEF Pass
  <2>6. ASSUME used'.faults = 0, NEW m \in NodesOf(pass.dc), ~node'[m].late
        PROVE  /\ node'[m].taint => m \in pass.todo /\ pass.seen[m].taint
               /\ node'[m].taint => ~FirstOf(m, pass.todo)
               /\ node'[m].pod # "none" => m \in pass.todo
    <3>1. Listed(m) /\ m \in Nodes
      BY <1>2, <1>3, <1>5, <2>3, <2>6
    <3>2. FirstOf(m, pass.todo) => m = n
      BY <2>1, <3>1 DEF FirstOf
    <3>3. m = n => ~node'[m].taint
      BY <1>5, <2>3, <2>4, <2>6, <3>1
    <3> QED
      BY <2>3, <3>1, <3>2, <3>3
  <2>7. DeletedClean'
    BY <1>5, <2>1, <2>3 DEF CleanInv, DeletedClean
  <2>8. NodesOf(pass.dc)' = NodesOf(pass.dc)
    BY <2>5 DEF NodesOf
  <2>9. \A m : FirstOf(m, pass.todo)' = FirstOf(m, pass.todo)
    BY <2>5 DEF FirstOf
  <2> QED
    BY <1>2, <2>1, <2>5, <2>6, <2>7, <2>8, <2>9 DEF CleanInv
<1>7. ASSUME NEW n \in Nodes, DeletePod(n) PROVE CleanInv'
  <2>1. /\ pass.pc = "delete" /\ FirstOf(n, pass.todo) /\ pass.again
        /\ UNCHANGED <<dc, cr>> /\ pass' = Visited(n)
    BY <1>7 DEF DeletePod, DeleteVisiting
  <2>2. \A m \in Nodes : /\ node'[m].late = node[m].late
                         /\ node'[m].taint = node[m].taint
                         /\ node'[m].pod # "none" => node[m].pod # "none"
    BY <1>1, <1>7 DEF DeletePod, Node
  <2>3. NoFault => node'[n].pod = "none"
    BY <1>1, <1>7 DEF DeletePod, Node, Fault, NoFault, Used
  <2>4. /\ pass'.pc = "delete" /\ pass'.dc = pass.dc /\ pass'.todo = pass.todo \ {n}
        /\ pass'.seen = pass.seen /\ pass'.again = FALSE
    BY <1>1, <2>1 DEF Pass, Visited
  <2>5. ASSUME used'.faults = 0, NEW m \in NodesOf(pass.dc), ~node'[m].late
        PROVE  /\ node'[m].taint => m \in pass.todo \ {n} /\ pass.seen[m].taint
               /\ node'[m].pod # "none" => m \in pass.todo \ {n}
    <3>1. Listed(m) /\ m \in Nodes
      BY <1>2, <1>3, <1>5, <2>2, <2>5
    <3>2. m = n => ~node'[m].taint /\ node'[m].pod = "none"
      BY <1>5, <2>1, <2>2, <2>3, <2>5, <3>1
    <3> QED
      BY <2>2, <3>1, <3>2
  <2>6. DeletedClean'
    BY <1>5, <2>1, <2>2 DEF CleanInv, DeletedClean
  <2>7. NodesOf(pass.dc)' = NodesOf(pass.dc)
    BY <2>4 DEF NodesOf
  <2> QED
    BY <1>2, <2>1, <2>4, <2>5, <2>6, <2>7 DEF CleanInv
<1>8. ASSUME EndDelete PROVE CleanInv'
  <2>1. /\ pass.todo = {} /\ UNCHANGED <<dc, node, used>>
        /\ pass'.pc = "finalize" /\ pass'.dc = pass.dc /\ pass'.todo = {}
    BY <1>8 DEF EndDelete, NoPass
  <2>2. ASSUME used'.faults = 0, NEW m \in NodesOf(pass.dc), ~node'[m].late
        PROVE  ~node'[m].taint /\ node'[m].pod = "none"
    BY <1>2, <2>1, <2>2
  <2>3. NodesOf(pass.dc)' = NodesOf(pass.dc) /\ DeletedClean'
    BY <2>1 DEF NodesOf, CleanInv, DeletedClean
  <2> QED
    BY <1>2, <2>1, <2>2, <2>3 DEF CleanInv
<1>9. ASSUME FinalizeModule PROVE CleanInv'
  <2>1. \A m \in Nodes : /\ node'[m].late = node[m].late
                         /\ node'[m].taint = node[m].taint
                         /\ node'[m].pod = node[m].pod
    BY <1>1, <1>9 DEF FinalizeModule, Node
  <2>2. \A d \in DCs : dc'[d].phase = "gone" => dc[d].phase = "gone"
    BY <1>1, <1>9 DEF FinalizeModule, DeviceConfig
  <2>3. pass'.pc = "idle"
    BY <1>9, Records DEF FinalizeModule
  <2> QED
    BY <1>5, <2>1, <2>2, <2>3, CleanFrame
<1>10. ASSUME FinalizeDone PROVE CleanInv'
  <2>1. /\ pass'.pc = "idle" /\ UNCHANGED <<node, used>> /\ pass.todo = {}
        /\ dc' = [dc EXCEPT ![pass.dc].phase = "gone"]
    BY <1>2, <1>10, Records DEF FinalizeDone, history
  <2>2. ASSUME used.faults = 0, NEW m \in Nodes, dc'[dcOf[m]].phase = "gone",
               node[m].taint \/ node[m].pod # "none"
        PROVE  node[m].late
    <3>1. CASE dcOf[m] = pass.dc
      BY <1>2, <2>1, <2>2, <3>1 DEF NodesOf
    <3>2. CASE dcOf[m] # pass.dc
      BY <1>1, <2>1, <2>2, <3>2 DEF CleanInv, DeletedClean
    <3> QED
      BY <3>1, <3>2
  <2> QED
    BY <2>1, <2>2 DEF CleanInv, DeletedClean
<1>11. ASSUME FinalizeAgain PROVE CleanInv'
  BY <1>11, Records DEF FinalizeAgain, history, CleanInv, DeletedClean
<1> QED
  BY <1>6, <1>7, <1>8, <1>9, <1>10, <1>11 DEF DeleteStep

LEMMA BeginDeleteClean ==
  ASSUME TypeOK, CleanInv, TypeOK', NEW d \in DCs, BeginDelete(d)
  PROVE  CleanInv'
<1> USE ConstantsAssumption
<1>1. node \in [Nodes -> Node] /\ UNCHANGED <<dc, used>> /\ NoPass \in Pass
  BY Records DEF TypeOK, BeginDelete
<1>2. /\ pass'.pc = "delete" /\ pass'.dc = d /\ pass'.todo = NodesOf(d)
      /\ pass'.again = FALSE
      /\ \A n \in Nodes : pass'.seen[n].taint = node[n].taint
  BY DEF BeginDelete, NoPass
<1>3. \A n \in Nodes : /\ node'[n].taint = node[n].taint /\ node'[n].pod = node[n].pod
                       /\ dcOf[n] # d => node'[n].late = node[n].late
  BY <1>1 DEF BeginDelete, Node
<1>4. dc[d].phase \in {"deleting", "finalizing"}
  BY DEF BeginDelete
<1>5. DeletedClean'
  BY <1>1, <1>3, <1>4 DEF CleanInv, DeletedClean
<1>6. NodesOf(pass'.dc) = NodesOf(d) /\ \A n \in NodesOf(d) : n \in Nodes
  BY <1>2 DEF NodesOf
<1> QED
  BY <1>1, <1>2, <1>3, <1>4, <1>5, <1>6 DEF CleanInv, NodesOf

\* HandleDelete undoes every upgrade of a DeviceConfig that is deleted: for any
\* number of nodes, passes, restarts and goroutines, once the finalizer is removed a
\* node is cordoned or has a reboot pod only through a goroutine that acted after
\* the nodes were listed for the last time, or because a call failed.
THEOREM DeletionCleansUp == Spec => []DeletedClean
<1>1. Init => CleanInv
  <2> SUFFICES ASSUME Init PROVE CleanInv
    OBVIOUS
  <2>1. pass.pc = "idle" /\ \A d \in DCs : dc[d].phase = "present"
    BY DEF Init, NoPass
  <2> QED
    BY <2>1, ConstantsAssumption DEF CleanInv, DeletedClean
<1>2. TypeOK /\ TypeOK' /\ CleanInv /\ [Next]_vars => CleanInv'
  <2> SUFFICES ASSUME TypeOK, TypeOK', CleanInv, [Next]_vars PROVE CleanInv'
    OBVIOUS
  <2>1. CASE UNCHANGED vars
    BY <2>1 DEF vars, history, CleanInv, DeletedClean, FirstOf, NodesOf
  <2> QED
    BY <2>1, GoClean, PassClean, BeginDeleteClean, DeleteClean, EnvironmentClean DEF Next
<1>3. CleanInv => DeletedClean
  BY DEF CleanInv
<1> QED
  BY <1>1, <1>2, <1>3, TypeCorrect, PTL DEF Spec
====
