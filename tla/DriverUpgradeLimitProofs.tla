--------------------- MODULE DriverUpgradeLimitProofs ---------------------
(***************************************************************************)
(* UpgradeInv is inductive, for every value of the constants: the limit on *)
(* parallel upgrades holds in memory and in the published status, and no   *)
(* two goroutines work on one node.                                        *)
(***************************************************************************)
EXTENDS DriverUpgradeProofs

---------------------------------------------------------------------------
\* Cardinalities

LEMMA LimitIsNat ==
  \A d \in DCs : /\ Cardinality(NodesOf(d)) \in Nat
                 /\ UpgradeLimit(d) \in Nat
<1> SUFFICES ASSUME NEW d \in DCs
             PROVE  /\ Cardinality(NodesOf(d)) \in Nat
                    /\ UpgradeLimit(d) \in Nat
  OBVIOUS
<1>1. IsFiniteSet(NodesOf(d))
  BY ConstantsAssumption, FS_Subset DEF NodesOf
<1>2. Cardinality(NodesOf(d)) \in Nat
  BY <1>1, FS_CardinalityType
<1>3. MaxUnavailable(Cardinality(NodesOf(d))) \in Nat
  BY <1>2, ConstantsAssumption DEF MaxUnavailable
<1> QED
  BY <1>2, <1>3, ConstantsAssumption DEF UpgradeLimit, MaxParallelAllowed

LEMMA FinitePart ==
  ASSUME NEW S, S \subseteq Nodes
  PROVE  IsFiniteSet(S) /\ Cardinality(S) \in Nat
BY ConstantsAssumption, FS_Subset, FS_CardinalityType

LEMMA SmallerPart ==
  ASSUME NEW S, NEW T, T \subseteq Nodes, S \subseteq T, NEW k \in Int,
         Cardinality(T) <= k
  PROVE  Cardinality(S) <= k
<1>1. IsFiniteSet(T) /\ Cardinality(T) \in Nat /\ Cardinality(S) \in Nat
  BY FinitePart
<1>2. Cardinality(S) <= Cardinality(T)
  BY <1>1, FS_Subset
<1> QED
  BY <1>1, <1>2

\* The limit is kept by a step after which the nodes in an upgrade are among
\* those that were, in memory or in the status.
LEMMA LimitKept ==
  ASSUME ParallelLimit, ~orphaned' => ~orphaned,
         ~orphaned' => \A d \in DCs :
           /\ Busy(d)' \subseteq Busy(d) \/ Busy(d)' \subseteq CrBusy(d)
           /\ CrBusy(d)' \subseteq Busy(d) \/ CrBusy(d)' \subseteq CrBusy(d)
  PROVE  ParallelLimit'
<1> SUFFICES ASSUME ~orphaned', NEW d \in DCs
             PROVE  /\ Cardinality(Busy(d)') <= UpgradeLimit(d)
                    /\ Cardinality(CrBusy(d)') <= UpgradeLimit(d)
  BY DEF ParallelLimit
<1>1. /\ Cardinality(Busy(d)) <= UpgradeLimit(d)
      /\ Cardinality(CrBusy(d)) <= UpgradeLimit(d)
  BY DEF ParallelLimit
<1>2. Busy(d) \subseteq Nodes /\ CrBusy(d) \subseteq Nodes
  BY DEF Busy, CrBusy, NodesOf
<1>3. UpgradeLimit(d) \in Int
  BY LimitIsNat
<1> QED
  BY <1>1, <1>2, <1>3, SmallerPart

---------------------------------------------------------------------------
\* What the steps of a goroutine may do

LEMMA GoEffect ==
  ASSUME TypeOK, PodsInv, NEW g \in Goroutines, GoStep(g)
  PROVE  /\ Active(g) /\ go[g].node \in Nodes
         /\ \A h \in Goroutines \ {g} : go'[h] = go[h]
         /\ Active(g)' => /\ go[g].pc # "dpBeginForce"
                          /\ go'[g].pc # "dpBeginForce"
                          /\ go'[g].node = go[g].node
         /\ \A m \in Nodes \ {go[g].node} : nodeStatus'[m] = nodeStatus[m]
         /\ nodeStatus'[go[g].node] # nodeStatus[go[g].node]
              => go[g].pc # "dpBeginForce"
         /\ Active(g)' => nodeStatus'[go[g].node]
                            \in {nodeStatus[go[g].node], "RebootInProgress"}
         /\ PodsInv'
<1> DEFINE n == go[g].node
<1>0. /\ GoOK /\ go \in [Goroutines -> Goroutine] /\ go[g] \in Goroutine
      /\ nodeStatus \in [Nodes -> UpgradeState] /\ node \in [Nodes -> Node]
      /\ NoGoroutine.pc = "idle"
  BY TypeParts, Records DEF TypeOK
<1>1. Active(g) /\ n \in Nodes
  <2>1. Active(g)
    BY DEF GoStep, Active, HnuCheckLabel, HnuCordon, HnuDrain, HnuLabel, RbBegin,
           RbDriver, RbWait, RbMark, DpBegin, DpWait, DpForce
  <2> QED
    BY <2>1 DEF TypeOK
<1>2. End(g) \/ \E pc \in {"hnuCordon", "hnuDrain", "hnuLabel", "rbBegin",
            "rbDriver", "rbWait", "rbMark", "dpBegin", "dpWait", "dpForce"} :
                  /\ Goto(g, pc) /\ go[g].pc # "dpBeginForce"
                  /\ pc = "rbBegin" => RebootRequired
                  /\ pc \in {"rbDriver", "rbWait", "rbMark"}
                       => go[g].pc \in {"rbBegin", "rbDriver", "rbWait"}
  BY <1>1 DEF GoStep, HnuCheckLabel, HnuCordon, HnuDrain, HnuLabel, RbBegin,
       RbDriver, RbWait, RbMark, DpBegin, DpWait, DpForce, EndWith, EndWithIfValid,
       PodsInv, Goto, End
<1>3. /\ \A h \in Goroutines \ {g} : go'[h] = go[h]
      /\ Active(g)' => /\ go[g].pc # "dpBeginForce"
                       /\ go'[g].pc # "dpBeginForce"
                       /\ go'[g].node = n
                       /\ go'[g].pc = "rbBegin" => RebootRequired
                       /\ go'[g].pc \in {"rbDriver", "rbWait", "rbMark"}
                            => go[g].pc \in {"rbBegin", "rbDriver", "rbWait"}
  <2>1. CASE End(g)
    BY <1>0, <2>1 DEF End, Active
  <2>2. ASSUME NEW pc \in {"hnuCordon", "hnuDrain", "hnuLabel", "rbBegin",
            "rbDriver", "rbWait", "rbMark", "dpBegin", "dpWait", "dpForce"},
               Goto(g, pc)
        PROVE  /\ \A h \in Goroutines \ {g} : go'[h] = go[h]
               /\ go'[g].pc = pc /\ go'[g].node = n
    BY <1>0, <2>2 DEF Goto, Goroutine
  <2> QED
    BY <1>2, <2>1, <2>2
<1>4. nodeStatus' = nodeStatus \/ \E s : SetStatus(n, s) /\ go[g].pc # "dpBeginForce"
                         /\ (End(g) \/ s = "RebootInProgress")
  BY <1>1 DEF GoStep, HnuCheckLabel, HnuCordon, HnuDrain, HnuLabel, RbBegin,
       RbDriver, RbWait, RbMark, DpBegin, DpWait, DpForce, EndWith, EndWithIfValid
<1>5. ASSUME End(g) PROVE ~Active(g)'
  BY <1>0, <1>5 DEF End, Active
<1>6. /\ \A m \in Nodes \ {n} : nodeStatus'[m] = nodeStatus[m]
      /\ nodeStatus'[n] # nodeStatus[n] => go[g].pc # "dpBeginForce"
      /\ Active(g)' => nodeStatus'[n] \in {nodeStatus[n], "RebootInProgress"}
  BY <1>0, <1>1, <1>4, <1>5 DEF SetStatus
<1>7. PodsInv'
  <2>1. CASE RebootRequired
    BY <1>3, <2>1, <1>0 DEF PodsInv, Active
  <2>2. CASE ~RebootRequired
    <3>1. \A h \in Goroutines : go'[h].pc \notin {"rbBegin", "rbDriver", "rbWait", "rbMark"}
      BY <1>3, <2>2 DEF PodsInv, Active
    <3>2. go[g].pc \notin {"rbBegin", "rbDriver", "rbWait", "rbMark"}
      BY <2>2 DEF PodsInv
    <3>3. \A m \in Nodes : node[m].pod = "none"
      BY <2>2 DEF PodsInv
    <3>4. \A m \in Nodes : node'[m].pod = "none"
      <4>1. CASE UNCHANGED node
        BY <3>3, <4>1
      <4>2. CASE node' = CordonedBy(g)
        BY <1>0, <1>1, <3>3, <4>2 DEF CordonedBy, Node
      <4>3. CASE node' = [node EXCEPT ![go[g].node].label = go[g].spec]
        BY <1>0, <1>1, <3>3, <4>3 DEF Node
      <4>4. CASE node' = [node EXCEPT ![go[g].node].pod = "none"]
        BY <1>0, <1>1, <3>3, <4>4 DEF Node
      <4> QED
        BY <3>2, <4>1, <4>2, <4>3, <4>4
           DEF GoStep, HnuCheckLabel, HnuCordon, HnuDrain, HnuLabel, RbBegin,
               RbDriver, RbWait, RbMark, DpBegin, DpWait, DpForce, RemovePod
    <3> QED
      BY <2>2, <3>1, <3>4 DEF PodsInv
  <2> QED
    BY <2>1, <2>2
<1> QED
  BY <1>1, <1>3, <1>6, <1>7

LEMMA GoInv ==
  ASSUME UpgradeInv, NEW g \in Goroutines, GoStep(g)
  PROVE  UpgradeInv'
<1> DEFINE n == go[g].node
<1>0. /\ TypeOK /\ PodsInv /\ StartInv /\ InitInv /\ MarkInv /\ LoopInv
      /\ OneGoroutinePerNode /\ ParallelLimit
  BY DEF UpgradeInv
<1>1. TypeOK'
  BY <1>0, GoTypeOK
<1>2. UNCHANGED <<dc, cr, startTime, inited, currentSpec, pass, orphaned>>
  BY DEF GoStep, HnuCheckLabel, HnuCordon, HnuDrain, HnuLabel, RbBegin,
         RbDriver, RbWait, RbMark, DpBegin, DpWait, DpForce, GoFrame, manager
<1>3. /\ Active(g) /\ n \in Nodes
      /\ \A h \in Goroutines \ {g} : go'[h] = go[h]
      /\ Active(g)' => /\ go[g].pc # "dpBeginForce"
                       /\ go'[g].pc # "dpBeginForce"
                       /\ go'[g].node = n
      /\ \A m \in Nodes \ {n} : nodeStatus'[m] = nodeStatus[m]
      /\ nodeStatus'[n] # nodeStatus[n] => go[g].pc # "dpBeginForce"
      /\ Active(g)' => nodeStatus'[n] \in {nodeStatus[n], "RebootInProgress"}
      /\ PodsInv'
  BY <1>0, GoEffect
<1>4. StartInv'
  BY <1>0, <1>2, <1>3 DEF StartInv
\* Outside start-up the node of a goroutine at work is marked
<1>5. ASSUME ~orphaned, pass.sync # g, nodeStatus'[n] # nodeStatus[n]
      PROVE  nodeStatus[n] \in BusyStates
  BY <1>0, <1>3, <1>5 DEF MarkInv, Works, UpgradeStarted, BusyStates
<1>6. ASSUME ~orphaned, pass.sync # g, NEW d
      PROVE  Busy(d)' \subseteq Busy(d)
  BY <1>3, <1>5, <1>6 DEF Busy, NodesOf
<1>7. CrBusy(pass.dc)' = CrBusy(pass.dc)
  BY <1>2 DEF CrBusy, NodesOf
<1>8. InitInv'
  <2>1. SUFFICES ASSUME pass.pc = "init"
                 PROVE  /\ Busy(pass.dc)' \subseteq CrBusy(pass.dc)
                        /\ \A h \in Goroutines :
                             Active(h)' => go'[h].node \in CrBusy(pass.dc) \ pass.todo
    BY <1>0, <1>2, <1>7 DEF InitInv
  <2>2. /\ Busy(pass.dc) \subseteq CrBusy(pass.dc)
        /\ \A h \in Goroutines :
             Active(h) => go[h].node \in CrBusy(pass.dc) \ pass.todo
    BY <1>0, <2>1 DEF InitInv
  <2>3. Busy(pass.dc)' \subseteq Busy(pass.dc) \cup {n}
    BY <1>2, <1>3 DEF Busy, NodesOf
  <2> QED
    BY <1>3, <2>2, <2>3 DEF Active
<1>9. MarkInv'
  <2> SUFFICES ASSUME ~orphaned, NEW h \in Goroutines, Works(h)', pass.sync # h
               PROVE  nodeStatus'[go'[h].node] \in {"Started", "RebootInProgress"}
    BY <1>2 DEF MarkInv, UpgradeStarted
  <2>1. CASE h = g
    BY <1>0, <1>3, <2>1 DEF MarkInv, Works, Active, UpgradeStarted
  <2>2. CASE h # g
    <3>1. Works(h) /\ go'[h] = go[h] /\ go[h].node \in Nodes
      BY <1>0, <1>3, <2>2 DEF Works, Active, TypeOK
    <3>2. UpgradeStarted(go[h].node)
      BY <1>0, <3>1 DEF MarkInv, UpgradeStarted
    <3>3. CASE go[h].node = n
      <4>1. ~Works(g)
        BY <1>0, <2>2, <3>1, <3>3 DEF OneGoroutinePerNode
      <4>2. go[g].pc = "dpBeginForce"
        BY <1>3, <4>1 DEF Works
      <4> QED
        BY <1>3, <3>1, <3>2, <3>3, <4>2 DEF UpgradeStarted
    <3>4. CASE go[h].node # n
      BY <1>3, <3>1, <3>2, <3>4 DEF UpgradeStarted
    <3> QED
      BY <3>3, <3>4
  <2> QED
    BY <2>1, <2>2
<1>10. LoopInv'
  <2>1. SUFFICES ASSUME ~orphaned, pass.pc \in {"visit", "select"}
                 PROVE  /\ Busy(pass.dc)' \subseteq Busy(pass.dc)
                        /\ \A m \in pass.cand : nodeStatus'[m] \notin BusyStates
    BY <1>0, <1>2 DEF LoopInv, NodesOf
  <2>2. pass.sync # g
    BY <1>0, <2>1, ConstantsAssumption DEF InitInv, Goroutines
  <2>3. \A m \in pass.cand : m \in Nodes /\ nodeStatus[m] \notin BusyStates
    BY <1>0, <2>1 DEF LoopInv, NodesOf
  <2>4. Busy(pass.dc)' \subseteq Busy(pass.dc)
    <3>1. Busy(pass.dc)' = {m \in NodesOf(pass.dc) : nodeStatus'[m] \in BusyStates}
      BY <1>2 DEF Busy, NodesOf
    <3> QED
      BY <1>3, <1>5, <2>1, <2>2, <3>1 DEF Busy, NodesOf
  <2> QED
    BY <1>3, <1>5, <2>1, <2>2, <2>3, <2>4
<1>11. OneGoroutinePerNode'
  BY <1>0, <1>2, <1>3 DEF OneGoroutinePerNode, Works, Active
<1>12. ParallelLimit'
  <2>1. ASSUME ~orphaned, NEW d \in DCs
        PROVE  Busy(d)' \subseteq Busy(d) \/ Busy(d)' \subseteq CrBusy(d)
    <3>1. CASE pass.sync # g
      BY <1>6, <2>1, <3>1
    <3>2. CASE pass.sync = g
      <4>1. pass.pc = "init"
        BY <1>0, <3>2, ConstantsAssumption DEF InitInv, Goroutines
      <4>2. CASE d = pass.dc
        BY <1>2, <1>7, <1>8, <4>1, <4>2 DEF InitInv
      <4>3. CASE d # pass.dc
        <5>1. n \in CrBusy(pass.dc)
          BY <1>0, <1>3, <4>1 DEF InitInv
        <5>2. n \notin NodesOf(d)
          BY <4>3, <5>1 DEF CrBusy, NodesOf
        <5> QED
          BY <1>3, <5>2 DEF Busy, NodesOf
      <4> QED
        BY <4>2, <4>3
    <3> QED
      BY <3>1, <3>2
  <2>2. \A d \in DCs : CrBusy(d)' = CrBusy(d)
    BY <1>2 DEF CrBusy
  <2> QED
    BY <1>0, <1>2, <2>1, <2>2, LimitKept
<1> QED
  BY <1>1, <1>3, <1>4, <1>8, <1>9, <1>10, <1>11, <1>12 DEF UpgradeInv

---------------------------------------------------------------------------
\* What the steps of a pass that visits the nodes may do

LEMMA VisitEffect ==
  ASSUME TypeOK, NEW n \in Nodes, VisitStep(n)
  PROVE  /\ pass.pc = "visit" /\ n \in pass.todo
         /\ UNCHANGED <<cr, go, inited>>
         /\ \A m \in Nodes : node'[m].pod = node[m].pod
         /\ \A m \in Nodes \ {n} : nodeStatus'[m] = nodeStatus[m]
         /\ UpgradeStarted(n) /\ nodeStatus'[n] # nodeStatus[n] /\ ~orphaned'
              => \A g \in Goroutines : go[g].node # n
         /\ nodeStatus'[n] \in BusyStates => nodeStatus'[n] = nodeStatus[n]
         /\ pass'.pc = "visit" /\ pass'.dc = pass.dc /\ pass'.sync = pass.sync
         /\ pass.todo \ {n} \subseteq pass'.todo /\ pass'.todo \subseteq pass.todo
         /\ pass.inprog \subseteq pass'.inprog /\ pass'.started = pass.started
         /\ pass'.cand \subseteq pass.cand \cup {n}
         /\ nodeStatus'[n] \in BusyStates => n \in pass'.todo \cup pass'.inprog
         /\ nodeStatus'[n] \in BusyStates => pass'.cand = pass.cand
         /\ ~orphaned' => ~orphaned
<1>0. /\ PassOK /\ pass \in Pass /\ nodeStatus \in [Nodes -> UpgradeState]
      /\ node \in [Nodes -> Node] /\ pass.seen[n] \in Seen
  BY TypeParts DEF TypeOK, Pass
<1>1. \E a \in BOOLEAN : Visiting(n, a)
  BY DEF VisitStep, VisitInit, VisitTimedOut, VisitFailed, VisitRetry,
         VisitNmcMissing, VisitStarted, VisitReady, VisitClassify,
         VisitUncordonFails
<1>2. /\ pass.pc = "visit" /\ n \in pass.todo /\ UNCHANGED <<cr, go, inited>>
  BY <1>1 DEF Visiting, FirstOf, manager
<1> DEFINE Same == pass'.pc = pass.pc /\ pass'.dc = pass.dc /\ pass'.sync = pass.sync
                   /\ pass'.started = pass.started
           Left == pass'.todo = pass.todo \ {n}
\* The ways in which the locals of the pass change
<1>3. ASSUME GoOn
      PROVE  Same /\ pass'.todo = pass.todo /\ pass'.inprog = pass.inprog
             /\ pass'.cand = pass.cand
  BY <1>0, <1>3 DEF GoOn, Pass
<1>4. ASSUME CountFailed(n)
      PROVE  Same /\ Left /\ pass'.inprog = pass.inprog /\ pass'.cand = pass.cand
  BY <1>0, <1>4 DEF CountFailed, Pass
<1> DEFINE V == Visited(n)
<1>5. /\ V \in Pass /\ V.pc = pass.pc /\ V.dc = pass.dc /\ V.sync = pass.sync
      /\ V.started = pass.started /\ V.todo = pass.todo \ {n}
      /\ V.inprog = pass.inprog /\ V.cand = pass.cand
  BY <1>0 DEF Visited, Pass
<1> HIDE DEF V
<1>6. ASSUME pass' = V
      PROVE  Same /\ Left /\ pass'.inprog = pass.inprog /\ pass'.cand = pass.cand
  BY <1>5, <1>6
<1>7. ASSUME pass' = [V EXCEPT !.inprog = @ \cup {n}]
      PROVE  Same /\ Left /\ pass'.inprog = pass.inprog \cup {n}
             /\ pass'.cand = pass.cand
  BY <1>5, <1>7 DEF Pass
<1>8. ASSUME pass' = [V EXCEPT !.cand = IF pass.seen[n].ready THEN @ \cup {n} ELSE @]
      PROVE  Same /\ Left /\ pass'.inprog = pass.inprog
             /\ pass'.cand \subseteq pass.cand \cup {n}
  BY <1>5, <1>8 DEF Pass
\* The ways in which the state of the node changes
<1>9. ASSUME NEW s, SetStatus(n, s)
      PROVE  nodeStatus'[n] = s /\ \A m \in Nodes \ {n} : nodeStatus'[m] = nodeStatus[m]
  BY <1>0, <1>9 DEF SetStatus
<1> DEFINE Others == \A m \in Nodes \ {n} : nodeStatus'[m] = nodeStatus[m]
<1> HIDE DEF Same, Left, Others
<1> DEFINE Result == 
         /\ Others
         /\ UpgradeStarted(n) /\ nodeStatus'[n] # nodeStatus[n] /\ ~orphaned'
              => \A g \in Goroutines : go[g].node # n
         /\ nodeStatus'[n] \in BusyStates => nodeStatus'[n] = nodeStatus[n]
         /\ Same
         /\ Left \/ pass'.todo = pass.todo
         /\ pass.inprog \subseteq pass'.inprog
         /\ pass'.cand \subseteq pass.cand \cup {n}
         /\ nodeStatus'[n] \in BusyStates /\ Left => n \in pass'.inprog
         /\ nodeStatus'[n] \in BusyStates => pass'.cand = pass.cand
         /\ ~orphaned' => ~orphaned
<1>10. ASSUME NEW s, NEW ok \in BOOLEAN, Classify(n, s, ok), UNCHANGED orphaned,
              ~UpgradeStarted(n), s \notin {"Started", "RebootInProgress"},
              s \in {nodeStatus[n], "UncordonFailed"}
       PROVE  Result
  <2>1. CASE SetStatus(n, "InstallInProgress") /\ pass' = V
    BY <1>6, <1>9, <1>10, <2>1 DEF BusyStates, Others
  <2>2. CASE UNCHANGED nodeStatus /\ pass' = V /\ s = "InstallInProgress"
    BY <1>6, <1>10, <2>2 DEF BusyStates, Others
  <2>3. CASE /\ s = "InProgress"
             /\ SetStatus(n, "InProgress") \/ SetStatus(n, "Failed")
             /\ pass' = [V EXCEPT !.inprog = @ \cup {n}]
    BY <1>7, <1>9, <1>10, <2>3 DEF BusyStates, Others
  <2>4. CASE /\ s \notin {"InstallInProgress", "InProgress"} /\ SetStatus(n, s)
             /\ pass' = [V EXCEPT !.cand = IF pass.seen[n].ready THEN @ \cup {n} ELSE @]
    BY <1>8, <1>9, <1>10, <2>4 DEF BusyStates, Others
  <2> QED
    BY <1>10, <2>1, <2>2, <2>3, <2>4 DEF Classify, V
<1>11. Result
  <2>1. CASE VisitInit(n)
    <3>1. SetStatus(n, IF nodeStatus[n] = "Empty" THEN "NotStarted" ELSE nodeStatus[n])
          /\ GoOn /\ UNCHANGED orphaned
      BY <2>1 DEF VisitInit
    <3>2. ~Left
      BY <1>2, <1>3, <3>1 DEF Left
    <3> QED
      BY <1>3, <1>9, <3>1, <3>2 DEF BusyStates, UpgradeStarted, Others
  <2>2. CASE VisitTimedOut(n)
    <3>1. /\ SetStatus(n, "TimedOut") /\ CountFailed(n)
          /\ orphaned' = (orphaned \/ \E g \in Goroutines : go[g].node = n)
      BY <2>2 DEF VisitTimedOut
    <3>2. ~orphaned' => ~orphaned /\ \A g \in Goroutines : go[g].node # n
      BY <3>1, Zenon
    <3> QED
      BY <1>4, <1>9, <3>1, <3>2 DEF BusyStates, Others
  <2>3. CASE VisitFailed(n)
    <3>1. nodeStatus[n] \in FailedStates /\ CountFailed(n) /\ UNCHANGED <<nodeStatus, orphaned>>
      BY <2>3 DEF VisitFailed
    <3> QED
      BY <1>4, <3>1 DEF BusyStates, FailedStates, Others
  <2>4. CASE VisitRetry(n)
    <3>1. /\ nodeStatus[n] \in FailedStates /\ UNCHANGED orphaned
          /\ \/ SetStatus(n, "NotStarted") /\ GoOn
             \/ CountFailed(n) /\ UNCHANGED nodeStatus
      BY <2>4 DEF VisitRetry
    <3>2. ~UpgradeStarted(n) /\ nodeStatus[n] \notin BusyStates
      BY <3>1 DEF FailedStates, UpgradeStarted, BusyStates
    <3> QED
      BY <1>3, <1>4, <1>9, <3>1, <3>2 DEF BusyStates, Others
  <2>5. CASE VisitNmcMissing(n) \/ VisitStarted(n)
    <3>1. /\ UNCHANGED <<nodeStatus, orphaned>>
          /\ pass' = [V EXCEPT !.inprog = @ \cup {n}]
      BY <2>5 DEF VisitNmcMissing, VisitStarted, V
    <3> QED
      BY <1>7, <3>1 DEF Others
  <2>6. CASE VisitReady(n)
    <3>1. /\ ~UpgradeStarted(n) /\ pass' = V /\ UNCHANGED orphaned
          /\ \/ nodeStatus[n] \in DoneStates /\ UNCHANGED nodeStatus
             \/ SetStatus(n, "InstallComplete") \/ SetStatus(n, "Complete")
      BY <2>6 DEF VisitReady, V
    <3> QED
      BY <1>6, <1>9, <3>1 DEF BusyStates, DoneStates, Others
  <2>7. CASE VisitClassify(n)
    <3>1. /\ ~UpgradeStarted(n) /\ UNCHANGED orphaned
          /\ \E ok \in BOOLEAN : Classify(n, nodeStatus[n], ok)
      BY <2>7 DEF VisitClassify
    <3> QED
      BY <1>10, <3>1 DEF UpgradeStarted
  <2>8. CASE VisitUncordonFails(n)
    <3>1. /\ ~UpgradeStarted(n) /\ UNCHANGED orphaned
          /\ \E ok \in BOOLEAN : Classify(n, "UncordonFailed", ok)
      BY <2>8 DEF VisitUncordonFails, NmcStatusMissing, UpgradeStarted
    <3> QED
      BY <1>10, <3>1
  <2> QED
    BY <2>1, <2>2, <2>3, <2>4, <2>5, <2>6, <2>7, <2>8 DEF VisitStep
<1>12. \A m \in Nodes : node'[m].pod = node[m].pod
  <2>1. CASE UNCHANGED node
    BY <2>1
  <2>2. CASE node' = Uncordoned(n)
    BY <1>0, <2>2 DEF Uncordoned, Node
  <2>3. CASE \E v : node' = [node EXCEPT ![n].label = v]
    BY <1>0, <2>3 DEF Node
  <2>4. CASE \E v : node' = [node EXCEPT ![n].retry = FALSE, ![n].label = v]
    BY <1>0, <2>4 DEF Node
  <2>5. CASE node' = [node EXCEPT ![n].retry = FALSE]
    BY <1>0, <2>5 DEF Node
  <2>6. ASSUME NEW s, NEW ok, Classify(n, s, ok)
        PROVE  UNCHANGED node \/ \E v : node' = [node EXCEPT ![n].label = v]
    BY <2>6 DEF Classify, Relabel
  <2>7. UNCHANGED node \/ node' = Uncordoned(n)
        \/ (\E v : node' = [node EXCEPT ![n].label = v])
        \/ (\E v : node' = [node EXCEPT ![n].retry = FALSE, ![n].label = v])
        \/ node' = [node EXCEPT ![n].retry = FALSE]
    BY <2>6 DEF VisitStep, VisitInit, VisitTimedOut, VisitFailed, VisitRetry,
         VisitNmcMissing, VisitStarted, VisitReady, VisitClassify, VisitUncordonFails
  <2> QED
    BY <2>1, <2>2, <2>3, <2>4, <2>5, <2>7
<1> QED
  BY <1>2, <1>11, <1>12 DEF Same, Left, Others

LEMMA VisitInv ==
  ASSUME UpgradeInv, NEW n \in Nodes, VisitStep(n)
  PROVE  UpgradeInv'
<1>0. /\ TypeOK /\ PodsInv /\ StartInv /\ InitInv /\ MarkInv /\ LoopInv
      /\ OneGoroutinePerNode /\ ParallelLimit
  BY DEF UpgradeInv
<1>1. TypeOK'
  BY <1>0, PassStepTypeOK DEF PassStep
<1>2. /\ pass.pc = "visit" /\ n \in pass.todo
      /\ UNCHANGED <<cr, go, inited>>
      /\ \A m \in Nodes : node'[m].pod = node[m].pod
      /\ \A m \in Nodes \ {n} : nodeStatus'[m] = nodeStatus[m]
      /\ UpgradeStarted(n) /\ nodeStatus'[n] # nodeStatus[n] /\ ~orphaned'
           => \A g \in Goroutines : go[g].node # n
      /\ nodeStatus'[n] \in BusyStates => nodeStatus'[n] = nodeStatus[n]
      /\ pass'.pc = "visit" /\ pass'.dc = pass.dc /\ pass'.sync = pass.sync
      /\ pass.todo \ {n} \subseteq pass'.todo /\ pass'.todo \subseteq pass.todo
      /\ pass.inprog \subseteq pass'.inprog /\ pass'.started = pass.started
      /\ pass'.cand \subseteq pass.cand \cup {n}
      /\ nodeStatus'[n] \in BusyStates => n \in pass'.todo \cup pass'.inprog
      /\ nodeStatus'[n] \in BusyStates => pass'.cand = pass.cand
      /\ ~orphaned' => ~orphaned
  BY <1>0, VisitEffect
<1>3. \A d : Busy(d)' \subseteq Busy(d) /\ CrBusy(d)' = CrBusy(d)
  BY <1>2 DEF Busy, CrBusy, NodesOf
<1>4. PodsInv' /\ StartInv' /\ InitInv'
  BY <1>0, <1>2 DEF PodsInv, StartInv, InitInv
<1>5. MarkInv'
  <2> SUFFICES ASSUME ~orphaned', NEW g \in Goroutines, Works(g)
               PROVE  nodeStatus'[go[g].node] \in {"Started", "RebootInProgress"}
    BY <1>2 DEF MarkInv, Works, Active, UpgradeStarted
  <2>1. pass.sync # g
    BY <1>0, <1>2, ConstantsAssumption DEF InitInv, Goroutines
  <2>2. UpgradeStarted(go[g].node) /\ go[g].node \in Nodes
    BY <1>0, <1>2, <2>1 DEF MarkInv, UpgradeStarted, Works, TypeOK
  <2> QED
    BY <1>2, <2>2 DEF UpgradeStarted
<1>6. LoopInv'
  <2> SUFFICES ASSUME ~orphaned'
               PROVE  /\ pass'.todo \subseteq NodesOf(pass.dc)
                      /\ pass'.cand \subseteq NodesOf(pass.dc)
                      /\ Busy(pass.dc)' \subseteq
                           pass'.todo \cup pass'.inprog \cup pass'.started
                      /\ \A m \in pass'.cand : nodeStatus'[m] \notin BusyStates
    BY <1>2 DEF LoopInv, NodesOf
  <2>1. /\ pass.todo \subseteq NodesOf(pass.dc) /\ pass.cand \subseteq NodesOf(pass.dc)
        /\ Busy(pass.dc) \subseteq pass.todo \cup pass.inprog \cup pass.started
        /\ \A m \in pass.cand : nodeStatus[m] \notin BusyStates
    BY <1>0, <1>2 DEF LoopInv
  <2>2. Busy(pass.dc)' = {m \in NodesOf(pass.dc) : nodeStatus'[m] \in BusyStates}
    BY <1>2 DEF Busy, NodesOf
  <2>3. Busy(pass.dc)' \subseteq pass'.todo \cup pass'.inprog \cup pass'.started
    BY <1>2, <2>1, <2>2 DEF Busy, NodesOf
  <2>4. \A m \in pass'.cand : nodeStatus'[m] \notin BusyStates
    BY <1>2, <2>1 DEF NodesOf
  <2> QED
    BY <1>2, <2>1, <2>3, <2>4
<1>7. OneGoroutinePerNode'
  BY <1>0, <1>2 DEF OneGoroutinePerNode, Works, Active
<1>8. ParallelLimit'
  BY <1>0, <1>2, <1>3, LimitKept
<1> QED
  BY <1>1, <1>4, <1>5, <1>6, <1>7, <1>8 DEF UpgradeInv

---------------------------------------------------------------------------
\* Steps that touch neither the memory nor the goroutines

PodsKept == \A n \in Nodes : node[n].pod = "none" => node'[n].pod = "none"

LEMMA FrameInv ==
  ASSUME UpgradeInv, TypeOK', UNCHANGED <<nodeStatus, go, inited, pass, orphaned>>,
         \A n \in Nodes : cr'[n].status = cr[n].status, PodsKept
  PROVE  UpgradeInv'
<1>0. /\ TypeOK /\ PodsInv /\ StartInv /\ InitInv /\ MarkInv /\ LoopInv
      /\ OneGoroutinePerNode /\ ParallelLimit
  BY DEF UpgradeInv
<1>1. \A d : Busy(d)' = Busy(d) /\ CrBusy(d)' = CrBusy(d)
  BY DEF Busy, CrBusy, NodesOf
<1>2. Busy(pass.dc)' = Busy(pass.dc) /\ CrBusy(pass.dc)' = CrBusy(pass.dc)
  BY DEF Busy, CrBusy, NodesOf
<1>3. PodsInv' /\ StartInv' /\ MarkInv' /\ OneGoroutinePerNode'
  BY <1>0 DEF PodsInv, PodsKept, StartInv, MarkInv, OneGoroutinePerNode, Works,
              Active, UpgradeStarted
<1>4. InitInv' /\ LoopInv'
  BY <1>0, <1>2 DEF InitInv, LoopInv, Active, NodesOf
<1>5. ParallelLimit'
  BY <1>0, <1>1, LimitKept
<1> QED
  BY <1>3, <1>4, <1>5 DEF UpgradeInv

\* After the loop of HandleUpgrade the pass has no say in the invariant but for
\* what it publishes
LEMMA AfterLoopInv ==
  ASSUME UpgradeInv, TypeOK', UNCHANGED <<nodeStatus, go, inited, orphaned>>,
         pass.pc \in {"select", "label", "publish"},
         pass'.pc \in {"label", "publish", "idle"}, pass'.sync = 0, PodsKept,
         \A d \in DCs : CrBusy(d)' \subseteq Busy(d) \/ CrBusy(d)' \subseteq CrBusy(d)
  PROVE  UpgradeInv'
<1>0. /\ TypeOK /\ PodsInv /\ StartInv /\ InitInv /\ MarkInv /\ LoopInv
      /\ OneGoroutinePerNode /\ ParallelLimit
  BY DEF UpgradeInv
<1>1. \A d \in DCs : Busy(d)' = Busy(d)
  BY DEF Busy, NodesOf
<1>2. PodsInv' /\ StartInv' /\ OneGoroutinePerNode'
  BY <1>0 DEF PodsInv, PodsKept, StartInv, OneGoroutinePerNode, Works, Active
<1>3. MarkInv'
  <2>1. \A g \in Goroutines : pass.sync # g
    BY <1>0, ConstantsAssumption DEF InitInv, Goroutines
  <2> QED
    BY <1>0, <2>1 DEF MarkInv, Works, Active, UpgradeStarted
<1>4. InitInv' /\ LoopInv'
  BY DEF InitInv, LoopInv
<1>5. ParallelLimit'
  BY <1>0, <1>1, LimitKept
<1> QED
  BY <1>2, <1>3, <1>4, <1>5 DEF UpgradeInv

LEMMA EnvironmentInv ==
  ASSUME UpgradeInv, Environment
  PROVE  UpgradeInv'
<1>0. /\ TypeOK /\ TypeOK' /\ cr \in [Nodes -> ModuleStatus]
      /\ node \in [Nodes -> Node]
  BY EnvironmentTypeOK DEF UpgradeInv, TypeOK
<1>1. ASSUME NEW d \in DCs, UserDelete(d) \/ \E v \in Versions : EditSpec(d, v)
      PROVE  UpgradeInv'
  BY <1>0, <1>1, FrameInv
     DEF UserDelete, EditSpec, memory, manager, history, PodsKept
<1>2. ASSUME NEW n \in Nodes, TwoHoursPass(n) PROVE UpgradeInv'
  <2>1. \A m \in Nodes : cr'[m].status = cr[m].status
    BY <1>0, <1>2 DEF TwoHoursPass, ModuleStatus
  <2> QED
    BY <1>0, <1>2, <2>1, FrameInv
       DEF TwoHoursPass, manager, history, PodsKept
<1>3. ASSUME NEW n \in Nodes, UserRetry(n) \/ KmmSync(n) PROVE UpgradeInv'
  <2>1. PodsKept
    BY <1>0, <1>3 DEF UserRetry, KmmSync, PodsKept, Node
  <2> QED
    BY <1>0, <1>3, <2>1, FrameInv
       DEF UserRetry, KmmSync, memory, manager, history
<1>4. ASSUME NEW n \in Nodes, RebootBegin(n) PROVE UpgradeInv'
  <2>1. PodsKept
    BY <1>0, <1>4 DEF RebootBegin, PodsKept, Node
  <2> QED
    BY <1>0, <1>4, <2>1, FrameInv
       DEF RebootBegin, memory, manager, history
<1>5. ASSUME NEW n \in Nodes, RebootEnd(n) PROVE UpgradeInv'
  <2>1. PICK m : node' = [node EXCEPT ![n].ready = TRUE, ![n].boot = @ + 1, ![n].nmc = m]
    BY <1>5 DEF RebootEnd
  <2>2. PodsKept
    BY <1>0, <2>1 DEF PodsKept, Node
  <2> QED
    BY <1>0, <1>5, <2>2, FrameInv
       DEF RebootEnd, memory, manager
<1>6. ASSUME Restart PROVE UpgradeInv'
  <2>1. /\ PodsInv /\ ParallelLimit
    BY DEF UpgradeInv
  <2>2. /\ \A n \in Nodes : nodeStatus'[n] = "Empty"
        /\ \A g \in Goroutines : go'[g].pc = "idle"
        /\ pass'.pc = "idle" /\ pass'.sync = 0
        /\ UNCHANGED <<cr, node, orphaned>>
    BY <1>6 DEF Restart, NoGoroutine, NoPass
  <2>3. \A d \in DCs : Busy(d)' = {} /\ CrBusy(d)' = CrBusy(d)
    BY <2>2 DEF Busy, CrBusy, NodesOf, BusyStates
  <2>4. PodsInv' /\ StartInv' /\ InitInv' /\ MarkInv' /\ LoopInv' /\ OneGoroutinePerNode'
    BY <2>1, <2>2 DEF PodsInv, StartInv, InitInv, MarkInv, LoopInv, OneGoroutinePerNode,
                      Works, Active
  <2>5. ParallelLimit'
    BY <2>1, <2>2, <2>3, LimitKept
  <2> QED
    BY <1>0, <2>4, <2>5 DEF UpgradeInv
<1> QED
  BY <1>1, <1>2, <1>3, <1>4, <1>5, <1>6 DEF Environment

---------------------------------------------------------------------------
\* The start of a pass, and deletion

\* Forgetting the states is harmless when nothing runs, and known to have
\* happened otherwise
LEMMA ClearEffect ==
  ASSUME ClearNodeStatus \/ UNCHANGED <<nodeStatus, orphaned>>
  PROVE  /\ ~orphaned' => ~orphaned
         /\ \A d : Busy(d)' \subseteq Busy(d)
         /\ ~orphaned' => \/ UNCHANGED nodeStatus
                          \/ \A g \in Goroutines : ~Active(g)
         /\ (\A n \in Nodes : nodeStatus[n] = "Empty")
              => \A n \in Nodes : nodeStatus'[n] = "Empty"
<1>1. CASE UNCHANGED <<nodeStatus, orphaned>>
  BY <1>1 DEF Busy, NodesOf
<1>2. CASE ClearNodeStatus
  <2>1. /\ \A n \in Nodes : nodeStatus'[n] = "Empty"
        /\ orphaned' = (orphaned \/ \E g \in Goroutines : Active(g))
    BY <1>2 DEF ClearNodeStatus, LeaveBehind
  <2>2. \A d : Busy(d)' = {}
    BY <2>1 DEF Busy, NodesOf, BusyStates
  <2>3. ~orphaned' => ~orphaned /\ \A g \in Goroutines : ~Active(g)
    BY <2>1, Zenon
  <2> QED
    BY <2>1, <2>2, <2>3
<1> QED
  BY <1>1, <1>2

LEMMA BeginPassInv ==
  ASSUME UpgradeInv, NEW d \in DCs, BeginPass(d)
  PROVE  UpgradeInv'
<1>0. /\ TypeOK /\ PodsInv /\ StartInv /\ InitInv /\ MarkInv /\ LoopInv
      /\ OneGoroutinePerNode /\ ParallelLimit
  BY DEF UpgradeInv
<1>1. TypeOK'
  BY <1>0, BeginPassTypeOK
<1>2. /\ UNCHANGED <<cr, node, go>> /\ inited' = TRUE /\ pass.pc = "idle"
      /\ ClearNodeStatus \/ UNCHANGED <<nodeStatus, orphaned>>
      /\ ~inited => UNCHANGED <<nodeStatus, orphaned>>
  BY DEF BeginPass, NoteSpec
<1>3. /\ pass'.pc = (IF inited THEN "visit" ELSE "init")
      /\ pass'.dc = d /\ pass'.sync = 0 /\ pass'.cand = {}
      /\ pass'.todo = {n \in NodesOf(d) : inited \/ cr[n].has}
  <2>1. pass' = [NoPass EXCEPT
                   !.pc = IF inited THEN "visit" ELSE "init",
                   !.dc = d, !.spec = dc[d].spec,
                   !.seen = [n \in Nodes |-> SeenOf(n)],
                   !.todo = {n \in NodesOf(d) : inited \/ cr[n].has}]
    BY DEF BeginPass
  <2> QED
    BY <2>1 DEF NoPass
<1>4. /\ ~orphaned' => ~orphaned
      /\ \A e : Busy(e)' \subseteq Busy(e) /\ CrBusy(e)' = CrBusy(e)
      /\ ~orphaned' => UNCHANGED nodeStatus \/ \A g \in Goroutines : ~Active(g)
  BY <1>0, <1>2, ClearEffect DEF CrBusy, NodesOf
<1>5. PodsInv' /\ StartInv' /\ OneGoroutinePerNode'
  BY <1>0, <1>2, <1>4 DEF PodsInv, StartInv, OneGoroutinePerNode, Works, Active
<1>6. InitInv'
  <2>1. SUFFICES ASSUME ~inited
                 PROVE  Busy(pass.dc)' = {} /\ \A g \in Goroutines : ~Active(g)'
    BY <1>3 DEF InitInv, NodesOf
  <2> QED
    BY <1>0, <1>2, <2>1 DEF StartInv, Busy, NodesOf, BusyStates, Active
<1>7. MarkInv'
  <2>1. \A g \in Goroutines : pass.sync # g
    BY <1>0, <1>2, ConstantsAssumption DEF InitInv, Goroutines
  <2> QED
    BY <1>0, <1>2, <1>4, <2>1 DEF MarkInv, Works, Active, UpgradeStarted
<1>8. LoopInv'
  <2>1. CASE ~inited
    BY <1>3, <2>1 DEF LoopInv
  <2>2. CASE inited
    <3>1. Busy(pass.dc)' \subseteq NodesOf(d)
      BY <1>3 DEF Busy, NodesOf
    <3>2. pass'.todo = NodesOf(d)
      BY <1>3, <2>2
    <3> QED
      BY <1>3, <2>2, <3>1, <3>2 DEF LoopInv, NodesOf
  <2> QED
    BY <2>1, <2>2
<1>9. ParallelLimit'
  BY <1>0, <1>4, LimitKept
<1> QED
  BY <1>1, <1>5, <1>6, <1>7, <1>8, <1>9 DEF UpgradeInv

\* The steps of a deletion pass start no goroutine, and what they do to the states
\* is to forget them all, or is known to have happened
LEMMA DeletionInv ==
  ASSUME UpgradeInv, TypeOK', UNCHANGED <<inited, go>>, PodsKept,
         pass.pc \in {"idle", "delete", "finalize"},
         pass'.pc \in {"idle", "delete", "finalize"}, pass'.sync = 0,
         ~inited /\ pass'.pc # "delete" => \A n \in Nodes : nodeStatus'[n] = "Empty",
         \A n \in Nodes : cr'[n] \in {cr[n], NoStatus},
         ~orphaned' => /\ ~orphaned
                       /\ \/ UNCHANGED nodeStatus
                          \/ /\ \A n \in Nodes : nodeStatus'[n] = "Empty"
                             /\ \A g \in Goroutines : ~Active(g)
  PROVE  UpgradeInv'
<1>0. /\ TypeOK /\ PodsInv /\ StartInv /\ InitInv /\ MarkInv /\ LoopInv
      /\ OneGoroutinePerNode /\ ParallelLimit
  BY DEF UpgradeInv
<1>1. PodsInv' /\ StartInv' /\ OneGoroutinePerNode'
  BY <1>0 DEF PodsInv, PodsKept, StartInv, OneGoroutinePerNode, Works, Active
<1>2. MarkInv'
  <2>1. \A g \in Goroutines : pass.sync # g
    BY <1>0, ConstantsAssumption DEF InitInv, Goroutines
  <2> QED
    BY <1>0, <2>1 DEF MarkInv, Works, Active
<1>3. InitInv' /\ LoopInv'
  BY DEF InitInv, LoopInv
<1>4. \A d : CrBusy(d)' \subseteq CrBusy(d)
  BY DEF CrBusy, NodesOf, NoStatus, BusyStates
<1>5. ~orphaned' => \A d : Busy(d)' \subseteq Busy(d)
  BY DEF Busy, NodesOf, BusyStates
<1>6. ParallelLimit'
  BY <1>0, <1>4, <1>5, LimitKept
<1> QED
  BY <1>1, <1>2, <1>3, <1>6 DEF UpgradeInv

LEMMA BeginDeleteInv ==
  ASSUME UpgradeInv, NEW d \in DCs, BeginDelete(d)
  PROVE  UpgradeInv'
<1>0. TypeOK /\ TypeOK' /\ StartInv /\ node \in [Nodes -> Node]
  BY BeginDeleteTypeOK DEF UpgradeInv, TypeOK
<1>1. /\ pass.pc = "idle" /\ UNCHANGED <<cr, inited, nodeStatus, go>>
      /\ pass'.pc = "delete" /\ pass'.sync = 0
  BY DEF BeginDelete, memory, manager, NoPass
<1>2. PodsKept
  BY <1>0 DEF BeginDelete, PodsKept, Node
<1>3. ~orphaned' => ~orphaned
  BY DEF BeginDelete, LeaveBehind
<1> QED
  BY <1>0, <1>1, <1>2, <1>3, DeletionInv

LEMMA DeleteStepInv ==
  ASSUME UpgradeInv, DeleteStep
  PROVE  UpgradeInv'
<1>0. /\ TypeOK /\ TypeOK' /\ StartInv /\ InitInv /\ node \in [Nodes -> Node]
      /\ PassOK /\ pass \in Pass
  BY DeleteStepTypeOK, TypeParts DEF UpgradeInv, TypeOK
<1>1. /\ pass.pc \in {"delete", "finalize"} /\ pass.sync = 0 /\ UNCHANGED <<inited, go>>
  BY <1>0 DEF InitInv, DeleteStep, DeleteUncordon, DeletePod, DeleteVisiting, EndDelete,
         FinalizeModule, FinalizeDone, FinalizeAgain, memory, manager
<1>2. PodsKept
  <2>1. CASE UNCHANGED node
    BY <2>1 DEF PodsKept
  <2>2. ASSUME NEW n \in Nodes, node' = Uncordoned(n) PROVE PodsKept
    BY <1>0, <2>2 DEF Uncordoned, PodsKept, Node
  <2>3. ASSUME NEW n \in Nodes, node' = [node EXCEPT ![n].pod = "none"] PROVE PodsKept
    BY <1>0, <2>3 DEF PodsKept, Node
  <2>4. CASE FinalizeModule
    BY <1>0, <2>4 DEF FinalizeModule, PodsKept, Node
  <2> QED
    BY <2>1, <2>2, <2>3, <2>4
       DEF DeleteStep, DeleteUncordon, DeletePod, EndDelete, FinalizeDone, FinalizeAgain
<1>3. \A n \in Nodes : cr'[n] \in {cr[n], NoStatus}
  BY DEF DeleteStep, DeleteUncordon, DeletePod, DeleteVisiting, EndDelete,
         FinalizeModule, FinalizeDone, FinalizeAgain
<1>4. NoPass \in Pass /\ NoPass.pc = "idle" /\ NoPass.sync = 0
  BY Records DEF NoPass
<1>5. ASSUME NEW n \in Nodes, DeleteUncordon(n) PROVE UpgradeInv'
  <2>1. pass'.pc = "delete" /\ pass'.sync = 0 /\ UNCHANGED <<nodeStatus, orphaned>>
    BY <1>0, <1>1, <1>5 DEF DeleteUncordon, DeleteVisiting, Pass
  <2> QED
    BY <1>0, <1>1, <1>2, <1>3, <2>1, DeletionInv
<1>6. ASSUME NEW n \in Nodes, DeletePod(n) PROVE UpgradeInv'
  <2>1. pass' = Visited(n) /\ pass.pc = "delete"
    BY <1>6 DEF DeletePod, DeleteVisiting
  <2>2. pass'.pc = "delete" /\ pass'.sync = 0
    BY <1>0, <1>1, <2>1 DEF Visited, Pass
  <2>3. UNCHANGED <<nodeStatus, orphaned>> \/ orphaned'
    BY <1>6 DEF DeletePod
  <2> QED
    BY <1>0, <1>1, <1>2, <1>3, <2>2, <2>3, DeletionInv
<1>7. ASSUME EndDelete PROVE UpgradeInv'
  <2>1. pass'.pc = "finalize" /\ pass'.sync = 0
    BY <1>4, <1>7 DEF EndDelete, Pass
  <2>2. /\ \A n \in Nodes : nodeStatus'[n] = "Empty"
        /\ ~orphaned' => ~orphaned /\ \A g \in Goroutines : ~Active(g)
    BY <1>7 DEF EndDelete, ClearNodeStatus, LeaveBehind
  <2> QED
    BY <1>0, <1>1, <1>2, <1>3, <2>1, <2>2, DeletionInv
<1>8. ASSUME FinalizeModule \/ FinalizeDone \/ FinalizeAgain PROVE UpgradeInv'
  <2>1. /\ pass.pc = "finalize" /\ pass' = NoPass /\ UNCHANGED <<nodeStatus, orphaned>>
    BY <1>8 DEF FinalizeModule, FinalizeDone, FinalizeAgain, memory, history
  <2> QED
    BY <1>0, <1>1, <1>2, <1>3, <1>4, <2>1, DeletionInv DEF StartInv
<1> QED
  BY <1>5, <1>6, <1>7, <1>8 DEF DeleteStep

---------------------------------------------------------------------------
\* New goroutines

LEMMA SpawnEffect ==
  ASSUME TypeOK, NEW g \in Goroutines, NEW pc, NEW n, NEW t, NEW b,
         Spawn(g, pc, n, t, b)
  PROVE  /\ ~Active(g) /\ go'[g].pc = pc /\ go'[g].node = n
         /\ \A h \in Goroutines \ {g} : go'[h] = go[h]
BY DEF TypeOK, Spawn

\* Selection: the policy leaves room for the node, and no goroutine is at work on
\* a candidate
LEMMA StartNodeInv ==
  ASSUME UpgradeInv, NEW n \in Nodes, StartNode(n)
  PROVE  UpgradeInv'
<1>0. /\ TypeOK /\ PodsInv /\ StartInv /\ InitInv /\ MarkInv /\ LoopInv
      /\ OneGoroutinePerNode /\ ParallelLimit
      /\ pass \in Pass /\ nodeStatus \in [Nodes -> UpgradeState]
  BY DEF UpgradeInv, TypeOK
<1>1. TypeOK'
  BY <1>0, PassStepTypeOK DEF PassStep
<1>2. /\ pass.pc = "select" /\ MaySelect /\ n \in pass.cand
      /\ UNCHANGED <<cr, node, inited, orphaned>>
  BY DEF StartNode, FirstOf, manager, history
<1>3. /\ nodeStatus'[n] = "Started"
      /\ \A m \in Nodes \ {n} : nodeStatus'[m] = nodeStatus[m]
  BY <1>0 DEF StartNode, SetStatus
<1>4. /\ pass'.pc = pass.pc /\ pass'.dc = pass.dc /\ pass'.sync = pass.sync
      /\ pass'.todo = pass.todo /\ pass'.inprog = pass.inprog
      /\ pass'.failed = pass.failed
      /\ pass'.cand = pass.cand \ {n} /\ pass'.started = pass.started \cup {n}
  BY <1>0 DEF StartNode, Pass
<1>5. PICK g \in Goroutines :
        /\ ~Active(g) /\ go'[g].pc = "hnuCheck" /\ go'[g].node = n
        /\ \A h \in Goroutines \ {g} : go'[h] = go[h]
  BY <1>0, SpawnEffect DEF StartNode
<1>6. \A h \in Goroutines : pass.sync # h
  BY <1>0, <1>2, ConstantsAssumption DEF InitInv, Goroutines
<1>7. ~orphaned => \A h \in Goroutines : Works(h) => go[h].node # n
  BY <1>0, <1>2, <1>6 DEF MarkInv, LoopInv, UpgradeStarted, BusyStates
<1>8. PodsInv' /\ StartInv' /\ InitInv'
  BY <1>0, <1>2, <1>4, <1>5 DEF PodsInv, StartInv, InitInv
<1>9. MarkInv'
  <2> SUFFICES ASSUME ~orphaned, NEW h \in Goroutines, Works(h)'
               PROVE  nodeStatus'[go'[h].node] \in {"Started", "RebootInProgress"}
    BY <1>2 DEF MarkInv, UpgradeStarted
  <2>1. CASE h = g
    BY <1>3, <1>5, <2>1
  <2>2. CASE h # g
    <3>1. Works(h) /\ go'[h] = go[h] /\ go[h].node \in Nodes
      BY <1>0, <1>5, <2>2 DEF Works, Active, TypeOK
    <3> QED
      BY <1>0, <1>3, <1>6, <1>7, <3>1 DEF MarkInv, UpgradeStarted
  <2> QED
    BY <2>1, <2>2
<1>10. OneGoroutinePerNode'
  BY <1>0, <1>2, <1>5, <1>7 DEF OneGoroutinePerNode, Works, Active
<1>11. ~orphaned => /\ pass.cand \subseteq NodesOf(pass.dc) /\ pass.todo = {}
                    /\ Busy(pass.dc) \subseteq pass.inprog \cup pass.started
                    /\ \A m \in pass.cand : nodeStatus[m] \notin BusyStates
  BY <1>0, <1>2 DEF LoopInv
<1>12. ~orphaned => Busy(pass.dc)' \subseteq pass'.inprog \cup pass'.started
  <2>1. Busy(pass.dc)' = {m \in NodesOf(pass.dc) : nodeStatus'[m] \in BusyStates}
    BY <1>4 DEF Busy, NodesOf
  <2> QED
    BY <1>3, <1>4, <1>11, <2>1 DEF Busy, NodesOf
<1>13. LoopInv'
  <2> SUFFICES ASSUME ~orphaned
               PROVE  /\ pass'.todo = {} /\ pass'.cand \subseteq NodesOf(pass.dc)
                      /\ Busy(pass.dc)' \subseteq pass'.inprog \cup pass'.started
                      /\ \A m \in pass'.cand : nodeStatus'[m] \notin BusyStates
    BY <1>2, <1>4 DEF LoopInv, NodesOf
  <2>1. \A m \in pass'.cand : m \in Nodes \ {n} /\ nodeStatus[m] \notin BusyStates
    BY <1>4, <1>11 DEF NodesOf
  <2> QED
    BY <1>3, <1>4, <1>11, <1>12, <2>1
<1>14. ParallelLimit'
  <2> SUFFICES ASSUME ~orphaned, NEW d \in DCs
               PROVE  /\ Cardinality(Busy(d)') <= UpgradeLimit(d)
                      /\ Cardinality(CrBusy(d)') <= UpgradeLimit(d)
    BY <1>2 DEF ParallelLimit
  <2>1. CrBusy(d)' = CrBusy(d)
    BY <1>2 DEF CrBusy, NodesOf
  <2>2. CASE d # pass.dc
    <3>1. Busy(d)' = Busy(d)
      BY <1>2, <1>3, <1>11, <2>2 DEF Busy, NodesOf
    <3> QED
      BY <1>0, <2>1, <3>1 DEF ParallelLimit
  <2>3. CASE d = pass.dc
    <3> DEFINE total == Cardinality(NodesOf(d))
               k == Cardinality(pass.inprog)
               s == Cardinality(pass.started)
               f == Cardinality(pass.failed)
    <3>1. /\ pass.inprog \subseteq Nodes /\ pass.started \subseteq Nodes
          /\ pass.failed \subseteq Nodes
      BY <1>0 DEF Pass
    <3>2. /\ k \in Nat /\ s \in Nat /\ f \in Nat /\ total \in Nat
          /\ IsFiniteSet(pass.inprog) /\ IsFiniteSet(pass.started)
      BY <3>1, FinitePart, LimitIsNat
    <3>3. s < MaxParallelAllowed(total, f) - k
      BY <1>2, <2>3 DEF MaySelect
    <3>4. MaxParallelAllowed(total, f) <= MaxParallelAllowed(total, 0)
          /\ MaxParallelAllowed(total, f) \in Int
          /\ MaxParallelAllowed(total, 0) \in Int
      <4>1. MaxUnavailable(total) \in Nat
        BY <3>2, ConstantsAssumption DEF MaxUnavailable
      <4> HIDE DEF total, f
      <4> QED
        BY <3>2, <4>1, ConstantsAssumption DEF MaxParallelAllowed
    <3>5. /\ IsFiniteSet(pass.started \cup {n})
          /\ Cardinality(pass.started \cup {n}) \in Nat
          /\ Cardinality(pass.started \cup {n}) <= s + 1
      <4>1. /\ IsFiniteSet(pass.started \cup {n})
            /\ \/ n \in pass.started /\ Cardinality(pass.started \cup {n}) = s
               \/ n \notin pass.started /\ Cardinality(pass.started \cup {n}) = s + 1
        BY <3>2, FS_AddElement
      <4> HIDE DEF s
      <4> QED
        BY <3>2, <4>1
    <3> DEFINE U == pass.inprog \cup (pass.started \cup {n})
    <3>6. Cardinality(U) \in Nat /\ Cardinality(U) <= k + s + 1
      <4>1. Cardinality(U) = k + Cardinality(pass.started \cup {n})
                             - Cardinality(pass.inprog \cap (pass.started \cup {n}))
        BY <3>2, <3>5, FS_Union
      <4>2. Cardinality(pass.inprog \cap (pass.started \cup {n})) \in Nat
        BY <3>1, FinitePart
      <4>3. Cardinality(U) \in Nat
        BY <3>1, FinitePart
      <4> HIDE DEF k, s, U
      <4> QED
        BY <3>2, <3>5, <4>1, <4>2, <4>3
    <3>7. Cardinality(U) <= UpgradeLimit(d)
      <4> HIDE DEF k, s, f, total, U
      <4>1. Cardinality(U) <= MaxParallelAllowed(total, 0)
        BY <3>2, <3>3, <3>4, <3>6
      <4> QED
        BY <4>1 DEF UpgradeLimit, total
    <3>8. Busy(d)' \subseteq U
      BY <1>4, <1>12, <2>3 DEF Busy, NodesOf
    <3>9. U \subseteq Nodes /\ UpgradeLimit(d) \in Int
      BY <3>1, LimitIsNat
    <3>10. Cardinality(Busy(d)') <= UpgradeLimit(d)
      BY <3>7, <3>8, <3>9, SmallerPart
    <3> QED
      BY <1>0, <2>1, <3>10 DEF ParallelLimit
  <2> QED
    BY <2>2, <2>3
<1> QED
  BY <1>1, <1>8, <1>9, <1>10, <1>13, <1>14 DEF UpgradeInv

LEMMA PassStepInv ==
  ASSUME UpgradeInv, PassStep
  PROVE  UpgradeInv'
<1>0. /\ TypeOK /\ TypeOK' /\ PassOK /\ pass \in Pass /\ node \in [Nodes -> Node]
      /\ InitInv
  BY PassStepTypeOK, TypeParts DEF UpgradeInv, TypeOK
<1>1. pass.pc # "init" => pass.sync = 0
  BY <1>0 DEF InitInv
<1>2. ASSUME NEW pc, PassGoesTo(pc)
      PROVE  /\ pass'.pc = pc /\ pass'.dc = pass.dc /\ pass'.sync = pass.sync
             /\ pass'.todo = pass.todo /\ pass'.inprog = pass.inprog
             /\ pass'.cand = pass.cand /\ pass'.started = pass.started
             /\ UNCHANGED <<cr, nodeStatus, inited, go, orphaned>>
  BY <1>0, <1>2 DEF PassGoesTo, Pass, memory, manager, history
<1>3. NoPass.pc = "idle" /\ NoPass.sync = 0
  BY DEF NoPass
<1>4. ASSUME EndVisit PROVE UpgradeInv'
  <2>1. /\ PodsInv /\ StartInv /\ MarkInv /\ LoopInv
        /\ OneGoroutinePerNode /\ ParallelLimit
    BY DEF UpgradeInv
  <2>2. /\ pass.pc = "visit" /\ pass.todo = {} /\ PassGoesTo("select") /\ UNCHANGED node
    BY <1>4 DEF EndVisit
  <2>3. Busy(pass.dc)' = Busy(pass.dc)
    BY <1>2, <2>2 DEF Busy, NodesOf
  <2>4. PodsInv' /\ StartInv' /\ InitInv' /\ MarkInv' /\ OneGoroutinePerNode'
    BY <1>0, <1>2, <2>1, <2>2
       DEF PodsInv, StartInv, InitInv, MarkInv, OneGoroutinePerNode, Works, Active,
           UpgradeStarted
  <2>5. LoopInv'
    BY <1>2, <2>1, <2>2, <2>3 DEF LoopInv, NodesOf
  <2>6. \A d \in DCs : Busy(d)' = Busy(d) /\ CrBusy(d)' = CrBusy(d)
    BY <1>2, <2>2 DEF Busy, CrBusy, NodesOf
  <2>7. ParallelLimit'
    BY <1>2, <2>1, <2>2, <2>6, LimitKept
  <2> QED
    BY <1>0, <2>4, <2>5, <2>7 DEF UpgradeInv
<1>5. ASSUME EndSelect PROVE UpgradeInv'
  <2>1. pass.pc = "select" /\ PassGoesTo("label") /\ PodsKept
    BY <1>5 DEF EndSelect, PodsKept
  <2>2. \A d \in DCs : CrBusy(d)' = CrBusy(d)
    BY <1>2, <2>1 DEF CrBusy, NodesOf
  <2> QED
    BY <1>0, <1>1, <1>2, <2>1, <2>2, AfterLoopInv
<1>6. ASSUME HandleKMMVersionLabel PROVE UpgradeInv'
  <2>1. pass.pc = "label" /\ PassGoesTo("publish")
    BY <1>6 DEF HandleKMMVersionLabel
  <2>2. PodsKept
    BY <1>0, <1>6 DEF HandleKMMVersionLabel, PodsKept, Node
  <2>3. \A d \in DCs : CrBusy(d)' = CrBusy(d)
    BY <1>2, <2>1 DEF CrBusy, NodesOf
  <2> QED
    BY <1>0, <1>1, <1>2, <2>1, <2>2, <2>3, AfterLoopInv
<1>7. ASSUME PublishStatus PROVE UpgradeInv'
  <2>1. /\ pass.pc = "publish" /\ pass' = NoPass /\ PodsKept
        /\ UNCHANGED <<nodeStatus, inited, go, orphaned>>
    BY <1>7 DEF PublishStatus, memory, manager, history, PodsKept
  <2>2. \A n \in Nodes : IF dcOf[n] # pass.dc THEN cr'[n] = cr[n]
                                            ELSE cr'[n].status = nodeStatus[n]
    BY <1>7 DEF PublishStatus
  <2>3. ASSUME NEW d \in DCs
        PROVE  CrBusy(d)' \subseteq Busy(d) \/ CrBusy(d)' \subseteq CrBusy(d)
    BY <2>2 DEF CrBusy, Busy, NodesOf
  <2> QED
    BY <1>0, <1>3, <2>1, <2>3, AfterLoopInv
<1>8. ASSUME ReconcileError PROVE UpgradeInv'
  <2>1. /\ pass.pc \in {"label", "publish"} /\ pass' = NoPass /\ PodsKept
        /\ UNCHANGED <<cr, nodeStatus, inited, go, orphaned>>
    BY <1>8 DEF ReconcileError, memory, manager, PodsKept
  <2>2. \A d \in DCs : CrBusy(d)' = CrBusy(d)
    BY <2>1 DEF CrBusy, NodesOf
  <2> QED
    BY <1>0, <1>3, <2>1, <2>2, AfterLoopInv
<1> QED
  BY <1>4, <1>5, <1>6, <1>7, <1>8, VisitInv, StartNodeInv DEF PassStep

---------------------------------------------------------------------------
\* Operator start-up

LEMMA InitEntryInv ==
  ASSUME UpgradeInv, InitStep, NEW n \in Nodes,
         pass.pc = "init", n \in pass.todo, pass.sync = 0,
         UNCHANGED <<cr, node, inited>>, ~orphaned' => ~orphaned,
         \A m \in Nodes \ {n} : nodeStatus'[m] = nodeStatus[m],
         nodeStatus'[n] \in BusyStates => cr[n].status \in BusyStates,
         pass'.pc = "init", pass'.dc = pass.dc, pass'.todo = pass.todo \ {n},
         pass'.cand = pass.cand,
         \/ go' = go /\ pass'.sync = 0
         \/ \E g \in Goroutines :
              /\ ~Active(g) /\ go'[g].node = n /\ cr[n].status \in BusyStates
              /\ \A h \in Goroutines \ {g} : go'[h] = go[h]
              /\ pass'.sync \in {0, g}
              /\ \/ go'[g].pc = "dpBeginForce" /\ ~RebootRequired
                 \/ go'[g].pc = "rbBegin" /\ RebootRequired /\ pass'.sync = g
                 \/ /\ go'[g].pc = "dpBegin"
                    /\ ~orphaned' => nodeStatus'[n] = "RebootInProgress"
  PROVE  UpgradeInv'
<1>0. /\ TypeOK /\ TypeOK' /\ PodsInv /\ StartInv /\ InitInv /\ MarkInv
      /\ OneGoroutinePerNode /\ ParallelLimit
  BY InitStepTypeOK DEF UpgradeInv
<1>1. /\ pass.todo \subseteq NodesOf(pass.dc) /\ pass.cand = {}
      /\ Busy(pass.dc) \subseteq CrBusy(pass.dc)
      /\ \A g \in Goroutines : Active(g) => go[g].node \in CrBusy(pass.dc) \ pass.todo
  BY <1>0 DEF InitInv
<1>2. /\ Busy(pass.dc)' = {m \in NodesOf(pass.dc) : nodeStatus'[m] \in BusyStates}
      /\ CrBusy(pass.dc)' = CrBusy(pass.dc)
  BY DEF Busy, CrBusy, NodesOf
<1>3. Busy(pass.dc)' \subseteq CrBusy(pass.dc)
  BY <1>1, <1>2 DEF Busy, CrBusy, NodesOf
<1>4. PodsInv' /\ StartInv'
  BY <1>0 DEF PodsInv, StartInv
<1>5. InitInv'
  <2>1. ASSUME NEW h \in Goroutines, Active(h)'
        PROVE  go'[h].node \in CrBusy(pass.dc) \ pass'.todo
    BY <1>1, <2>1 DEF Active, CrBusy
  <2> QED
    BY <1>1, <1>2, <1>3, <2>1 DEF InitInv, NodesOf
<1>6. ASSUME NEW h \in Goroutines, Works(h)'
      PROVE  \/ /\ go'[h] = go[h] /\ Works(h) /\ go[h].node \in Nodes \ {n}
             \/ /\ go'[h].node = n /\ ~Active(h)
                /\ pass'.sync = h \/ (~orphaned' => nodeStatus'[n] = "RebootInProgress")
  <2>1. Active(h) => go[h].node \in Nodes \ {n}
    BY <1>1 DEF CrBusy, NodesOf
  <2> QED
    BY <1>6, <2>1 DEF Works, Active
<1>7. MarkInv'
  <2> SUFFICES ASSUME ~orphaned', NEW h \in Goroutines, Works(h)', pass'.sync # h
               PROVE  nodeStatus'[go'[h].node] \in {"Started", "RebootInProgress"}
    BY DEF MarkInv, UpgradeStarted
  <2>1. pass.sync # h
    BY ConstantsAssumption DEF Goroutines
  <2> QED
    BY <1>0, <1>6, <2>1 DEF MarkInv, UpgradeStarted
<1>8. OneGoroutinePerNode'
  <2> SUFFICES ASSUME ~orphaned', NEW g \in Goroutines, NEW h \in Goroutines,
                      Works(g)', Works(h)', go'[g].node = go'[h].node
               PROVE  g = h
    BY DEF OneGoroutinePerNode
  <2>1. CASE Works(g) /\ Works(h) /\ go'[g] = go[g] /\ go'[h] = go[h]
    BY <1>0, <2>1 DEF OneGoroutinePerNode
  <2>2. CASE ~Active(g) /\ ~Active(h)
    BY <2>2 DEF Works, Active
  <2> QED
    BY <1>6, <2>1, <2>2
<1>9. LoopInv'
  BY DEF LoopInv
<1>10. ParallelLimit'
  <2>1. ASSUME NEW d \in DCs
        PROVE  /\ Busy(d)' \subseteq Busy(d) \/ Busy(d)' \subseteq CrBusy(d)
               /\ CrBusy(d)' = CrBusy(d)
    <3>1. CrBusy(d)' = CrBusy(d)
      BY DEF CrBusy, NodesOf
    <3>2. CASE d = pass.dc
      <4>1. Busy(d)' = Busy(pass.dc)'
        BY <3>2 DEF Busy, NodesOf
      <4> QED
        BY <1>3, <3>1, <3>2, <4>1
    <3>3. CASE d # pass.dc
      BY <1>1, <3>1, <3>3 DEF Busy, NodesOf
    <3> QED
      BY <3>2, <3>3
  <2> QED
    BY <1>0, <2>1, LimitKept
<1> QED
  BY <1>0, <1>4, <1>5, <1>7, <1>8, <1>9, <1>10 DEF UpgradeInv

LEMMA InitStepInv ==
  ASSUME UpgradeInv, InitStep
  PROVE  UpgradeInv'
<1>0. /\ TypeOK /\ TypeOK' /\ PodsInv /\ StartInv /\ InitInv /\ MarkInv
      /\ OneGoroutinePerNode /\ ParallelLimit
      /\ pass \in Pass /\ nodeStatus \in [Nodes -> UpgradeState]
  BY InitStepTypeOK DEF UpgradeInv, TypeOK
<1>1. ASSUME NEW n \in Nodes, NEW S, InitEntry(n, S)
      PROVE  /\ pass.pc = "init" /\ n \in pass.todo /\ pass.sync = 0
             /\ UNCHANGED <<cr, node, inited>> /\ cr[n].status \in S
  BY <1>1 DEF InitEntry, manager
<1>2. ASSUME NEW n \in Nodes, Initialised(n)
      PROVE  /\ pass'.pc = pass.pc /\ pass'.dc = pass.dc /\ pass'.sync = pass.sync
             /\ pass'.todo = pass.todo \ {n} /\ pass'.cand = pass.cand
  BY <1>0, <1>2 DEF Initialised, Pass
<1>3. ASSUME NEW n \in Nodes, NEW s, SetStatus(n, s)
      PROVE  nodeStatus'[n] = s /\ \A m \in Nodes \ {n} : nodeStatus'[m] = nodeStatus[m]
  BY <1>0, <1>3 DEF SetStatus
<1>4. ASSUME NEW n \in pass.todo, pass.pc = "init", nodeStatus[n] \in BusyStates
      PROVE  cr[n].status \in BusyStates
  BY <1>0, <1>4 DEF InitInv, Busy, CrBusy
<1>5. ASSUME NEW n \in Nodes, InitCopy(n) PROVE UpgradeInv'
  <2>1. /\ InitEntry(n, UpgradeState \ {"Started", "RebootInProgress"})
        /\ SetStatus(n, cr[n].status) /\ Initialised(n)
        /\ UNCHANGED <<go, orphaned>>
    BY <1>5 DEF InitCopy
  <2> QED
    BY <1>1, <1>2, <1>3, <2>1, InitEntryInv
<1>6. ASSUME NEW n \in Nodes, InitStartedNoReboot(n) PROVE UpgradeInv'
  <2>1. /\ InitEntry(n, {"Started"}) /\ ~RebootRequired
        /\ SetStatus(n, "Empty") /\ Initialised(n) /\ UNCHANGED orphaned
    BY <1>6 DEF InitStartedNoReboot
  <2>2. PICK g \in Goroutines : Spawn(g, "dpBeginForce", n, FALSE, node[n].boot)
    BY <1>6 DEF InitStartedNoReboot
  <2>3. /\ ~Active(g) /\ go'[g].pc = "dpBeginForce" /\ go'[g].node = n
        /\ \A h \in Goroutines \ {g} : go'[h] = go[h]
    BY <1>0, <2>2, SpawnEffect
  <2>4. cr[n].status \in BusyStates /\ nodeStatus'[n] \notin BusyStates
    BY <1>1, <1>3, <2>1 DEF BusyStates
  <2>5. /\ pass.pc = "init" /\ n \in pass.todo /\ pass.sync = 0
        /\ UNCHANGED <<cr, node, inited>>
        /\ pass'.pc = "init" /\ pass'.dc = pass.dc /\ pass'.sync = 0
        /\ pass'.todo = pass.todo \ {n} /\ pass'.cand = pass.cand
    BY <1>1, <1>2, <2>1
  <2> QED
    BY <1>3, <2>1, <2>3, <2>4, <2>5, InitEntryInv
<1>7. ASSUME NEW n \in Nodes, InitStartedReboot(n) PROVE UpgradeInv'
  <2>1. /\ InitEntry(n, {"Started"}) /\ RebootRequired /\ UNCHANGED <<nodeStatus, orphaned>>
    BY <1>7 DEF InitStartedReboot
  <2>2. PICK g \in Goroutines :
          /\ Spawn(g, "rbBegin", n, FALSE, node[n].boot)
          /\ pass' = [pass EXCEPT !.todo = @ \ {n}, !.sync = g]
    BY <1>7 DEF InitStartedReboot
  <2>3. /\ ~Active(g) /\ go'[g].pc = "rbBegin" /\ go'[g].node = n
        /\ \A h \in Goroutines \ {g} : go'[h] = go[h]
    BY <1>0, <2>2, SpawnEffect
  <2>4. cr[n].status \in BusyStates
    BY <1>1, <2>1 DEF BusyStates
  <2>5. /\ pass.pc = "init" /\ n \in pass.todo /\ pass.sync = 0
        /\ UNCHANGED <<cr, node, inited>>
    BY <1>1, <2>1
  <2>6. /\ pass'.pc = "init" /\ pass'.dc = pass.dc /\ pass'.sync = g
        /\ pass'.todo = pass.todo \ {n} /\ pass'.cand = pass.cand
    BY <1>0, <2>2, <2>5 DEF Pass
  <2> QED
    BY <2>1, <2>3, <2>4, <2>5, <2>6, InitEntryInv
<1>8. ASSUME NEW n \in Nodes, InitStartedRebooted(n) PROVE UpgradeInv'
  <2>1. /\ InitEntry(n, {"Started"}) /\ Initialised(n) /\ UNCHANGED nodeStatus
        /\ orphaned' = TRUE
    BY <1>8 DEF InitStartedRebooted
  <2>2. PICK g \in Goroutines : Spawn(g, "dpBegin", n, FALSE, node[n].boot)
    BY <1>8 DEF InitStartedRebooted
  <2>3. /\ ~Active(g) /\ go'[g].pc = "dpBegin" /\ go'[g].node = n
        /\ \A h \in Goroutines \ {g} : go'[h] = go[h]
    BY <1>0, <2>2, SpawnEffect
  <2>4. cr[n].status \in BusyStates
    BY <1>1, <2>1 DEF BusyStates
  <2>5. /\ pass.pc = "init" /\ n \in pass.todo /\ pass.sync = 0
        /\ UNCHANGED <<cr, node, inited>>
        /\ pass'.pc = "init" /\ pass'.dc = pass.dc /\ pass'.sync = 0
        /\ pass'.todo = pass.todo \ {n} /\ pass'.cand = pass.cand
    BY <1>1, <1>2, <2>1
  <2> QED
    BY <2>1, <2>3, <2>4, <2>5, InitEntryInv
<1>9. ASSUME NEW n \in Nodes, InitStartedSkip(n) PROVE UpgradeInv'
  <2>1. /\ InitEntry(n, {"Started"}) /\ Initialised(n)
        /\ UNCHANGED <<nodeStatus, go, orphaned>>
    BY <1>9 DEF InitStartedSkip
  <2> QED
    BY <1>1, <1>2, <1>4, <2>1, InitEntryInv
<1>10. ASSUME NEW n \in Nodes, InitRebootInProgress(n) PROVE UpgradeInv'
  <2>1. /\ InitEntry(n, {"RebootInProgress"}) /\ Initialised(n) /\ UNCHANGED orphaned
    BY <1>10 DEF InitRebootInProgress
  <2>2. cr[n].status \in BusyStates
    BY <1>1, <2>1 DEF BusyStates
  <2>3. /\ pass.pc = "init" /\ n \in pass.todo /\ pass.sync = 0
        /\ UNCHANGED <<cr, node, inited>>
        /\ pass'.pc = "init" /\ pass'.dc = pass.dc /\ pass'.sync = 0
        /\ pass'.todo = pass.todo \ {n} /\ pass'.cand = pass.cand
    BY <1>1, <1>2, <2>1
  <2>4. CASE SetStatus(n, "InProgress") /\ UNCHANGED go
    BY <1>3, <2>1, <2>2, <2>3, <2>4, InitEntryInv
  <2>5. ASSUME SetStatus(n, "RebootInProgress"), NEW g \in Goroutines,
               Spawn(g, "dpBegin", n, FALSE, node[n].boot)
        PROVE  UpgradeInv'
    <3>1. /\ ~Active(g) /\ go'[g].pc = "dpBegin" /\ go'[g].node = n
          /\ \A h \in Goroutines \ {g} : go'[h] = go[h]
      BY <1>0, <2>5, SpawnEffect
    <3> QED
      BY <1>3, <2>1, <2>2, <2>3, <2>5, <3>1, InitEntryInv
  <2> QED
    BY <1>10, <2>4, <2>5 DEF InitRebootInProgress
<1>11. ASSUME InitRebootDone PROVE UpgradeInv'
  <2>1. /\ pass.pc = "init" /\ ~Active(pass.sync)
        /\ UNCHANGED <<cr, node, nodeStatus, inited, go, orphaned>>
    BY <1>11 DEF InitRebootDone, memory, manager, history
  <2>2. /\ pass'.pc = "init" /\ pass'.dc = pass.dc /\ pass'.sync = 0
        /\ pass'.todo = pass.todo /\ pass'.cand = pass.cand
    BY <1>0, <1>11 DEF InitRebootDone, Pass
  <2>3. /\ \A d \in DCs : Busy(d)' = Busy(d) /\ CrBusy(d)' = CrBusy(d)
        /\ Busy(pass.dc)' = Busy(pass.dc) /\ CrBusy(pass.dc)' = CrBusy(pass.dc)
    BY <2>1, <2>2 DEF Busy, CrBusy, NodesOf
  <2>4. PodsInv' /\ StartInv' /\ OneGoroutinePerNode' /\ LoopInv'
    BY <1>0, <2>1, <2>2 DEF PodsInv, StartInv, OneGoroutinePerNode, LoopInv, Works, Active
  <2>5. MarkInv'
    BY <1>0, <2>1, <2>2 DEF MarkInv, Works, Active, UpgradeStarted
  <2>6. InitInv'
    BY <1>0, <2>1, <2>2, <2>3 DEF InitInv, Active, NodesOf
  <2>7. ParallelLimit'
    BY <1>0, <2>1, <2>3, LimitKept
  <2> QED
    BY <1>0, <2>4, <2>5, <2>6, <2>7 DEF UpgradeInv
<1>12. ASSUME EndInit PROVE UpgradeInv'
  <2>1. /\ pass.pc = "init" /\ pass.sync = 0
        /\ UNCHANGED <<cr, node, inited, go>>
        /\ ClearNodeStatus \/ UNCHANGED <<nodeStatus, orphaned>>
    BY <1>12 DEF EndInit, NoteSpec
  <2>2. /\ pass'.pc = "visit" /\ pass'.dc = pass.dc /\ pass'.sync = 0
        /\ pass'.todo = NodesOf(pass.dc) /\ pass'.cand = pass.cand
    BY <1>0, <1>12, <2>1 DEF EndInit, Pass
  <2>3. /\ ~orphaned' => ~orphaned
        /\ \A d \in DCs : Busy(d)' \subseteq Busy(d) /\ CrBusy(d)' = CrBusy(d)
        /\ ~orphaned' => UNCHANGED nodeStatus \/ \A g \in Goroutines : ~Active(g)
    BY <2>1, ClearEffect DEF CrBusy, NodesOf
  <2>4. PodsInv' /\ StartInv' /\ OneGoroutinePerNode' /\ InitInv'
    BY <1>0, <2>1, <2>2, <2>3
       DEF PodsInv, StartInv, OneGoroutinePerNode, InitInv, Works, Active
  <2>5. MarkInv'
    <3>1. \A g \in Goroutines : pass.sync # g
      BY <2>1, ConstantsAssumption DEF Goroutines
    <3> QED
      BY <1>0, <2>1, <2>3, <3>1 DEF MarkInv, Works, Active, UpgradeStarted
  <2>6. LoopInv'
    <3>1. Busy(pass.dc)' \subseteq NodesOf(pass.dc)
      BY <2>2 DEF Busy, NodesOf
    <3>2. pass.cand = {}
      BY <1>0, <2>1 DEF InitInv
    <3> QED
      BY <2>2, <3>1, <3>2 DEF LoopInv, NodesOf
  <2>7. ParallelLimit'
    BY <1>0, <2>3, LimitKept
  <2> QED
    BY <1>0, <2>4, <2>5, <2>6, <2>7 DEF UpgradeInv
<1> QED
  BY <1>5, <1>6, <1>7, <1>8, <1>9, <1>10, <1>11, <1>12 DEF InitStep

---------------------------------------------------------------------------
\* The theorems

LEMMA InitUpgradeInv == Init => UpgradeInv
<1> SUFFICES ASSUME Init PROVE UpgradeInv
  OBVIOUS
<1>1. TypeOK
  BY InitTypeOK
<1>2. /\ \A n \in Nodes : /\ nodeStatus[n] = "Empty" /\ node[n].pod = "none"
                           /\ cr[n].status \in {"Empty", "InstallComplete"}
      /\ \A g \in Goroutines : go[g].pc = "idle"
      /\ pass.pc = "idle" /\ pass.sync = 0
  BY DEF Init, NoStatus, NoGoroutine, NoPass
<1>3. PodsInv /\ StartInv /\ InitInv /\ MarkInv /\ LoopInv /\ OneGoroutinePerNode
  BY <1>2 DEF PodsInv, StartInv, InitInv, MarkInv, LoopInv, OneGoroutinePerNode,
              Works, Active
<1>4. ASSUME NEW d \in DCs PROVE Busy(d) = {} /\ CrBusy(d) = {}
  BY <1>2 DEF Busy, CrBusy, BusyStates, NodesOf
<1>5. ParallelLimit
  BY <1>4, LimitIsNat, FS_EmptySet DEF ParallelLimit
<1> QED
  BY <1>1, <1>3, <1>5 DEF UpgradeInv

\* UpgradeInv holds in every reachable state, whatever the number of nodes,
\* DeviceConfigs and goroutines, the policy and the interleaving of passes,
\* goroutines, failures, restarts, deletions and reboots.
THEOREM UpgradeInvariant == Spec => []UpgradeInv
<1>1. UpgradeInv /\ [Next]_vars => UpgradeInv'
  <2> SUFFICES ASSUME UpgradeInv, [Next]_vars PROVE UpgradeInv'
    OBVIOUS
  <2>1. CASE UNCHANGED vars
    <3>1. TypeOK'
      BY <2>1 DEF vars, memory, history, manager, UpgradeInv, TypeOK, Active
    <3> QED
      BY <2>1, <3>1, FrameInv DEF vars, memory, history, manager, PodsKept
  <2> QED
    BY <2>1, GoInv, BeginPassInv, BeginDeleteInv, InitStepInv, PassStepInv,
       DeleteStepInv, EnvironmentInv DEF Next
<1> QED
  BY <1>1, InitUpgradeInv, PTL DEF Spec

\* HandleUpgrade keeps the nodes in an upgrade within maxParallelUpgrades and
\* maxUnavailableNodes, in memory and in the DeviceConfig status, as long as no
\* goroutine is left behind.
THEOREM LimitHolds == Spec => []ParallelLimit
<1>1. UpgradeInv => ParallelLimit
  BY DEF UpgradeInv
<1> QED
  BY <1>1, UpgradeInvariant, PTL

\* handleNodeUpgrade, handleNodeReboot and deleteRebootPod never run twice at
\* once for one node, as long as no goroutine is left behind.
THEOREM GoroutinesApart == Spec => []OneGoroutinePerNode
<1>1. UpgradeInv => OneGoroutinePerNode
  BY DEF UpgradeInv
<1> QED
  BY <1>1, UpgradeInvariant, PTL
====
