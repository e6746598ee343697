--------------------- MODULE DriverUpgradeCordonProofs ---------------------
(***************************************************************************)
(* CordonInv is inductive, for every value of the constants: cordons come  *)
(* before the driver is touched and go once the upgrade is complete, and a *)
(* reboot that is owed comes before.                                       *)
(*                                                                         *)
(* The first half states what each step does, field by field, to the node  *)
(* it is about; the second half proves the parts of the invariant from it. *)
(***************************************************************************)
EXTENDS DriverUpgradeLimitProofs

---------------------------------------------------------------------------
\* What a step of a goroutine does

\* Goroutine g goes from one place to another (idle: it ends) and leaves its node
\* with taint t, label l, pod p and in state s.
GoRow(g, from, to, t, l, p, s) ==
  LET n == go[g].node
  IN  /\ go[g].pc = from /\ go'[g].pc = to
      /\ node'[n].taint = t /\ node'[n].label = l /\ node'[n].pod = p
      /\ nodeStatus'[n] = s

GoTable(g) ==
  LET n == go[g].node
      t == node[n].taint
      l == node[n].label
      p == node[n].pod
      s == nodeStatus[n]
      v == go[g].spec
      gone == dc[dcOf[n]].phase = "gone"
      failed == used'.faults # 0
      NoBoot == bootID'[n] = bootID[n]
      NoDebt == owesReboot'[n] = owesReboot[n]
  IN  \/ /\ GoRow(g, "hnuCheck", "idle", t, l, p, "InProgress")
         /\ l = v /\ NoBoot /\ NoDebt
      \/ /\ GoRow(g, "hnuCheck", "hnuCordon", t, l, p, s)
         /\ l # v \/ failed
         /\ NoBoot /\ NoDebt
      \/ /\ \E to \in {"hnuDrain", "idle"} :
              GoRow(g, "hnuCordon", to, t \/ ~go[g].taint, l, p, s)
         /\ NoBoot /\ NoDebt
      \/ /\ \E x \in {s, "CordonFailed"} : GoRow(g, "hnuCordon", "idle", t, l, p, x)
         /\ failed /\ NoBoot /\ NoDebt
      \/ /\ \E to \in {"idle", "rbBegin", "hnuLabel"} :
              GoRow(g, "hnuDrain", to, t, l, p, s)
         /\ NoBoot /\ NoDebt
      \/ /\ GoRow(g, "hnuDrain", "idle", t, l, p, "DrainFailed")
         /\ failed /\ NoBoot /\ NoDebt
      \/ /\ GoRow(g, "hnuLabel", "idle", t, v, p, "InProgress")
         /\ NoBoot /\ NoDebt
      \/ /\ GoRow(g, "hnuLabel", "idle", t, l, p, "Failed")
         /\ failed /\ NoBoot /\ NoDebt
      \/ /\ \E y \in {"none", p} :
              GoRow(g, "rbBegin", "rbDriver", t, v, y, s) /\ (y # "none" => failed)
         /\ NoBoot
      \/ /\ \E x \in {p, "none"}, y \in {"RebootFailed", "Failed"} :
              GoRow(g, "rbBegin", "idle", t, l, x, y)
         /\ failed /\ NoBoot /\ NoDebt
      \/ /\ GoRow(g, "rbDriver", "rbWait", t, l, "pending", s)
         /\ bootID'[n] = go[g].boot /\ p = "none" /\ NoDebt
      \/ /\ GoRow(g, "rbDriver", "idle", t, l, p, "RebootFailed")
         /\ p = "none" => failed
         /\ NoDebt
      \/ /\ GoRow(g, "rbWait", "rbMark", t, l, p, s)
         /\ CanGiveUp \/ (p # "none" /\ (node[n].boot # bootID[n] \/ ~node[n].ready))
         /\ NoDebt
      \/ /\ \E x \in {s, "RebootInProgress"}, to \in {"idle", "dpBegin"} :
              GoRow(g, "rbMark", to, t, l, p, x) /\ (to = "idle" => gone \/ failed)
         /\ NoBoot /\ NoDebt
      \/ /\ \E from \in {"dpBegin", "dpBeginForce"} :
              GoRow(g, from, "idle", t, l, p, s)
         /\ p = "none" \/ failed
         /\ NoBoot /\ NoDebt
      \/ /\ \/ GoRow(g, "dpBegin", "dpWait", t, l, p, s)
            \/ GoRow(g, "dpBeginForce", "dpForce", t, l, p, s)
         /\ p # "none" /\ NoBoot /\ NoDebt
      \/ /\ GoRow(g, "dpWait", "idle", t, l, p, s)
         /\ gone \/ failed
         /\ NoBoot /\ NoDebt
      \/ /\ \E x \in {s, "InProgress"}, y \in {"none", p} :
              GoRow(g, "dpWait", "idle", t, l, y, x) /\ (y # "none" => failed)
         /\ node[n].ready /\ NoBoot /\ NoDebt
      \/ GoRow(g, "dpWait", "dpForce", t, l, p, s) /\ CanGiveUp /\ NoBoot /\ NoDebt
      \/ /\ \E x \in {s, "InProgress"}, y \in {"none", p} :
              GoRow(g, "dpForce", "idle", t, l, y, x) /\ (y # "none" => failed)
         /\ NoBoot /\ NoDebt

\* What it leaves alone
GoFrameKept(g) ==
  LET n == go[g].node
  IN  /\ Active(g) /\ n \in Nodes /\ go[g].spec \in Versions
      /\ UNCHANGED <<dc, cr, inited, currentSpec, pass, orphaned>>
      /\ used'.restarts = used.restarts
      /\ used'.faults = 0 => used.faults = 0
      /\ \A h \in Goroutines \ {g} : go'[h] = go[h]
      /\ Active(g)' => /\ go'[g].node = n /\ go'[g].spec = go[g].spec
                       /\ go'[g].boot = go[g].boot
                       /\ go'[g].pc = "hnuCordon" => go'[g].taint = go[g].taint
      /\ \A m \in Nodes \ {n} : /\ node'[m] = node[m] /\ nodeStatus'[m] = nodeStatus[m]
                                /\ bootID'[m] = bootID[m]
                                /\ owesReboot'[m] = owesReboot[m]
      /\ node'[n].nmc = node[n].nmc /\ node'[n].boot = node[n].boot
      /\ node'[n].ready = node[n].ready

LEMMA FaultShows ==
  ASSUME used \in Used, Fault \/ NoFault
  PROVE  /\ used'.restarts = used.restarts
         /\ used'.faults = 0 => used.faults = 0
         /\ Fault => used'.faults # 0
BY DEF Fault, NoFault, Used

LEMMA GoRows ==
  ASSUME TypeOK, NEW g \in Goroutines, GoStep(g)
  PROVE  GoFrameKept(g) /\ GoTable(g)
<1> DEFINE n == go[g].node
<1>0. /\ go \in [Goroutines -> Goroutine] /\ go[g] \in Goroutine /\ used \in Used
      /\ nodeStatus \in [Nodes -> UpgradeState] /\ node \in [Nodes -> Node]
      /\ bootID \in [Nodes -> BootIds] /\ owesReboot \in [Nodes -> BOOLEAN]
      /\ NoGoroutine.pc = "idle"
  BY Records DEF TypeOK
<1>1. Active(g) /\ n \in Nodes /\ go[g].spec \in Versions /\ node[n] \in Node
  <2>1. Active(g)
    BY SMTT(20) DEF GoStep, Active, HnuCheckLabel, HnuCordon, HnuDrain, HnuLabel, RbBegin,
           RbDriver, RbWait, RbMark, DpBegin, DpWait, DpForce
  <2> QED
    BY <2>1, <1>0 DEF TypeOK
\* The ways in which the goroutine, its node and the memory change
<1>2. ASSUME End(g)
      PROVE  go'[g].pc = "idle" /\ \A h \in Goroutines \ {g} : go'[h] = go[h]
  BY <1>0, <1>2 DEF End
<1>3. ASSUME NEW pc, Goto(g, pc)
      PROVE  /\ go'[g].pc = pc /\ go'[g].node = n /\ go'[g].spec = go[g].spec
             /\ go'[g].boot = go[g].boot
             /\ pc = "hnuCordon" => go'[g].taint = go[g].taint
             /\ \A h \in Goroutines \ {g} : go'[h] = go[h]
  BY <1>0, <1>3 DEF Goto, Goroutine
<1>4. ASSUME NEW s, SetStatus(n, s)
      PROVE  nodeStatus'[n] = s /\ \A m \in Nodes \ {n} : nodeStatus'[m] = nodeStatus[m]
  BY <1>0, <1>1, <1>4 DEF SetStatus
<1> DEFINE Set(t, l, p) ==
      /\ \A m \in Nodes \ {n} : node'[m] = node[m]
      /\ node'[n].taint = t /\ node'[n].label = l /\ node'[n].pod = p
      /\ node'[n].nmc = node[n].nmc /\ node'[n].boot = node[n].boot
      /\ node'[n].ready = node[n].ready
<1>5. ASSUME UNCHANGED node PROVE Set(node[n].taint, node[n].label, node[n].pod)
  BY <1>5
<1>6. ASSUME NEW l, node' = [node EXCEPT ![n].label = l]
      PROVE  Set(node[n].taint, l, node[n].pod)
  BY <1>0, <1>1, <1>6 DEF Node
<1>7. ASSUME NEW p, node' = [node EXCEPT ![n].pod = p]
      PROVE  Set(node[n].taint, node[n].label, p)
  BY <1>0, <1>1, <1>7 DEF Node
<1>8. ASSUME NEW l, NEW p, node' = [node EXCEPT ![n].pod = p, ![n].label = l]
      PROVE  Set(node[n].taint, l, p)
  BY <1>0, <1>1, <1>8 DEF Node
<1>9. ASSUME node' = CordonedBy(g)
      PROVE  Set(node[n].taint \/ ~go[g].taint, node[n].label, node[n].pod)
  <2>1. PICK late \in BOOLEAN :
          node' = [node EXCEPT ![n].taint = @ \/ ~go[g].taint, ![n].late = late]
    BY <1>0, <1>1, <1>9 DEF CordonedBy, Node, Abandoned, Goroutine
  <2> QED
    BY <1>0, <1>1, <2>1 DEF Node
<1>a. ASSUME NEW p, NEW late, node' = [node EXCEPT ![n].pod = p, ![n].late = late]
      PROVE  Set(node[n].taint, node[n].label, p)
  BY <1>0, <1>1, <1>a DEF Node
<1>10. ASSUME NEW b, bootID' = [bootID EXCEPT ![n] = b]
       PROVE  bootID'[n] = b /\ \A m \in Nodes \ {n} : bootID'[m] = bootID[m]
  BY <1>0, <1>1, <1>10
<1>11. /\ UNCHANGED <<dc, cr, inited, currentSpec, pass, orphaned>>
       /\ Fault \/ NoFault
       /\ UNCHANGED owesReboot \/ \E x : owesReboot' = [owesReboot EXCEPT ![n] = x]
  <2>1. CASE HnuCheckLabel(g) \/ HnuCordon(g) \/ HnuDrain(g) \/ HnuLabel(g)
    BY <2>1 DEF HnuCheckLabel, HnuCordon, HnuDrain, HnuLabel, GoFrame, manager, NoFault
  <2>2. CASE RbBegin(g)
    BY <2>2 DEF RbBegin, GoFrame, manager
  <2>3. CASE RbDriver(g) \/ RbWait(g) \/ RbMark(g)
    BY <2>3 DEF RbDriver, RbWait, RbMark, GoFrame, manager, NoFault
  <2>4. CASE DpBegin(g) \/ DpWait(g) \/ DpForce(g)
    BY <2>4 DEF DpBegin, DpWait, DpForce, RemovePod, GoFrame, manager
  <2> QED
    BY <2>1, <2>2, <2>3, <2>4 DEF GoStep
<1>12. /\ used'.restarts = used.restarts
       /\ used'.faults = 0 => used.faults = 0
       /\ Fault => used'.faults # 0
  BY <1>0, <1>11, FaultShows
<1> DEFINE Moved(pc) == /\ go'[g].pc = pc
                        /\ pc # "idle" => /\ go'[g].node = n /\ go'[g].spec = go[g].spec
                                          /\ go'[g].boot = go[g].boot
                        /\ pc = "hnuCordon" => go'[g].taint = go[g].taint
                        /\ \A h \in Goroutines \ {g} : go'[h] = go[h]
           Marked(s) == /\ nodeStatus'[n] = s
                        /\ \A m \in Nodes \ {n} : nodeStatus'[m] = nodeStatus[m]
           Booted(b) == bootID'[n] = b /\ \A m \in Nodes \ {n} : bootID'[m] = bootID[m]
<1>14. \A m \in Nodes \ {n} : owesReboot'[m] = owesReboot[m]
  BY <1>0, <1>11
<1>15. ASSUME NEW pc, NEW s, NEW b, NEW t, NEW l, NEW p,
              Moved(pc), Marked(s), Booted(b), Set(t, l, p)
       PROVE  GoFrameKept(g) /\ GoRow(g, go[g].pc, pc, t, l, p, s) /\ bootID'[n] = b
  BY <1>1, <1>11, <1>12, <1>14, <1>15 DEF GoFrameKept, GoRow, Active
<1>16. ASSUME End(g) PROVE Moved("idle")
  BY <1>2, <1>16
<1>17. ASSUME NEW pc, Goto(g, pc) PROVE Moved(pc)
  BY <1>3, <1>17
<1>18. ASSUME UNCHANGED nodeStatus PROVE Marked(nodeStatus[n])
  BY <1>18
<1>19. ASSUME NEW s, SetStatus(n, s) PROVE Marked(s)
  BY <1>4, <1>19
<1>20. ASSUME UNCHANGED bootID PROVE Booted(bootID[n])
  BY <1>20
<1>b. ASSUME RemovePod(g)
      PROVE  \E y \in {"none", node[n].pod} :
               Set(node[n].taint, node[n].label, y) /\ (y # "none" => Fault)
  BY <1>5, <1>7, <1>b DEF RemovePod
<1> HIDE DEF Set, Moved, Marked, Booted
<1> DEFINE t == node[n].taint
           l == node[n].label
           p == node[n].pod
           s == nodeStatus[n]
           v == go[g].spec
<1>21. CASE HnuCheckLabel(g)
  <2>1. UNCHANGED <<bootID, owesReboot>> /\ go[g].pc = "hnuCheck"
    BY <1>21 DEF HnuCheckLabel
  <2>2. Booted(bootID[n])
    BY <2>1, <1>20
  <2>3. CASE l = v /\ End(g) /\ SetStatus(n, "InProgress") /\ UNCHANGED node
    <3>1. Moved("idle") /\ Marked("InProgress") /\ Set(t, l, p)
      BY <2>3, <1>5, <1>16, <1>19
    <3>2. GoFrameKept(g) /\ GoRow(g, go[g].pc, "idle", t, l, p, "InProgress")
          /\ bootID'[n] = bootID[n]
      BY <3>1, <2>2, <1>15
    <3> QED
      BY <2>1, <2>3, <3>2, <1>12, Zenon DEF GoTable
  <2>4. CASE (l # v \/ Fault) /\ Goto(g, "hnuCordon") /\ UNCHANGED <<nodeStatus, node>>
    <3>1. Moved("hnuCordon") /\ Marked(s) /\ Set(t, l, p)
      BY <2>4, <1>5, <1>17, <1>18
    <3>2. GoFrameKept(g) /\ GoRow(g, go[g].pc, "hnuCordon", t, l, p, s)
          /\ bootID'[n] = bootID[n]
      BY <3>1, <2>2, <1>15
    <3> QED
      BY <2>1, <2>4, <3>2, <1>12, Zenon DEF GoTable
  <2> QED
    BY <1>21, <2>3, <2>4 DEF HnuCheckLabel, EndWith
<1>22. CASE HnuCordon(g)
  <2>1. UNCHANGED <<bootID, owesReboot>> /\ go[g].pc = "hnuCordon"
    BY <1>22 DEF HnuCordon
  <2>2. Booted(bootID[n])
    BY <2>1, <1>20
  <2>3. CASE node' = CordonedBy(g) /\ Goto(g, "hnuDrain") /\ UNCHANGED nodeStatus
    <3>1. Moved("hnuDrain") /\ Marked(s) /\ Set(t \/ ~go[g].taint, l, p)
      BY <2>3, <1>9, <1>17, <1>18
    <3>2. GoFrameKept(g) /\ GoRow(g, go[g].pc, "hnuDrain", t \/ ~go[g].taint, l, p, s)
          /\ bootID'[n] = bootID[n]
      BY <3>1, <2>2, <1>15
    <3> QED
      BY <2>1, <2>3, <3>2, <1>12, Zenon DEF GoTable
  <2>4. CASE node' = CordonedBy(g) /\ End(g) /\ UNCHANGED nodeStatus
    <3>1. Moved("idle") /\ Marked(s) /\ Set(t \/ ~go[g].taint, l, p)
      BY <2>4, <1>9, <1>16, <1>18
    <3>2. GoFrameKept(g) /\ GoRow(g, go[g].pc, "idle", t \/ ~go[g].taint, l, p, s)
          /\ bootID'[n] = bootID[n]
      BY <3>1, <2>2, <1>15
    <3> QED
      BY <2>1, <2>4, <3>2, <1>12, Zenon DEF GoTable
  <2>5. CASE Fault /\ UNCHANGED node /\ End(g) /\ SetStatus(n, "CordonFailed")
    <3>1. Moved("idle") /\ Marked("CordonFailed") /\ Set(t, l, p)
      BY <2>5, <1>5, <1>16, <1>19
    <3>2. GoFrameKept(g) /\ GoRow(g, go[g].pc, "idle", t, l, p, "CordonFailed")
          /\ bootID'[n] = bootID[n]
      BY <3>1, <2>2, <1>15
    <3> QED
      BY <2>1, <2>5, <3>2, <1>12, Zenon DEF GoTable
  <2>6. CASE Fault /\ UNCHANGED node /\ End(g) /\ UNCHANGED nodeStatus
    <3>1. Moved("idle") /\ Marked(s) /\ Set(t, l, p)
      BY <2>6, <1>5, <1>16, <1>18
    <3>2. GoFrameKept(g) /\ GoRow(g, go[g].pc, "idle", t, l, p, s)
          /\ bootID'[n] = bootID[n]
      BY <3>1, <2>2, <1>15
    <3> QED
      BY <2>1, <2>6, <3>2, <1>12, Zenon DEF GoTable
  <2> QED
    BY <1>22, <2>3, <2>4, <2>5, <2>6 DEF HnuCordon, EndWith, EndWithIfValid
<1>23. CASE HnuDrain(g)
  <2>1. UNCHANGED <<bootID, owesReboot>> /\ go[g].pc = "hnuDrain"
    BY <1>23 DEF HnuDrain
  <2>2. Booted(bootID[n])
    BY <2>1, <1>20
  <2>3. CASE End(g) /\ UNCHANGED <<nodeStatus, node>>
    <3>1. Moved("idle") /\ Marked(s) /\ Set(t, l, p)
      BY <2>3, <1>5, <1>16, <1>18
    <3>2. GoFrameKept(g) /\ GoRow(g, go[g].pc, "idle", t, l, p, s)
          /\ bootID'[n] = bootID[n]
      BY <3>1, <2>2, <1>15
    <3> QED
      BY <2>1, <2>3, <3>2, <1>12, Zenon DEF GoTable
  <2>4. CASE Goto(g, "rbBegin") /\ UNCHANGED <<nodeStatus, node>>
    <3>1. Moved("rbBegin") /\ Marked(s) /\ Set(t, l, p)
      BY <2>4, <1>5, <1>17, <1>18
    <3>2. GoFrameKept(g) /\ GoRow(g, go[g].pc, "rbBegin", t, l, p, s)
          /\ bootID'[n] = bootID[n]
      BY <3>1, <2>2, <1>15
    <3> QED
      BY <2>1, <2>4, <3>2, <1>12, Zenon DEF GoTable
  <2>5. CASE Goto(g, "hnuLabel") /\ UNCHANGED <<nodeStatus, node>>
    <3>1. Moved("hnuLabel") /\ Marked(s) /\ Set(t, l, p)
      BY <2>5, <1>5, <1>17, <1>18
    <3>2. GoFrameKept(g) /\ GoRow(g, go[g].pc, "hnuLabel", t, l, p, s)
          /\ bootID'[n] = bootID[n]
      BY <3>1, <2>2, <1>15
    <3> QED
      BY <2>1, <2>5, <3>2, <1>12, Zenon DEF GoTable
  <2>6. CASE Fault /\ End(g) /\ SetStatus(n, "DrainFailed") /\ UNCHANGED node
    <3>1. Moved("idle") /\ Marked("DrainFailed") /\ Set(t, l, p)
      BY <2>6, <1>5, <1>16, <1>19
    <3>2. GoFrameKept(g) /\ GoRow(g, go[g].pc, "idle", t, l, p, "DrainFailed")
          /\ bootID'[n] = bootID[n]
      BY <3>1, <2>2, <1>15
    <3> QED
      BY <2>1, <2>6, <3>2, <1>12, Zenon DEF GoTable
  <2> QED
    BY <1>23, <2>3, <2>4, <2>5, <2>6 DEF HnuDrain, EndWith
<1>24. CASE HnuLabel(g)
  <2>1. UNCHANGED <<bootID, owesReboot>> /\ go[g].pc = "hnuLabel"
    BY <1>24 DEF HnuLabel
  <2>2. Booted(bootID[n])
    BY <2>1, <1>20
  <2>3. CASE node' = [node EXCEPT ![n].label = v] /\ End(g) /\ SetStatus(n, "InProgress")
    <3>1. Moved("idle") /\ Marked("InProgress") /\ Set(t, v, p)
      BY <2>3, <1>6, <1>16, <1>19
    <3>2. GoFrameKept(g) /\ GoRow(g, go[g].pc, "idle", t, v, p, "InProgress")
          /\ bootID'[n] = bootID[n]
      BY <3>1, <2>2, <1>15
    <3> QED
      BY <2>1, <2>3, <3>2, <1>12, Zenon DEF GoTable
  <2>4. CASE Fault /\ UNCHANGED node /\ End(g) /\ SetStatus(n, "Failed")
    <3>1. Moved("idle") /\ Marked("Failed") /\ Set(t, l, p)
      BY <2>4, <1>5, <1>16, <1>19
    <3>2. GoFrameKept(g) /\ GoRow(g, go[g].pc, "idle", t, l, p, "Failed")
          /\ bootID'[n] = bootID[n]
      BY <3>1, <2>2, <1>15
    <3> QED
      BY <2>1, <2>4, <3>2, <1>12, Zenon DEF GoTable
  <2> QED
    BY <1>24, <2>3, <2>4 DEF HnuLabel, EndWith
<1>25. CASE RbBegin(g)
  <2>1. UNCHANGED bootID /\ go[g].pc = "rbBegin"
    BY <1>25 DEF RbBegin
  <2>2. Booted(bootID[n])
    BY <2>1, <1>20
  <2>3. ASSUME NEW y \in {"none", p}, y # "none" => Fault, Goto(g, "rbDriver"),
               node' = [node EXCEPT ![n].pod = y, ![n].label = v], UNCHANGED nodeStatus
        PROVE  GoFrameKept(g) /\ GoTable(g)
    <3>1. Moved("rbDriver") /\ Marked(s) /\ Set(t, v, y)
      BY <2>3, <1>8, <1>17, <1>18
    <3>2. GoFrameKept(g) /\ GoRow(g, go[g].pc, "rbDriver", t, v, y, s)
          /\ bootID'[n] = bootID[n]
      BY <3>1, <2>2, <1>15
    <3> QED
      BY <2>1, <2>3, <3>2, <1>12, Zenon DEF GoTable
  <2>4. CASE Fault /\ UNCHANGED <<node, owesReboot>> /\ End(g) /\ SetStatus(n, "RebootFailed")
    <3>1. Moved("idle") /\ Marked("RebootFailed") /\ Set(t, l, p)
      BY <2>4, <1>5, <1>16, <1>19
    <3>2. GoFrameKept(g) /\ GoRow(g, go[g].pc, "idle", t, l, p, "RebootFailed")
          /\ bootID'[n] = bootID[n]
      BY <3>1, <2>2, <1>15
    <3> QED
      BY <2>1, <2>4, <3>2, <1>12, Zenon DEF GoTable
  <2>5. CASE Fault /\ node' = [node EXCEPT ![n].pod = "none"] /\ UNCHANGED owesReboot
             /\ End(g) /\ SetStatus(n, "Failed")
    <3>1. Moved("idle") /\ Marked("Failed") /\ Set(t, l, "none")
      BY <2>5, <1>7, <1>16, <1>19
    <3>2. GoFrameKept(g) /\ GoRow(g, go[g].pc, "idle", t, l, "none", "Failed")
          /\ bootID'[n] = bootID[n]
      BY <3>1, <2>2, <1>15
    <3> QED
      BY <2>1, <2>5, <3>2, <1>12, Zenon DEF GoTable
  <2> QED
    BY <1>25, <2>3, <2>4, <2>5 DEF RbBegin, EndWith
<1>26. CASE RbDriver(g)
  <2>1. bootID' = [bootID EXCEPT ![n] = go[g].boot] /\ go[g].pc = "rbDriver" /\ UNCHANGED owesReboot
    BY <1>26 DEF RbDriver
  <2>2. Booted(go[g].boot)
    BY <2>1, <1>10 DEF Booted
  <2>3. CASE /\ p = "none" /\ Goto(g, "rbWait") /\ UNCHANGED nodeStatus
             /\ \E late : node' = [node EXCEPT ![n].pod = "pending", ![n].late = late]
    <3>1. Moved("rbWait") /\ Marked(s) /\ Set(t, l, "pending")
      BY <2>3, <1>a, <1>17, <1>18
    <3>2. GoFrameKept(g) /\ GoRow(g, go[g].pc, "rbWait", t, l, "pending", s)
          /\ bootID'[n] = go[g].boot
      BY <3>1, <2>2, <1>15
    <3> QED
      BY <2>1, <2>3, <3>2, <1>12, Zenon DEF GoTable
  <2>4. CASE (p = "none" => Fault) /\ UNCHANGED node /\ End(g) /\ SetStatus(n, "RebootFailed")
    <3>1. Moved("idle") /\ Marked("RebootFailed") /\ Set(t, l, p)
      BY <2>4, <1>5, <1>16, <1>19
    <3>2. GoFrameKept(g) /\ GoRow(g, go[g].pc, "idle", t, l, p, "RebootFailed")
          /\ bootID'[n] = go[g].boot
      BY <3>1, <2>2, <1>15
    <3> QED
      BY <2>1, <2>4, <3>2, <1>12, Zenon DEF GoTable
  <2> QED
    <3>1. CASE /\ p = "none" /\ Goto(g, "rbWait") /\ UNCHANGED nodeStatus
               /\ node' = [node EXCEPT ![n].pod = "pending", ![n].late = @ \/ Abandoned(g)]
      <4>1. node' = [node EXCEPT ![n].pod = "pending",
                                 ![n].late = node[n].late \/ Abandoned(g)]
        BY <1>0, <1>1, <3>1 DEF Node
      <4> QED
        BY <2>3, <3>1, <4>1
    <3> QED
      BY <1>26, <2>4, <3>1 DEF RbDriver, EndWith
<1>27. CASE RbWait(g)
  <2>1. PICK b : bootID' = [bootID EXCEPT ![n] = b]
    BY <1>27 DEF RbWait
  <2>2. /\ CanGiveUp \/ (p # "none" /\ (node[n].boot # bootID[n] \/ ~node[n].ready))
        /\ go[g].pc = "rbWait" /\ UNCHANGED <<node, nodeStatus, owesReboot>>
        /\ Goto(g, "rbMark")
    BY <1>27 DEF RbWait, WaitFor
  <2>3. Booted(b)
    BY <2>1, <1>10 DEF Booted
  <2>4. Moved("rbMark") /\ Marked(s) /\ Set(t, l, p)
    BY <2>2, <1>5, <1>17, <1>18
  <2>5. GoFrameKept(g) /\ GoRow(g, go[g].pc, "rbMark", t, l, p, s)
    BY <2>3, <2>4, <1>15
  <2> QED
    BY <2>2, <2>5, ZenonT(30) DEF GoTable
<1>28. CASE RbMark(g)
  <2>1. UNCHANGED <<node, bootID, owesReboot>> /\ go[g].pc = "rbMark"
    BY <1>28 DEF RbMark
  <2>2. Booted(bootID[n])
    BY <2>1, <1>20
  <2>3. CASE /\ dc[dcOf[n]].phase = "gone" \/ Fault
             /\ End(g) /\ UNCHANGED <<node, nodeStatus>>
    <3>1. Moved("idle") /\ Marked(s) /\ Set(t, l, p)
      BY <2>3, <1>5, <1>16, <1>18
    <3>2. GoFrameKept(g) /\ GoRow(g, go[g].pc, "idle", t, l, p, s)
          /\ bootID'[n] = bootID[n]
      BY <3>1, <2>2, <1>15
    <3> QED
      BY <2>1, <2>3, <3>2, <1>12, Zenon DEF GoTable
  <2>5. CASE Goto(g, "dpBegin") /\ UNCHANGED <<node, nodeStatus>>
    <3>1. Moved("dpBegin") /\ Marked(s) /\ Set(t, l, p)
      BY <2>5, <1>5, <1>17, <1>18
    <3>2. GoFrameKept(g) /\ GoRow(g, go[g].pc, "dpBegin", t, l, p, s)
          /\ bootID'[n] = bootID[n]
      BY <3>1, <2>2, <1>15
    <3> QED
      BY <2>1, <2>5, <3>2, <1>12, Zenon DEF GoTable
  <2>6. CASE Goto(g, "dpBegin") /\ SetStatus(n, "RebootInProgress") /\ UNCHANGED node
    <3>1. Moved("dpBegin") /\ Marked("RebootInProgress") /\ Set(t, l, p)
      BY <2>6, <1>5, <1>17, <1>19
    <3>2. GoFrameKept(g) /\ GoRow(g, go[g].pc, "dpBegin", t, l, p, "RebootInProgress")
          /\ bootID'[n] = bootID[n]
      BY <3>1, <2>2, <1>15
    <3> QED
      BY <2>1, <2>6, <3>2, <1>12, Zenon DEF GoTable
  <2> QED
    BY <1>28, <2>1, <2>3, <2>5, <2>6 DEF RbMark, DcOf
<1>29. CASE DpBegin(g)
  <2>1. UNCHANGED <<node, nodeStatus, bootID, owesReboot>> /\ go[g].pc \in {"dpBegin", "dpBeginForce"}
    BY <1>29 DEF DpBegin
  <2>2. Booted(bootID[n])
    BY <2>1, <1>20
  <2>3. CASE (p = "none" \/ Fault) /\ End(g) /\ UNCHANGED <<node, nodeStatus>>
    <3>1. Moved("idle") /\ Marked(s) /\ Set(t, l, p)
      BY <2>3, <1>5, <1>16, <1>18
    <3>2. GoFrameKept(g) /\ GoRow(g, go[g].pc, "idle", t, l, p, s)
          /\ bootID'[n] = bootID[n]
      BY <3>1, <2>2, <1>15
    <3> QED
      BY <2>1, <2>3, <3>2, <1>12, Zenon DEF GoTable
  <2>4. CASE p # "none" /\ go[g].pc = "dpBegin" /\ Goto(g, "dpWait") /\ UNCHANGED <<node, nodeStatus>>
    <3>1. Moved("dpWait") /\ Marked(s) /\ Set(t, l, p)
      BY <2>4, <1>5, <1>17, <1>18
    <3>2. GoFrameKept(g) /\ GoRow(g, go[g].pc, "dpWait", t, l, p, s)
          /\ bootID'[n] = bootID[n]
      BY <3>1, <2>2, <1>15
    <3> QED
      BY <2>1, <2>4, <3>2, <1>12, Zenon DEF GoTable
  <2>5. CASE p # "none" /\ go[g].pc = "dpBeginForce" /\ Goto(g, "dpForce")
             /\ UNCHANGED <<node, nodeStatus>>
    <3>1. Moved("dpForce") /\ Marked(s) /\ Set(t, l, p)
      BY <2>5, <1>5, <1>17, <1>18
    <3>2. GoFrameKept(g) /\ GoRow(g, go[g].pc, "dpForce", t, l, p, s)
          /\ bootID'[n] = bootID[n]
      BY <3>1, <2>2, <1>15
    <3> QED
      BY <2>1, <2>5, <3>2, <1>12, Zenon DEF GoTable
  <2> QED
    BY <1>29, <2>1, <2>3, <2>4, <2>5 DEF DpBegin, DcOf
<1>30. CASE DpWait(g)
  <2>1. UNCHANGED <<bootID, owesReboot>> /\ go[g].pc = "dpWait"
    BY <1>30 DEF DpWait
  <2>2. Booted(bootID[n])
    BY <2>1, <1>20
  <2>3. CASE /\ dc[dcOf[n]].phase = "gone" \/ Fault
             /\ End(g) /\ UNCHANGED <<node, nodeStatus>>
    <3>1. Moved("idle") /\ Marked(s) /\ Set(t, l, p)
      BY <2>3, <1>5, <1>16, <1>18
    <3>2. GoFrameKept(g) /\ GoRow(g, go[g].pc, "idle", t, l, p, s)
          /\ bootID'[n] = bootID[n]
      BY <3>1, <2>2, <1>15
    <3> QED
      BY <2>1, <2>3, <3>2, <1>12, Zenon DEF GoTable
  <2>4. ASSUME node[n].ready, RemovePod(g), End(g),
               NEW x \in {s, "InProgress"}, Marked(x)
        PROVE  GoFrameKept(g) /\ GoTable(g)
    <3>1. PICK y \in {"none", p} : Set(t, l, y) /\ (y # "none" => Fault)
      BY <2>4, <1>b
    <3>2. GoFrameKept(g) /\ GoRow(g, go[g].pc, "idle", t, l, y, x)
          /\ bootID'[n] = bootID[n]
      BY <2>4, <3>1, <2>2, <1>15, <1>16
    <3> QED
      BY <2>1, <2>4, <3>1, <3>2, <1>12, ZenonT(30) DEF GoTable
  <2>6. CASE CanGiveUp /\ Goto(g, "dpForce") /\ UNCHANGED <<node, nodeStatus>>
    <3>1. Moved("dpForce") /\ Marked(s) /\ Set(t, l, p)
      BY <2>6, <1>5, <1>17, <1>18
    <3>2. GoFrameKept(g) /\ GoRow(g, go[g].pc, "dpForce", t, l, p, s)
          /\ bootID'[n] = bootID[n]
      BY <3>1, <2>2, <1>15
    <3> QED
      BY <2>1, <2>6, <3>2, <1>12, Zenon DEF GoTable
  <2> QED
    <3>1. CASE node[n].ready /\ RemovePod(g) /\ EndWithIfValid(g, "InProgress")
      BY <2>4, <3>1, <1>18, <1>19 DEF EndWithIfValid, EndWith
    <3> QED
      BY <1>30, <2>1, <2>3, <2>6, <3>1 DEF DpWait, DcOf
<1>31. CASE DpForce(g)
  <2>1. UNCHANGED <<bootID, owesReboot>> /\ go[g].pc = "dpForce"
    BY <1>31 DEF DpForce
  <2>2. Booted(bootID[n])
    BY <2>1, <1>20
  <2>3. ASSUME End(g), NEW x \in {s, "InProgress"}, Marked(x),
               NEW y \in {"none", p}, Set(t, l, y), y # "none" => Fault
        PROVE  GoFrameKept(g) /\ GoTable(g)
    <3>1. GoFrameKept(g) /\ GoRow(g, go[g].pc, "idle", t, l, y, x)
          /\ bootID'[n] = bootID[n]
      BY <2>2, <2>3, <1>15, <1>16
    <3> QED
      BY <2>1, <2>3, <3>1, <1>12, ZenonT(30) DEF GoTable
  <2>4. CASE RemovePod(g) /\ EndWithIfValid(g, "InProgress")
    <3>1. PICK y \in {"none", p} : Set(t, l, y) /\ (y # "none" => Fault)
      BY <2>4, <1>b
    <3> QED
      BY <2>3, <2>4, <3>1, <1>18, <1>19 DEF EndWithIfValid, EndWith
  <2>5. CASE node' = [node EXCEPT ![n].pod = "none"] /\ End(g) /\ UNCHANGED nodeStatus
    <3>1. Set(t, l, "none")
      BY <2>5, <1>7
    <3> QED
      BY <2>3, <2>5, <3>1, <1>18
  <2> QED
    BY <1>31, <2>4, <2>5 DEF DpForce
<1> QED
  BY <1>21, <1>22, <1>23, <1>24, <1>25, <1>26, <1>27, <1>28, <1>29, <1>30, <1>31 DEF GoStep

---------------------------------------------------------------------------
\* What a step of the loop over the nodes does

\* The visit of n leaves the pass with these nodes to visit and these candidates,
\* and n with taint t and label l and in state s.
VisitRow(n, todo, cand, t, l, s) ==
  /\ pass'.todo = todo /\ pass'.cand = cand
  /\ node'[n].taint = t /\ node'[n].label = l /\ nodeStatus'[n] = s

VisitTable(n) ==
  LET t == node[n].taint
      l == node[n].label
      s == nodeStatus[n]
      all == pass.todo
      rest == pass.todo \ {n}
      c == pass.cand
      seen == pass.seen[n]
      open == t /\ ~seen.taint
      failed == used'.faults # 0
  IN  \/ /\ s \notin FailedStates
         /\ VisitRow(n, all, c, t, l, IF s = "Empty" THEN "NotStarted" ELSE s)
      \/ /\ s \in BusyStates /\ VisitRow(n, rest, c, t, l, "TimedOut")
         /\ ~orphaned' => \A g \in Goroutines : go[g].node # n
      \/ s \in FailedStates /\ VisitRow(n, rest, c, t, l, s)
      \/ s \in FailedStates /\ VisitRow(n, all, c, t, ResetLabel(n), "NotStarted")
      \/ s = "InProgress" /\ VisitRow(n, rest, c, open, l, s)
      \/ UpgradeStarted(n) /\ VisitRow(n, rest, c, t, l, s)
      \/ s \in DoneStates /\ VisitRow(n, rest, c, t, l, s)
      \/ /\ ~UpgradeStarted(n) /\ cr[n].image = pass.spec
         /\ \E x \in DoneStates : VisitRow(n, rest, c, open, l, x)
      \/ /\ ~UpgradeStarted(n)
         /\ \/ VisitRow(n, rest, c, t, l, "InstallInProgress")
            \/ /\ seen.label # None
               /\ VisitRow(n, rest, c, t, pass.spec, "InstallInProgress")
      \/ s = "InProgress" /\ VisitRow(n, rest, c, t, l, s)
      \/ /\ s = "InProgress" /\ seen.label # None
         /\ VisitRow(n, rest, c, t, pass.spec, s)
      \/ s = "InProgress" /\ failed /\ VisitRow(n, rest, c, t, l, "Failed")
      \/ /\ ~UpgradeStarted(n) /\ seen.label # None
         /\ \E x \in {s, "UncordonFailed"}, k \in {c, c \cup {n}} :
              VisitRow(n, rest, k, t, l, x) /\ (x # s => failed)
         /\ s = "InProgress" => failed
         /\ failed \/ ~DriverInstalled(n)

\* What it leaves alone
VisitFrameKept(n) ==
  /\ pass.pc = "visit" /\ n \in pass.todo
  /\ pass'.pc = "visit" /\ pass'.dc = pass.dc /\ pass'.spec = pass.spec
  /\ pass'.seen = pass.seen /\ pass'.sync = pass.sync
  /\ UNCHANGED <<dc, cr, bootID, inited, currentSpec, go, owesReboot>>
  /\ used'.restarts = used.restarts
  /\ used'.faults = 0 => used.faults = 0
  /\ ~orphaned' => ~orphaned
  /\ \A m \in Nodes \ {n} : node'[m] = node[m] /\ nodeStatus'[m] = nodeStatus[m]
  /\ node'[n].nmc = node[n].nmc /\ node'[n].boot = node[n].boot
  /\ node'[n].ready = node[n].ready /\ node'[n].pod = node[n].pod

LEMMA VisitRows ==
  ASSUME TypeOK, NEW n \in Nodes, VisitStep(n)
  PROVE  VisitFrameKept(n) /\ VisitTable(n)
<1>0. /\ pass \in Pass /\ nodeStatus \in [Nodes -> UpgradeState] /\ used \in Used
      /\ node \in [Nodes -> Node] /\ node[n] \in Node /\ pass.seen[n] \in Seen
  BY DEF TypeOK, Pass
<1>1. /\ pass.pc = "visit" /\ n \in pass.todo
      /\ UNCHANGED <<dc, cr, bootID, inited, currentSpec, go, owesReboot>>
  <2>1. \E a \in BOOLEAN : Visiting(n, a)
    BY DEF VisitStep, VisitInit, VisitTimedOut, VisitFailed, VisitRetry,
           VisitNmcMissing, VisitStarted, VisitReady, VisitClassify,
           VisitUncordonFails
  <2> QED
    BY <2>1 DEF Visiting, FirstOf, manager
<1>2. Fault \/ NoFault
  BY DEF VisitStep, VisitInit, VisitTimedOut, VisitFailed, VisitRetry,
         VisitNmcMissing, VisitStarted, VisitReady, VisitClassify,
         VisitUncordonFails, NoFault
<1>3. /\ used'.restarts = used.restarts
      /\ used'.faults = 0 => used.faults = 0
      /\ Fault => used'.faults # 0
  BY <1>0, <1>2, FaultShows
<1>4. ~orphaned' => ~orphaned
  BY DEF VisitStep, VisitInit, VisitTimedOut, VisitFailed, VisitRetry,
         VisitNmcMissing, VisitStarted, VisitReady, VisitClassify,
         VisitUncordonFails
<1> DEFINE Locals(todo, cand) ==
             /\ pass'.pc = "visit" /\ pass'.dc = pass.dc /\ pass'.spec = pass.spec
             /\ pass'.seen = pass.seen /\ pass'.sync = pass.sync
             /\ pass'.todo = todo /\ pass'.cand = cand
           Marked(s) == /\ nodeStatus'[n] = s
                        /\ \A m \in Nodes \ {n} : nodeStatus'[m] = nodeStatus[m]
           Set(t, l) == /\ \A m \in Nodes \ {n} : node'[m] = node[m]
                        /\ node'[n].taint = t /\ node'[n].label = l
                        /\ node'[n].nmc = node[n].nmc /\ node'[n].boot = node[n].boot
                        /\ node'[n].ready = node[n].ready /\ node'[n].pod = node[n].pod
           t == node[n].taint
           l == node[n].label
           s == nodeStatus[n]
           c == pass.cand
           all == pass.todo
           rest == pass.todo \ {n}
           open == t /\ ~pass.seen[n].taint
<1>5. ASSUME NEW x, NEW todo, NEW cand, NEW tt, NEW ll,
             Locals(todo, cand), Marked(x), Set(tt, ll)
      PROVE  VisitFrameKept(n) /\ VisitRow(n, todo, cand, tt, ll, x)
  BY <1>1, <1>3, <1>4, <1>5 DEF VisitFrameKept, VisitRow
\* The ways in which the locals, the state of the node and the node change
<1>6. ASSUME GoOn PROVE Locals(all, c)
  BY <1>0, <1>1, <1>6 DEF GoOn, Pass
<1>7. ASSUME CountFailed(n) PROVE Locals(rest, c)
  BY <1>0, <1>1, <1>7 DEF CountFailed, Pass
<1>8. /\ Visited(n) \in Pass /\ Visited(n).pc = "visit" /\ Visited(n).dc = pass.dc
      /\ Visited(n).spec = pass.spec /\ Visited(n).seen = pass.seen
      /\ Visited(n).sync = pass.sync /\ Visited(n).todo = rest /\ Visited(n).cand = c
  BY <1>0, <1>1 DEF Visited, Pass
<1>9. ASSUME pass' = Visited(n) \/ pass' = [Visited(n) EXCEPT !.inprog = @ \cup {n}]
      PROVE  Locals(rest, c)
  BY <1>8, <1>9 DEF Pass
<1>10. ASSUME pass' = [Visited(n) EXCEPT !.cand = IF pass.seen[n].ready THEN @ \cup {n} ELSE @]
       PROVE  Locals(rest, c) \/ Locals(rest, c \cup {n})
  BY <1>8, <1>10 DEF Pass
<1>11. ASSUME NEW x, SetStatus(n, x) PROVE Marked(x)
  BY <1>0, <1>11 DEF SetStatus
<1>12. ASSUME UNCHANGED nodeStatus PROVE Marked(s)
  BY <1>12
<1>13. ASSUME UNCHANGED node PROVE Set(t, l)
  BY <1>13
<1>14. ASSUME node' = Uncordoned(n) PROVE Set(open, l)
  BY <1>0, <1>14 DEF Uncordoned, Node
<1>15. ASSUME NEW v, node' = [node EXCEPT ![n].label = v] PROVE Set(t, v)
  BY <1>0, <1>15 DEF Node
<1>16. ASSUME NEW v, node' = [node EXCEPT ![n].retry = FALSE, ![n].label = v] PROVE Set(t, v)
  BY <1>0, <1>16 DEF Node
<1>17. ASSUME node' = [node EXCEPT ![n].retry = FALSE] PROVE Set(t, l)
  BY <1>0, <1>17 DEF Node
<1> HIDE DEF Locals, Marked, Set
<1> DEFINE seen == pass.seen[n]
           failed == used'.faults # 0
<1>18. ASSUME NEW x \in {s, "UncordonFailed"}, NEW ok \in BOOLEAN, Classify(n, x, ok),
              ~UpgradeStarted(n), x # s => failed, ~ok => failed,
              failed \/ ~DriverInstalled(n)
       PROVE  VisitFrameKept(n) /\ VisitTable(n)
  <2>1. CASE /\ Relabel(n, ok /\ seen.label # None)
             /\ SetStatus(n, "InstallInProgress") /\ pass' = Visited(n)
    <3>1. Locals(rest, c) /\ Marked("InstallInProgress")
      BY <2>1, <1>9, <1>11
    <3>2. Set(t, l) \/ (seen.label # None /\ Set(t, pass.spec))
      BY <2>1, <1>13, <1>15 DEF Relabel
    <3>3. /\ VisitFrameKept(n)
          /\ \/ VisitRow(n, rest, c, t, l, "InstallInProgress")
             \/ /\ seen.label # None
                /\ VisitRow(n, rest, c, t, pass.spec, "InstallInProgress")
      BY <3>1, <3>2, <1>5
    <3> QED
      BY <3>3, <1>18 DEF VisitTable
  <2>2. CASE x = "InstallInProgress" /\ pass' = Visited(n) /\ UNCHANGED <<node, nodeStatus>>
    <3>1. Locals(rest, c) /\ Marked(s) /\ Set(t, l) /\ s = "InstallInProgress"
      BY <2>2, <1>9, <1>12, <1>13
    <3>2. VisitFrameKept(n) /\ VisitRow(n, rest, c, t, l, "InstallInProgress")
      BY <3>1, <1>5
    <3> QED
      BY <3>2, <1>18 DEF VisitTable
  <2>3. CASE /\ x = "InProgress" /\ seen.label # None
             /\ Relabel(n, ok /\ seen.label # pass.spec)
             /\ SetStatus(n, IF ok \/ seen.label = pass.spec THEN x ELSE "Failed")
             /\ pass' = [Visited(n) EXCEPT !.inprog = @ \cup {n}]
    <3>1. Locals(rest, c) /\ s = "InProgress"
      BY <2>3, <1>9
    <3>2. CASE ok /\ seen.label # pass.spec
      <4>1. Set(t, pass.spec) /\ Marked(s)
        BY <2>3, <3>1, <3>2, <1>11, <1>15 DEF Relabel
      <4>2. VisitFrameKept(n) /\ VisitRow(n, rest, c, t, pass.spec, s)
        BY <3>1, <4>1, <1>5
      <4> QED
        BY <2>3, <3>1, <4>2 DEF VisitTable
    <3>3. CASE seen.label = pass.spec
      <4>1. Set(t, l) /\ Marked(s)
        BY <2>3, <3>1, <3>3, <1>11, <1>13 DEF Relabel
      <4>2. VisitFrameKept(n) /\ VisitRow(n, rest, c, t, l, s)
        BY <3>1, <4>1, <1>5
      <4> QED
        BY <3>1, <4>2 DEF VisitTable
    <3>4. CASE ~ok /\ seen.label # pass.spec
      <4>1. Set(t, l) /\ Marked("Failed")
        BY <2>3, <3>1, <3>4, <1>11, <1>13 DEF Relabel
      <4>2. VisitFrameKept(n) /\ VisitRow(n, rest, c, t, l, "Failed")
        BY <3>1, <4>1, <1>5
      <4> QED
        BY <3>1, <3>4, <4>2, <1>18 DEF VisitTable
    <3> QED
      BY <3>2, <3>3, <3>4
  <2>4. CASE /\ x # "InProgress" /\ seen.label # None /\ SetStatus(n, x)
             /\ pass' = [Visited(n) EXCEPT !.cand = IF seen.ready THEN @ \cup {n} ELSE @]
             /\ UNCHANGED node
    <3>1. (Locals(rest, c) \/ Locals(rest, c \cup {n})) /\ Marked(x) /\ Set(t, l)
      BY <2>4, <1>10, <1>11, <1>13
    <3>2. /\ VisitFrameKept(n)
          /\ \E k \in {c, c \cup {n}} : VisitRow(n, rest, k, t, l, x)
      BY <3>1, <1>5
    <3>3. s = "InProgress" => failed
      BY <2>4, <1>18
    <3> QED
      BY <2>4, <3>2, <3>3, <1>18 DEF VisitTable
  <2> QED
    BY <1>18, <2>1, <2>2, <2>3, <2>4 DEF Classify, InstallOn
<1>19. CASE VisitInit(n)
  <2>1. /\ s \notin FailedStates /\ GoOn /\ UNCHANGED node
        /\ SetStatus(n, IF s = "Empty" THEN "NotStarted" ELSE s)
    BY <1>19 DEF VisitInit
  <2>2. /\ VisitFrameKept(n)
        /\ VisitRow(n, all, c, t, l, IF s = "Empty" THEN "NotStarted" ELSE s)
    BY <2>1, <1>5, <1>6, <1>11, <1>13
  <2> QED
    BY <2>1, <2>2 DEF VisitTable
<1>20. CASE VisitTimedOut(n)
  <2>1. /\ s \in BusyStates /\ CountFailed(n) /\ UNCHANGED node
        /\ SetStatus(n, "TimedOut")
    BY <1>20 DEF VisitTimedOut
  <2>2. ~orphaned' => \A g \in Goroutines : go[g].node # n
    BY <1>20, Zenon DEF VisitTimedOut
  <2>3. VisitFrameKept(n) /\ VisitRow(n, rest, c, t, l, "TimedOut")
    BY <2>1, <1>5, <1>7, <1>11, <1>13
  <2> QED
    BY <2>1, <2>2, <2>3 DEF VisitTable
<1>21. CASE VisitFailed(n)
  <2>1. s \in FailedStates /\ CountFailed(n) /\ UNCHANGED <<node, nodeStatus>>
    BY <1>21 DEF VisitFailed
  <2>2. VisitFrameKept(n) /\ VisitRow(n, rest, c, t, l, s)
    BY <2>1, <1>5, <1>7, <1>12, <1>13
  <2> QED
    BY <2>1, <2>2 DEF VisitTable
<1>22. CASE VisitRetry(n)
  <2>1. s \in FailedStates
    BY <1>22 DEF VisitRetry
  <2>2. CASE /\ node' = [node EXCEPT ![n].retry = FALSE, ![n].label = ResetLabel(n)]
             /\ SetStatus(n, "NotStarted") /\ GoOn
    <3>1. VisitFrameKept(n) /\ VisitRow(n, all, c, t, ResetLabel(n), "NotStarted")
      BY <2>2, <1>5, <1>6, <1>11, <1>16
    <3> QED
      BY <2>1, <3>1 DEF VisitTable
  <2>3. CASE /\ UNCHANGED node \/ node' = [node EXCEPT ![n].retry = FALSE]
             /\ CountFailed(n) /\ UNCHANGED nodeStatus
    <3>1. VisitFrameKept(n) /\ VisitRow(n, rest, c, t, l, s)
      BY <2>3, <1>5, <1>7, <1>12, <1>13, <1>17
    <3> QED
      BY <2>1, <3>1 DEF VisitTable
  <2> QED
    BY <1>22, <2>2, <2>3 DEF VisitRetry
<1>23. CASE VisitNmcMissing(n)
  <2>1. /\ s = "InProgress" /\ node' = Uncordoned(n) /\ UNCHANGED nodeStatus
        /\ pass' = [Visited(n) EXCEPT !.inprog = @ \cup {n}]
    BY <1>23 DEF VisitNmcMissing, NmcStatusMissing
  <2>2. VisitFrameKept(n) /\ VisitRow(n, rest, c, open, l, s)
    BY <2>1, <1>5, <1>9, <1>12, <1>14
  <2> QED
    BY <2>1, <2>2 DEF VisitTable
<1>24. CASE VisitStarted(n)
  <2>1. /\ UpgradeStarted(n) /\ UNCHANGED <<node, nodeStatus>>
        /\ pass' = [Visited(n) EXCEPT !.inprog = @ \cup {n}]
    BY <1>24 DEF VisitStarted
  <2>2. VisitFrameKept(n) /\ VisitRow(n, rest, c, t, l, s)
    BY <2>1, <1>5, <1>9, <1>12, <1>13
  <2> QED
    BY <2>1, <2>2 DEF VisitTable
<1>25. CASE VisitReady(n)
  <2>1. /\ ~UpgradeStarted(n) /\ cr[n].image = pass.spec /\ pass' = Visited(n)
        /\ \/ s \in DoneStates /\ UNCHANGED <<node, nodeStatus>>
           \/ node' = Uncordoned(n) /\ \E x \in DoneStates : SetStatus(n, x)
    BY <1>25 DEF VisitReady, DriverInstalled, DoneStates
  <2>2. CASE s \in DoneStates /\ UNCHANGED <<node, nodeStatus>>
    <3>1. VisitFrameKept(n) /\ VisitRow(n, rest, c, t, l, s)
      BY <2>1, <2>2, <1>5, <1>9, <1>12, <1>13
    <3> QED
      BY <2>2, <3>1 DEF VisitTable
  <2>3. ASSUME NEW x \in DoneStates, SetStatus(n, x), node' = Uncordoned(n)
        PROVE  VisitFrameKept(n) /\ VisitTable(n)
    <3>1. VisitFrameKept(n) /\ VisitRow(n, rest, c, open, l, x)
      BY <2>1, <2>3, <1>5, <1>9, <1>11, <1>14
    <3> QED
      BY <2>1, <2>3, <3>1 DEF VisitTable
  <2> QED
    BY <2>1, <2>2, <2>3
<1>26. CASE VisitClassify(n)
  <2>1. /\ ~UpgradeStarted(n) /\ ~DriverInstalled(n)
        /\ \/ Classify(n, s, TRUE)
           \/ Classify(n, s, FALSE) /\ Fault
    BY <1>26 DEF VisitClassify
  <2> QED
    BY <2>1, <1>3, <1>18
<1>27. CASE VisitUncordonFails(n)
  <2>1. /\ ~UpgradeStarted(n) /\ Fault
        /\ \E ok \in BOOLEAN : Classify(n, "UncordonFailed", ok)
    BY <1>27 DEF VisitUncordonFails, NmcStatusMissing, UpgradeStarted
  <2> QED
    BY <2>1, <1>3, <1>18
<1> QED
  BY <1>19, <1>20, <1>21, <1>22, <1>23, <1>24, <1>25, <1>26, <1>27 DEF VisitStep

---------------------------------------------------------------------------
\* Goroutines keep the invariant

\* The node of a goroutine is marked, and no other goroutine is at work on it.
LEMMA AtWorkMarked ==
  ASSUME CordonInv, Tracked, NEW g \in Goroutines, Active(g)
  PROVE  /\ go[g].node \in Nodes /\ go[g].spec \in Versions
         /\ nodeStatus[go[g].node] \in {"Started", "RebootInProgress"}
         /\ \A h \in Goroutines : Active(h) /\ go[h].node = go[g].node => h = g
         /\ pass.pc # "init" /\ inited
<1>0. /\ TypeOK /\ InitInv /\ MarkInv /\ StartInv /\ OneGoroutinePerNode
      /\ FirstInv /\ SwapInv
  BY DEF CordonInv, UpgradeInv
<1>1. \A h \in Goroutines : Active(h) => Works(h)
  BY <1>0 DEF SwapInv, GoSwapInv, Works
<1>2. pass.pc # "init" /\ inited
  BY <1>0 DEF FirstInv
<1>3. pass.sync # g
  BY <1>0, <1>2, ConstantsAssumption DEF InitInv, Goroutines
<1> QED
  BY <1>0, <1>1, <1>2, <1>3 DEF MarkInv, Tracked, OneGoroutinePerNode, TypeOK

LEMMA GoDelete ==
  ASSUME CordonInv, NEW g \in Goroutines, GoStep(g)
  PROVE  DeleteInv'
<1>0. DeleteInv /\ GoFrameKept(g)
  BY GoRows DEF CordonInv, UpgradeInv
<1> SUFFICES ASSUME ~orphaned' PROVE DeleteInv'
  BY DEF DeleteInv
<1>1. pass.pc \notin {"delete", "finalize"} /\ UNCHANGED pass
  BY <1>0 DEF DeleteInv, GoFrameKept
<1>2. ASSUME NEW n \in Nodes, dc'[dcOf[n]].phase \in {"finalizing", "gone"}
      PROVE  ~AtWork(n)' /\ (InPass => pass.dc # dcOf[n])
  <2>1. ~AtWork(n) /\ (InPass => pass.dc # dcOf[n])
    BY <1>0, <1>2 DEF DeleteInv, GoFrameKept
  <2>2. go[g].node # n
    BY <1>0, <2>1 DEF AtWork, GoFrameKept
  <2> QED
    BY <1>0, <2>1, <2>2 DEF AtWork, Active, GoFrameKept
<1> QED
  BY <1>1, <1>2 DEF DeleteInv, InPass

LEMMA GoFirst ==
  ASSUME CordonInv, NEW g \in Goroutines, GoStep(g)
  PROVE  FirstInv'
<1>0. FirstInv /\ GoFrameKept(g)
  BY GoRows DEF CordonInv, UpgradeInv
<1> QED
  BY <1>0 DEF FirstInv, GoFrameKept, Tracked

LEMMA GoSeen ==
  ASSUME CordonInv, NEW g \in Goroutines, GoStep(g)
  PROVE  SeenInv'
<1>0. /\ SeenInv /\ SwapInv /\ GoFrameKept(g) /\ GoTable(g)
  BY GoRows DEF CordonInv, UpgradeInv
<1> DEFINE n == go[g].node
<1> SUFFICES ASSUME Tracked', InPass' PROVE SeenInv'
  BY DEF SeenInv
<1>1. Tracked /\ InPass /\ UNCHANGED pass /\ UNCHANGED currentSpec
  BY <1>0 DEF Tracked, GoFrameKept, InPass
<1>2. /\ node[n].taint => node'[n].taint
      /\ node[n].label # None /\ node'[n].label # None
  <2>1. node[n].label # None /\ go[g].spec \in Versions
    BY <1>0, <1>1 DEF SwapInv, GoSwapInv, GoFrameKept
  <2>2. node'[n].label \in {node[n].label, go[g].spec}
        /\ node'[n].taint \in {node[n].taint, node[n].taint \/ ~go[g].taint}
    BY <1>0, ZenonT(30) DEF GoTable, GoRow
  <2> QED
    BY <2>1, <2>2, ConstantsAssumption
<1>3. \A m \in Nodes \ {n} : node'[m] = node[m]
  BY <1>0 DEF GoFrameKept
<1> QED
  BY <1>0, <1>1, <1>2, <1>3 DEF SeenInv, NodesOf

LEMMA GoSwap ==
  ASSUME CordonInv, NEW g \in Goroutines, GoStep(g)
  PROVE  SwapInv'
<1>0. /\ SwapInv /\ GoFrameKept(g) /\ GoTable(g)
  BY GoRows DEF CordonInv, UpgradeInv
<1> DEFINE n == go[g].node
<1> SUFFICES ASSUME Tracked' PROVE SwapInv'
  BY DEF SwapInv
<1>1. Tracked /\ UNCHANGED currentSpec /\ Active(g)
  BY <1>0 DEF Tracked, GoFrameKept
<1>2. \A h \in Goroutines : Active(h) /\ go[h].node = go[g].node => h = g
  BY <1>1, AtWorkMarked
<1>3. /\ go[g].spec = currentSpec /\ currentSpec # None /\ n \in Nodes
      /\ node[n].label # None
  BY <1>0, <1>1, ConstantsAssumption DEF SwapInv, GoSwapInv, GoFrameKept
<1>4. node'[n].label \in {node[n].label, currentSpec} 
  BY <1>0, <1>3, ZenonT(30) DEF GoTable, GoRow
<1>5. GoSwapInv(g)
  BY <1>0, <1>1 DEF SwapInv
<1>6. nodeStatus'[n] = "InProgress" => node'[n].label = currentSpec
  BY <1>0, <1>1, <1>3, <1>5, ZenonT(30) DEF GoTable, GoRow, SwapInv, GoSwapInv
<1>7. Active(g)' => GoSwapInv(g)'
  <2> SUFFICES ASSUME Active(g)' PROVE GoSwapInv(g)'
    OBVIOUS
  <2>1. /\ go'[g].node = n /\ go'[g].spec = go[g].spec /\ go'[g].pc # "idle"
        /\ go'[g].pc = "hnuCordon" => go'[g].taint = go[g].taint
    BY <1>0 DEF GoFrameKept, Active
  <2>2. /\ go'[g].pc \notin {"dpBeginForce", "hnuCheck"}
        /\ go'[g].pc = "hnuCordon" => (go[g].taint => node'[n].taint)
        /\ go'[g].pc \in {"hnuDrain", "hnuLabel", "rbBegin"} => node'[n].taint
        /\ go'[g].pc \in {"rbDriver", "rbWait", "rbMark", "dpBegin", "dpWait", "dpForce"}
             => node'[n].label = go[g].spec
    BY <1>0, <1>5, <2>1, ZenonT(30) DEF GoTable, GoRow, GoSwapInv
  <2> QED
    BY <1>1, <1>3, <1>4, <2>1, <2>2 DEF GoSwapInv
<1>8. ASSUME NEW h \in Goroutines \ {g}, Active(h)' PROVE GoSwapInv(h)'
  <2>1. Active(h) /\ go'[h] = go[h]
    BY <1>0, <1>8 DEF GoFrameKept, Active
  <2>2. go[h].node # n /\ go[h].node \in Nodes
    BY <1>1, <1>2, <2>1, AtWorkMarked
  <2>3. node'[go[h].node] = node[go[h].node] /\ GoSwapInv(h)
    BY <1>0, <1>1, <2>1, <2>2 DEF GoFrameKept, SwapInv
  <2> QED
    BY <1>1, <2>1, <2>3 DEF GoSwapInv
<1>9. \A m \in Nodes : nodeStatus'[m] = "InProgress" =>
                         node'[m].label = currentSpec' /\ currentSpec' # None
  BY <1>0, <1>1, <1>3, <1>6 DEF SwapInv, GoFrameKept
<1> QED
  BY <1>7, <1>8, <1>9 DEF SwapInv

LEMMA GoTaint ==
  ASSUME CordonInv, NEW g \in Goroutines, GoStep(g)
  PROVE  TaintInv'
<1>0. /\ SwapInv /\ TaintInv /\ SeenInv /\ GoFrameKept(g) /\ GoTable(g)
  BY GoRows DEF CordonInv, UpgradeInv
<1> PICK n \in Nodes : n = go[g].node
  BY <1>0 DEF GoFrameKept
<1> SUFFICES ASSUME Calm' PROVE TaintInv'
  BY DEF TaintInv
<1>1. Calm /\ Tracked /\ Active(g) /\ used'.faults = 0 /\ UNCHANGED <<dc, cr, pass>>
  BY <1>0 DEF Calm, Tracked, GoFrameKept
<1>2. /\ n \in Nodes /\ go[g].spec \in Versions
      /\ nodeStatus[n] \in {"Started", "RebootInProgress"}
      /\ \A h \in Goroutines : Active(h) /\ go[h].node = go[g].node => h = g
      /\ pass.pc # "init"
  BY <1>1, AtWorkMarked
<1>3. GoSwapInv(g)
  BY <1>0, <1>1 DEF SwapInv
<1>4. dc[dcOf[n]].phase = "present" => GoTaintInv(g) /\ NodeTaintInv(n)
  BY <1>0, <1>1, <1>2 DEF TaintInv
\* The cordon is in place after its step, and the label changes only under it
<1>5. \/ node'[n].taint = node[n].taint /\ node'[n].label = node[n].label
      \/ node[n].taint /\ node'[n].taint
      \/ go[g].pc = "hnuCordon" /\ node'[n].taint /\ node'[n].label = node[n].label
  BY <1>0, <1>1, <1>3, ZenonT(30) DEF GoTable, GoRow, GoSwapInv
<1>6. nodeStatus'[n] \notin DoneStates
  BY <1>0, <1>2, ZenonT(30) DEF GoTable, GoRow, DoneStates
<1>7. ASSUME dc[dcOf[n]].phase = "present" PROVE NodeTaintInv(n)'
  <2>1. pass.pc = "visit" => pass.spec = go[g].spec
    BY <1>0, <1>1, <1>3 DEF SeenInv, GoSwapInv, InPass
  <2>2. node'[n].nmc = node[n].nmc
    BY <1>0 DEF GoFrameKept
  <2>3. ASSUME pass.pc = "visit", n \in pass.todo, node'[n].taint, ~pass.seen[n].taint
        PROVE  cr[n].image # pass.spec
    BY <1>3, <1>4, <1>5, <1>7, <2>1, <2>3 DEF GoTaintInv, NodeTaintInv
  <2> QED
    BY <1>1, <1>4, <1>5, <1>6, <1>7, <2>2, <2>3 DEF NodeTaintInv, InPass
<1>8. ASSUME NEW m \in Nodes, m # n, dc[dcOf[m]].phase = "present"
      PROVE  NodeTaintInv(m)'
  <2>1. node'[m] = node[m] /\ nodeStatus'[m] = nodeStatus[m] /\ NodeTaintInv(m)
    BY <1>0, <1>1, <1>8 DEF GoFrameKept, TaintInv
  <2> QED
    BY <1>1, <2>1 DEF NodeTaintInv, InPass
<1>9. ASSUME Active(g)', dc[dcOf[n]].phase = "present" PROVE GoTaintInv(g)'
  <2>1. go'[g].node = n /\ go'[g].spec = go[g].spec /\ go'[g].pc # "idle"
        /\ node'[n].nmc = node[n].nmc
    BY <1>0, <1>9 DEF GoFrameKept, Active
  <2>2. /\ go'[g].pc \notin {"hnuCheck", "hnuCordon"}
        \/ /\ go[g].pc \in {"hnuCheck", "hnuCordon"} /\ node'[n].label # go[g].spec
           /\ node'[n].taint = node[n].taint /\ node'[n].label = node[n].label
    BY <1>0, <1>1, <2>1, ZenonT(30) DEF GoTable, GoRow
  <2> QED
    BY <1>1, <1>4, <1>9, <2>1, <2>2 DEF GoTaintInv
<1>10. ASSUME NEW h \in Goroutines \ {g}, Active(h)', dc[dcOf[go'[h].node]].phase = "present"
       PROVE  GoTaintInv(h)'
  <2>1. Active(h) /\ go'[h] = go[h]
    BY <1>0, <1>10 DEF GoFrameKept, Active
  <2>2. go[h].node # n /\ go[h].node \in Nodes
    BY <1>1, <1>2, <2>1, AtWorkMarked
  <2>3. node'[go[h].node] = node[go[h].node] /\ GoTaintInv(h)
    BY <1>0, <1>1, <1>10, <2>1, <2>2 DEF GoFrameKept, TaintInv
  <2> QED
    BY <1>1, <2>1, <2>3 DEF GoTaintInv
<1>11. Active(g)' => go'[g].node = n
  BY <1>0 DEF GoFrameKept
<1> QED
  BY <1>1, <1>7, <1>8, <1>9, <1>10, <1>11 DEF TaintInv

LEMMA GoReboot ==
  ASSUME CordonInv, NEW g \in Goroutines, GoStep(g)
  PROVE  RebootInv'
<1>0. /\ RebootInv /\ DeleteInv /\ GoFrameKept(g) /\ GoTable(g)
  BY GoRows DEF CordonInv, UpgradeInv
<1> PICK n \in Nodes : n = go[g].node
  BY <1>0 DEF GoFrameKept
<1> SUFFICES ASSUME Calm', ~CanGiveUp PROVE RebootInv'
  BY DEF RebootInv
<1>1. /\ Calm /\ Tracked /\ Active(g) /\ used'.faults = 0 /\ ~orphaned
      /\ UNCHANGED <<dc, cr, pass>>
  BY <1>0 DEF Calm, Tracked, GoFrameKept
<1>2. /\ n \in Nodes
      /\ nodeStatus[n] \in {"Started", "RebootInProgress"}
      /\ \A h \in Goroutines : Active(h) /\ go[h].node = go[g].node => h = g
  BY <1>1, AtWorkMarked
<1>3. GoRebootInv(g) /\ NodeRebootInv(n)
  BY <1>0, <1>1, <1>2 DEF RebootInv
<1>4. dc[dcOf[n]].phase # "gone"
  BY <1>0, <1>1, <1>2 DEF DeleteInv, AtWork
\* What is owed to the node is owed by this goroutine
<1> DEFINE Late == {"rbDriver", "rbWait", "rbMark", "dpBegin", "dpWait"}
<1>5. node[n].pod # "none" \/ owesReboot[n] => go[g].pc \in Late
  BY <1>2, <1>3 DEF NodeRebootInv, Active
<1>6. /\ node'[n].nmc = node[n].nmc /\ node'[n].boot = node[n].boot
      /\ node'[n].ready = node[n].ready
      /\ Active(g)' => go'[g].node = n /\ go'[g].boot = go[g].boot
  BY <1>0 DEF GoFrameKept
<1>7. nodeStatus'[n] \in BusyStates
  BY <1>0, <1>1, <1>2, <1>3, ZenonT(30) DEF GoTable, GoRow, BusyStates, GoRebootInv
<1>8. ~node'[n].ready => node'[n].pod = "fired"
  BY <1>0, <1>1, <1>3, <1>6, ZenonT(30) DEF GoTable, GoRow, GoRebootInv, NodeRebootInv
<1>9. node'[n].pod # "none" \/ owesReboot'[n] => go'[g].pc \in Late
  BY <1>0, <1>1, <1>3, <1>4, <1>5, ZenonT(30) DEF GoTable, GoRow, GoRebootInv, NodeRebootInv
<1>10. NodeRebootInv(n)'
  BY <1>6, <1>7, <1>8, <1>9 DEF NodeRebootInv, Active
<1>11. ASSUME NEW m \in Nodes, m # n PROVE NodeRebootInv(m)'
  <2>1. /\ node'[m] = node[m] /\ nodeStatus'[m] = nodeStatus[m]
        /\ owesReboot'[m] = owesReboot[m] /\ NodeRebootInv(m)
    BY <1>0, <1>1, <1>11 DEF GoFrameKept, RebootInv
  <2>2. \A h \in Goroutines : go[h].node = m => go'[h] = go[h]
    BY <1>0, <1>11 DEF GoFrameKept
  <2> QED
    BY <1>1, <2>1, <2>2 DEF NodeRebootInv, InPass
<1>12. ASSUME Active(g)' PROVE GoRebootInv(g)'
  <2>1. go'[g].pc # "idle" /\ go'[g].node = n /\ go'[g].boot = go[g].boot
    BY <1>6, <1>12 DEF Active
  <2> QED
    BY <1>0, <1>1, <1>3, <1>4, <1>5, <1>6, <2>1, ZenonT(60)
       DEF GoTable, GoRow, GoRebootInv, NodeRebootInv
<1>13. ASSUME NEW h \in Goroutines \ {g}, Active(h)' PROVE GoRebootInv(h)'
  <2>1. Active(h) /\ go'[h] = go[h]
    BY <1>0, <1>13 DEF GoFrameKept, Active
  <2>2. go[h].node # n /\ go[h].node \in Nodes
    BY <1>1, <1>2, <2>1, AtWorkMarked
  <2>3. /\ node'[go[h].node] = node[go[h].node] /\ bootID'[go[h].node] = bootID[go[h].node]
        /\ owesReboot'[go[h].node] = owesReboot[go[h].node] /\ GoRebootInv(h)
    BY <1>0, <1>1, <2>1, <2>2 DEF GoFrameKept, RebootInv
  <2> QED
    BY <2>1, <2>3 DEF GoRebootInv
<1> QED
  BY <1>10, <1>11, <1>12, <1>13 DEF RebootInv

LEMMA GoCordon ==
  ASSUME CordonInv, NEW g \in Goroutines, GoStep(g)
  PROVE  CordonInv'
<1>1. UpgradeInv'
  BY GoInv DEF CordonInv
<1> QED
  BY <1>1, GoDelete, GoFirst, GoSeen, GoSwap, GoTaint, GoReboot DEF CordonInv

---------------------------------------------------------------------------
\* The loop over the nodes keeps the invariant

\* The pass visits a node of its DeviceConfig, with all of the invariant at hand.
LEMMA VisitFacts ==
  ASSUME CordonInv, NEW n \in Nodes, VisitStep(n), ~orphaned'
  PROVE  /\ ~orphaned /\ dcOf[n] = pass.dc
         /\ \A m \in Nodes \ {n} : /\ m \in pass'.todo <=> m \in pass.todo
                                   /\ m \in pass'.cand <=> m \in pass.cand
         /\ pass'.todo \subseteq pass.todo /\ pass.cand \subseteq pass'.cand
         /\ pass.spec \in Versions
<1>0. TypeOK /\ LoopInv /\ VisitFrameKept(n) /\ VisitTable(n)
  BY VisitRows DEF CordonInv, UpgradeInv
<1>1. ~orphaned /\ dcOf[n] = pass.dc /\ pass.spec \in Versions
  BY <1>0 DEF LoopInv, VisitFrameKept, NodesOf, TypeOK
<1>2. /\ pass'.todo \in {pass.todo, pass.todo \ {n}}
      /\ pass'.cand \in {pass.cand, pass.cand \cup {n}}
  BY <1>0 DEF VisitTable, VisitRow
<1> QED
  BY <1>1, <1>2

\* Where a goroutine is at work the visit changes nothing.
LEMMA VisitAtWork ==
  ASSUME CordonInv, NEW n \in Nodes, VisitStep(n), Tracked', AtWork(n)
  PROVE  /\ node'[n].taint = node[n].taint /\ node'[n].label = node[n].label
         /\ nodeStatus'[n] = nodeStatus[n] /\ pass'.cand = pass.cand
<1>0. VisitFrameKept(n) /\ VisitTable(n)
  BY VisitRows DEF CordonInv, UpgradeInv
<1>1. PICK g \in Goroutines : Active(g) /\ go[g].node = n
  BY DEF AtWork
<1>2. Tracked
  BY <1>0 DEF Tracked, VisitFrameKept
<1>3. nodeStatus[n] \in {"Started", "RebootInProgress"} /\ ~orphaned'
  BY <1>1, <1>2, AtWorkMarked DEF Tracked
<1>4. nodeStatus[n] \notin FailedStates \cup DoneStates \cup {"InProgress", "Empty"}
      /\ UpgradeStarted(n)
  BY <1>3 DEF FailedStates, DoneStates, UpgradeStarted
<1> QED
  BY <1>0, <1>1, <1>3, <1>4 DEF VisitTable, VisitRow

LEMMA VisitDelete ==
  ASSUME CordonInv, NEW n \in Nodes, VisitStep(n)
  PROVE  DeleteInv'
<1>0. DeleteInv /\ VisitFrameKept(n)
  BY VisitRows DEF CordonInv, UpgradeInv
<1> SUFFICES ASSUME ~orphaned', NEW m \in Nodes,
                    dc'[dcOf[m]].phase \in {"finalizing", "gone"}
             PROVE  ~AtWork(m)' /\ pass'.dc # dcOf[m]
  BY <1>0 DEF DeleteInv, VisitFrameKept
<1>1. ~orphaned
  BY VisitFacts
<1>2. ~AtWork(m) /\ pass.dc # dcOf[m]
  BY <1>0, <1>1 DEF DeleteInv, InPass, VisitFrameKept
<1> QED
  BY <1>0, <1>2 DEF AtWork, Active, VisitFrameKept

LEMMA VisitFirst ==
  ASSUME CordonInv, NEW n \in Nodes, VisitStep(n)
  PROVE  FirstInv'
<1>0. StartInv /\ VisitFrameKept(n)
  BY VisitRows DEF CordonInv, UpgradeInv
<1> QED
  BY <1>0 DEF FirstInv, StartInv, VisitFrameKept

LEMMA VisitSeen ==
  ASSUME CordonInv, NEW n \in Nodes, VisitStep(n)
  PROVE  SeenInv'
<1>0. SeenInv /\ VisitFrameKept(n) /\ VisitTable(n) /\ TypeOK
  BY VisitRows DEF CordonInv, UpgradeInv
<1> SUFFICES ASSUME Tracked' PROVE SeenInv'
  BY DEF SeenInv
<1>1. /\ Tracked /\ ~orphaned' /\ pass.pc = "visit" /\ pass'.pc = "visit"
      /\ UNCHANGED currentSpec /\ pass'.spec = pass.spec /\ pass'.seen = pass.seen
      /\ pass'.dc = pass.dc
  BY <1>0 DEF Tracked, VisitFrameKept
<1>2. /\ pass.spec = currentSpec /\ pass.todo \cap pass.cand = {}
      /\ \A m \in pass.cand : pass.seen[m].label # None
      /\ \A m \in NodesOf(pass.dc) :
           /\ pass.seen[m].label = None => node[m].label = None
           /\ pass.seen[m].label # None => node[m].label # None
           /\ m \in pass.todo \cup pass.cand => (pass.seen[m].taint => node[m].taint)
  BY <1>0, <1>1 DEF SeenInv, InPass
<1>3. /\ dcOf[n] = pass.dc /\ pass.spec # None
      /\ \A m \in Nodes \ {n} : /\ m \in pass'.todo <=> m \in pass.todo
                                /\ m \in pass'.cand <=> m \in pass.cand
  BY <1>1, VisitFacts, ConstantsAssumption
<1>4. n \in NodesOf(pass.dc) /\ n \in pass.todo /\ n \notin pass.cand
  BY <1>0, <1>2, <1>3 DEF NodesOf, VisitFrameKept
<1>5. ~(n \in pass'.todo /\ n \in pass'.cand)
  BY <1>0, <1>4 DEF VisitTable, VisitRow
<1>6. n \in pass'.cand => pass.seen[n].label # None
  BY <1>0, <1>4 DEF VisitTable, VisitRow
<1>7. /\ pass.seen[n].label = None => node'[n].label = None
      /\ pass.seen[n].label # None => node'[n].label # None
  <2>1. \/ node'[n].label \in {node[n].label, ResetLabel(n)}
        \/ pass.seen[n].label # None /\ node'[n].label = pass.spec
    BY <1>0 DEF VisitTable, VisitRow
  <2>2. node[n].label # None <=> ResetLabel(n) # None
    BY DEF ResetLabel
  <2> QED
    BY <1>2, <1>3, <1>4, <2>1, <2>2
<1>8. n \in pass'.todo \cup pass'.cand => node'[n].taint = node[n].taint
  BY <1>0, <1>4 DEF VisitTable, VisitRow
<1>9. \A m \in Nodes \ {n} : node'[m] = node[m]
  BY <1>0 DEF VisitFrameKept
<1>10. pass'.todo \cap pass'.cand = {}
  <2>1. pass'.todo \subseteq Nodes
    BY <1>0, <1>1, VisitFacts DEF TypeOK, Pass
  <2> QED
    BY <1>2, <1>3, <1>5, <2>1
<1>11. \A m \in pass'.cand : pass.seen[m].label # None
  <2>1. pass'.cand \subseteq pass.cand \cup {n}
    BY <1>0 DEF VisitTable, VisitRow
  <2> QED
    BY <1>2, <1>6, <2>1
<1>12. ASSUME NEW m \in NodesOf(pass.dc)
       PROVE  /\ pass.seen[m].label = None => node'[m].label = None
              /\ pass.seen[m].label # None => node'[m].label # None
              /\ m \in pass'.todo \cup pass'.cand => (pass.seen[m].taint => node'[m].taint)
  <2>1. CASE m = n
    <3>1. n \in pass'.todo \cup pass'.cand => (pass.seen[n].taint => node'[n].taint)
      BY <1>2, <1>4, <1>8
    <3> QED
      BY <1>7, <2>1, <3>1
  <2>2. CASE m # n
    BY <1>2, <1>3, <1>9, <2>2 DEF NodesOf
  <2> QED
    BY <2>1, <2>2
<1> QED
  BY <1>1, <1>2, <1>10, <1>11, <1>12 DEF SeenInv, NodesOf

LEMMA VisitSwap ==
  ASSUME CordonInv, NEW n \in Nodes, VisitStep(n)
  PROVE  SwapInv'
<1>0. SeenInv /\ SwapInv /\ VisitFrameKept(n) /\ VisitTable(n)
  BY VisitRows DEF CordonInv, UpgradeInv
<1> SUFFICES ASSUME Tracked' PROVE SwapInv'
  BY DEF SwapInv
<1>1. /\ Tracked /\ pass.pc = "visit" /\ pass.spec = currentSpec
      /\ UNCHANGED <<currentSpec, go>>
  BY <1>0 DEF Tracked, VisitFrameKept, SeenInv, InPass
<1>2. pass.spec # None
  BY <1>1, VisitFacts, ConstantsAssumption DEF Tracked
<1>3. \A m \in Nodes \ {n} : node'[m] = node[m] /\ nodeStatus'[m] = nodeStatus[m]
  BY <1>0 DEF VisitFrameKept
<1>4. nodeStatus'[n] = "InProgress" =>
        node'[n].label = currentSpec /\ currentSpec # None
  <2>1. nodeStatus[n] = "InProgress" => node[n].label = currentSpec
    BY <1>0, <1>1 DEF SwapInv
  <2> QED
    BY <1>0, <1>1, <1>2, <2>1 DEF VisitTable, VisitRow, DoneStates, FailedStates, UpgradeStarted
<1>5. ASSUME NEW g \in Goroutines, Active(g) PROVE GoSwapInv(g)'
  <2>1. GoSwapInv(g) /\ go[g].node \in Nodes
    BY <1>0, <1>1, <1>5, AtWorkMarked DEF SwapInv
  <2>2. CASE go[g].node = n
    <3>1. node'[n].taint = node[n].taint /\ node'[n].label = node[n].label
      BY <1>5, <2>2, VisitAtWork DEF AtWork
    <3> QED
      BY <1>1, <2>1, <2>2, <3>1 DEF GoSwapInv
  <2>3. CASE go[g].node # n
    BY <1>1, <1>3, <2>1, <2>3 DEF GoSwapInv
  <2> QED
    BY <2>2, <2>3
<1> QED
  BY <1>0, <1>1, <1>3, <1>4, <1>5 DEF SwapInv, Active

LEMMA VisitTaint ==
  ASSUME CordonInv, NEW n \in Nodes, VisitStep(n)
  PROVE  TaintInv'
<1>0. SeenInv /\ TaintInv /\ VisitFrameKept(n) /\ VisitTable(n)
  BY VisitRows DEF CordonInv, UpgradeInv
<1> SUFFICES ASSUME Calm' PROVE TaintInv'
  BY DEF TaintInv
<1>1. /\ Calm /\ Tracked /\ Tracked' /\ used'.faults = 0 /\ pass.pc = "visit"
      /\ UNCHANGED <<dc, cr, go>> /\ pass'.pc = "visit" /\ pass'.dc = pass.dc
      /\ pass'.spec = pass.spec /\ pass'.seen = pass.seen
  BY <1>0 DEF Calm, Tracked, VisitFrameKept
<1>2. /\ dcOf[n] = pass.dc /\ pass.spec \in Versions /\ pass.spec # None
      /\ pass'.todo \subseteq pass.todo
      /\ \A m \in Nodes \ {n} : /\ m \in pass'.todo <=> m \in pass.todo
                                /\ m \in pass'.cand <=> m \in pass.cand
  BY <1>1, VisitFacts, ConstantsAssumption DEF Tracked
<1>3. n \in pass.todo /\ n \notin pass.cand
  BY <1>0, <1>1 DEF SeenInv, VisitFrameKept, InPass
<1>4. /\ \A m \in Nodes \ {n} : node'[m] = node[m] /\ nodeStatus'[m] = nodeStatus[m]
      /\ node'[n].nmc = node[n].nmc
  BY <1>0 DEF VisitFrameKept
<1>5. ASSUME dc[dcOf[n]].phase = "present" PROVE NodeTaintInv(n)'
  <2>0. NodeTaintInv(n)
    BY <1>0, <1>1, <1>5 DEF TaintInv
  <2>1. nodeStatus'[n] \in DoneStates => ~node'[n].taint
    <3>1. /\ nodeStatus[n] \in DoneStates => ~node[n].taint
          /\ node[n].taint /\ ~pass.seen[n].taint => cr[n].image # pass.spec
      BY <2>0, <1>1, <1>3 DEF NodeTaintInv
    <3> QED
      BY <1>0, <1>1, <3>1 DEF VisitTable, VisitRow, DoneStates, FailedStates, UpgradeStarted
  <2>2. ASSUME n \in pass'.todo \cup pass'.cand,
               ~node'[n].taint, node'[n].nmc \notin {None, node'[n].label}
        PROVE  cr[n].image = node[n].nmc
    <3>1. node'[n].taint = node[n].taint /\ node'[n].label \in {node[n].label, ResetLabel(n)}
      BY <1>0, <1>3, <2>2 DEF VisitTable, VisitRow
    <3>2. node'[n].label = node[n].label
      BY <1>4, <2>2, <3>1 DEF ResetLabel
    <3> QED
      BY <1>3, <1>4, <2>0, <2>2, <3>1, <3>2 DEF NodeTaintInv
  <2>3. ASSUME n \in pass'.todo, node'[n].taint, ~pass.seen[n].taint
        PROVE  cr[n].image # pass.spec
    <3>1. node'[n].taint = node[n].taint
      BY <1>0, <1>3, <2>3 DEF VisitTable, VisitRow
    <3> QED
      BY <1>1, <1>3, <2>0, <2>3, <3>1 DEF NodeTaintInv
  <2>4. ASSUME n \in pass'.cand PROVE cr[n].image # pass.spec
    <3>1. ~DriverInstalled(n)
      BY <1>0, <1>1, <1>3, <2>4 DEF VisitTable, VisitRow
    <3> QED
      BY <1>2, <2>0, <3>1 DEF NodeTaintInv, DriverInstalled
  <2>5. ~cr[n].has => cr[n].image = None
    BY <2>0 DEF NodeTaintInv
  <2> QED
    BY <1>1, <1>2, <1>4, <2>1, <2>2, <2>3, <2>4, <2>5 DEF NodeTaintInv, InPass
<1>6. ASSUME NEW m \in Nodes, m # n, dc[dcOf[m]].phase = "present"
      PROVE  NodeTaintInv(m)'
  <2>1. NodeTaintInv(m)
    BY <1>0, <1>1, <1>6 DEF TaintInv
  <2> QED
    BY <1>1, <1>2, <1>4, <1>6, <2>1 DEF NodeTaintInv, InPass
<1>7. ASSUME NEW g \in Goroutines, Active(g), dc[dcOf[go[g].node]].phase = "present"
      PROVE  GoTaintInv(g)'
  <2>1. GoTaintInv(g) /\ go[g].node \in Nodes
    BY <1>0, <1>1, <1>7, AtWorkMarked DEF TaintInv
  <2>2. CASE go[g].node = n
    <3>1. node'[n].taint = node[n].taint /\ node'[n].label = node[n].label
      BY <1>1, <1>7, <2>2, VisitAtWork DEF AtWork
    <3> QED
      BY <1>1, <1>4, <2>1, <2>2, <3>1 DEF GoTaintInv
  <2>3. CASE go[g].node # n
    BY <1>1, <1>4, <2>1, <2>3 DEF GoTaintInv
  <2> QED
    BY <2>2, <2>3
<1> QED
  BY <1>1, <1>5, <1>6, <1>7 DEF TaintInv, Active

LEMMA VisitReboot ==
  ASSUME CordonInv, NEW n \in Nodes, VisitStep(n)
  PROVE  RebootInv'
<1>0. RebootInv /\ SeenInv /\ VisitFrameKept(n) /\ VisitTable(n)
  BY VisitRows DEF CordonInv, UpgradeInv
<1> SUFFICES ASSUME Calm', ~CanGiveUp PROVE RebootInv'
  BY DEF RebootInv
<1>1. /\ Calm /\ Tracked /\ Tracked' /\ used'.faults = 0 /\ pass.pc = "visit"
      /\ UNCHANGED <<dc, cr, go, bootID, owesReboot>> /\ pass'.pc = "visit"
      /\ pass'.dc = pass.dc /\ pass'.seen = pass.seen
  BY <1>0 DEF Calm, Tracked, VisitFrameKept
<1>2. /\ pass'.todo \subseteq pass.todo
      /\ \A m \in Nodes \ {n} : /\ m \in pass'.todo <=> m \in pass.todo
                                /\ m \in pass'.cand <=> m \in pass.cand
  BY <1>1, VisitFacts DEF Tracked
<1>3. n \in pass.todo /\ n \notin pass.cand
  BY <1>0, <1>1 DEF SeenInv, VisitFrameKept, InPass
<1>4. /\ \A m \in Nodes \ {n} : node'[m] = node[m] /\ nodeStatus'[m] = nodeStatus[m]
      /\ \A m \in Nodes : /\ node'[m].boot = node[m].boot /\ node'[m].pod = node[m].pod
                          /\ node'[m].ready = node[m].ready
  BY <1>0 DEF VisitFrameKept
<1>5. n \in pass'.todo \cup pass'.cand /\ nodeStatus'[n] \notin BusyStates
        => nodeStatus[n] \notin BusyStates
  BY <1>0, <1>1, <1>3 DEF VisitTable, VisitRow, BusyStates, FailedStates, UpgradeStarted
<1>6. ASSUME NEW m \in Nodes PROVE NodeRebootInv(m)'
  <2>1. NodeRebootInv(m)
    BY <1>0, <1>1 DEF RebootInv
  <2>2. /\ m \in pass'.todo \cup pass'.cand => m \in pass.todo \cup pass.cand
        /\ m \in pass'.todo \cup pass'.cand /\ nodeStatus'[m] \notin BusyStates
             => nodeStatus[m] \notin BusyStates
    BY <1>2, <1>3, <1>4, <1>5
  <2> QED
    BY <1>1, <1>4, <2>1, <2>2 DEF NodeRebootInv, InPass
<1>7. ASSUME NEW g \in Goroutines, Active(g) PROVE GoRebootInv(g)'
  <2>1. GoRebootInv(g) /\ go[g].node \in Nodes
    BY <1>0, <1>1, <1>7, AtWorkMarked DEF RebootInv
  <2> QED
    BY <1>1, <1>4, <2>1 DEF GoRebootInv
<1> QED
  BY <1>1, <1>6, <1>7 DEF RebootInv, Active

LEMMA VisitCordon ==
  ASSUME CordonInv, NEW n \in Nodes, VisitStep(n)
  PROVE  CordonInv'
<1>1. UpgradeInv'
  BY VisitInv DEF CordonInv
<1> QED
  BY <1>1, VisitDelete, VisitFirst, VisitSeen, VisitSwap, VisitTaint, VisitReboot
     DEF CordonInv

---------------------------------------------------------------------------
\* The environment keeps the invariant

\* Users, KMM and reboots change neither the memory nor the version labels and
\* the cordons.
Outside ==
  /\ UNCHANGED <<nodeStatus, bootID, inited, currentSpec, pass, go, orphaned>>
  /\ used'.restarts = used.restarts /\ used'.faults = used.faults
  /\ \A n \in Nodes : /\ cr'[n].status = cr[n].status /\ cr'[n].image = cr[n].image
                      /\ cr'[n].has = cr[n].has
                      /\ node'[n].taint = node[n].taint /\ node'[n].label = node[n].label
                      /\ node'[n].nmc \in {node[n].nmc, None, node[n].label}
  /\ \A d \in DCs : \/ dc'[d].phase = dc[d].phase
                    \/ dc'[d].phase = "deleting"

SameMachines ==
  UNCHANGED owesReboot /\ \A n \in Nodes : /\ node'[n].boot = node[n].boot
                                           /\ node'[n].pod = node[n].pod
                                           /\ node'[n].ready = node[n].ready

LEMMA OutsideCordon ==
  ASSUME CordonInv, UpgradeInv', Outside, RebootInv'
  PROVE  CordonInv'
<1>0. /\ TypeOK /\ DeleteInv /\ FirstInv /\ SeenInv /\ SwapInv /\ TaintInv
      /\ dcOf \in [Nodes -> DCs]
  BY ConstantsAssumption DEF CordonInv, UpgradeInv
<1>1. (Tracked' <=> Tracked) /\ (Calm' <=> Calm)
  BY DEF Outside, Tracked, Calm
<1>2. DeleteInv'
  BY <1>0 DEF DeleteInv, Outside, AtWork, Active, InPass, TypeOK, NodesOf
<1>3. FirstInv'
  BY <1>0, <1>1 DEF FirstInv, Outside, Active
<1>4. SeenInv'
  BY <1>0, <1>1 DEF SeenInv, Outside, NodesOf, InPass
<1>5. SwapInv'
  <2>1. ASSUME Tracked, NEW g \in Goroutines, Active(g) PROVE GoSwapInv(g)'
    <3>1. GoSwapInv(g) /\ go[g].node \in Nodes
      BY <1>0, <2>1 DEF SwapInv, TypeOK
    <3> QED
      BY <3>1 DEF GoSwapInv, Outside
  <2> QED
    BY <1>0, <1>1, <2>1 DEF SwapInv, Outside, Active
<1>6. TaintInv'
  <2>1. ASSUME Calm, NEW n \in Nodes, dc'[dcOf[n]].phase = "present"
        PROVE  NodeTaintInv(n)'
    <3>1. dc[dcOf[n]].phase = "present"
      BY <1>0, <2>1 DEF Outside
    <3>2. NodeTaintInv(n)
      BY <1>0, <2>1, <3>1 DEF TaintInv
    <3> QED
      BY <3>2 DEF NodeTaintInv, Outside, InPass
  <2>2. ASSUME Calm, NEW g \in Goroutines, Active(g), dc'[dcOf[go[g].node]].phase = "present"
        PROVE  GoTaintInv(g)'
    <3>1. go[g].node \in Nodes /\ go[g].spec # None
      BY <1>0, <2>2, ConstantsAssumption DEF TypeOK
    <3>2. dc[dcOf[go[g].node]].phase = "present"
      BY <1>0, <2>2, <3>1 DEF Outside
    <3>3. GoTaintInv(g)
      BY <1>0, <2>2, <3>2 DEF TaintInv
    <3> QED
      BY <3>1, <3>3 DEF GoTaintInv, Outside
  <2> QED
    BY <1>1, <2>1, <2>2 DEF TaintInv, Outside, Active
<1> QED
  BY <1>2, <1>3, <1>4, <1>5, <1>6 DEF CordonInv

LEMMA SameMachinesReboot ==
  ASSUME CordonInv, Outside, SameMachines
  PROVE  RebootInv'
<1>0. RebootInv /\ TypeOK
  BY DEF CordonInv, UpgradeInv
<1> SUFFICES ASSUME Calm, ~CanGiveUp PROVE RebootInv'
  BY DEF RebootInv, Calm, Tracked, Outside
<1>1. ASSUME NEW n \in Nodes PROVE NodeRebootInv(n)'
  <2>1. NodeRebootInv(n)
    BY <1>0 DEF RebootInv
  <2> QED
    BY <2>1 DEF NodeRebootInv, Outside, SameMachines, InPass
<1>2. ASSUME NEW g \in Goroutines, Active(g) PROVE GoRebootInv(g)'
  <2>1. GoRebootInv(g) /\ go[g].node \in Nodes
    BY <1>0, <1>2 DEF RebootInv, TypeOK
  <2> QED
    BY <2>1 DEF GoRebootInv, Outside, SameMachines
<1> QED
  BY <1>1, <1>2 DEF RebootInv, Outside, Active

\* A node that goes down or comes back has a reboot pod, and with it a goroutine
\* that waits for it.
LEMMA RebootReboot ==
  ASSUME CordonInv, NEW n \in Nodes, RebootBegin(n) \/ RebootEnd(n), Outside
  PROVE  RebootInv'
<1>0. RebootInv /\ TypeOK /\ node \in [Nodes -> Node] /\ owesReboot \in [Nodes -> BOOLEAN]
  BY DEF CordonInv, UpgradeInv, TypeOK
<1> SUFFICES ASSUME Calm, Tracked, ~CanGiveUp PROVE RebootInv'
  BY DEF RebootInv, Calm, Tracked, Outside
<1>1. NodeRebootInv(n)
  BY <1>0 DEF RebootInv
<1>2. node[n].pod # "none"
  BY <1>1 DEF RebootBegin, RebootEnd, NodeRebootInv
<1>3. PICK g \in Goroutines : 
        /\ go[g].pc \in {"rbDriver", "rbWait", "rbMark", "dpBegin", "dpWait"}
        /\ go[g].node = n
  BY <1>1, <1>2 DEF NodeRebootInv
<1>4. /\ nodeStatus[n] \in BusyStates
      /\ \A h \in Goroutines : Active(h) /\ go[h].node = n => h = g
  BY <1>3, AtWorkMarked DEF Active, BusyStates
<1>5. GoRebootInv(g)
  BY <1>0, <1>3 DEF RebootInv, Active
<1>6. go[g].pc # "rbDriver"
  BY <1>2, <1>3, <1>5 DEF GoRebootInv
<1>7. \/ /\ node'[n].pod = "fired" /\ ~node'[n].ready /\ UNCHANGED owesReboot
         /\ node'[n].boot = node[n].boot
      \/ node'[n].ready /\ node'[n].pod = node[n].pod /\ ~owesReboot'[n]
  <2>1. CASE RebootBegin(n)
    BY <1>0, <2>1 DEF RebootBegin, history, Node
  <2>2. CASE RebootEnd(n)
    <3>1. PICK m : node' = [node EXCEPT ![n].ready = TRUE, ![n].boot = @ + 1, ![n].nmc = m]
      BY <2>2 DEF RebootEnd
    <3>2. node'[n].ready /\ node'[n].pod = node[n].pod
      BY <1>0, <3>1 DEF Node
    <3> QED
      BY <1>0, <2>2, <3>2 DEF RebootEnd
  <2> QED
    BY <2>1, <2>2
<1>8. \A m \in Nodes \ {n} : node'[m] = node[m] /\ owesReboot'[m] = owesReboot[m]
  BY <1>0 DEF RebootBegin, RebootEnd, history
<1>9. NodeRebootInv(n)'
  BY <1>3, <1>4, <1>7 DEF NodeRebootInv, Outside, InPass
<1>10. ASSUME NEW m \in Nodes, m # n PROVE NodeRebootInv(m)'
  <2>1. NodeRebootInv(m)
    BY <1>0 DEF RebootInv
  <2> QED
    BY <1>8, <1>10, <2>1 DEF NodeRebootInv, Outside, InPass
<1>11. GoRebootInv(g)'
  BY <1>2, <1>3, <1>5, <1>6, <1>7 DEF GoRebootInv, Outside
<1>12. ASSUME NEW h \in Goroutines, h # g, Active(h) PROVE GoRebootInv(h)'
  <2>1. GoRebootInv(h) /\ go[h].node \in Nodes \ {n}
    BY <1>0, <1>4, <1>12 DEF RebootInv, TypeOK
  <2> QED
    BY <1>8, <2>1 DEF GoRebootInv, Outside
<1> QED
  BY <1>9, <1>10, <1>11, <1>12 DEF RebootInv, Outside, Active

LEMMA EnvironmentCordon ==
  ASSUME CordonInv, Environment
  PROVE  CordonInv'
<1>0. /\ UpgradeInv' /\ dc \in [DCs -> DeviceConfig] /\ cr \in [Nodes -> ModuleStatus]
      /\ node \in [Nodes -> Node] /\ used \in Used
  BY EnvironmentInv DEF CordonInv, UpgradeInv, TypeOK
<1>1. ASSUME NEW d \in DCs, UserDelete(d) \/ \E v \in Versions : EditSpec(d, v)
      PROVE  CordonInv'
  <2>1. \A e \in DCs : dc'[e].phase = dc[e].phase \/ dc'[e].phase = "deleting"
    BY <1>0, <1>1 DEF UserDelete, EditSpec, DeviceConfig
  <2>2. used'.restarts = used.restarts /\ used'.faults = used.faults
    BY <1>0, <1>1 DEF UserDelete, EditSpec, history, Used
  <2>3. Outside /\ SameMachines
    BY <1>1, <2>1, <2>2
       DEF UserDelete, EditSpec, Outside, SameMachines, memory, manager, history
  <2> QED
    BY <1>0, <2>3, OutsideCordon, SameMachinesReboot
<1>2. ASSUME NEW n \in Nodes, TwoHoursPass(n) PROVE CordonInv'
  <2>1. \A m \in Nodes : /\ cr'[m].status = cr[m].status /\ cr'[m].image = cr[m].image
                         /\ cr'[m].has = cr[m].has
    BY <1>0, <1>2 DEF TwoHoursPass, ModuleStatus
  <2>2. Outside /\ SameMachines
    BY <1>2, <2>1 DEF TwoHoursPass, Outside, SameMachines, manager, history
  <2> QED
    BY <1>0, <2>2, OutsideCordon, SameMachinesReboot
<1>3. ASSUME NEW n \in Nodes, UserRetry(n) \/ KmmSync(n) PROVE CordonInv'
  <2>1. \A m \in Nodes :
          /\ node'[m].taint = node[m].taint /\ node'[m].label = node[m].label
          /\ node'[m].nmc \in {node[m].nmc, None, node[m].label}
          /\ node'[m].boot = node[m].boot /\ node'[m].pod = node[m].pod
          /\ node'[m].ready = node[m].ready
    BY <1>0, <1>3 DEF UserRetry, KmmSync, Node
  <2>2. used'.restarts = used.restarts /\ used'.faults = used.faults
    BY <1>0, <1>3 DEF UserRetry, KmmSync, history, Used
  <2>3. Outside /\ SameMachines
    BY <1>3, <2>1, <2>2
       DEF UserRetry, KmmSync, Outside, SameMachines, memory, manager, history
  <2> QED
    BY <1>0, <2>3, OutsideCordon, SameMachinesReboot
<1>4. ASSUME NEW n \in Nodes, RebootBegin(n) \/ RebootEnd(n) PROVE CordonInv'
  <2>1. \A m \in Nodes :
          /\ node'[m].taint = node[m].taint /\ node'[m].label = node[m].label
          /\ node'[m].nmc \in {node[m].nmc, None, node[m].label}
    <3>1. CASE RebootBegin(n)
      BY <1>0, <3>1 DEF RebootBegin, Node
    <3>2. CASE RebootEnd(n)
      <4>1. PICK k \in {node[n].nmc, None} :
              node' = [node EXCEPT ![n].ready = TRUE, ![n].boot = @ + 1, ![n].nmc = k]
        BY <3>2 DEF RebootEnd
      <4> QED
        BY <1>0, <4>1 DEF Node
    <3> QED
      BY <1>4, <3>1, <3>2
  <2>2. Outside
    BY <1>4, <2>1 DEF RebootBegin, RebootEnd, Outside, memory, manager, history
  <2>3. RebootInv'
    BY <1>4, <2>2, RebootReboot
  <2> QED
    BY <1>0, <2>2, <2>3, OutsideCordon
<1>5. ASSUME Restart PROVE CordonInv'
  <2>1. used'.restarts # 0
    BY <1>0, <1>5 DEF Restart, Used
  <2>2. used'.faults = used.faults
    BY <1>0, <1>5 DEF Restart, Used
  <2>3. /\ \A g \in Goroutines : ~Active(g)'
        /\ pass'.pc = "idle" /\ UNCHANGED <<dc, node, orphaned>>
    BY <1>5, Records DEF Restart, Active
  <2>4. DeleteInv'
    BY <2>2, <2>3 DEF CordonInv, DeleteInv, AtWork, InPass
  <2> QED
    BY <1>0, <2>1, <2>4
       DEF CordonInv, FirstInv, SeenInv, SwapInv, TaintInv, RebootInv, Calm, Tracked
<1> QED
  BY <1>1, <1>2, <1>3, <1>4, <1>5 DEF Environment

---------------------------------------------------------------------------
\* The start of a pass keeps the invariant

LEMMA ForgetEffect ==
  ASSUME ClearNodeStatus \/ UNCHANGED <<nodeStatus, orphaned>>
  PROVE  ~orphaned' => /\ ~orphaned
                       /\ \/ UNCHANGED nodeStatus
                          \/ /\ \A n \in Nodes : nodeStatus'[n] = "Empty"
                             /\ \A g \in Goroutines : ~Active(g)
<1>1. CASE ClearNodeStatus
  <2>1. /\ \A n \in Nodes : nodeStatus'[n] = "Empty"
        /\ orphaned' = (orphaned \/ \E g \in Goroutines : Active(g))
    BY <1>1 DEF ClearNodeStatus, LeaveBehind
  <2>2. ~orphaned' => ~orphaned /\ \A g \in Goroutines : ~Active(g)
    BY <2>1, Zenon
  <2> QED
    BY <2>1, <2>2
<1> QED
  BY <1>1

\* A changed version finds no goroutine that works for the old one.
LEMMA NoteSpecSwap ==
  ASSUME TypeOK, SwapInv, NEW v \in Versions, NoteSpec(v), UNCHANGED <<node, go, used>>
  PROVE  SwapInv'
<1> SUFFICES ASSUME Tracked' PROVE SwapInv'
  BY DEF SwapInv
<1>1. /\ Tracked /\ ~orphaned' /\ currentSpec' = v /\ v # None
      /\ ClearNodeStatus \/ (UNCHANGED nodeStatus /\ currentSpec \in {None, v})
  BY ForgetEffect, ConstantsAssumption DEF NoteSpec, Tracked
<1>2. CASE ClearNodeStatus
  <2>1. \A n \in Nodes : nodeStatus'[n] = "Empty"
    BY <1>2 DEF ClearNodeStatus
  <2>2. \A g \in Goroutines : ~Active(g)
    BY <1>1, <1>2, Zenon DEF ClearNodeStatus, LeaveBehind
  <2> QED
    BY <2>1, <2>2 DEF SwapInv, Active
<1>3. CASE UNCHANGED nodeStatus /\ currentSpec = None
  <2>1. \A g \in Goroutines : ~Active(g)
    BY <1>1, <1>3, ConstantsAssumption DEF SwapInv, GoSwapInv, TypeOK
  <2> QED
    BY <1>1, <1>3, <2>1 DEF SwapInv, Active
<1>4. CASE UNCHANGED nodeStatus /\ currentSpec = v
  <2>1. ASSUME NEW g \in Goroutines, Active(g) PROVE GoSwapInv(g)'
    BY <1>1, <1>4, <2>1 DEF SwapInv, GoSwapInv
  <2> QED
    BY <1>1, <1>4, <2>1 DEF SwapInv, Active
<1> QED
  BY <1>1, <1>2, <1>3, <1>4

LEMMA BeginPassCordon ==
  ASSUME CordonInv, NEW d \in DCs, BeginPass(d)
  PROVE  CordonInv'
<1>0. /\ TypeOK /\ UpgradeInv' /\ DeleteInv /\ FirstInv /\ SeenInv /\ SwapInv
      /\ TaintInv /\ RebootInv /\ dcOf \in [Nodes -> DCs]
  BY BeginPassInv, ConstantsAssumption DEF CordonInv, UpgradeInv
<1>1. /\ UNCHANGED <<dc, cr, node, bootID, go, owesReboot, used>> /\ inited' = TRUE
      /\ pass.pc = "idle" /\ dc[d].phase = "present"
      /\ ClearNodeStatus \/ UNCHANGED <<nodeStatus, orphaned>>
      /\ IF inited THEN NoteSpec(dc[d].spec)
                   ELSE UNCHANGED <<nodeStatus, orphaned, currentSpec>>
  BY DEF BeginPass, NoteSpec
<1>2. /\ pass'.pc = (IF inited THEN "visit" ELSE "init")
      /\ pass'.dc = d /\ pass'.spec = dc[d].spec /\ pass'.cand = {}
      /\ pass'.seen = [n \in Nodes |-> SeenOf(n)]
  <2>1. pass' = [NoPass EXCEPT
                   !.pc = IF inited THEN "visit" ELSE "init",
                   !.dc = d, !.spec = dc[d].spec,
                   !.seen = [n \in Nodes |-> SeenOf(n)],
                   !.todo = {n \in NodesOf(d) : inited \/ cr[n].has}]
    BY DEF BeginPass
  <2> QED
    BY <2>1 DEF NoPass
<1>3. \A n \in Nodes : /\ pass'.seen[n].label = node[n].label
                       /\ pass'.seen[n].taint = node[n].taint
                       /\ pass'.seen[n].boot = node[n].boot
  BY <1>2 DEF SeenOf
<1>4. ~orphaned' => /\ ~orphaned
                    /\ \/ UNCHANGED nodeStatus
                       \/ /\ \A n \in Nodes : nodeStatus'[n] = "Empty"
                          /\ \A g \in Goroutines : ~Active(g)
  BY <1>1, ForgetEffect
<1>5. (Tracked' => Tracked) /\ (Calm' => Calm)
  BY <1>1, <1>4 DEF Tracked, Calm
<1>6. DeleteInv'
  BY <1>0, <1>1, <1>2, <1>4 DEF DeleteInv, AtWork, Active, InPass
<1>7. FirstInv'
  BY <1>0, <1>1, <1>2, <1>5 DEF FirstInv, Active
<1>8. SeenInv'
  <2>1. pass'.pc # "init" => pass'.spec = currentSpec'
    BY <1>1, <1>2 DEF NoteSpec
  <2> QED
    BY <1>1, <1>2, <1>3, <2>1 DEF SeenInv, NodesOf, InPass
<1>9. SwapInv'
  <2>1. CASE inited
    <3>1. dc[d].spec \in Versions
      BY <1>0 DEF TypeOK, DeviceConfig
    <3> QED
      BY <1>0, <1>1, <2>1, <3>1, NoteSpecSwap
  <2>2. CASE ~inited
    BY <1>0, <1>1, <1>5, <2>2 DEF SwapInv, GoSwapInv, Active
  <2> QED
    BY <2>1, <2>2
<1>10. TaintInv'
  <2> SUFFICES ASSUME Calm' PROVE TaintInv'
    BY DEF TaintInv
  <2>1. Calm /\ ~orphaned'
    BY <1>5 DEF Calm, Tracked
  <2>2. ASSUME NEW n \in Nodes, dc[dcOf[n]].phase = "present" PROVE NodeTaintInv(n)'
    <3>1. NodeTaintInv(n)
      BY <1>0, <2>1, <2>2 DEF TaintInv
    <3>2. nodeStatus'[n] \in {nodeStatus[n], "Empty"}
      BY <1>4, <2>1
    <3> QED
      BY <1>1, <1>2, <1>3, <3>1, <3>2 DEF NodeTaintInv, DoneStates, InPass
  <2>3. ASSUME NEW g \in Goroutines, Active(g), dc[dcOf[go[g].node]].phase = "present"
        PROVE  GoTaintInv(g)'
    BY <1>0, <1>1, <2>1, <2>3 DEF TaintInv, GoTaintInv
  <2> QED
    BY <1>1, <2>2, <2>3 DEF TaintInv, Active
<1>11. RebootInv'
  <2> SUFFICES ASSUME Calm', ~CanGiveUp PROVE RebootInv'
    BY DEF RebootInv
  <2>1. Calm
    BY <1>5
  <2>2. ASSUME NEW n \in Nodes PROVE NodeRebootInv(n)'
    BY <1>0, <1>1, <1>3, <2>1 DEF RebootInv, NodeRebootInv
  <2>3. ASSUME NEW g \in Goroutines, Active(g) PROVE GoRebootInv(g)'
    BY <1>0, <1>1, <2>1, <2>3 DEF RebootInv, GoRebootInv
  <2> QED
    BY <1>1, <2>2, <2>3 DEF RebootInv, Active
<1> QED
  BY <1>0, <1>6, <1>7, <1>8, <1>9, <1>10, <1>11 DEF CordonInv

---------------------------------------------------------------------------
\* initInternalNodeStates keeps the invariant

\* A step of it but for the last one.  Goroutines it starts are for nodes of the
\* DeviceConfig, and it starts none for a node that was in no upgrade.
LEMMA InitEntryEffect ==
  ASSUME UpgradeInv, InitStep, ~EndInit
  PROVE  /\ pass.pc = "init" /\ pass'.pc = "init" /\ pass'.dc = pass.dc
         /\ pass'.spec = pass.spec /\ pass'.seen = pass.seen /\ pass'.cand = pass.cand
         /\ pass'.todo \subseteq pass.todo
         /\ UNCHANGED <<dc, cr, node, inited, currentSpec, owesReboot>>
         /\ used'.restarts = used.restarts
         /\ used'.faults = 0 => used.faults = 0
         /\ ~orphaned' => ~orphaned
         /\ \A h \in Goroutines : go'[h] = go[h] \/ go'[h].node \in NodesOf(pass.dc)
         /\ (\A n \in Nodes : cr[n].status \notin BusyStates) =>
              /\ UNCHANGED <<bootID, go, orphaned, used>>
              /\ \A n \in Nodes : nodeStatus'[n] \in {nodeStatus[n], cr[n].status}
<1>0. /\ TypeOK /\ InitInv /\ pass \in Pass /\ used \in Used
      /\ nodeStatus \in [Nodes -> UpgradeState]
  BY DEF UpgradeInv, TypeOK
<1> DEFINE Locals == /\ pass'.pc = pass.pc /\ pass'.dc = pass.dc /\ pass'.spec = pass.spec
                     /\ pass'.seen = pass.seen /\ pass'.cand = pass.cand
                     /\ pass'.todo \subseteq pass.todo
           Frame == /\ pass.pc = "init"
                    /\ UNCHANGED <<dc, cr, node, inited, currentSpec, owesReboot>>
           Count == /\ used'.restarts = used.restarts
                    /\ used'.faults = 0 => used.faults = 0
           Starts == \A h \in Goroutines : go'[h] = go[h] \/ go'[h].node \in NodesOf(pass.dc)
           Quiet == (\A n \in Nodes : cr[n].status \notin BusyStates) =>
                      /\ UNCHANGED <<bootID, go, orphaned, used>>
                      /\ \A n \in Nodes : nodeStatus'[n] \in {nodeStatus[n], cr[n].status}
           Result == Frame /\ Locals /\ Count /\ (~orphaned' => ~orphaned) /\ Starts /\ Quiet
<1>1. ASSUME NEW n \in Nodes, Initialised(n) PROVE Locals
  BY <1>0, <1>1 DEF Initialised, Pass
<1>2. ASSUME Fault \/ NoFault PROVE Count
  BY <1>0, <1>2, FaultShows
<1>3. ASSUME NEW n \in NodesOf(pass.dc), NEW g \in Goroutines, NEW pc, NEW t, NEW b,
             Spawn(g, pc, n, t, b)
      PROVE  Starts
  BY <1>0, <1>3, SpawnEffect
<1>4. UNCHANGED go => Starts
  OBVIOUS
<1>5. ASSUME NEW n \in Nodes, NEW S, InitEntry(n, S)
      PROVE  Frame /\ n \in NodesOf(pass.dc) /\ cr[n].status \in S
  BY <1>0, <1>5 DEF InitEntry, InitInv, manager
<1>6. ASSUME NEW n \in Nodes, NEW s, SetStatus(n, s)
      PROVE  nodeStatus'[n] = s /\ \A m \in Nodes \ {n} : nodeStatus'[m] = nodeStatus[m]
  BY <1>0, <1>6 DEF SetStatus
<1>7. ASSUME NEW n \in Nodes, cr[n].status \in BusyStates PROVE Quiet
  BY <1>7
<1> HIDE DEF Locals, Frame, Count, Starts, Quiet
<1>8. ASSUME NEW n \in Nodes, InitCopy(n) PROVE Result
  <2>1. \A m \in Nodes : nodeStatus'[m] \in {nodeStatus[m], cr[m].status}
    BY <1>6, <1>8 DEF InitCopy
  <2>2. Quiet
    BY <1>8, <2>1 DEF Quiet, InitCopy
  <2> QED
    BY <1>1, <1>2, <1>4, <1>5, <1>8, <2>2 DEF InitCopy, NoFault
<1>9. ASSUME NEW n \in Nodes, InitStartedNoReboot(n) PROVE Result
  <2>1. Frame /\ n \in NodesOf(pass.dc) /\ Quiet
    BY <1>5, <1>7, <1>9 DEF InitStartedNoReboot, BusyStates
  <2> QED
    BY <1>1, <1>2, <1>3, <1>9, <2>1 DEF InitStartedNoReboot, NoFault
<1>10. ASSUME NEW n \in Nodes, InitStartedReboot(n) PROVE Result
  <2>1. Frame /\ n \in NodesOf(pass.dc) /\ Quiet
    BY <1>5, <1>7, <1>10 DEF InitStartedReboot, BusyStates
  <2>2. PICK g \in Goroutines :
          /\ Spawn(g, "rbBegin", n, FALSE, node[n].boot)
          /\ pass' = [pass EXCEPT !.todo = @ \ {n}, !.sync = g]
    BY <1>10 DEF InitStartedReboot
  <2>3. Locals
    BY <1>0, <2>2 DEF Locals, Pass
  <2> QED
    BY <1>2, <1>3, <1>10, <2>1, <2>2, <2>3 DEF InitStartedReboot, NoFault
<1>11. ASSUME NEW n \in Nodes, InitStartedRebooted(n) PROVE Result
  <2>1. Frame /\ n \in NodesOf(pass.dc) /\ Quiet
    BY <1>5, <1>7, <1>11 DEF InitStartedRebooted, BusyStates
  <2> QED
    BY <1>1, <1>2, <1>3, <1>11, <2>1 DEF InitStartedRebooted, NoFault
<1>12. ASSUME NEW n \in Nodes, InitStartedSkip(n) PROVE Result
  <2>1. Frame /\ n \in NodesOf(pass.dc) /\ Quiet
    BY <1>5, <1>7, <1>12 DEF InitStartedSkip, BusyStates
  <2> QED
    BY <1>1, <1>2, <1>4, <1>12, <2>1 DEF InitStartedSkip
<1>13. ASSUME NEW n \in Nodes, InitRebootInProgress(n) PROVE Result
  <2>1. Frame /\ n \in NodesOf(pass.dc) /\ Quiet
    BY <1>5, <1>7, <1>13 DEF InitRebootInProgress, BusyStates
  <2>2. Starts
    BY <1>3, <1>4, <1>13, <2>1 DEF InitRebootInProgress
  <2> QED
    BY <1>1, <1>2, <1>13, <2>1, <2>2 DEF InitRebootInProgress, NoFault
<1>14. ASSUME InitRebootDone PROVE Result
  <2>1. /\ pass.pc = "init" /\ pass' = [pass EXCEPT !.sync = 0]
        /\ UNCHANGED <<dc, cr, node, nodeStatus, bootID, inited, currentSpec, go,
                       orphaned, owesReboot, used>>
    BY <1>14 DEF InitRebootDone, memory, manager, history
  <2>2. Locals
    BY <1>0, <2>1 DEF Locals, Pass
  <2>3. Frame /\ Count /\ Quiet
    BY <2>1 DEF Frame, Count, Quiet
  <2> QED
    BY <1>4, <2>1, <2>2, <2>3
<1>15. Result
  BY <1>8, <1>9, <1>10, <1>11, <1>12, <1>13, <1>14 DEF InitStep
<1> QED
  BY <1>15 DEF Locals, Frame, Count, Starts, Quiet

LEMMA InitEntryCordon ==
  ASSUME CordonInv, InitStep, ~EndInit
  PROVE  CordonInv'
<1>0. /\ TypeOK /\ UpgradeInv /\ UpgradeInv' /\ DeleteInv /\ FirstInv /\ SeenInv
      /\ SwapInv /\ TaintInv /\ RebootInv
  BY InitStepInv DEF CordonInv, UpgradeInv
<1>1. /\ pass.pc = "init" /\ pass'.pc = "init" /\ pass'.dc = pass.dc
      /\ pass'.spec = pass.spec /\ pass'.seen = pass.seen /\ pass'.cand = pass.cand
      /\ pass'.todo \subseteq pass.todo
      /\ UNCHANGED <<dc, cr, node, inited, currentSpec, owesReboot>>
      /\ used'.restarts = used.restarts
      /\ used'.faults = 0 => used.faults = 0
      /\ ~orphaned' => ~orphaned
      /\ \A h \in Goroutines : go'[h] = go[h] \/ go'[h].node \in NodesOf(pass.dc)
      /\ (\A n \in Nodes : cr[n].status \notin BusyStates) =>
           /\ UNCHANGED <<bootID, go, orphaned, used>>
           /\ \A n \in Nodes : nodeStatus'[n] \in {nodeStatus[n], cr[n].status}
  BY <1>0, InitEntryEffect
<1>2. (Tracked' => Tracked) /\ (Calm' => Calm)
  BY <1>1 DEF Tracked, Calm
<1>3. DeleteInv'
  <2> SUFFICES ASSUME ~orphaned', NEW n \in Nodes,
                      dc[dcOf[n]].phase \in {"finalizing", "gone"}
               PROVE  ~AtWork(n)' /\ pass.dc # dcOf[n]
    BY <1>1 DEF DeleteInv
  <2>1. ~AtWork(n) /\ pass.dc # dcOf[n]
    BY <1>0, <1>1 DEF DeleteInv, InPass
  <2>2. n \notin NodesOf(pass.dc)
    BY <2>1 DEF NodesOf
  <2> QED
    BY <1>1, <2>1, <2>2 DEF AtWork, Active
\* In the first pass of all nothing is in an upgrade yet
<1>4. ASSUME Tracked
      PROVE  /\ \A n \in Nodes : /\ nodeStatus'[n] \notin BusyStates /\ ~node[n].taint
                                 /\ nodeStatus[n] \notin BusyStates
             /\ \A g \in Goroutines : ~Active(g) /\ ~Active(g)'
             /\ UNCHANGED <<bootID, go, orphaned, used>>
  <2>1. /\ \A n \in Nodes : /\ cr[n].status \notin BusyStates /\ ~node[n].taint
                            /\ nodeStatus[n] \notin BusyStates
        /\ \A g \in Goroutines : ~Active(g)
    BY <1>0, <1>1, <1>4 DEF FirstInv
  <2> QED
    BY <1>1, <2>1 DEF Active
<1>5. FirstInv'
  BY <1>0, <1>1, <1>2, <1>4 DEF FirstInv
<1>6. SeenInv'
  BY <1>0, <1>1, <1>2 DEF SeenInv, NodesOf, InPass
<1>7. SwapInv'
  BY <1>1, <1>2, <1>4 DEF SwapInv, BusyStates
<1>8. TaintInv'
  <2> SUFFICES ASSUME Calm', Calm, Tracked PROVE TaintInv'
    BY <1>2 DEF TaintInv, Calm
  <2>1. ASSUME NEW n \in Nodes, dc[dcOf[n]].phase = "present" PROVE NodeTaintInv(n)'
    <3>1. NodeTaintInv(n)
      BY <1>0, <2>1 DEF TaintInv
    <3> QED
      BY <1>1, <1>4, <3>1 DEF NodeTaintInv, InPass
  <2> QED
    BY <1>1, <1>4, <2>1 DEF TaintInv
<1>9. RebootInv'
  <2> SUFFICES ASSUME Calm, Tracked, ~CanGiveUp PROVE RebootInv'
    BY <1>2 DEF RebootInv, Calm
  <2>1. ASSUME NEW n \in Nodes PROVE NodeRebootInv(n)'
    <3>1. NodeRebootInv(n)
      BY <1>0 DEF RebootInv
    <3> QED
      BY <1>1, <1>4, <3>1 DEF NodeRebootInv, InPass
  <2> QED
    BY <1>4, <2>1 DEF RebootInv
<1> QED
  BY <1>0, <1>3, <1>5, <1>6, <1>7, <1>8, <1>9 DEF CordonInv

LEMMA EndInitCordon ==
  ASSUME CordonInv, EndInit
  PROVE  CordonInv'
<1>0. /\ TypeOK /\ UpgradeInv' /\ DeleteInv /\ FirstInv /\ SeenInv
      /\ SwapInv /\ TaintInv /\ RebootInv /\ InitInv /\ StartInv /\ pass \in Pass
  BY InitStepInv DEF CordonInv, UpgradeInv, InitStep, TypeOK
<1>1. /\ UNCHANGED <<dc, cr, node, bootID, inited, go, owesReboot, used>>
      /\ pass.pc = "init" /\ NoteSpec(pass.spec)
      /\ ClearNodeStatus \/ UNCHANGED <<nodeStatus, orphaned>>
  BY DEF EndInit, NoteSpec
<1>2. /\ pass'.pc = "visit" /\ pass'.dc = pass.dc /\ pass'.spec = pass.spec
      /\ pass'.cand = {} /\ pass'.seen = pass.seen
  BY <1>0, <1>1 DEF EndInit, Pass, InitInv
<1>3. ~orphaned' => /\ ~orphaned
                    /\ \/ UNCHANGED nodeStatus
                       \/ /\ \A n \in Nodes : nodeStatus'[n] = "Empty"
                          /\ \A g \in Goroutines : ~Active(g)
  BY <1>1, ForgetEffect
<1>4. (Tracked' => Tracked) /\ (Calm' => Calm)
  BY <1>1, <1>3 DEF Tracked, Calm
<1>5. DeleteInv'
  BY <1>0, <1>1, <1>2, <1>3 DEF DeleteInv, AtWork, Active, InPass
<1>6. FirstInv'
  BY <1>0, <1>1, <1>2 DEF FirstInv, StartInv
<1>7. SeenInv'
  BY <1>0, <1>1, <1>2, <1>4 DEF SeenInv, NodesOf, NoteSpec, InPass
<1>8. SwapInv'
  BY <1>0, <1>1, NoteSpecSwap DEF TypeOK
<1>9. ASSUME Tracked
      PROVE  /\ \A n \in Nodes : ~node[n].taint /\ nodeStatus[n] \notin BusyStates
             /\ \A g \in Goroutines : ~Active(g) /\ ~Active(g)'
  BY <1>0, <1>1, <1>9 DEF FirstInv, Active
<1>10. TaintInv'
  <2> SUFFICES ASSUME Calm, Tracked PROVE TaintInv'
    BY <1>4 DEF TaintInv, Calm
  <2>1. ASSUME NEW n \in Nodes, dc[dcOf[n]].phase = "present" PROVE NodeTaintInv(n)'
    <3>1. NodeTaintInv(n)
      BY <1>0, <2>1 DEF TaintInv
    <3> QED
      BY <1>1, <1>2, <1>9, <3>1 DEF NodeTaintInv, InPass
  <2> QED
    BY <1>1, <1>9, <2>1 DEF TaintInv
<1>11. RebootInv'
  <2> SUFFICES ASSUME Calm, Tracked, ~CanGiveUp PROVE RebootInv'
    BY <1>4 DEF RebootInv, Calm
  <2>1. ASSUME NEW n \in Nodes PROVE NodeRebootInv(n)'
    <3>1. NodeRebootInv(n)
      BY <1>0 DEF RebootInv
    <3> QED
      BY <1>1, <1>2, <1>9, <3>1 DEF NodeRebootInv, InPass
  <2> QED
    BY <1>9, <2>1 DEF RebootInv
<1> QED
  BY <1>0, <1>5, <1>6, <1>7, <1>8, <1>10, <1>11 DEF CordonInv

---------------------------------------------------------------------------
\* Selection and the end of the pass keep the invariant

LEMMA StartNodeCordon ==
  ASSUME CordonInv, NEW n \in Nodes, StartNode(n)
  PROVE  CordonInv'
<1>0. /\ TypeOK /\ UpgradeInv' /\ DeleteInv /\ FirstInv /\ SeenInv /\ StartInv
      /\ SwapInv /\ TaintInv /\ RebootInv /\ LoopInv /\ pass \in Pass
      /\ nodeStatus \in [Nodes -> UpgradeState]
  BY StartNodeInv DEF CordonInv, UpgradeInv, TypeOK
<1>1. /\ pass.pc = "select" /\ n \in pass.cand
      /\ UNCHANGED <<dc, cr, node, bootID, inited, currentSpec, orphaned, owesReboot, used>>
  BY DEF StartNode, FirstOf, manager, history
<1>2. /\ pass'.pc = "select" /\ pass'.dc = pass.dc /\ pass'.spec = pass.spec
      /\ pass'.seen = pass.seen /\ pass'.todo = pass.todo /\ pass'.cand = pass.cand \ {n}
  BY <1>0, <1>1 DEF StartNode, Pass
<1>3. PICK g \in Goroutines : Spawn(g, "hnuCheck", n, pass.seen[n].taint, pass.seen[n].boot)
  BY DEF StartNode
<1>4. /\ go'[g].pc = "hnuCheck" /\ go'[g].node = n /\ go'[g].spec = pass.spec
      /\ go'[g].taint = pass.seen[n].taint /\ go'[g].boot = pass.seen[n].boot
      /\ ~Active(g) /\ \A h \in Goroutines \ {g} : go'[h] = go[h]
  BY <1>0, <1>3 DEF Spawn, TypeOK
<1>5. /\ nodeStatus'[n] = "Started"
      /\ \A m \in Nodes \ {n} : nodeStatus'[m] = nodeStatus[m]
  BY <1>0 DEF StartNode, SetStatus
<1>6. (Tracked' <=> Tracked) /\ (Calm' <=> Calm)
  BY <1>1 DEF Tracked, Calm
<1>7. ~orphaned => n \in NodesOf(pass.dc) /\ dcOf[n] = pass.dc
  BY <1>0, <1>1 DEF LoopInv, NodesOf
<1>8. DeleteInv'
  <2> SUFFICES ASSUME ~orphaned, NEW m \in Nodes,
                      dc[dcOf[m]].phase \in {"finalizing", "gone"}
               PROVE  ~AtWork(m)' /\ pass.dc # dcOf[m]
    BY <1>1, <1>2 DEF DeleteInv
  <2>1. ~AtWork(m) /\ pass.dc # dcOf[m]
    BY <1>0, <1>1 DEF DeleteInv, InPass
  <2> QED
    BY <1>4, <1>7, <2>1 DEF AtWork, Active
<1>9. FirstInv'
  BY <1>0, <1>1, <1>2 DEF FirstInv, StartInv
<1>10. SeenInv'
  BY <1>0, <1>1, <1>2, <1>6 DEF SeenInv, NodesOf, InPass
<1>11. ASSUME Tracked
       PROVE  /\ pass.spec = currentSpec /\ node[n].label # None
              /\ pass.seen[n].taint => node[n].taint
  BY <1>0, <1>1, <1>7, <1>11 DEF SeenInv, Tracked, InPass
<1>12. SwapInv'
  <2> SUFFICES ASSUME Tracked PROVE SwapInv'
    BY <1>6 DEF SwapInv
  <2>1. GoSwapInv(g)'
    BY <1>1, <1>4, <1>11 DEF GoSwapInv
  <2>2. ASSUME NEW h \in Goroutines \ {g}, Active(h)' PROVE GoSwapInv(h)'
    <3>1. Active(h) /\ go'[h] = go[h]
      BY <1>4, <2>2 DEF Active
    <3> QED
      BY <1>0, <1>1, <3>1 DEF SwapInv, GoSwapInv
  <2>3. \A m \in Nodes : nodeStatus'[m] = "InProgress" =>
          node[m].label = currentSpec /\ currentSpec # None
    BY <1>0, <1>5 DEF SwapInv
  <2> QED
    BY <1>1, <2>1, <2>2, <2>3 DEF SwapInv
<1>13. TaintInv'
  <2> SUFFICES ASSUME Calm, Tracked PROVE TaintInv'
    BY <1>6 DEF TaintInv, Calm
  <2>1. ASSUME NEW m \in Nodes, dc[dcOf[m]].phase = "present" PROVE NodeTaintInv(m)'
    <3>1. NodeTaintInv(m)
      BY <1>0, <2>1 DEF TaintInv
    <3>2. nodeStatus'[m] \in {nodeStatus[m], "Started"}
      BY <1>5
    <3> QED
      BY <1>1, <1>2, <3>1, <3>2 DEF NodeTaintInv, DoneStates, InPass
  <2>2. ASSUME dc[dcOf[n]].phase = "present" PROVE GoTaintInv(g)'
    <3>1. NodeTaintInv(n)
      BY <1>0, <2>2 DEF TaintInv
    <3>2. pass.spec # None
      BY <1>0, <1>1, ConstantsAssumption DEF TypeOK
    <3>3. cr[n].image # pass.spec
      BY <1>1, <3>1 DEF NodeTaintInv
    <3>4. ~node[n].taint /\ node[n].label # pass.spec => node[n].nmc # pass.spec
      BY <1>1, <3>1, <3>2, <3>3 DEF NodeTaintInv
    <3> QED
      BY <1>1, <1>4, <3>3, <3>4 DEF GoTaintInv
  <2>3. ASSUME NEW h \in Goroutines \ {g}, Active(h)', dc[dcOf[go'[h].node]].phase = "present"
        PROVE  GoTaintInv(h)'
    <3>1. Active(h) /\ go'[h] = go[h]
      BY <1>4, <2>3 DEF Active
    <3> QED
      BY <1>0, <1>1, <2>3, <3>1 DEF TaintInv, GoTaintInv
  <2> QED
    BY <1>1, <1>4, <2>1, <2>2, <2>3 DEF TaintInv
<1>14. RebootInv'
  <2> SUFFICES ASSUME Calm, Tracked, ~CanGiveUp PROVE RebootInv'
    BY <1>6 DEF RebootInv, Calm
  <2>1. NodeRebootInv(n) /\ nodeStatus[n] \notin BusyStates
    BY <1>0, <1>1 DEF RebootInv, LoopInv, Tracked
  <2>2. pass.seen[n].boot = node[n].boot
    BY <1>1, <1>7, <2>1 DEF NodeRebootInv, Tracked, InPass
  <2>3. node[n].pod = "none"
    BY <2>1, AtWorkMarked DEF NodeRebootInv, Active, BusyStates
  <2>4. GoRebootInv(g)'
    BY <1>1, <1>4, <2>2, <2>3 DEF GoRebootInv
  <2>5. ASSUME NEW h \in Goroutines \ {g}, Active(h)' PROVE GoRebootInv(h)'
    <3>1. Active(h) /\ go'[h] = go[h]
      BY <1>4, <2>5 DEF Active
    <3> QED
      BY <1>0, <1>1, <3>1 DEF RebootInv, GoRebootInv
  <2>6. ASSUME NEW m \in Nodes PROVE NodeRebootInv(m)'
    <3>1. NodeRebootInv(m)
      BY <1>0 DEF RebootInv
    <3>2. \A h \in Goroutines :
            go[h].pc \in {"rbDriver", "rbWait", "rbMark", "dpBegin", "dpWait"} => go'[h] = go[h]
      BY <1>4 DEF Active
    <3>3. m # n => nodeStatus'[m] = nodeStatus[m]
      BY <1>5
    <3>4. nodeStatus'[n] \in BusyStates
      BY <1>5 DEF BusyStates
    <3> QED
      BY <1>1, <1>2, <3>1, <3>2, <3>3, <3>4 DEF NodeRebootInv, InPass
  <2> QED
    BY <2>4, <2>5, <2>6 DEF RebootInv
<1> QED
  BY <1>0, <1>8, <1>9, <1>10, <1>12, <1>13, <1>14 DEF CordonInv

\* The rest of the pass: the memory and the goroutines stay, version labels come
\* to nodes that had none, and the status may be published.
LEMMA AfterVisitCordon ==
  ASSUME CordonInv,
         EndVisit \/ EndSelect \/ HandleKMMVersionLabel \/ PublishStatus \/ ReconcileError
  PROVE  CordonInv'
<1>0. /\ TypeOK /\ UpgradeInv' /\ DeleteInv /\ FirstInv /\ SeenInv /\ StartInv
      /\ SwapInv /\ TaintInv /\ RebootInv /\ LoopInv /\ pass \in Pass /\ used \in Used
      /\ node \in [Nodes -> Node]
  BY PassStepInv DEF CordonInv, UpgradeInv, TypeOK, PassStep
<1> DEFINE Label(n) == dcOf[n] = pass.dc /\ pass.seen[n].label = None /\ pass.pc = "label"
<1>1. /\ UNCHANGED <<dc, nodeStatus, bootID, inited, currentSpec, go, orphaned, owesReboot>>
      /\ pass.pc \in {"visit", "select", "label", "publish"}
      /\ Fault \/ NoFault
  BY DEF EndVisit, EndSelect, HandleKMMVersionLabel, PublishStatus, ReconcileError,
         PassGoesTo, memory, manager, history, NoFault
<1>2. /\ used'.restarts = used.restarts
      /\ used'.faults = 0 => used.faults = 0
  BY <1>0, <1>1, FaultShows
<1>3. (Tracked' <=> Tracked) /\ (Calm' => Calm)
  BY <1>1, <1>2 DEF Tracked, Calm
<1>4. \A n \in Nodes :
        /\ node'[n].taint = node[n].taint /\ node'[n].nmc = node[n].nmc
        /\ node'[n].boot = node[n].boot /\ node'[n].pod = node[n].pod
        /\ node'[n].ready = node[n].ready
        /\ node'[n].label = node[n].label \/ (Label(n) /\ node'[n].label = pass.spec)
        /\ pass'.pc = "publish" /\ Label(n) => node'[n].label = pass.spec
  <2>1. CASE HandleKMMVersionLabel
    BY <1>0, <2>1 DEF HandleKMMVersionLabel, Node
  <2>2. CASE EndVisit \/ EndSelect
    BY <1>0, <2>2 DEF EndVisit, EndSelect, PassGoesTo, Pass
  <2>3. CASE PublishStatus \/ ReconcileError
    BY <1>0, <2>3, Records DEF PublishStatus, ReconcileError
  <2> QED
    BY <2>1, <2>2, <2>3
<1>5. \/ pass'.pc = "idle"
      \/ /\ UNCHANGED cr
         /\ pass'.pc \in {"select", "label", "publish"} /\ pass'.dc = pass.dc
         /\ pass'.spec = pass.spec /\ pass'.seen = pass.seen /\ pass'.todo = pass.todo
         /\ pass'.cand = pass.cand
         /\ pass.pc = "visit" => pass.todo = {} /\ pass'.pc = "select"
         /\ pass'.pc = "publish" <=> pass.pc = "label"
         /\ pass'.pc = "select" => pass.pc = "visit"
         /\ pass.pc # "publish"
  <2>1. CASE PublishStatus \/ ReconcileError
    BY <2>1, Records DEF PublishStatus, ReconcileError
  <2>2. CASE EndVisit \/ EndSelect \/ HandleKMMVersionLabel
    BY <1>0, <2>2 DEF EndVisit, EndSelect, HandleKMMVersionLabel, PassGoesTo, Pass
  <2> QED
    BY <2>1, <2>2
<1>6. Calm' => \A n \in Nodes :
        \/ /\ cr'[n] = cr[n]
           /\ pass'.pc # "idle" \/ dcOf[n] # pass.dc
        \/ cr'[n].has /\ cr'[n].image = node[n].nmc
  <2>1. CASE PublishStatus
    BY <2>1 DEF PublishStatus
  <2>2. CASE ReconcileError
    BY <1>0, <2>2, FaultShows DEF ReconcileError, Calm
  <2>3. CASE EndVisit \/ EndSelect \/ HandleKMMVersionLabel
    BY <1>0, <2>3 DEF EndVisit, EndSelect, HandleKMMVersionLabel, PassGoesTo, Pass
  <2> QED
    BY <2>1, <2>2, <2>3
<1>7. DeleteInv'
  BY <1>0, <1>1, <1>5 DEF DeleteInv, AtWork, Active, InPass
<1>8. FirstInv'
  BY <1>0, <1>1, <1>5 DEF FirstInv, StartInv
<1>9. pass.spec # None
  BY <1>0, <1>1, ConstantsAssumption DEF TypeOK
<1>10. SeenInv'
  <2> SUFFICES ASSUME Tracked, pass'.pc # "idle", InPass PROVE SeenInv'
    BY <1>1, <1>3 DEF SeenInv, InPass
  <2>1. ASSUME NEW n \in NodesOf(pass.dc)
        PROVE  /\ pass'.pc # "publish" /\ pass.seen[n].label = None => node'[n].label = None
               /\ pass.seen[n].label # None => node'[n].label # None
               /\ n \in pass.todo \cup pass.cand => (pass.seen[n].taint => node'[n].taint)
    BY <1>0, <1>1, <1>4, <1>5, <1>9 DEF SeenInv, NodesOf
  <2> QED
    BY <1>0, <1>1, <1>5, <2>1 DEF SeenInv, NodesOf, InPass
\* A node with a goroutine or in progress has a label
<1>11. ASSUME Tracked, NEW n \in Nodes, node[n].label # None
       PROVE  node'[n].label = node[n].label
  BY <1>0, <1>1, <1>4, <1>11 DEF SeenInv, NodesOf, InPass
<1>12. SwapInv'
  <2> SUFFICES ASSUME Tracked PROVE SwapInv'
    BY <1>3 DEF SwapInv
  <2>1. ASSUME NEW g \in Goroutines, Active(g) PROVE GoSwapInv(g)'
    <3>1. GoSwapInv(g) /\ go[g].node \in Nodes
      BY <1>0, <2>1 DEF SwapInv, TypeOK
    <3>2. node'[go[g].node].label = node[go[g].node].label
      BY <1>11, <3>1 DEF GoSwapInv
    <3> QED
      BY <1>1, <1>4, <3>1, <3>2 DEF GoSwapInv
  <2>2. \A n \in Nodes : nodeStatus[n] = "InProgress" =>
          node'[n].label = currentSpec /\ currentSpec # None
    BY <1>0, <1>11 DEF SwapInv
  <2> QED
    BY <1>1, <2>1, <2>2 DEF SwapInv, Active
<1>13. TaintInv'
  <2> SUFFICES ASSUME Calm', Calm, Tracked PROVE TaintInv'
    BY <1>3 DEF TaintInv, Calm
  <2>1. ASSUME NEW n \in Nodes, dc[dcOf[n]].phase = "present" PROVE NodeTaintInv(n)'
    <3>0. NodeTaintInv(n)
      BY <1>0, <2>1 DEF TaintInv
    <3>1. nodeStatus'[n] \in DoneStates => ~node'[n].taint
      BY <1>1, <1>4, <3>0 DEF NodeTaintInv
    <3>2. ~cr'[n].has => cr'[n].image = None
      BY <1>6, <3>0 DEF NodeTaintInv
    <3>3. ASSUME ~node'[n].taint, node'[n].nmc \notin {None, node'[n].label},
                 \/ pass'.pc \in {"idle", "init"} \/ pass'.dc # dcOf[n]
                 \/ n \in pass'.todo \cup pass'.cand
          PROVE  cr'[n].image = node[n].nmc
      <4>1. CASE cr'[n].image = node[n].nmc
        BY <4>1
      <4>2. CASE cr'[n] = cr[n] /\ (pass'.pc # "idle" \/ dcOf[n] # pass.dc)
        <5>1. dcOf[n] # pass.dc \/ n \in pass.todo \cup pass.cand
          BY <1>5, <3>3, <4>2
        <5>2. node'[n].label = node[n].label
          <6>1. CASE dcOf[n] # pass.dc
            BY <1>4, <6>1
          <6>2. CASE dcOf[n] = pass.dc /\ n \in pass.cand
            BY <1>0, <1>1, <1>4, <6>2 DEF SeenInv, InPass
          <6>3. CASE n \in pass.todo
            BY <1>0, <1>1, <1>4, <6>3 DEF SeenInv, InPass
          <6> QED
            BY <5>1, <6>1, <6>2, <6>3
        <5> QED
          BY <1>4, <3>0, <3>3, <4>2, <5>1, <5>2 DEF NodeTaintInv
      <4> QED
        BY <1>6, <4>1, <4>2
    <3>4. pass'.pc # "visit"
      BY <1>5
    <3>5. ASSUME pass'.pc = "select", n \in pass'.cand PROVE cr'[n].image # pass'.spec
      BY <1>5, <3>0, <3>5 DEF NodeTaintInv
    <3> QED
      BY <1>4, <1>5, <3>1, <3>2, <3>3, <3>4, <3>5 DEF NodeTaintInv, InPass
  <2>2. ASSUME NEW g \in Goroutines, Active(g), dc[dcOf[go[g].node]].phase = "present"
        PROVE  GoTaintInv(g)'
    <3>1. GoTaintInv(g) /\ GoSwapInv(g) /\ go[g].node \in Nodes
      BY <1>0, <2>2 DEF TaintInv, SwapInv, TypeOK
    <3>2. node'[go[g].node].label = node[go[g].node].label
      BY <1>11, <3>1 DEF GoSwapInv
    <3>3. cr'[go[g].node].image \in {cr[go[g].node].image, node[go[g].node].nmc}
      BY <1>6, <3>1
    <3> QED
      BY <1>1, <1>4, <3>1, <3>2, <3>3 DEF GoTaintInv
  <2> QED
    BY <1>1, <2>1, <2>2 DEF TaintInv, Active
<1>14. RebootInv'
  <2> SUFFICES ASSUME Calm, ~CanGiveUp PROVE RebootInv'
    BY <1>3 DEF RebootInv
  <2>1. ASSUME NEW n \in Nodes PROVE NodeRebootInv(n)'
    <3>1. NodeRebootInv(n)
      BY <1>0 DEF RebootInv
    <3> QED
      BY <1>1, <1>4, <1>5, <3>1 DEF NodeRebootInv, InPass
  <2>2. ASSUME NEW g \in Goroutines, Active(g) PROVE GoRebootInv(g)'
    <3>1. GoRebootInv(g) /\ go[g].node \in Nodes
      BY <1>0, <2>2 DEF RebootInv, TypeOK
    <3> QED
      BY <1>1, <1>4, <3>1 DEF GoRebootInv
  <2> QED
    BY <1>1, <2>1, <2>2 DEF RebootInv, Active
<1> QED
  BY <1>0, <1>7, <1>8, <1>10, <1>12, <1>13, <1>14 DEF CordonInv

---------------------------------------------------------------------------
\* Deletion keeps the invariant

\* A step of a deletion leaves the other DeviceConfigs and their nodes as they are;
\* while no goroutine was left behind, there is none when it happens.
Deletion ==
  /\ UNCHANGED <<inited, currentSpec, go, owesReboot>>
  /\ pass'.pc \in {"idle", "delete", "finalize"}
  /\ used'.restarts = used.restarts
  /\ used'.faults = 0 => used.faults = 0
  /\ ~orphaned' => /\ ~orphaned /\ \A g \in Goroutines : ~Active(g)
                   /\ \A n \in Nodes : /\ nodeStatus'[n] \in {nodeStatus[n], "Empty"}
                                        /\ \/ node'[n].label = node[n].label
                                           \/ nodeStatus'[n] = "Empty"
                   /\ pass'.pc = "finalize" => \A n \in Nodes : nodeStatus'[n] = "Empty"
                   /\ pass'.pc \in {"delete", "finalize"} =>
                        pass'.todo \subseteq NodesOf(pass'.dc) /\ dc'[pass'.dc].phase # "present"
                   /\ \A n \in Nodes : dc'[dcOf[n]].phase = "present" =>
                        /\ dc[dcOf[n]].phase = "present" /\ cr'[n] = cr[n]
                        /\ node'[n].taint = node[n].taint /\ node'[n].label = node[n].label
                        /\ node'[n].nmc = node[n].nmc
  /\ \A n \in Nodes : /\ cr'[n] \in {cr[n], NoStatus}
                      /\ node'[n].taint => node[n].taint
                      /\ node'[n].boot = node[n].boot /\ node'[n].ready = node[n].ready
                      /\ node'[n].pod \in {node[n].pod, "none"}

LEMMA DeletionCordon ==
  ASSUME CordonInv, UpgradeInv', Deletion, pass.pc \in {"idle", "delete", "finalize"}
  PROVE  CordonInv'
<1>0. /\ DeleteInv /\ FirstInv /\ SwapInv /\ TaintInv /\ RebootInv
  BY DEF CordonInv
<1>1. /\ Tracked' => Tracked /\ ~orphaned'
      /\ Calm' => Calm /\ ~orphaned'
  BY DEF Tracked, Calm, Deletion
<1>2. ~orphaned' => \A g \in Goroutines : ~Active(g) /\ ~Active(g)'
  BY DEF Deletion, Active
<1>3. DeleteInv'
  BY <1>2 DEF DeleteInv, Deletion, AtWork, InPass
<1>4. FirstInv'
  <2> SUFFICES ASSUME Tracked', Tracked, ~orphaned', ~inited PROVE FirstInv'
    BY <1>1 DEF FirstInv, Deletion
  <2>1. ASSUME NEW n \in Nodes
        PROVE  cr'[n].status \notin BusyStates /\ nodeStatus'[n] \notin BusyStates
               /\ ~node'[n].taint
    <3>1. /\ cr[n].status \notin BusyStates /\ nodeStatus[n] \notin BusyStates
          /\ ~node[n].taint
      BY <1>0 DEF FirstInv
    <3>2. NoStatus.status \notin BusyStates /\ "Empty" \notin BusyStates
      BY DEF NoStatus, BusyStates
    <3> QED
      BY <3>1, <3>2 DEF Deletion
  <2> QED
    BY <1>2, <2>1 DEF FirstInv
<1>5. SeenInv'
  BY DEF SeenInv, Deletion, InPass
<1>6. SwapInv'
  <2> SUFFICES ASSUME Tracked, ~orphaned' PROVE SwapInv'
    BY <1>1 DEF SwapInv
  <2>1. \A n \in Nodes : nodeStatus'[n] = "InProgress" =>
          node'[n].label = currentSpec' /\ currentSpec' # None
    BY <1>0 DEF SwapInv, Deletion
  <2> QED
    BY <1>2, <2>1 DEF SwapInv
<1>7. TaintInv'
  <2> SUFFICES ASSUME Calm, ~orphaned' PROVE TaintInv'
    BY <1>1 DEF TaintInv
  <2>1. ASSUME NEW n \in Nodes, dc'[dcOf[n]].phase = "present" PROVE NodeTaintInv(n)'
    <3>1. NodeTaintInv(n)
      BY <1>0, <2>1 DEF TaintInv, Deletion
    <3> QED
      BY <2>1, <3>1 DEF NodeTaintInv, DoneStates, Deletion, InPass
  <2> QED
    BY <1>2, <2>1 DEF TaintInv
<1>8. RebootInv'
  <2> SUFFICES ASSUME Calm, ~orphaned', ~CanGiveUp PROVE RebootInv'
    BY <1>1 DEF RebootInv
  <2>1. ASSUME NEW n \in Nodes PROVE NodeRebootInv(n)'
    <3>1. NodeRebootInv(n)
      BY <1>0 DEF RebootInv
    <3>2. node[n].pod = "none" /\ ~owesReboot[n] /\ node[n].ready
      BY <1>2, <3>1 DEF NodeRebootInv, Active
    <3>3. node'[n].pod = "none" /\ node'[n].ready /\ ~owesReboot'[n] /\ ~InPass'
      BY <3>2 DEF Deletion, InPass
    <3> QED
      BY <3>3 DEF NodeRebootInv
  <2> QED
    BY <1>2, <2>1 DEF RebootInv
<1> QED
  BY <1>3, <1>4, <1>5, <1>6, <1>7, <1>8 DEF CordonInv

LEMMA BeginDeleteCordon ==
  ASSUME CordonInv, NEW d \in DCs, BeginDelete(d)
  PROVE  CordonInv'
<1>0. /\ UpgradeInv' /\ node \in [Nodes -> Node] /\ pass.pc = "idle"
  BY BeginDeleteInv DEF CordonInv, UpgradeInv, TypeOK, BeginDelete
<1>1. /\ pass'.pc = "delete" /\ pass'.dc = d /\ pass'.todo = NodesOf(d)
      /\ dc[d].phase # "present"
  BY DEF BeginDelete, NoPass
<1>2. \A n \in Nodes : /\ node'[n].taint = node[n].taint /\ node'[n].label = node[n].label
                       /\ node'[n].nmc = node[n].nmc /\ node'[n].boot = node[n].boot
                       /\ node'[n].ready = node[n].ready /\ node'[n].pod = node[n].pod
  BY <1>0 DEF BeginDelete, Node
<1>3. ~orphaned' => ~orphaned /\ \A g \in Goroutines : ~Active(g)
  <2>1. orphaned' = (orphaned \/ \E g \in Goroutines : Active(g))
    BY DEF BeginDelete, LeaveBehind
  <2> QED
    BY <2>1, Zenon
<1>4. UNCHANGED <<dc, cr, nodeStatus, inited, currentSpec, go, owesReboot, used>>
  BY DEF BeginDelete, memory, manager
<1>5. Deletion
  BY <1>1, <1>2, <1>3, <1>4 DEF Deletion
<1> QED
  BY <1>0, <1>5, DeletionCordon

LEMMA DeleteStepCordon ==
  ASSUME CordonInv, DeleteStep
  PROVE  CordonInv'
<1>0. /\ UpgradeInv' /\ DeleteInv /\ node \in [Nodes -> Node] /\ pass \in Pass
      /\ dc \in [DCs -> DeviceConfig] /\ pass.dc \in DCs /\ dcOf \in [Nodes -> DCs]
      /\ pass.pc \in {"delete", "finalize"} /\ used \in Used
      /\ None \notin Nodes /\ nodeStatus \in [Nodes -> UpgradeState]
  <2>1. pass.pc \in {"delete", "finalize"}
    BY DEF DeleteStep, DeleteUncordon, DeletePod, DeleteVisiting, EndDelete,
           FinalizeModule, FinalizeDone, FinalizeAgain
  <2> QED
    BY <2>1, DeleteStepInv, ConstantsAssumption DEF CordonInv, UpgradeInv, TypeOK
<1>1. ~orphaned => /\ \A g \in Goroutines : ~Active(g)
                   /\ pass.todo \subseteq NodesOf(pass.dc) /\ dc[pass.dc].phase # "present"
                   /\ pass.pc = "finalize" => \A n \in Nodes : nodeStatus[n] = "Empty"
  BY <1>0 DEF DeleteInv
<1> DEFINE Same(n) ==
      /\ node'[n].taint = node[n].taint /\ node'[n].label = node[n].label
      /\ node'[n].nmc = node[n].nmc /\ node'[n].boot = node[n].boot
      /\ node'[n].ready = node[n].ready /\ node'[n].pod = node[n].pod
<1>2. ASSUME NEW n \in Nodes, DeleteUncordon(n) PROVE Deletion
  <2>1. /\ UNCHANGED <<dc, cr, nodeStatus, inited, currentSpec, go, orphaned, owesReboot>>
        /\ pass.pc = "delete" /\ n \in pass.todo /\ (Fault \/ NoFault)
        /\ pass' = [pass EXCEPT !.again = TRUE]
    BY <1>2 DEF DeleteUncordon, DeleteVisiting, FirstOf, manager
  <2>2. pass'.pc = "delete" /\ pass'.todo = pass.todo /\ pass'.dc = pass.dc
    BY <1>0, <2>1 DEF Pass
  <2>3. used'.restarts = used.restarts /\ (used'.faults = 0 => used.faults = 0)
    BY <1>0, <2>1, FaultShows
  <2>4. \A m \in Nodes :
          /\ m # n => Same(m)
          /\ node'[m].taint => node[m].taint
          /\ node'[m].label = node[m].label /\ node'[m].boot = node[m].boot
          /\ node'[m].ready = node[m].ready /\ node'[m].pod = node[m].pod
    <3>1. CASE UNCHANGED node
      BY <3>1
    <3>2. CASE node' = Uncordoned(n)
      BY <1>0, <3>2 DEF Uncordoned, Node
    <3> QED
      BY <1>2, <3>1, <3>2 DEF DeleteUncordon
  <2>5. ~orphaned => dc[dcOf[n]].phase # "present"
    <3>1. ~orphaned => n \in NodesOf(pass.dc)
      BY <1>1, <2>1
    <3> QED
      BY <1>1, <3>1 DEF NodesOf
  <2> QED
    BY <1>1, <2>1, <2>2, <2>3, <2>4, <2>5 DEF Deletion
<1>3. ASSUME NEW n \in Nodes, DeletePod(n) PROVE Deletion
  <2>1. /\ UNCHANGED <<dc, cr, inited, currentSpec, go, owesReboot>>
        /\ UNCHANGED <<nodeStatus, orphaned>> \/ orphaned'
        /\ pass.pc = "delete" /\ n \in pass.todo /\ (Fault \/ NoFault)
        /\ pass' = Visited(n)
    BY <1>3 DEF DeletePod, DeleteVisiting, FirstOf, manager
  <2>2. pass'.pc = "delete" /\ pass'.todo = pass.todo \ {n} /\ pass'.dc = pass.dc
    BY <1>0, <2>1 DEF Pass, Visited
  <2>3. used'.restarts = used.restarts /\ (used'.faults = 0 => used.faults = 0)
    BY <1>0, <2>1, FaultShows
  <2>4. \A m \in Nodes :
          /\ node'[m].taint = node[m].taint /\ node'[m].nmc = node[m].nmc
          /\ node'[m].label = node[m].label /\ node'[m].boot = node[m].boot
          /\ node'[m].ready = node[m].ready /\ node'[m].pod \in {node[m].pod, "none"}
    <3>1. CASE UNCHANGED node
      BY <3>1
    <3>2. CASE node' = [node EXCEPT ![n].pod = "none"]
      BY <1>0, <3>2 DEF Node
    <3> QED
      BY <1>3, <3>1, <3>2 DEF DeletePod
  <2>5. ~orphaned => pass'.todo \subseteq NodesOf(pass'.dc)
    BY <1>1, <2>2
  <2> QED
    BY <1>1, <2>1, <2>2, <2>3, <2>4, <2>5 DEF Deletion
<1>4. ASSUME EndDelete PROVE Deletion
  <2>1. /\ UNCHANGED <<dc, cr, node, inited, currentSpec, go, owesReboot, used>>
        /\ \A n \in Nodes : nodeStatus'[n] = "Empty"
    BY <1>4 DEF EndDelete, ClearNodeStatus, manager
  <2>2. pass'.pc = "finalize" /\ pass'.todo = {} /\ pass'.dc = pass.dc
    BY <1>4 DEF EndDelete, NoPass
  <2>3. ~orphaned' => ~orphaned
    BY <1>4 DEF EndDelete, ClearNodeStatus, LeaveBehind
  <2> QED
    BY <1>1, <2>1, <2>2, <2>3 DEF Deletion
<1>5. ASSUME FinalizeModule PROVE Deletion
  <2>1. /\ UNCHANGED <<cr, nodeStatus, inited, currentSpec, go, orphaned, owesReboot>>
        /\ pass.pc = "finalize" /\ pass' = NoPass /\ (Fault \/ NoFault)
        /\ dc' = [dc EXCEPT ![pass.dc].phase = "finalizing"]
    BY <1>5 DEF FinalizeModule, memory, manager
  <2>2. used'.restarts = used.restarts /\ (used'.faults = 0 => used.faults = 0)
    BY <1>0, <2>1, FaultShows
  <2>3. \A m \in Nodes :
          /\ dcOf[m] # pass.dc => node'[m] = node[m]
          /\ node'[m].taint = node[m].taint /\ node'[m].nmc = node[m].nmc
          /\ node'[m].boot = node[m].boot
          /\ node'[m].ready = node[m].ready /\ node'[m].pod = node[m].pod
    <3>1. PICK kept :
            node' = [n \in Nodes |-> IF dcOf[n] = pass.dc /\ n # kept
                                     THEN [node[n] EXCEPT !.label = None] ELSE node[n]]
      BY <1>5 DEF FinalizeModule
    <3> QED
      BY <1>0, <3>1 DEF Node
  <2>4. \A n \in Nodes : dc'[dcOf[n]].phase = "present" =>
          dcOf[n] # pass.dc /\ dc[dcOf[n]].phase = "present"
    BY <1>0, <2>1 DEF DeviceConfig
  <2> QED
    <3>1. pass'.pc = "idle"
      BY <2>1 DEF NoPass
    <3>2. ~orphaned => \A n \in Nodes : nodeStatus'[n] = "Empty"
      BY <1>1, <2>1
    <3> QED
      BY <1>1, <2>1, <2>2, <2>3, <2>4, <3>1, <3>2 DEF Deletion
<1>6. ASSUME FinalizeDone \/ FinalizeAgain PROVE Deletion
  <2>1. /\ UNCHANGED <<node, nodeStatus, inited, currentSpec, go, orphaned, owesReboot, used>>
        /\ pass.pc = "finalize" /\ pass' = NoPass
    BY <1>6 DEF FinalizeDone, FinalizeAgain, memory, manager, history
  <2>2. \A n \in Nodes : /\ cr'[n] \in {cr[n], NoStatus}
                         /\ dc'[dcOf[n]].phase = "present" =>
                              dc[dcOf[n]].phase = "present" /\ cr'[n] = cr[n]
    BY <1>0, <1>6 DEF FinalizeDone, FinalizeAgain, DeviceConfig
  <2> QED
    BY <1>1, <2>1, <2>2, Records DEF Deletion
<1> QED
  BY <1>0, <1>2, <1>3, <1>4, <1>5, <1>6, DeletionCordon DEF DeleteStep

---------------------------------------------------------------------------
\* The theorems

LEMMA InitCordonInv == Init => CordonInv
<1> SUFFICES ASSUME Init PROVE CordonInv
  OBVIOUS
<1>1. UpgradeInv
  BY InitUpgradeInv
<1>2. PICK v \in Versions :
        /\ dc = [d \in DCs |-> [spec |-> v, phase |-> "present"]]
        /\ node = [n \in Nodes |->
                     LET w == IF n \in FreshNodes THEN None ELSE v
                     IN  [label |-> w, taint |-> FALSE, retry |-> FALSE,
                          nmc |-> w, boot |-> 0, ready |-> TRUE, pod |-> "none",
                          late |-> FALSE]]
        /\ cr = [n \in Nodes |->
                   IF n \in FreshNodes THEN NoStatus
                   ELSE [has |-> TRUE, status |-> "InstallComplete", image |-> v,
                         start |-> "none", boot |-> None]]
  BY DEF Init
<1>3. /\ pass.pc = "idle" /\ \A n \in Nodes : nodeStatus[n] = "Empty" /\ ~owesReboot[n]
      /\ pass = NoPass
  BY DEF Init, NoPass
<1>4. \A g \in Goroutines : ~Active(g)
  BY Records DEF Init, Active
<1>5. \A n \in Nodes : /\ ~node[n].taint /\ node[n].nmc = node[n].label
                       /\ node[n].ready /\ node[n].pod = "none"
                       /\ cr[n].status \notin BusyStates
                       /\ ~cr[n].has => cr[n].image = None
                       /\ dc[dcOf[n]].phase = "present"
  BY <1>2, ConstantsAssumption DEF NoStatus, BusyStates
<1>6. DeleteInv /\ FirstInv /\ SeenInv
  BY <1>3, <1>4, <1>5 DEF NoPass, DeleteInv, FirstInv, SeenInv, AtWork, BusyStates, InPass
<1>7. SwapInv
  BY <1>3, <1>4 DEF SwapInv
<1>8. pass.pc = "idle"
  BY <1>3 DEF NoPass
<1>9. TaintInv
  BY <1>3, <1>4, <1>5, <1>8 DEF TaintInv, NodeTaintInv, DoneStates, InPass
<1>10. RebootInv
  BY <1>3, <1>4, <1>5, <1>8 DEF RebootInv, NodeRebootInv, InPass
<1> QED
  BY <1>1, <1>6, <1>7, <1>9, <1>10 DEF CordonInv

LEMMA CordonStep == CordonInv /\ [Next]_vars => CordonInv'
<1> SUFFICES ASSUME CordonInv, [Next]_vars PROVE CordonInv'
  OBVIOUS
<1>1. CASE UNCHANGED vars
  <2>1. Outside /\ SameMachines
    BY <1>1 DEF vars, memory, manager, history, Outside, SameMachines
  <2>2. UpgradeInv'
    <3>1. UpgradeInv /\ TypeOK /\ UNCHANGED <<dc, cr, node, nodeStatus, startTime, bootID,
            inited, currentSpec, pass, go, orphaned, owesReboot, used>>
      BY <1>1 DEF CordonInv, UpgradeInv, vars, memory, manager, history
    <3>2. TypeOK'
      BY <3>1 DEF TypeOK, Active
    <3> QED
      BY <3>1, <3>2, FrameInv DEF PodsKept
  <2> QED
    BY <2>1, <2>2, OutsideCordon, SameMachinesReboot
<1>2. CASE InitStep
  BY <1>2, InitEntryCordon, EndInitCordon
<1>3. CASE PassStep
  BY <1>3, VisitCordon, StartNodeCordon, AfterVisitCordon DEF PassStep
<1> QED
  BY <1>1, <1>2, <1>3, GoCordon, BeginPassCordon, BeginDeleteCordon, DeleteStepCordon,
     EnvironmentCordon DEF Next

\* What the upgrade manager knows of cordons, labels, drivers and reboots agrees
\* with the nodes in every reachable state: the invariant that the properties of
\* handleNodeUpgrade and HandleUpgrade below rest on.
THEOREM CordonInvariant == Spec => []CordonInv
<1>1. Init => CordonInv
  BY InitCordonInv
<1>2. CordonInv /\ [Next]_vars => CordonInv'
  BY CordonStep
<1> QED
  BY <1>1, <1>2, PTL DEF Spec

\* A node whose upgrade HandleUpgrade calls complete is open to scheduling, for an
\* operator that kept track of its goroutines and had no API call fail.
THEOREM CompleteUncordons == Spec => []CompleteUncordonedTracked
<1>1. CordonInv => CompleteUncordonedTracked
  BY DEF CordonInv, TaintInv, NodeTaintInv, CompleteUncordonedTracked, Calm
<1> QED
  BY <1>1, CordonInvariant, PTL

\* With rebootRequired and no wait of handleNodeReboot given up, no node that is
\* called complete still owes the reboot that its new driver needs.
THEOREM RebootComesFirst ==
  ~CanGiveUp /\ Spec => [](Calm => RebootBeforeComplete)
<1> SUFFICES ASSUME ~CanGiveUp PROVE Spec => [](Calm => RebootBeforeComplete)
  OBVIOUS
<1>1. CordonInv => (Calm => RebootBeforeComplete)
  <2> SUFFICES ASSUME CordonInv, Calm, NEW n \in Nodes, owesReboot[n]
               PROVE  nodeStatus[n] # "Complete"
    BY DEF RebootBeforeComplete
  <2>1. PICK g \in Goroutines :
          /\ go[g].pc \in {"rbDriver", "rbWait", "rbMark", "dpBegin", "dpWait"}
          /\ go[g].node = n
    BY DEF CordonInv, RebootInv, NodeRebootInv
  <2> QED
    BY <2>1, AtWorkMarked DEF Active, Calm
<1> QED
  BY <1>1, CordonInvariant, PTL

\* The version label of a node goes away, stays, returns to the version in use, or
\* the node is cordoned.
LEMMA SwapStep ==
  ASSUME CordonInv, Next, Tracked, NEW n \in Nodes, SwapsDriver(n)
  PROVE  node[n].taint
<1>0. TypeOK /\ SeenInv /\ SwapInv /\ node \in [Nodes -> Node] /\ dcOf \in [Nodes -> DCs]
  BY ConstantsAssumption DEF CordonInv, UpgradeInv, TypeOK
<1>1. /\ node[n].label # None
      /\ node'[n].label \notin {None, node[n].label, node[n].nmc}
      /\ nodeStatus'[n] # "InstallInProgress"
  BY DEF SwapsDriver
<1>2. CASE \E g \in Goroutines : GoStep(g)
  <2>1. PICK g \in Goroutines : GoStep(g)
    BY <1>2
  <2>2. GoFrameKept(g) /\ GoTable(g)
    BY <1>0, <2>1, GoRows
  <2>3. n = go[g].node
    BY <1>1, <2>2 DEF GoFrameKept
  <2>4. go[g].pc \in {"hnuLabel", "rbBegin"}
    BY <1>1, <2>2, <2>3 DEF GoTable, GoRow
  <2>5. GoSwapInv(g)
    BY <1>0, <2>2 DEF SwapInv, GoFrameKept
  <2> QED
    BY <2>3, <2>4, <2>5 DEF GoSwapInv
<1>3. CASE \E m \in Nodes : VisitStep(m)
  <2>1. PICK m \in Nodes : VisitStep(m)
    BY <1>3
  <2>2. VisitFrameKept(m) /\ VisitTable(m)
    BY <1>0, <2>1, VisitRows
  <2>3. n = m
    BY <1>1, <2>2 DEF VisitFrameKept
  <2>4. pass.spec = currentSpec
    BY <1>0, <2>2 DEF SeenInv, VisitFrameKept, InPass
  <2>5. nodeStatus[n] = "InProgress" => node[n].label = pass.spec
    BY <1>0, <2>4 DEF SwapInv
  <2>6. node'[n].label \in {node[n].label, ResetLabel(n)}
    BY <1>1, <2>2, <2>3, <2>5 DEF VisitTable, VisitRow
  <2> QED
    BY <1>1, <2>6 DEF ResetLabel
<1>4. CASE HandleKMMVersionLabel
  <2>1. dcOf[n] = pass.dc /\ pass.seen[n].label = None /\ pass.pc = "label"
    BY <1>1, <1>4 DEF HandleKMMVersionLabel
  <2> QED
    BY <1>0, <1>1, <2>1 DEF SeenInv, NodesOf, InPass
<1>5. CASE DeleteStep \/ \E d \in DCs : BeginDelete(d)
  <2>1. CASE UNCHANGED node
    BY <1>1, <2>1
  <2>2. CASE \E m \in Nodes : \/ node' = Uncordoned(m)
                             \/ node' = [node EXCEPT ![m].pod = "none"]
    BY <1>0, <1>1, <2>2 DEF Uncordoned, Node
  <2>3. CASE FinalizeModule
    <3>1. PICK kept :
            node' = [m \in Nodes |-> IF dcOf[m] = pass.dc /\ m # kept
                                     THEN [node[m] EXCEPT !.label = None] ELSE node[m]]
      BY <2>3 DEF FinalizeModule
    <3> QED
      BY <1>0, <1>1, <3>1 DEF Node
  <2>4. CASE \E d \in DCs : BeginDelete(d)
    BY <1>0, <1>1, <2>4 DEF BeginDelete, Node
  <2> QED
    BY <1>5, <2>1, <2>2, <2>3, <2>4
       DEF DeleteStep, DeleteUncordon, DeletePod, EndDelete, FinalizeDone, FinalizeAgain
<1>6. CASE UNCHANGED node
  BY <1>1, <1>6
<1>7. CASE \E m \in Nodes : UserRetry(m) \/ KmmSync(m) \/ RebootBegin(m) \/ RebootEnd(m)
  <2>1. PICK m \in Nodes : UserRetry(m) \/ KmmSync(m) \/ RebootBegin(m) \/ RebootEnd(m)
    BY <1>7
  <2>2. CASE UserRetry(m) \/ KmmSync(m) \/ RebootBegin(m)
    BY <1>0, <1>1, <2>2 DEF UserRetry, KmmSync, RebootBegin, Node
  <2>3. CASE RebootEnd(m)
    <3>1. PICK k \in {node[m].nmc, None} :
            node' = [node EXCEPT ![m].ready = TRUE, ![m].boot = @ + 1, ![m].nmc = k]
      BY <2>3 DEF RebootEnd
    <3> QED
      BY <1>0, <1>1, <3>1 DEF Node
  <2> QED
    BY <2>1, <2>2, <2>3
<1>8. ASSUME InitStep PROVE UNCHANGED node
  BY <1>8, InitEntryEffect DEF CordonInv, EndInit
<1>9. ASSUME PassStep
       PROVE  \/ \E m \in Nodes : VisitStep(m)
              \/ HandleKMMVersionLabel \/ UNCHANGED node
  BY <1>9 DEF PassStep, StartNode, EndVisit, EndSelect, PublishStatus, ReconcileError,
     PassGoesTo
<1>10. ASSUME Environment
       PROVE  \/ \E m \in Nodes : UserRetry(m) \/ KmmSync(m) \/ RebootBegin(m) \/ RebootEnd(m)
              \/ UNCHANGED node
  BY <1>10 DEF Environment, UserDelete, EditSpec, Restart, TwoHoursPass
<1>11. ASSUME NEW d \in DCs, BeginPass(d) PROVE UNCHANGED node
  BY <1>11 DEF BeginPass
<1> QED
  BY <1>2, <1>3, <1>4, <1>5, <1>6, <1>7, <1>8, <1>9, <1>10, <1>11 DEF Next

\* The version label of a node with a driver in use is changed by handleNodeUpgrade
\* and by HandleUpgrade only while the node is cordoned, for an operator that kept
\* track of its goroutines.
THEOREM DriverSwappedCordoned == Spec => DriverSwappedCordonedTracked
<1> DEFINE Swap == Tracked => \A n \in Nodes : SwapsDriver(n) => node[n].taint
<1>1. CordonInv /\ [Next]_vars => [Swap]_vars
  <2> SUFFICES ASSUME CordonInv, Next PROVE Swap
    OBVIOUS
  <2> QED
    BY SwapStep
<1> QED
  BY <1>1, CordonInvariant, PTL DEF Spec, DriverSwappedCordonedTracked
====
