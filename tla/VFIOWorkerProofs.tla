-------------------------- MODULE VFIOWorkerProofs --------------------------
(***************************************************************************)
(* Proofs about VFIOWorker, for any set of nodes and any number of         *)
(* reboots and disturbances: a ready label is backed by a binding, and     *)
(* nothing is left behind by a DeviceConfig that is gone, except where a   *)
(* request was lost.                                                       *)
(*                                                                         *)
(* The invariant is about one node at a time.  The label and the binding   *)
(* of a node are changed by different goroutines at different times; what  *)
(* connects them is the news under way: events of the node not yet seen    *)
(* by the node watcher, the worker pod and its news not yet seen by the    *)
(* pod watcher.                                                            *)
(***************************************************************************)
EXTENDS VFIOWorker, TLAPS

---------------------------------------------------------------------------
\* Sequences

LEMMA AppendItems ==
  ASSUME NEW S, NEW q \in Seq(S), NEW e \in S
  PROVE  /\ Append(q, e) \in Seq(S) /\ Append(q, e) # <<>>
         /\ Append(q, e)[Len(Append(q, e))] = e
         /\ Items(Append(q, e)) = Items(q) \cup {e}
<1>1. /\ Append(q, e) \in Seq(S) /\ Len(Append(q, e)) = Len(q) + 1
      /\ DOMAIN q = 1 .. Len(q) /\ DOMAIN Append(q, e) = 1 .. Len(q) + 1
      /\ \A i \in 1 .. Len(q) : Append(q, e)[i] = q[i]
      /\ Append(q, e)[Len(q) + 1] = e /\ Len(q) \in Nat
  OBVIOUS
<1>2. Append(q, e) # <<>>
  BY <1>1
<1>3. Items(q) \cup {e} \subseteq Items(Append(q, e))
  BY <1>1 DEF Items
<1>4. Items(Append(q, e)) \subseteq Items(q) \cup {e}
  <2> SUFFICES ASSUME NEW i \in 1 .. Len(q) + 1 PROVE Append(q, e)[i] \in Items(q) \cup {e}
    BY <1>1 DEF Items
  <2>1. i \in 1 .. Len(q) \/ i = Len(q) + 1
    BY <1>1
  <2> QED BY <1>1, <2>1 DEF Items
<1> QED BY <1>1, <1>2, <1>3, <1>4

LEMMA TailItems ==
  ASSUME NEW S, NEW q \in Seq(S), q # <<>>
  PROVE  /\ Tail(q) \in Seq(S) /\ Head(q) \in S /\ Head(q) \in Items(q)
         /\ Items(Tail(q)) \subseteq Items(q) /\ Items(q) \subseteq Items(Tail(q)) \cup {Head(q)}
         /\ Tail(q) # <<>> => Tail(q)[Len(Tail(q))] = q[Len(q)]
         /\ Tail(q) = <<>> => q[Len(q)] = Head(q)
<1>1. /\ Len(q) \in Nat \ {0} /\ DOMAIN q = 1 .. Len(q) /\ Head(q) = q[1]
      /\ Tail(q) \in Seq(S) /\ Len(Tail(q)) = Len(q) - 1
      /\ DOMAIN Tail(q) = 1 .. Len(q) - 1
      /\ \A i \in 1 .. Len(q) - 1 : Tail(q)[i] = q[i + 1]
  OBVIOUS
<1>2. Head(q) \in S /\ Head(q) \in Items(q)
  BY <1>1 DEF Items
<1>3. Items(Tail(q)) \subseteq Items(q)
  <2>1. \A i \in 1 .. Len(q) - 1 : i + 1 \in 1 .. Len(q)
    BY <1>1
  <2> QED BY <1>1, <2>1 DEF Items
<1>4. Items(q) \subseteq Items(Tail(q)) \cup {Head(q)}
  <2> SUFFICES ASSUME NEW i \in 1 .. Len(q), i # 1 PROVE q[i] \in Items(Tail(q))
    BY <1>1 DEF Items
  <2>1. i - 1 \in DOMAIN Tail(q) /\ Tail(q)[i - 1] = q[i]
    BY <1>1
  <2> QED BY <2>1 DEF Items
<1>5. Tail(q) # <<>> => Tail(q)[Len(Tail(q))] = q[Len(q)]
  BY <1>1
<1>6. Tail(q) = <<>> => q[Len(q)] = Head(q)
  <2>0. Len(<<>>) = 0
    OBVIOUS
  <2>1. Tail(q) = <<>> => Len(Tail(q)) = 0
    BY <2>0, Zenon
  <2> QED BY <1>1, <2>1
<1> QED BY <1>1, <1>2, <1>3, <1>4, <1>5, <1>6

LEMMA CatItems ==
  ASSUME NEW S, NEW p \in Seq(S), NEW q \in Seq(S)
  PROVE  p \o q \in Seq(S) /\ Items(p \o q) = Items(p) \cup Items(q)
<1>1. /\ p \o q \in Seq(S) /\ Len(p) \in Nat /\ Len(q) \in Nat
      /\ DOMAIN p = 1 .. Len(p) /\ DOMAIN q = 1 .. Len(q)
      /\ DOMAIN (p \o q) = 1 .. Len(p) + Len(q)
      /\ \A i \in 1 .. Len(p) : (p \o q)[i] = p[i]
      /\ \A i \in 1 .. Len(q) : (p \o q)[i + Len(p)] = q[i]
  OBVIOUS
<1>2. Items(p) \subseteq Items(p \o q)
  BY <1>1 DEF Items
<1>3. Items(q) \subseteq Items(p \o q)
  <2> SUFFICES ASSUME NEW i \in 1 .. Len(q) PROVE q[i] \in Items(p \o q)
    BY <1>1 DEF Items
  <2>1. i + Len(p) \in DOMAIN (p \o q) /\ (p \o q)[i + Len(p)] = q[i]
    BY <1>1
  <2> QED BY <2>1 DEF Items
<1>4. Items(p \o q) \subseteq Items(p) \cup Items(q)
  <2> SUFFICES ASSUME NEW i \in 1 .. Len(p) + Len(q)
               PROVE  (p \o q)[i] \in Items(p) \cup Items(q)
    BY <1>1 DEF Items
  <2>1. CASE i <= Len(p)
    BY <1>1, <2>1 DEF Items
  <2>2. CASE i > Len(p)
    <3>1. i - Len(p) \in 1 .. Len(q) /\ (i - Len(p)) + Len(p) = i
      BY <1>1, <2>2
    <3>2. (p \o q)[i] = q[i - Len(p)]
      BY <1>1, <3>1
    <3> QED BY <1>1, <3>1, <3>2 DEF Items
  <2> QED BY <1>1, <2>1, <2>2
<1> QED BY <1>1, <1>2, <1>3, <1>4

\* The event of a patch
LEMMA UpdateItems ==
  ASSUME NEW old \in Node, NEW new \in Node
  PROVE  /\ Update(old, new) \in Seq(NodeEvent)
         /\ \A e \in Items(Update(old, new)) :
              e = [typed |-> new.typed, ready |-> new.ready, rebooted |-> old.boot # new.boot]
         /\ old.boot # new.boot =>
              [typed |-> new.typed, ready |-> new.ready, rebooted |-> TRUE]
                \in Items(Update(old, new))
<1> DEFINE e == [typed |-> new.typed, ready |-> new.ready, rebooted |-> old.boot # new.boot]
<1>1. e \in NodeEvent
  BY DEF Node, NodeEvent
<1>2. Items(<<e>>) = {e} /\ <<e>> \in Seq(NodeEvent)
  <2>1. DOMAIN <<e>> = {1}
    OBVIOUS
  <2> QED BY <1>1, <2>1 DEF Items
<1>3. Items(<<>>) = {} /\ <<>> \in Seq(NodeEvent)
  BY DEF Items
<1>4. Update(old, new) = IF old.boot # new.boot \/ old.typed # new.typed \/ old.ready # new.ready
                         THEN <<e>> ELSE <<>>
  BY DEF Update
<1>5. old.boot # new.boot => e = [typed |-> new.typed, ready |-> new.ready, rebooted |-> TRUE]
  OBVIOUS
<1> HIDE DEF e
<1> QED BY <1>2, <1>3, <1>4, <1>5 DEF e

---------------------------------------------------------------------------
\* Types

\* A patch keeps the types, and its event joins those the watcher had left
LEMMA PatchTypes ==
  ASSUME TypeOK, NEW new \in [Nodes -> Node], NEW q \in [Nodes -> Seq(NodeEvent)], Patch(new, q)
  PROVE  /\ node' \in [Nodes -> Node] /\ nodeq' \in [Nodes -> Seq(NodeEvent)]
         /\ \A n \in Nodes :
              /\ node'[n] = new[n] /\ Items(q[n]) \subseteq Items(nodeq'[n])
              /\ new[n].boot # node[n].boot =>
                   [typed |-> new[n].typed, ready |-> new[n].ready, rebooted |-> TRUE]
                     \in Items(nodeq'[n])
<1>1. ASSUME NEW n \in Nodes
      PROVE  /\ nodeq'[n] \in Seq(NodeEvent) /\ Items(q[n]) \subseteq Items(nodeq'[n])
             /\ new[n].boot # node[n].boot =>
                  [typed |-> new[n].typed, ready |-> new[n].ready, rebooted |-> TRUE]
                    \in Items(nodeq'[n])
  <2> DEFINE u == Update(node[n], new[n])
  <2>1. nodeq'[n] = q[n] \o u
    BY DEF Patch
  <2>2. node[n] \in Node /\ new[n] \in Node /\ q[n] \in Seq(NodeEvent)
    BY DEF TypeOK
  <2>3. /\ u \in Seq(NodeEvent)
        /\ node[n].boot # new[n].boot =>
             [typed |-> new[n].typed, ready |-> new[n].ready, rebooted |-> TRUE] \in Items(u)
    BY <2>2, UpdateItems
  <2> HIDE DEF u
  <2>4. q[n] \o u \in Seq(NodeEvent) /\ Items(q[n] \o u) = Items(q[n]) \cup Items(u)
    BY <2>2, <2>3, CatItems
  <2> QED BY <2>1, <2>3, <2>4
<1>2. node' = new /\ DOMAIN nodeq' = Nodes /\ nodeq' = [n \in Nodes |-> nodeq'[n]]
  BY DEF Patch
<1>3. nodeq' \in [Nodes -> Seq(NodeEvent)]
  BY <1>1, <1>2
<1> QED BY <1>1, <1>2, <1>3

LEMMA RestTypes ==
  ASSUME TypeOK, NEW n \in Nodes, nodeq[n] # <<>>
  PROVE  /\ [nodeq EXCEPT ![n] = Tail(@)] \in [Nodes -> Seq(NodeEvent)]
         /\ Head(nodeq[n]) \in NodeEvent
<1>1. nodeq[n] \in Seq(NodeEvent)
  BY DEF TypeOK
<1>2. Tail(nodeq[n]) \in Seq(NodeEvent) /\ Head(nodeq[n]) \in NodeEvent
  BY <1>1, TailItems
<1> QED BY <1>2 DEF TypeOK

\* The fields of a node and of its pod
LEMMA NodeTypes ==
  ASSUME TypeOK, NEW n \in Nodes
  PROVE  /\ node[n] \in Node /\ node[n].boot \in Nat /\ node[n].typed \in BOOLEAN
         /\ node[n].ready \in BOOLEAN /\ node[n].vfs \in BOOLEAN /\ node[n].bound \in BOOLEAN
         /\ pod[n] \in Pod \cup {NoPod} /\ nodeq[n] \in Seq(NodeEvent) /\ podq[n] \in Seq(Pod)
         /\ pod[n].boot \in Nat
         /\ pod[n].phase # "None" => pod[n] \in Pod
         /\ pod[n].phase = "None" => pod[n] = NoPod
         /\ pod[n].phase \in {"None", "Running", "Succeeded", "Failed"} /\ pod[n].action \in Actions
<1>1. /\ node[n] \in Node /\ pod[n] \in Pod \cup {NoPod}
      /\ nodeq[n] \in Seq(NodeEvent) /\ podq[n] \in Seq(Pod)
  BY DEF TypeOK
<1>2. \A k \in 0 .. MaxReboots : k \in Nat
  BY VFIOAssumption
<1>3. /\ node[n].boot \in Nat /\ node[n].typed \in BOOLEAN
      /\ node[n].ready \in BOOLEAN /\ node[n].vfs \in BOOLEAN /\ node[n].bound \in BOOLEAN
  BY <1>1, <1>2 DEF Node
<1>4. CASE pod[n] \in Pod
  BY <1>1, <1>2, <1>3, <1>4 DEF Pod
<1>5. CASE pod[n] = NoPod
  <2>1. pod[n].phase = "None" /\ pod[n].boot = 0 /\ pod[n].action = "load"
    BY <1>5 DEF NoPod
  <2> QED BY <1>1, <1>3, <1>5, <2>1 DEF Actions
<1> QED BY <1>1, <1>4, <1>5

\* A disturbance counts
LEMMA UsedType ==
  ASSUME TypeOK, NEW k, Disturb(k) \/ UNCHANGED used PROVE used' \in Nat
BY DEF TypeOK, Disturb

\* Setting a label, the driver type or the ready label
LEMMA LabelTypes ==
  ASSUME TypeOK, NEW b \in BOOLEAN
  PROVE  /\ \A n \in Nodes : Label(n, b) \in [Nodes -> Node]
         /\ \A done : [n \in Nodes |-> IF n \in done THEN [node[n] EXCEPT !.typed = b] ELSE node[n]]
                        \in [Nodes -> Node]
BY DEF TypeOK, Label, Node

LEMMA StepTypes ==
  ASSUME TypeOK, [Next]_vars PROVE TypeOK'
<1> DEFINE Pods1 == /\ pod' \in [Nodes -> Pod \cup {NoPod}] /\ podq' \in [Nodes -> Seq(Pod)]
                    /\ \A n \in Nodes : pod'[n] # NoPod \/ podq'[n] # <<>> => Passthrough
           Rest == /\ driverType' \in DriverTypes
                   /\ dc' \in {"present", "deleting", "gone"}
                   /\ module' \in {"absent", "present", "deleting"}
                   /\ handler' \in Nodes \cup {None} /\ pass' \in Pass
                   /\ slipped' \subseteq Nodes /\ used' \in Nat /\ driverType' = driverType
           Labels1 == node' \in [Nodes -> Node] /\ nodeq' \in [Nodes -> Seq(NodeEvent)]
<1>0. ASSUME Pods1, Rest, Labels1 PROVE TypeOK'
  BY <1>0 DEF TypeOK, Passthrough
<1>idle. IdlePass \in Pass
  BY DEF IdlePass, Pass
<1>p. ASSUME UNCHANGED <<pod, podq>> PROVE Pods1
  BY <1>p DEF TypeOK
<1>l. ASSUME UNCHANGED <<node, nodeq>> PROVE Labels1
  BY <1>l DEF TypeOK
<1>1. CASE Reconcile
  <2>0. UNCHANGED <<driverType, podq, handler>>
    BY <1>1 DEF Reconcile
  <2>1. CASE PassStart
    <3>1. Rest
      BY <2>0, <2>1 DEF PassStart, TypeOK, Pass
    <3>2. UNCHANGED <<pod, podq, node, nodeq>>
      BY <2>0, <2>1 DEF PassStart
    <3> QED BY <1>0, <1>p, <1>l, <3>1, <3>2
  <2>2. CASE RemoveFinalizer
    <3>1. Rest
      BY <1>idle, <2>0, <2>2 DEF RemoveFinalizer, TypeOK
    <3>2. UNCHANGED <<pod, podq, node, nodeq>>
      BY <2>0, <2>2 DEF RemoveFinalizer
    <3> QED BY <1>0, <1>p, <1>l, <3>1, <3>2
  <2>3. ASSUME NEW done, HandleKMMModule(done) PROVE TypeOK'
    <3>1. used' \in Nat
      BY <2>3, UsedType DEF HandleKMMModule, UpdateDriverTypeNodeLabel
    <3>2. Rest
      BY <1>idle, <2>0, <2>3, <3>1 DEF HandleKMMModule, TypeOK
    <3>3. Labels1
      <4> DEFINE new == [n \in Nodes |-> IF n \in done THEN [node[n] EXCEPT !.typed = TRUE] ELSE node[n]]
      <4>1. Patch(new, nodeq)
        BY <2>3 DEF HandleKMMModule, UpdateDriverTypeNodeLabel
      <4>2. new \in [Nodes -> Node]
        BY LabelTypes
      <4> HIDE DEF new
      <4> QED BY <4>1, <4>2, PatchTypes DEF TypeOK
    <3>4. UNCHANGED <<pod, podq>>
      BY <2>0, <2>3 DEF HandleKMMModule
    <3> QED BY <1>0, <1>p, <3>2, <3>3, <3>4
  <2>4. ASSUME NEW done, FinalizeLabels(done) PROVE TypeOK'
    <3>1. used' \in Nat
      BY <2>4, UsedType DEF FinalizeLabels, UpdateDriverTypeNodeLabel
    <3>2. module' \in {"absent", "present", "deleting"} /\ pass' \in Pass
      BY <1>idle, <2>4 DEF FinalizeLabels, TypeOK, Pass
    <3>3. Rest
      BY <2>0, <2>4, <3>1, <3>2 DEF FinalizeLabels, TypeOK
    <3>4. Labels1
      <4> DEFINE new == [n \in Nodes |-> IF n \in done THEN [node[n] EXCEPT !.typed = FALSE] ELSE node[n]]
      <4>1. Patch(new, nodeq)
        BY <2>4 DEF FinalizeLabels, UpdateDriverTypeNodeLabel
      <4>2. new \in [Nodes -> Node]
        BY LabelTypes
      <4> HIDE DEF new
      <4> QED BY <4>1, <4>2, PatchTypes DEF TypeOK
    <3>5. UNCHANGED <<pod, podq>>
      BY <2>0, <2>4 DEF FinalizeLabels
    <3> QED BY <1>0, <1>p, <3>3, <3>4, <3>5
  <2>5. ASSUME NEW n \in Nodes, CheckNode(n) PROVE TypeOK'
    <3>1. Rest
      BY <1>idle, <2>0, <2>5 DEF CheckNode, TypeOK, Pass
    <3>2. Labels1
      <4>1. CASE UNCHANGED <<node, nodeq>>
        BY <1>l, <4>1
      <4>2. CASE Patch(IF ForceCleanup THEN Label(n, FALSE) ELSE node, nodeq)
        <5>1. (IF ForceCleanup THEN Label(n, FALSE) ELSE node) \in [Nodes -> Node]
          BY LabelTypes DEF TypeOK
        <5> QED BY <4>2, <5>1, PatchTypes DEF TypeOK
      <4> QED BY <2>5, <4>1, <4>2 DEF CheckNode
    <3>3. Pods1
      BY <2>0, <2>5 DEF CheckNode, TypeOK
    <3> QED BY <1>0, <3>1, <3>2, <3>3
  <2> QED BY <1>1, <2>1, <2>2, <2>3, <2>4, <2>5 DEF Reconcile
<1>2. ASSUME NEW n \in Nodes, HandlePostProcess(n) PROVE TypeOK'
  <2> DEFINE rest == [nodeq EXCEPT ![n] = Tail(@)]
  <2>0. /\ nodeq[n] # <<>> /\ UNCHANGED <<driverType, dc, module, podq, handler, pass, used>>
        /\ \/ Work(n) /\ Patch(node, rest)
           \/ Cleanup(n) /\ Patch(node, rest)
           \/ /\ Patch(Label(n, FALSE), rest) /\ UNCHANGED pod
              /\ Slip({m \in {n} : node[m].bound})
           \/ Patch(node, rest) /\ UNCHANGED <<pod, slipped>>
    BY <1>2 DEF HandlePostProcess
  <2>1. Labels1
    <3>1. PICK new \in [Nodes -> Node] : Patch(new, rest)
      BY <2>0, LabelTypes DEF TypeOK
    <3> QED BY <2>0, <3>1, PatchTypes, RestTypes
  <2>2. slipped' \subseteq Nodes
    BY <2>0 DEF Work, Cleanup, CreateWorker, Slip, TypeOK
  <2>3. Pods1
    <3>1. ASSUME NEW a \in Actions
          PROVE  [action |-> a, phase |-> "Running", boot |-> node[n].boot] \in Pod
      BY NodeTypes DEF Pod, Node
    <3>2. ASSUME NEW a \in Actions, CreateWorker(n, a), Passthrough PROVE Pods1
      BY <2>0, <3>1, <3>2 DEF CreateWorker, TypeOK
    <3>3. UNCHANGED pod \/ (Passthrough /\ \E a \in Actions : CreateWorker(n, a))
      BY <2>0 DEF Work, Cleanup, Actions
    <3> QED BY <1>p, <2>0, <3>2, <3>3
  <2> QED BY <1>0, <2>0, <2>1, <2>2, <2>3 DEF TypeOK
<1>3. ASSUME NEW n \in Nodes, HandlePostProcessFails(n) PROVE TypeOK'
  <2>1. Labels1
    BY <1>3, PatchTypes, RestTypes DEF HandlePostProcessFails, TypeOK
  <2>2. used' \in Nat /\ slipped' \subseteq Nodes
    BY <1>3 DEF HandlePostProcessFails, Disturb, Slip, TypeOK
  <2> QED BY <1>0, <1>p, <1>3, <2>1, <2>2 DEF HandlePostProcessFails, TypeOK
<1>4. ASSUME NEW n \in Nodes, HandleWorkerMgrPodEvt(n) PROVE TypeOK'
  <2>0. podq[n] # <<>> /\ podq' = [podq EXCEPT ![n] = Tail(@)] /\ UNCHANGED pod
    BY <1>4 DEF HandleWorkerMgrPodEvt
  <2>1. Labels1
    <3>1. CASE UNCHANGED <<node, nodeq>>
      BY <1>l, <3>1
    <3>2. CASE \E b \in BOOLEAN : Patch(Label(n, b), nodeq)
      BY <3>2, LabelTypes, PatchTypes DEF TypeOK
    <3> QED BY <1>4, <3>1, <3>2 DEF HandleWorkerMgrPodEvt
  <2>2. Pods1
    <3>1. podq[n] \in Seq(Pod)
      BY DEF TypeOK
    <3>2. Tail(podq[n]) \in Seq(Pod)
      BY <2>0, <3>1, TailItems
    <3> QED BY <2>0, <3>2 DEF TypeOK
  <2>3. used' \in Nat /\ slipped' \subseteq Nodes
    BY <1>4 DEF HandleWorkerMgrPodEvt, Disturb, Slip, TypeOK
  <2> QED BY <1>0, <1>4, <2>1, <2>2, <2>3 DEF HandleWorkerMgrPodEvt, TypeOK
<1>5. CASE DeleteWorker
  <2>1. handler \in Nodes /\ used' \in Nat /\ slipped' \subseteq Nodes
    BY <1>5 DEF DeleteWorker, Disturb, Slip, TypeOK
  <2>2. Pods1
    BY <1>5, <2>1 DEF DeleteWorker, TypeOK
  <2> QED BY <1>0, <1>l, <1>5, <2>1, <2>2 DEF DeleteWorker, TypeOK
<1>6. ASSUME NEW n \in Nodes, WorkerSucceeds(n) \/ WorkerEvicted(n) \/ PodResync(n)
      PROVE  TypeOK'
  <2>1. PICK p \in Pod : Report(n, p)
    <3>1. pod[n] \in Pod
      BY <1>6, NodeTypes DEF WorkerSucceeds, WorkerEvicted, PodResync
    <3> QED BY <1>6, <3>1, NodeTypes DEF WorkerSucceeds, WorkerEvicted, PodResync, Pod, Node
  <2>2. pod[n] # NoPod
    BY <1>6 DEF WorkerSucceeds, WorkerEvicted, PodResync, NoPod
  <2>3. Pods1
    <3>1. podq[n] \in Seq(Pod)
      BY DEF TypeOK
    <3>2. Append(podq[n], p) \in Seq(Pod)
      BY <3>1, AppendItems
    <3> QED BY <2>1, <2>2, <3>2 DEF Report, TypeOK
  <2>4. Labels1
    <3>1. CASE WorkerSucceeds(n)
      <4> DEFINE b == pod[n].action = "load"
      <4>1. node' = [node EXCEPT ![n].bound = b] /\ UNCHANGED nodeq /\ b \in BOOLEAN
        BY <3>1 DEF WorkerSucceeds
      <4> HIDE DEF b
      <4>2. [node[n] EXCEPT !.bound = b] \in Node
        BY <4>1 DEF TypeOK, Node
      <4> QED BY <4>1, <4>2 DEF TypeOK
    <3>2. CASE WorkerEvicted(n) \/ PodResync(n)
      BY <1>l, <3>2 DEF WorkerEvicted, PodResync
    <3> QED BY <1>6, <3>1, <3>2
  <2>5. used' \in Nat
    BY <1>6 DEF WorkerSucceeds, WorkerEvicted, PodResync, TypeOK, Disturb
  <2>6. UNCHANGED <<driverType, dc, module, handler, pass, slipped>>
    BY <1>6 DEF WorkerSucceeds, WorkerEvicted, PodResync
  <2> QED BY <1>0, <2>3, <2>4, <2>5, <2>6 DEF TypeOK
<1>7. ASSUME NEW n \in Nodes, CollectWorker(n) PROVE TypeOK'
  <2>1. Pods1
    BY <1>7 DEF CollectWorker, TypeOK
  <2> QED BY <1>0, <1>l, <1>7, <2>1 DEF CollectWorker, TypeOK
<1>8. ASSUME ModuleUnloads \/ \E n \in Nodes : ModuleLoads(n) PROVE TypeOK'
  <2>1. Labels1
    <3>1. CASE ModuleUnloads
      <4>1. /\ node' = [n \in Nodes |-> [node[n] EXCEPT !.vfs = FALSE, !.bound = FALSE]]
            /\ UNCHANGED nodeq
        BY <3>1 DEF ModuleUnloads
      <4> QED BY <4>1 DEF TypeOK, Node
    <3>2. ASSUME NEW n \in Nodes, ModuleLoads(n) PROVE Labels1
      <4>1. node' = [node EXCEPT ![n].vfs = TRUE] /\ UNCHANGED nodeq
        BY <3>2 DEF ModuleLoads
      <4> QED BY <4>1 DEF TypeOK, Node
    <3> QED BY <1>8, <3>1, <3>2
  <2> QED BY <1>0, <1>p, <1>8, <2>1 DEF ModuleUnloads, ModuleLoads, TypeOK
<1>9. ASSUME NEW n \in Nodes, Reboot(n) PROVE TypeOK'
  <2> DEFINE new == [node EXCEPT ![n].boot = @ + 1, ![n].vfs = FALSE, ![n].bound = FALSE]
  <2>1. new \in [Nodes -> Node] /\ Patch(new, nodeq)
    <3>1. Patch(new, nodeq) /\ node[n].boot < MaxReboots
      BY <1>9 DEF Reboot
    <3>2. node[n].boot + 1 \in 0 .. MaxReboots
      BY <3>1, NodeTypes, VFIOAssumption
    <3>3. new = [node EXCEPT ![n] = [node[n] EXCEPT !.boot = @ + 1, !.vfs = FALSE, !.bound = FALSE]]
      BY DEF TypeOK, Node
    <3>4. [node[n] EXCEPT !.boot = @ + 1, !.vfs = FALSE, !.bound = FALSE] \in Node
      BY <3>2, NodeTypes DEF Node
    <3> QED BY <3>1, <3>3, <3>4 DEF TypeOK
  <2> HIDE DEF new
  <2>2. Labels1
    BY <2>1, PatchTypes DEF TypeOK
  <2> QED BY <1>0, <1>p, <1>9, <2>2 DEF Reboot, TypeOK
<1>10. ASSUME NEW n \in Nodes, Touch(n) PROVE TypeOK'
  <2> DEFINE e == [typed |-> node[n].typed, ready |-> node[n].ready, rebooted |-> FALSE]
  <2>1. e \in NodeEvent /\ nodeq[n] \in Seq(NodeEvent)
    BY NodeTypes DEF NodeEvent
  <2> HIDE DEF e
  <2>2. Append(nodeq[n], e) \in Seq(NodeEvent)
    BY <2>1, AppendItems
  <2>3. nodeq' = [nodeq EXCEPT ![n] = Append(@, e)]
    BY <1>10 DEF Touch, e
  <2>4. Labels1
    BY <1>10, <2>2, <2>3 DEF Touch, TypeOK
  <2>5. used' \in Nat
    BY <1>10 DEF Touch, Disturb, TypeOK
  <2> QED BY <1>0, <1>p, <1>10, <2>4, <2>5 DEF Touch, TypeOK
<1>11. ASSUME DeleteDeviceConfig PROVE TypeOK'
  <2>1. used' \in Nat
    BY <1>11 DEF DeleteDeviceConfig, Disturb, TypeOK
  <2> QED BY <1>0, <1>p, <1>l, <1>11, <2>1 DEF DeleteDeviceConfig, TypeOK
<1>12. ASSUME Restart PROVE TypeOK'
  <2>1. used' \in Nat /\ slipped' \subseteq Nodes
    BY <1>12 DEF Restart, Disturb, Slip, TypeOK
  <2>2. Pods1 /\ Labels1
    BY <1>12 DEF Restart, TypeOK
  <2> QED BY <1>0, <1>12, <1>idle, <2>1, <2>2 DEF Restart, TypeOK
<1>13. CASE UNCHANGED vars
  BY <1>0, <1>p, <1>l, <1>13 DEF vars, TypeOK
<1> QED BY <1>1, <1>2, <1>3, <1>4, <1>5, <1>6, <1>7, <1>8, <1>9, <1>10, <1>11, <1>12, <1>13
        DEF Next, NodeWatcher, PodWatcher, Cluster

---------------------------------------------------------------------------
\* The life of the DeviceConfig and its Module

LEMMA StepLife ==
  ASSUME TypeOK, LifeInv, [Next]_vars PROVE LifeInv'
<1> USE DEF LifeInv
<1>1. ASSUME UNCHANGED <<driverType, dc, module, pass>> PROVE LifeInv'
  BY <1>1
<1>2. CASE Reconcile
  <2>0. UNCHANGED driverType
    BY <1>2 DEF Reconcile
  <2>1. CASE PassStart
    BY <2>0, <2>1 DEF PassStart, TypeOK
  <2>2. CASE RemoveFinalizer
    BY <2>0, <2>2 DEF RemoveFinalizer, IdlePass
  <2>3. ASSUME NEW done, HandleKMMModule(done) PROVE LifeInv'
    BY <2>0, <2>3 DEF HandleKMMModule, IdlePass, ShouldUseKMM
  <2>4. ASSUME NEW done, FinalizeLabels(done) PROVE LifeInv'
    <3>1. /\ pass.pc = "finalize" /\ UNCHANGED dc
          /\ \/ pass' = IdlePass /\ module' \in {module, "deleting"}
             \/ pass' = [pass EXCEPT !.pc = "check"] /\ module = "absent" /\ module' = "absent"
          /\ module = "absent" => module' = "absent"
      BY <2>4 DEF FinalizeLabels
    <3>2. pass' = IdlePass => pass'.pc = "idle"
      BY DEF IdlePass
    <3>3. pass' = [pass EXCEPT !.pc = "check"] => pass'.pc = "check"
      BY DEF TypeOK, Pass
    <3> QED BY <2>0, <3>1, <3>2, <3>3
  <2>5. ASSUME NEW n \in Nodes, CheckNode(n) PROVE LifeInv'
    <3>1. /\ pass.pc = "check" /\ UNCHANGED <<dc, module>>
          /\ pass' = IdlePass \/ pass' = [pass EXCEPT !.todo = @ \ {n}]
      BY <2>5 DEF CheckNode
    <3>2. pass'.pc \in {"idle", "check"}
      BY <3>1 DEF IdlePass, TypeOK, Pass
    <3> QED BY <2>0, <3>1, <3>2
  <2> QED BY <1>2, <2>1, <2>2, <2>3, <2>4, <2>5 DEF Reconcile
<1>3. CASE ModuleUnloads
  BY <1>3 DEF ModuleUnloads
<1>4. CASE DeleteDeviceConfig
  BY <1>4 DEF DeleteDeviceConfig
<1>5. CASE Restart
  BY <1>5 DEF Restart, IdlePass
<1>6. CASE NodeWatcher \/ PodWatcher \/ UNCHANGED vars
  BY <1>1, <1>6 DEF NodeWatcher, PodWatcher, HandlePostProcess, DeleteWorker,
                    HandleWorkerMgrPodEvt, vars
<1>7. CASE \E n \in Nodes : \/ WorkerSucceeds(n) \/ CollectWorker(n) \/ ModuleLoads(n)
                            \/ HandlePostProcessFails(n) \/ WorkerEvicted(n) \/ PodResync(n)
                            \/ Reboot(n) \/ Touch(n)
  BY <1>1, <1>7 DEF WorkerSucceeds, CollectWorker, ModuleLoads, HandlePostProcessFails,
                    WorkerEvicted, PodResync, Reboot, Touch
<1> QED BY <1>2, <1>3, <1>4, <1>5, <1>6, <1>7 DEF Next, Cluster

---------------------------------------------------------------------------
\* One node

\* What holds of every node, and what holds of one for which no request was lost
Local(n) == DriverInv(n) /\ BootInv(n) /\ NewsInv(n)
Kept(n) == HandledInv(n) /\ PfInv(n) /\ LoadInv(n) /\ ReadyInv(n) /\ CheckInv(n)
NodeInv(n) == Local(n) /\ (n \notin slipped => Kept(n))

\* A step that changes neither the worker of a node nor its labels and bindings
LEMMA Frame ==
  ASSUME TypeOK, NEW n \in Nodes, NodeInv(n), UNCHANGED driverType,
         node'[n].boot = node[n].boot, node'[n].ready = node[n].ready,
         node'[n].bound = node[n].bound, pod'[n] = pod[n], podq'[n] = podq[n],
         slipped \subseteq slipped', DriverInv(n)',
         n \notin slipped' =>
           /\ handler = n => handler' = n
           /\ \/ Driverless => Driverless'
              \/ ~node[n].ready /\ ~Loaded(pod[n]) /\ \A e \in Items(podq[n]) : ~Loaded(e)
           /\ CheckInv(n)'
           /\ Items(nodeq[n]) \subseteq Items(nodeq'[n]) \/ ReadyInv(n)'
  PROVE  NodeInv(n)'
<1> USE DEF NodeInv, Local, Kept
<1>1. BootInv(n)' /\ NewsInv(n)'
  BY DEF BootInv, NewsInv, Ended
<1>2. ASSUME n \notin slipped' PROVE HandledInv(n)' /\ PfInv(n)'
  BY <1>2 DEF HandledInv, PfInv, Ended
<1>3. ASSUME n \notin slipped' PROVE LoadInv(n)' /\ ReadyInv(n)'
  BY <1>3 DEF LoadInv, ReadyInv, Unloading
<1> QED BY <1>1, <1>2, <1>3

\* ... nor anything else that the invariant of the node is about
LEMMA Elsewhere ==
  ASSUME TypeOK, NEW n \in Nodes, NodeInv(n), UNCHANGED <<driverType, dc, module, pass>>,
         node'[n] = node[n], pod'[n] = pod[n], podq'[n] = podq[n],
         Items(nodeq[n]) \subseteq Items(nodeq'[n]),
         slipped \subseteq slipped', handler = n => handler' = n
  PROVE  NodeInv(n)'
<1>1. DriverInv(n)'
  BY DEF NodeInv, Local, DriverInv, Passthrough
<1>2. n \notin slipped' => CheckInv(n)'
  BY DEF NodeInv, Kept, CheckInv, Passthrough
<1>3. Driverless => Driverless'
  BY DEF Driverless
<1> QED BY <1>1, <1>2, <1>3, Frame

\* The reconciler, up to the checks
LEMMA ReconcileNode ==
  ASSUME TypeOK, LifeInv, NEW n \in Nodes, NodeInv(n), Reconcile,
         \A m \in Nodes : ~CheckNode(m)
  PROVE  NodeInv(n)'
<1> USE DEF NodeInv, Local, Kept
<1>0. UNCHANGED <<driverType, podq, handler>>
  BY DEF Reconcile
<1>1. CASE PassStart
  <2>1. /\ dc # "gone" /\ UNCHANGED <<dc, module, node, pod, nodeq, slipped>>
        /\ pass'.ready = {m \in Nodes : node[m].ready}
        /\ pass'.pc = IF dc = "deleting" THEN "finalize" ELSE "handle"
    BY <1>1 DEF PassStart
  <2>2. CheckInv(n)'
    BY <2>1 DEF CheckInv
  <2>3. DriverInv(n)' /\ (Driverless => Driverless')
    BY <1>0, <2>1 DEF DriverInv, Passthrough, Driverless, TypeOK
  <2> QED BY <1>0, <2>1, <2>2, <2>3, Frame
<1>2. CASE RemoveFinalizer
  <2>1. /\ pass.pc = "check" /\ (Passthrough => pass.todo = {}) /\ dc' = "gone"
        /\ pass'.pc = "idle" /\ UNCHANGED <<module, node, pod, nodeq, slipped>>
    BY <1>2 DEF RemoveFinalizer, IdlePass
  <2>2. n \notin slipped => CheckInv(n)'
    BY <1>0, <2>1 DEF CheckInv, DriverInv, TypeOK
  <2>3. DriverInv(n)' /\ (Driverless => Driverless')
    BY <1>0, <2>1 DEF DriverInv, Passthrough, Driverless
  <2> QED BY <1>0, <2>1, <2>2, <2>3, Frame
<1>3. ASSUME NEW done, NEW b \in BOOLEAN, UpdateDriverTypeNodeLabel(done, b)
      PROVE  /\ node'[n].boot = node[n].boot /\ node'[n].ready = node[n].ready
             /\ node'[n].bound = node[n].bound /\ node'[n].vfs = node[n].vfs
             /\ Items(nodeq[n]) \subseteq Items(nodeq'[n])
  <2> DEFINE new == [m \in Nodes |-> IF m \in done THEN [node[m] EXCEPT !.typed = b] ELSE node[m]]
  <2>1. Patch(new, nodeq)
    BY <1>3 DEF UpdateDriverTypeNodeLabel
  <2>2. /\ new[n].boot = node[n].boot /\ new[n].ready = node[n].ready
        /\ new[n].bound = node[n].bound /\ new[n].vfs = node[n].vfs
    BY NodeTypes DEF Node
  <2>3. new \in [Nodes -> Node]
    BY LabelTypes
  <2> HIDE DEF new
  <2>4. node'[n] = new[n] /\ Items(nodeq[n]) \subseteq Items(nodeq'[n])
    BY <2>1, <2>3, PatchTypes DEF TypeOK
  <2> QED BY <2>2, <2>4
<1>4. ASSUME NEW done, HandleKMMModule(done) PROVE NodeInv(n)'
  <2>1. /\ pass.pc = "handle" /\ UpdateDriverTypeNodeLabel(done, TRUE)
        /\ pass'.pc = "idle" /\ UNCHANGED <<dc, pod, slipped>>
        /\ module' = module \/ (module = "absent" /\ module' = "present")
    BY <1>4 DEF HandleKMMModule, IdlePass
  <2>2. dc # "gone" /\ module # "deleting"
    BY <2>1 DEF LifeInv
  <2>3. CheckInv(n)'
    BY <2>1, <2>2 DEF CheckInv
  <2>4. DriverInv(n)'
    BY <1>0, <1>3, <2>1 DEF DriverInv, Passthrough
  <2>5. \/ Driverless => Driverless'
        \/ ~node[n].ready /\ ~Loaded(pod[n]) /\ \A e \in Items(podq[n]) : ~Loaded(e)
    BY <1>0, <2>1 DEF DriverInv, Driverless
  <2> QED BY <1>0, <1>3, <2>1, <2>3, <2>4, <2>5, Frame
<1>5. ASSUME NEW done, FinalizeLabels(done) PROVE NodeInv(n)'
  <2>1. /\ pass.pc = "finalize" /\ UpdateDriverTypeNodeLabel(done, FALSE)
        /\ UNCHANGED <<dc, pod, slipped>>
        /\ module' = module \/ (module' = "deleting" /\ module # "absent")
    BY <1>5 DEF FinalizeLabels
  <2>2. \/ pass'.pc = "idle"
        \/ pass'.pc = "check" /\ pass'.ready = pass.ready /\ pass'.todo = pass.todo
    <3>1. pass' = IdlePass \/ pass' = [pass EXCEPT !.pc = "check"]
      BY <1>5 DEF FinalizeLabels
    <3> QED BY <3>1 DEF IdlePass, TypeOK, Pass
  <2>3. dc = "deleting" /\ pass.todo = Nodes
    BY <2>1 DEF LifeInv
  <2>4. n \notin slipped => CheckInv(n)'
    BY <1>3, <2>1, <2>2, <2>3 DEF CheckInv
  <2>5. DriverInv(n)' /\ (Driverless => Driverless')
    BY <1>0, <1>3, <2>1, <2>2, <2>3 DEF DriverInv, Passthrough, Driverless
  <2> QED BY <1>0, <1>3, <2>1, <2>4, <2>5, Frame
<1> QED BY <1>1, <1>2, <1>4, <1>5 DEF Reconcile

\* Setting the ready label of m
LEMMA LabelNode ==
  ASSUME TypeOK, NEW m \in Nodes, NEW b \in BOOLEAN, NEW q \in [Nodes -> Seq(NodeEvent)],
         Patch(Label(m, b), q)
  PROVE  \A n \in Nodes :
           /\ n # m => node'[n] = node[n]
           /\ n = m => /\ node'[n].ready = b /\ node'[n].boot = node[n].boot
                       /\ node'[n].vfs = node[n].vfs /\ node'[n].bound = node[n].bound
           /\ Items(q[n]) \subseteq Items(nodeq'[n])
<1>1. Label(m, b) \in [Nodes -> Node]
  BY LabelTypes
<1>2. \A n \in Nodes : node'[n] = Label(m, b)[n] /\ Items(q[n]) \subseteq Items(nodeq'[n])
  BY <1>1, PatchTypes
<1>3. Label(m, b) = [node EXCEPT ![m].ready = b]
  BY DEF Label
<1>4. \A n \in Nodes : n # m => Label(m, b)[n] = node[n]
  BY <1>3 DEF TypeOK
<1>5. Label(m, b)[m] = [node[m] EXCEPT !.ready = b]
  BY <1>3 DEF TypeOK
<1>6. /\ Label(m, b)[m].ready = b /\ Label(m, b)[m].boot = node[m].boot
      /\ Label(m, b)[m].vfs = node[m].vfs /\ Label(m, b)[m].bound = node[m].bound
  BY <1>5, NodeTypes DEF Node
<1> QED BY <1>2, <1>4, <1>6

LEMMA NoPodFields ==
  /\ NoPod.phase = "None" /\ NoPod.boot = 0 /\ ~Loaded(NoPod) /\ NoPod \notin Pod
BY DEF NoPod, Loaded, Pod

\* checkPostProcessFinalizeCondition
LEMMA CheckNodeStep ==
  ASSUME TypeOK, LifeInv, NEW n \in Nodes, NodeInv(n), NEW m \in Nodes, CheckNode(m),
         UNCHANGED <<driverType, podq, handler>>
  PROVE  NodeInv(n)'
<1> USE DEF NodeInv, Local, Kept
<1>0. /\ pass.pc = "check" /\ Passthrough /\ UNCHANGED <<dc, module, slipped>>
      /\ dc = "deleting" /\ module = "absent"
  BY DEF CheckNode, LifeInv
<1>1. /\ pass' = IdlePass \/ (pass' = [pass EXCEPT !.todo = @ \ {m}] /\ m \notin pass.ready /\ pod[m] = NoPod)
      /\ UNCHANGED <<node, nodeq>> \/ Patch(node, nodeq) \/ (ForceCleanup /\ Patch(Label(m, FALSE), nodeq))
      /\ UNCHANGED pod \/ (ForceCleanup /\ pod' = [pod EXCEPT ![m] = NoPod])
  BY DEF CheckNode
<1>2. /\ pass'.pc \in {"idle", "check"}
      /\ pass'.pc = "check" => /\ pass'.ready = pass.ready /\ pass'.todo = pass.todo \ {m}
                               /\ m \notin pass.ready /\ pod[m] = NoPod
  <2>1. pass' = IdlePass => pass'.pc = "idle"
    BY DEF IdlePass
  <2>2. pass' = [pass EXCEPT !.todo = @ \ {m}] =>
          pass'.pc = "check" /\ pass'.ready = pass.ready /\ pass'.todo = pass.todo \ {m}
    BY <1>0 DEF TypeOK, Pass
  <2> QED BY <1>1, <2>1, <2>2
<1>3. /\ node'[n].boot = node[n].boot /\ node'[n].vfs = node[n].vfs
      /\ node'[n].bound = node[n].bound
      /\ node'[n].ready = node[n].ready \/ (n = m /\ ForceCleanup /\ node'[n].ready = FALSE)
      /\ Items(nodeq[n]) \subseteq Items(nodeq'[n])
  <2>1. CASE UNCHANGED <<node, nodeq>>
    BY <2>1
  <2>2. CASE Patch(node, nodeq)
    BY <2>2, PatchTypes DEF TypeOK
  <2>3. CASE ForceCleanup /\ Patch(Label(m, FALSE), nodeq)
    <3>1. nodeq \in [Nodes -> Seq(NodeEvent)]
      BY DEF TypeOK
    <3> QED BY <2>3, <3>1, LabelNode
  <2> QED BY <1>1, <2>1, <2>2, <2>3
<1>4. pod'[n] = pod[n] \/ (n = m /\ ForceCleanup /\ pod'[n] = NoPod)
  BY <1>1 DEF TypeOK
<1>5. DriverInv(n)'
  BY <1>0, <1>2, <1>3, <1>4, NoPodFields DEF DriverInv, Passthrough
<1>6. n \notin slipped => CheckInv(n)'
  <2> SUFFICES ASSUME n \notin slipped, pass'.pc = "check" PROVE CheckInv(n)'
    BY <1>0, <1>2 DEF CheckInv
  <2>1. CASE n # m
    BY <1>0, <1>2, <1>3, <1>4, <2>1 DEF CheckInv, Passthrough
  <2>2. CASE n = m
    <3>1. n \notin pass.ready /\ pod[n] = NoPod /\ ~node[n].ready /\ ~node'[n].ready
      BY <1>0, <1>2, <1>3, <2>2 DEF CheckInv
    <3>2. ~node[n].bound
      BY <1>0, <3>1, NoPodFields DEF DriverInv, PfInv, Passthrough
    <3> QED BY <1>3, <1>4, <3>1, <3>2 DEF CheckInv
  <2> QED BY <2>1, <2>2
<1>7. CASE node'[n].ready = node[n].ready /\ pod'[n] = pod[n]
  <2>1. Driverless => Driverless'
    BY <1>0 DEF Driverless
  <2> QED BY <1>0, <1>3, <1>5, <1>6, <1>7, <2>1, Frame
<1>8. CASE ForceCleanup /\ ~(node'[n].ready = node[n].ready /\ pod'[n] = pod[n])
  <2>1. driverType = "vf-passthrough" /\ Driverless' /\ ~node[n].bound /\ ~node'[n].bound
    BY <1>0, <1>3, <1>8 DEF ForceCleanup, Driverless, DriverInv
  <2>2. BootInv(n)' /\ NewsInv(n)'
    BY <1>3, <1>4, NoPodFields, NodeTypes DEF BootInv, NewsInv, Ended
  <2>3. n \notin slipped => HandledInv(n)'
    BY <1>3, <1>4, <2>1, NoPodFields DEF HandledInv, Ended
  <2>4. PfInv(n)' /\ LoadInv(n)' /\ ReadyInv(n)'
    BY <2>1 DEF PfInv, LoadInv, ReadyInv
  <2> QED BY <1>0, <1>5, <1>6, <2>2, <2>3, <2>4
<1> QED BY <1>3, <1>4, <1>7, <1>8

---------------------------------------------------------------------------
\* The node watcher

\* It takes the oldest event of m
LEMMA TakeEvent ==
  ASSUME TypeOK, NEW m \in Nodes, nodeq[m] # <<>>, NEW new \in [Nodes -> Node],
         Patch(new, [nodeq EXCEPT ![m] = Tail(@)])
  PROVE  /\ Head(nodeq[m]) \in NodeEvent
         /\ \A n \in Nodes :
              /\ node'[n] = new[n]
              /\ n # m => Items(nodeq[n]) \subseteq Items(nodeq'[n])
              /\ n = m => Items(nodeq[n]) \subseteq Items(nodeq'[n]) \cup {Head(nodeq[m])}
<1> DEFINE rest == [nodeq EXCEPT ![m] = Tail(@)]
<1>1. rest \in [Nodes -> Seq(NodeEvent)] /\ Head(nodeq[m]) \in NodeEvent
  BY RestTypes
<1>2. /\ \A n \in Nodes : n # m => rest[n] = nodeq[n]
      /\ rest[m] = Tail(nodeq[m])
  BY DEF TypeOK
<1>3. Patch(new, rest)
  OBVIOUS
<1> HIDE DEF rest
<1>4. \A n \in Nodes : node'[n] = new[n] /\ Items(rest[n]) \subseteq Items(nodeq'[n])
  BY <1>1, <1>3, PatchTypes
<1>5. nodeq[m] \in Seq(NodeEvent)
  BY DEF TypeOK
<1>6. Items(nodeq[m]) \subseteq Items(Tail(nodeq[m])) \cup {Head(nodeq[m])}
  BY <1>5, TailItems
<1> QED BY <1>1, <1>2, <1>4, <1>6

\* News of a worker is a pod
LEMMA NewsTypes ==
  ASSUME TypeOK, NEW n \in Nodes
  PROVE  \A e \in Items(podq[n]) : /\ e \in Pod /\ e # NoPod /\ e.boot \in Nat
                                   /\ e.action \in Actions
                                   /\ e.phase \in {"Running", "Succeeded", "Failed"}
<1>1. podq[n] \in Seq(Pod)
  BY DEF TypeOK
<1>2. \A e \in Items(podq[n]) : e \in Pod
  BY <1>1 DEF Items
<1>3. \A k \in 0 .. MaxReboots : k \in Nat
  BY VFIOAssumption
<1> QED BY <1>2, <1>3, NoPodFields DEF Pod

\* Work and Cleanup, for the event e
LEMMA CreateNode ==
  ASSUME TypeOK, NEW n \in Nodes, NodeInv(n), NEW a \in Actions, CreateWorker(n, a),
         NEW e, IF a = "load" THEN ~e.ready ELSE e.ready /\ ~e.typed,
         Passthrough, dc # "gone", UNCHANGED <<driverType, dc, module, podq, handler, pass>>,
         node'[n] = node[n], Items(nodeq[n]) \subseteq Items(nodeq'[n]) \cup {e}
  PROVE  NodeInv(n)'
<1> USE DEF NodeInv, Local, Kept
<1>1. slipped \subseteq slipped'
  BY DEF CreateWorker, Slip
<1>2. n \notin slipped' =>
        /\ pod[n] # NoPod => pod[n].action = a /\ pod[n].phase = "Running"
        /\ ~(pass.pc = "check" /\ n \notin pass.todo)
  BY DEF CreateWorker, Slip
<1>3. /\ pod[n] # NoPod => pod'[n] = pod[n]
      /\ pod[n] = NoPod =>
           pod'[n] = [action |-> a, phase |-> "Running", boot |-> node[n].boot]
  BY DEF CreateWorker, TypeOK
<1>4. a = "load" \/ a = "unload"
  BY DEF Actions
<1>5. a = "unload" /\ n \notin slipped' => Unloading(n)'
  <2>1. pod[n] = NoPod => pod'[n].action = a /\ pod'[n].phase = "Running"
    BY <1>3
  <2> QED BY <1>2, <1>3, <2>1, NoPodFields DEF Unloading
<1>6. n \notin slipped' => ReadyInv(n)'
  <2> SUFFICES ASSUME n \notin slipped', a = "load" PROVE ReadyInv(n)'
    BY <1>4, <1>5 DEF ReadyInv
  <2>1. Unloading(n) => Unloading(n)'
    BY <1>3 DEF Unloading
  <2>2. ReadyInv(n) /\ ~e.ready
    BY <1>1
  <2>3. \A x \in Items(nodeq[n]) : x.ready => x \in Items(nodeq'[n])
    BY <2>2
  <2> QED BY <2>1, <2>2, <2>3 DEF ReadyInv, Driverless
<1>7. n \notin slipped' => CheckInv(n)'
  BY <1>1, <1>2 DEF CheckInv, Passthrough
<1>8. CASE pod[n] # NoPod
  <2>1. DriverInv(n)' /\ (Driverless => Driverless')
    BY <1>3, <1>8 DEF DriverInv, Passthrough, Driverless
  <2> QED BY <1>1, <1>3, <1>6, <1>7, <1>8, <2>1, Frame
<1>9. CASE pod[n] = NoPod
  <2>1. /\ pod'[n].phase = "Running" /\ pod'[n].boot = node[n].boot /\ pod'[n].action = a
        /\ ~Loaded(pod'[n])
    BY <1>3, <1>9 DEF Loaded
  <2>2. DriverInv(n)'
    BY <2>1 DEF DriverInv, Passthrough
  <2>3. BootInv(n)' /\ NewsInv(n)'
    BY <2>1, NodeTypes DEF BootInv, NewsInv, Ended
  <2>4. n \notin slipped' => HandledInv(n)' /\ PfInv(n)'
    BY <1>1, <1>9, <2>1, NoPodFields, NewsTypes DEF HandledInv, PfInv, Ended
  <2>5. n \notin slipped' => LoadInv(n)'
    BY <1>1, <1>9, <2>1, NoPodFields DEF LoadInv, Unloading, Driverless
  <2> QED BY <1>6, <1>7, <2>2, <2>3, <2>4, <2>5
<1> QED BY <1>8, <1>9

LEMMA HandlePostProcessNode ==
  ASSUME TypeOK, NEW n \in Nodes, NodeInv(n), NEW m \in Nodes, HandlePostProcess(m)
  PROVE  NodeInv(n)'
<1> USE DEF NodeInv, Local, Kept
<1> DEFINE e == Head(nodeq[m])
           rest == [nodeq EXCEPT ![m] = Tail(@)]
<1>0. nodeq[m] # <<>> /\ UNCHANGED <<driverType, dc, module, podq, handler, pass>>
  BY DEF HandlePostProcess
<1>1. \/ e.typed /\ ~e.ready /\ dc # "gone" /\ Work(m) /\ Patch(node, rest)
      \/ ~e.typed /\ e.ready /\ dc # "gone" /\ Cleanup(m) /\ Patch(node, rest)
      \/ /\ Patch(Label(m, FALSE), rest) /\ UNCHANGED pod
         /\ Slip({k \in {m} : node[k].bound})
      \/ /\ \/ e.typed # e.ready /\ dc = "gone"
            \/ e.typed = e.ready /\ ~(e.rebooted /\ e.ready)
         /\ Patch(node, rest) /\ UNCHANGED <<pod, slipped>>
  BY DEF HandlePostProcess
<1>2. node \in [Nodes -> Node]
  BY DEF TypeOK
<1>3. ASSUME Patch(node, rest)
      PROVE  /\ node'[n] = node[n] /\ e \in NodeEvent
             /\ n # m => Items(nodeq[n]) \subseteq Items(nodeq'[n])
             /\ n = m => Items(nodeq[n]) \subseteq Items(nodeq'[n]) \cup {e}
  BY <1>0, <1>2, <1>3, TakeEvent
<1>4. ASSUME Patch(Label(m, FALSE), rest)
      PROVE  /\ n # m => node'[n] = node[n] /\ Items(nodeq[n]) \subseteq Items(nodeq'[n])
             /\ n = m => /\ node'[n].ready = FALSE /\ node'[n].boot = node[n].boot
                         /\ node'[n].vfs = node[n].vfs /\ node'[n].bound = node[n].bound
  <2>1. rest \in [Nodes -> Seq(NodeEvent)] /\ (n # m => rest[n] = nodeq[n])
    BY <1>0, RestTypes DEF TypeOK
  <2>2. Patch(Label(m, FALSE), rest)
    BY <1>4
  <2> HIDE DEF rest
  <2>3. \A k \in Nodes :
          /\ k # m => node'[k] = node[k]
          /\ k = m => /\ node'[k].ready = FALSE /\ node'[k].boot = node[k].boot
                      /\ node'[k].vfs = node[k].vfs /\ node'[k].bound = node[k].bound
          /\ Items(rest[k]) \subseteq Items(nodeq'[k])
    BY <2>1, <2>2, LabelNode
  <2> QED BY <2>1, <2>3
<1>5. \/ UNCHANGED <<pod, slipped>>
      \/ Passthrough /\ CreateWorker(m, "load")
      \/ Passthrough /\ CreateWorker(m, "unload")
      \/ UNCHANGED pod /\ Slip({k \in {m} : node[k].bound})
  <2>1. Work(m) => UNCHANGED <<pod, slipped>> \/ (Passthrough /\ CreateWorker(m, "load"))
    BY DEF Work
  <2>2. Cleanup(m) => UNCHANGED <<pod, slipped>> \/ (Passthrough /\ CreateWorker(m, "unload"))
    BY DEF Cleanup
  <2> HIDE DEF e, rest
  <2> QED BY <1>1, <2>1, <2>2, Zenon
<1>6. CASE n # m
  <2>1. node'[n] = node[n] /\ Items(nodeq[n]) \subseteq Items(nodeq'[n])
    BY <1>1, <1>3, <1>4, <1>6
  <2>2. slipped \subseteq slipped' /\ pod'[n] = pod[n]
    BY <1>5, <1>6 DEF CreateWorker, Slip, TypeOK
  <2> QED BY <1>0, <2>1, <2>2, Elsewhere
<1>7. CASE n = m
  <2> HIDE DEF e, rest
  <2>1. CASE ~Passthrough
    <3>1. ~node[n].ready
      BY <2>1 DEF DriverInv
    <3>2. slipped \subseteq slipped' /\ UNCHANGED pod
      BY <1>5, <2>1 DEF Slip
    <3>3. /\ node'[n].ready = FALSE /\ node'[n].boot = node[n].boot
          /\ node'[n].vfs = node[n].vfs /\ node'[n].bound = node[n].bound
      BY <1>1, <1>3, <1>4, <1>7, <3>1, NodeTypes
    <3>4. DriverInv(n)' /\ ReadyInv(n)' /\ (Driverless => Driverless')
      BY <1>0, <3>1, <3>2, <3>3 DEF DriverInv, ReadyInv, Passthrough, Driverless
    <3>5. n \notin slipped' => CheckInv(n)'
      BY <1>0, <3>2, <3>3 DEF CheckInv, Passthrough
    <3>6. node'[n].ready = node[n].ready
      BY <3>1, <3>3, NodeTypes
    <3> QED BY <1>0, <3>2, <3>3, <3>4, <3>5, <3>6, Frame
  <2>2. CASE /\ Passthrough
             /\ e.typed /\ ~e.ready /\ dc # "gone" /\ Work(m) /\ Patch(node, rest)
    <3>1. CreateWorker(n, "load") /\ "load" \in Actions
      BY <1>7, <2>2 DEF Work, Actions
    <3> QED BY <1>0, <1>3, <1>7, <2>2, <3>1, CreateNode
  <2>3. CASE /\ Passthrough
             /\ ~e.typed /\ e.ready /\ dc # "gone" /\ Cleanup(m) /\ Patch(node, rest)
    <3>1. CreateWorker(n, "unload") /\ "unload" \in Actions
      BY <1>7, <2>3 DEF Cleanup, Actions
    <3> QED BY <1>0, <1>3, <1>7, <2>3, <3>1, CreateNode
  <2>4. CASE Patch(Label(m, FALSE), rest) /\ UNCHANGED pod /\ Slip({k \in {m} : node[k].bound})
    <3>1. slipped \subseteq slipped' /\ (n \notin slipped' => ~node[n].bound)
      BY <1>7, <2>4 DEF Slip
    <3>2. /\ node'[n].ready = FALSE /\ node'[n].boot = node[n].boot
          /\ node'[n].vfs = node[n].vfs /\ node'[n].bound = node[n].bound
      BY <1>4, <1>7, <2>4
    <3>3. DriverInv(n)' /\ BootInv(n)' /\ NewsInv(n)'
      BY <1>0, <2>4, <3>2 DEF DriverInv, BootInv, NewsInv, Passthrough, Ended
    <3>4. n \notin slipped' => HandledInv(n)' /\ PfInv(n)' /\ ReadyInv(n)'
      BY <1>0, <2>4, <3>1, <3>2 DEF HandledInv, PfInv, ReadyInv, Ended
    <3>5. n \notin slipped' => LoadInv(n)' /\ CheckInv(n)'
      BY <1>0, <2>4, <3>1, <3>2 DEF LoadInv, CheckInv, Unloading, Driverless, Passthrough
    <3> QED BY <3>3, <3>4, <3>5
  <2>5. CASE /\ \/ e.typed # e.ready /\ dc = "gone"
                \/ e.typed = e.ready /\ ~(e.rebooted /\ e.ready)
             /\ Patch(node, rest) /\ UNCHANGED <<pod, slipped>>
    <3>1. DriverInv(n)' /\ (Driverless => Driverless')
      BY <1>0, <1>3, <2>5 DEF DriverInv, Passthrough, Driverless
    <3>2. n \notin slipped => CheckInv(n)'
      BY <1>0, <1>3, <2>5 DEF CheckInv, Passthrough
    <3>3. n \notin slipped => ReadyInv(n)'
      <4>1. CASE dc = "gone"
        BY <1>3, <2>5, <4>1 DEF CheckInv, ReadyInv
      <4>2. CASE e.typed = e.ready /\ ~(e.rebooted /\ e.ready)
        <5>1. ~(e.ready /\ (e.rebooted \/ ~e.typed))
          BY <1>3, <2>5, <4>2 DEF NodeEvent
        <5>2. \A x \in Items(nodeq[n]) : x = e \/ x \in Items(nodeq'[n])
          BY <1>3, <1>7, <2>5
        <5> QED BY <1>0, <1>3, <2>5, <5>1, <5>2 DEF ReadyInv, Unloading, Driverless
      <4> QED BY <2>5, <4>1, <4>2
    <3> QED BY <1>0, <1>3, <2>5, <3>1, <3>2, <3>3, Frame
  <2> QED BY <1>1, <2>1, <2>2, <2>3, <2>4, <2>5
<1> QED BY <1>6, <1>7

\* A request is lost: only what holds of every node has to be kept
LEMMA HandlePostProcessFailsNode ==
  ASSUME TypeOK, NEW n \in Nodes, NodeInv(n), NEW m \in Nodes, HandlePostProcessFails(m)
  PROVE  NodeInv(n)'
<1>1. /\ nodeq[m] # <<>> /\ Patch(node, [nodeq EXCEPT ![m] = Tail(@)]) /\ Slip({m})
      /\ UNCHANGED <<driverType, dc, module, pod, podq, handler, pass>>
  BY DEF HandlePostProcessFails
<1>2. /\ node'[n] = node[n]
      /\ n # m => Items(nodeq[n]) \subseteq Items(nodeq'[n])
  BY <1>1, TakeEvent DEF TypeOK
<1>3. slipped' = slipped \cup {m}
  BY <1>1 DEF Slip
<1>4. CASE n # m
  BY <1>1, <1>2, <1>3, <1>4, Elsewhere
<1>5. CASE n = m
  BY <1>1, <1>2, <1>3, <1>5
     DEF NodeInv, Local, DriverInv, BootInv, NewsInv, Passthrough, Ended
<1> QED BY <1>4, <1>5

---------------------------------------------------------------------------
\* The pod watcher

LEMMA HandleWorkerMgrPodEvtNode ==
  ASSUME TypeOK, NEW n \in Nodes, NodeInv(n), NEW m \in Nodes, HandleWorkerMgrPodEvt(m)
  PROVE  NodeInv(n)'
<1> USE DEF NodeInv, Local, Kept
<1> DEFINE e == Head(podq[m])
           late == /\ e.action = "load"
                   /\ \/ e.boot # node[m].boot \/ dc = "gone"
                      \/ pass.pc \in {"finalize", "check"}
<1>0. /\ handler = None /\ handler' = m /\ podq[m] # <<>>
      /\ podq' = [podq EXCEPT ![m] = Tail(@)]
      /\ UNCHANGED <<driverType, dc, module, pod, pass>>
  BY DEF HandleWorkerMgrPodEvt
<1>1. \/ /\ e.phase = "Succeeded" /\ Patch(Label(m, e.action = "load"), nodeq)
         /\ slipped \subseteq slipped' /\ slipped' \subseteq slipped \cup {m}
         /\ m \notin slipped' => ~late
      \/ slipped' = slipped \cup {m} /\ UNCHANGED <<node, nodeq>>
  BY DEF HandleWorkerMgrPodEvt, Slip
<1>2. handler # n
  BY <1>0, VFIOAssumption
<1>3. ASSUME Patch(Label(m, e.action = "load"), nodeq)
      PROVE  /\ n # m => node'[n] = node[n]
             /\ n = m => /\ node'[n].ready = (e.action = "load") /\ node'[n].boot = node[n].boot
                         /\ node'[n].vfs = node[n].vfs /\ node'[n].bound = node[n].bound
             /\ Items(nodeq[n]) \subseteq Items(nodeq'[n])
  <2> DEFINE b == e.action = "load"
  <2>1. b \in BOOLEAN /\ nodeq \in [Nodes -> Seq(NodeEvent)] /\ Patch(Label(m, b), nodeq)
    BY <1>3 DEF TypeOK
  <2> HIDE DEF b
  <2>2. /\ n # m => node'[n] = node[n]
        /\ n = m => /\ node'[n].ready = b /\ node'[n].boot = node[n].boot
                    /\ node'[n].vfs = node[n].vfs /\ node'[n].bound = node[n].bound
        /\ Items(nodeq[n]) \subseteq Items(nodeq'[n])
    BY <2>1, LabelNode
  <2> QED BY <2>2 DEF b
<1>4. CASE n # m
  <2>1. podq'[n] = podq[n]
    BY <1>0, <1>4 DEF TypeOK
  <2>2. node'[n] = node[n] /\ Items(nodeq[n]) \subseteq Items(nodeq'[n])
    BY <1>1, <1>3, <1>4
  <2>3. slipped \subseteq slipped'
    BY <1>1
  <2> QED BY <1>0, <1>2, <2>1, <2>2, <2>3, Elsewhere
<1>5. CASE n = m
  <2>1. /\ podq'[n] = Tail(podq[n]) /\ podq[n] \in Seq(Pod) /\ podq[n] # <<>> /\ Passthrough
    BY <1>0, <1>5 DEF TypeOK
  <2>2. /\ e \in Items(podq[n]) /\ Items(podq'[n]) \subseteq Items(podq[n])
        /\ podq'[n] # <<>> => podq'[n][Len(podq'[n])] = podq[n][Len(podq[n])]
        /\ podq'[n] = <<>> => podq[n][Len(podq[n])] = e
    BY <1>5, <2>1, TailItems
  <2>3. e.action \in Actions /\ e.phase \in {"Running", "Succeeded", "Failed"}
    BY <2>2, NewsTypes
  <2>4. /\ node'[n].boot = node[n].boot /\ node'[n].vfs = node[n].vfs
        /\ node'[n].bound = node[n].bound
        /\ \/ e.phase = "Succeeded" /\ node'[n].ready = (e.action = "load")
           \/ n \in slipped' /\ node'[n].ready = node[n].ready
    BY <1>1, <1>3, <1>5
  <2> HIDE DEF e
  <2>5. DriverInv(n)'
    BY <1>0, <2>1, <2>2, <2>4 DEF DriverInv, Passthrough, Loaded
  <2>6. BootInv(n)' /\ NewsInv(n)'
    BY <1>0, <2>1, <2>2, <2>4 DEF BootInv, NewsInv, Ended
  <2>7. ASSUME n \notin slipped' PROVE Kept(n)'
    <3>1. /\ n \notin slipped /\ e.phase = "Succeeded" /\ node'[n].ready = (e.action = "load")
          /\ ~late
      BY <1>1, <1>5, <2>4, <2>7
    <3>2. HandledInv(n)'
      BY <1>0, <1>5, <2>1, <2>2, <2>3, <2>4, <3>1 DEF HandledInv, NewsInv, Ended, Actions
    <3>3. PfInv(n)'
      <4> SUFFICES ASSUME driverType = "pf-passthrough"
                   PROVE  node'[n].bound /\ ~node'[n].ready => Loaded(pod'[n])
        BY <1>0, <2>2, <3>1 DEF PfInv
      <4>1. e = pod[n]
        BY <2>2, <3>1 DEF PfInv
      <4> QED BY <1>0, <2>3, <2>4, <3>1, <4>1 DEF NewsInv, Ended, Actions
    <3>4. LoadInv(n)'
      BY <1>0, <2>2, <2>4, <3>1 DEF LoadInv, Unloading, Driverless
    <3>5. ReadyInv(n)'
      <4> SUFFICES ASSUME e.action = "load" PROVE node[n].bound \/ Unloading(n) \/ Driverless
        BY <1>0, <2>4, <3>1 DEF ReadyInv, Unloading, Driverless
      <4>1. Loaded(e) /\ e.boot = node[n].boot
        BY <1>5, <3>1 DEF Loaded
      <4> QED BY <2>2, <3>1, <4>1 DEF LoadInv
    <3>6. CheckInv(n)'
      BY <1>0, <1>5, <2>4, <3>1 DEF CheckInv, Passthrough
    <3> QED BY <3>2, <3>3, <3>4, <3>5, <3>6
  <2> QED BY <2>5, <2>6, <2>7
<1> QED BY <1>4, <1>5

LEMMA DeleteWorkerNode ==
  ASSUME TypeOK, NEW n \in Nodes, NodeInv(n), DeleteWorker PROVE NodeInv(n)'
<1> USE DEF NodeInv, Local, Kept
<1>0. /\ handler \in Nodes /\ handler' = None
      /\ UNCHANGED <<driverType, dc, module, node, nodeq, podq, pass>>
  BY DEF DeleteWorker, TypeOK
<1>1. slipped \subseteq slipped' /\ (n # handler => pod'[n] = pod[n])
  BY DEF DeleteWorker, Slip, TypeOK
<1>2. CASE n # handler
  BY <1>0, <1>1, <1>2, Elsewhere
<1>3. CASE n = handler
  <2>1. \/ pod'[n] = pod[n] /\ n \in slipped'
        \/ /\ pod'[n] = NoPod
           /\ n \notin slipped' => pod[n].phase # "Running" /\ podq[n] = <<>>
    BY <1>0, <1>3 DEF DeleteWorker, Slip, TypeOK
  <2>2. DriverInv(n)' /\ BootInv(n)' /\ NewsInv(n)'
    BY <1>0, <2>1, NoPodFields, NodeTypes
       DEF DriverInv, BootInv, NewsInv, Passthrough, Ended
  <2>3. ASSUME n \notin slipped' PROVE Kept(n)'
    <3>1. /\ pod'[n] = NoPod /\ pod[n].phase # "Running" /\ podq[n] = <<>> /\ n \notin slipped
          /\ Items(podq[n]) = {}
      BY <1>1, <2>1, <2>3 DEF Items
    <3>2. pod[n] # NoPod => Ended(n)
      BY <3>1, NodeTypes DEF Ended
    <3>3. HandledInv(n)' /\ LoadInv(n)'
      BY <1>0, <3>1, NoPodFields DEF HandledInv, LoadInv, Ended
    <3>4. PfInv(n)'
      BY <1>0, <3>1, <3>2, NoPodFields DEF PfInv, HandledInv, Loaded
    <3>5. ReadyInv(n)'
      BY <1>0, <3>1, <3>2 DEF ReadyInv, HandledInv, Unloading, Driverless
    <3>6. CheckInv(n)'
      BY <1>0, <3>1 DEF CheckInv, Passthrough
    <3> QED BY <3>3, <3>4, <3>5, <3>6
  <2> QED BY <2>2, <2>3
<1> QED BY <1>2, <1>3

---------------------------------------------------------------------------
\* Workers

\* Kubelet reports p of the worker of m
LEMMA ReportNode ==
  ASSUME TypeOK, NEW m \in Nodes, NEW p \in Pod, Report(m, p)
  PROVE  \A n \in Nodes :
           /\ n # m => pod'[n] = pod[n] /\ podq'[n] = podq[n]
           /\ n = m => /\ pod'[n] = p /\ podq'[n] # <<>> /\ podq'[n][Len(podq'[n])] = p
                       /\ Items(podq'[n]) = Items(podq[n]) \cup {p}
<1>1. podq[m] \in Seq(Pod)
  BY DEF TypeOK
<1>2. /\ pod'[m] = p /\ podq'[m] = Append(podq[m], p)
      /\ \A n \in Nodes : n # m => pod'[n] = pod[n] /\ podq'[n] = podq[n]
  BY DEF Report, TypeOK
<1>3. /\ Append(podq[m], p) # <<>> /\ Append(podq[m], p)[Len(Append(podq[m], p))] = p
      /\ Items(Append(podq[m], p)) = Items(podq[m]) \cup {p}
  BY <1>1, AppendItems
<1> QED BY <1>2, <1>3

\* A running worker of a physical function has no news yet
LEMMA NoNews ==
  ASSUME NEW n \in Nodes, NewsInv(n), PfInv(n), pod[n].phase = "Running",
         driverType = "pf-passthrough"
  PROVE  Items(podq[n]) = {}
BY DEF NewsInv, PfInv

LEMMA WorkerSucceedsNode ==
  ASSUME TypeOK, NEW n \in Nodes, NodeInv(n), NEW m \in Nodes, WorkerSucceeds(m)
  PROVE  NodeInv(n)'
<1> USE DEF NodeInv, Local, Kept
<1> DEFINE p == [pod[m] EXCEPT !.phase = "Succeeded", !.boot = node[m].boot]
<1>0. /\ pod[m].phase = "Running"
      /\ pod[m].action = "load" /\ driverType = "vf-passthrough" => node[m].vfs
      /\ Report(m, p) /\ node' = [node EXCEPT ![m].bound = pod[m].action = "load"]
      /\ UNCHANGED <<driverType, dc, module, nodeq, handler, pass, slipped>>
  BY DEF WorkerSucceeds
<1>1. /\ p \in Pod /\ p.phase = "Succeeded" /\ p.boot = node[m].boot
      /\ p.action = pod[m].action /\ pod[m] # NoPod /\ p.action \in Actions
  BY <1>0, NodeTypes, NoPodFields DEF Pod, Node
<1> HIDE DEF p
<1>2. /\ n # m => pod'[n] = pod[n] /\ podq'[n] = podq[n]
      /\ n = m => /\ pod'[n] = p /\ podq'[n] # <<>> /\ podq'[n][Len(podq'[n])] = p
                  /\ Items(podq'[n]) = Items(podq[n]) \cup {p}
  BY <1>0, <1>1, ReportNode
<1>3. CASE n # m
  <2>1. node'[n] = node[n]
    BY <1>0, <1>3 DEF TypeOK
  <2> QED BY <1>0, <1>2, <1>3, <2>1, Elsewhere
<1>4. CASE n = m
  <2>1. /\ node'[n].boot = node[n].boot /\ node'[n].ready = node[n].ready
        /\ node'[n].vfs = node[n].vfs /\ node'[n].bound = (p.action = "load")
    BY <1>0, <1>1, <1>4, NodeTypes DEF TypeOK, Node
  <2>2. p # NoPod /\ Passthrough
    BY <1>1, NoPodFields DEF TypeOK
  <2>3. DriverInv(n)'
    BY <1>0, <1>1, <1>2, <1>4, <2>1, <2>2 DEF DriverInv, Passthrough, Loaded
  <2>4. BootInv(n)'
    BY <1>1, <1>2, <1>4, <2>1, NodeTypes DEF BootInv
  <2>5. NewsInv(n)'
    BY <1>1, <1>2, <1>4, <2>1 DEF NewsInv, Ended
  <2>6. ASSUME n \notin slipped PROVE Kept(n)'
    <3>1. HandledInv(n)'
      BY <1>2, <1>4 DEF HandledInv
    <3>2. PfInv(n)'
      <4> SUFFICES ASSUME driverType = "pf-passthrough"
                   PROVE  /\ \A e \in Items(podq'[n]) : e = pod'[n]
                          /\ node'[n].bound /\ ~node'[n].ready => Loaded(pod'[n])
        BY <1>0 DEF PfInv
      <4>1. Items(podq[n]) = {}
        BY <1>0, <1>4, <2>6, NoNews
      <4> QED BY <1>1, <1>2, <1>4, <2>1, <4>1 DEF Loaded
    <3>3. LoadInv(n)' /\ ReadyInv(n)'
      <4>1. node'[n].bound \/ Unloading(n)'
        BY <1>1, <1>2, <1>4, <2>1, <2>2 DEF Unloading, Actions
      <4> QED BY <4>1 DEF LoadInv, ReadyInv
    <3>4. CheckInv(n)'
      BY <1>0, <1>1, <1>4, <2>1, <2>6 DEF CheckInv, Passthrough
    <3> QED BY <3>1, <3>2, <3>3, <3>4
  <2> QED BY <1>0, <2>3, <2>4, <2>5, <2>6
<1> QED BY <1>3, <1>4

LEMMA WorkerEvictedNode ==
  ASSUME TypeOK, NEW n \in Nodes, NodeInv(n), NEW m \in Nodes, WorkerEvicted(m)
  PROVE  NodeInv(n)'
<1> USE DEF NodeInv, Local, Kept
<1> DEFINE p == [pod[m] EXCEPT !.phase = "Failed"]
<1>0. /\ pod[m].phase = "Running" /\ Report(m, p)
      /\ UNCHANGED <<driverType, dc, module, node, nodeq, handler, pass, slipped>>
  BY DEF WorkerEvicted
<1>1. /\ p \in Pod /\ p.phase = "Failed" /\ p.boot = pod[m].boot /\ ~Loaded(p)
      /\ p.action = pod[m].action /\ pod[m] # NoPod /\ ~Loaded(pod[m])
  BY <1>0, NodeTypes, NoPodFields DEF Pod, Loaded
<1> HIDE DEF p
<1>2. /\ n # m => pod'[n] = pod[n] /\ podq'[n] = podq[n]
      /\ n = m => /\ pod'[n] = p /\ podq'[n] # <<>> /\ podq'[n][Len(podq'[n])] = p
                  /\ Items(podq'[n]) = Items(podq[n]) \cup {p}
  BY <1>0, <1>1, ReportNode
<1>3. CASE n # m
  BY <1>0, <1>2, <1>3, Elsewhere
<1>4. CASE n = m
  <2>1. p # NoPod
    BY <1>1, NoPodFields
  <2>2. DriverInv(n)' /\ BootInv(n)' /\ NewsInv(n)'
    BY <1>0, <1>1, <1>2, <1>4 DEF DriverInv, BootInv, NewsInv, Passthrough, Ended
  <2>3. ASSUME n \notin slipped PROVE Kept(n)'
    <3>1. HandledInv(n)'
      BY <1>2, <1>4 DEF HandledInv
    <3>2. PfInv(n)'
      <4>1. driverType = "pf-passthrough" => Items(podq[n]) = {}
        BY <1>0, <1>4, <2>3, NoNews
      <4> QED BY <1>0, <1>1, <1>2, <1>4, <2>3, <4>1 DEF PfInv
    <3>3. Unloading(n) => Unloading(n)'
      BY <1>1, <1>2, <1>4, <2>1 DEF Unloading
    <3>4. LoadInv(n)' /\ ReadyInv(n)'
      BY <1>0, <1>1, <1>2, <1>4, <2>3, <3>3 DEF LoadInv, ReadyInv, Driverless
    <3>5. CheckInv(n)'
      BY <1>0, <1>1, <1>4, <2>3 DEF CheckInv, Passthrough
    <3> QED BY <3>1, <3>2, <3>4, <3>5
  <2> QED BY <1>0, <2>2, <2>3
<1> QED BY <1>3, <1>4

LEMMA PodResyncNode ==
  ASSUME TypeOK, NEW n \in Nodes, NodeInv(n), NEW m \in Nodes, PodResync(m)
  PROVE  NodeInv(n)'
<1> USE DEF NodeInv, Local, Kept
<1>0. /\ pod[m] # NoPod /\ pod[m].phase # "Running" /\ Report(m, pod[m])
      /\ UNCHANGED <<driverType, dc, module, node, nodeq, handler, pass, slipped>>
  BY DEF PodResync
<1>1. pod[m] \in Pod
  BY <1>0 DEF TypeOK
<1>2. /\ n # m => pod'[n] = pod[n] /\ podq'[n] = podq[n]
      /\ n = m => /\ pod'[n] = pod[n] /\ podq'[n] # <<>> /\ podq'[n][Len(podq'[n])] = pod[n]
                  /\ Items(podq'[n]) = Items(podq[n]) \cup {pod[n]}
  BY <1>0, <1>1, ReportNode
<1>3. CASE n # m
  BY <1>0, <1>2, <1>3, Elsewhere
<1>4. CASE n = m
  <2>1. DriverInv(n)' /\ BootInv(n)' /\ NewsInv(n)'
    BY <1>0, <1>2, <1>4 DEF DriverInv, BootInv, NewsInv, Passthrough, Ended
  <2>2. ASSUME n \notin slipped PROVE Kept(n)'
    <3>1. HandledInv(n)' /\ PfInv(n)'
      BY <1>0, <1>2, <1>4, <2>2 DEF HandledInv, PfInv
    <3>2. LoadInv(n)' /\ ReadyInv(n)'
      BY <1>0, <1>2, <1>4, <2>2 DEF LoadInv, ReadyInv, Driverless, Unloading
    <3>3. CheckInv(n)'
      BY <1>0, <1>2, <1>4, <2>2 DEF CheckInv, Passthrough
    <3> QED BY <3>1, <3>2, <3>3
  <2> QED BY <1>0, <2>1, <2>2
<1> QED BY <1>3, <1>4

\* A worker is collected only where the reconciler was passed by
LEMMA CollectWorkerNode ==
  ASSUME TypeOK, NEW n \in Nodes, NodeInv(n), NEW m \in Nodes, CollectWorker(m)
  PROVE  NodeInv(n)'
<1> USE DEF NodeInv, Local, Kept
<1>0. /\ dc = "gone" /\ pod[m] # NoPod /\ pod'[m] = NoPod /\ (n # m => pod'[n] = pod[n])
      /\ UNCHANGED <<driverType, dc, module, node, nodeq, podq, handler, pass, slipped>>
  BY DEF CollectWorker, TypeOK
<1>1. CASE n # m
  BY <1>0, <1>1, Elsewhere
<1>2. CASE n = m
  <2>1. n \in slipped
    BY <1>0, <1>2 DEF CheckInv
  <2>2. DriverInv(n)' /\ BootInv(n)' /\ NewsInv(n)'
    BY <1>0, <1>2, NoPodFields, NodeTypes
       DEF DriverInv, BootInv, NewsInv, Passthrough, Ended
  <2> QED BY <1>0, <2>1, <2>2
<1> QED BY <1>1, <1>2

---------------------------------------------------------------------------
\* Hosts, KMM and users

LEMMA ModuleLoadsNode ==
  ASSUME TypeOK, NEW n \in Nodes, NodeInv(n), NEW m \in Nodes, ModuleLoads(m)
  PROVE  NodeInv(n)'
<1> USE DEF NodeInv, Local, Kept
<1>0. /\ module = "present" /\ node' = [node EXCEPT ![m].vfs = TRUE]
      /\ UNCHANGED <<driverType, dc, module, pod, nodeq, podq, handler, pass, slipped>>
  BY DEF ModuleLoads
<1>1. /\ node'[n].boot = node[n].boot /\ node'[n].ready = node[n].ready
      /\ node'[n].bound = node[n].bound
  BY <1>0, NodeTypes DEF TypeOK, Node
<1>2. DriverInv(n)' /\ (Driverless => Driverless')
  BY <1>0, <1>1 DEF DriverInv, Passthrough, Driverless
<1>3. n \notin slipped => CheckInv(n)'
  BY <1>0, <1>1 DEF CheckInv, Passthrough
<1> QED BY <1>0, <1>1, <1>2, <1>3, Frame

LEMMA ModuleUnloadsNode ==
  ASSUME TypeOK, LifeInv, NEW n \in Nodes, NodeInv(n), ModuleUnloads PROVE NodeInv(n)'
<1> USE DEF NodeInv, Local, Kept
<1>0. /\ module = "deleting" /\ module' = "absent"
      /\ node'[n] = [node[n] EXCEPT !.vfs = FALSE, !.bound = FALSE]
      /\ UNCHANGED <<driverType, dc, pod, nodeq, podq, handler, pass, slipped>>
  BY DEF ModuleUnloads
<1>1. /\ node'[n].boot = node[n].boot /\ node'[n].ready = node[n].ready
      /\ node'[n].bound = FALSE /\ node'[n].vfs = FALSE
  BY <1>0, NodeTypes DEF Node
<1>2. /\ dc # "present" /\ pass.pc # "handle" /\ pass.pc # "check"
      /\ driverType # "pf-passthrough"
  BY <1>0 DEF LifeInv
<1>3. Driverless' \/ ~Passthrough
  BY <1>0, <1>2 DEF Driverless, Passthrough
<1>4. ~Passthrough => pod[n] = NoPod /\ podq[n] = <<>> /\ Items(podq[n]) = {} /\ ~node[n].ready
  BY DEF TypeOK, Items, DriverInv
<1>5. DriverInv(n)'
  BY <1>0, <1>1, <1>2 DEF DriverInv, Passthrough
<1>6. BootInv(n)' /\ NewsInv(n)'
  BY <1>0, <1>1 DEF BootInv, NewsInv, Ended
<1>7. n \notin slipped => HandledInv(n)' /\ PfInv(n)'
  BY <1>0, <1>1, <1>2 DEF HandledInv, PfInv, Ended
<1>8. LoadInv(n)' /\ ReadyInv(n)'
  BY <1>0, <1>1, <1>3, <1>4, NoPodFields DEF LoadInv, ReadyInv
<1>9. n \notin slipped => CheckInv(n)'
  BY <1>0, <1>1, <1>2 DEF CheckInv, Passthrough
<1> QED BY <1>0, <1>5, <1>6, <1>7, <1>8, <1>9

LEMMA RebootNode ==
  ASSUME TypeOK, NEW n \in Nodes, NodeInv(n), NEW m \in Nodes, Reboot(m) PROVE NodeInv(n)'
<1> USE DEF NodeInv, Local, Kept
<1> DEFINE new == [node EXCEPT ![m].boot = @ + 1, ![m].vfs = FALSE, ![m].bound = FALSE]
<1>0. /\ Patch(new, nodeq) /\ node[m].boot < MaxReboots
      /\ UNCHANGED <<driverType, dc, module, pod, podq, handler, pass, slipped>>
  BY DEF Reboot
<1>1. /\ n # m => new[n] = node[n]
      /\ n = m => new[n] = [node[n] EXCEPT !.boot = @ + 1, !.vfs = FALSE, !.bound = FALSE]
      /\ new = [node EXCEPT ![m] = [node[m] EXCEPT !.boot = @ + 1, !.vfs = FALSE, !.bound = FALSE]]
  BY DEF TypeOK, Node
<1>2. new \in [Nodes -> Node]
  <2>1. node[m].boot + 1 \in 0 .. MaxReboots
    BY <1>0, NodeTypes, VFIOAssumption
  <2>2. [node[m] EXCEPT !.boot = @ + 1, !.vfs = FALSE, !.bound = FALSE] \in Node
    BY <2>1, NodeTypes DEF Node
  <2> HIDE DEF new
  <2> QED BY <1>1, <2>2 DEF TypeOK
<1> HIDE DEF new
<1>3. /\ node'[n] = new[n] /\ Items(nodeq[n]) \subseteq Items(nodeq'[n])
      /\ new[n].boot # node[n].boot =>
           [typed |-> new[n].typed, ready |-> new[n].ready, rebooted |-> TRUE]
             \in Items(nodeq'[n])
  BY <1>0, <1>2, PatchTypes DEF TypeOK
<1>4. CASE n # m
  BY <1>0, <1>1, <1>3, <1>4, Elsewhere
<1>5. CASE n = m
  <2>1. /\ node'[n].boot = node[n].boot + 1 /\ node'[n].ready = node[n].ready
        /\ node'[n].bound = FALSE /\ node'[n].vfs = FALSE
    <3>1. node'[n] = [node[n] EXCEPT !.boot = node[n].boot + 1, !.vfs = FALSE, !.bound = FALSE]
      BY <1>1, <1>3, <1>5
    <3>2. node[n] \in Node
      BY NodeTypes
    <3> QED BY <3>1, <3>2 DEF Node
  <2>2. \E e \in Items(nodeq'[n]) : e.ready = node'[n].ready /\ e.rebooted
    <3> DEFINE x == [typed |-> new[n].typed, ready |-> new[n].ready, rebooted |-> TRUE]
    <3>1. new[n].boot # node[n].boot
      BY <1>3, <2>1, NodeTypes
    <3>2. x \in Items(nodeq'[n]) /\ x.ready = node'[n].ready /\ x.rebooted
      BY <1>3, <3>1
    <3> QED BY <3>2
  <2>3. DriverInv(n)'
    BY <1>0, <2>1 DEF DriverInv, Passthrough
  <2>4. BootInv(n)'
    BY <1>0, <2>1, NodeTypes, NewsTypes DEF BootInv
  <2>5. NewsInv(n)'
    BY <1>0, <2>1 DEF NewsInv, Ended
  <2>6. n \notin slipped => HandledInv(n)' /\ PfInv(n)'
    BY <1>0, <2>1 DEF HandledInv, PfInv, Ended
  <2>7. LoadInv(n)'
    <3>1. \A e \in Items(podq[n]) \cup {pod[n]} : e.boot # node[n].boot + 1
      BY NodeTypes, NewsTypes DEF BootInv
    <3> QED BY <1>0, <2>1, <3>1 DEF LoadInv
  <2>8. ReadyInv(n)'
    BY <2>2 DEF ReadyInv
  <2>9. n \notin slipped => CheckInv(n)'
    BY <1>0, <2>1 DEF CheckInv, Passthrough
  <2> QED BY <1>0, <2>3, <2>4, <2>5, <2>6, <2>7, <2>8, <2>9
<1> QED BY <1>4, <1>5

LEMMA TouchNode ==
  ASSUME TypeOK, NEW n \in Nodes, NodeInv(n), NEW m \in Nodes, Touch(m) PROVE NodeInv(n)'
<1> DEFINE e == [typed |-> node[m].typed, ready |-> node[m].ready, rebooted |-> FALSE]
<1>0. /\ nodeq' = [nodeq EXCEPT ![m] = Append(@, e)]
      /\ UNCHANGED <<driverType, dc, module, node, pod, podq, handler, pass, slipped>>
  BY DEF Touch
<1>1. e \in NodeEvent /\ nodeq[m] \in Seq(NodeEvent)
  BY NodeTypes DEF NodeEvent
<1> HIDE DEF e
<1>2. Items(Append(nodeq[m], e)) = Items(nodeq[m]) \cup {e}
  BY <1>1, AppendItems
<1>3. Items(nodeq[n]) \subseteq Items(nodeq'[n])
  BY <1>0, <1>2 DEF TypeOK
<1> QED BY <1>0, <1>3, Elsewhere

LEMMA DeleteDeviceConfigNode ==
  ASSUME TypeOK, LifeInv, NEW n \in Nodes, NodeInv(n), DeleteDeviceConfig PROVE NodeInv(n)'
<1> USE DEF NodeInv, Local, Kept
<1>0. /\ dc = "present" /\ dc' = "deleting"
      /\ UNCHANGED <<driverType, module, node, pod, nodeq, podq, handler, pass, slipped>>
  BY DEF DeleteDeviceConfig
<1>1. DriverInv(n)' /\ (Driverless => Driverless')
  BY <1>0 DEF DriverInv, Passthrough, Driverless
<1>2. CheckInv(n)'
  BY <1>0 DEF CheckInv, LifeInv
<1> QED BY <1>0, <1>1, <1>2, Frame

\* What the watchers had not handled is lost
LEMMA RestartNode ==
  ASSUME TypeOK, NEW n \in Nodes, NodeInv(n), Restart PROVE NodeInv(n)'
<1> USE DEF NodeInv, Local, Kept
<1>0. /\ nodeq'[n] = <<>> /\ podq'[n] = <<>> /\ pass'.pc = "idle"
      /\ UNCHANGED <<driverType, dc, module, node, pod>>
      /\ slipped \subseteq slipped'
      /\ n \notin slipped' => nodeq[n] = <<>> /\ podq[n] = <<>> /\ handler # n
  BY DEF Restart, Slip, IdlePass
<1>1. Items(podq'[n]) = {}
  BY <1>0 DEF Items
<1>2. DriverInv(n)' /\ BootInv(n)' /\ NewsInv(n)'
  BY <1>0, <1>1 DEF DriverInv, BootInv, NewsInv, Passthrough, Ended
<1>3. CASE n \in slipped'
  BY <1>2, <1>3
<1>4. CASE n \notin slipped'
  <2>1. CheckInv(n)' /\ (Driverless => Driverless')
    BY <1>0, <1>4 DEF CheckInv, Driverless
  <2> QED BY <1>0, <1>2, <1>4, <2>1, Frame
<1> QED BY <1>3, <1>4

---------------------------------------------------------------------------
\* The inductive invariant

LEMMA StepNode ==
  ASSUME TypeOK, LifeInv, NEW n \in Nodes, NodeInv(n), [Next]_vars PROVE NodeInv(n)'
<1>1. CASE Reconcile
  <2>1. CASE \E m \in Nodes : CheckNode(m)
    BY <1>1, <2>1, CheckNodeStep DEF Reconcile
  <2>2. CASE \A m \in Nodes : ~CheckNode(m)
    BY <1>1, <2>2, ReconcileNode
  <2> QED BY <2>1, <2>2
<1>2. CASE NodeWatcher \/ PodWatcher
  BY <1>2, HandlePostProcessNode, HandleWorkerMgrPodEvtNode, DeleteWorkerNode
     DEF NodeWatcher, PodWatcher
<1>3. CASE Cluster
  BY <1>3, ModuleUnloadsNode, WorkerSucceedsNode, CollectWorkerNode, ModuleLoadsNode DEF Cluster
<1>4. CASE DeleteDeviceConfig \/ Restart
  BY <1>4, DeleteDeviceConfigNode, RestartNode
<1>5. ASSUME NEW m \in Nodes,
             \/ HandlePostProcessFails(m) \/ WorkerEvicted(m) \/ PodResync(m)
             \/ Reboot(m) \/ Touch(m)
      PROVE  NodeInv(n)'
  BY <1>5, HandlePostProcessFailsNode, WorkerEvictedNode, PodResyncNode, RebootNode, TouchNode
<1>6. CASE UNCHANGED vars
  BY <1>6, Elsewhere DEF vars
<1> QED BY <1>1, <1>2, <1>3, <1>4, <1>5, <1>6 DEF Next

LEMMA InitInv == Init => TypeOK /\ LifeInv /\ \A n \in Nodes : NodeInv(n)
<1> SUFFICES ASSUME Init PROVE TypeOK /\ LifeInv /\ \A n \in Nodes : NodeInv(n)
  OBVIOUS
<1>1. TypeOK
  <2>1. 0 \in 0 .. MaxReboots
    BY VFIOAssumption
  <2>2. <<>> \in Seq(NodeEvent) /\ <<>> \in Seq(Pod)
    OBVIOUS
  <2> QED BY <2>1, <2>2 DEF Init, TypeOK, Node, IdlePass, Pass
<1>2. LifeInv
  BY DEF Init, LifeInv, IdlePass
<1>3. ASSUME NEW n \in Nodes PROVE NodeInv(n)
  <2>1. /\ ~node[n].ready /\ ~node[n].bound /\ ~node[n].vfs /\ node[n].boot = 0
        /\ pod[n] = NoPod /\ podq[n] = <<>> /\ Items(podq[n]) = {}
        /\ pass.pc = "idle" /\ dc = "present"
    BY DEF Init, IdlePass, Items
  <2> QED BY <2>1, NoPodFields
          DEF NodeInv, Local, Kept, DriverInv, BootInv, NewsInv, HandledInv, PfInv, LoadInv,
              ReadyInv, CheckInv, Ended
<1> QED BY <1>1, <1>2, <1>3

\* The news under way accounts for every difference between the ready label of a
\* node, the binding of its devices and the DeviceConfig: VFIOInv is kept by every
\* step of the reconciler (finalizeDeviceConfig), the node watcher
\* (handlePostProcess), the pod watcher (handleWorkerMgrPodEvt) and the cluster.
THEOREM VFIOInvariant == Spec => []VFIOInv
<1> DEFINE Inv == TypeOK /\ LifeInv /\ \A n \in Nodes : NodeInv(n)
<1>1. Init => Inv
  BY InitInv
<1>2. Inv /\ [Next]_vars => Inv'
  <2> SUFFICES ASSUME Inv, [Next]_vars PROVE Inv'
    OBVIOUS
  <2>1. TypeOK' /\ LifeInv'
    BY StepTypes, StepLife
  <2>2. \A n \in Nodes : NodeInv(n)'
    BY StepNode
  <2> QED BY <2>1, <2>2
<1>3. Inv => VFIOInv
  BY DEF VFIOInv, NodeInv, Local, Kept
<1> QED BY <1>1, <1>2, <1>3, PTL DEF Spec

\* Labels, pods, events and the locals of the reconciler and of the two watchers
\* keep their types, and CreateWorker is reached for the passthrough types only.
THEOREM VFIOTypeCorrect == Spec => []TypeOK
<1>1. VFIOInv => TypeOK
  BY DEF VFIOInv
<1> QED BY <1>1, VFIOInvariant, PTL

\* Whoever schedules virtual machines by the ready label finds the devices bound,
\* or the label is about to go: whatever the order in which the watchers handle
\* reboots, workers that end and the wish to unbind, AddWorkReadyLabel is not
\* the last word on a node whose devices are not bound, unless a request was lost
\* or the virtual functions went with their driver.
THEOREM ReadyIsBacked == Spec => []ReadyBacked
<1>1. VFIOInv => ReadyBacked
  <2> SUFFICES ASSUME VFIOInv, NEW n \in Nodes, n \notin slipped,
                      node[n].ready, ~node[n].bound
               PROVE  Retracting(n) \/ Driverless
    BY DEF ReadyBacked, Driverless
  <2>1. ReadyInv(n) /\ TypeOK
    BY DEF VFIOInv
  <2>2. Unloading(n) => pod[n].phase # "None" /\ pod[n].action = "unload"
    BY <2>1, NodeTypes DEF Unloading
  <2> QED BY <2>1, <2>2 DEF ReadyInv, Retracting
<1> QED BY <1>1, VFIOInvariant, PTL

\* When finalizeDeviceConfig removes the finalizer, and ever after, the nodes that
\* checkPostProcessFinalizeCondition looked at one after the other are all without
\* ready label and without binding, unless a request was lost.
THEOREM FinalizedIsClean == Spec => []FinalizedClean
<1>1. VFIOInv => FinalizedClean
  BY DEF VFIOInv, FinalizedClean, CheckInv
<1> QED BY <1>1, VFIOInvariant, PTL
====
