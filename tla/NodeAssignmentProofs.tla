------------------------ MODULE NodeAssignmentProofs ------------------------
(***************************************************************************)
(* Proofs about NodeAssignment: AssignmentInv is inductive, for any number *)
(* of DeviceConfigs and nodes and whatever may happen to them.             *)
(***************************************************************************)
EXTENDS NodeAssignment, TLAPS

LEMMA InitAssignment == Init => AssignmentInv
<1> USE AssignmentAssumption
<1> SUFFICES ASSUME Init PROVE AssignmentInv OBVIOUS
<1>1. TypeOK
  BY DEF Init, TypeOK, DeviceConfig, NoDeviceConfig, Pass, NoPass
<1>2. LifeInv
  BY DEF Init, LifeInv, NoDeviceConfig, NoPass
<1>3. PassInv /\ MapInv
  BY DEF Init, PassInv, MapInv, NoPass
<1>4. ReadyDisjoint
  BY DEF Init, ReadyDisjoint, Published, NoDeviceConfig
<1> QED BY <1>1, <1>2, <1>3, <1>4 DEF AssignmentInv

---------------------------------------------------------------------------
\* One lemma per kind of step

\* A step that leaves all but some conditions of DeviceConfigs alone, and makes
\* none of them Ready, keeps the map right.
LEMMA FewerPublished ==
  ASSUME AssignmentInv, UNCHANGED <<assign, init, pass>>, stolen' = stolen,
         \A d \in DCs : Published(d)' \subseteq Published(d)
  PROVE  PassInv' /\ MapInv' /\ ReadyDisjoint'
<1>1. PassInv'
  BY DEF AssignmentInv, PassInv, AllFree
<1>2. MapInv'
  BY DEF AssignmentInv, MapInv
<1>3. ReadyDisjoint'
  <2> SUFFICES ASSUME ~stolen, NEW d \in DCs, NEW e \in DCs, d # e
               PROVE  Published(d)' \cap Published(e)' = {}
    BY DEF ReadyDisjoint
  <2>1. Published(d) \cap Published(e) = {}
    BY DEF AssignmentInv, ReadyDisjoint
  <2> QED BY <2>1
<1> QED BY <1>1, <1>2, <1>3

\* r may take the place of the DeviceConfig d.
Sound(d, r) ==
  /\ r \in DeviceConfig
  /\ r.phase = "absent" => r = NoDeviceConfig
  /\ r.module # "none" \/ r.phase = "deleting" => r.finalizer
  /\ pass.pc # "idle" /\ pass.dc = d => r.finalizer

\* ... and is Ready for no more nodes than d.
Fewer(d, r) ==
  r.phase = "present" /\ r.ready =>
    dc[d].phase = "present" /\ dc[d].ready /\ r.status \subseteq dc[d].status

LEMMA ChangeOne ==
  ASSUME AssignmentInv, NEW d \in DCs, NEW r, Sound(d, r),
         dc' = [dc EXCEPT ![d] = r],
         pass'.pc # "idle" => pass.pc # "idle" /\ pass'.dc = pass.dc
  PROVE  dc' \in [DCs -> DeviceConfig] /\ LifeInv'
<1> USE DEF AssignmentInv, TypeOK, Sound
<1>1. dc' \in [DCs -> DeviceConfig] OBVIOUS
<1>2. \A e \in DCs : dc'[e] = IF e = d THEN r ELSE dc[e] OBVIOUS
<1>3. LifeInv' BY <1>2 DEF LifeInv
<1> QED BY <1>1, <1>3

LEMMA ReplaceOne ==
  ASSUME AssignmentInv, NEW d \in DCs, NEW r, Sound(d, r), Fewer(d, r),
         dc' = [dc EXCEPT ![d] = r], UNCHANGED <<assign, init, pass, stolen>>
  PROVE  AssignmentInv'
<1>1. dc' \in [DCs -> DeviceConfig] /\ LifeInv'
  BY ChangeOne
<1>2. TypeOK'
  BY <1>1 DEF AssignmentInv, TypeOK
<1>3. \A e \in DCs : dc'[e] = IF e = d THEN r ELSE dc[e]
  BY DEF AssignmentInv, TypeOK
<1>4. \A e \in DCs : Published(e)' \subseteq Published(e)
  BY <1>3 DEF Fewer, Published
<1> QED BY <1>1, <1>2, <1>4, FewerPublished DEF AssignmentInv

LEMMA StepRunInit == AssignmentInv /\ RunInit => AssignmentInv'
<1> SUFFICES ASSUME AssignmentInv, RunInit PROVE AssignmentInv' OBVIOUS
<1> USE DEF AssignmentInv, RunInit
<1>1. TypeOK'
  <2>1. assign' \in [Nodes -> DCs \cup {None}]
    <3>1. ASSUME NEW n \in Nodes, ReadyOn(n) # {}
          PROVE  (CHOOSE d \in DCs : d \in ReadyOn(n)) \in DCs
      BY <3>1 DEF ReadyOn
    <3> QED BY <3>1 DEF TypeOK
  <2> QED BY <2>1 DEF TypeOK
<1>2. LifeInv' /\ PassInv'
  BY DEF LifeInv, PassInv
<1>3. MapInv'
  <2> SUFFICES ASSUME ~stolen, init' = "ok", NEW d \in DCs, NEW n \in Published(d)
               PROVE  assign'[n] = d
    BY DEF MapInv, Published
  <2>1. n \in Nodes /\ d \in ReadyOn(n)
    BY DEF Published, ReadyOn, TypeOK, DeviceConfig
  <2>2. \A e \in ReadyOn(n) : e = d
    BY <2>1 DEF Overlap
  <2>3. (CHOOSE e \in DCs : e \in ReadyOn(n)) = d
    BY <2>1, <2>2
  <2> QED BY <2>1, <2>3
<1>4. ReadyDisjoint'
  BY DEF ReadyDisjoint, Published
<1> QED BY <1>1, <1>2, <1>3, <1>4

LEMMA StepNotFound ==
  ASSUME NEW d \in DCs, AssignmentInv, NotFound(d) PROVE AssignmentInv'
<1> USE DEF AssignmentInv, NotFound, Serving
<1>1. TypeOK'
  BY DEF TypeOK, ReleasedOwn
<1>2. LifeInv' /\ PassInv'
  BY DEF LifeInv, PassInv
<1>3. MapInv'
  <2> SUFFICES ASSUME ~stolen, NEW e \in DCs, NEW n \in Published(e)
               PROVE  assign'[n] = e
    BY DEF MapInv, Published
  <2>1. assign[n] = e /\ n \in Nodes
    BY DEF MapInv, TypeOK, Published, DeviceConfig
  <2>2. e # d
    BY DEF Published
  <2> QED BY <2>1, <2>2 DEF ReleasedOwn
<1>4. ReadyDisjoint'
  BY DEF ReadyDisjoint, Published
<1> QED BY <1>1, <1>2, <1>3, <1>4

LEMMA StepRefuse ==
  ASSUME NEW d \in DCs, AssignmentInv, Refuse(d) PROVE AssignmentInv'
<1> DEFINE r == [dc[d] EXCEPT !.ready = FALSE]
<1>1. dc[d] \in DeviceConfig
  BY DEF AssignmentInv, TypeOK
<1>2. /\ r \in DeviceConfig /\ ~r.ready /\ r.phase = dc[d].phase
      /\ r.module = dc[d].module /\ r.finalizer = dc[d].finalizer
  BY <1>1 DEF DeviceConfig
<1>3. Sound(d, r) /\ Fewer(d, r) /\ Sound(d, dc[d]) /\ Fewer(d, dc[d])
  BY <1>1, <1>2 DEF Sound, Fewer, AssignmentInv, LifeInv, Refuse
<1>4. dc' = [dc EXCEPT ![d] = r] \/ dc' = [dc EXCEPT ![d] = dc[d]]
  BY DEF Refuse, AssignmentInv, TypeOK
<1>5. UNCHANGED <<assign, init, pass, stolen>>
  BY DEF Refuse
<1> HIDE DEF r
<1> QED BY <1>3, <1>4, <1>5, ReplaceOne

LEMMA StepAccept ==
  ASSUME NEW d \in DCs, AssignmentInv, Accept(d) PROVE AssignmentInv'
<1> USE DEF AssignmentInv, Accept, Serving
<1>1. TypeOK'
  <2>1. dc' \in [DCs -> DeviceConfig]
    BY DEF TypeOK, DeviceConfig
  <2>2. pass' \in Pass /\ pass'.dc = d
    BY DEF TypeOK, DeviceConfig, Pass
  <2> QED BY <2>1, <2>2 DEF TypeOK
<1>2. LifeInv'
  BY DEF LifeInv, TypeOK, DeviceConfig
<1>3. PassInv'
  BY DEF PassInv, AllFree
<1>4. \A e \in DCs : Published(e)' = Published(e)
  BY DEF Published, TypeOK, DeviceConfig
<1>5. MapInv' /\ ReadyDisjoint'
  BY <1>4 DEF MapInv, ReadyDisjoint
<1> QED BY <1>1, <1>2, <1>3, <1>5

LEMMA StepApply == AssignmentInv /\ ApplyModule => AssignmentInv'
<1> SUFFICES ASSUME AssignmentInv, ApplyModule PROVE AssignmentInv' OBVIOUS
<1> USE DEF AssignmentInv, ApplyModule
<1>0. pass.dc \in DCs
  BY DEF TypeOK
<1>1. TypeOK'
  <2>1. dc' \in [DCs -> DeviceConfig]
    BY <1>0 DEF TypeOK, DeviceConfig
  <2>2. pass' \in Pass /\ pass'.dc = pass.dc
    BY <1>0 DEF TypeOK, Pass
  <2> QED BY <1>0, <2>1, <2>2 DEF TypeOK
<1>2. pass'.pc = "publish" /\ pass'.dc = pass.dc /\ pass'.nodes = pass.nodes
  BY DEF TypeOK, Pass
<1>3. LifeInv'
  <2> DEFINE r == [dc[pass.dc] EXCEPT
                     !.module = IF pass.dc \in Managed THEN "active" ELSE @]
  <2>1. dc[pass.dc] \in DeviceConfig
    BY <1>0 DEF TypeOK
  <2>2. r \in DeviceConfig /\ r.phase = dc[pass.dc].phase
          /\ r.finalizer = dc[pass.dc].finalizer
    BY <2>1 DEF DeviceConfig
  <2>3. dc[pass.dc].finalizer /\ dc[pass.dc].phase # "absent"
    BY <1>0 DEF LifeInv, NoDeviceConfig
  <2>4. Sound(pass.dc, r)
    BY <2>2, <2>3 DEF Sound
  <2>5. dc' = [dc EXCEPT ![pass.dc] = r]
    BY <1>0 DEF TypeOK
  <2> HIDE DEF r
  <2> QED BY <1>0, <1>2, <2>4, <2>5, ChangeOne
<1>4. PassInv'
  BY <1>2 DEF PassInv, AllFree
<1>5. \A e \in DCs : Published(e)' = Published(e)
  BY <1>0 DEF Published, TypeOK, DeviceConfig
<1>6. MapInv' /\ ReadyDisjoint'
  BY <1>2, <1>5 DEF MapInv, ReadyDisjoint
<1> QED BY <1>1, <1>3, <1>4, <1>6

LEMMA StepPublish == AssignmentInv /\ Publish => AssignmentInv'
<1> SUFFICES ASSUME AssignmentInv, Publish PROVE AssignmentInv' OBVIOUS
<1> USE DEF AssignmentInv, Publish
<1> DEFINE r == [dc[pass.dc] EXCEPT !.ready = TRUE, !.status = pass.nodes]
<1>0. pass.dc \in DCs /\ pass.nodes \subseteq Nodes /\ dc[pass.dc] \in DeviceConfig
  BY DEF TypeOK, Pass
<1>1. /\ r \in DeviceConfig /\ r.status = pass.nodes /\ r.phase = dc[pass.dc].phase
      /\ r.module = dc[pass.dc].module /\ r.finalizer = dc[pass.dc].finalizer
  BY <1>0 DEF DeviceConfig
<1>2. pass' \in Pass /\ pass'.pc = "assign" /\ pass'.dc = pass.dc
        /\ pass'.nodes = pass.nodes
  BY <1>0 DEF TypeOK, Pass
<1>3. dc' = [dc EXCEPT ![pass.dc] = r]
  BY <1>0 DEF TypeOK
<1> HIDE DEF r
<1>4. TypeOK' /\ LifeInv'
  <2>1. dc[pass.dc].finalizer /\ dc[pass.dc].phase # "absent"
    BY <1>0 DEF LifeInv, NoDeviceConfig
  <2>2. Sound(pass.dc, r)
    BY <1>1, <2>1 DEF Sound
  <2>3. dc' \in [DCs -> DeviceConfig] /\ LifeInv'
    BY <1>0, <1>2, <1>3, <2>2, ChangeOne
  <2> QED BY <1>0, <1>2, <2>3 DEF TypeOK
<1>5. Published(pass.dc)' \subseteq pass.nodes
  <2>1. dc'[pass.dc] = r
    BY <1>0, <1>3 DEF TypeOK
  <2> QED BY <1>1, <1>2, <2>1 DEF Published
<1>6. \A e \in DCs \ {pass.dc} : Published(e)' = Published(e)
  BY <1>0, <1>3 DEF Published, TypeOK
<1>10. PassInv'
  BY <1>2 DEF PassInv, AllFree
<1>7. MapInv'
  BY <1>2, <1>5, <1>6 DEF MapInv
<1>8. ASSUME ~stolen, NEW e \in DCs \ {pass.dc}
      PROVE  Published(pass.dc)' \cap Published(e)' = {}
  <2>1. \A n \in Published(e) : assign[n] = e
    BY <1>8 DEF MapInv, PassInv
  <2>2. None # e
    BY AssignmentAssumption
  <2>3. \A n \in pass.nodes : assign[n] \in {pass.dc, None}
    BY DEF PassInv, AllFree
  <2> QED BY <1>5, <1>6, <2>1, <2>2, <2>3
<1>9. ReadyDisjoint'
  <2> SUFFICES ASSUME ~stolen, NEW d \in DCs, NEW e \in DCs, d # e
               PROVE  Published(d)' \cap Published(e)' = {}
    BY DEF ReadyDisjoint
  <2>1. CASE d = pass.dc
    BY <2>1, <1>8
  <2>2. CASE e = pass.dc
    BY <2>2, <1>8
  <2>3. CASE d # pass.dc /\ e # pass.dc
    BY <2>3, <1>6 DEF ReadyDisjoint
  <2> QED BY <2>1, <2>2, <2>3
<1> QED BY <1>4, <1>7, <1>9, <1>10

LEMMA StepAssign == AssignmentInv /\ AssignNodes => AssignmentInv'
<1> SUFFICES ASSUME AssignmentInv, AssignNodes PROVE AssignmentInv' OBVIOUS
<1> USE DEF AssignmentInv, AssignNodes
<1>0. pass.dc \in DCs /\ pass.nodes \subseteq Nodes
  BY DEF TypeOK, Pass
<1>1. TypeOK'
  BY <1>0 DEF TypeOK, Pass, NoPass, Assigned
<1>2. LifeInv' /\ PassInv'
  BY DEF LifeInv, PassInv, NoPass
<1>3. MapInv'
  <2> SUFFICES ASSUME ~stolen, NEW d \in DCs, NEW n \in Published(d)
               PROVE  assign'[n] = d
    BY DEF MapInv, Published
  <2>1. n \in Nodes /\ init = "ok"
    BY DEF TypeOK, Published, DeviceConfig, PassInv
  <2>2. assign[n] = d \/ (pass.dc = d /\ n \in pass.nodes)
    BY <2>1 DEF MapInv
  <2>3. assign[n] = d /\ n \in pass.nodes => pass.dc = d
    BY AssignmentAssumption DEF PassInv, AllFree
  <2> QED BY <2>1, <2>2, <2>3 DEF Assigned
<1>4. ReadyDisjoint'
  BY DEF ReadyDisjoint, Published
<1> QED BY <1>1, <1>2, <1>3, <1>4

LEMMA StepPassFails == AssignmentInv /\ PassFails => AssignmentInv'
<1> SUFFICES ASSUME AssignmentInv, PassFails PROVE AssignmentInv' OBVIOUS
<1> USE DEF AssignmentInv, PassFails
<1>1. TypeOK' /\ LifeInv' /\ PassInv'
  BY DEF TypeOK, LifeInv, PassInv, NoPass, Pass
<1>2. MapInv' /\ ReadyDisjoint'
  BY DEF MapInv, ReadyDisjoint, Published
<1> QED BY <1>1, <1>2

LEMMA StepFinalizeModule ==
  ASSUME NEW d \in DCs, AssignmentInv, FinalizeModule(d) PROVE AssignmentInv'
<1> USE DEF AssignmentInv, FinalizeModule, Serving
<1>1. TypeOK'
  BY DEF TypeOK, DeviceConfig, ReleasedNodes
<1>2. LifeInv' /\ PassInv'
  BY DEF LifeInv, PassInv, TypeOK, DeviceConfig, NoDeviceConfig
<1>3. \A e \in DCs : Published(e)' = Published(e)
  BY DEF Published, TypeOK, DeviceConfig
<1>4. MapInv'
  <2> SUFFICES ASSUME ~stolen', NEW e \in DCs, NEW n \in Published(e)
               PROVE  assign'[n] = e
    BY <1>3 DEF MapInv
  <2>1. assign[n] = e /\ n \in Nodes
    BY DEF MapInv, TypeOK, Published, DeviceConfig
  <2>2. e # d /\ e # None
    BY AssignmentAssumption DEF Published
  <2>3. n \notin dc[d].selected
    BY <2>1, <2>2 DEF AllFree
  <2> QED BY <2>1, <2>3 DEF ReleasedNodes
<1>5. ReadyDisjoint'
  BY <1>3 DEF ReadyDisjoint
<1> QED BY <1>1, <1>2, <1>4, <1>5

\* Steps that change nothing but one DeviceConfig

LEMMA StepFinalizeDone ==
  ASSUME NEW d \in DCs, AssignmentInv, FinalizeDone(d) PROVE AssignmentInv'
<1>1. /\ NoDeviceConfig \in DeviceConfig /\ NoDeviceConfig.phase = "absent"
      /\ NoDeviceConfig.module = "none"
  BY DEF NoDeviceConfig, DeviceConfig
<1>2. [NoDeviceConfig EXCEPT !.module = "none"] = NoDeviceConfig
  BY DEF NoDeviceConfig
<1>3. dc' = [dc EXCEPT ![d] = NoDeviceConfig]
        /\ UNCHANGED <<assign, init, pass, stolen>>
  BY <1>2 DEF FinalizeDone, ModuleGone
<1>4. Sound(d, NoDeviceConfig) /\ Fewer(d, NoDeviceConfig)
  BY <1>1 DEF Sound, Fewer, FinalizeDone, Serving
<1> QED BY <1>3, <1>4, ReplaceOne

LEMMA StepDelete ==
  ASSUME NEW d \in DCs, AssignmentInv, Delete(d) PROVE AssignmentInv'
<1> DEFINE r == [dc[d] EXCEPT !.phase = "deleting"]
<1>1. dc[d] \in DeviceConfig
  BY DEF AssignmentInv, TypeOK
<1>2. /\ r \in DeviceConfig /\ r.phase = "deleting"
      /\ r.module = dc[d].module /\ r.finalizer = dc[d].finalizer
  BY <1>1 DEF DeviceConfig
<1>3. dc[d].finalizer => Sound(d, r) /\ Fewer(d, r)
  BY <1>2 DEF Sound, Fewer
<1>4. /\ NoDeviceConfig \in DeviceConfig /\ NoDeviceConfig.phase = "absent"
      /\ NoDeviceConfig.module = "none"
  BY DEF NoDeviceConfig, DeviceConfig
<1>5. ~dc[d].finalizer => Sound(d, NoDeviceConfig) /\ Fewer(d, NoDeviceConfig)
  BY <1>4 DEF Sound, Fewer, AssignmentInv, LifeInv
<1>6. dc' = [dc EXCEPT ![d] = IF dc[d].finalizer THEN r ELSE NoDeviceConfig]
        /\ UNCHANGED <<assign, init, pass, stolen>>
  BY DEF Delete, AssignmentInv, TypeOK
<1> HIDE DEF r
<1> QED BY <1>3, <1>5, <1>6, ReplaceOne

LEMMA StepKmmUnloaded ==
  ASSUME NEW d \in DCs, AssignmentInv, KmmUnloaded(d) PROVE AssignmentInv'
<1> DEFINE r == [dc[d] EXCEPT !.module = "none"]
<1>1. dc[d] \in DeviceConfig
  BY DEF AssignmentInv, TypeOK
<1>2. /\ r \in DeviceConfig /\ r.module = "none" /\ r.phase = dc[d].phase
      /\ r.finalizer = dc[d].finalizer /\ r.ready = dc[d].ready
      /\ r.status = dc[d].status
  BY <1>1 DEF DeviceConfig
<1>3. Sound(d, r)
  BY <1>2 DEF Sound, AssignmentInv, LifeInv, KmmUnloaded, NoDeviceConfig
<1>4. Fewer(d, r)
  BY <1>2 DEF Fewer, AssignmentInv, LifeInv, KmmUnloaded, NoDeviceConfig
<1>5. dc' = [dc EXCEPT ![d] = r] /\ UNCHANGED <<assign, init, pass, stolen>>
  BY DEF KmmUnloaded, AssignmentInv, TypeOK
<1> HIDE DEF r
<1> QED BY <1>3, <1>4, <1>5, ReplaceOne

LEMMA StepCreate ==
  ASSUME NEW d \in DCs, AssignmentInv, NEW nodes \in SUBSET Nodes, Create(d, nodes) PROVE AssignmentInv'
<1> DEFINE r == [dc[d] EXCEPT !.phase = "present", !.selected = nodes]
<1>1. dc[d] \in DeviceConfig
  BY DEF AssignmentInv, TypeOK
<1>2. /\ r \in DeviceConfig /\ r.phase = "present" /\ r.module = dc[d].module
      /\ r.finalizer = dc[d].finalizer /\ r.ready = dc[d].ready
  BY <1>1 DEF DeviceConfig
<1>3. Sound(d, r)
  BY <1>2 DEF Sound, AssignmentInv, LifeInv, Create, NoDeviceConfig
<1>4. Fewer(d, r)
  BY <1>2 DEF Fewer, AssignmentInv, LifeInv, Create, NoDeviceConfig
<1>5. dc' = [dc EXCEPT ![d] = r] /\ UNCHANGED <<assign, init, pass, stolen>>
  BY DEF Create, AssignmentInv, TypeOK
<1> HIDE DEF r
<1> QED BY <1>3, <1>4, <1>5, ReplaceOne

LEMMA StepRelabel ==
  ASSUME NEW d \in DCs, AssignmentInv, NEW n \in Nodes, Relabel(d, n) PROVE AssignmentInv'
<1> DEFINE r == [dc[d] EXCEPT !.selected = IF n \in @ THEN @ \ {n} ELSE @ \cup {n}]
<1>1. dc[d] \in DeviceConfig
  BY DEF AssignmentInv, TypeOK
<1>2. /\ r \in DeviceConfig /\ r.phase = dc[d].phase /\ r.module = dc[d].module
      /\ r.finalizer = dc[d].finalizer /\ r.ready = dc[d].ready
      /\ r.status = dc[d].status
  BY <1>1 DEF DeviceConfig
<1>3. Sound(d, r)
  BY <1>2 DEF Sound, AssignmentInv, LifeInv, Relabel, NoDeviceConfig
<1>4. Fewer(d, r)
  BY <1>2 DEF Fewer, AssignmentInv, LifeInv, Relabel, NoDeviceConfig
<1>5. dc' = [dc EXCEPT ![d] = r] /\ UNCHANGED <<assign, init, pass, stolen>>
  BY DEF Relabel, AssignmentInv, TypeOK
<1> HIDE DEF r
<1> QED BY <1>3, <1>4, <1>5, ReplaceOne

LEMMA StepRestart == AssignmentInv /\ Restart => AssignmentInv'
<1> SUFFICES ASSUME AssignmentInv, Restart PROVE AssignmentInv' OBVIOUS
<1> USE DEF AssignmentInv, Restart
<1>1. TypeOK' /\ LifeInv' /\ PassInv'
  BY DEF TypeOK, LifeInv, PassInv, NoPass, Pass
<1>2. MapInv' /\ ReadyDisjoint'
  BY DEF MapInv, ReadyDisjoint, Published
<1> QED BY <1>1, <1>2

---------------------------------------------------------------------------

LEMMA StepAssignment == AssignmentInv /\ [Next]_vars => AssignmentInv'
<1> SUFFICES ASSUME AssignmentInv, [Next]_vars PROVE AssignmentInv' OBVIOUS
<1>1. CASE RunInit BY <1>1, StepRunInit
<1>2. CASE InitError \/ UNCHANGED vars
  BY <1>2 DEF InitError, vars, AssignmentInv, TypeOK, LifeInv, PassInv, AllFree,
              MapInv, ReadyDisjoint, Published
<1>3. CASE PassStep BY <1>3, StepApply, StepPublish, StepAssign DEF PassStep
<1>4. CASE PassFails BY <1>4, StepPassFails
<1>5. ASSUME NEW d \in DCs,
             \/ NotFound(d) \/ Refuse(d) \/ Accept(d)
             \/ FinalizeModule(d) \/ FinalizeDone(d)
      PROVE  AssignmentInv'
  BY <1>5, StepNotFound, StepRefuse, StepAccept, StepFinalizeModule,
     StepFinalizeDone
<1>6. CASE Environment
  BY <1>6, StepDelete, StepKmmUnloaded, StepCreate, StepRelabel, StepRestart
     DEF Environment
<1> QED BY <1>1, <1>2, <1>3, <1>4, <1>5, <1>6 DEF Next, Reconcile

\* The node map, the passes of Reconcile and the life cycle of DeviceConfigs
\* agree with each other at all times.
THEOREM AssignmentInvariant == Spec => []AssignmentInv
BY InitAssignment, StepAssignment, PTL DEF Spec

\* For any DeviceConfigs and nodes, and through API failures, restarts and
\* relabelling, validateNodeAssignments keeps two DeviceConfigs from being Ready
\* for one node, unless finalizeDeviceConfig gave a node of another
\* DeviceConfig away.
THEOREM NodesApart == Spec => []ReadyDisjoint
<1>1. AssignmentInv => ReadyDisjoint BY DEF AssignmentInv
<1> QED BY <1>1, AssignmentInvariant, PTL

\* A KMM Module never outlives the finalizer of its DeviceConfig.
THEOREM ModulesOwned == Spec => []ModuleHasOwner
<1>1. AssignmentInv => ModuleHasOwner
  BY DEF AssignmentInv, LifeInv, ModuleHasOwner, NoDeviceConfig
<1> QED BY <1>1, AssignmentInvariant, PTL

LEMMA StepConflict ==
  ASSUME AssignmentInv, ConflictMeansDeletion, [Next]_vars
  PROVE  ConflictMeansDeletion'
<1> SUFFICES ASSUME init' = "conflict", ~stolen'
             PROVE  \E d \in DCs : dc'[d].phase = "deleting"
  BY DEF ConflictMeansDeletion
<1>1. CASE RunInit
  <2>0. PICK n \in Nodes : \E d, e \in ReadyOn(n) : d # e
    BY <1>1 DEF RunInit, Overlap
  <2>1. PICK d \in ReadyOn(n), e \in ReadyOn(n) : d # e
    BY <2>0
  <2>2. d \in DCs /\ e \in DCs /\ ~stolen
    BY <1>1 DEF RunInit, ReadyOn
  <2>3. n \notin Published(d) \/ n \notin Published(e)
    BY <2>1, <2>2 DEF AssignmentInv, ReadyDisjoint
  <2>4. dc[d].phase \in {"present", "deleting"} /\ dc[e].phase \in {"present", "deleting"}
    BY <2>1, <2>2 DEF ReadyOn, AssignmentInv, TypeOK, DeviceConfig, LifeInv,
                      NoDeviceConfig
  <2>5. dc[d].phase = "deleting" \/ dc[e].phase = "deleting"
    BY <2>1, <2>3, <2>4 DEF ReadyOn, Published
  <2> QED BY <1>1, <2>2, <2>5 DEF RunInit
<1>2. CASE ~RunInit
  <2>1. init = "conflict" /\ pass.pc = "idle" /\ ~Restart
    BY <1>2 DEF AssignmentInv, PassInv, Next, Reconcile, InitError, NotFound, Refuse,
         Accept, PassStep, ApplyModule, Publish, AssignNodes, PassFails,
         FinalizeModule, FinalizeDone, Serving, Environment, Create, Delete,
         Relabel, KmmUnloaded, Restart, vars
  <2>2. \/ UNCHANGED vars
        \/ \E d \in DCs : \/ \E nodes \in SUBSET Nodes : Create(d, nodes)
                          \/ \E n \in Nodes : Relabel(d, n)
                          \/ Delete(d) \/ KmmUnloaded(d)
    BY <1>2, <2>1 DEF Next, Reconcile, InitError, NotFound, Refuse, Accept, PassStep,
         ApplyModule, Publish, AssignNodes, PassFails, FinalizeModule,
         FinalizeDone, Serving, Environment
  <2>3. ~stolen
    BY <2>2 DEF Create, Relabel, Delete, KmmUnloaded, vars
  <2>4. PICK d \in DCs : dc[d].phase = "deleting"
    BY <2>1, <2>3 DEF ConflictMeansDeletion
  <2>5. dc'[d].phase = "deleting"
    <3>1. CASE UNCHANGED vars
      BY <2>4, <3>1 DEF vars
    <3>2. ASSUME NEW e \in DCs, NEW nodes \in SUBSET Nodes, Create(e, nodes)
          PROVE  dc'[d].phase = "deleting"
      <4>1. d # e BY <2>4, <3>2 DEF Create
      <4> QED BY <2>4, <3>2, <4>1 DEF Create, AssignmentInv, TypeOK
    <3>3. ASSUME NEW e \in DCs, NEW n \in Nodes, Relabel(e, n)
          PROVE  dc'[d].phase = "deleting"
      BY <2>4, <3>3 DEF Relabel, AssignmentInv, TypeOK, DeviceConfig
    <3>4. ASSUME NEW e \in DCs, Delete(e) PROVE dc'[d].phase = "deleting"
      <4>1. d # e BY <2>4, <3>4 DEF Delete
      <4> QED BY <2>4, <3>4, <4>1 DEF Delete, AssignmentInv, TypeOK
    <3>5. ASSUME NEW e \in DCs, KmmUnloaded(e) PROVE dc'[d].phase = "deleting"
      BY <2>4, <3>5 DEF KmmUnloaded, AssignmentInv, TypeOK, DeviceConfig
    <3> QED BY <2>2, <3>1, <3>2, <3>3, <3>4, <3>5
  <2> QED BY <2>5
<1> QED BY <1>1, <1>2

\* For any DeviceConfigs and nodes, buildNodeAssignments fails on a restart only
\* because of a DeviceConfig that is being deleted.
THEOREM RestartConflict == Spec => []ConflictMeansDeletion
<1>1. Init => ConflictMeansDeletion
  BY DEF Init, ConflictMeansDeletion
<1>2. AssignmentInv /\ ConflictMeansDeletion /\ [Next]_vars => ConflictMeansDeletion'
  BY StepConflict
<1> QED BY <1>1, <1>2, AssignmentInvariant, PTL DEF Spec
---------------------------------------------------------------------------
\* KMM Modules of different DeviceConfigs

\* Nothing but users, in their roles of creating and deleting, disturbs the passes
Undisturbed == ~CanFail /\ ~CanRestart /\ ~CanRelabel

\* A step that changes no more than the record of d keeps what is claimed if d has
\* no more to claim than before.
LEMMA ClaimReplaceOne ==
  ASSUME AssignmentInv, ClaimInv, NEW d \in DCs, NEW r,
         dc' = [dc EXCEPT ![d] = r], UNCHANGED <<assign, init, pass, stolen>>,
         init # "ok" => r.module = "none",
         pass.pc # "idle" /\ pass.dc = d => r.selected = dc[d].selected,
         r.module = "active" => dc[d].module = "active" /\ r.selected = dc[d].selected
  PROVE  ClaimInv'
<1>1. \A e \in DCs : dc'[e] = IF e = d THEN r ELSE dc[e]
  BY DEF AssignmentInv, TypeOK
<1>2. pass.pc # "idle" => pass.dc \in DCs
  BY DEF AssignmentInv, TypeOK
<1> QED BY <1>1, <1>2 DEF ClaimInv, Claimed

LEMMA ClaimLifeCycle ==
  ASSUME AssignmentInv, ClaimInv, NEW d \in DCs,
         \/ Accept(d) \/ Refuse(d) \/ FinalizeDone(d) \/ Delete(d) \/ KmmUnloaded(d)
         \/ \E nodes \in SUBSET Nodes : Create(d, nodes)
  PROVE  ClaimInv'
<1> USE DEF AssignmentInv
<1>0. dc[d] \in DeviceConfig /\ dc \in [DCs -> DeviceConfig]
  BY DEF TypeOK
<1>1. CASE Accept(d)
  <2>1. /\ \A e \in DCs : dc'[e].module = dc[e].module /\ dc'[e].selected = dc[e].selected
        /\ pass.pc = "idle" /\ pass' = [pc |-> "apply", dc |-> d, nodes |-> dc[d].selected]
        /\ UNCHANGED <<assign, init, stolen>>
    BY <1>0, <1>1 DEF Accept, Serving, DeviceConfig
  <2> QED BY <2>1 DEF ClaimInv, Claimed
<1>2. CASE Refuse(d)
  <2>1. /\ \A e \in DCs : dc'[e].module = dc[e].module /\ dc'[e].selected = dc[e].selected
        /\ UNCHANGED <<assign, init, pass, stolen>>
    BY <1>0, <1>2 DEF Refuse, DeviceConfig
  <2> QED BY <2>1 DEF ClaimInv, Claimed, TypeOK
<1>3. CASE FinalizeDone(d)
  <2>1. [NoDeviceConfig EXCEPT !.module = "none"] = NoDeviceConfig
          /\ NoDeviceConfig.module = "none"
    BY DEF NoDeviceConfig
  <2> QED BY <1>3, <2>1, ClaimReplaceOne DEF FinalizeDone, ModuleGone, Serving
<1>4. CASE Delete(d)
  <2> DEFINE r == [dc[d] EXCEPT !.phase = "deleting"]
  <2>1. r.module = dc[d].module /\ r.selected = dc[d].selected
    BY <1>0 DEF DeviceConfig
  <2>2. NoDeviceConfig.module = "none"
    BY DEF NoDeviceConfig
  <2>3. ~dc[d].finalizer => ~(pass.pc # "idle" /\ pass.dc = d)
    BY DEF LifeInv
  <2>4. init # "ok" => dc[d].module = "none"
    BY DEF ClaimInv
  <2>5. dc' = [dc EXCEPT ![d] = IF dc[d].finalizer THEN r ELSE NoDeviceConfig]
          /\ UNCHANGED <<assign, init, pass, stolen>>
    BY <1>0, <1>4 DEF Delete
  <2> HIDE DEF r
  <2> QED BY <2>1, <2>2, <2>3, <2>4, <2>5, ClaimReplaceOne
<1>5. CASE KmmUnloaded(d)
  <2> DEFINE r == [dc[d] EXCEPT !.module = "none"]
  <2>1. r.module = "none" /\ r.selected = dc[d].selected
    BY <1>0 DEF DeviceConfig
  <2>2. dc' = [dc EXCEPT ![d] = r] /\ UNCHANGED <<assign, init, pass, stolen>>
    BY <1>0, <1>5 DEF KmmUnloaded
  <2> HIDE DEF r
  <2> QED BY <2>1, <2>2, ClaimReplaceOne
<1>6. ASSUME NEW nodes \in SUBSET Nodes, Create(d, nodes) PROVE ClaimInv'
  <2> DEFINE r == [dc[d] EXCEPT !.phase = "present", !.selected = nodes]
  <2>1. dc[d] = NoDeviceConfig
    BY <1>6 DEF Create, LifeInv
  <2>2. r.module = "none" /\ ~(pass.pc # "idle" /\ pass.dc = d)
    BY <2>1 DEF NoDeviceConfig, LifeInv
  <2>3. dc' = [dc EXCEPT ![d] = r] /\ UNCHANGED <<assign, init, pass, stolen>>
    BY <1>0, <1>6 DEF Create
  <2> HIDE DEF r
  <2> QED BY <2>2, <2>3, ClaimReplaceOne
<1> QED BY <1>1, <1>2, <1>3, <1>4, <1>5, <1>6

\* The steps of a pass: what applying the Module adds, the end of the pass enters.
LEMMA ClaimPass == AssignmentInv /\ ClaimInv /\ PassStep => ClaimInv'
<1> SUFFICES ASSUME AssignmentInv, ClaimInv, PassStep PROVE ClaimInv' OBVIOUS
<1> USE DEF AssignmentInv
<1>0. /\ pass.dc \in DCs /\ dc \in [DCs -> DeviceConfig] /\ pass \in Pass
      /\ pass.pc # "idle" /\ init = "ok"
  BY DEF PassStep, ApplyModule, Publish, AssignNodes, TypeOK, PassInv
<1>1. CASE ApplyModule
  <2>1. /\ \A e \in DCs : dc'[e].selected = dc[e].selected
        /\ \A e \in DCs \ {pass.dc} : dc'[e].module = dc[e].module
        /\ pass'.pc = "publish" /\ pass'.dc = pass.dc /\ pass'.nodes = pass.nodes
        /\ UNCHANGED <<assign, init, stolen>>
    BY <1>0, <1>1 DEF ApplyModule, DeviceConfig, Pass
  <2>2. \A e \in DCs, n \in Nodes : Claimed(e, n) => Claimed(e, n)'
    BY <1>1, <2>1 DEF Claimed, ApplyModule
  <2>3. \A n \in Nodes : Claimed(pass.dc, n)'
    BY <2>1 DEF Claimed
  <2>4. \A e \in DCs : dc[e].selected \subseteq Nodes
    BY <1>0 DEF DeviceConfig
  <2> QED BY <1>0, <2>1, <2>2, <2>3, <2>4 DEF ClaimInv
<1>2. CASE Publish
  <2>1. /\ \A e \in DCs : dc'[e].selected = dc[e].selected /\ dc'[e].module = dc[e].module
        /\ pass'.pc = "assign" /\ pass'.dc = pass.dc /\ pass'.nodes = pass.nodes
        /\ UNCHANGED <<assign, init, stolen>>
    BY <1>0, <1>2 DEF Publish, DeviceConfig, Pass
  <2> QED BY <1>0, <2>1 DEF ClaimInv, Claimed
<1>3. CASE AssignNodes
  <2>1. pass'.pc = "idle" /\ UNCHANGED <<dc, init, stolen>>
    BY <1>3 DEF AssignNodes, NoPass
  <2>2. ASSUME NEW e \in DCs, NEW n \in dc[e].selected, Claimed(e, n) PROVE Claimed(e, n)'
    <3>1. n \in Nodes
      BY <1>0 DEF DeviceConfig
    <3>2. pass.nodes = dc[pass.dc].selected /\ AllFree(pass.dc, pass.nodes)
      BY <1>0 DEF ClaimInv, PassInv
    <3>3. n \in pass.nodes => e = pass.dc
      BY <2>2, <3>2, AssignmentAssumption DEF Claimed, AllFree
    <3>4. n \notin pass.nodes => assign[n] = e
      BY <2>2, <3>2 DEF Claimed
    <3>5. assign'[n] = e
      BY <1>3, <3>1, <3>3, <3>4 DEF AssignNodes, Assigned
    <3> QED BY <3>5 DEF Claimed
  <2> QED BY <2>1, <2>2 DEF ClaimInv
<1> QED BY <1>1, <1>2, <1>3 DEF PassStep

\* The steps that change the map
LEMMA ClaimMap ==
  ASSUME AssignmentInv, ClaimInv,
         RunInit \/ \E d \in DCs : NotFound(d) \/ FinalizeModule(d)
  PROVE  ClaimInv'
<1> USE DEF AssignmentInv
<1>0. dc \in [DCs -> DeviceConfig]
  BY DEF TypeOK
<1>1. CASE RunInit
  BY <1>1 DEF RunInit, ClaimInv
<1>2. ASSUME NEW d \in DCs, NotFound(d) PROVE ClaimInv'
  <2>1. dc[d].module = "none" /\ pass.pc = "idle"
    BY <1>2 DEF NotFound, LifeInv, NoDeviceConfig, Serving
  <2>2. ASSUME NEW e \in DCs, dc[e].module = "active", NEW n \in dc[e].selected, Claimed(e, n)
        PROVE  Claimed(e, n)'
    BY <1>0, <1>2, <2>1, <2>2 DEF NotFound, ReleasedOwn, Claimed, DeviceConfig
  <2> QED BY <1>2, <2>1, <2>2 DEF ClaimInv, NotFound
<1>3. ASSUME NEW d \in DCs, FinalizeModule(d) PROVE ClaimInv'
  <2>1. /\ \A e \in DCs : dc'[e].selected = dc[e].selected
        /\ \A e \in DCs \ {d} : dc'[e].module = dc[e].module
        /\ dc'[d].module = "terminating" /\ init = "ok"
        /\ pass.pc = "idle" /\ UNCHANGED <<init, pass>>
    BY <1>0, <1>3 DEF FinalizeModule, Serving, DeviceConfig
  <2>2. ASSUME ~stolen', NEW e \in DCs \ {d}, NEW n \in dc[e].selected, Claimed(e, n)
        PROVE  Claimed(e, n)'
    <3>1. n \in Nodes /\ assign[n] = e
      BY <1>0, <2>1, <2>2 DEF Claimed, DeviceConfig
    <3>2. n \notin dc[d].selected
      BY <1>3, <2>2, <3>1, AssignmentAssumption DEF FinalizeModule, AllFree
    <3> QED BY <1>3, <3>1, <3>2 DEF FinalizeModule, ReleasedNodes, Claimed
  <2> QED BY <1>3, <2>1, <2>2 DEF ClaimInv, FinalizeModule
<1> QED BY <1>1, <1>2, <1>3

LEMMA StepClaim ==
  ASSUME Undisturbed, AssignmentInv, ClaimInv, [Next]_vars PROVE ClaimInv'
<1>1. CASE InitError \/ UNCHANGED vars
  BY <1>1 DEF InitError, vars, ClaimInv, Claimed
<1>2. CASE Reconcile /\ ~InitError
  BY <1>2, ClaimPass, ClaimMap, ClaimLifeCycle DEF Reconcile, PassFails, Undisturbed
<1>3. CASE Environment
  BY <1>3, ClaimLifeCycle DEF Environment, Relabel, Restart, Undisturbed
<1> QED BY <1>1, <1>2, <1>3 DEF Next

\* The node map, the locals of passes and the DeviceConfigs keep their types.
THEOREM AssignmentTypeCorrect == Spec => []TypeOK
<1>1. AssignmentInv => TypeOK BY DEF AssignmentInv
<1> QED BY <1>1, AssignmentInvariant, PTL

\* For any DeviceConfigs that users create and delete, with any selectors: as long
\* as no API call fails, the operator is not restarted and nodes keep their labels,
\* no two KMM Modules load drivers on one node, unless finalizeDeviceConfig gave a
\* node of another DeviceConfig away.
THEOREM ModulesApart == Undisturbed /\ Spec => []OneModulePerNode
<1> SUFFICES ASSUME Undisturbed PROVE Spec => []OneModulePerNode OBVIOUS
<1>1. Init => ClaimInv
  BY DEF Init, ClaimInv, NoDeviceConfig, NoPass
<1>2. AssignmentInv /\ ClaimInv /\ [Next]_vars => ClaimInv'
  BY StepClaim
<1>3. AssignmentInv /\ ClaimInv => OneModulePerNode
  <2> SUFFICES ASSUME AssignmentInv, ClaimInv, ~stolen, NEW d \in DCs, NEW e \in DCs, d # e,
                      dc[d].module = "active", dc[e].module = "active",
                      NEW n \in dc[d].selected, n \in dc[e].selected
               PROVE  FALSE
    BY DEF OneModulePerNode
  <2>1. Claimed(d, n) /\ Claimed(e, n)
    BY DEF ClaimInv
  <2>2. pass.pc # "idle" =>
          pass.nodes = dc[pass.dc].selected /\ AllFree(pass.dc, pass.nodes)
    BY DEF ClaimInv, AssignmentInv, PassInv
  <2> QED BY <2>1, <2>2, AssignmentAssumption DEF Claimed, AllFree
<1> QED BY <1>1, <1>2, <1>3, AssignmentInvariant, PTL DEF Spec
---------------------------------------------------------------------------
\* NodeAssignment implements NodeLease

LeaseStep == [Lease!Next]_(Lease!leases)

LEMMA LeaseSame ==
  ASSUME stolen' = stolen, \A e \in DCs : Published(e)' = Published(e)
  PROVE  LeaseStep
<1>1. [e \in DCs |-> Published(e)]' = [e \in DCs |-> Published(e)]
  OBVIOUS
<1> QED BY <1>1 DEF LeaseStep, Lease!leases

LEMMA LeaseChanged ==
  ASSUME NEW d \in DCs, NEW nodes, Published(d)' = nodes,
         \A e \in DCs \ {d} : Published(e)' = Published(e)
  PROVE  [e \in DCs |-> Published(e)]'
           = [[e \in DCs |-> Published(e)] EXCEPT ![d] = nodes]
OBVIOUS

LEMMA LeaseGivenBack ==
  ASSUME NEW d \in DCs, stolen' = stolen, Published(d)' = {},
         \A e \in DCs \ {d} : Published(e)' = Published(e)
  PROVE  LeaseStep
<1>1. [e \in DCs |-> Published(e)]'
        = [[e \in DCs |-> Published(e)] EXCEPT ![d] = {}]
  BY LeaseChanged
<1> QED BY <1>1 DEF LeaseStep, Lease!leases, Lease!Next, Lease!GiveBack

\* A DeviceConfig is changed alone and is Ready for the same nodes, or for none.
LEMMA LeaseOfOne ==
  ASSUME TypeOK, NEW d \in DCs, NEW r, dc' = [dc EXCEPT ![d] = r], stolen' = stolen,
         \/ r.phase # "present" \/ ~r.ready
         \/ r.phase = dc[d].phase /\ r.ready = dc[d].ready /\ r.status = dc[d].status
  PROVE  LeaseStep
<1>1. dc'[d] = r /\ \A e \in DCs \ {d} : dc'[e] = dc[e]
  BY DEF TypeOK
<1>2. \A e \in DCs \ {d} : Published(e)' = Published(e)
  BY <1>1 DEF Published
<1>3. Published(d)' = {} \/ Published(d)' = Published(d)
  BY <1>1 DEF Published
<1> QED BY <1>2, <1>3, LeaseSame, LeaseGivenBack

LEMMA LeasePublish == AssignmentInv /\ Publish => LeaseStep
<1> SUFFICES ASSUME AssignmentInv, Publish PROVE LeaseStep OBVIOUS
<1> USE DEF AssignmentInv
<1>1. PICK d \in DCs, nodes \in SUBSET Nodes : d = pass.dc /\ nodes = pass.nodes
  BY DEF Publish, TypeOK, Pass
<1> DEFINE r == [dc[d] EXCEPT !.ready = TRUE, !.status = nodes]
           H == [e \in DCs |-> Published(e)]
<1>2. r.ready /\ r.status = nodes /\ r.phase = dc[d].phase
  BY DEF TypeOK, DeviceConfig
<1>3. dc'[d] = r /\ (\A e \in DCs \ {d} : dc'[e] = dc[e]) /\ stolen' = stolen
  BY <1>1 DEF Publish, TypeOK
<1> HIDE DEF r
<1>4. \A e \in DCs \ {d} : Published(e)' = Published(e)
  BY <1>3 DEF Published
<1>5. CASE dc[d].phase # "present"
  <2>1. Published(d)' = Published(d)
    BY <1>2, <1>3, <1>5 DEF Published
  <2> QED BY <1>3, <1>4, <2>1, LeaseSame
<1>6. CASE dc[d].phase = "present"
  <2>1. Published(d)' = nodes
    BY <1>2, <1>3, <1>6 DEF Published
  <2>2. H' = [H EXCEPT ![d] = nodes]
    BY <1>4, <2>1, LeaseChanged
  <2>3. CASE ~stolen
    <3>1. ASSUME NEW e \in DCs \ {d} PROVE H[e] \cap nodes = {}
      <4>1. \A n \in Published(e) : assign[n] = e
        BY <1>1, <2>3 DEF MapInv, PassInv, Publish
      <4>2. \A n \in nodes : assign[n] \in {d, None}
        BY <1>1 DEF PassInv, AllFree, Publish
      <4> QED BY <4>1, <4>2, AssignmentAssumption
    <3>2. Lease!Take(d, nodes)
      BY <1>3, <2>2, <3>1 DEF Lease!Take
    <3> QED BY <3>2 DEF LeaseStep, Lease!Next
  <2>4. CASE stolen
    <3>1. \A e \in DCs : Published(e) \in SUBSET Nodes
      BY DEF Published, TypeOK, DeviceConfig
    <3>2. H' \in [DCs -> SUBSET Nodes]
      BY <2>2, <3>1
    <3>3. Lease!Anything
      BY <1>3, <2>4, <3>2 DEF Lease!Anything, TypeOK
    <3> QED BY <3>3 DEF LeaseStep, Lease!Next
  <2> QED BY <2>3, <2>4
<1> QED BY <1>5, <1>6

LEMMA LeaseFinalizeModule ==
  ASSUME AssignmentInv, NEW d \in DCs, FinalizeModule(d) PROVE LeaseStep
<1> USE DEF AssignmentInv, FinalizeModule
<1>1. \A e \in DCs : Published(e)' = Published(e)
  BY DEF TypeOK, DeviceConfig, Published
<1>2. stolen' = stolen \/ stolen' = TRUE
  BY DEF TypeOK
<1>3. [e \in DCs |-> Published(e)]' = [e \in DCs |-> Published(e)]
  BY <1>1
<1>4. CASE stolen' = TRUE
  BY <1>3, <1>4 DEF LeaseStep, Lease!Next, Lease!Break
<1> QED BY <1>1, <1>2, <1>4, LeaseSame

LEMMA LeaseLifeCycle ==
  ASSUME AssignmentInv, NEW d \in DCs,
         \/ Refuse(d) \/ Accept(d) \/ FinalizeDone(d) \/ Delete(d) \/ KmmUnloaded(d)
         \/ \E nodes \in SUBSET Nodes : Create(d, nodes)
         \/ \E n \in Nodes : Relabel(d, n)
  PROVE  LeaseStep
<1>1. dc[d] \in DeviceConfig /\ TypeOK
  BY DEF AssignmentInv, TypeOK
<1>2. CASE Refuse(d)
  <2>1. CASE dc' = [dc EXCEPT ![d].ready = FALSE]
    <3> DEFINE r == [dc[d] EXCEPT !.ready = FALSE]
    <3>1. dc' = [dc EXCEPT ![d] = r] /\ ~r.ready
      BY <1>1, <2>1 DEF DeviceConfig, TypeOK
    <3> HIDE DEF r
    <3> QED BY <1>1, <1>2, <3>1, LeaseOfOne DEF Refuse
  <2>2. CASE UNCHANGED dc
    BY <1>2, <2>2, LeaseSame DEF Refuse, Published
  <2> QED BY <1>2, <2>1, <2>2 DEF Refuse
<1>3. CASE Accept(d)
  <2>1. \A e \in DCs : Published(e)' = Published(e)
    BY <1>1, <1>3 DEF Accept, Published, TypeOK, DeviceConfig
  <2> QED BY <1>3, <2>1, LeaseSame DEF Accept
<1>4. CASE FinalizeDone(d)
  <2> DEFINE r == [NoDeviceConfig EXCEPT !.module = dc[d].module]
  <2>1. dc' = [dc EXCEPT ![d] = r] /\ r.phase = "absent"
    BY <1>4 DEF FinalizeDone, NoDeviceConfig
  <2> HIDE DEF r
  <2> QED BY <1>1, <1>4, <2>1, LeaseOfOne DEF FinalizeDone
<1>5. CASE Delete(d)
  <2> DEFINE r == IF dc[d].finalizer THEN [dc[d] EXCEPT !.phase = "deleting"]
                                     ELSE NoDeviceConfig
  <2>1. dc' = [dc EXCEPT ![d] = r] /\ r.phase # "present"
    BY <1>1, <1>5 DEF Delete, NoDeviceConfig, DeviceConfig, TypeOK
  <2> HIDE DEF r
  <2> QED BY <1>1, <1>5, <2>1, LeaseOfOne DEF Delete
<1>6. CASE KmmUnloaded(d)
  <2>1. \A e \in DCs : Published(e)' = Published(e)
    BY <1>1, <1>6 DEF KmmUnloaded, Published, TypeOK, DeviceConfig
  <2> QED BY <1>6, <2>1, LeaseSame DEF KmmUnloaded
<1>7. ASSUME NEW nodes \in SUBSET Nodes, Create(d, nodes) PROVE LeaseStep
  <2>1. ~dc[d].ready
    <3>1. dc[d] = NoDeviceConfig
      BY <1>7 DEF Create, AssignmentInv, LifeInv
    <3> QED BY <3>1 DEF NoDeviceConfig
  <2>2. \A e \in DCs : Published(e)' = Published(e)
    BY <1>1, <1>7, <2>1 DEF Create, Published, TypeOK, DeviceConfig
  <2> QED BY <1>7, <2>2, LeaseSame DEF Create
<1>8. ASSUME NEW n \in Nodes, Relabel(d, n) PROVE LeaseStep
  <2>1. \A e \in DCs : Published(e)' = Published(e)
    BY <1>1, <1>8 DEF Relabel, Published, TypeOK, DeviceConfig
  <2> QED BY <1>8, <2>1, LeaseSame DEF Relabel
<1> QED BY <1>2, <1>3, <1>4, <1>5, <1>6, <1>7, <1>8

LEMMA StepLease == AssignmentInv /\ [Next]_vars => LeaseStep
<1> SUFFICES ASSUME AssignmentInv, [Next]_vars PROVE LeaseStep OBVIOUS
<1>1. CASE UNCHANGED <<dc, stolen>>
  BY <1>1, LeaseSame DEF Published
<1>2. CASE ApplyModule
  <2>1. pass.dc \in DCs
    BY <1>2 DEF ApplyModule, AssignmentInv, TypeOK
  <2>2. \A e \in DCs : Published(e)' = Published(e)
    BY <1>2, <2>1 DEF ApplyModule, Published, AssignmentInv, TypeOK, DeviceConfig
  <2> QED BY <1>2, <2>2, LeaseSame DEF ApplyModule
<1>3. RunInit \/ InitError \/ AssignNodes \/ PassFails \/ Restart \/ UNCHANGED vars
        => UNCHANGED <<dc, stolen>>
  BY DEF RunInit, InitError, AssignNodes, PassFails, Restart, vars
<1>4. \A d \in DCs : NotFound(d) => UNCHANGED <<dc, stolen>>
  BY DEF NotFound
<1>5. CASE Reconcile
  BY <1>1, <1>2, <1>3, <1>4, <1>5, LeasePublish, LeaseFinalizeModule, LeaseLifeCycle
     DEF Reconcile, PassStep
<1>6. CASE Environment
  BY <1>1, <1>3, <1>6, LeaseLifeCycle DEF Environment
<1> QED BY <1>1, <1>3, <1>5, <1>6 DEF Next

\* The passes of Reconcile, with everything that happens between their steps,
\* implement exclusive leases of nodes that are taken in one step.
THEOREM LeasesImplemented == Spec => LeaseRefined
<1>1. Init => Lease!Init
  <2> SUFFICES ASSUME Init PROVE Lease!Init OBVIOUS
  <2>1. \A d \in DCs : Published(d) = {}
    BY DEF Init, Published, NoDeviceConfig
  <2> QED BY <2>1 DEF Init, Lease!Init
<1>2. AssignmentInv /\ [Next]_vars => [Lease!Next]_(Lease!leases)
  BY StepLease DEF LeaseStep
<1> QED BY <1>1, <1>2, AssignmentInvariant, PTL DEF Spec, LeaseRefined, Lease!Spec
====
