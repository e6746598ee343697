------------------------ MODULE OperandsDriverProofs ------------------------
(***************************************************************************)
(* Proof that the driver of a settled DeviceConfig fits its nodes          *)
(* (DriverFits): what the Module, the build ConfigMaps and the version     *)
(* labels say agrees with every node the spec selects.                     *)
(***************************************************************************)
EXTENDS OperandsProofs, FiniteSetTheorems, WellFoundedInduction

---------------------------------------------------------------------------
\* The first and the last of some nodes

LEMMA NatMin ==
  ASSUME NEW T, T \subseteq Nat, T # {} PROVE \E x \in T : \A y \in T : x <= y
<1>1. PICK R : IsWellFoundedOn(R, Nat) /\ \A x, y \in Nat : <<y, x>> \in R <=> y < x
  BY NatLessThanWellFounded DEF OpToRel
<1>2. PICK x \in T : \A y \in T : ~(<<y, x>> \in R)
  BY <1>1, WFMin
<1>3. ASSUME NEW y \in T PROVE x <= y
  <2>1. x \in Nat /\ y \in Nat /\ ~(y < x)
    BY <1>1, <1>2
  <2> QED BY <2>1
<1> QED BY <1>3

LEMMA FirstListed ==
  ASSUME NEW S, S \subseteq NodeSet, S # {}
  PROVE  \E n \in S : \A k \in S : Listed[n] <= Listed[k]
<1>1. \A n \in NodeSet : Listed[n] \in Nat
  BY OperandsAssumption, FS_CardinalityType
<1> DEFINE T == {Listed[n] : n \in S}
<1>2. T \subseteq Nat /\ T # {}
  BY <1>1
<1>3. PICK x \in T : \A y \in T : x <= y
  BY <1>2, NatMin
<1> QED BY <1>3

LEMMA LastListed ==
  ASSUME NEW S, S \subseteq NodeSet, S # {}
  PROVE  \E n \in S : \A k \in S : Listed[k] <= Listed[n]
<1> DEFINE c == Cardinality(NodeSet)
<1>1. c \in Nat /\ \A n \in NodeSet : Listed[n] \in 1 .. c
  BY OperandsAssumption, FS_CardinalityType
<1> HIDE DEF c
<1> DEFINE T == {c - Listed[n] : n \in S}
<1>2. T \subseteq Nat /\ T # {}
  BY <1>1
<1>3. PICK x \in T : \A y \in T : x <= y
  BY <1>2, NatMin
<1>4. PICK n \in S : x = c - Listed[n]
  BY <1>3
<1>5. ASSUME NEW k \in S PROVE Listed[k] <= Listed[n]
  <2>1. c - Listed[k] \in T
    OBVIOUS
  <2>2. c - Listed[n] <= c - Listed[k]
    BY <1>3, <1>4, <2>1
  <2>3. Listed[k] \in 1 .. c /\ Listed[n] \in 1 .. c
    BY <1>1
  <2> QED BY <1>1, <2>2, <2>3
<1> QED BY <1>5

---------------------------------------------------------------------------
\* What is rendered for the driver

\* The versions that the nodes ask for
VersionsOf(s, nodes, h) == {VersionFor(s, h[k].os) : k \in nodes}

\* Every kernel of the selected nodes has a mapping, made for a node that runs it
LEMMA EveryKernelMapped ==
  ASSUME NEW s, NEW nodes, nodes \subseteq NodeSet, NEW h, BuildOK(nodes, h), NEW n \in nodes
  PROVE  \E k \in nodes : /\ h[k].kernel = h[n].kernel
                          /\ Mapping(s, k, h) \in KernelMappings(s, nodes, h)
<1> DEFINE S == {k \in nodes : h[k].kernel = h[n].kernel}
<1>1. S \subseteq NodeSet /\ S # {}
  OBVIOUS
<1>2. PICK k \in S : \A j \in S : Listed[k] <= Listed[j]
  BY <1>1, FirstListed
<1>3. \A j \in NodeSet : Listed[j] \in Nat
  BY OperandsAssumption, FS_CardinalityType
<1>4. \A j \in Before(nodes, k) : h[j].kernel # h[k].kernel
  <2> SUFFICES ASSUME NEW j \in nodes, Listed[j] < Listed[k], h[j].kernel = h[k].kernel
               PROVE  FALSE
    BY DEF Before
  <2>1. j \in S /\ Listed[k] <= Listed[j] /\ Listed[j] \in Nat /\ Listed[k] \in Nat
    BY <1>2, <1>3
  <2> QED BY <2>1
<1>5. k \in NewLiterals(nodes, h)
  BY <1>2, <1>4 DEF NewLiterals, BuildOK
<1> QED BY <1>2, <1>5 DEF KernelMappings

\* The version of the Module is that of one of the nodes
LEMMA ModuleVersionOfNode ==
  ASSUME NEW s, NEW nodes, nodes \subseteq NodeSet, NEW h, BuildOK(nodes, h)
  PROVE  ModuleVersion(s, nodes, h) \in VersionsOf(s, nodes, h)
<1> DEFINE new == NewLiterals(nodes, h)
           last == CHOOSE n \in new : \A k \in new : Listed[k] <= Listed[n]
<1>1. new \subseteq nodes
  BY DEF NewLiterals
<1>2. PICK n \in nodes : TRUE
  BY DEF BuildOK
<1>3. KernelMappings(s, nodes, h) # {}
  BY EveryKernelMapped
<1>4. new # {}
  BY <1>3 DEF KernelMappings
<1>5. \E x \in new : \A k \in new : Listed[k] <= Listed[x]
  BY <1>1, <1>4, LastListed
<1>6. last \in new
  BY <1>5
<1>7. ModuleVersion(s, nodes, h) = VersionFor(s, h[last].os)
  BY DEF ModuleVersion
<1> HIDE DEF last
<1> QED BY <1>1, <1>6, <1>7 DEF VersionsOf

\* handleBuildConfigMap leaves no OS out when it reports success
LEMMA EveryOSBuilt ==
  ASSUME NEW nodes, NEW h, BuildOK(nodes, h), NEW n \in nodes
  PROVE  h[n].os \in BuildConfigMaps(nodes, h)
BY DEF BuildOK, BuildConfigMaps, Before

\* Nodes that had no label get a version of the nodes, the others keep theirs
LEMMA LabelsOfNodes ==
  ASSUME NEW s, NEW nodes, nodes \subseteq NodeSet, NEW h, BaseOK
  PROVE  \A n \in nodes :
           /\ label[n] = "" => VersionLabels(s, nodes, h, label)[n] \in VersionsOf(s, nodes, h)
           /\ label[n] # "" => VersionLabels(s, nodes, h, label)[n] = label[n]
<1> TAKE n \in nodes
<1> DEFINE bare == {k \in nodes : label[k] = ""}
           first == CHOOSE k \in bare : \A j \in bare : Listed[k] <= Listed[j]
<1>1. VersionLabels(s, nodes, h, label) =
        [k \in NodeSet |-> IF k \in bare THEN VersionFor(s, h[first].os) ELSE label[k]]
  BY DEF VersionLabels, BaseOK
<1>2. n \in bare => first \in nodes
  <2> SUFFICES ASSUME n \in bare PROVE first \in nodes
    OBVIOUS
  <2>1. \E k \in bare : \A j \in bare : Listed[k] <= Listed[j]
    BY FirstListed
  <2> QED BY <2>1
<1> HIDE DEF first
<1> QED BY <1>1, <1>2 DEF VersionsOf

---------------------------------------------------------------------------
\* The invariant fits

\* A settled DeviceConfig has what DriverFits asks for
LEMMA Fits ==
  ASSUME BaseOK, Rest, DriverInv PROVE DriverFits
<1> SUFFICES ASSUME Settled, ShouldUseKMM(dc.spec), NEW n \in dc.spec.selector
             PROVE  /\ \E m \in obj["module"].mappings :
                         /\ m.kernel = host[n].kernel /\ m.os \in cms
                         /\ (\A k \in dc.spec.selector : host[k].kernel = host[n].kernel
                                                           => host[k].os = host[n].os)
                              => m.os = host[n].os
                    /\ (dc.gen = 1 /\ \A k \in dc.spec.selector :
                           VersionFor(dc.spec, host[k].os) = VersionFor(dc.spec, host[n].os))
                         => label[n] = obj["module"].version
  BY DEF DriverFits
<1> DEFINE s == dc.spec
           nodes == GetK8SNodes(s)
<1>1. nodes = s.selector /\ nodes \subseteq NodeSet
  BY Constants DEF GetK8SNodes, BaseOK, DeviceConfig
<1>2. Built(nodes, host)
  BY DEF DriverInv, BuildInv, Settled
<1>3. "module" \in Operand \ hist.lost /\ "module" \in Wanted(s)
  BY DEF DriverInv, Operand, Wanted
<1>4. AsDesired
  BY DEF Rest, Served, Settled
<1>5. obj["module"] \in Rendered("module", s, nodes, host)
  BY <1>3, <1>4 DEF AsDesired, Desired
<1>6. /\ obj["module"].mappings = KernelMappings(s, nodes, host)
      /\ obj["module"].version = ModuleVersion(s, nodes, host)
  BY <1>5 DEF Rendered, SetKMMModuleAsDesired
<1> HIDE DEF nodes, s
<1>7. PICK k \in nodes : /\ host[k].kernel = host[n].kernel
                         /\ Mapping(s, k, host) \in KernelMappings(s, nodes, host)
  <2>1. BuildOK(nodes, host) /\ n \in nodes
    BY <1>1, <1>2 DEF Built, s
  <2> QED BY <1>1, <2>1, EveryKernelMapped
<1>8. host[k].os \in cms
  BY <1>2, <1>7, EveryOSBuilt DEF Built
<1>9. Mapping(s, k, host).kernel = host[k].kernel /\ Mapping(s, k, host).os = host[k].os
  BY DEF Mapping
<1>10. ASSUME dc.gen = 1, \A j \in s.selector : VersionFor(s, host[j].os) = VersionFor(s, host[n].os)
       PROVE  label[n] = obj["module"].version
  <2>1. \A x \in VersionsOf(s, nodes, host) : x = VersionFor(s, host[n].os)
    BY <1>1, <1>10 DEF VersionsOf
  <2>2. obj["module"].version \in VersionsOf(s, nodes, host)
    BY <1>1, <1>2, <1>6, ModuleVersionOfNode DEF Built
  <2>3. label[n] \in Versions
    BY <1>1, <1>10 DEF DriverInv, FirstInstall, Settled, nodes, s
  <2>4. Versions = VersionsOf(s, nodes, host)
    BY <1>1 DEF Versions, VersionsOf, DriverInv, SameOS, nodes, s
  <2> QED BY <2>1, <2>2, <2>3, <2>4
<1> QED BY <1>1, <1>6, <1>7, <1>8, <1>9, <1>10 DEF s

---------------------------------------------------------------------------
\* Every step keeps the invariant

\* A step that leaves the pass, the labels and the ConfigMaps alone
LEMMA Apart ==
  ASSUME DriverInv, SameOS', UNCHANGED <<pass, label, cms>>, "module" \notin hist'.lost,
         dc'.phase = "present" => /\ dc.phase = "present" /\ dc'.observed = dc.observed
                                  /\ dc'.ready => dc.ready
                                  /\ queued => queued',
         dc'.gen = dc.gen => dc'.spec = dc.spec, dc'.gen = 1 => dc.gen = 1,
         queued' \/ (dc'.gen = dc.gen /\ host' = host) \/ dc'.phase # "present"
  PROVE  DriverInv'
<1>1. \A c : (Ends(c)' <=> Ends(c)) /\ (ToCome(c)' <=> ToCome(c))
  BY DEF Ends, ToCome
<1>2. \A nodes, h : Built(nodes, h)' <=> Built(nodes, h)
  BY DEF Built
<1>3. BuildInv'
  <2>1. Ends("publish")' /\ ShouldUseKMM(pass'.spec) =>
          ToCome(Do("configmaps"))' \/ Built(pass.nodes, pass.host)'
    BY <1>1, <1>2 DEF DriverInv, BuildInv
  <2>2. /\ dc'.phase = "present" /\ dc'.ready /\ dc'.observed = dc'.gen /\ pass'.pc = "idle"
        /\ ~queued' /\ ShouldUseKMM(dc'.spec)
        => Built(GetK8SNodes(dc.spec), host)'
    BY <1>2 DEF DriverInv, BuildInv
  <2> QED BY <2>1, <2>2 DEF BuildInv
<1>4. FirstInstall'
  BY <1>1 DEF DriverInv, FirstInstall, Versions
<1> QED BY <1>3, <1>4 DEF DriverInv

\* The end of a pass that did not publish
LEMMA Ended ==
  ASSUME DriverInv, pass' = NoPass, cms \subseteq cms', UNCHANGED host, hist'.lost = hist.lost,
         dc'.gen = dc.gen, dc'.spec = dc.spec, dc'.observed = dc.observed,
         dc'.phase = "present" => dc.phase = "present" /\ queued' /\ UNCHANGED label
  PROVE  DriverInv'
<1>1. pass'.pc = "idle" /\ \A c : ~Ends(c)'
  BY NoPassLeft
<1>2. SameOS' /\ BuildInv'
  BY <1>1 DEF DriverInv, SameOS, BuildInv
<1>3. FirstInstall'
  BY <1>1 DEF DriverInv, FirstInstall, Versions
<1> QED BY <1>2, <1>3 DEF DriverInv

LEMMA PublishDriver ==
  ASSUME BaseOK, Rest, DriverInv, Publish PROVE DriverInv'
<1>0. /\ Running("publish") /\ pass' = NoPass /\ UNCHANGED <<label, host, queued, cms>>
      /\ dc'.phase = dc.phase /\ dc'.spec = dc.spec /\ dc'.gen = dc.gen
      /\ hist'.lost = hist.lost
  BY DEF Publish, Published, Done, DeviceConfig, BaseOK
<1>1. pass'.pc = "idle" /\ \A c : ~Ends(c)'
  BY <1>0, NoPassLeft
<1>2. Ends("publish") /\ pass.pc # "idle"
  BY <1>0, AtEnd DEF Last, Running, Rest
<1>3. \A c \in {"configmaps", "label"} : ~ToCome(Do(c))
  <2>1. Ending(pass.todo) /\ pass.todo[1].call = "publish"
    BY <1>0, <1>2, PassInvEnding DEF Rest, Running
  <2>2. Calls(pass.todo) = {pass.todo[1]}
    BY <2>1, LastCall DEF Last
  <2> QED BY <2>1, <2>2, ToComeCalls DEF Do
<1>4. SameOS'
  BY <1>0, <1>1 DEF DriverInv, SameOS
<1>5. BuildInv'
  <2> SUFFICES ASSUME dc.phase = "present", ~queued, ShouldUseKMM(dc.spec)
               PROVE  Built(GetK8SNodes(dc.spec), host)'
    BY <1>0, <1>1 DEF BuildInv
  <2>1. pass.spec = dc.spec /\ pass.nodes = GetK8SNodes(dc.spec) /\ pass.host = host
    BY <1>2 DEF Rest, Current
  <2>2. Built(pass.nodes, pass.host)
    BY <1>2, <1>3, <2>1 DEF DriverInv, BuildInv
  <2> QED BY <1>0, <2>1, <2>2 DEF Built
<1>6. FirstInstall'
  BY <1>0, <1>1, <1>2, <1>3 DEF DriverInv, FirstInstall, Versions
<1> QED BY <1>0, <1>4, <1>5, <1>6 DEF DriverInv

\* The beginning of a pass that reconciles, or of one that finalizes
LEMMA Begun ==
  ASSUME BaseOK, DriverInv, UNCHANGED <<label, host, cms>>, hist'.lost = hist.lost,
         dc'.phase = dc.phase, dc'.spec = dc.spec, dc'.gen = dc.gen, dc'.observed = dc.observed,
         pass'.pc # "idle", pass'.spec = dc.spec,
         \/ pass'.nodes = GetK8SNodes(dc.spec) /\ pass'.host = host
         \/ pass.pc # "idle" /\ pass'.nodes = pass.nodes /\ pass'.host = pass.host,
         pass'.todo = Reconcile(pass'.spec) \/ ~Ends("publish")'
  PROVE  DriverInv'
<1>1. Ends("publish")' /\ ShouldUseKMM(dc.spec) => ToCome(Do("configmaps"))' /\ ToCome(Do("label"))'
  <2> SUFFICES ASSUME Ends("publish")', ShouldUseKMM(dc.spec)
               PROVE  ToCome(Do("configmaps"))' /\ ToCome(Do("label"))'
    OBVIOUS
  <2>1. {Do("configmaps"), Do("label")} \subseteq Calls(Reconcile(dc.spec))
    BY ReconcileCalls
  <2> QED BY <2>1 DEF ToCome, Calls
<1>2. SameOS'
  BY DEF DriverInv, SameOS
<1>3. BuildInv'
  BY <1>1 DEF BuildInv
<1>4. FirstInstall'
  BY <1>1 DEF DriverInv, FirstInstall, Versions
<1> QED BY <1>2, <1>3, <1>4 DEF DriverInv

\* A call in between
LEMMA Advanced ==
  ASSUME BaseOK, Rest, DriverInv, pass.pc = "run", pass.todo[1].call \notin Last, Advance,
         cms \subseteq cms', UNCHANGED <<dc, host>>, "module" \notin hist'.lost,
         pass.todo[1] = Do("configmaps") => Built(pass.nodes, pass.host)',
         IF pass.todo[1].call = "label"
         THEN label' = VersionLabels(pass.spec, pass.nodes, pass.host, label)
         ELSE UNCHANGED label
  PROVE  DriverInv'
<1>1. /\ pass'.pc = "run" /\ pass'.spec = pass.spec
      /\ pass'.nodes = pass.nodes /\ pass'.host = pass.host
      /\ \A c : Ends(c)' <=> Ends(c)
      /\ \A c : ToCome(c) => ToCome(c)' \/ c = pass.todo[1]
  BY AdvanceKeeps DEF Rest
<1>2. SameOS'
  BY <1>1 DEF DriverInv, SameOS
<1>3. BuildInv'
  <2> SUFFICES ASSUME Ends("publish"), ShouldUseKMM(pass.spec), ~ToCome(Do("configmaps"))'
               PROVE  Built(pass.nodes, pass.host)'
    BY <1>1 DEF BuildInv
  <2>1. CASE ToCome(Do("configmaps"))
    BY <1>1, <2>1
  <2>2. CASE ~ToCome(Do("configmaps"))
    BY <1>1, <2>2 DEF DriverInv, BuildInv, Built
  <2> QED BY <2>1, <2>2
<1>4. FirstInstall'
  <2> SUFFICES ASSUME dc.gen = 1 PROVE FirstInstall'
    BY DEF FirstInstall
  <2>0. pass.spec = dc.spec /\ pass.nodes = GetK8SNodes(dc.spec) /\ Versions' = Versions
    BY DEF DriverInv, FirstInstall, Versions
  <2>1. CASE pass.todo[1].call = "label"
    <3>1. VersionsOf(pass.spec, pass.nodes, pass.host) = Versions
      BY <2>0 DEF VersionsOf, Versions, DriverInv, SameOS, GetK8SNodes
    <3>2. ASSUME dc.phase = "present", NEW n \in GetK8SNodes(dc.spec) PROVE label'[n] \in Versions
      <4>1. label[n] \in {""} \cup Versions
        BY <3>2 DEF DriverInv, FirstInstall
      <4>2. pass.nodes \subseteq NodeSet /\ n \in pass.nodes /\ DOMAIN label = NodeSet
        BY <2>0 DEF GetK8SNodes, BaseOK
      <4>3. IF label[n] = "" THEN label'[n] \in VersionsOf(pass.spec, pass.nodes, pass.host)
            ELSE label'[n] = label[n]
        <5> DEFINE s == pass.spec
                   nodes == pass.nodes
                   h == pass.host
        <5>1. label' = VersionLabels(s, nodes, h, label)
          BY <2>1
        <5>2. nodes \subseteq NodeSet /\ n \in nodes
          BY <4>2
        <5> HIDE DEF s, nodes, h
        <5>3. \A j \in nodes :
                /\ label[j] = "" => VersionLabels(s, nodes, h, label)[j] \in VersionsOf(s, nodes, h)
                /\ label[j] # "" => VersionLabels(s, nodes, h, label)[j] = label[j]
          BY <5>2, LabelsOfNodes
        <5> QED BY <5>1, <5>2, <5>3 DEF s, nodes, h
      <4> QED BY <3>1, <4>1, <4>3
    <3> QED BY <1>1, <2>0, <3>2 DEF FirstInstall
  <2>2. CASE pass.todo[1].call # "label"
    <3>1. ToCome(Do("label")) => ToCome(Do("label"))'
      BY <1>1, <2>2 DEF Do
    <3> QED BY <1>1, <2>0, <2>2, <3>1 DEF DriverInv, FirstInstall
  <2> QED BY <2>1, <2>2
<1> QED BY <1>2, <1>3, <1>4 DEF DriverInv

\* A patch of a version label fails: some nodes have theirs, a request waits
LEMMA LabelFailsDriver ==
  ASSUME BaseOK, Rest, DriverInv, NEW n \in NodeSet, VersionLabelFails(n) PROVE DriverInv'
<1> DEFINE s == pass.spec
           nodes == pass.nodes
           h == pass.host
           done == VersionLabels(s, nodes, h, label)
<1>0. /\ pass.pc = "run" /\ pass' = NoPass /\ queued' = TRUE
      /\ UNCHANGED <<dc, host, cms, hist>>
      /\ label' = [k \in NodeSet |-> IF k \in Before(nodes, n) THEN done[k] ELSE label[k]]
  BY DEF VersionLabelFails, Requeued, Running
<1>1. pass'.pc = "idle" /\ \A c : ~Ends(c)'
  BY <1>0, NoPassLeft
<1>2. SameOS' /\ BuildInv'
  BY <1>0, <1>1 DEF DriverInv, SameOS, BuildInv
<1>3. nodes \subseteq NodeSet
  BY <1>0, PassInvEnding DEF Rest, PassRecord
<1> HIDE DEF s, nodes, h, done
<1>4. \A j \in nodes : /\ label[j] = "" => done[j] \in VersionsOf(s, nodes, h)
                       /\ label[j] # "" => done[j] = label[j]
  BY <1>3, LabelsOfNodes DEF done
<1>5. FirstInstall'
  <2> SUFFICES ASSUME dc.gen = 1, dc.phase = "present", NEW k \in GetK8SNodes(dc.spec)
               PROVE  /\ label'[k] \in {""} \cup Versions
                      /\ ShouldUseKMM(dc.spec) /\ dc.observed = 1 => label'[k] \in Versions
    <3>1. Versions' = Versions
      BY <1>0 DEF Versions
    <3> QED BY <1>0, <1>1, <3>1 DEF FirstInstall
  <2>1. VersionsOf(s, nodes, h) = Versions
    <3>1. s = dc.spec /\ nodes = GetK8SNodes(dc.spec)
      BY <1>0 DEF DriverInv, FirstInstall, s, nodes
    <3>2. \A j \in NodeSet : h[j].os = OSOf[j]
      BY <1>0 DEF DriverInv, SameOS, h
    <3> QED BY <1>3, <3>1, <3>2 DEF VersionsOf, Versions
  <2>2. /\ label[k] \in {""} \cup Versions
        /\ ShouldUseKMM(dc.spec) /\ dc.observed = 1 => label[k] \in Versions
    BY DEF DriverInv, FirstInstall
  <2>3. k \in NodeSet /\ (k \in Before(nodes, n) => k \in nodes)
    BY DEF GetK8SNodes, Before
  <2>4. label'[k] = IF k \in Before(nodes, n) THEN done[k] ELSE label[k]
    BY <1>0, <2>3
  <2> QED BY <1>4, <2>1, <2>2, <2>3, <2>4
<1> QED BY <1>0, <1>2, <1>5 DEF DriverInv

LEMMA DriverPassStep ==
  ASSUME BaseOK, Rest, DriverInv, PassStep PROVE DriverInv'
<1> USE DEF BaseOK
<1>1. ASSUME PassNotFound \/ PassRefuse PROVE DriverInv'
  <2>1. /\ UNCHANGED <<pass, label, cms, hist, host>> /\ dc'.spec = dc.spec /\ dc'.gen = dc.gen
        /\ dc'.phase = dc.phase /\ dc'.observed = dc.observed /\ (dc'.ready => dc.ready)
    BY <1>1 DEF PassNotFound, PassRefuse, DeviceConfig
  <2>2. dc.phase = "present" => queued'
    BY <1>1 DEF PassNotFound, PassRefuse
  <2>3. SameOS'
    BY <2>1 DEF DriverInv, SameOS
  <2> QED BY <2>1, <2>2, <2>3, Apart DEF DriverInv
<1>2. ASSUME SetFinalizerNotFound \/ (HandleBuildConfigMap /\ Requeued) PROVE DriverInv'
  <2>1. /\ pass' = NoPass /\ queued' /\ UNCHANGED <<dc, label, hist, host>> /\ cms \subseteq cms'
    BY <1>2 DEF SetFinalizerNotFound, HandleBuildConfigMap, Requeued
  <2> QED BY <2>1, Ended
<1>3. ASSUME ReleaseLabels \/ RemoveFinalizer PROVE DriverInv'
  <2>1. Running("unlabel") \/ Running("release")
    BY <1>3 DEF ReleaseLabels, RemoveFinalizer
  <2>2. dc.phase # "present"
    BY <2>1, AtEnd DEF Rest, PhaseInv, Last, Ends
  <2>3. /\ pass' = NoPass /\ UNCHANGED <<cms, host>> /\ hist'.lost = hist.lost
        /\ dc'.gen = dc.gen /\ dc'.spec = dc.spec /\ dc'.observed = dc.observed
        /\ dc'.phase \in {dc.phase, "gone"}
    BY <1>3 DEF ReleaseLabels, RemoveFinalizer, DeviceConfig
  <2> QED BY <2>2, <2>3, Ended
<1>4. CASE PassFinalize
  <2>1. pass' = PassOn("run", finalizeDeviceConfig) /\ UNCHANGED <<dc, cms, label, host, hist>>
    BY <1>4 DEF PassFinalize
  <2>2. /\ pass'.pc = "run" /\ pass'.todo = finalizeDeviceConfig /\ pass'.spec = dc.spec
        /\ pass'.nodes = GetK8SNodes(dc.spec) /\ pass'.host = host
    BY <2>1 DEF PassOn
  <2>3. ~Ends("publish")'
    BY <2>2, FinalizeCalls DEF Ends
  <2> QED BY <2>1, <2>2, <2>3, Begun
<1>5. CASE PassAccept
  <2>1. PICK pc \in {"finalizer", "run"} : pass' = PassOn(pc, Reconcile(dc.spec))
    BY <1>5 DEF PassAccept
  <2>2. /\ pass'.pc # "idle" /\ pass'.todo = Reconcile(dc.spec) /\ pass'.spec = dc.spec
        /\ pass'.nodes = GetK8SNodes(dc.spec) /\ pass'.host = host
    BY <2>1 DEF PassOn
  <2>3. UNCHANGED <<dc, cms, label, host>> /\ hist'.lost = hist.lost
    BY <1>5 DEF PassAccept
  <2> QED BY <2>2, <2>3, Begun
<1>6. CASE SetFinalizer
  <2>1. /\ pass.pc # "idle" /\ UNCHANGED <<cms, label, host>> /\ hist'.lost = hist.lost
        /\ dc'.phase = dc.phase /\ dc'.spec = dc.spec /\ dc'.gen = dc.gen
        /\ dc'.observed = dc.observed /\ pass' = Adopt
    BY <1>6 DEF SetFinalizer, DeviceConfig
  <2>2. pass \in PassRecord
    BY <2>1, PassInvEnding DEF Rest
  <2>3. /\ pass'.pc = "run" /\ pass'.todo = Reconcile(dc.spec) /\ pass'.spec = dc.spec
        /\ pass'.nodes = pass.nodes /\ pass'.host = pass.host
    BY <2>1, <2>2 DEF Adopt, PassRecord
  <2> QED BY <2>1, <2>3, Begun
<1>7. ASSUME HandleBuildConfigMap, ~Requeued PROVE DriverInv'
  <2>1. /\ pass.pc = "run" /\ pass.todo[1].call = "configmaps" /\ Advance
        /\ BuildOK(pass.nodes, pass.host) /\ UNCHANGED <<dc, label, host, hist>>
        /\ cms' = cms \cup BuildConfigMaps(pass.nodes, pass.host)
    BY <1>7 DEF HandleBuildConfigMap, Running
  <2>2. pass'.nodes = pass.nodes /\ pass'.host = pass.host
    BY <2>1, AdvanceKeeps DEF Rest, Last
  <2>3. Built(pass.nodes, pass.host)'
    BY <2>1, <2>2 DEF Built
  <2> QED BY <2>1, <2>3, Advanced DEF Last, DriverInv
<1>8. ASSUME PutOperand \/ RemoveOperand PROVE DriverInv'
  <2>1. /\ pass.pc = "run" /\ pass.todo[1].call \in {"put", "remove"} /\ Advance
        /\ UNCHANGED <<dc, label, host, cms>>
        /\ hist' = [hist EXCEPT !.lost = @ \ {pass.todo[1].on}]
    BY <1>8 DEF PutOperand, RemoveOperand, Running
  <2>2. "module" \notin hist'.lost /\ pass.todo[1] # Do("configmaps")
    BY <2>1 DEF Do, DriverInv
  <2> QED BY <2>1, <2>2, Advanced DEF Last
<1>9. CASE HandleKMMVersionLabel
  <2>1. /\ pass.pc = "run" /\ pass.todo[1].call = "label" /\ Advance
        /\ UNCHANGED <<dc, host, cms, hist>>
        /\ label' = VersionLabels(pass.spec, pass.nodes, pass.host, label)
    BY <1>9 DEF HandleKMMVersionLabel, Running
  <2>2. pass.todo[1] # Do("configmaps")
    BY <2>1 DEF Do
  <2> QED BY <2>1, <2>2, Advanced DEF Last, DriverInv
<1>10. CASE ReleaseModule
  <2>1. /\ Running("release") /\ pass.pc = "run" /\ UNCHANGED <<dc, cms, label, host, hist>>
        /\ pass' = [pass EXCEPT !.todo = <<Do("unlabel")>>]
    BY <1>10 DEF ReleaseModule, Running
  <2>2. pass \in PassRecord /\ pass.spec = dc.spec
    BY <2>1, AtEnd, PassInvEnding DEF Rest, PhaseInv, Last
  <2>3. /\ pass'.pc = "run" /\ pass'.todo = <<Do("unlabel")>> /\ pass'.spec = dc.spec
        /\ pass'.nodes = pass.nodes /\ pass'.host = pass.host
    BY <2>1, <2>2 DEF PassRecord
  <2>4. ~Ends("publish")'
    BY <2>3 DEF Ends, Do
  <2> QED BY <2>1, <2>3, <2>4, Begun
<1> QED BY <1>1, <1>2, <1>3, <1>4, <1>5, <1>6, <1>7, <1>8, <1>9, <1>10, PublishDriver DEF PassStep

LEMMA DriverStep ==
  ASSUME BaseOK, Rest, DriverInv, [Next]_vars PROVE DriverInv'
<1> USE DEF BaseOK
<1>1. CASE PassStep
  BY <1>1, DriverPassStep
<1>2. ASSUME StepFails \/ BuildConfigMapFails \/ UnlabelFails \/ Restart PROVE DriverInv'
  <2>1. /\ pass' = NoPass /\ UNCHANGED <<dc, label, host>> /\ cms \subseteq cms'
        /\ hist'.lost = hist.lost
    BY <1>2 DEF StepFails, BuildConfigMapFails, UnlabelFails, Restart, Requeued, Done
  <2>2. queued' \/ dc.phase # "present"
    <3>1. CASE UnlabelFails
      BY <3>1, AtEnd DEF UnlabelFails, Rest, PhaseInv, Last, Ends
    <3> QED BY <1>2, <3>1 DEF StepFails, BuildConfigMapFails, Restart, Requeued
  <2> QED BY <2>1, <2>2, Ended
<1>3. ASSUME NEW n \in NodeSet, NEW k \in Kernels, KernelChanges(n, k) PROVE DriverInv'
  <2>1. UNCHANGED <<dc, pass, label, cms, hist>> /\ queued'
    BY <1>3 DEF KernelChanges
  <2>2. host' = [host EXCEPT ![n].kernel = k]
    BY <1>3 DEF KernelChanges
  <2>3. \A j \in NodeSet : host'[j].os = host[j].os
    BY <2>2 DEF Hosts
  <2>4. SameOS'
    BY <2>1, <2>3 DEF DriverInv, SameOS
  <2> QED BY <2>1, <2>4, Apart DEF DriverInv
<1>4. ASSUME NEW o \in Touchable, OperandDeleted(o) PROVE DriverInv'
  <2>1. UNCHANGED <<dc, pass, label, cms, host>> /\ (queued => queued')
    BY <1>4 DEF OperandDeleted
  <2>2. "module" \notin hist'.lost
    BY <1>4, Constants DEF OperandDeleted, DriverInv
  <2>3. SameOS'
    BY <2>1 DEF DriverInv, SameOS
  <2> QED BY <2>1, <2>2, <2>3, Apart
<1>5. ASSUME \/ \E d \in DaemonSets \cap Touchable : OperandEdited(d)
             \/ KmmUnloaded
             \/ \E r \in Refs : RefChanges(r)
             \/ \E d \in Counted : PodsAvailable(d)
             \/ UNCHANGED vars
      PROVE  DriverInv'
  <2>1. UNCHANGED <<dc, pass, label, cms, host, hist>> /\ (queued => queued')
    BY <1>5 DEF OperandEdited, KmmUnloaded, RefChanges, PodsAvailable, vars
  <2>2. SameOS'
    BY <2>1 DEF DriverInv, SameOS
  <2> QED BY <2>1, <2>2, Apart DEF DriverInv
<1>6. ASSUME NEW d \in Counted, DaemonsetEvent(d) PROVE DriverInv'
  <2>1. /\ UNCHANGED <<pass, label, cms, host, queued>> /\ hist'.lost = hist.lost
        /\ dc'.spec = dc.spec /\ dc'.gen = dc.gen
        /\ dc'.phase = dc.phase /\ dc'.observed = dc.observed /\ dc'.ready = dc.ready
    BY <1>6 DEF DaemonsetEvent, Counting, DeviceConfig
  <2>2. SameOS'
    BY <2>1 DEF DriverInv, SameOS
  <2> QED BY <2>1, <2>2, Apart DEF DriverInv
<1>7. ASSUME UserDeletes \/ \E s \in Specs : UserEdits(s) PROVE DriverInv'
  <2>1. /\ UNCHANGED <<pass, label, cms, host, hist>> /\ queued' /\ dc.phase = "present"
        /\ dc'.observed = dc.observed /\ dc'.ready = dc.ready
    BY <1>7 DEF UserDeletes, UserEdits, DeviceConfig
  <2>2. (dc'.gen = dc.gen => dc'.spec = dc.spec) /\ (dc'.gen = 1 => dc.gen = 1)
    <3>1. CASE UserDeletes
      BY <3>1 DEF UserDeletes, DeviceConfig
    <3>2. CASE \E s \in Specs : UserEdits(s)
      <4>1. dc'.gen = dc.gen + 1 /\ dc.gen \in Nat \ {0}
        BY <3>2 DEF UserEdits, DeviceConfig
      <4> QED BY <4>1
    <3> QED BY <1>7, <3>1, <3>2
  <2>3. SameOS'
    BY <2>1 DEF DriverInv, SameOS
  <2> QED BY <2>1, <2>2, <2>3, Apart DEF DriverInv
<1>8. CASE LabellerGetFails
  <2>1. /\ pass.pc = "run" /\ pass.todo[1].call = "remove" /\ Advance
        /\ UNCHANGED <<dc, label, host, cms>>
        /\ hist' = [hist EXCEPT !.lost = @ \cup {"labeller"}]
    BY <1>8 DEF LabellerGetFails, Running
  <2>2. "module" \notin hist'.lost /\ pass.todo[1] # Do("configmaps")
    BY <2>1 DEF Do, DriverInv
  <2> QED BY <2>1, <2>2, Advanced DEF Last
<1>9. ASSUME NEW n \in NodeSet, VersionLabelFails(n) PROVE DriverInv'
  BY <1>9, LabelFailsDriver
<1> QED BY <1>1, <1>2, <1>3, <1>4, <1>5, <1>6, <1>7, <1>8, <1>9 DEF Next

LEMMA DriverInit == Init => DriverInv
<1> SUFFICES ASSUME Init PROVE DriverInv
  OBVIOUS
<1>1. /\ dc.observed = 0 /\ dc.ready = FALSE /\ pass = NoPass /\ label = [n \in NodeSet |-> ""]
      /\ host = [n \in NodeSet |-> [os |-> OSOf[n], kernel |-> InitialKernel]]
      /\ hist = NoHistory
  BY DEF Init
<1>2. pass.pc = "idle" /\ \A c : ~Ends(c)
  BY <1>1 DEF NoPass, Ends
<1>3. "module" \notin hist.lost
  BY <1>1 DEF NoHistory
<1>4. SameOS /\ BuildInv
  BY <1>1, <1>2 DEF SameOS, BuildInv
<1>5. FirstInstall
  <2>1. \A n \in GetK8SNodes(dc.spec) : label[n] = ""
    BY <1>1 DEF GetK8SNodes
  <2>2. dc.observed # 1
    <3>1. dc.observed = 0
      BY DEF Init
    <3> QED BY <3>1
  <2> QED BY <1>2, <2>1, <2>2 DEF FirstInstall
<1> QED BY <1>3, <1>4, <1>5 DEF DriverInv

\* For any specs, nodes, OSs and kernels, and any listing order: once Reconcile has
\* settled on a DeviceConfig with KMM, getKernelMappings has a mapping for the kernel of
\* every selected node and handleBuildConfigMap the Dockerfile it builds from, the image
\* is that of the node's OS unless OSs share a kernel, and after a first install the label
\* of every node is the version of the Module, if the nodes have one default version.
THEOREM DriverFitsNodes == Spec => []DriverFits
<1>1. BaseOK /\ Rest /\ DriverInv => DriverFits
  BY Fits
<1>2. BaseOK /\ Rest /\ DriverInv /\ [Next]_vars => DriverInv'
  BY DriverStep
<1> QED BY <1>1, <1>2, DriverInit, PartsAlways, PTL DEF Spec
====
