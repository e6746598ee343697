----------------------------- MODULE Rendering -----------------------------
(***************************************************************************)
(* What a DeviceConfig asks for: the objects the operator derives from its *)
(* spec and from the nodes it selects.  Pure operators, translated from    *)
(*   internal/kmmmodule/kmmmodule.go          Module, device plugin        *)
(*   internal/metricsexporter/metricsexporter.go                           *)
(*   internal/testrunner, internal/configmanager, internal/nodelabeller    *)
(*   internal/validator                       what makes a spec valid      *)
(*                                                                         *)
(* A rendered object is a record of what the rest of the system reacts to: *)
(* where its pods run and what they wait for, the ports and the scheme of  *)
(* the metrics, what is tolerated, which driver goes to which kernel.      *)
(* Volumes, images, environment and resource limits are constant text or   *)
(* copies of a spec field and are left out.                                *)
(***************************************************************************)
EXTENDS Naturals, Sequences, FiniteSets

CONSTANTS
  OSInfo,       \* OS |-> [named, dockerfile, version]: GetOSName knows it,
                \* resolveDockerfile has a template, its default driver version
  Listed        \* node |-> its place in the order in which nodes are listed

servicePort == 5000

DriverTypes == {"container", "vf-passthrough", "pf-passthrough"}

\* What validation looks up in the cluster: Secrets, ConfigMaps and the
\* ServiceMonitor CRD
Crd == "ServiceMonitorCRD"

---------------------------------------------------------------------------
\* The driver

ShouldUseKMM(s) == s.enable /\ s.type # "pf-passthrough"

\* The nodes of a list before n
Before(nodes, n) == {k \in nodes : Listed[k] < Listed[n]}

\* spec.driver.version, or what the OS of the node defaults to
VersionFor(s, os) == IF s.version # "" THEN s.version ELSE OSInfo[os].version

Named(n, host) == OSInfo[host[n].os].named

\* getKernelMappings: the nodes whose kernel has no mapping yet.  A node whose OS
\* has no name is skipped.  getKM also fails where an OS has no default version; such
\* an OS (an Ubuntu other than 20.04, 22.04 and 24.04) has no Dockerfile either, and
\* the pass ends at its build ConfigMap, before the Module.
NewLiterals(nodes, host) ==
  {n \in nodes : /\ Named(n, host)
                 /\ \A k \in Before(nodes, n) :
                      host[k].kernel = host[n].kernel => ~Named(k, host)}

Mapping(s, n, host) ==
  [kernel |-> host[n].kernel, os |-> host[n].os, version |-> VersionFor(s, host[n].os)]

\* Mutant: only the first node is mapped
MappingOfFirst(s, nodes, host) ==
  {Mapping(s, n, host) : n \in {n \in nodes : Before(nodes, n) = {}}}

\* One mapping per kernel, with the image of the node that came first
KernelMappings(s, nodes, host) == {Mapping(s, n, host) : n \in NewLiterals(nodes, host)}

\* setKMMModuleLoader: without a version in the spec the Module takes that of
\* the node that was mapped last
ModuleVersion(s, nodes, host) ==
  LET new == NewLiterals(nodes, host)
      last == CHOOSE n \in new : \A k \in new : Listed[k] <= Listed[n]
  IN VersionFor(s, host[last].os)

\* Tolerations for the taints of a remediation
RemediationTolerations(s) == IF s.taints = {} THEN {"amd-gpu-unhealthy"} ELSE s.taints

SetKMMModuleAsDesired(s, nodes, host) ==
  [driver |-> IF s.type = "vf-passthrough" THEN "gim" ELSE "amdgpu",
   version |-> ModuleVersion(s, nodes, host),
   mappings |-> KernelMappings(s, nodes, host),
   selector |-> s.selector,
   tolerates |-> {"amd-gpu-driver-upgrade", "amd-dcm"} \cup RemediationTolerations(s)]

\* SetNodeVersionLabelAsDesired: only nodes without the label get it, and the
\* default found for the first of them serves for all
VersionLabels(s, nodes, host, label) ==
  LET bare == {n \in nodes : label[n] = ""}
      first == CHOOSE n \in bare : \A k \in bare : Listed[n] <= Listed[k]
  IN [n \in DOMAIN label |-> IF n \in bare THEN VersionFor(s, host[first].os) ELSE label[n]]

\* handleBuildConfigMap: a Dockerfile per OS, until a node has no OS name
BuildConfigMaps(nodes, host) ==
  {host[n].os : n \in {n \in nodes :
     /\ OSInfo[host[n].os].dockerfile
     /\ \A k \in Before(nodes, n) \cup {n} : Named(k, host)}}

\* It reports success
BuildOK(nodes, host) ==
  /\ nodes # {}
  /\ \A n \in nodes : Named(n, host) /\ OSInfo[host[n].os].dockerfile

---------------------------------------------------------------------------
\* The DaemonSets

\* The init container of every operand waits for the driver
InitContainerWaitsFor(s) ==
  CASE s.type = "container" -> "amdgpu"
    [] s.type = "vf-passthrough" -> "gim"
    [] s.type = "pf-passthrough" -> "nothing"

\* Where an operand with a selector of its own runs: there, else where the
\* DeviceConfig selects, and behind the ready label of KMM if KMM is used
NodeSelector(s, own) ==
  [nodes |-> IF own = {} THEN s.selector ELSE own, kmmReady |-> ShouldUseKMM(s)]

Orders(S) == {f \in [1 .. Cardinality(S) -> S] : \A x \in S : \E i \in DOMAIN f : f[i] = x}

\* The passthrough types default the naming strategy
DevicePluginArguments(s) ==
  IF s.type = "container" THEN s.args ELSE s.args \cup {"resource_naming_strategy"}

\* SetDevicePluginAsDesired: the flags are joined in the order a Go map is
\* walked in, another one each time
SetDevicePluginAsDesired(s) ==
  {[selector |-> NodeSelector(s, {}), waits |-> InitContainerWaitsFor(s), args |-> o] :
     o \in Orders(DevicePluginArguments(s))}

\* SetNodeLabellerAsDesired: the selector of the DeviceConfig alone, and the
\* labels of the driver type
SetNodeLabellerAsDesired(s) ==
  [selector |-> s.selector, waits |-> InitContainerWaitsFor(s), labels |-> s.type]

SetTestRunnerAsDesired(s) ==
  [selector |-> NodeSelector(s, s.own), waits |-> InitContainerWaitsFor(s)]

SetConfigManagerAsDesired(s) ==
  [selector |-> NodeSelector(s, s.own), waits |-> InitContainerWaitsFor(s),
   kmm |-> ShouldUseKMM(s), tolerates |-> {"amd-dcm"}]

---------------------------------------------------------------------------
\* Metrics

MetricsPort(s) == IF s.port > 0 THEN s.port ELSE servicePort

Https(s) == s.rbac /\ ~s.disableHttps

\* The port of the exporter itself: behind the proxy it has to be another one
InternalPort(s) ==
  CASE ~s.rbac -> MetricsPort(s)
    [] s.rbac /\ MetricsPort(s) = servicePort -> servicePort - 1
    [] s.rbac /\ MetricsPort(s) # servicePort -> servicePort

SetMetricsExporterAsDesired(s) ==
  [selector |-> NodeSelector(s, s.own), waits |-> InitContainerWaitsFor(s),
   proxied |-> s.rbac, port |-> MetricsPort(s), internal |-> InternalPort(s),
   https |-> Https(s), auth |-> s.rbac /\ s.auth,
   tolerates |-> RemediationTolerations(s)]

SetMetricsServiceAsDesired(s) == [port |-> MetricsPort(s)]

\* Mutant: the scheme follows the proxy alone
MonitorOfProxy(s) == [port |-> MetricsPort(s), https |-> s.rbac]

SetServiceMonitorAsDesired(s) == [port |-> MetricsPort(s), https |-> Https(s)]

SetStaticAuthSecretAsDesired(s) == [client |-> s.client]

---------------------------------------------------------------------------
\* Validation, against the objects that exist

ValidateDriverSpec(s, exists) ==
  /\ s.type \in DriverTypes
  /\ ShouldUseKMM(s) => s.driverRefs \subseteq exists

ValidateMetricsExporterSpec(s, exists) ==
  s.exporter => /\ s.exporterRefs \subseteq exists
                /\ s.monitor => Crd \in exists

ValidateDevicePluginSpec(s, exists) ==
  /\ s.pluginRefs \subseteq exists
  /\ s.args \subseteq {"resource_naming_strategy", "driver_type"}

ValidateRemediationWorkflowSpec(s, exists) ==
  s.remediation => s.remediationRefs \subseteq exists /\ s.ttlParses

ValidateDeviceConfigAll(s, exists) ==
  /\ ValidateDriverSpec(s, exists)
  /\ ValidateMetricsExporterSpec(s, exists)
  /\ ValidateDevicePluginSpec(s, exists)
  /\ ValidateRemediationWorkflowSpec(s, exists)
====
