----------------------------- MODULE MCOperands -----------------------------
\* Operands for TLC.
EXTENDS Operands

MCOSInfo ==
  [ubuntu22 |-> [named |-> TRUE, dockerfile |-> TRUE, version |-> "6.1.3"],
   ubuntu24 |-> [named |-> TRUE, dockerfile |-> TRUE, version |-> "6.3.3"],
   rhel     |-> [named |-> TRUE, dockerfile |-> FALSE, version |-> "6.2.2"]]

MCNodeSet == {"n1", "n2", "n3"}
MCListed == [n1 |-> 1, n2 |-> 2, n3 |-> 3]
MCOSOf == [n1 |-> "ubuntu22", n2 |-> "ubuntu24", n3 |-> "rhel"]

\* Everything on, the metrics behind a proxy with TLS on the default port
Full ==
  [enable |-> TRUE, type |-> "container", version |-> "", selector |-> {"n1", "n2"},
   own |-> {}, args |-> {}, labeller |-> TRUE, exporter |-> TRUE, rbac |-> TRUE,
   disableHttps |-> FALSE, auth |-> TRUE, client |-> "c", monitor |-> TRUE, port |-> 0,
   runner |-> TRUE, manager |-> TRUE, taints |-> {}, remediation |-> TRUE,
   ttlParses |-> TRUE, driverRefs |-> {"pull"}, exporterRefs |-> {},
   pluginRefs |-> {}, remediationRefs |-> {}]

\* One node, another version, no proxy, no monitor
Small ==
  [Full EXCEPT !.version = "6.4", !.selector = {"n1"}, !.rbac = FALSE, !.auth = FALSE,
               !.monitor = FALSE, !.port = 5001, !.labeller = FALSE, !.taints = {"t"}]

\* Nothing but the labeller switched off: no other change asks for a pass
NoLabels == [Full EXCEPT !.labeller = FALSE]

\* The proxy without TLS on a port of its own
NoTLS == [Full EXCEPT !.disableHttps = TRUE, !.port = 5002]

\* No driver and no metrics, two flags for the device plugin
Bare ==
  [Full EXCEPT !.enable = FALSE, !.exporter = FALSE, !.manager = FALSE,
               !.args = {"resource_naming_strategy", "driver_type"}]

\* Not valid
Bogus == [Full EXCEPT !.args = {"bogus"}]

\* Valid, but it selects no node, or one without a Dockerfile
Empty == [Full EXCEPT !.selector = {}]
Rhel == [Full EXCEPT !.selector = {"n1", "n3"}]

MCSpecs == {Full, Small, NoLabels, NoTLS, Bare, Bogus, Empty, Rhel}
MCInitialSpecs == {Full, Bare}
====
