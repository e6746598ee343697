------------------------------ MODULE NodeLease ------------------------------
(***************************************************************************)
(* What the reconciler promises about nodes, without maps, passes, status  *)
(* updates or restarts: DeviceConfigs hold leases of sets of nodes.  A     *)
(* DeviceConfig takes a set of nodes in one step, in exchange for what it  *)
(* held, at an instant at which no other one holds any of them; it gives   *)
(* back all it holds at any time.  The promise ends once the operator has  *)
(* given a node away that was not its to give.                             *)
(***************************************************************************)
CONSTANTS DCs, Nodes

VARIABLES
  held,         \* the nodes each DeviceConfig holds
  broken        \* the promise has ended

leases == <<held, broken>>

Init == held = [d \in DCs |-> {}] /\ broken = FALSE

Take(d, nodes) ==
  /\ \A e \in DCs \ {d} : held[e] \cap nodes = {}
  /\ held' = [held EXCEPT ![d] = nodes]
  /\ UNCHANGED broken

GiveBack(d) ==
  /\ held' = [held EXCEPT ![d] = {}]
  /\ UNCHANGED broken

Break == broken' = TRUE /\ UNCHANGED held

\* Nothing is promised any more
Anything == broken /\ broken' = TRUE /\ held' \in [DCs -> SUBSET Nodes]

Next ==
  \/ \E d \in DCs : GiveBack(d) \/ \E nodes \in SUBSET Nodes : Take(d, nodes)
  \/ Break \/ Anything

Spec == Init /\ [][Next]_leases

\* No node is held by two DeviceConfigs.
Exclusive ==
  ~broken => \A d, e \in DCs : d # e => held[d] \cap held[e] = {}
====
