-------------------------- MODULE MCNodeAssignment --------------------------
\* NodeAssignment for TLC.
EXTENDS NodeAssignment, TLC

\* Nodes are interchangeable: no order among them is used
NodeSymmetry == Permutations(Nodes)
====
