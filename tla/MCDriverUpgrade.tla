-------------------------- MODULE MCDriverUpgrade --------------------------
(***************************************************************************)
(* Instances of DriverUpgrade for TLC: values for the cfg files.           *)
(***************************************************************************)
EXTENDS DriverUpgrade, TLC

CONSTANTS d1, d2

OneDC  == [n \in Nodes |-> d1]
TwoDCs == [n \in Nodes |-> IF n = 1 THEN d1 ELSE d2]

\* Versions are interchangeable: nothing orders them
VersionSymmetry == Permutations(Versions)

====
