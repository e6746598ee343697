--------------------------- MODULE MCRemediation ---------------------------
\* Remediation for TLC.
EXTENDS Remediation, TLC

CONSTANTS unhealthy, custom

\* "ecc" comes before "xgmi" in the list of conditions
EccFirst == [c \in Conditions |-> IF c = "ecc" THEN 1 ELSE 2]
====
