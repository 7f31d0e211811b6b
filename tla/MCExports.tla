------------------------------ MODULE MCExports ------------------------------
(* Small instances of the evidence exports for TLC (EvidenceExports): two   *)
(* requests of the submitting page; a timeline of one camera, whose         *)
(* neighbour's segment lies after its own.                                  *)
EXTENDS EvidenceExports

CONSTANTS j1, j2, d1, s1, r1, r2, c1, c2

\* The two cameras' segments lie one after the other.
CoversOf == [c \in {1, 2} |-> IF c = 1 THEN {c1} ELSE {c2}]
LeaseIds == 1..6
=============================================================================
