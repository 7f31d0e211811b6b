------------------------------ MODULE MCAccess ------------------------------
(* A small instance of devices, shared pages and the desktop for TLC        *)
(* (Access): two windows, scenes, profiles and sources, an enrolment and a  *)
(* client, two services of which one has a port.                            *)
EXTENDS Access

CONSTANTS basic, extra, more, w1, w2, pro1, pro2, k1, k2, enrolment, client, nvr, backup

\* One window shows a source, the other one more.
WallOf == [w \in Windows |-> IF w = w1 THEN {k1} ELSE {k1, k2}]

TheServices == <<nvr, backup>>
=============================================================================
