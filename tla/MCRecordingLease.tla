-------------------------- MODULE MCRecordingLease --------------------------
(* Small instances of RecordingLease for TLC.                              *)
EXTENDS RecordingLease, TLC

CONSTANTS n1, n2, c1

\* Exact clocks.
ExactSkew == [n \in Nodes |-> 0]
AllContinuous == [c \in Cameras |-> "continuous"]
AllEvent == [c \in Cameras |-> "event"]
\* What the system's own steps look at in a run too short for a node to go
\* offline: everything but the observations and the time a node was last seen.
NoHistory == <<now, [n \in Nodes |-> node[n].status], assignment, locations, pc, payload, accepted,
               failureStarted, file, capture, local, faults>>
NodeSymmetry == Permutations(Nodes)
UnitCost == [c \in Cameras |-> 1]
UnitLimit == [n \in Nodes |-> 1]
=============================================================================
