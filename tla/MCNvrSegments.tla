--------------------------- MODULE MCNvrSegments ---------------------------
(* Small instances of NvrSegments for TLC.                                 *)
EXTENDS NvrSegments, TLC

CONSTANTS s1, s2, v1, v2

\* Neither segments nor volumes are told apart by the model.
SegmentSymmetry == Permutations(Segments) \cup Permutations(Volumes)
=============================================================================
