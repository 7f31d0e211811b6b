------------------------------ MODULE MCStudio ------------------------------
(* A small instance of the Studio for TLC (StudioSystem): two scenes and    *)
(* one kept state on the server, three scenes in the editor's collection.   *)
EXTENDS StudioSystem, TLC

CONSTANTS s1, s2, d1, d2, a1, x1, x2, x3, a, b, n, c

Same == Permutations(Scenes) \cup Permutations(Definitions)

\* Two plain sources, one of them in a locked item, and a scene inside another.
SomeDocuments ==
    {[scenes |-> <<[id |-> x1,
                    sources |-> <<[id |-> a, target |-> None, muted |-> TRUE],
                                  [id |-> b, target |-> None, muted |-> TRUE]>>,
                    items |-> <<[source |-> a, z |-> 0, pos |-> 0, locked |-> FALSE],
                                [source |-> b, z |-> 1, pos |-> 1, locked |-> TRUE]>>],
                   [id |-> x2,
                    sources |-> <<[id |-> n, target |-> x1, muted |-> TRUE]>>,
                    items |-> <<[source |-> n, z |-> 0, pos |-> 0, locked |-> FALSE]>>]>>,
      preview |-> x1, program |-> x2]}
=============================================================================
