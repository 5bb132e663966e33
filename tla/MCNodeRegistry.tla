--------------------------- MODULE MCNodeRegistry ---------------------------
(***************************************************************************)
(* Small instances of NodeRegistry.                                        *)
(***************************************************************************)
EXTENDS NodeRegistry, TLC

\* nodes are interchangeable, and so are requests
Symmetry == Permutations(Nodes) \cup Permutations(Requests)
=============================================================================
