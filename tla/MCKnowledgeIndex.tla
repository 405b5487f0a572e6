-------------------------- MODULE MCKnowledgeIndex --------------------------
(* KnowledgeIndex on small sets. *)
EXTENDS KnowledgeIndex, TLC

CONSTANTS k1, x1, x2, s1, s2, v1, v2, v3, v4

Symmetry == Permutations(Workers) \cup Permutations(Sources)

=============================================================================
