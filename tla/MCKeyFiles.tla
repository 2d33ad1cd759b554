----------------------------- MODULE MCKeyFiles -----------------------------
(***************************************************************************)
(* KeyFiles with two processes of each kind and enough keys for each of    *)
(* them to start over once or twice.                                       *)
(***************************************************************************)
EXTENDS KeyFiles, TLC

CONSTANTS n1, n2, g1, g2

MCNode == {n1, n2}
MCKeygen == {g1, g2}
Symmetry == Permutations(MCNode) \cup Permutations(MCKeygen) \cup Permutations(Key)

=============================================================================
