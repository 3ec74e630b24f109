---------------------------- MODULE MCCoordinator ----------------------------
(* Two actors advance one root cursor over two nodes.                        *)
EXTENDS Coordinator, TLC

CONSTANTS a1, a2, n1, n2

MCActor == {a1, a2}
MCNode == {n1, n2}
Symmetry == Permutations(MCActor) \cup Permutations(MCNode)
=============================================================================
