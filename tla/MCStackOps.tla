----------------------------- MODULE MCStackOps -----------------------------
EXTENDS StackOps, TLC
CONSTANTS j1, j2
MCOne == {j1}
MCTwo == {j1, j2}
Symmetry == Permutations(MCTwo)
=============================================================================
