--------------------------- MODULE MCWorkspacePage ---------------------------
EXTENDS WorkspacePage, TLC
CONSTANTS p1, p2
MCVisits == {p1, p2}
Symmetry == Permutations(MCVisits)
=============================================================================
