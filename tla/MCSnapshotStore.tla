--------------------------- MODULE MCSnapshotStore ---------------------------
EXTENDS SnapshotStore, TLC
CONSTANTS p1, p2
Symmetry == Permutations(Processes)
Old == {0, 1, 3, 4}
=============================================================================
