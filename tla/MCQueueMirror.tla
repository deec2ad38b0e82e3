--------------------------- MODULE MCQueueMirror ---------------------------
EXTENDS QueueMirror, TLC

Symmetry == Permutations(Hosts)

=============================================================================
