----------------------------- MODULE MCWorkerPool -----------------------------
EXTENDS WorkerPool, TLC

Symmetry == Permutations(Workers) \cup Permutations(Feeders)

=============================================================================
