------------------------------- MODULE MCGossip -------------------------------
EXTENDS Gossip, TLC

Symmetry == Permutations(Nodes)

=============================================================================
