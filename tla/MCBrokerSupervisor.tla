------------------------- MODULE MCBrokerSupervisor -------------------------
EXTENDS BrokerSupervisor, TLC

Symmetry == Permutations(Gens)
=============================================================================
