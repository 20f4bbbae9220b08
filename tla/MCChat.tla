------------------------------- MODULE MCChat -------------------------------
EXTENDS Chat, TLC

Symmetry == Permutations(Clients) \cup Permutations(Names)
=============================================================================
