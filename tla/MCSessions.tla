----------------------------- MODULE MCSessions -----------------------------
\* A phone and a browser of the same user.
EXTENDS SessionClients, TLC

Symmetry == Permutations(Requests)
=============================================================================
