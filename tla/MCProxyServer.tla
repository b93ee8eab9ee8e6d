---------------------------- MODULE MCProxyServer ----------------------------
EXTENDS ProxyServer, TLC
CONSTANTS c1, c2, c3
MCClients == {c1, c2, c3}
Symmetry == Permutations(MCClients)
=============================================================================
