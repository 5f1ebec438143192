-------------------------------- MODULE MCP2P --------------------------------
\* P2P for TLC.  No property names a site, so the sites are interchangeable.
EXTENDS P2P, TLC

Symmetry == Permutations(Site)

=============================================================================
