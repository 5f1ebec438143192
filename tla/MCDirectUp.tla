------------------------------ MODULE MCDirectUp ------------------------------
\* DirectUp for TLC.  No property names a tab, so the tabs are interchangeable.
EXTENDS DirectUp, TLC

Symmetry == Permutations(Port)

=============================================================================
