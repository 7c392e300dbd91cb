------------------------------ MODULE MCFetch ------------------------------
EXTENDS Fetch, TLC
Symmetry == Permutations(Scripts) \cup Permutations(Version)
=============================================================================
