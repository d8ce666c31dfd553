----------------------------- MODULE MCCatalog -----------------------------
EXTENDS Catalog, TLC

Symmetry == Permutations(Workers) \cup Permutations(Tags) \cup Permutations(Names)
=============================================================================
