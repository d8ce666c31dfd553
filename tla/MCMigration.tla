---- MODULE MCMigration ----
EXTENDS Migration, TLC

\* Invocations are alike.
Symmetry == Permutations(Workers)
====
