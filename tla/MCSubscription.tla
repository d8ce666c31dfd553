-------------------------- MODULE MCSubscription --------------------------
EXTENDS Subscription, TLC

Symmetry == Permutations(Workers) \cup Permutations(Keys) \cup Permutations(Variants)
=============================================================================
