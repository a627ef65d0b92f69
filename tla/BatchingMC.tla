----------------------------- MODULE BatchingMC -----------------------------
EXTENDS Batching, TLC

\* Guard places are interchangeable.
GuardSymmetry == Permutations(Guard)

=============================================================================
