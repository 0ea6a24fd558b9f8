--------------------------- MODULE MCTableStorage ---------------------------
\* Instances of TableStorage for TLC.
EXTENDS TableStorage, TLC

Symmetry == Permutations(Key) \cup Permutations(SecKey)
=============================================================================
