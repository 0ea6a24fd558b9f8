--------------------------- MODULE MCParallelQuery ---------------------------
EXTENDS ParallelQuery

\* Three segments, one of them filtered away; more segments than workers, and more
\* batches than queue slots.
MCBatches == <<2, 0, 2>>
=============================================================================
