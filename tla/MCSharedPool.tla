---------------------------- MODULE MCSharedPool ----------------------------
\* Instances of SharedPool for TLC.
EXTENDS SharedPool

\* As many segments as workers, each with more batches than the queue has slots.
MCBatches == <<2, 2>>
=============================================================================
