------------------------- MODULE MCParallelAggregate -------------------------
EXTENDS ParallelAggregate

\* Four segments for three workers, one of them filtered away.
MCBatches == <<1, 2, 0, 1>>
=============================================================================
