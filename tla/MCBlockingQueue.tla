--------------------------- MODULE MCBlockingQueue ---------------------------
EXTENDS BlockingQueue

MCProducer == {"p1", "p2"}
MCConsumer == {"c1", "c2"}
=============================================================================
