---------------------------- MODULE MCThreadPool ----------------------------
EXTENDS ThreadPool

MCWorker == {"w1", "w2"}
MCClient == {"c1", "c2"}
=============================================================================
