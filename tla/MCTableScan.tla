----------------------------- MODULE MCTableScan -----------------------------
EXTENDS TableScan

MCPred == {"p", "q"}
=============================================================================
