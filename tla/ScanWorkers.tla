----------------------------- MODULE ScanWorkers -----------------------------
(***************************************************************************)
(* The part that every parallel query shares (ParallelExecutor,            *)
(* ParallelScanGlobalState and TableStorage::ScanParallel): pipeline tasks *)
(* are handed to the thread pool, and each worker claims segments of the   *)
(* query's snapshot with an atomic counter and reads them batch by batch   *)
(* until none is left or the scan is cancelled.                            *)
(*                                                                         *)
(* A worker's filter and projection are left out: BatchesIn says how many  *)
(* non-empty batches come out of each segment of the snapshot.             *)
(***************************************************************************)
EXTENDS Integers, Sequences, FiniteSets

CONSTANTS
    MaxWorkers,     \* ParallelConfig::worker_threads
    PoolSize,       \* threads of the pool
    FreeThreads,    \* those that other queries leave to this one
    BatchesIn,      \* BatchesIn[s]: batches of the s-th segment of the snapshot
    Faults          \* the faults this instance considers

ASSUME WorkersAssumption ==
    /\ MaxWorkers \in Nat
    /\ PoolSize \in Nat \ {0}
    /\ FreeThreads \in 1..PoolSize
    /\ BatchesIn \in Seq(Nat)
    /\ Faults \subseteq {"worker", "submit", "consumer"}

VARIABLES
    submitted,  \* tasks handed to the pool so far
    at,         \* where each worker is
    nextSeg,    \* next_segment
    cancelled,  \* ParallelScanGlobalState::cancelled
    seg,        \* the segment each worker is reading, 0 when it has none
    pos         \* batches of it already read (the scan cursor)

scanVars == <<submitted, at, nextSeg, cancelled, seg, pos>>

-----------------------------------------------------------------------------

Least(a, b) == IF a < b THEN a ELSE b
Greatest(a, b) == IF a < b THEN b ELSE a

Segments == Len(BatchesIn)

\* ResolveWorkerCount; the query memory context has as many worker arenas as
\* the first line gives, so it never lowers the count.
WorkerCount ==
    LET count == Greatest(1, Least(MaxWorkers, PoolSize))
    IN  IF Segments > 0 THEN Greatest(1, Least(count, Segments)) ELSE count

Worker  == 1..WorkerCount
Batches == UNION {{<<s, i>> : i \in 1..BatchesIn[s]} : s \in 1..Segments}

Busy == {w \in Worker : at[w] \notin {"idle", "queued", "done"}}

ScanInit ==
    /\ submitted = 0
    /\ at = [w \in Worker |-> "idle"]
    /\ nextSeg = 0
    /\ cancelled = FALSE
    /\ seg = [w \in Worker |-> 0]
    /\ pos = [w \in Worker |-> 0]

Goto(w, label) == at' = [at EXCEPT ![w] = label]

\* ThreadPool::Submit of the next pipeline task.
SubmitTask ==
    /\ submitted < WorkerCount
    /\ submitted' = submitted + 1
    /\ Goto(submitted + 1, "queued")
    /\ UNCHANGED <<nextSeg, cancelled, seg, pos>>

\* A pool thread takes the task.
StartTask(w) ==
    /\ at[w] = "queued"
    /\ Cardinality(Busy) < FreeThreads
    /\ Goto(w, "scan")
    /\ UNCHANGED <<submitted, nextSeg, cancelled, seg, pos>>

\* ScanParallel looks at the cancel flag before it claims or reads on.
CheckCancelled(w) ==
    /\ at[w] = "scan"
    /\ Goto(w, IF cancelled THEN "exit" ELSE IF seg[w] = 0 THEN "claim" ELSE "read")
    /\ UNCHANGED <<submitted, nextSeg, cancelled, seg, pos>>

\* Mutant: the counter is read and written in two steps; here the write is lost.
ClaimSegmentTorn(w) ==
    /\ at[w] = "claim"
    /\ nextSeg' \in {nextSeg, nextSeg + 1}
    /\ IF nextSeg < Segments
       THEN /\ seg' = [seg EXCEPT ![w] = nextSeg + 1]
            /\ Goto(w, "read")
       ELSE /\ Goto(w, "exit")
            /\ UNCHANGED seg
    /\ UNCHANGED <<submitted, cancelled, pos>>

\* ClaimSegment: fetch_add, then compare with the number of segments.  The flag it
\* reads first is the one CheckCancelled has just read; it may have changed since.
ClaimSegment(w) ==
    /\ at[w] = "claim"
    /\ nextSeg' = nextSeg + 1
    /\ IF nextSeg < Segments
       THEN /\ seg' = [seg EXCEPT ![w] = nextSeg + 1]
            /\ Goto(w, "read")
       ELSE /\ Goto(w, "exit")
            /\ UNCHANGED seg
    /\ UNCHANGED <<submitted, cancelled, pos>>

\* ScanSegment produces the next batch of the segment ...
ReadBatch(w) ==
    /\ at[w] = "read"
    /\ pos[w] < BatchesIn[seg[w]]
    /\ pos' = [pos EXCEPT ![w] = @ + 1]
    /\ Goto(w, "emit")
    /\ UNCHANGED <<submitted, nextSeg, cancelled, seg>>

\* ... or reports its end (ResetSegment).
ReadEnds(w) ==
    /\ at[w] = "read"
    /\ pos[w] = BatchesIn[seg[w]]
    /\ seg' = [seg EXCEPT ![w] = 0]
    /\ pos' = [pos EXCEPT ![w] = 0]
    /\ Goto(w, "scan")
    /\ UNCHANGED <<submitted, nextSeg, cancelled>>

\* Building the pipeline, opening a segment or evaluating a batch throws; the
\* handler of the worker begins with scan->Cancel().
WorkerThrows(w) ==
    /\ "worker" \in Faults
    /\ at[w] \in {"scan", "read"}
    /\ cancelled' = TRUE
    /\ Goto(w, "catch")
    /\ UNCHANGED <<submitted, nextSeg, seg, pos>>

ScanStep(w) ==
    \/ StartTask(w)
    \/ CheckCancelled(w)
    \/ ClaimSegment(w)
    \/ ReadBatch(w)
    \/ ReadEnds(w)

ScanTypeOK ==
    /\ submitted \in 0..WorkerCount
    /\ at \in [Worker -> {"idle", "queued", "scan", "claim", "read", "emit", "catch",
                          "exit", "close", "done"}]
    /\ nextSeg \in Nat
    /\ cancelled \in BOOLEAN
    /\ seg \in [Worker -> 0..Segments]
    /\ pos \in [Worker -> Nat]
=============================================================================
