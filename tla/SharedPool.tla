------------------------------ MODULE SharedPool ------------------------------
(***************************************************************************)
(* Two parallel queries on the thread pool of one database.  Each is a      *)
(* ParallelQuery; what they share is the pool's threads and its task queue, *)
(* first in, first out.  The two callers are two sessions, or the second    *)
(* query is run by the consumer of the first, from within its pop loop, as  *)
(* the callback of Connection::Execute may do.                              *)
(***************************************************************************)
EXTENDS Integers, Sequences, FiniteSets

CONSTANTS
    MaxWorkers,     \* ParallelConfig::worker_threads
    PoolSize,       \* the largest pool considered
    BatchesIn,      \* batches in the segments of the table
    QueueCapacity   \* ParallelConfig::result_queue_capacity

VARIABLES
    threads,    \* threads of the pool
    nested,     \* is the second query run by the consumer of the first?
    tasks,      \* tasks_ of the pool: query and worker
    \* the first query
    submitted1, at1, nextSeg1, cancelled1, seg1, pos1, queue1, closed1, aborted1,
    queueCancelled1, error1, active1, coord1, caught1, delivered1, failed1,
    \* the second query
    submitted2, at2, nextSeg2, cancelled2, seg2, pos2, queue2, closed2, aborted2,
    queueCancelled2, error2, active2, coord2, caught2, delivered2, failed2

vars1 == <<
    submitted1, at1, nextSeg1, cancelled1, seg1, pos1, queue1, closed1, aborted1,
    queueCancelled1, error1, active1, coord1, caught1, delivered1, failed1>>
vars2 == <<
    submitted2, at2, nextSeg2, cancelled2, seg2, pos2, queue2, closed2, aborted2,
    queueCancelled2, error2, active2, coord2, caught2, delivered2, failed2>>
vars == <<threads, nested, tasks, vars1, vars2>>

First == INSTANCE ParallelQuery WITH
    submitted <- submitted1, at <- at1, nextSeg <- nextSeg1, cancelled <- cancelled1, seg <-
    seg1, pos <- pos1, queue <- queue1, closed <- closed1, aborted <- aborted1,
    queueCancelled <- queueCancelled1, error <- error1, active <- active1, coord <- coord1,
    caught <- caught1, delivered <- delivered1, failed <- failed1, FreeThreads <- PoolSize,
    Faults <- {}
Second == INSTANCE ParallelQuery WITH
    submitted <- submitted2, at <- at2, nextSeg <- nextSeg2, cancelled <- cancelled2, seg <-
    seg2, pos <- pos2, queue <- queue2, closed <- closed2, aborted <- aborted2,
    queueCancelled <- queueCancelled2, error <- error2, active <- active2, coord <- coord2,
    caught <- caught2, delivered <- delivered2, failed <- failed2, FreeThreads <- PoolSize,
    Faults <- {}

-----------------------------------------------------------------------------

(* A consumer that starts a query while the workers of its own keep every   *)
(* thread waits for ever.  Nested queries are considered on pools with more *)
(* threads than a query has workers, two sessions on the smallest pool.     *)
Init ==
    /\ First!Init
    /\ Second!Init
    /\ threads \in First!WorkerCount..PoolSize
    /\ nested = (threads > First!WorkerCount)
    /\ tasks = <<>>

\* A free thread takes the oldest task; the other steps of a worker need none.
TakesTask(query, w, at) ==
    IF at[w] = "queued"
       THEN /\ tasks # <<>>
            /\ Head(tasks) = <<query, w>>
            /\ Cardinality(First!Busy) + Cardinality(Second!Busy) < threads
            /\ tasks' = Tail(tasks)
       ELSE UNCHANGED tasks

\* Submit appends to tasks_.
Submits(query, submitted) ==
    tasks' = IF submitted' > submitted THEN Append(tasks, <<query, submitted'>>) ELSE tasks

FirstWorker(w) ==
    /\ First!WorkerStep(w)
    /\ TakesTask(1, w, at1)
    /\ UNCHANGED <<threads, nested, vars2>>

SecondWorker(w) ==
    /\ Second!WorkerStep(w)
    /\ TakesTask(2, w, at2)
    /\ UNCHANGED <<threads, nested, vars1>>

\* The caller of the first query is inside its consumer, which runs the second.
InConsumer == nested /\ delivered1 # <<>> /\ Second!Frame

FirstCall ==
    /\ ~InConsumer
    /\ First!CallStep
    /\ Submits(1, submitted1)
    /\ UNCHANGED <<threads, nested, vars2>>

SecondCall ==
    /\ nested => InConsumer
    /\ Second!CallStep
    /\ Submits(2, submitted2)
    /\ UNCHANGED <<threads, nested, vars1>>

Finished ==
    /\ First!Finished
    /\ Second!Finished
    /\ UNCHANGED vars

Next ==
    \/ \E w \in First!Worker : FirstWorker(w) \/ SecondWorker(w)
    \/ FirstCall
    \/ SecondCall
    \/ Finished

\* The scheduler runs every thread that can go on, and consumers return.
Spec ==
    /\ Init /\ [][Next]_vars
    /\ WF_vars(FirstCall) /\ WF_vars(SecondCall)
    /\ \A w \in First!Worker : WF_vars(FirstWorker(w)) /\ WF_vars(SecondWorker(w))

-----------------------------------------------------------------------------

\* No two queries wait for each other's threads: a worker blocked on a full
\* queue keeps its thread, but its own caller is never behind a task that needs
\* this thread.
BothReturn == <>(coord1 = "returned" /\ coord2 = "returned")

=============================================================================
