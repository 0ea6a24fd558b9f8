---------------------------- MODULE ParallelQuery ----------------------------
(***************************************************************************)
(* ParallelExecutor::ExecuteQuery: workers push result batches into a      *)
(* bounded queue, the calling thread pops them and hands them to the       *)
(* consumer.  The last worker to leave closes the queue; a worker that     *)
(* throws cancels the scan and aborts the queue with its exception.        *)
(*                                                                         *)
(* The queue is the atomic one that BlockingQueue shows the mutex and      *)
(* condition variables of bounded_blocking_queue.h to implement.           *)
(***************************************************************************)
EXTENDS ScanWorkers

CONSTANT QueueCapacity   \* ParallelConfig::result_queue_capacity

ASSUME CapacityAssumption == QueueCapacity \in Nat

VARIABLES
    queue, closed, aborted, queueCancelled,  \* BoundedBlockingQueue
    error,      \* its error_: the worker whose exception it carries, 0 for none
    active,     \* active_workers
    coord,      \* where the calling thread is
    caught,     \* the error it will rethrow, 0 for none
    delivered,  \* batches given to the consumer, in order
    failed      \* the workers that threw

queueVars == <<queue, closed, aborted, queueCancelled, error>>
callVars  == <<coord, caught, delivered>>
vars      == <<scanVars, queueVars, active, callVars, failed>>

Init ==
    /\ ScanInit
    /\ queue = <<>>
    /\ closed = FALSE
    /\ aborted = FALSE
    /\ queueCancelled = FALSE
    /\ error = 0
    /\ active = WorkerCount
    /\ coord = "submit"
    /\ caught = 0
    /\ delivered = <<>>
    /\ failed = {}

-----------------------------------------------------------------------------
(* The queue *)

Capacity   == Greatest(1, QueueCapacity)
Terminated == closed \/ aborted \/ queueCancelled
HasRoom    == Len(queue) < Capacity

-----------------------------------------------------------------------------
(* A worker *)

\* One step of the scan below the pipeline, or the task's start.
WorkerScans(w) ==
    /\ ScanStep(w)
    /\ UNCHANGED <<queueVars, active, callVars, failed>>

\* Push: waits for room while the queue is not terminated.
PushBatch(w) ==
    /\ at[w] = "emit"
    /\ ~ Terminated
    /\ HasRoom
    /\ queue' = Append(queue, <<seg[w], pos[w]>>)
    /\ Goto(w, "scan")
    /\ UNCHANGED <<submitted, nextSeg, cancelled, seg, pos, closed, aborted,
                   queueCancelled, error, active, callVars, failed>>

\* Push returns false: the batch is dropped, the worker cancels the scan and leaves.
PushRefused(w) ==
    /\ at[w] = "emit"
    /\ Terminated
    /\ cancelled' = TRUE
    /\ Goto(w, "exit")
    /\ UNCHANGED <<submitted, nextSeg, seg, pos, queueVars, active, callVars, failed>>

WorkerFails(w) ==
    /\ coord # "left"
    /\ WorkerThrows(w)
    /\ failed' = failed \cup {w}
    /\ UNCHANGED <<queueVars, active, callVars>>

\* results.Abort(std::current_exception()): a later error replaces an earlier one.
AbortQueue(w) ==
    /\ at[w] = "catch"
    /\ aborted' = TRUE
    /\ error' = w
    /\ Goto(w, "exit")
    /\ UNCHANGED <<submitted, nextSeg, cancelled, seg, pos, queue, closed,
                   queueCancelled, active, callVars, failed>>

\* Mutant: the first worker to leave closes the queue.
LeaveFirstCloses(w) ==
    /\ at[w] = "exit"
    /\ active' = active - 1
    /\ Goto(w, IF active = WorkerCount THEN "close" ELSE "done")
    /\ UNCHANGED <<submitted, nextSeg, cancelled, seg, pos, queueVars, callVars, failed>>

\* Mutant: nobody finds itself the last one.
LeaveOffByOne(w) ==
    /\ at[w] = "exit"
    /\ active' = active - 1
    /\ Goto(w, IF active = 0 THEN "close" ELSE "done")
    /\ UNCHANGED <<submitted, nextSeg, cancelled, seg, pos, queueVars, callVars, failed>>

\* WorkerExitGuard: fetch_sub, and the last one out closes the queue.
Leave(w) ==
    /\ at[w] = "exit"
    /\ active' = active - 1
    /\ Goto(w, IF active = 1 THEN "close" ELSE "done")
    /\ UNCHANGED <<submitted, nextSeg, cancelled, seg, pos, queueVars, callVars, failed>>

CloseQueue(w) ==
    /\ at[w] = "close"
    /\ closed' = TRUE
    /\ Goto(w, "done")
    /\ UNCHANGED <<submitted, nextSeg, cancelled, seg, pos, queue, aborted,
                   queueCancelled, error, active, callVars, failed>>

-----------------------------------------------------------------------------
(* The calling thread *)

Submit ==
    /\ coord = "submit"
    /\ SubmitTask
    /\ coord' = IF submitted' = WorkerCount THEN "pop" ELSE "submit"
    /\ UNCHANGED <<queueVars, active, caught, delivered, failed>>

\* Mutant: the queue is not cancelled, a worker blocked in Push stays there.
SubmitFailsKeepsQueue ==
    /\ "submit" \in Faults
    /\ coord = "submit"
    /\ cancelled' = TRUE
    /\ coord' = "abandon"
    /\ UNCHANGED <<submitted, at, nextSeg, seg, pos, queueVars, active, caught,
                   delivered, failed>>

\* Submit throws: cancel the scan and the queue, then wait for what was submitted.
SubmitFails ==
    /\ "submit" \in Faults
    /\ coord = "submit"
    /\ cancelled' = TRUE
    /\ queueCancelled' = TRUE
    /\ coord' = "abandon"
    /\ UNCHANGED <<submitted, at, nextSeg, seg, pos, queue, closed, aborted, error,
                   active, caught, delivered, failed>>

\* Every future handed out so far is ready.
Joined == \A w \in 1..submitted : at[w] = "done"

\* Mutant: the submit error is rethrown without waiting for the tasks.
AbandonAtOnce ==
    /\ coord = "abandon"
    /\ coord' = "threw"
    /\ UNCHANGED <<scanVars, queueVars, active, caught, delivered, failed>>

Abandon ==
    /\ coord = "abandon"
    /\ Joined
    /\ coord' = "threw"
    /\ UNCHANGED <<scanVars, queueVars, active, caught, delivered, failed>>

\* Mutant: nothing is consumed before every worker has begun.
PopAfterStart ==
    /\ coord = "pop"
    /\ \A w \in Worker : at[w] # "queued"
    /\ queue # <<>>
    /\ queue' = Tail(queue)
    /\ delivered' = Append(delivered, Head(queue))
    /\ UNCHANGED <<scanVars, closed, aborted, queueCancelled, error, active, coord,
                   caught, failed>>

\* Pop hands out what is queued even after Abort, then returns false; the consumer
\* gets the batch at once.
Pop ==
    /\ coord = "pop"
    /\ queue # <<>>
    /\ queue' = Tail(queue)
    /\ delivered' = Append(delivered, Head(queue))
    /\ UNCHANGED <<scanVars, closed, aborted, queueCancelled, error, active, coord,
                   caught, failed>>

\* The consumer throws: the exception leaves ExecuteQuery, nobody is joined.  What
\* the remaining workers then do on the dead stack frame is undefined, so the model
\* stops here.
ConsumerThrows ==
    /\ "consumer" \in Faults
    /\ coord = "pop"
    /\ queue # <<>>
    /\ queue' = Tail(queue)
    /\ coord' = "left"
    /\ UNCHANGED <<scanVars, closed, aborted, queueCancelled, error, active, caught,
                   delivered, failed>>

\* Mutant: the error slot is read before the queue says that nothing will follow.
PopEndsEarly ==
    /\ coord = "pop"
    /\ queue = <<>>
    /\ caught' = error
    /\ coord' = "join"
    /\ UNCHANGED <<scanVars, queueVars, active, delivered, failed>>

\* Mutant: a terminated queue is not drained.
PopEndsDropsRest ==
    /\ coord = "pop"
    /\ Terminated
    /\ caught' = error
    /\ coord' = "join"
    /\ UNCHANGED <<scanVars, queueVars, active, delivered, failed>>

\* Pop returns false; results.Error() is read once.
PopEnds ==
    /\ coord = "pop"
    /\ queue = <<>>
    /\ Terminated
    /\ caught' = error
    /\ coord' = "join"
    /\ UNCHANGED <<scanVars, queueVars, active, delivered, failed>>

\* future.get() for every worker, then return or cancel and rethrow.
Join ==
    /\ coord = "join"
    /\ Joined
    /\ coord' = IF caught = 0 THEN "returned" ELSE "threw"
    /\ cancelled' = (cancelled \/ caught # 0)
    /\ UNCHANGED <<submitted, at, nextSeg, seg, pos, queueVars, active, caught,
                   delivered, failed>>

-----------------------------------------------------------------------------

WorkerStep(w) ==
    /\ coord # "left"
    /\ \/ WorkerScans(w)
       \/ PushBatch(w)
       \/ PushRefused(w)
       \/ AbortQueue(w)
       \/ Leave(w)
       \/ CloseQueue(w)

CallStep ==
    \/ Submit
    \/ Abandon
    \/ Pop
    \/ PopEnds
    \/ Join

\* The call is over and so is every task, or the consumer has thrown.
Finished ==
    /\ coord = "left" \/ (coord \in {"returned", "threw"} /\ Joined)
    /\ UNCHANGED vars

Next ==
    \/ \E w \in Worker : WorkerStep(w) \/ WorkerFails(w)
    \/ CallStep
    \/ SubmitFails
    \/ ConsumerThrows
    \/ Finished

Spec == Init /\ [][Next]_vars

\* The scheduler runs every thread that can go on, and consumers return.
FairSpec ==
    /\ Spec
    /\ WF_vars(CallStep)
    /\ \A w \in Worker : WF_vars(WorkerStep(w))

-----------------------------------------------------------------------------
(* Properties *)

Frame   == coord \notin {"returned", "threw", "left"}
InHand  == {<<seg[w], pos[w]>> : w \in {v \in Worker : at[v] = "emit"}}
Seen(s) == {s[i] : i \in DOMAIN s}

TypeOK ==
    /\ ScanTypeOK
    /\ queue \in Seq(Batches) /\ Len(queue) <= Capacity
    /\ {closed, aborted, queueCancelled} \subseteq BOOLEAN
    /\ error \in 0..WorkerCount
    /\ active \in 0..WorkerCount
    /\ coord \in {"submit", "abandon", "pop", "join", "returned", "threw", "left"}
    /\ caught \in 0..WorkerCount
    /\ delivered \in Seq(Batches)
    /\ failed \subseteq Worker

\* A worker still to leave reads builder, plan, results and active_workers, which
\* live on the stack of ExecuteQuery: a call that returns, or that throws by itself,
\* does not end before it.
WorkersInsideFrame == coord \in {"returned", "threw"} => Joined

\* The same for every end of the call, as the comments in ExecuteQuery say when they
\* speak of joining all workers because they read that stack.
CallJoinsWorkers == ~ Frame => Joined

\* Each batch is in one place at most: read and not yet pushed, queued, or given to
\* the consumer, and never twice (two workers never claim one segment).
EachBatchOnce ==
    LET inFlight == delivered \o queue
    IN  /\ \A i, j \in DOMAIN inFlight : i # j => inFlight[i] # inFlight[j]
        /\ Seen(inFlight) \cap InHand = {}
        /\ \A v, w \in Worker : v # w /\ seg[v] # 0 => seg[v] # seg[w]

\* A failure of any worker reaches the caller as an exception: a query never
\* returns a partial result as if it were whole, and never throws for nothing.
ErrorsReachCaller ==
    /\ coord = "returned" => failed = {} /\ Seen(delivered) = Batches
    /\ coord = "threw" /\ ~ queueCancelled => caught \in failed

\* Push is refused only after an error: end of file is never announced while a
\* worker still has something to say.
CloseIsLast == closed => \A w \in Worker : at[w] = "done"

\* The calling thread does not wait for ever, whoever throws, however small the
\* queue and however few threads are free.
Termination == <>(~ Frame)

\* Unless the consumer throws, every task ends.
WorkersLeave == \A w \in Worker : at[w] = "queued" ~> at[w] = "done" \/ coord = "left"

outcome == IF Frame THEN "running" ELSE IF coord = "returned" THEN coord ELSE "threw"
Delivery == INSTANCE QueryDelivery WITH delivered <- Seen(delivered), outcome <- outcome

\* ExecuteQuery is a query in the sense of QueryDelivery.
Delivers == Delivery!Spec
=============================================================================
