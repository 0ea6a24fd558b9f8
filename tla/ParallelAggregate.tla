-------------------------- MODULE ParallelAggregate --------------------------
(***************************************************************************)
(* ParallelExecutor::ExecuteAggregate: each worker folds the batches it    *)
(* reads into a hash table of its own; the calling thread takes the        *)
(* futures in order, merges them, and then gives the result rows to the    *)
(* consumer.  A hash table is the set of batches it was fed with, which is *)
(* all that aggregation and Merge must get right here.                     *)
(***************************************************************************)
EXTENDS ScanWorkers

VARIABLES
    local,      \* the HashAggregateState of each worker
    threw,      \* workers whose future holds an exception
    coord,      \* where the calling thread is
    taken,      \* futures taken so far
    global,     \* the merged state: batches, in the order they were merged
    caught      \* an exception to rethrow has been kept

callVars == <<coord, taken, global, caught>>
vars     == <<scanVars, local, threw, callVars>>

Init ==
    /\ ScanInit
    /\ local = [w \in Worker |-> <<>>]
    /\ threw = {}
    /\ coord = "submit"
    /\ taken = 0
    /\ global = <<>>
    /\ caught = FALSE

-----------------------------------------------------------------------------
(* A worker *)

WorkerScans(w) ==
    /\ ScanStep(w)
    /\ UNCHANGED <<local, threw, callVars>>

\* local.Consume(batch)
Consume(w) ==
    /\ at[w] = "emit"
    /\ local' = [local EXCEPT ![w] = Append(@, <<seg[w], pos[w]>>)]
    /\ Goto(w, "scan")
    /\ UNCHANGED <<submitted, nextSeg, cancelled, seg, pos, threw, callVars>>

WorkerFails(w) ==
    /\ WorkerThrows(w)
    /\ UNCHANGED <<local, threw, callVars>>

\* Mutant: the handler cancels the scan and lets the worker return what it has.
SwallowError(w) ==
    /\ at[w] = "catch"
    /\ Goto(w, "done")
    /\ UNCHANGED <<submitted, nextSeg, cancelled, seg, pos, local, threw, callVars>>

\* The handler rethrows: the future holds the exception.
KeepError(w) ==
    /\ at[w] = "catch"
    /\ threw' = threw \cup {w}
    /\ Goto(w, "done")
    /\ UNCHANGED <<submitted, nextSeg, cancelled, seg, pos, local, callVars>>

\* The scan is exhausted, or another worker has cancelled it: the future holds what
\* this worker has, however little.
ReturnLocal(w) ==
    /\ at[w] = "exit"
    /\ Goto(w, "done")
    /\ UNCHANGED <<submitted, nextSeg, cancelled, seg, pos, local, threw, callVars>>

-----------------------------------------------------------------------------
(* The calling thread *)

Submit ==
    /\ coord = "submit"
    /\ SubmitTask
    /\ coord' = IF submitted' = WorkerCount THEN "collect" ELSE "submit"
    /\ UNCHANGED <<local, threw, taken, global, caught>>

\* Submit throws: cancel the scan and wait for what was submitted.
SubmitFails ==
    /\ "submit" \in Faults
    /\ coord = "submit"
    /\ cancelled' = TRUE
    /\ coord' = "abandon"
    /\ UNCHANGED <<submitted, at, nextSeg, seg, pos, local, threw, taken, global, caught>>

Joined == \A w \in 1..submitted : at[w] = "done"

\* Mutant: it waits for every worker, those never submitted included.
AbandonWaitsForAll ==
    /\ coord = "abandon"
    /\ \A w \in Worker : at[w] = "done"
    /\ coord' = "threw"
    /\ UNCHANGED <<scanVars, local, threw, taken, global, caught>>

Abandon ==
    /\ coord = "abandon"
    /\ Joined
    /\ coord' = "threw"
    /\ UNCHANGED <<scanVars, local, threw, taken, global, caught>>

\* Mutant: the first exception leaves the loop.
CollectStopsAtError ==
    /\ coord = "collect"
    /\ taken < WorkerCount
    /\ LET w == taken + 1 IN
        /\ at[w] = "done"
        /\ IF w \in threw
           THEN /\ caught' = TRUE
                /\ coord' = "threw"
                /\ UNCHANGED global
           ELSE /\ global' = global \o local[w]
                /\ UNCHANGED <<coord, caught>>
        /\ taken' = w
    /\ UNCHANGED <<scanVars, local, threw>>

\* global.Merge(future.get()); an exception is kept and the loop goes on, so that
\* every worker is done with the stack of ExecuteAggregate.
Collect ==
    /\ coord = "collect"
    /\ taken < WorkerCount
    /\ LET w == taken + 1 IN
        /\ at[w] = "done"
        /\ IF w \in threw
           THEN caught' = TRUE /\ UNCHANGED global
           ELSE global' = global \o local[w] /\ UNCHANGED caught
        /\ taken' = w
    /\ UNCHANGED <<scanVars, local, threw, coord>>

\* Every future has been taken: rethrow, or go on to the result rows.
Collected ==
    /\ coord = "collect"
    /\ taken = WorkerCount
    /\ coord' = IF caught THEN "threw" ELSE "output"
    /\ cancelled' = (cancelled \/ caught)
    /\ UNCHANGED <<submitted, at, nextSeg, seg, pos, local, threw, taken, global, caught>>

\* NextResult hands the rows to the consumer, which may throw.
Output ==
    /\ coord = "output"
    /\ \/ coord' = "returned"
       \/ "consumer" \in Faults /\ coord' = "threw"
    /\ UNCHANGED <<scanVars, local, threw, taken, global, caught>>

-----------------------------------------------------------------------------

WorkerStep(w) ==
    \/ WorkerScans(w)
    \/ Consume(w)
    \/ KeepError(w)
    \/ ReturnLocal(w)

CallStep ==
    \/ Submit
    \/ Abandon
    \/ Collect
    \/ Collected
    \/ Output

\* The call is over and so is every task.
Finished ==
    /\ coord \in {"returned", "threw"}
    /\ Joined
    /\ UNCHANGED vars

Next ==
    \/ \E w \in Worker : WorkerStep(w) \/ WorkerFails(w)
    \/ CallStep
    \/ SubmitFails
    \/ Finished

Spec == Init /\ [][Next]_vars

\* The scheduler runs every thread that can go on, and consumers return.
FairSpec ==
    /\ Spec
    /\ WF_vars(CallStep)
    /\ \A w \in Worker : WF_vars(WorkerStep(w))

-----------------------------------------------------------------------------
(* Properties *)

Frame   == coord \notin {"returned", "threw"}
Seen(s) == {s[i] : i \in DOMAIN s}

TypeOK ==
    /\ ScanTypeOK
    /\ local \in [Worker -> Seq(Batches)]
    /\ threw \subseteq Worker
    /\ coord \in {"submit", "abandon", "collect", "output", "returned", "threw"}
    /\ taken \in 0..WorkerCount
    /\ global \in Seq(Batches)
    /\ caught \in BOOLEAN

\* A worker reads builder, child plan and spec on the stack of ExecuteAggregate: the
\* call ends only when all of them are done, whoever throws, the consumer included.
WorkersInsideFrame == ~ Frame => Joined

\* What is output was computed from every batch of the snapshot, each counted once:
\* a worker cut short by another one's error never contributes to a result.
ResultIsWhole ==
    coord \in {"output", "returned"} =>
        /\ Seen(global) = Batches
        /\ \A i, j \in DOMAIN global : i # j => global[i] # global[j]

\* The call ends, and every task with it.
Termination == <>(~ Frame /\ Joined)
=============================================================================
