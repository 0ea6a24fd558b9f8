----------------------------- MODULE ThreadPool -----------------------------
(***************************************************************************)
(* ThreadPool (src/parallel/thread_pool/thread_pool.h): a FIFO of tasks,   *)
(* one mutex, one condition variable.  Clients submit, the owner shuts the *)
(* pool down, its threads take and run tasks.  A step is a critical        *)
(* section, a notification, a join or the running of a task.               *)
(*                                                                         *)
(* Bound: MaxTasks tasks in all.  A task is its number.                    *)
(***************************************************************************)
EXTENDS Integers, Sequences, FiniteSets

CONSTANTS
    Worker,     \* the pool's threads
    Client,     \* threads that call Submit
    MaxTasks    \* bound: tasks submitted

ASSUME PoolAssumption ==
    /\ Worker # {} /\ IsFiniteSet(Worker)
    /\ IsFiniteSet(Client)
    /\ MaxTasks \in Nat

VARIABLES
    tasks,      \* tasks_
    stopped,    \* stopped_
    at,         \* where each pool thread is
    running,    \* the task it runs, 0 for none
    client,     \* where each client is
    owner,      \* where the thread that shuts the pool down is
    submitted,  \* tasks handed in so far
    early,      \* of these, the tasks handed in before Shutdown
    done        \* tasks that have run, whose future is ready

poolVars == <<tasks, stopped, at, running, client, owner, submitted, early, done>>

PoolInit ==
    /\ tasks = <<>>
    /\ stopped = FALSE
    /\ at = [w \in Worker |-> "loop"]
    /\ running = [w \in Worker |-> 0]
    /\ client = [c \in Client |-> "idle"]
    /\ owner = "idle"
    /\ submitted = 0
    /\ early = {}
    /\ done = {}

Waiting == {w \in Worker : at[w] = "wait"}

-----------------------------------------------------------------------------
(* Submit *)

Enqueue(c) ==
    /\ client[c] = "idle"
    /\ owner # "down"
    /\ submitted < MaxTasks
    /\ submitted' = submitted + 1
    /\ tasks' = Append(tasks, submitted')
    /\ early' = IF stopped THEN early ELSE early \cup {submitted'}
    /\ client' = [client EXCEPT ![c] = "notify"]
    /\ UNCHANGED <<stopped, at, running, owner, done>>

\* Mutant: Submit does not notify.
NotifyDropped(c) ==
    /\ client[c] = "notify"
    /\ client' = [client EXCEPT ![c] = "idle"]
    /\ UNCHANGED <<tasks, stopped, at, running, owner, submitted, early, done>>

\* cv_.notify_one(), after the mutex was released.
Notify(c) ==
    /\ client[c] = "notify"
    /\ IF Waiting = {} THEN UNCHANGED at
       ELSE \E w \in Waiting : at' = [at EXCEPT ![w] = "loop"]
    /\ client' = [client EXCEPT ![c] = "idle"]
    /\ UNCHANGED <<tasks, stopped, running, owner, submitted, early, done>>

-----------------------------------------------------------------------------
(* WorkerLoop *)

Sleep(w) ==
    /\ at[w] = "loop"
    /\ ~ stopped
    /\ tasks = <<>>
    /\ at' = [at EXCEPT ![w] = "wait"]
    /\ UNCHANGED <<tasks, stopped, running, client, owner, submitted, early, done>>

WorkerWakes(w) ==
    /\ at[w] = "wait"
    /\ at' = [at EXCEPT ![w] = "loop"]
    /\ UNCHANGED <<tasks, stopped, running, client, owner, submitted, early, done>>

Exit(w) ==
    /\ at[w] = "loop"
    /\ stopped
    /\ tasks = <<>>
    /\ at' = [at EXCEPT ![w] = "exited"]
    /\ UNCHANGED <<tasks, stopped, running, client, owner, submitted, early, done>>

\* Mutant: the task is copied and only popped once it has run.
TakeKeepsTask(w) ==
    /\ at[w] = "loop"
    /\ tasks # <<>>
    /\ running' = [running EXCEPT ![w] = Head(tasks)]
    /\ at' = [at EXCEPT ![w] = "run"]
    /\ UNCHANGED <<tasks, stopped, client, owner, submitted, early, done>>

Take(w) ==
    /\ at[w] = "loop"
    /\ tasks # <<>>
    /\ running' = [running EXCEPT ![w] = Head(tasks)]
    /\ tasks' = Tail(tasks)
    /\ at' = [at EXCEPT ![w] = "run"]
    /\ UNCHANGED <<stopped, client, owner, submitted, early, done>>

\* The task ends, normally or by an exception: its future is ready.
Run(w) ==
    /\ at[w] = "run"
    /\ done' = done \cup {running[w]}
    /\ running' = [running EXCEPT ![w] = 0]
    /\ at' = [at EXCEPT ![w] = "loop"]
    /\ UNCHANGED <<tasks, stopped, client, owner, submitted, early>>

-----------------------------------------------------------------------------
(* Shutdown *)

Stop ==
    /\ owner = "idle"
    /\ stopped' = TRUE
    /\ owner' = "wake"
    /\ UNCHANGED <<tasks, at, running, client, submitted, early, done>>

\* Mutant: notify_one in place of notify_all.
WakeOne ==
    /\ owner = "wake"
    /\ IF Waiting = {} THEN UNCHANGED at
       ELSE \E w \in Waiting : at' = [at EXCEPT ![w] = "loop"]
    /\ owner' = "join"
    /\ UNCHANGED <<tasks, stopped, running, client, submitted, early, done>>

WakeAll ==
    /\ owner = "wake"
    /\ at' = [w \in Worker |-> IF at[w] = "wait" THEN "loop" ELSE at[w]]
    /\ owner' = "join"
    /\ UNCHANGED <<tasks, stopped, running, client, submitted, early, done>>

\* join() of every thread, then the pool is gone.
JoinAll ==
    /\ owner = "join"
    /\ \A w \in Worker : at[w] = "exited"
    /\ owner' = "down"
    /\ UNCHANGED <<tasks, stopped, at, running, client, submitted, early, done>>

-----------------------------------------------------------------------------

PoolStep(w) == Sleep(w) \/ Exit(w) \/ Take(w) \/ Run(w)
OwnerStep   == WakeAll \/ JoinAll

\* Shut down, and every client is back from Submit.
Finished ==
    /\ owner = "down"
    /\ \A c \in Client : client[c] = "idle"
    /\ UNCHANGED poolVars

PoolNext ==
    \/ \E c \in Client : Enqueue(c) \/ Notify(c)
    \/ \E w \in Worker : PoolStep(w) \/ WorkerWakes(w)
    \/ Stop
    \/ OwnerStep
    \/ Finished

\* Threads that can go on do so and tasks end; nobody has to submit or to stop.
PoolSpec ==
    /\ PoolInit /\ [][PoolNext]_poolVars
    /\ \A w \in Worker : WF_poolVars(PoolStep(w))
    /\ \A c \in Client : WF_poolVars(Notify(c))
    /\ WF_poolVars(OwnerStep)

-----------------------------------------------------------------------------
(* Properties *)

PoolTypeOK ==
    /\ tasks \in Seq(1..MaxTasks)
    /\ stopped \in BOOLEAN
    /\ at \in [Worker -> {"loop", "wait", "run", "exited"}]
    /\ running \in [Worker -> 0..MaxTasks]
    /\ \A w \in Worker : running[w] # 0 <=> at[w] = "run"
    /\ client \in [Client -> {"idle", "notify"}]
    /\ owner \in {"idle", "wake", "join", "down"}
    /\ submitted \in 0..MaxTasks
    /\ early \subseteq 1..MaxTasks
    /\ done \subseteq 1..MaxTasks

\* Every submitted task is in exactly one place: queued, in the hands of one thread,
\* or done.  No task runs twice, none vanishes.
EachTaskOnce ==
    LET queued  == {tasks[i] : i \in DOMAIN tasks}
        held    == {running[w] : w \in {v \in Worker : at[v] = "run"}}
    IN  /\ 1..submitted = queued \cup held \cup done
        /\ queued \cap held = {} /\ queued \cap done = {} /\ held \cap done = {}
        /\ \A v, w \in Worker : v # w /\ running[v] # 0 => running[v] # running[w]
        /\ \A i, j \in DOMAIN tasks : i # j => tasks[i] # tasks[j]

\* While threads sleep, every queued task has a thread or a notification under way;
\* a stopped pool leaves nobody asleep but until WakeAll.
NoTaskForgotten ==
    Waiting # {} =>
        IF stopped THEN owner = "wake"
        ELSE Len(tasks) <= Cardinality({w \in Worker : at[w] = "loop"})
                             + Cardinality({c \in Client : client[c] = "notify"})
                             + Cardinality({w \in Worker : at[w] = "run"})

\* A task accepted before Shutdown is run: its future becomes ready, so a query that
\* waits for it is not left hanging.
AcceptedRuns == \A t \in 1..MaxTasks : t \in early ~> t \in done

\* Shutdown returns.
ShutdownEnds == owner = "wake" ~> owner = "down"
=============================================================================
