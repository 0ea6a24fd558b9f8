---------------------------- MODULE BlockingQueue ----------------------------
(***************************************************************************)
(* BoundedBlockingQueue (src/parallel/queue/bounded_blocking_queue.h): one *)
(* mutex, the condition variables not_full_ and not_empty_, and three      *)
(* flags that only go up.                                                  *)
(*                                                                         *)
(* A step is a critical section or a notification: Push and Pop release    *)
(* the mutex before they notify, so every thread may run in between.       *)
(* notify_one wakes any one of the threads waiting, and a waiting thread   *)
(* may also wake for no reason.  Producers call Push, Close and Abort,     *)
(* consumers call Pop and Cancel, as the workers and the caller of         *)
(* ParallelExecutor::ExecuteQuery do.                                      *)
(***************************************************************************)
EXTENDS Integers, Sequences, FiniteSets

CONSTANTS
    Producer, Consumer,     \* the threads that push, and those that pop
    Capacity                \* the constructor's argument

ASSUME QueueAssumption ==
    /\ Capacity \in Nat
    /\ IsFiniteSet(Producer \cup Consumer)

VARIABLES
    queue,      \* queue_; an element is named by the thread that pushed it
    closed, aborted, cancelled,
    error,      \* error_: the thread that aborted last, "none" at first
    pc,         \* where each thread is
    call,       \* the call whose effect it is waiting for: "none", "push" or "pop"
    ret         \* what its last call returned: TRUE or FALSE and, for Pop, the element

flags == <<closed, aborted, cancelled, error>>
calls == <<call, ret>>
vars  == <<queue, flags, pc, calls>>

Thread == Producer \cup Consumer

Size       == IF Capacity = 0 THEN 1 ELSE Capacity
Terminated == closed \/ aborted \/ cancelled
NoResult   == [ok |-> TRUE, item |-> "none"]

Init ==
    /\ queue = <<>>
    /\ closed = FALSE
    /\ aborted = FALSE
    /\ cancelled = FALSE
    /\ error = "none"
    /\ pc = [t \in Thread |-> "idle"]
    /\ call = [t \in Thread |-> "none"]
    /\ ret = [t \in Thread |-> NoResult]

\* The threads blocked in wait() of each condition variable.
WaitingNotFull  == {t \in Thread : pc[t] = "waitNotFull"}
WaitingNotEmpty == {t \in Thread : pc[t] = "waitNotEmpty"}

Goto(t, label) == pc' = [pc EXCEPT ![t] = label]

-----------------------------------------------------------------------------
(* Push and Pop *)

Enter(t, op) ==
    /\ pc[t] = "idle"
    /\ Goto(t, op)
    /\ call' = [call EXCEPT ![t] = op]
    /\ ret' = [ret EXCEPT ![t] = NoResult]
    /\ UNCHANGED <<queue, flags>>

BeginPush(t) == t \in Producer /\ Enter(t, "push")
BeginPop(t)  == t \in Consumer /\ Enter(t, "pop")

\* The result of the call is settled.
Result(t, ok, item) ==
    /\ call' = [call EXCEPT ![t] = "none"]
    /\ ret' = [ret EXCEPT ![t] = [ok |-> ok, item |-> item]]

\* The predicate of not_full_.wait does not hold: release the mutex and sleep.
PushWaits(t) ==
    /\ pc[t] = "push"
    /\ ~ Terminated
    /\ Len(queue) >= Size
    /\ Goto(t, "waitNotFull")
    /\ UNCHANGED <<queue, flags, calls>>

PushRefused(t) ==
    /\ pc[t] = "push"
    /\ Terminated
    /\ Result(t, FALSE, "none")
    /\ Goto(t, "idle")
    /\ UNCHANGED <<queue, flags>>

PushStores(t) ==
    /\ pc[t] = "push"
    /\ ~ Terminated
    /\ Len(queue) < Size
    /\ queue' = Append(queue, t)
    /\ Result(t, TRUE, "none")
    /\ Goto(t, "notifyNotEmpty")
    /\ UNCHANGED flags

PopWaits(t) ==
    /\ pc[t] = "pop"
    /\ ~ Terminated
    /\ queue = <<>>
    /\ Goto(t, "waitNotEmpty")
    /\ UNCHANGED <<queue, flags, calls>>

\* Mutant: a terminated queue answers false although it still holds elements.
PopDiscards(t) ==
    /\ pc[t] = "pop"
    /\ Terminated
    /\ Result(t, FALSE, "none")
    /\ Goto(t, "idle")
    /\ UNCHANGED <<queue, flags>>

PopRefused(t) ==
    /\ pc[t] = "pop"
    /\ queue = <<>>
    /\ Terminated
    /\ Result(t, FALSE, "none")
    /\ Goto(t, "idle")
    /\ UNCHANGED <<queue, flags>>

\* What is queued is handed out even after the end.
PopTakes(t) ==
    /\ pc[t] = "pop"
    /\ queue # <<>>
    /\ queue' = Tail(queue)
    /\ Result(t, TRUE, Head(queue))
    /\ Goto(t, "notifyNotFull")
    /\ UNCHANGED flags

\* One of the waiting threads goes back to its critical section, if there is one.
NotifyOne(t, waiting, section) ==
    IF waiting = {}
    THEN Goto(t, "idle")
    ELSE \E u \in waiting : pc' = [pc EXCEPT ![t] = "idle", ![u] = section]

NotifyNotEmpty(t) ==
    /\ pc[t] = "notifyNotEmpty"
    /\ NotifyOne(t, WaitingNotEmpty, "pop")
    /\ UNCHANGED <<queue, flags, calls>>

\* Mutant: Pop does not notify.
NotifyNotFullDropped(t) ==
    /\ pc[t] = "notifyNotFull"
    /\ Goto(t, "idle")
    /\ UNCHANGED <<queue, flags, calls>>

NotifyNotFull(t) ==
    /\ pc[t] = "notifyNotFull"
    /\ NotifyOne(t, WaitingNotFull, "push")
    /\ UNCHANGED <<queue, flags, calls>>

\* A spurious wakeup of wait(), whose loop looks at the condition again.
WakeUp(t) ==
    /\ \/ pc[t] = "waitNotFull" /\ Goto(t, "push")
       \/ pc[t] = "waitNotEmpty" /\ Goto(t, "pop")
    /\ UNCHANGED <<queue, flags, calls>>

-----------------------------------------------------------------------------
(* Close, Abort and Cancel *)

SetClosed(t) ==
    /\ t \in Producer
    /\ pc[t] = "idle"
    /\ closed' = TRUE
    /\ Goto(t, "wakeNotEmpty")
    /\ UNCHANGED <<queue, aborted, cancelled, error, calls>>

SetAborted(t) ==
    /\ t \in Producer
    /\ pc[t] = "idle"
    /\ aborted' = TRUE
    /\ error' = t
    /\ Goto(t, "wakeNotEmpty")
    /\ UNCHANGED <<queue, closed, cancelled, calls>>

SetCancelled(t) ==
    /\ t \in Consumer
    /\ pc[t] = "idle"
    /\ cancelled' = TRUE
    /\ Goto(t, "wakeNotEmpty")
    /\ UNCHANGED <<queue, closed, aborted, error, calls>>

WakeNotEmpty(t) ==
    /\ pc[t] = "wakeNotEmpty"
    /\ pc' = [u \in Thread |-> IF u = t THEN "wakeNotFull"
                               ELSE IF u \in WaitingNotEmpty THEN "pop" ELSE pc[u]]
    /\ UNCHANGED <<queue, flags, calls>>

WakeNotFull(t) ==
    /\ pc[t] = "wakeNotFull"
    /\ pc' = [u \in Thread |-> IF u = t THEN "idle"
                               ELSE IF u \in WaitingNotFull THEN "push" ELSE pc[u]]
    /\ UNCHANGED <<queue, flags, calls>>

-----------------------------------------------------------------------------

Begin(t) ==
    \/ BeginPush(t)
    \/ BeginPop(t)
    \/ SetClosed(t)
    \/ SetAborted(t)
    \/ SetCancelled(t)

Proceed(t) ==
    \/ PushWaits(t)
    \/ PushRefused(t)
    \/ PushStores(t)
    \/ PopWaits(t)
    \/ PopRefused(t)
    \/ PopTakes(t)
    \/ NotifyNotEmpty(t)
    \/ NotifyNotFull(t)
    \/ WakeNotEmpty(t)
    \/ WakeNotFull(t)

Next == \E t \in Thread : Begin(t) \/ Proceed(t) \/ WakeUp(t)

\* The mutex and the scheduler let every thread in eventually; nobody is obliged
\* to begin a call, and spurious wakeups need not happen.
Spec == Init /\ [][Next]_vars /\ \A t \in Thread : WF_vars(Proceed(t))

-----------------------------------------------------------------------------
(* Properties *)

TypeOK ==
    /\ queue \in Seq(Producer) /\ Len(queue) <= Size
    /\ {closed, aborted, cancelled} \subseteq BOOLEAN
    /\ error \in Producer \cup {"none"}
    /\ call \in [Thread -> {"none", "push", "pop"}]
    /\ ret \in [Thread -> [ok : BOOLEAN, item : Producer \cup {"none"}]]
    /\ pc \in [Thread -> {"idle", "push", "pop", "waitNotFull", "waitNotEmpty",
                          "notifyNotFull", "notifyNotEmpty", "wakeNotFull", "wakeNotEmpty"}]

At(label) == Cardinality({t \in Thread : pc[t] = label})

\* As long as producers wait, every free slot has a thread on its way to use it or
\* to wake one of them; and once the queue has ended, somebody is about to wake all.
\* The same for consumers and elements.
NoLostWakeup ==
    /\ WaitingNotFull # {} =>
          IF Terminated THEN At("wakeNotEmpty") + At("wakeNotFull") > 0
          ELSE Size - Len(queue) <= At("push") + At("notifyNotFull")
    /\ WaitingNotEmpty # {} =>
          IF Terminated THEN At("wakeNotEmpty") > 0
          ELSE Len(queue) <= At("pop") + At("notifyNotEmpty")

Channel == INSTANCE BoundedChannel

\* The mutex and condition variables implement the channel: FIFO, bounded, nothing
\* lost or handed out twice, drained after the end, and no call blocked for ever
\* that could go on.
ImplementsChannel == Channel!FairSpec
=============================================================================
