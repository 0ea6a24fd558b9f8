--------------------------- MODULE BoundedChannel ---------------------------
(***************************************************************************)
(* What BoundedBlockingQueue promises its threads: a bounded FIFO queue    *)
(* whose Push and Pop take effect at one instant between call and return,  *)
(* and block only while they have to.                                      *)
(***************************************************************************)
EXTENDS Integers, Sequences

CONSTANTS
    Thread,     \* the threads that call it
    Capacity    \* the constructor's argument, a natural number

VARIABLES
    queue,      \* elements; an element is named by the thread that pushed it
    closed, aborted, cancelled,
    error,      \* thread whose exception Abort stored, "none" at first
    call,       \* the call each thread is in: "none", "push" or "pop"
    ret         \* what its last call returned: TRUE or FALSE and, for Pop, the element

cvars == <<queue, closed, aborted, cancelled, error, call, ret>>

Size       == IF Capacity = 0 THEN 1 ELSE Capacity
Terminated == closed \/ aborted \/ cancelled
Idle       == [ok |-> TRUE, item |-> "none"]

Init ==
    /\ queue = <<>>
    /\ closed = FALSE
    /\ aborted = FALSE
    /\ cancelled = FALSE
    /\ error = "none"
    /\ call = [t \in Thread |-> "none"]
    /\ ret = [t \in Thread |-> Idle]

Returns(t, ok, item) ==
    /\ call' = [call EXCEPT ![t] = "none"]
    /\ ret' = [ret EXCEPT ![t] = [ok |-> ok, item |-> item]]

Call(t, op) ==
    /\ call[t] = "none"
    /\ call' = [call EXCEPT ![t] = op]
    /\ ret' = [ret EXCEPT ![t] = Idle]
    /\ UNCHANGED <<queue, closed, aborted, cancelled, error>>

DoPush(t) ==
    /\ call[t] = "push"
    /\ ~ Terminated
    /\ Len(queue) < Size
    /\ queue' = Append(queue, t)
    /\ Returns(t, TRUE, "none")
    /\ UNCHANGED <<closed, aborted, cancelled, error>>

RefusePush(t) ==
    /\ call[t] = "push"
    /\ Terminated
    /\ Returns(t, FALSE, "none")
    /\ UNCHANGED <<queue, closed, aborted, cancelled, error>>

DoPop(t) ==
    /\ call[t] = "pop"
    /\ queue # <<>>
    /\ queue' = Tail(queue)
    /\ Returns(t, TRUE, Head(queue))
    /\ UNCHANGED <<closed, aborted, cancelled, error>>

RefusePop(t) ==
    /\ call[t] = "pop"
    /\ queue = <<>>
    /\ Terminated
    /\ Returns(t, FALSE, "none")
    /\ UNCHANGED <<queue, closed, aborted, cancelled, error>>

Terminate(t) ==
    /\ \/ closed' = TRUE /\ UNCHANGED <<aborted, cancelled, error>>
       \/ aborted' = TRUE /\ error' \in {error, t} /\ UNCHANGED <<closed, cancelled>>
       \/ cancelled' = TRUE /\ UNCHANGED <<closed, aborted, error>>
    /\ UNCHANGED <<queue, call, ret>>

FinishPush(t) == DoPush(t) \/ RefusePush(t)
FinishPop(t)  == DoPop(t) \/ RefusePop(t)

Next ==
    \E t \in Thread :
        \/ Call(t, "push") \/ Call(t, "pop")
        \/ FinishPush(t) \/ FinishPop(t)
        \/ Terminate(t)

Spec == Init /\ [][Next]_cvars

\* A call that can go on, goes on.
FairSpec ==
    /\ Spec
    /\ \A t \in Thread : WF_cvars(FinishPush(t)) /\ WF_cvars(FinishPop(t))
=============================================================================
