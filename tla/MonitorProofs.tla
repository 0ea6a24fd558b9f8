---------------------------- MODULE MonitorProofs ----------------------------
(***************************************************************************)
(* Theorems about the two monitors of the parallel engine, for every       *)
(* capacity and any finite sets of threads.  BlockingQueue: its steps are  *)
(* steps of the atomic BoundedChannel, and no notification is missing.     *)
(* ThreadPool: every task is in exactly one place, and none is forgotten   *)
(* while a thread sleeps.  Both count threads, so both rest on the same    *)
(* facts about counting.                                                   *)
(***************************************************************************)
EXTENDS BlockingQueue, ThreadPool, FiniteSetTheorems, TLAPS

-----------------------------------------------------------------------------
(* Counts *)

\* The members of S that f takes to v, and their number.
Those(S, f, v) == {x \in S : f[x] = v}
Count(S, f, v) == Cardinality(Those(S, f, v))

\* Nobody but x changes its value.
OnlyMoves(S, x, f, g) == \A y \in S \ {x} : g[y] = f[y]

\* A count is a natural number, positive when a member is counted.
LEMMA CountType ==
    ASSUME NEW S, IsFiniteSet(S), NEW f, NEW v
    PROVE  /\ IsFiniteSet(Those(S, f, v))
           /\ Count(S, f, v) \in Nat
           /\ Those(S, f, v) # {} => Count(S, f, v) > 0
  <1>1. IsFiniteSet(Those(S, f, v))
    BY FS_Subset DEF Those
  <1> QED
    BY <1>1, FS_CardinalityType, FS_EmptySet DEF Count

\* Functions that take the same members to v have the same count.
LEMMA CountSame ==
    ASSUME NEW S, NEW f, NEW g, NEW v, \A x \in S : f[x] = v <=> g[x] = v
    PROVE  Count(S, g, v) = Count(S, f, v)
  <1>1. Those(S, f, v) = Those(S, g, v)
    BY DEF Those
  <1> QED
    BY <1>1 DEF Count

\* The count after one member has changed its value.
LEMMA CountMove ==
    ASSUME NEW S, IsFiniteSet(S), NEW f, NEW g, NEW v, NEW x \in S,
           OnlyMoves(S, x, f, g)
    PROVE  Count(S, g, v) = Count(S, f, v) + (IF g[x] = v THEN 1 ELSE 0) - (IF f[x] = v THEN 1 ELSE 0)
  <1>1. IsFiniteSet(Those(S, f, v)) /\ Count(S, f, v) \in Nat
    BY CountType
  <1>2. CASE g[x] = v /\ f[x] # v
    <2>1. Those(S, g, v) = Those(S, f, v) \cup {x} /\ x \notin Those(S, f, v)
      BY <1>2 DEF Those, OnlyMoves
    <2>2. Cardinality(Those(S, f, v) \cup {x}) = Cardinality(Those(S, f, v)) + 1
      BY <1>1, <2>1, FS_AddElement
    <2>3. Count(S, g, v) = Count(S, f, v) + 1
      BY <2>1, <2>2 DEF Count
    <2> QED
      BY <1>1, <1>2, <2>3
  <1>3. CASE g[x] # v /\ f[x] = v
    <2>1. Those(S, g, v) = Those(S, f, v) \ {x} /\ x \in Those(S, f, v)
      BY <1>3 DEF Those, OnlyMoves
    <2>2. Cardinality(Those(S, f, v) \ {x}) = Cardinality(Those(S, f, v)) - 1
      BY <1>1, <2>1, FS_RemoveElement
    <2>3. Count(S, g, v) = Count(S, f, v) - 1
      BY <2>1, <2>2 DEF Count
    <2> QED
      BY <1>1, <1>3, <2>3
  <1>4. CASE g[x] = v <=> f[x] = v
    <2>1. Count(S, g, v) = Count(S, f, v)
      BY <1>4, CountSame DEF OnlyMoves
    <2> QED
      BY <1>1, <1>4, <2>1
  <1> QED
    BY <1>2, <1>3, <1>4

-----------------------------------------------------------------------------
(* BlockingQueue: calls *)

\* What a thread does inside Push and inside Pop.
InPush(label) == label \in {"push", "waitNotFull"}
InPop(label)  == label \in {"pop", "waitNotEmpty"}

\* A thread inside Push is a producer and its call is open as long as it is there;
\* the same for Pop.  Notifications come after the call has taken effect.
CallsOpen ==
    \A t \in Thread :
        /\ call[t] = "push" <=> InPush(pc[t])
        /\ call[t] = "pop" <=> InPop(pc[t])
        /\ InPush(pc[t]) => t \in Producer

QueueInv == TypeOK /\ CallsOpen

-----------------------------------------------------------------------------
(* BlockingQueue: facts about its steps *)

\* A capacity of 0 is taken as 1.
LEMMA SizeType == Size \in Nat \ {0}
  BY QueueAssumption DEF Size

\* A notification moves at most one waiting thread, back into the section it left.
LEMMA NotifyOneMoves ==
    ASSUME NEW t \in Thread, TypeOK, NEW W, W \subseteq Thread,
           NEW label \in {"push", "pop"}, NotifyOne(t, W, label), t \notin W
    PROVE  \/ W = {} /\ pc' = [pc EXCEPT ![t] = "idle"]
           \/ \E u \in W : u # t /\ pc' = [pc EXCEPT ![t] = "idle", ![u] = label]
  BY DEF NotifyOne, Goto

\* What a call returned is a Boolean and, maybe, an element.
Answers == [Thread -> [ok : BOOLEAN, item : Producer \cup {"none"}]]

\* A settled call has an answer of that type.
LEMMA AnswerType ==
    ASSUME NEW t \in Thread, ret \in Answers, NEW ok \in BOOLEAN, NEW item \in Producer \cup {"none"}
    PROVE  [ret EXCEPT ![t] = [ok |-> ok, item |-> item]] \in Answers
  <1>1. [ok |-> ok, item |-> item] \in [ok : BOOLEAN, item : Producer \cup {"none"}]
    OBVIOUS
  <1> QED
    BY <1>1 DEF Answers

-----------------------------------------------------------------------------
(* BlockingQueue: the invariant of types and calls *)

\* The initial state is typed and no call is open.
LEMMA InitQueueInv == Init => QueueInv
  <1> SUFFICES ASSUME Init PROVE QueueInv
    OBVIOUS
  <1>1. TypeOK
    <2>1. queue \in Seq(Producer) /\ Len(queue) <= Size
      BY SizeType DEF Init
    <2>2. {closed, aborted, cancelled} \subseteq BOOLEAN /\ error \in Producer \cup {"none"}
      BY DEF Init
    <2>3. ret \in Answers
      BY DEF Init, NoResult, Answers
    <2>4. call \in [Thread -> {"none", "push", "pop"}]
      BY DEF Init
    <2>5. pc \in [Thread -> {"idle", "push", "pop", "waitNotFull", "waitNotEmpty",
                             "notifyNotFull", "notifyNotEmpty", "wakeNotFull", "wakeNotEmpty"}]
      BY DEF Init
    <2> QED
      BY <2>1, <2>2, <2>3, <2>4, <2>5 DEF TypeOK, Answers
  <1>2. CallsOpen
    BY DEF Init, CallsOpen, InPush, InPop
  <1> QED
    BY <1>1, <1>2 DEF QueueInv

\* Push and Pop: the call is opened with its section and settled when it leaves it.
LEMMA SectionsKeepQueueInv ==
    ASSUME QueueInv, NEW t \in Thread,
           \/ BeginPush(t) \/ BeginPop(t)
           \/ PushWaits(t) \/ PushRefused(t) \/ PushStores(t)
           \/ PopWaits(t) \/ PopRefused(t) \/ PopTakes(t)
    PROVE  QueueInv'
  <1> USE DEF QueueInv, InPush, InPop, Goto
  <1>0. TypeOK /\ CallsOpen /\ Size \in Nat \ {0} /\ ret \in Answers
    BY SizeType DEF TypeOK, Answers
  <1>1. CASE BeginPush(t) \/ BeginPop(t)
    <2>0. ret' \in Answers
      BY <1>0, <1>1, AnswerType, ZenonT(60) DEF BeginPush, BeginPop, Enter, NoResult
    <2>1. TypeOK'
      BY <1>0, <1>1, <2>0 DEF BeginPush, BeginPop, Enter, TypeOK, Answers, flags
    <2>2. CallsOpen'
      BY <1>0, <1>1 DEF BeginPush, BeginPop, Enter, TypeOK, CallsOpen
    <2> QED
      BY <2>1, <2>2
  <1>2. CASE PushWaits(t) \/ PopWaits(t)
    <2>1. TypeOK'
      BY <1>0, <1>2 DEF PushWaits, PopWaits, TypeOK, flags, calls
    <2>2. CallsOpen'
      BY <1>0, <1>2 DEF PushWaits, PopWaits, TypeOK, CallsOpen, calls
    <2> QED
      BY <2>1, <2>2
  <1>3. CASE PushRefused(t) \/ PopRefused(t)
    <2>1. FALSE \in BOOLEAN /\ "none" \in Producer \cup {"none"}
      OBVIOUS
    <2>2. ret' = [ret EXCEPT ![t] = [ok |-> FALSE, item |-> "none"]]
      BY <1>3 DEF PushRefused, PopRefused, Result
    <2>3. ret' \in Answers
      BY <1>0, <2>1, <2>2, AnswerType
    <2>4. TypeOK'
      BY <1>0, <1>3, <2>3 DEF PushRefused, PopRefused, Result, TypeOK, Answers, flags
    <2>5. CallsOpen'
      BY <1>0, <1>3 DEF PushRefused, PopRefused, Result, TypeOK, CallsOpen
    <2> QED
      BY <2>4, <2>5
  <1>4. CASE PushStores(t)
    <2>1. t \in Producer
      BY <1>0, <1>4 DEF PushStores, CallsOpen
    <2>2. queue' \in Seq(Producer) /\ Len(queue') <= Size
      BY <1>0, <1>4, <2>1 DEF PushStores, TypeOK
    <2>0. ret' \in Answers
      BY <1>0, <1>4, AnswerType DEF PushStores, Result
    <2>3. TypeOK'
      BY <1>0, <1>4, <2>2, <2>0 DEF PushStores, Result, TypeOK, Answers, flags
    <2>4. CallsOpen'
      BY <1>0, <1>4 DEF PushStores, Result, TypeOK, CallsOpen
    <2> QED
      BY <2>3, <2>4
  <1>5. CASE PopTakes(t)
    <2>1. Head(queue) \in Producer /\ Tail(queue) \in Seq(Producer) /\ Len(Tail(queue)) <= Size
      BY <1>0, <1>5 DEF PopTakes, TypeOK
    <2>0. ret' \in Answers
      BY <1>0, <1>5, <2>1, AnswerType DEF PopTakes, Result
    <2>2. TypeOK'
      BY <1>0, <1>5, <2>1, <2>0 DEF PopTakes, Result, TypeOK, Answers, flags
    <2>3. CallsOpen'
      BY <1>0, <1>5 DEF PopTakes, Result, TypeOK, CallsOpen
    <2> QED
      BY <2>2, <2>3
  <1> QED
    BY <1>1, <1>2, <1>3, <1>4, <1>5

\* Notifications and wakeups change where threads are, never their calls.
LEMMA WakingKeepsQueueInv ==
    ASSUME QueueInv, NEW t \in Thread,
           \/ NotifyNotEmpty(t) \/ NotifyNotFull(t)
           \/ WakeNotEmpty(t) \/ WakeNotFull(t) \/ WakeUp(t)
    PROVE  QueueInv'
  <1> USE DEF QueueInv, InPush, InPop
  <1>0. TypeOK /\ CallsOpen
    OBVIOUS
  <1>1. UNCHANGED <<queue, closed, aborted, cancelled, error, call, ret>>
    BY DEF NotifyNotEmpty, NotifyNotFull, WakeNotEmpty, WakeNotFull, WakeUp, flags, calls
  <1>2. /\ pc' \in [Thread -> {"idle", "push", "pop", "waitNotFull", "waitNotEmpty",
                               "notifyNotFull", "notifyNotEmpty", "wakeNotFull", "wakeNotEmpty"}]
        /\ \A u \in Thread : (InPush(pc'[u]) <=> InPush(pc[u])) /\ (InPop(pc'[u]) <=> InPop(pc[u]))
    <2>1. CASE NotifyNotEmpty(t)
      <3>1. t \notin WaitingNotEmpty /\ WaitingNotEmpty \subseteq Thread
        BY <2>1 DEF NotifyNotEmpty, WaitingNotEmpty
      <3>2. \/ pc' = [pc EXCEPT ![t] = "idle"]
            \/ \E u \in WaitingNotEmpty : u # t /\ pc' = [pc EXCEPT ![t] = "idle", ![u] = "pop"]
        BY <1>0, <2>1, <3>1, NotifyOneMoves DEF NotifyNotEmpty
      <3> QED
        BY <1>0, <2>1, <3>2 DEF NotifyNotEmpty, WaitingNotEmpty, TypeOK
    <2>2. CASE NotifyNotFull(t)
      <3>1. t \notin WaitingNotFull /\ WaitingNotFull \subseteq Thread
        BY <2>2 DEF NotifyNotFull, WaitingNotFull
      <3>2. \/ pc' = [pc EXCEPT ![t] = "idle"]
            \/ \E u \in WaitingNotFull : u # t /\ pc' = [pc EXCEPT ![t] = "idle", ![u] = "push"]
        BY <1>0, <2>2, <3>1, NotifyOneMoves DEF NotifyNotFull
      <3> QED
        BY <1>0, <2>2, <3>2 DEF NotifyNotFull, WaitingNotFull, TypeOK
    <2>3. CASE WakeNotEmpty(t)
      BY <1>0, <2>3 DEF WakeNotEmpty, WaitingNotEmpty, TypeOK
    <2>4. CASE WakeNotFull(t)
      BY <1>0, <2>4 DEF WakeNotFull, WaitingNotFull, TypeOK
    <2>5. CASE WakeUp(t)
      BY <1>0, <2>5 DEF WakeUp, Goto, TypeOK
    <2> QED
      BY <2>1, <2>2, <2>3, <2>4, <2>5
  <1>3. TypeOK'
    BY <1>0, <1>1, <1>2 DEF TypeOK
  <1>4. CallsOpen'
    BY <1>0, <1>1, <1>2 DEF CallsOpen
  <1> QED
    BY <1>3, <1>4

\* Close, Abort and Cancel are made by threads outside Push and Pop.
LEMMA EndingKeepsQueueInv ==
    ASSUME QueueInv, NEW t \in Thread, SetClosed(t) \/ SetAborted(t) \/ SetCancelled(t)
    PROVE  QueueInv'
  <1>1. TypeOK'
    BY DEF SetClosed, SetAborted, SetCancelled, Goto, calls, QueueInv, TypeOK
  <1>2. CallsOpen'
    BY DEF SetClosed, SetAborted, SetCancelled, Goto, calls, QueueInv, TypeOK, CallsOpen, InPush, InPop
  <1> QED
    BY <1>1, <1>2 DEF QueueInv

\* Every step keeps the types and the open calls.
LEMMA NextQueueInv == QueueInv /\ [Next]_vars => QueueInv'
  <1> SUFFICES ASSUME QueueInv, [Next]_vars PROVE QueueInv'
    OBVIOUS
  <1>1. CASE Next
    <2> PICK t \in Thread : Begin(t) \/ Proceed(t) \/ WakeUp(t)
      BY <1>1 DEF Next
    <2> QED
      BY SectionsKeepQueueInv, WakingKeepsQueueInv, EndingKeepsQueueInv DEF Begin, Proceed
  <1>2. CASE UNCHANGED vars
    BY <1>2 DEF vars, flags, calls, QueueInv, TypeOK, CallsOpen
  <1> QED
    BY <1>1, <1>2

\* The queue never holds more than its capacity, and call and ret say truly in
\* which call each thread is.
THEOREM QueueTypes == Spec => []QueueInv
  BY InitQueueInv, NextQueueInv, PTL DEF Spec

-----------------------------------------------------------------------------
(* BlockingQueue: the refinement *)

\* A critical section that settles a call is the step of the channel for it.
LEMMA SectionsAreChannelSteps ==
    ASSUME QueueInv, NEW t \in Thread,
           \/ PushRefused(t) \/ PushStores(t) \/ PopRefused(t) \/ PopTakes(t)
    PROVE  Channel!FinishPush(t) \/ Channel!FinishPop(t)
  <1> USE DEF QueueInv, InPush, InPop, flags, Channel!Terminated, Terminated
  <1>1. CASE PushRefused(t)
    <2>1. Channel!RefusePush(t)
      BY <1>1 DEF PushRefused, Result, CallsOpen, Channel!RefusePush, Channel!Returns
    <2> QED
      BY <2>1 DEF Channel!FinishPush
  <1>2. CASE PushStores(t)
    <2>1. Channel!DoPush(t)
      BY <1>2 DEF PushStores, Result, CallsOpen, Size, Channel!DoPush, Channel!Returns, Channel!Size
    <2> QED
      BY <2>1 DEF Channel!FinishPush
  <1>3. CASE PopRefused(t)
    <2>1. Channel!RefusePop(t)
      BY <1>3 DEF PopRefused, Result, CallsOpen, Channel!RefusePop, Channel!Returns
    <2> QED
      BY <2>1 DEF Channel!FinishPop
  <1>4. CASE PopTakes(t)
    <2>1. Channel!DoPop(t)
      BY <1>4 DEF PopTakes, Result, CallsOpen, Channel!DoPop, Channel!Returns
    <2> QED
      BY <2>1 DEF Channel!FinishPop
  <1> QED
    BY <1>1, <1>2, <1>3, <1>4

\* A thread that begins a call begins it in the channel; Close, Abort and Cancel
\* end the channel.
LEMMA BeginningsAreChannelSteps ==
    ASSUME QueueInv, NEW t \in Thread, Begin(t)
    PROVE  Channel!Call(t, "push") \/ Channel!Call(t, "pop") \/ Channel!Terminate(t)
  <1> USE DEF QueueInv, flags, calls
  <1>0. pc[t] = "idle" => call[t] = "none"
    BY DEF CallsOpen, InPush, InPop, TypeOK
  <1>1. CASE BeginPush(t)
    BY <1>0, <1>1 DEF BeginPush, Enter, NoResult, Channel!Call, Channel!Idle
  <1>2. CASE BeginPop(t)
    BY <1>0, <1>2 DEF BeginPop, Enter, NoResult, Channel!Call, Channel!Idle
  <1>3. CASE SetClosed(t) \/ SetAborted(t) \/ SetCancelled(t)
    BY <1>3 DEF SetClosed, SetAborted, SetCancelled, Channel!Terminate
  <1> QED
    BY <1>1, <1>2, <1>3 DEF Begin

\* Every step is a step of BoundedChannel or leaves it as it is.
LEMMA StepsImplement == QueueInv /\ [Next]_vars => [Channel!Next]_(Channel!cvars)
  <1> SUFFICES ASSUME QueueInv, [Next]_vars PROVE [Channel!Next]_(Channel!cvars)
    OBVIOUS
  <1>1. CASE Next
    <2> PICK t \in Thread : Begin(t) \/ Proceed(t) \/ WakeUp(t)
      BY <1>1 DEF Next
    <2>1. CASE Begin(t)
      BY <2>1, BeginningsAreChannelSteps DEF Channel!Next
    <2>2. CASE PushRefused(t) \/ PushStores(t) \/ PopRefused(t) \/ PopTakes(t)
      BY <2>2, SectionsAreChannelSteps DEF Channel!Next
    <2>3. CASE \/ PushWaits(t) \/ PopWaits(t) \/ NotifyNotEmpty(t) \/ NotifyNotFull(t)
               \/ WakeNotEmpty(t) \/ WakeNotFull(t) \/ WakeUp(t)
      BY <2>3 DEF PushWaits, PopWaits, NotifyNotEmpty, NotifyNotFull, WakeNotEmpty, WakeNotFull,
                  WakeUp, flags, calls, Channel!cvars
    <2> QED
      BY <2>1, <2>2, <2>3 DEF Proceed
  <1>2. CASE UNCHANGED vars
    BY <1>2 DEF vars, flags, calls, Channel!cvars
  <1> QED
    BY <1>1, <1>2

\* The safety part of ImplementsChannel: every critical section, notification and
\* wakeup of the code is a step of the atomic queue or leaves it as it is, so that
\* elements come out once, in the order they went in, and also after the end.
THEOREM QueueIsChannel == Spec => Channel!Spec
  <1>1. Init => Channel!Init
    BY DEF Init, NoResult, Channel!Init, Channel!Idle
  <1> QED
    BY <1>1, InitQueueInv, NextQueueInv, StepsImplement, PTL DEF Spec, Channel!Spec

-----------------------------------------------------------------------------
(* BlockingQueue: no lost wakeup *)

\* Threads are finitely many, so they can be counted.
LEMMA ThreadsFinite == IsFiniteSet(Thread)
  BY QueueAssumption DEF Thread

\* The two halves of NoLostWakeup.
ProducersWoken ==
    WaitingNotFull # {} =>
        IF Terminated THEN At("wakeNotEmpty") + At("wakeNotFull") > 0
        ELSE Size - Len(queue) <= At("push") + At("notifyNotFull")

ConsumersWoken ==
    WaitingNotEmpty # {} =>
        IF Terminated THEN At("wakeNotEmpty") > 0
        ELSE Len(queue) <= At("pop") + At("notifyNotEmpty")

\* NoLostWakeup, one half for each condition variable.
LEMMA Halves == NoLostWakeup <=> ProducersWoken /\ ConsumersWoken
  BY DEF NoLostWakeup, ProducersWoken, ConsumersWoken

\* At counts threads, before and after a step.
LEMMA AtType ==
    ASSUME NEW label
    PROVE  /\ At(label) \in Nat /\ At(label)' \in Nat
           /\ \A t \in Thread : pc[t] = label => At(label) > 0
           /\ \A t \in Thread : pc'[t] = label => At(label)' > 0
  <1>1. At(label) = Count(Thread, pc, label) /\ At(label)' = Count(Thread, pc', label)
    BY DEF At, Count, Those
  <1>2. /\ Count(Thread, pc, label) \in Nat
        /\ \A t \in Thread : pc[t] = label => Count(Thread, pc, label) > 0
    BY ThreadsFinite, CountType DEF Those
  <1>3. /\ Count(Thread, pc', label) \in Nat
        /\ \A t \in Thread : pc'[t] = label => Count(Thread, pc', label) > 0
    BY ThreadsFinite, CountType DEF Those
  <1> QED
    BY <1>1, <1>2, <1>3

\* One thread has moved.
LEMMA AtMove ==
    ASSUME TypeOK, NEW t \in Thread, NEW to, pc' = [pc EXCEPT ![t] = to], NEW label
    PROVE  At(label)' = At(label) + (IF to = label THEN 1 ELSE 0) - (IF pc[t] = label THEN 1 ELSE 0)
  <1> DEFINE next == pc'
  <1>1. At(label) = Count(Thread, pc, label) /\ At(label)' = Count(Thread, next, label)
    BY DEF At, Count, Those
  <1>2. next[t] = to /\ OnlyMoves(Thread, t, pc, next)
    BY DEF TypeOK, OnlyMoves
  <1> HIDE DEF next
  <1>3. Count(Thread, next, label)
          = Count(Thread, pc, label) + (IF next[t] = label THEN 1 ELSE 0) - (IF pc[t] = label THEN 1 ELSE 0)
    BY <1>2, ThreadsFinite, CountMove
  <1> QED
    BY <1>1, <1>2, <1>3

\* The thread that notifies and the one it wakes have moved.
Wakes(t, u, to) == u # t /\ pc' = [pc EXCEPT ![t] = "idle", ![u] = to]

\* How a notification that wakes u changes the number of threads at a place.
LEMMA AtNotify ==
    ASSUME TypeOK, NEW t \in Thread, NEW u \in Thread, NEW to, Wakes(t, u, to),
           NEW label, label # "idle"
    PROVE  At(label)' = At(label) + (IF to = label THEN 1 ELSE 0) - (IF pc[u] = label THEN 1 ELSE 0)
                          - (IF pc[t] = label THEN 1 ELSE 0)
  <1> DEFINE mid == [pc EXCEPT ![t] = "idle"]
             next == pc'
  <1>1. At(label) = Count(Thread, pc, label) /\ At(label)' = Count(Thread, next, label)
    BY DEF At, Count, Those
  <1>2. mid[t] = "idle" /\ mid[u] = pc[u] /\ OnlyMoves(Thread, t, pc, mid)
    BY DEF TypeOK, OnlyMoves, Wakes
  <1>3. next[u] = to /\ OnlyMoves(Thread, u, mid, next)
    BY DEF TypeOK, OnlyMoves, Wakes
  <1> HIDE DEF mid, next
  <1>4. Count(Thread, mid, label) = Count(Thread, pc, label) - (IF pc[t] = label THEN 1 ELSE 0)
    <2>1. Count(Thread, mid, label)
            = Count(Thread, pc, label) + (IF mid[t] = label THEN 1 ELSE 0) - (IF pc[t] = label THEN 1 ELSE 0)
      BY <1>2, ThreadsFinite, CountMove
    <2>2. Count(Thread, pc, label) \in Nat
      BY ThreadsFinite, CountType
    <2> QED
      BY <1>2, <2>1, <2>2
  <1>5. Count(Thread, next, label)
          = Count(Thread, mid, label) + (IF to = label THEN 1 ELSE 0) - (IF pc[u] = label THEN 1 ELSE 0)
    <2>1. Count(Thread, next, label)
            = Count(Thread, mid, label) + (IF next[u] = label THEN 1 ELSE 0) - (IF mid[u] = label THEN 1 ELSE 0)
      BY <1>3, ThreadsFinite, CountMove
    <2>2. Count(Thread, mid, label) \in Nat
      BY ThreadsFinite, CountType
    <2> QED
      BY <1>2, <1>3, <2>1, <2>2
  <1>6. Count(Thread, pc, label) \in Nat
    BY ThreadsFinite, CountType
  <1> QED
    BY <1>1, <1>4, <1>5, <1>6

\* How a step of thread t to another place, alone, changes the counts.
Moves(t, to) ==
    /\ pc' = [pc EXCEPT ![t] = to]
    /\ \A label \in {"push", "pop", "notifyNotFull", "notifyNotEmpty", "wakeNotFull", "wakeNotEmpty"} :
          /\ At(label) \in Nat
          /\ At(label)' = At(label) + (IF to = label THEN 1 ELSE 0) - (IF pc[t] = label THEN 1 ELSE 0)
    /\ to # "waitNotFull" => WaitingNotFull' \subseteq WaitingNotFull
    /\ to # "waitNotEmpty" => WaitingNotEmpty' \subseteq WaitingNotEmpty

\* What Goto changes, in numbers of threads.
LEMMA GotoMoves ==
    ASSUME TypeOK, NEW t \in Thread, NEW to, Goto(t, to)
    PROVE  Moves(t, to)
  <1>1. pc' = [pc EXCEPT ![t] = to]
    BY DEF Goto
  <1>2. \A label \in {"push", "pop", "notifyNotFull", "notifyNotEmpty", "wakeNotFull", "wakeNotEmpty"} :
          /\ At(label) \in Nat
          /\ At(label)' = At(label) + (IF to = label THEN 1 ELSE 0) - (IF pc[t] = label THEN 1 ELSE 0)
    BY <1>1, AtMove, AtType
  <1>3. /\ to # "waitNotFull" => WaitingNotFull' \subseteq WaitingNotFull
        /\ to # "waitNotEmpty" => WaitingNotEmpty' \subseteq WaitingNotEmpty
    BY <1>1 DEF TypeOK, WaitingNotFull, WaitingNotEmpty
  <1> QED
    BY <1>1, <1>2, <1>3 DEF Moves

\* Whoever leaves a critical section leaves a notification behind, and whoever goes
\* to sleep had nothing to do.
LEMMA SectionsKeepWoken ==
    ASSUME QueueInv, NoLostWakeup, NEW t \in Thread,
           \/ BeginPush(t) \/ BeginPop(t)
           \/ PushWaits(t) \/ PushRefused(t) \/ PushStores(t)
           \/ PopWaits(t) \/ PopRefused(t) \/ PopTakes(t)
    PROVE  NoLostWakeup'
  <1>0. TypeOK /\ Size \in Nat /\ Len(queue) \in Nat /\ ProducersWoken /\ ConsumersWoken
    BY SizeType, Halves DEF QueueInv, TypeOK
  <1> SUFFICES ProducersWoken' /\ ConsumersWoken'
    BY DEF NoLostWakeup, ProducersWoken, ConsumersWoken
  <1> USE DEF Terminated, flags, calls
  <1>1. CASE BeginPush(t)
    <2>1. Moves(t, "push") /\ pc[t] = "idle"
      BY <1>0, <1>1, GotoMoves DEF BeginPush, Enter
    <2> QED
      BY <1>0, <1>1, <2>1 DEF BeginPush, Enter, Moves, ProducersWoken, ConsumersWoken
  <1>2. CASE BeginPop(t)
    <2>1. Moves(t, "pop") /\ pc[t] = "idle"
      BY <1>0, <1>2, GotoMoves DEF BeginPop, Enter
    <2> QED
      BY <1>0, <1>2, <2>1 DEF BeginPop, Enter, Moves, ProducersWoken, ConsumersWoken
  <1>3. CASE PushWaits(t)
    <2>1. Moves(t, "waitNotFull") /\ pc[t] = "push"
      BY <1>0, <1>3, GotoMoves DEF PushWaits
    <2>2. At("push")' \in Nat
      BY AtType
    <2> QED
      BY <1>0, <1>3, <2>1, <2>2 DEF PushWaits, Moves, ProducersWoken, ConsumersWoken
  <1>4. CASE PushRefused(t)
    <2>1. Moves(t, "idle") /\ pc[t] = "push"
      BY <1>0, <1>4, GotoMoves DEF PushRefused
    <2> QED
      BY <1>0, <1>4, <2>1 DEF PushRefused, Moves, ProducersWoken, ConsumersWoken
  <1>5. CASE PushStores(t)
    <2>1. Moves(t, "notifyNotEmpty") /\ pc[t] = "push"
      BY <1>0, <1>5, GotoMoves DEF PushStores
    <2>2. Len(queue') = Len(queue) + 1
      BY <1>5 DEF PushStores, QueueInv, TypeOK
    <2>3. ProducersWoken'
      BY <1>0, <1>5, <2>1, <2>2, SMTT(60) DEF PushStores, Moves, ProducersWoken
    <2>4. ConsumersWoken'
      BY <1>0, <1>5, <2>1, <2>2, SMTT(60) DEF PushStores, Moves, ConsumersWoken
    <2> QED
      BY <2>3, <2>4
  <1>6. CASE PopWaits(t)
    <2>1. Moves(t, "waitNotEmpty") /\ pc[t] = "pop"
      BY <1>0, <1>6, GotoMoves DEF PopWaits
    <2>2. At("pop")' \in Nat /\ Len(queue) = 0
      BY <1>6, AtType DEF PopWaits
    <2> QED
      BY <1>0, <1>6, <2>1, <2>2 DEF PopWaits, Moves, ProducersWoken, ConsumersWoken
  <1>7. CASE PopRefused(t)
    <2>1. Moves(t, "idle") /\ pc[t] = "pop"
      BY <1>0, <1>7, GotoMoves DEF PopRefused
    <2> QED
      BY <1>0, <1>7, <2>1 DEF PopRefused, Moves, ProducersWoken, ConsumersWoken
  <1>8. CASE PopTakes(t)
    <2>1. Moves(t, "notifyNotFull") /\ pc[t] = "pop"
      BY <1>0, <1>8, GotoMoves DEF PopTakes
    <2>2. Len(queue') = Len(queue) - 1
      BY <1>8 DEF PopTakes, QueueInv, TypeOK
    <2>3. ProducersWoken'
      BY <1>0, <1>8, <2>1, <2>2, SMTT(60) DEF PopTakes, Moves, ProducersWoken
    <2>4. ConsumersWoken'
      BY <1>0, <1>8, <2>1, <2>2, SMTT(60) DEF PopTakes, Moves, ConsumersWoken
    <2> QED
      BY <2>3, <2>4
  <1> QED
    BY <1>1, <1>2, <1>3, <1>4, <1>5, <1>6, <1>7, <1>8

\* A notification is used up only by waking a thread, or when nobody waits.
LEMMA NotifyKeepsWoken ==
    ASSUME QueueInv, NoLostWakeup, NEW t \in Thread, NotifyNotEmpty(t) \/ NotifyNotFull(t)
    PROVE  NoLostWakeup'
  <1>0. TypeOK /\ Size \in Nat /\ Len(queue) \in Nat /\ ProducersWoken /\ ConsumersWoken
    BY SizeType, Halves DEF QueueInv, TypeOK
  <1> SUFFICES ProducersWoken' /\ ConsumersWoken'
    BY DEF NoLostWakeup, ProducersWoken, ConsumersWoken
  <1> USE DEF Terminated, flags, calls
  <1>1. CASE NotifyNotEmpty(t)
    <2>1. CASE WaitingNotEmpty = {}
      <3>1. Moves(t, "idle") /\ pc[t] = "notifyNotEmpty"
        BY <1>0, <1>1, <2>1, GotoMoves DEF NotifyNotEmpty, NotifyOne
      <3> QED
        BY <1>0, <1>1, <2>1, <3>1 DEF NotifyNotEmpty, Moves, ProducersWoken, ConsumersWoken
    <2>2. CASE WaitingNotEmpty # {}
      <3> PICK u \in WaitingNotEmpty : pc' = [pc EXCEPT ![t] = "idle", ![u] = "pop"]
        BY <1>1, <2>2 DEF NotifyNotEmpty, NotifyOne
      <3>1. u \in Thread /\ Wakes(t, u, "pop") /\ pc[u] = "waitNotEmpty" /\ pc[t] = "notifyNotEmpty"
        BY <1>1 DEF NotifyNotEmpty, WaitingNotEmpty, Wakes
      <3>2. \A label \in {"push", "pop", "notifyNotFull", "notifyNotEmpty", "wakeNotFull", "wakeNotEmpty"} :
              /\ At(label) \in Nat
              /\ At(label)' = At(label) + (IF "pop" = label THEN 1 ELSE 0)
                               - (IF pc[u] = label THEN 1 ELSE 0) - (IF pc[t] = label THEN 1 ELSE 0)
        BY <1>0, <3>1, AtNotify, AtType
      <3>3. WaitingNotFull' = WaitingNotFull
        BY <1>0, <3>1 DEF WaitingNotFull, TypeOK, Wakes
      <3>4. /\ {At("push"), At("pop"), At("notifyNotFull"), At("notifyNotEmpty"), At("wakeNotFull"), At("wakeNotEmpty")} \subseteq Nat
            /\ At("push")' = At("push") /\ At("notifyNotFull")' = At("notifyNotFull")
            /\ At("pop")' = At("pop") + 1 /\ At("notifyNotEmpty")' = At("notifyNotEmpty") - 1
            /\ At("wakeNotFull")' = At("wakeNotFull") /\ At("wakeNotEmpty")' = At("wakeNotEmpty")
        BY <3>1, <3>2
      <3>5. UNCHANGED <<queue, closed, aborted, cancelled>>
        BY <1>1 DEF NotifyNotEmpty
      <3>6. ProducersWoken'
        BY <1>0, <3>3, <3>4, <3>5 DEF ProducersWoken
      <3>7. ConsumersWoken'
        BY <1>0, <2>2, <3>4, <3>5 DEF ConsumersWoken
      <3> QED
        BY <3>6, <3>7
    <2> QED
      BY <2>1, <2>2
  <1>2. CASE NotifyNotFull(t)
    <2>1. CASE WaitingNotFull = {}
      <3>1. Moves(t, "idle") /\ pc[t] = "notifyNotFull"
        BY <1>0, <1>2, <2>1, GotoMoves DEF NotifyNotFull, NotifyOne
      <3> QED
        BY <1>0, <1>2, <2>1, <3>1 DEF NotifyNotFull, Moves, ProducersWoken, ConsumersWoken
    <2>2. CASE WaitingNotFull # {}
      <3> PICK u \in WaitingNotFull : pc' = [pc EXCEPT ![t] = "idle", ![u] = "push"]
        BY <1>2, <2>2 DEF NotifyNotFull, NotifyOne
      <3>1. u \in Thread /\ Wakes(t, u, "push") /\ pc[u] = "waitNotFull" /\ pc[t] = "notifyNotFull"
        BY <1>2 DEF NotifyNotFull, WaitingNotFull, Wakes
      <3>2. \A label \in {"push", "pop", "notifyNotFull", "notifyNotEmpty", "wakeNotFull", "wakeNotEmpty"} :
              /\ At(label) \in Nat
              /\ At(label)' = At(label) + (IF "push" = label THEN 1 ELSE 0)
                               - (IF pc[u] = label THEN 1 ELSE 0) - (IF pc[t] = label THEN 1 ELSE 0)
        BY <1>0, <3>1, AtNotify, AtType
      <3>3. WaitingNotEmpty' = WaitingNotEmpty
        BY <1>0, <3>1 DEF WaitingNotEmpty, TypeOK, Wakes
      <3>4. /\ {At("push"), At("pop"), At("notifyNotFull"), At("notifyNotEmpty"), At("wakeNotFull"), At("wakeNotEmpty")} \subseteq Nat
            /\ At("push")' = At("push") + 1 /\ At("notifyNotFull")' = At("notifyNotFull") - 1
            /\ At("pop")' = At("pop") /\ At("notifyNotEmpty")' = At("notifyNotEmpty")
            /\ At("wakeNotFull")' = At("wakeNotFull") /\ At("wakeNotEmpty")' = At("wakeNotEmpty")
        BY <3>1, <3>2
      <3>5. UNCHANGED <<queue, closed, aborted, cancelled>>
        BY <1>2 DEF NotifyNotFull
      <3>6. ProducersWoken'
        BY <1>0, <2>2, <3>4, <3>5 DEF ProducersWoken
      <3>7. ConsumersWoken'
        BY <1>0, <3>3, <3>4, <3>5 DEF ConsumersWoken
      <3> QED
        BY <3>6, <3>7
    <2> QED
      BY <2>1, <2>2
  <1> QED
    BY <1>1, <1>2

\* Close, Abort and Cancel leave a thread behind that wakes everybody, and it wakes
\* the consumers before the producers.
LEMMA EndingKeepsWoken ==
    ASSUME QueueInv, NoLostWakeup, NEW t \in Thread,
           \/ SetClosed(t) \/ SetAborted(t) \/ SetCancelled(t)
           \/ WakeNotEmpty(t) \/ WakeNotFull(t) \/ WakeUp(t)
    PROVE  NoLostWakeup'
  <1>0. TypeOK /\ Size \in Nat /\ Len(queue) \in Nat /\ ProducersWoken /\ ConsumersWoken
    BY SizeType, Halves DEF QueueInv, TypeOK
  <1> SUFFICES ProducersWoken' /\ ConsumersWoken'
    BY DEF NoLostWakeup, ProducersWoken, ConsumersWoken
  <1> USE DEF Terminated, flags, calls
  <1>1. CASE SetClosed(t) \/ SetAborted(t) \/ SetCancelled(t)
    <2>1. pc' = [pc EXCEPT ![t] = "wakeNotEmpty"] /\ Terminated'
      BY <1>1 DEF SetClosed, SetAborted, SetCancelled, Goto
    <2>2. At("wakeNotEmpty")' > 0 /\ At("wakeNotEmpty")' \in Nat /\ At("wakeNotFull")' \in Nat
      BY <1>0, <2>1, AtType DEF TypeOK
    <2> QED
      BY <2>1, <2>2 DEF ProducersWoken, ConsumersWoken
  <1>2. CASE WakeNotEmpty(t)
    <2>1. WaitingNotEmpty' = {}
      BY <1>2 DEF WakeNotEmpty, WaitingNotEmpty
    <2>2. WaitingNotFull' = WaitingNotFull
      BY <1>2 DEF WakeNotEmpty, WaitingNotEmpty, WaitingNotFull
    <2>3. At("push")' = At("push") /\ At("notifyNotFull")' = At("notifyNotFull")
      BY <1>2 DEF WakeNotEmpty, WaitingNotEmpty, At
    <2>4. At("wakeNotFull")' > 0 /\ At("wakeNotFull")' \in Nat /\ At("wakeNotEmpty")' \in Nat
      BY <1>2, AtType DEF WakeNotEmpty
    <2> QED
      BY <1>0, <1>2, <2>1, <2>2, <2>3, <2>4 DEF WakeNotEmpty, ProducersWoken, ConsumersWoken
  <1>3. CASE WakeNotFull(t)
    <2>1. WaitingNotFull' = {}
      BY <1>3 DEF WakeNotFull, WaitingNotFull
    <2>2. WaitingNotEmpty' = WaitingNotEmpty
      BY <1>3 DEF WakeNotFull, WaitingNotEmpty, WaitingNotFull
    <2>3. /\ At("pop")' = At("pop") /\ At("notifyNotEmpty")' = At("notifyNotEmpty")
          /\ At("wakeNotEmpty")' = At("wakeNotEmpty")
      BY <1>3 DEF WakeNotFull, WaitingNotFull, At
    <2> QED
      BY <1>0, <1>3, <2>1, <2>2, <2>3 DEF WakeNotFull, ProducersWoken, ConsumersWoken
  <1>4. CASE WakeUp(t)
    <2>1. \/ Moves(t, "push") /\ pc[t] = "waitNotFull"
          \/ Moves(t, "pop") /\ pc[t] = "waitNotEmpty"
      BY <1>0, <1>4, GotoMoves DEF WakeUp
    <2> QED
      BY <1>0, <1>4, <2>1 DEF WakeUp, Moves, ProducersWoken, ConsumersWoken
  <1> QED
    BY <1>1, <1>2, <1>3, <1>4

\* Every step keeps NoLostWakeup.
LEMMA NextWoken == QueueInv /\ NoLostWakeup /\ [Next]_vars => NoLostWakeup'
  <1> SUFFICES ASSUME QueueInv, NoLostWakeup, [Next]_vars PROVE NoLostWakeup'
    OBVIOUS
  <1>1. CASE Next
    <2> PICK t \in Thread : Begin(t) \/ Proceed(t) \/ WakeUp(t)
      BY <1>1 DEF Next
    <2> QED
      BY SectionsKeepWoken, NotifyKeepsWoken, EndingKeepsWoken DEF Begin, Proceed
  <1>2. CASE UNCHANGED vars
    BY <1>2 DEF vars, flags, calls, NoLostWakeup, WaitingNotFull, WaitingNotEmpty, Terminated, At
  <1> QED
    BY <1>1, <1>2

\* Notifications sent outside the mutex are enough: for any capacity and number of
\* threads, whoever waits for room or for an element is on its way to be woken when
\* there is some, and when the queue has ended.
THEOREM NobodyForgotten == Spec => []NoLostWakeup
  <1>1. Init => NoLostWakeup
    BY DEF Init, NoLostWakeup, WaitingNotFull, WaitingNotEmpty
  <1> QED
    BY <1>1, InitQueueInv, NextQueueInv, NextWoken, PTL DEF Spec

-----------------------------------------------------------------------------
(* ThreadPool: types *)

\* The initial state is typed.
LEMMA InitTypes == PoolInit => PoolTypeOK
  <1> SUFFICES ASSUME PoolInit PROVE PoolTypeOK
    OBVIOUS
  <1>1. tasks \in Seq(1..MaxTasks) /\ submitted \in 0..MaxTasks
    BY PoolAssumption DEF PoolInit
  <1>2. /\ at \in [Worker -> {"loop", "wait", "run", "exited"}]
        /\ running \in [Worker -> 0..MaxTasks]
        /\ \A w \in Worker : running[w] # 0 <=> at[w] = "run"
    BY PoolAssumption DEF PoolInit
  <1>3. stopped \in BOOLEAN /\ early \subseteq 1..MaxTasks /\ done \subseteq 1..MaxTasks
    BY DEF PoolInit
  <1>4. client \in [Client -> {"idle", "notify"}] /\ owner \in {"idle", "wake", "join", "down"}
    BY DEF PoolInit
  <1> QED
    BY <1>1, <1>2, <1>3, <1>4 DEF PoolTypeOK

\* Every step keeps the types.
LEMMA NextTypes == PoolTypeOK /\ [PoolNext]_poolVars => PoolTypeOK'
  <1> SUFFICES ASSUME PoolTypeOK, [PoolNext]_poolVars PROVE PoolTypeOK'
    OBVIOUS
  <1> USE PoolAssumption DEF PoolTypeOK
  <1>1. ASSUME NEW c \in Client, Enqueue(c) PROVE PoolTypeOK'
    <2>1. submitted' \in 1..MaxTasks
      BY <1>1 DEF Enqueue
    <2>2. tasks' \in Seq(1..MaxTasks)
      BY <1>1, <2>1 DEF Enqueue
    <2> QED
      BY <1>1, <2>1, <2>2 DEF Enqueue
  <1>2. ASSUME NEW c \in Client, Notify(c) PROVE PoolTypeOK'
    BY <1>2 DEF Notify, Waiting
  <1>3. ASSUME NEW w \in Worker, Sleep(w) \/ WorkerWakes(w) \/ Exit(w) PROVE PoolTypeOK'
    BY <1>3 DEF Sleep, WorkerWakes, Exit
  <1>4. ASSUME NEW w \in Worker, Take(w) PROVE PoolTypeOK'
    <2>1. Head(tasks) \in 1..MaxTasks /\ Tail(tasks) \in Seq(1..MaxTasks)
      BY <1>4 DEF Take
    <2> QED
      BY <1>4, <2>1 DEF Take
  <1>5. ASSUME NEW w \in Worker, Run(w) PROVE PoolTypeOK'
    <2>1. running[w] \in 1..MaxTasks
      BY <1>5 DEF Run
    <2>2. done' \subseteq 1..MaxTasks
      BY <1>5, <2>1 DEF Run
    <2>3. /\ at' \in [Worker -> {"loop", "wait", "run", "exited"}]
          /\ running' \in [Worker -> 0..MaxTasks]
          /\ \A v \in Worker : running'[v] # 0 <=> at'[v] = "run"
      BY <1>5 DEF Run
    <2> QED
      BY <1>5, <2>2, <2>3 DEF Run
  <1>6. CASE Stop \/ WakeAll \/ JoinAll
    BY <1>6 DEF Stop, WakeAll, JoinAll
  <1>7. CASE UNCHANGED poolVars
    BY <1>7 DEF poolVars
  <1> QED
    BY <1>1, <1>2, <1>3, <1>4, <1>5, <1>6, <1>7 DEF PoolNext, PoolStep, OwnerStep, Finished

\* Type correctness of the pool.
THEOREM PoolTypes == PoolSpec => []PoolTypeOK
  BY InitTypes, NextTypes, PTL DEF PoolSpec

-----------------------------------------------------------------------------
(* ThreadPool: each task in one place *)

\* The tasks queued, and those in the hands of a thread.
Queued == {tasks[i] : i \in DOMAIN tasks}
Held   == {running[w] : w \in {v \in Worker : at[v] = "run"}}

\* EachTaskOnce in terms of the two.
LEMMA Places ==
    EachTaskOnce <=>
        /\ 1..submitted = Queued \cup Held \cup done
        /\ Queued \cap Held = {} /\ Queued \cap done = {} /\ Held \cap done = {}
        /\ \A v, w \in Worker : v # w /\ running[v] # 0 => running[v] # running[w]
        /\ \A i, j \in DOMAIN tasks : i # j => tasks[i] # tasks[j]
  BY DEF EachTaskOnce, Queued, Held

\* Submit puts a task nobody has seen at the end of the queue.
LEMMA EnqueueOnce ==
    ASSUME PoolTypeOK, EachTaskOnce, NEW c \in Client, Enqueue(c)
    PROVE  EachTaskOnce'
  <1>1. submitted \in Nat /\ submitted' = submitted + 1 /\ tasks' = Append(tasks, submitted + 1)
    BY DEF Enqueue, PoolTypeOK
  <1>2. submitted + 1 \notin Queued \cup Held \cup done
    <2>1. submitted + 1 \notin 1..submitted
      BY <1>1
    <2> QED
      BY <2>1, Places
  <1>3. Queued' = Queued \cup {submitted + 1}
    <2>1. /\ DOMAIN tasks = 1..Len(tasks) /\ Len(tasks) \in Nat
          /\ DOMAIN tasks' = 1..(Len(tasks) + 1)
          /\ \A i \in DOMAIN tasks : tasks'[i] = tasks[i]
          /\ tasks'[Len(tasks) + 1] = submitted + 1
      BY <1>1 DEF PoolTypeOK
    <2>2. Queued' \subseteq Queued \cup {submitted + 1}
      BY <2>1 DEF Queued
    <2>3. Queued \subseteq Queued'
      BY <2>1 DEF Queued
    <2>4. submitted + 1 \in Queued'
      BY <2>1 DEF Queued
    <2> QED
      BY <2>2, <2>3, <2>4
  <1>4. Held' = Held /\ done' = done /\ running' = running
    BY DEF Enqueue, Held
  <1>5. 1..submitted' = (1..submitted) \cup {submitted + 1}
    BY <1>1
  <1>6. \A i, j \in DOMAIN tasks' : i # j => tasks'[i] # tasks'[j]
    <2>1. \A i \in DOMAIN tasks : tasks[i] # submitted + 1
      BY <1>2 DEF Queued
    <2>2. \A i, j \in DOMAIN tasks : i # j => tasks[i] # tasks[j]
      BY Places
    <2> QED
      BY <1>1, <2>1, <2>2 DEF PoolTypeOK
  <1>7. 1..submitted' = Queued' \cup Held' \cup done'
    BY <1>3, <1>4, <1>5, Places
  <1>8. Queued' \cap Held' = {} /\ Queued' \cap done' = {} /\ Held' \cap done' = {}
    BY <1>2, <1>3, <1>4, Places
  <1>9. \A v, w \in Worker : v # w /\ running'[v] # 0 => running'[v] # running'[w]
    BY <1>4, Places
  <1> QED
    BY <1>6, <1>7, <1>8, <1>9 DEF EachTaskOnce, Queued, Held

\* A thread takes the head of the queue, which nobody else has.
LEMMA TakeOnce ==
    ASSUME PoolTypeOK, EachTaskOnce, NEW w \in Worker, Take(w)
    PROVE  EachTaskOnce'
  <1> DEFINE task == Head(tasks)
  <1>1. /\ tasks # <<>> /\ tasks' = Tail(tasks) /\ at[w] = "loop" /\ running[w] = 0
        /\ running' = [running EXCEPT ![w] = task] /\ at' = [at EXCEPT ![w] = "run"]
        /\ done' = done /\ submitted' = submitted
    BY DEF Take, PoolTypeOK
  <1>2. \A i, j \in DOMAIN tasks : i # j => tasks[i] # tasks[j]
    BY Places
  <1>3. Queued = Queued' \cup {task} /\ task \notin Queued' /\ task \in Queued
    <2>1. task = tasks[1] /\ 1 \in DOMAIN tasks
      BY <1>1 DEF PoolTypeOK
    <2>2. DOMAIN Tail(tasks) = 1..(Len(tasks) - 1) /\ \A i \in DOMAIN Tail(tasks) : Tail(tasks)[i] = tasks[i + 1]
      BY <1>1 DEF PoolTypeOK
    <2>3. DOMAIN tasks = 1..Len(tasks) /\ Len(tasks) \in Nat
      BY DEF PoolTypeOK
    <2>4. \A i \in DOMAIN tasks : i = 1 \/ (i - 1 \in DOMAIN Tail(tasks) /\ Tail(tasks)[i - 1] = tasks[i])
      BY <2>2, <2>3
    <2>5. Queued \subseteq Queued' \cup {task}
      BY <1>1, <2>1, <2>4, ZenonT(60) DEF Queued
    <2>6. Queued' \subseteq Queued
      BY <1>1, <2>2, <2>3 DEF Queued
    <2>7. task \notin Queued'
      <3>1. \A i \in DOMAIN Tail(tasks) : i + 1 \in DOMAIN tasks /\ i + 1 # 1
        BY <2>2, <2>3
      <3>2. \A i \in DOMAIN Tail(tasks) : Tail(tasks)[i] # task
        BY <1>2, <2>1, <2>2, <3>1
      <3> QED
        BY <1>1, <3>2 DEF Queued
    <2>8. task \in Queued
      BY <2>1 DEF Queued
    <2> QED
      BY <2>5, <2>6, <2>7, <2>8
  <1>4. \A i, j \in DOMAIN tasks' : i # j => tasks'[i] # tasks'[j]
    BY <1>1, <1>2 DEF PoolTypeOK
  <1>5. Held' = Held \cup {task}
    BY <1>1 DEF Held, PoolTypeOK
  <1>6. task \notin Held /\ task \notin done /\ task # 0
    BY <1>3, Places DEF PoolTypeOK, Queued
  <1>7. \A u \in Worker : running[u] # task
    BY <1>6 DEF Held, PoolTypeOK
  <1>8. \A u, v \in Worker : u # v /\ running'[u] # 0 => running'[u] # running'[v]
    BY <1>1, <1>6, <1>7, Places DEF PoolTypeOK
  <1>9. 1..submitted' = Queued' \cup Held' \cup done'
    BY <1>1, <1>3, <1>5, Places
  <1>10. Queued' \cap Held' = {} /\ Queued' \cap done' = {} /\ Held' \cap done' = {}
    BY <1>1, <1>3, <1>5, <1>6, Places
  <1> QED
    BY <1>4, <1>8, <1>9, <1>10 DEF EachTaskOnce, Queued, Held

\* A task that has run is in no other thread's hands.
LEMMA RunOnce ==
    ASSUME PoolTypeOK, EachTaskOnce, NEW w \in Worker, Run(w)
    PROVE  EachTaskOnce'
  <1> DEFINE task == running[w]
  <1>1. /\ at[w] = "run" /\ task # 0 /\ task \in Held
        /\ running' = [running EXCEPT ![w] = 0] /\ at' = [at EXCEPT ![w] = "loop"]
        /\ done' = done \cup {task} /\ tasks' = tasks /\ submitted' = submitted
    BY DEF Run, PoolTypeOK, Held
  <1>2. Queued' = Queued
    BY <1>1 DEF Queued
  <1>3. \A u \in Worker : u # w => running[u] # task
    BY <1>1, Places
  <1>4. Held' = Held \ {task}
    <2>1. Held' = {running[u] : u \in {v \in Worker : v # w /\ at[v] = "run"}}
      BY <1>1 DEF Held, PoolTypeOK
    <2> QED
      BY <1>1, <1>3, <2>1 DEF Held
  <1>5. 1..submitted' = Queued' \cup Held' \cup done'
    BY <1>1, <1>2, <1>4, Places
  <1>6. Queued' \cap Held' = {} /\ Queued' \cap done' = {} /\ Held' \cap done' = {}
    BY <1>1, <1>2, <1>4, Places
  <1>7. \A u, v \in Worker : u # v /\ running'[u] # 0 => running'[u] # running'[v]
    BY <1>1, Places DEF PoolTypeOK
  <1>8. \A i, j \in DOMAIN tasks' : i # j => tasks'[i] # tasks'[j]
    BY <1>1, Places
  <1> QED
    BY <1>5, <1>6, <1>7, <1>8 DEF EachTaskOnce, Queued, Held

\* No other step touches a task.
LEMMA OthersKeepOnce ==
    ASSUME PoolTypeOK, EachTaskOnce,
           \/ \E c \in Client : Notify(c)
           \/ \E w \in Worker : Sleep(w) \/ WorkerWakes(w) \/ Exit(w)
           \/ Stop \/ WakeAll \/ JoinAll \/ UNCHANGED poolVars
    PROVE  EachTaskOnce'
  <1>1. UNCHANGED <<tasks, running, submitted, done>>
    BY DEF Notify, Sleep, WorkerWakes, Exit, Stop, WakeAll, JoinAll, poolVars
  <1>2. {v \in Worker : at'[v] = "run"} = {v \in Worker : at[v] = "run"}
    BY DEF Notify, Sleep, WorkerWakes, Exit, Stop, WakeAll, JoinAll, poolVars, Waiting, PoolTypeOK
  <1> QED
    BY <1>1, <1>2 DEF EachTaskOnce

\* Every step keeps each task in one place.
LEMMA NextOnce == PoolTypeOK /\ EachTaskOnce /\ [PoolNext]_poolVars => EachTaskOnce'
  BY EnqueueOnce, TakeOnce, RunOnce, OthersKeepOnce DEF PoolNext, PoolStep, OwnerStep, Finished

\* Tasks are neither lost nor run twice, for any number of threads, clients and
\* tasks, whenever the pool is shut down.
THEOREM TasksOnce == PoolSpec => []EachTaskOnce
  <1>1. PoolInit => EachTaskOnce
    BY PoolAssumption DEF PoolInit, EachTaskOnce
  <1> QED
    BY <1>1, InitTypes, NextTypes, NextOnce, PTL DEF PoolSpec

-----------------------------------------------------------------------------
(* ThreadPool: no lost wakeup *)

\* The number of pool threads at a place, and of clients still to notify.
Threads(label) == Count(Worker, at, label)
Notifying == Count(Client, client, "notify")

\* NoTaskForgotten in terms of the two.
LEMMA Woken ==
    NoTaskForgotten <=>
        (Waiting # {} =>
            IF stopped THEN owner = "wake"
            ELSE Len(tasks) <= Threads("loop") + Notifying + Threads("run"))
  BY DEF NoTaskForgotten, Threads, Notifying, Count, Those

\* What Moved says of a pool thread that goes from one place to another.
Moved(w, to) ==
    /\ at' = [at EXCEPT ![w] = to]
    /\ \A label \in {"loop", "run"} :
          Threads(label)' = Threads(label) + (IF to = label THEN 1 ELSE 0) - (IF at[w] = label THEN 1 ELSE 0)

\* The counts are natural numbers.
LEMMA CountsAreNat == \A label \in {"loop", "run"} : Threads(label) \in Nat /\ Notifying \in Nat
  BY CountType, PoolAssumption DEF Threads, Notifying

\* What a change of place changes, in numbers of threads.
LEMMA ThreadMoves ==
    ASSUME PoolTypeOK, NEW w \in Worker, NEW to, at' = [at EXCEPT ![w] = to]
    PROVE  Moved(w, to)
  <1> DEFINE next == at'
  <1>1. next[w] = to /\ OnlyMoves(Worker, w, at, next)
    BY DEF PoolTypeOK, OnlyMoves
  <1>2. \A label : Threads(label)' = Count(Worker, next, label)
    BY DEF Threads
  <1>3. next = [at EXCEPT ![w] = to]
    OBVIOUS
  <1> HIDE DEF next
  <1>4. \A label \in {"loop", "run"} :
          Count(Worker, next, label)
            = Count(Worker, at, label) + (IF next[w] = label THEN 1 ELSE 0) - (IF at[w] = label THEN 1 ELSE 0)
    BY <1>1, CountMove, PoolAssumption
  <1>5. \A label \in {"loop", "run"} :
          Threads(label)' = Threads(label) + (IF to = label THEN 1 ELSE 0) - (IF at[w] = label THEN 1 ELSE 0)
    BY <1>1, <1>2, <1>4 DEF Threads
  <1> QED
    BY <1>3, <1>5 DEF Moved, next

\* A client enters or leaves the gap between Submit's critical section and its
\* notification.
LEMMA ClientMoves ==
    ASSUME PoolTypeOK, NEW c \in Client, NEW to, client' = [client EXCEPT ![c] = to]
    PROVE  Notifying' = Notifying + (IF to = "notify" THEN 1 ELSE 0) - (IF client[c] = "notify" THEN 1 ELSE 0)
  <1> DEFINE next == client'
  <1>1. next[c] = to /\ OnlyMoves(Client, c, client, next)
    BY DEF PoolTypeOK, OnlyMoves
  <1>2. Notifying' = Count(Client, next, "notify")
    BY DEF Notifying
  <1> HIDE DEF next
  <1>3. Count(Client, next, "notify")
          = Count(Client, client, "notify") + (IF next[c] = "notify" THEN 1 ELSE 0)
              - (IF client[c] = "notify" THEN 1 ELSE 0)
    BY <1>1, CountMove, PoolAssumption
  <1> QED
    BY <1>1, <1>2, <1>3 DEF Notifying

\* Submit, and the notification it sends after it has released the mutex.
LEMMA SubmitKeepsWoken ==
    ASSUME PoolTypeOK, NoTaskForgotten, NEW c \in Client, Enqueue(c) \/ Notify(c)
    PROVE  NoTaskForgotten'
  <1>0. /\ Threads("loop") \in Nat /\ Threads("run") \in Nat /\ Notifying \in Nat
        /\ Len(tasks) \in Nat
    BY CountsAreNat DEF PoolTypeOK
  <1>1. CASE Enqueue(c)
    <2>1. Notifying' = Notifying + 1
      <3>1. client' = [client EXCEPT ![c] = "notify"] /\ client[c] = "idle"
        BY <1>1 DEF Enqueue
      <3>2. Notifying' = Notifying + (IF "notify" = "notify" THEN 1 ELSE 0) - (IF client[c] = "notify" THEN 1 ELSE 0)
        BY <3>1, ClientMoves
      <3> QED
        BY <1>0, <3>1, <3>2
    <2>2. UNCHANGED <<Threads("loop"), Threads("run"), Waiting, stopped, owner>> /\ Len(tasks') = Len(tasks) + 1
      BY <1>1 DEF Enqueue, Threads, Waiting, PoolTypeOK
    <2>3. Waiting # {} => IF stopped THEN owner = "wake" ELSE Len(tasks) <= Threads("loop") + Notifying + Threads("run")
      BY Woken
    <2>4. Waiting' # {} =>
             IF stopped' THEN owner' = "wake" ELSE Len(tasks') <= Threads("loop")' + Notifying' + Threads("run")'
      BY <1>0, <2>1, <2>2, <2>3
    <2> QED
      BY <2>4 DEF NoTaskForgotten, Threads, Notifying, Count, Those
  <1>2. CASE Notify(c)
    <2>1. Notifying' = Notifying - 1
      <3>1. client' = [client EXCEPT ![c] = "idle"] /\ client[c] = "notify"
        BY <1>2 DEF Notify
      <3>2. Notifying' = Notifying + (IF "idle" = "notify" THEN 1 ELSE 0) - (IF client[c] = "notify" THEN 1 ELSE 0)
        BY <3>1, ClientMoves
      <3> QED
        BY <1>0, <3>1, <3>2
    <2>2. UNCHANGED <<tasks, stopped, owner>>
      BY <1>2 DEF Notify
    <2>3. Waiting # {} => IF stopped THEN owner = "wake" ELSE Len(tasks) <= Threads("loop") + Notifying + Threads("run")
      BY Woken
    <2>4. CASE Waiting = {}
      <3>1. Waiting' = {}
        BY <1>2, <2>4 DEF Notify, Waiting
      <3> QED
        BY <3>1 DEF NoTaskForgotten
    <2>5. CASE Waiting # {}
      <3> PICK w \in Waiting : at' = [at EXCEPT ![w] = "loop"]
        BY <1>2, <2>5 DEF Notify
      <3>1. w \in Worker /\ at[w] = "wait" /\ Moved(w, "loop")
        BY ThreadMoves DEF Waiting
      <3>2. Threads("loop")' = Threads("loop") + 1 /\ Threads("run")' = Threads("run")
        BY <1>0, <3>1 DEF Moved
      <3>3. IF stopped' THEN owner' = "wake" ELSE Len(tasks') <= Threads("loop")' + Notifying' + Threads("run")'
        BY <1>0, <2>1, <2>2, <2>3, <2>5, <3>2
      <3> QED
        BY <3>3 DEF NoTaskForgotten, Threads, Notifying, Count, Those
    <2> QED
      BY <2>4, <2>5
  <1> QED
    BY <1>1, <1>2

\* A pool thread: it sleeps only over an empty queue, and takes one task at a time.
LEMMA LoopKeepsWoken ==
    ASSUME PoolTypeOK, NoTaskForgotten, NEW w \in Worker, PoolStep(w) \/ WorkerWakes(w)
    PROVE  NoTaskForgotten'
  <1>0. /\ Threads("loop") \in Nat /\ Threads("run") \in Nat /\ Notifying \in Nat
        /\ Len(tasks) \in Nat
    BY CountsAreNat DEF PoolTypeOK
  <1>1. Waiting # {} => IF stopped THEN owner = "wake" ELSE Len(tasks) <= Threads("loop") + Notifying + Threads("run")
    BY Woken
  <1>2. UNCHANGED <<stopped, owner, client, Notifying>>
    BY DEF PoolStep, Sleep, Exit, Take, Run, WorkerWakes, Notifying
  <1> SUFFICES Waiting' # {} =>
                 IF stopped' THEN owner' = "wake"
                 ELSE Len(tasks') <= Threads("loop")' + Notifying' + Threads("run")'
    BY DEF NoTaskForgotten, Threads, Notifying, Count, Those
  <1>3. CASE Sleep(w)
    <2>1. Len(tasks') = 0 /\ ~ stopped'
      BY <1>3 DEF Sleep
    <2>2. Threads("loop")' \in Nat /\ Threads("run")' \in Nat
      <3> DEFINE next == at'
      <3>1. Threads("loop")' = Count(Worker, next, "loop") /\ Threads("run")' = Count(Worker, next, "run")
        BY DEF Threads
      <3> HIDE DEF next
      <3> QED
        BY <3>1, CountType, PoolAssumption
    <2> QED
      BY <1>0, <1>2, <2>1, <2>2
  <1>4. CASE Exit(w)
    <2>1. Waiting' = Waiting /\ stopped
      BY <1>4 DEF Exit, Waiting, PoolTypeOK
    <2> QED
      BY <1>1, <1>2, <2>1
  <1>5. CASE Take(w)
    <2>1. Moved(w, "run") /\ at[w] = "loop"
      BY <1>5, ThreadMoves DEF Take
    <2>2. Waiting' = Waiting /\ Len(tasks') = Len(tasks) - 1
      BY <1>5 DEF Take, Waiting, PoolTypeOK
    <2>3. Threads("loop")' = Threads("loop") - 1 /\ Threads("run")' = Threads("run") + 1
      BY <1>0, <2>1 DEF Moved
    <2> QED
      BY <1>0, <1>1, <1>2, <2>2, <2>3
  <1>6. CASE Run(w)
    <2>1. Moved(w, "loop") /\ at[w] = "run"
      BY <1>6, ThreadMoves DEF Run
    <2>2. Waiting' = Waiting /\ tasks' = tasks
      BY <1>6 DEF Run, Waiting, PoolTypeOK
    <2>3. Threads("loop")' = Threads("loop") + 1 /\ Threads("run")' = Threads("run") - 1
      BY <1>0, <2>1 DEF Moved
    <2> QED
      BY <1>0, <1>1, <1>2, <2>2, <2>3
  <1>7. CASE WorkerWakes(w)
    <2>1. Moved(w, "loop") /\ at[w] = "wait"
      BY <1>7, ThreadMoves DEF WorkerWakes
    <2>2. Waiting' \subseteq Waiting /\ tasks' = tasks
      BY <1>7 DEF WorkerWakes, Waiting, PoolTypeOK
    <2>3. Threads("loop")' = Threads("loop") + 1 /\ Threads("run")' = Threads("run")
      BY <1>0, <2>1 DEF Moved
    <2> QED
      BY <1>0, <1>1, <1>2, <2>2, <2>3
  <1> QED
    BY <1>3, <1>4, <1>5, <1>6, <1>7 DEF PoolStep

\* Shutdown: from Stop to WakeAll the owner is about to wake everybody.
LEMMA ShutdownKeepsWoken ==
    ASSUME PoolTypeOK, NoTaskForgotten, Stop \/ OwnerStep \/ UNCHANGED poolVars
    PROVE  NoTaskForgotten'
  <1>1. CASE Stop
    BY <1>1 DEF Stop, NoTaskForgotten
  <1>2. CASE WakeAll
    <2>1. Waiting' = {}
      BY <1>2 DEF WakeAll, Waiting
    <2> QED
      BY <2>1 DEF NoTaskForgotten
  <1>3. CASE JoinAll
    <2>1. Waiting' = {}
      BY <1>3 DEF JoinAll, Waiting
    <2> QED
      BY <2>1 DEF NoTaskForgotten
  <1>4. CASE UNCHANGED poolVars
    BY <1>4 DEF poolVars, NoTaskForgotten, Waiting
  <1> QED
    BY <1>1, <1>2, <1>3, <1>4 DEF OwnerStep

\* Every step keeps NoTaskForgotten.
LEMMA NextPoolWoken == PoolTypeOK /\ NoTaskForgotten /\ [PoolNext]_poolVars => NoTaskForgotten'
  BY SubmitKeepsWoken, LoopKeepsWoken, ShutdownKeepsWoken DEF PoolNext, Finished

\* While a thread sleeps no task is forgotten, and a stopped pool leaves nobody
\* asleep, although Submit and Shutdown notify after they have released the mutex.
THEOREM PoolForgetsNobody == PoolSpec => []NoTaskForgotten
  <1>1. PoolInit => NoTaskForgotten
    BY DEF PoolInit, NoTaskForgotten, Waiting
  <1> QED
    BY <1>1, InitTypes, NextTypes, NextPoolWoken, PTL DEF PoolSpec
=============================================================================
