------------------------- MODULE ParallelQueryProofs -------------------------
(***************************************************************************)
(* Theorems about ParallelQuery, for any number of workers, segments,      *)
(* batches and queue slots and whichever of the faults happen: no batch is *)
(* lost or repeated, an error reaches the caller, and nobody works on a    *)
(* stack frame that has gone.                                              *)
(***************************************************************************)
EXTENDS ParallelQuery, ScanWorkersProofs

-----------------------------------------------------------------------------
(* The invariant *)

\* The batches handed over: given to the consumer or queued for it.
Handed == Members(delivered) \cup Members(queue)

\* Batches that left the workers are handed over once; one is dropped only when the
\* queue takes no more and the scan is cancelled.
Sent ==
    /\ Distinct(delivered)
    /\ Distinct(queue)
    /\ Members(delivered) \cap Members(queue) = {}
    /\ Handed \subseteq Passed
    /\ coord # "left" /\ ~ (Terminated /\ cancelled) => Passed \subseteq Handed

\* The batches of one segment are handed over in storage order.
Ordered ==
    /\ \A b \in Members(delivered) : \A i \in 1..b[2] - 1 : <<b[1], i>> \in Members(delivered)
    /\ coord # "left" => \A p \in DOMAIN queue : \A i \in 1..queue[p][2] - 1 :
           <<queue[p][1], i>> \in Members(delivered) \cup {queue[q] : q \in 1..p - 1}

\* active_workers counts those that have not passed WorkerExitGuard, and the one that
\* closes the queue is the last.
Inside == {w \in Worker : at[w] \notin {"close", "done"}}
Leaving ==
    /\ active = Cardinality(Inside)
    /\ \A w \in Worker : at[w] = "close" => \A v \in Worker \ {w} : at[v] = "done"
    /\ closed => \A w \in Worker : at[w] = "done"

\* The queue carries the error of a worker that failed, and every worker that failed
\* has put its error there or is about to.
Errors ==
    /\ aborted <=> error # 0
    /\ error # 0 => error \in failed
    /\ \A w \in failed : at[w] = "catch" \/ error # 0
    /\ \A w \in Worker : at[w] = "catch" => w \in failed
    /\ cancelled => failed # {} \/ queueCancelled

\* What the calling thread knows where it is.
Calling ==
    /\ queueCancelled => coord \in {"abandon", "threw"}
    /\ coord = "abandon" => queueCancelled
    /\ caught \in failed \cup {0}
    /\ coord \in {"join", "returned"} /\ caught = 0 => closed /\ queue = <<>> /\ error = 0
    /\ coord = "returned" => caught = 0
    /\ coord = "threw" /\ ~ queueCancelled => caught # 0
    /\ coord \in {"returned", "threw"} => Joined

QueryInv == TypeOK /\ ScanInv /\ Sent /\ Ordered /\ Leaving /\ Errors /\ Calling

-----------------------------------------------------------------------------
(* Lemmas *)

\* At least one batch fits into the queue.
LEMMA CapacityType == Capacity \in Nat \ {0}
  BY CapacityAssumption DEF Capacity, Greatest

\* The workers are finitely many.
LEMMA WorkersFinite == IsFiniteSet(Worker) /\ Cardinality(Worker) = WorkerCount
  <1>1. 1 \in Int /\ WorkerCount \in Int /\ ~ (1 > WorkerCount) /\ WorkerCount - 1 + 1 = WorkerCount
    BY WorkerCountType
  <1> QED
    BY <1>1, FS_Interval DEF Worker

\* A step of the scan moves one worker that is neither failing nor leaving.
LEMMA ScanMoves ==
    ASSUME ScanTypeOK, NEW w \in Worker, ScanStep(w)
    PROVE  /\ UNCHANGED <<submitted, cancelled>>
           /\ at[w] \in {"queued", "scan", "claim", "read"}
           /\ \E to \in {"scan", "claim", "read", "emit", "exit"} : at' = [at EXCEPT ![w] = to]
  BY DEF ScanStep, StartTask, CheckCancelled, ClaimSegment, ReadBatch, ReadEnds, Goto

\* The first state.
LEMMA InitQueryInv == Init => QueryInv
  <1> SUFFICES ASSUME Init PROVE QueryInv
    OBVIOUS
  <1>0. /\ ScanInv /\ Passed = {} /\ submitted = 0 /\ cancelled = FALSE
        /\ at = [w \in Worker |-> "idle"]
        /\ queue = <<>> /\ delivered = <<>>
    BY InitScanInv DEF Init, ScanInit
  <1>1. TypeOK
    <2>1. queue \in Seq(Batches) /\ Len(queue) <= Capacity /\ delivered \in Seq(Batches)
      BY <1>0, CapacityType
    <2>2. {closed, aborted, queueCancelled} \subseteq BOOLEAN
      BY DEF Init
    <2>3. error \in 0..WorkerCount /\ active \in 0..WorkerCount /\ caught \in 0..WorkerCount
      BY WorkerCountType DEF Init
    <2>4. coord \in {"submit", "abandon", "pop", "join", "returned", "threw", "left"}
      BY DEF Init
    <2>5. failed \subseteq Worker
      BY DEF Init
    <2> QED
      BY <1>0, <2>1, <2>2, <2>3, <2>4, <2>5 DEF TypeOK, ScanInv
  <1>2. Members(queue) = {} /\ Members(delivered) = {} /\ DOMAIN queue = {} /\ DOMAIN delivered = {}
    BY <1>0 DEF Members
  <1>3. Sent
    BY <1>0, <1>2 DEF Sent, Handed, Distinct
  <1>4. Ordered
    BY <1>2 DEF Ordered
  <1>5. Leaving
    <2>1. Inside = Worker
      BY <1>0 DEF Inside
    <2> QED
      BY <1>0, <2>1, WorkersFinite DEF Init, Leaving
  <1>6. Errors /\ Calling
    BY <1>0 DEF Init, Errors, Calling
  <1> QED
    BY <1>0, <1>1, <1>3, <1>4, <1>5, <1>6 DEF QueryInv

\* A step that hands nothing over keeps Sent and Ordered.
LEMMA NothingSent ==
    ASSUME Sent, Ordered, UNCHANGED <<delivered, queue>>, Passed' = Passed,
           Terminated /\ cancelled => Terminated' /\ cancelled',
           coord = "left" => coord' = "left"
    PROVE  Sent' /\ Ordered'
  <1>1. Members(delivered)' = Members(delivered) /\ Members(queue)' = Members(queue)
        /\ Handed' = Handed
    BY DEF Members, Handed
  <1>2. Sent'
    BY <1>1 DEF Sent, Distinct
  <1>3. Ordered'
    BY <1>1, ZenonT(60) DEF Ordered
  <1> QED
    BY <1>2, <1>3

\* A step on which nobody passes WorkerExitGuard keeps Leaving.
LEMMA NobodyLeaves ==
    ASSUME ScanTypeOK, Leaving, UNCHANGED <<active, closed>>,
           NEW w \in Worker, at[w] \notin {"close", "done"},
           NEW to, to \notin {"close", "done"}, at' = [at EXCEPT ![w] = to]
    PROVE  Leaving'
  <1>1. \A v \in Worker : v # w => at'[v] = at[v]
    BY DEF ScanTypeOK
  <1>2. at'[w] = to
    BY DEF ScanTypeOK
  <1>3. Inside' = Inside
    BY <1>1, <1>2 DEF Inside
  <1>4. ~ closed
    BY DEF Leaving
  <1>5. \A v \in Worker : at[v] # "close"
    BY DEF Leaving
  <1> QED
    BY <1>1, <1>2, <1>3, <1>4, <1>5 DEF Leaving

\* While a worker is at work the queue is open, and the calling thread has not come
\* to a good end.
LEMMA AtWork ==
    ASSUME QueryInv, NEW w \in Worker, at[w] # "done"
    PROVE  /\ ~ closed
           /\ ~ (coord \in {"join", "returned"} /\ caught = 0)
  BY DEF QueryInv, Leaving, Calling

\* The calling thread waits for every worker whose task was submitted.
LEMMA WaitedFor ==
    ASSUME QueryInv, NEW w \in Worker, at[w] \notin {"done", "idle"}
    PROVE  ~ Joined /\ coord \notin {"returned", "threw"}
  <1>1. w \in 1..submitted
    BY WorkerCountType DEF QueryInv, ScanInv, ScanTypeOK, SubmittedFirst, Worker
  <1> QED
    BY <1>1 DEF Joined, QueryInv, Calling

-----------------------------------------------------------------------------
(* Steps of the workers *)

\* A step of the scan hands nothing over and fails nobody.
LEMMA ScansKeepInv ==
    ASSUME QueryInv, NEW w \in Worker, WorkerScans(w)
    PROVE  QueryInv'
  <1>0. /\ ScanStep(w) /\ ScanTypeOK
        /\ UNCHANGED <<queue, closed, aborted, queueCancelled, error, active, coord, caught,
                       delivered, failed>>
    BY DEF WorkerScans, QueryInv, ScanInv, queueVars, callVars
  <1>1. ScanInv' /\ Passed' = Passed
    BY <1>0, ScanStepKeepsScan DEF QueryInv
  <1>2. PICK to \in {"scan", "claim", "read", "emit", "exit"} : at' = [at EXCEPT ![w] = to]
    BY <1>0, ScanMoves
  <1>3. UNCHANGED <<submitted, cancelled>> /\ at[w] \in {"queued", "scan", "claim", "read"}
    BY <1>0, ScanMoves
  <1>4. TypeOK'
    BY <1>0, <1>1 DEF QueryInv, TypeOK, ScanInv, Capacity
  <1>5. Sent' /\ Ordered'
    BY <1>0, <1>1, <1>3, NothingSent DEF QueryInv, Terminated
  <1>6. Leaving'
    BY <1>0, <1>2, <1>3, NobodyLeaves DEF QueryInv
  <1>7. Errors'
    <2>1. \A v \in Worker : at'[v] = "catch" <=> at[v] = "catch"
      BY <1>0, <1>2, <1>3 DEF ScanTypeOK
    <2>2. failed \subseteq Worker
      BY DEF QueryInv, TypeOK
    <2> QED
      BY <1>0, <1>3, <2>1, <2>2 DEF QueryInv, Errors
  <1>8. Calling'
    BY <1>0, <1>3, WaitedFor DEF QueryInv, Calling
  <1> QED
    BY <1>1, <1>4, <1>5, <1>6, <1>7, <1>8 DEF QueryInv

\* The end of a queue with distinct members.
LEMMA Push ==
    ASSUME NEW s \in Seq(Batches), NEW b \in Batches
    PROVE  /\ Append(s, b) \in Seq(Batches) /\ Len(Append(s, b)) = Len(s) + 1
           /\ Append(s, b)[Len(s) + 1] = b
           /\ DOMAIN Append(s, b) = DOMAIN s \cup {Len(s) + 1}
           /\ Len(s) + 1 \notin DOMAIN s
           /\ \A i \in DOMAIN s : Append(s, b)[i] = s[i] /\ i <= Len(s)
  OBVIOUS

\* A pushed batch is a new one, and those before it in its segment are already there.
LEMMA PushKeepsInv ==
    ASSUME QueryInv, coord # "left", NEW w \in Worker, PushBatch(w)
    PROVE  QueryInv'
  <1> DEFINE b == <<seg[w], pos[w]>>
  <1>0. /\ ScanTypeOK /\ at[w] = "emit" /\ ~ Terminated /\ Len(queue) < Capacity
        /\ queue' = Append(queue, b) /\ at' = [at EXCEPT ![w] = "scan"]
        /\ UNCHANGED <<submitted, nextSeg, cancelled, seg, pos, closed, aborted,
                       queueCancelled, error, active, coord, caught, delivered, failed>>
    BY DEF PushBatch, Goto, HasRoom, QueryInv, ScanInv, callVars
  <1>1. b \in Batches /\ b \notin Passed
    BY <1>0, HeldNotPassed DEF QueryInv
  <1>2. cancelled \in BOOLEAN
    BY <1>0 DEF ScanTypeOK
  <1>3. ScanInv' /\ Passed' = Passed \cup {b}
    <2>1. "scan" \in {"scan", "exit"} /\ "scan" # "exit"
      OBVIOUS
    <2> QED
      BY <1>0, <1>2, <2>1, EmitKeepsScan DEF QueryInv
  <1>4. queue \in Seq(Batches) /\ delivered \in Seq(Batches)
    BY DEF QueryInv, TypeOK
  <1>5. TypeOK'
    <2>1. queue' \in Seq(Batches) /\ Len(queue') <= Capacity /\ Capacity' = Capacity
      BY <1>0, <1>1, <1>4, Push, CapacityType DEF Capacity
    <2> QED
      BY <1>0, <1>3, <2>1 DEF QueryInv, TypeOK, ScanInv
  <1>6. b \notin Members(queue) \cup Members(delivered)
    BY <1>1 DEF QueryInv, Sent, Handed
  <1>7. /\ Members(queue)' = Members(queue) \cup {b} /\ Distinct(queue')
        /\ Members(delivered)' = Members(delivered)
    <2>1. Members(Append(queue, b)) = Members(queue) \cup {b} /\ Distinct(Append(queue, b))
      BY <1>1, <1>4, <1>6, AppendMember DEF QueryInv, Sent
    <2> QED
      BY <1>0, <2>1 DEF Members
  <1>8. Sent'
    BY <1>0, <1>3, <1>6, <1>7 DEF QueryInv, Sent, Handed, Terminated, Distinct
  <1>9. Ordered'
    <2>1. /\ DOMAIN queue' = DOMAIN queue \cup {Len(queue) + 1} /\ Len(queue) \in Nat
          /\ queue'[Len(queue) + 1] = b
          /\ \A i \in DOMAIN queue : queue'[i] = queue[i] /\ i <= Len(queue)
          /\ DOMAIN queue = 1..Len(queue)
      BY <1>0, <1>1, <1>4, Push
    <2>2. ASSUME NEW p \in DOMAIN queue
          PROVE  {queue'[q] : q \in 1..p - 1} = {queue[q] : q \in 1..p - 1}
      <3>1. \A q \in 1..p - 1 : q \in DOMAIN queue
        BY <2>1
      <3> QED
        BY <2>1, <3>1
    <2>3. {queue'[q] : q \in 1..(Len(queue) + 1) - 1} = Members(queue)
      <3>1. 1..(Len(queue) + 1) - 1 = DOMAIN queue
        BY <2>1
      <3> QED
        BY <2>1, <3>1 DEF Members
    <2>4. \A i \in 1..pos[w] - 1 : <<seg[w], i>> \in Handed
      BY <1>0, EarlierPassed DEF QueryInv, Sent
    <2>5. ASSUME NEW p \in DOMAIN queue', NEW i \in 1..queue'[p][2] - 1
          PROVE  <<queue'[p][1], i>> \in Members(delivered) \cup {queue'[q] : q \in 1..p - 1}
      <3>1. CASE p \in DOMAIN queue
        BY <2>1, <2>2, <3>1 DEF QueryInv, Ordered
      <3>2. CASE p = Len(queue) + 1
        BY <2>1, <2>3, <2>4, <3>2 DEF Handed
      <3> QED
        BY <2>1, <3>1, <3>2
    <2>6. \A c \in Members(delivered) : \A i \in 1..c[2] - 1 : <<c[1], i>> \in Members(delivered)
      BY DEF QueryInv, Ordered
    <2> QED
      BY <1>7, <2>5, <2>6 DEF Ordered
  <1>10. Leaving'
    <2>1. "scan" \notin {"close", "done"} /\ at[w] \notin {"close", "done"}
      BY <1>0
    <2> QED
      BY <1>0, <2>1, NobodyLeaves DEF QueryInv
  <1>11. Errors'
    <2>1. \A v \in Worker : at'[v] = "catch" <=> at[v] = "catch"
      BY <1>0 DEF ScanTypeOK
    <2>2. failed \subseteq Worker
      BY DEF QueryInv, TypeOK
    <2> QED
      BY <1>0, <2>1, <2>2 DEF QueryInv, Errors
  <1>12. Calling'
    BY <1>0, WaitedFor, AtWork DEF QueryInv, Calling
  <1> QED
    BY <1>3, <1>5, <1>8, <1>9, <1>10, <1>11, <1>12 DEF QueryInv

\* A batch is dropped only after the queue was aborted or cancelled.
LEMMA RefusalKeepsInv ==
    ASSUME QueryInv, coord # "left", NEW w \in Worker, PushRefused(w)
    PROVE  QueryInv'
  <1> DEFINE b == <<seg[w], pos[w]>>
  <1>0. /\ ScanTypeOK /\ at[w] = "emit" /\ Terminated /\ cancelled' = TRUE
        /\ at' = [at EXCEPT ![w] = "exit"]
        /\ UNCHANGED <<submitted, nextSeg, seg, pos, queue, closed, aborted,
                       queueCancelled, error, active, coord, caught, delivered, failed>>
    BY DEF PushRefused, Goto, QueryInv, ScanInv, callVars, queueVars
  <1>1. ScanInv' /\ Passed' = Passed \cup {b}
    <2>1. "exit" \in {"scan", "exit"} /\ cancelled' \in BOOLEAN /\ cancelled'
      BY <1>0
    <2> QED
      BY <1>0, <2>1, EmitKeepsScan DEF QueryInv
  <1>2. TypeOK'
    BY <1>0, <1>1 DEF QueryInv, TypeOK, ScanInv, Capacity
  <1>3. Sent' /\ Ordered'
    <2>1. Members(delivered)' = Members(delivered) /\ Members(queue)' = Members(queue)
      BY <1>0 DEF Members
    <2>2. Terminated' /\ cancelled'
      BY <1>0 DEF Terminated
    <2>3. Sent'
      BY <1>0, <1>1, <2>1, <2>2 DEF QueryInv, Sent, Handed, Distinct
    <2>4. Ordered'
      BY <1>0, <2>1, SMTT(60) DEF QueryInv, Ordered
    <2> QED
      BY <2>3, <2>4
  <1>4. Leaving'
    <2>1. "exit" \notin {"close", "done"} /\ at[w] \notin {"close", "done"}
      BY <1>0
    <2> QED
      BY <1>0, <2>1, NobodyLeaves DEF QueryInv
  <1>5. Errors'
    <2>1. \A v \in Worker : at'[v] = "catch" <=> at[v] = "catch"
      BY <1>0 DEF ScanTypeOK
    <2>2. ~ closed /\ failed \subseteq Worker
      BY <1>0, AtWork DEF QueryInv, TypeOK
    <2>3. failed # {} \/ queueCancelled
      BY <1>0, <2>2 DEF QueryInv, Errors, Terminated
    <2> QED
      BY <1>0, <2>1, <2>2, <2>3 DEF QueryInv, Errors
  <1>6. Calling'
    BY <1>0, WaitedFor, AtWork DEF QueryInv, Calling
  <1> QED
    BY <1>1, <1>2, <1>3, <1>4, <1>5, <1>6 DEF QueryInv

\* A worker that throws cancels the scan and goes to its handler.
LEMMA FailureKeepsInv ==
    ASSUME QueryInv, NEW w \in Worker, WorkerFails(w)
    PROVE  QueryInv'
  <1>0. /\ ScanTypeOK /\ at[w] \in {"scan", "read"} /\ cancelled' = TRUE
        /\ at' = [at EXCEPT ![w] = "catch"] /\ failed' = failed \cup {w}
        /\ UNCHANGED <<submitted, nextSeg, seg, pos, queue, closed, aborted,
                       queueCancelled, error, active, coord, caught, delivered>>
    BY DEF WorkerFails, WorkerThrows, Goto, QueryInv, ScanInv, callVars, queueVars
  <1>1. ScanInv' /\ Passed' = Passed
    <2>1. "catch" \in {"catch", "exit", "close", "done"} /\ cancelled' \in BOOLEAN /\ cancelled'
      BY <1>0
    <2> QED
      BY <1>0, <2>1, MoveKeepsScan DEF QueryInv
  <1>2. TypeOK'
    BY <1>0, <1>1 DEF QueryInv, TypeOK, ScanInv, Capacity
  <1>3. Sent' /\ Ordered'
    BY <1>0, <1>1, NothingSent DEF QueryInv, Terminated
  <1>4. Leaving'
    <2>1. "catch" \notin {"close", "done"} /\ at[w] \notin {"close", "done"}
      BY <1>0
    <2> QED
      BY <1>0, <2>1, NobodyLeaves DEF QueryInv
  <1>5. Errors'
    <2>1. \A v \in Worker : at'[v] = "catch" <=> at[v] = "catch" \/ v = w
      BY <1>0 DEF ScanTypeOK
    <2>2. failed \subseteq Worker
      BY DEF QueryInv, TypeOK
    <2> QED
      BY <1>0, <2>1, <2>2 DEF QueryInv, Errors
  <1>6. Calling'
    BY <1>0, WaitedFor, AtWork DEF QueryInv, Calling
  <1> QED
    BY <1>1, <1>2, <1>3, <1>4, <1>5, <1>6 DEF QueryInv

\* The handler hands the error to the queue.
LEMMA AbortKeepsInv ==
    ASSUME QueryInv, NEW w \in Worker, AbortQueue(w)
    PROVE  QueryInv'
  <1>0. /\ ScanTypeOK /\ at[w] = "catch" /\ aborted' = TRUE /\ error' = w
        /\ at' = [at EXCEPT ![w] = "exit"]
        /\ UNCHANGED <<submitted, nextSeg, cancelled, seg, pos, queue, closed,
                       queueCancelled, active, coord, caught, delivered, failed>>
    BY DEF AbortQueue, Goto, QueryInv, ScanInv, callVars
  <1>1. w \in 1..WorkerCount /\ w # 0 /\ w \in failed
    BY <1>0, WorkerCountType DEF Worker, QueryInv, Errors
  <1>2. ScanInv' /\ Passed' = Passed
    <2>1. "exit" \in {"catch", "exit", "close", "done"} /\ cancelled' \in BOOLEAN
      BY <1>0 DEF ScanTypeOK
    <2> QED
      BY <1>0, <2>1, MoveKeepsScan DEF QueryInv
  <1>3. TypeOK'
    BY <1>0, <1>1, <1>2, WorkerCountType DEF QueryInv, TypeOK, ScanInv, Capacity
  <1>4. Sent' /\ Ordered'
    BY <1>0, <1>2, NothingSent DEF QueryInv, Terminated
  <1>5. Leaving'
    <2>1. "exit" \notin {"close", "done"} /\ at[w] \notin {"close", "done"}
      BY <1>0
    <2> QED
      BY <1>0, <2>1, NobodyLeaves DEF QueryInv
  <1>6. Errors'
    <2>1. \A v \in Worker : at'[v] = "catch" => at[v] = "catch"
      BY <1>0 DEF ScanTypeOK
    <2> QED
      BY <1>0, <1>1, <2>1 DEF QueryInv, Errors
  <1>7. Calling'
    BY <1>0, WaitedFor, AtWork DEF QueryInv, Calling
  <1> QED
    BY <1>2, <1>3, <1>4, <1>5, <1>6, <1>7 DEF QueryInv

\* WorkerExitGuard: the last worker to pass it finds itself the last.
LEMMA LeaveKeepsInv ==
    ASSUME QueryInv, NEW w \in Worker, Leave(w)
    PROVE  QueryInv'
  <1> DEFINE to == IF active = 1 THEN "close" ELSE "done"
  <1>0. /\ ScanTypeOK /\ at[w] = "exit" /\ active' = active - 1
        /\ at' = [at EXCEPT ![w] = to]
        /\ UNCHANGED <<submitted, nextSeg, cancelled, seg, pos, queue, closed, aborted,
                       queueCancelled, error, coord, caught, delivered, failed>>
    BY DEF Leave, Goto, QueryInv, ScanInv, callVars, queueVars
  <1>1. ScanInv' /\ Passed' = Passed
    <2>1. to \in {"catch", "exit", "close", "done"} /\ to \in {"close", "done"} /\ cancelled' \in BOOLEAN
      BY <1>0 DEF ScanTypeOK
    <2> QED
      BY <1>0, <2>1, MoveKeepsScan DEF QueryInv
  <1>2. /\ IsFiniteSet(Inside) /\ active = Cardinality(Inside) /\ w \in Inside
        /\ active \in Nat \ {0} /\ Cardinality(Inside \ {w}) = active - 1
        /\ IsFiniteSet(Inside \ {w})
    <2>1. IsFiniteSet(Inside)
      BY WorkersFinite, FS_Subset DEF Inside
    <2>2. w \in Inside /\ active = Cardinality(Inside)
      BY <1>0 DEF Inside, QueryInv, Leaving
    <2>3. Cardinality(Inside) \in Nat /\ Cardinality(Inside) # 0
      BY <2>1, <2>2, FS_CardinalityType, FS_EmptySet
    <2>4. IsFiniteSet(Inside \ {w}) /\ Cardinality(Inside \ {w}) = Cardinality(Inside) - 1
      BY <2>1, <2>2, FS_RemoveElement
    <2> QED
      BY <2>1, <2>2, <2>3, <2>4
  <1>3. at'[w] = to /\ \A v \in Worker : v # w => at'[v] = at[v]
    BY <1>0 DEF ScanTypeOK
  <1> HIDE DEF to
  <1>4. to \in {"close", "done"} /\ (to = "close" => active = 1)
    BY DEF to
  <1>5. Inside' = Inside \ {w}
    BY <1>3, <1>4 DEF Inside
  <1>6. TypeOK'
    <2>1. active' \in 0..WorkerCount
      BY <1>0, <1>2, WorkerCountType DEF QueryInv, TypeOK
    <2> QED
      BY <1>0, <1>1, <2>1 DEF QueryInv, TypeOK, ScanInv, Capacity
  <1>7. Sent' /\ Ordered'
    BY <1>0, <1>1, NothingSent DEF QueryInv, Terminated
  <1>8. Leaving'
    <2>1. active' = Cardinality(Inside)'
      BY <1>0, <1>2, <1>5
    <2>2. \A v \in Worker : at[v] # "close"
      BY <1>0 DEF QueryInv, Leaving
    <2>3. ~ closed'
      BY <1>0, AtWork
    <2>4. ASSUME NEW u \in Worker, at'[u] = "close", NEW v \in Worker \ {u}
          PROVE  at'[v] = "done"
      <3>1. u = w /\ active = 1
        BY <1>3, <1>4, <2>2, <2>4
      <3>2. Inside \ {w} = {}
        BY <1>2, <3>1, FS_EmptySet
      <3>3. v \notin Inside'
        BY <1>5, <3>2
      <3> QED
        BY <1>3, <2>2, <3>1, <3>3 DEF Inside
    <2> QED
      BY <2>1, <2>3, <2>4 DEF Leaving
  <1>9. Errors'
    <2>1. \A v \in Worker : at'[v] = "catch" <=> at[v] = "catch"
      BY <1>0, <1>3, <1>4
    <2>2. failed \subseteq Worker
      BY DEF QueryInv, TypeOK
    <2> QED
      BY <1>0, <2>1, <2>2 DEF QueryInv, Errors
  <1>10. Calling'
    BY <1>0, WaitedFor, AtWork DEF QueryInv, Calling
  <1> QED
    BY <1>1, <1>6, <1>7, <1>8, <1>9, <1>10 DEF QueryInv

\* The last worker closes the queue when every other one is done.
LEMMA CloseKeepsInv ==
    ASSUME QueryInv, NEW w \in Worker, CloseQueue(w)
    PROVE  QueryInv'
  <1>0. /\ ScanTypeOK /\ at[w] = "close" /\ closed' = TRUE
        /\ at' = [at EXCEPT ![w] = "done"]
        /\ UNCHANGED <<submitted, nextSeg, cancelled, seg, pos, queue, aborted, active,
                       queueCancelled, error, coord, caught, delivered, failed>>
    BY DEF CloseQueue, Goto, QueryInv, ScanInv, callVars
  <1>1. ScanInv' /\ Passed' = Passed
    <2>1. "done" \in {"catch", "exit", "close", "done"} /\ cancelled' \in BOOLEAN
      BY <1>0 DEF ScanTypeOK
    <2> QED
      BY <1>0, <2>1, MoveKeepsScan DEF QueryInv
  <1>2. at'[w] = "done" /\ \A v \in Worker : v # w => at'[v] = at[v]
    BY <1>0 DEF ScanTypeOK
  <1>3. TypeOK'
    BY <1>0, <1>1 DEF QueryInv, TypeOK, ScanInv, Capacity
  <1>4. Sent' /\ Ordered'
    BY <1>0, <1>1, NothingSent DEF QueryInv, Terminated
  <1>5. Leaving'
    <2>1. Inside' = Inside
      BY <1>0, <1>2 DEF Inside
    <2>2. \A v \in Worker : at'[v] = "done"
      BY <1>0, <1>2 DEF QueryInv, Leaving
    <2> QED
      BY <1>0, <2>1, <2>2 DEF QueryInv, Leaving
  <1>6. Errors'
    <2>1. \A v \in Worker : at'[v] = "catch" <=> at[v] = "catch"
      BY <1>0, <1>2
    <2>2. failed \subseteq Worker
      BY DEF QueryInv, TypeOK
    <2> QED
      BY <1>0, <2>1, <2>2 DEF QueryInv, Errors
  <1>7. Calling'
    BY <1>0, WaitedFor, AtWork DEF QueryInv, Calling
  <1> QED
    BY <1>1, <1>3, <1>4, <1>5, <1>6, <1>7 DEF QueryInv

-----------------------------------------------------------------------------
(* Steps of the calling thread *)

\* A task is handed to the pool.
LEMMA SubmitKeepsInv ==
    ASSUME QueryInv, Submit
    PROVE  QueryInv'
  <1> DEFINE w == submitted + 1
  <1>0. /\ ScanTypeOK /\ SubmitTask /\ coord = "submit" /\ coord' \in {"pop", "submit"}
        /\ UNCHANGED <<nextSeg, cancelled, seg, pos, queue, closed, aborted, active,
                       queueCancelled, error, caught, delivered, failed>>
    BY DEF Submit, SubmitTask, QueryInv, ScanInv, queueVars
  <1>1. ScanInv' /\ Passed' = Passed
    BY <1>0, SubmitKeepsScan DEF QueryInv
  <1>2. w \in Worker /\ at[w] = "idle" /\ at' = [at EXCEPT ![w] = "queued"]
    BY <1>0, WorkerCountType DEF SubmitTask, Goto, QueryInv, ScanInv, ScanTypeOK, SubmittedFirst, Worker
  <1>3. TypeOK'
    BY <1>0, <1>1 DEF QueryInv, TypeOK, ScanInv, Capacity
  <1>4. Sent' /\ Ordered'
    BY <1>0, <1>1, NothingSent DEF QueryInv, Terminated
  <1> HIDE DEF w
  <1>5. Leaving'
    <2>1. "queued" \notin {"close", "done"} /\ at[w] \notin {"close", "done"}
      BY <1>2
    <2> QED
      BY <1>0, <1>2, <2>1, NobodyLeaves DEF QueryInv
  <1>6. Errors'
    <2>1. \A v \in Worker : at'[v] = "catch" <=> at[v] = "catch"
      BY <1>0, <1>2 DEF ScanTypeOK
    <2>2. failed \subseteq Worker
      BY DEF QueryInv, TypeOK
    <2> QED
      BY <1>0, <2>1, <2>2 DEF QueryInv, Errors
  <1>7. Calling'
    BY <1>0 DEF QueryInv, Calling
  <1> QED
    BY <1>1, <1>3, <1>4, <1>5, <1>6, <1>7 DEF QueryInv

\* Submit fails, the tasks submitted are awaited, or the call ends.
LEMMA EndsKeepInv ==
    ASSUME QueryInv, SubmitFails \/ Abandon \/ PopEnds \/ Join
    PROVE  QueryInv'
  <1>0. /\ ScanTypeOK
        /\ UNCHANGED <<submitted, at, nextSeg, seg, pos, queue, closed, aborted, error,
                       active, delivered, failed>>
        /\ cancelled' \in BOOLEAN /\ (cancelled => cancelled')
        /\ queueCancelled' \in BOOLEAN /\ (queueCancelled => queueCancelled')
        /\ coord # "left"
        /\ coord' \in {"abandon", "threw", "join", "returned"}
    <2>1. ScanTypeOK /\ cancelled \in BOOLEAN /\ queueCancelled \in BOOLEAN
      BY DEF QueryInv, ScanInv, ScanTypeOK, TypeOK
    <2>2. UNCHANGED <<submitted, at, nextSeg, seg, pos, queue, closed, aborted, error,
                      active, delivered, failed>>
      BY DEF SubmitFails, Abandon, PopEnds, Join, queueVars, scanVars
    <2>3. cancelled' = cancelled \/ cancelled' = TRUE \/ cancelled' = (cancelled \/ caught # 0)
      BY DEF SubmitFails, Abandon, PopEnds, Join, scanVars
    <2>4. queueCancelled' = queueCancelled \/ queueCancelled' = TRUE
      BY DEF SubmitFails, Abandon, PopEnds, Join, queueVars
    <2>5. coord # "left" /\ coord' \in {"abandon", "threw", "join", "returned"}
      BY DEF SubmitFails, Abandon, PopEnds, Join
    <2> QED
      BY <2>1, <2>2, <2>3, <2>4, <2>5
  <1>1. ScanInv' /\ Passed' = Passed
    BY <1>0, CancelKeepsScan DEF QueryInv
  <1>2. caught' \in failed \cup {0}
    BY DEF SubmitFails, Abandon, PopEnds, Join, callVars, QueryInv, Errors, Calling
  <1>3. TypeOK'
    <2>1. caught' \in 0..WorkerCount
      BY <1>2, WorkerCountType DEF QueryInv, TypeOK, Worker
    <2> QED
      BY <1>0, <1>1, <2>1 DEF QueryInv, TypeOK, ScanInv, Capacity
  <1>4. Sent' /\ Ordered'
    BY <1>0, <1>1, NothingSent DEF QueryInv, Terminated
  <1>5. Leaving'
    BY <1>0 DEF QueryInv, Leaving, Inside
  <1>6. Errors'
    <2>1. cancelled' => cancelled \/ queueCancelled' \/ caught # 0
      BY DEF SubmitFails, Abandon, PopEnds, Join, scanVars
    <2>2. caught # 0 => failed # {}
      BY DEF QueryInv, Calling
    <2> QED
      BY <1>0, <2>1, <2>2 DEF QueryInv, Errors
  <1>7. Calling'
    <2>1. CASE SubmitFails
      BY <1>0, <1>2, <2>1 DEF SubmitFails, QueryInv, Calling
    <2>2. CASE Abandon
      BY <1>0, <1>2, <2>2 DEF Abandon, Joined, queueVars, QueryInv, Calling
    <2>3. CASE PopEnds
      <3>1. ~ queueCancelled /\ queueCancelled' = queueCancelled /\ coord' = "join" /\ caught' = error
            /\ queue = <<>> /\ Terminated
        BY <2>3 DEF PopEnds, queueVars, QueryInv, Calling
      <3>2. error = 0 => closed
        BY <3>1 DEF Terminated, QueryInv, Errors
      <3> QED
        BY <1>0, <1>2, <3>1, <3>2 DEF Calling
    <2>4. CASE Join
      BY <1>0, <1>2, <2>4 DEF Join, Joined, queueVars, QueryInv, Calling
    <2> QED
      BY <2>1, <2>2, <2>3, <2>4
  <1> QED
    BY <1>1, <1>3, <1>4, <1>5, <1>6, <1>7 DEF QueryInv

\* The head of a queue, and what follows it.
LEMMA HeadAndTail ==
    ASSUME NEW s \in Seq(Batches), s # <<>>
    PROVE  /\ Head(s) = s[1] /\ 1 \in DOMAIN s /\ Len(Tail(s)) <= Len(s)
           /\ \A p \in DOMAIN Tail(s) : p \in Nat \ {0} /\ p + 1 \in DOMAIN s /\ Tail(s)[p] = s[p + 1]
           /\ \A q \in DOMAIN s : q # 1 => q - 1 \in DOMAIN Tail(s) /\ Tail(s)[q - 1] = s[q]
           /\ DOMAIN s = 1..Len(s) /\ Len(s) \in Nat
  OBVIOUS

\* The consumer gets the oldest batch, after all that precede it in its segment.
LEMMA PopKeepsInv ==
    ASSUME QueryInv, Pop
    PROVE  QueryInv'
  <1> DEFINE b == Head(queue)
             rest == Tail(queue)
  <1>0. /\ ScanTypeOK /\ coord = "pop" /\ queue # <<>>
        /\ queue' = rest /\ delivered' = Append(delivered, b)
        /\ UNCHANGED <<submitted, at, nextSeg, cancelled, seg, pos, closed, aborted,
                       queueCancelled, error, active, coord, caught, failed>>
    BY DEF Pop, QueryInv, ScanInv, scanVars
  <1>1. queue \in Seq(Batches) /\ delivered \in Seq(Batches) /\ Len(queue) <= Capacity
    BY DEF QueryInv, TypeOK
  <1>2. /\ b \in Batches /\ rest \in Seq(Batches)
        /\ Members(queue) = Members(rest) \cup {b}
        /\ Distinct(rest) /\ b \notin Members(rest)
    BY <1>0, <1>1, TakeHead DEF QueryInv, Sent
  <1>3. b \notin Members(delivered)
    BY <1>2 DEF QueryInv, Sent
  <1>4. /\ Members(Append(delivered, b)) = Members(delivered) \cup {b}
        /\ Distinct(Append(delivered, b))
    BY <1>1, <1>2, <1>3, AppendMember DEF QueryInv, Sent
  <1>5. Len(rest) <= Capacity /\ Append(delivered, b) \in Seq(Batches) /\ Capacity' = Capacity
    <2>1. Len(rest) <= Len(queue) /\ Len(rest) \in Nat /\ Len(queue) \in Nat
      BY <1>0, <1>1, <1>2, HeadAndTail
    <2> QED
      BY <1>1, <1>2, <2>1, CapacityType DEF Capacity
  <1>10. ScanInv' /\ Passed' = Passed
    BY <1>0, CancelKeepsScan DEF QueryInv, ScanTypeOK
  <1>11. TypeOK'
    BY <1>0, <1>2, <1>5, <1>10 DEF QueryInv, TypeOK, ScanInv
  <1>12. Members(queue)' = Members(rest) /\ Members(delivered)' = Members(delivered) \cup {b}
         /\ Handed' = Handed
    <2>1. Members(queue)' = Members(rest)
      BY <1>0 DEF Members
    <2>2. Members(delivered)' = Members(Append(delivered, b))
      BY <1>0 DEF Members
    <2> QED
      BY <1>2, <1>4, <2>1, <2>2 DEF Handed
  <1>13. Sent'
    BY <1>0, <1>2, <1>3, <1>4, <1>10, <1>12 DEF QueryInv, Sent, Terminated
  <1>14. Ordered'
    <2>1. /\ Head(queue) = queue[1] /\ 1 \in DOMAIN queue /\ DOMAIN queue = 1..Len(queue)
          /\ Len(queue) \in Nat
          /\ \A p \in DOMAIN rest : p \in Nat \ {0} /\ p + 1 \in DOMAIN queue /\ rest[p] = queue[p + 1]
          /\ \A q \in DOMAIN queue : q # 1 => q - 1 \in DOMAIN rest /\ rest[q - 1] = queue[q]
      BY <1>0, <1>1, HeadAndTail
    <2>2. \A p \in DOMAIN queue : \A i \in 1..queue[p][2] - 1 :
            <<queue[p][1], i>> \in Members(delivered) \cup {queue[q] : q \in 1..p - 1}
      BY <1>0 DEF QueryInv, Ordered
    <2>3. \A i \in 1..b[2] - 1 : <<b[1], i>> \in Members(delivered)
      BY <2>1, <2>2
    <2>4. ASSUME NEW c \in Members(delivered) \cup {b}, NEW i \in 1..c[2] - 1
          PROVE  <<c[1], i>> \in Members(delivered) \cup {b}
      BY <2>3 DEF QueryInv, Ordered
    <2>5. ASSUME NEW p \in DOMAIN rest, NEW i \in 1..rest[p][2] - 1
          PROVE  <<rest[p][1], i>> \in Members(delivered) \cup {b} \cup {rest[q] : q \in 1..p - 1}
      <3>1. p \in Nat \ {0} /\ p + 1 \in DOMAIN queue /\ rest[p] = queue[p + 1]
        BY <2>1
      <3>2. <<rest[p][1], i>> \in Members(delivered) \cup {queue[q] : q \in 1..(p + 1) - 1}
        BY <2>2, <3>1
      <3>3. {queue[q] : q \in 1..(p + 1) - 1} \subseteq {b} \cup {rest[q] : q \in 1..p - 1}
        <4> SUFFICES ASSUME NEW q \in 1..(p + 1) - 1
                     PROVE  queue[q] \in {b} \cup {rest[r] : r \in 1..p - 1}
          OBVIOUS
        <4>1. q \in DOMAIN queue
          BY <2>1, <3>1
        <4>2. CASE q = 1
          BY <2>1, <4>2
        <4>3. CASE q # 1
          <5>1. q - 1 \in 1..p - 1 /\ rest[q - 1] = queue[q]
            BY <2>1, <3>1, <4>1, <4>3
          <5> QED
            BY <5>1
        <4> QED
          BY <4>2, <4>3
      <3> QED
        BY <3>2, <3>3
    <2> HIDE DEF rest, b
    <2>6. \A p \in DOMAIN queue' : \A i \in 1..queue'[p][2] - 1 :
            <<queue'[p][1], i>> \in Members(delivered)' \cup {queue'[q] : q \in 1..p - 1}
      BY <1>0, <1>12, <2>5
    <2> QED
      BY <1>12, <2>4, <2>6 DEF Ordered
  <1>15. Leaving'
    BY <1>0 DEF QueryInv, Leaving, Inside
  <1>16. Errors'
    BY <1>0 DEF QueryInv, Errors
  <1>17. Calling'
    BY <1>0 DEF QueryInv, Calling
  <1> QED
    BY <1>10, <1>11, <1>13, <1>14, <1>15, <1>16, <1>17 DEF QueryInv

\* The consumer throws: the call is over, with the batch.
LEMMA ThrowKeepsInv ==
    ASSUME QueryInv, ConsumerThrows
    PROVE  QueryInv'
  <1> DEFINE rest == Tail(queue)
  <1>0. /\ ScanTypeOK /\ coord = "pop" /\ queue # <<>> /\ queue' = rest /\ coord' = "left"
        /\ UNCHANGED <<submitted, at, nextSeg, cancelled, seg, pos, closed, aborted,
                       queueCancelled, error, active, caught, delivered, failed>>
    BY DEF ConsumerThrows, QueryInv, ScanInv, scanVars
  <1>1. queue \in Seq(Batches) /\ Len(queue) <= Capacity
    BY DEF QueryInv, TypeOK
  <1>2. rest \in Seq(Batches) /\ Members(rest) \subseteq Members(queue) /\ Distinct(rest)
    BY <1>0, <1>1, TakeHead DEF QueryInv, Sent
  <1>3. Len(rest) <= Capacity /\ Capacity' = Capacity
    <2>1. Len(rest) <= Len(queue) /\ Len(rest) \in Nat /\ Len(queue) \in Nat
      BY <1>0, <1>1, <1>2, HeadAndTail
    <2> QED
      BY <1>1, <2>1, CapacityType DEF Capacity
  <1>4. ScanInv' /\ Passed' = Passed
    BY <1>0, CancelKeepsScan DEF QueryInv, ScanTypeOK
  <1>5. TypeOK'
    BY <1>0, <1>2, <1>3, <1>4 DEF QueryInv, TypeOK, ScanInv
  <1>6. Members(queue)' = Members(rest) /\ Members(delivered)' = Members(delivered)
    BY <1>0 DEF Members
  <1>7. Sent'
    BY <1>0, <1>2, <1>4, <1>6 DEF QueryInv, Sent, Handed, Distinct
  <1>8. Ordered'
    BY <1>0, <1>6 DEF QueryInv, Ordered
  <1>9. Leaving'
    BY <1>0 DEF QueryInv, Leaving, Inside
  <1>10. Errors'
    BY <1>0 DEF QueryInv, Errors
  <1>11. Calling'
    BY <1>0 DEF QueryInv, Calling
  <1> QED
    BY <1>4, <1>5, <1>7, <1>8, <1>9, <1>10, <1>11 DEF QueryInv

\* A stuttering step.
LEMMA StutterKeepsInv ==
    ASSUME QueryInv, UNCHANGED vars
    PROVE  QueryInv'
  <1>1. UNCHANGED <<submitted, at, nextSeg, cancelled, seg, pos, queue, closed, aborted,
                    queueCancelled, error, active, coord, caught, delivered, failed>>
    BY DEF vars, scanVars, queueVars, callVars
  <1>2. ScanInv' /\ Passed' = Passed
    BY <1>1, CancelKeepsScan DEF QueryInv, ScanInv, ScanTypeOK
  <1>3. TypeOK'
    BY <1>1, <1>2 DEF QueryInv, TypeOK, ScanInv, Capacity
  <1>4. Sent' /\ Ordered'
    BY <1>1, <1>2, NothingSent DEF QueryInv, Terminated
  <1>5. Leaving' /\ Errors' /\ Calling'
    BY <1>1 DEF QueryInv, Leaving, Inside, Errors, Calling, Joined
  <1> QED
    BY <1>2, <1>3, <1>4, <1>5 DEF QueryInv

\* Every step keeps the invariant.
LEMMA NextQueryInv == QueryInv /\ [Next]_vars => QueryInv'
  <1> SUFFICES ASSUME QueryInv, [Next]_vars PROVE QueryInv'
    OBVIOUS
  <1>1. ASSUME NEW w \in Worker, WorkerStep(w) PROVE QueryInv'
    BY <1>1, ScansKeepInv, PushKeepsInv, RefusalKeepsInv, AbortKeepsInv, LeaveKeepsInv,
       CloseKeepsInv DEF WorkerStep
  <1>2. ASSUME NEW w \in Worker, WorkerFails(w) PROVE QueryInv'
    BY <1>2, FailureKeepsInv
  <1>3. CASE CallStep
    BY <1>3, SubmitKeepsInv, EndsKeepInv, PopKeepsInv DEF CallStep
  <1>4. CASE SubmitFails
    BY <1>4, EndsKeepInv
  <1>5. CASE ConsumerThrows
    BY <1>5, ThrowKeepsInv
  <1>6. CASE Finished \/ UNCHANGED vars
    BY <1>6, StutterKeepsInv DEF Finished
  <1> QED
    BY <1>1, <1>2, <1>3, <1>4, <1>5, <1>6 DEF Next

\* The invariant holds throughout.
LEMMA QueryInvHolds == Spec => []QueryInv
  BY InitQueryInv, NextQueryInv, PTL DEF Spec

-----------------------------------------------------------------------------
(* What the invariant means for the caller *)

\* Type correctness of a query.
THEOREM QueryTypes == Spec => []TypeOK
  <1>1. QueryInv => TypeOK
    BY DEF QueryInv
  <1> QED
    BY <1>1, QueryInvHolds, PTL

\* ExecuteQuery neither returns nor throws an error of its own before every worker
\* has left its stack frame.
THEOREM NobodyOnDeadFrame == Spec => []WorkersInsideFrame
  <1>1. QueryInv => WorkersInsideFrame
    BY DEF QueryInv, Calling, WorkersInsideFrame
  <1> QED
    BY <1>1, QueryInvHolds, PTL

\* No batch is lost between two places or in two of them.
THEOREM BatchesOnce == Spec => []EachBatchOnce
  <1>1. ASSUME QueryInv PROVE EachBatchOnce
    <2>1. queue \in Seq(Batches) /\ delivered \in Seq(Batches)
      BY <1>1 DEF QueryInv, TypeOK
    <2>2. Distinct(delivered \o queue) /\ Members(delivered \o queue) = Handed
      BY <1>1, <2>1, ConcatMembers DEF QueryInv, Sent, Handed
    <2>3. \A w \in Worker : at[w] = "emit" => <<seg[w], pos[w]>> \notin Handed
      BY <1>1, HeldNotPassed DEF QueryInv, Sent
    <2>4. Seen(delivered \o queue) \cap InHand = {}
      BY <2>2, <2>3 DEF Seen, Members, InHand
    <2>5. ClaimedOnce
      BY <1>1 DEF QueryInv, ScanInv
    <2> QED
      BY <2>2, <2>4, <2>5 DEF EachBatchOnce, Distinct, ClaimedOnce
  <1> QED
    BY <1>1, QueryInvHolds, PTL

\* A query that returns has delivered everything and no worker has failed; one that
\* throws rethrows the error of a worker.
LEMMA ErrorsReach ==
    ASSUME QueryInv
    PROVE  ErrorsReachCaller
  <1>1. ASSUME coord = "returned" PROVE failed = {} /\ Seen(delivered) = Batches
    <2>1. caught = 0 /\ closed /\ queue = <<>> /\ error = 0 /\ ~ queueCancelled
      BY <1>1 DEF QueryInv, Calling
    <2>2. \A w \in Worker : at[w] = "done"
      BY <2>1 DEF QueryInv, Leaving
    <2>3. failed = {}
      BY <2>1, <2>2 DEF QueryInv, Errors, TypeOK
    <2>4. ~ cancelled
      BY <2>1, <2>3 DEF QueryInv, Errors
    <2>5. Passed = Batches
      BY <2>2, <2>4, AllPassed DEF QueryInv
    <2>6. Members(queue) = {}
      BY <2>1 DEF Members
    <2>7. Members(delivered) = Batches
      BY <1>1, <2>4, <2>5, <2>6 DEF QueryInv, Sent, Handed
    <2> QED
      BY <2>3, <2>7 DEF Seen, Members
  <1>2. coord = "threw" /\ ~ queueCancelled => caught \in failed
    BY DEF QueryInv, Calling
  <1> QED
    BY <1>1, <1>2 DEF ErrorsReachCaller

\* A failure always reaches the caller, and no failure is invented.
THEOREM FailuresAreReported == Spec => []ErrorsReachCaller
  BY ErrorsReach, QueryInvHolds, PTL

\* The end of the results is announced when every worker is done.
THEOREM EndIsLast == Spec => []CloseIsLast
  <1>1. QueryInv => CloseIsLast
    BY DEF QueryInv, Leaving, CloseIsLast
  <1> QED
    BY <1>1, QueryInvHolds, PTL

-----------------------------------------------------------------------------
(* Refinement *)

\* Both modules speak of the same batches.
LEMMA SameBatches == Delivery!Batches = Batches
  BY WorkersAssumption DEF Delivery!Batches, Batches, Segments

\* A step that gives the consumer nothing and does not end the call is hidden.
LEMMA Hidden ==
    ASSUME UNCHANGED delivered, outcome' = outcome
    PROVE  UNCHANGED <<Seen(delivered), outcome>>
  BY DEF Seen

\* Every step is a step of QueryDelivery or hidden from the caller.
LEMMA StepDelivers ==
    ASSUME QueryInv, ErrorsReachCaller', [Next]_vars
    PROVE  [Delivery!Next]_<<Seen(delivered), outcome>>
  <1> USE DEF outcome, Frame
  <1>1. ASSUME NEW w \in Worker, WorkerStep(w) \/ WorkerFails(w)
        PROVE  UNCHANGED <<Seen(delivered), outcome>>
    <2>1. UNCHANGED <<delivered, coord>>
      BY <1>1 DEF WorkerStep, WorkerScans, PushBatch, PushRefused, AbortQueue, Leave, CloseQueue,
                  WorkerFails, callVars
    <2> QED
      BY <2>1, Hidden
  <1>2. CASE Submit \/ SubmitFails \/ PopEnds
    <2>1. UNCHANGED delivered /\ coord \in {"submit", "pop"} /\ coord' \in {"submit", "pop", "abandon", "join"}
      BY <1>2 DEF Submit, SubmitFails, PopEnds
    <2> QED
      BY <2>1, Hidden
  <1>3. CASE Abandon \/ ConsumerThrows \/ (Join /\ caught # 0)
    <2>1. UNCHANGED delivered /\ coord \in {"abandon", "pop", "join"} /\ coord' \in {"threw", "left"}
      BY <1>3 DEF Abandon, ConsumerThrows, Join, callVars
    <2>2. outcome = "running" /\ outcome' = "threw" /\ Seen(delivered)' = Seen(delivered)
      BY <2>1 DEF Seen
    <2>3. Delivery!Throw
      BY <2>2 DEF Delivery!Throw
    <2> QED
      BY <2>3 DEF Delivery!Next
  <1>4. CASE Join /\ caught = 0
    <2>1. UNCHANGED delivered /\ coord = "join" /\ coord' = "returned"
      BY <1>4 DEF Join, callVars
    <2>2. outcome = "running" /\ outcome' = "returned" /\ Seen(delivered)' = Seen(delivered)
      BY <2>1 DEF Seen
    <2>3. Seen(delivered)' = Batches
      BY <2>1 DEF ErrorsReachCaller, Batches, Segments
    <2>4. Delivery!Return
      BY <2>2, <2>3, SameBatches DEF Delivery!Return
    <2> QED
      BY <2>4 DEF Delivery!Next
  <1>5. CASE Pop
    <2> DEFINE b == Head(queue)
    <2>1. coord = "pop" /\ coord' = coord /\ queue # <<>> /\ delivered' = Append(delivered, b)
      BY <1>5 DEF Pop
    <2>2. queue \in Seq(Batches) /\ delivered \in Seq(Batches)
      BY DEF QueryInv, TypeOK
    <2>3. b \in Batches /\ b \notin Members(delivered)
      BY <2>1, <2>2, TakeHead DEF QueryInv, Sent
    <2>4. b = queue[1] /\ 1 \in DOMAIN queue
      BY <2>1, <2>2, HeadAndTail
    <2>5. \A i \in 1..b[2] - 1 : <<b[1], i>> \in Members(delivered)
      BY <2>1, <2>4 DEF QueryInv, Ordered
    <2>6. Members(Append(delivered, b)) = Members(delivered) \cup {b}
      BY <2>2, <2>3, AppendMember
    <2>7. Seen(delivered)' = Seen(delivered) \cup {b} /\ Seen(delivered) = Members(delivered)
      BY <2>1, <2>6 DEF Seen, Members
    <2>8. outcome = "running" /\ outcome' = outcome
      BY <2>1
    <2> HIDE DEF b
    <2>9. Delivery!Deliver(b)
      <3> HIDE DEF outcome
      <3> QED
        BY <2>3, <2>5, <2>7, <2>8 DEF Delivery!Deliver
    <2> QED
      BY <2>3, <2>9, SameBatches DEF Delivery!Next
  <1>6. CASE Finished \/ UNCHANGED vars
    <2>1. UNCHANGED <<delivered, coord>>
      BY <1>6 DEF Finished, vars, callVars
    <2> QED
      BY <2>1, Hidden
  <1> QED
    BY <1>1, <1>2, <1>3, <1>4, <1>5, <1>6 DEF Next, CallStep

\* ExecuteQuery implements QueryDelivery.
THEOREM QueryIsDelivery == Spec => Delivers
  <1>1. Init => Delivery!Init
    <2> SUFFICES ASSUME Init PROVE Delivery!Init
      OBVIOUS
    <2>1. delivered = <<>> /\ coord = "submit"
      BY DEF Init
    <2>2. Seen(delivered) = {} /\ outcome = "running"
      BY <2>1 DEF Seen, outcome, Frame
    <2> QED
      BY <2>2 DEF Delivery!Init
  <1>2. QueryInv /\ ErrorsReachCaller' /\ [Next]_vars => [Delivery!Next]_<<Seen(delivered), outcome>>
    BY StepDelivers
  <1> QED
    BY <1>1, <1>2, QueryInvHolds, FailuresAreReported, PTL DEF Spec, Delivers, Delivery!Spec
=============================================================================
