-------------------------- MODULE ScanWorkersProofs --------------------------
(***************************************************************************)
(* Lemmas about the workers of a parallel query, for any number of         *)
(* workers, segments and batches: which batches have left the workers, and *)
(* how each step of the scan changes that.                                 *)
(***************************************************************************)
EXTENDS ScanWorkers, FiniteSetTheorems, TLAPS

-----------------------------------------------------------------------------
(* Queues *)

Members(s)  == {s[i] : i \in DOMAIN s}
Distinct(s) == \A i, j \in DOMAIN s : i # j => s[i] # s[j]

\* Append adds a member, and another one keeps the members distinct.
LEMMA AppendMember ==
    ASSUME NEW S, NEW s \in Seq(S), NEW x \in S
    PROVE  /\ Members(Append(s, x)) = Members(s) \cup {x}
           /\ Distinct(s) /\ x \notin Members(s) => Distinct(Append(s, x))
  <1>1. /\ DOMAIN s = 1..Len(s) /\ Len(s) \in Nat
        /\ DOMAIN Append(s, x) = 1..(Len(s) + 1)
        /\ \A i \in DOMAIN s : Append(s, x)[i] = s[i]
        /\ Append(s, x)[Len(s) + 1] = x
    OBVIOUS
  <1>2. Members(Append(s, x)) \subseteq Members(s) \cup {x}
    BY <1>1 DEF Members
  <1>3. Members(s) \subseteq Members(Append(s, x))
    BY <1>1 DEF Members
  <1>4. x \in Members(Append(s, x))
    BY <1>1 DEF Members
  <1>5. Distinct(s) /\ x \notin Members(s) => Distinct(Append(s, x))
    BY <1>1 DEF Members, Distinct
  <1> QED
    BY <1>2, <1>3, <1>4, <1>5

\* Taking the head off a queue without repetitions takes one member.
LEMMA TakeHead ==
    ASSUME NEW S, NEW s \in Seq(S), s # <<>>
    PROVE  /\ Head(s) \in S /\ Tail(s) \in Seq(S)
           /\ Members(s) = Members(Tail(s)) \cup {Head(s)}
           /\ Distinct(s) => Distinct(Tail(s)) /\ Head(s) \notin Members(Tail(s))
  <1>1. /\ DOMAIN s = 1..Len(s) /\ Len(s) \in Nat \ {0}
        /\ DOMAIN Tail(s) = 1..(Len(s) - 1)
        /\ \A i \in DOMAIN Tail(s) : Tail(s)[i] = s[i + 1]
        /\ Head(s) = s[1] /\ Head(s) \in S /\ Tail(s) \in Seq(S)
    OBVIOUS
  <1>2. \A i \in DOMAIN s : i = 1 \/ (i - 1 \in DOMAIN Tail(s) /\ Tail(s)[i - 1] = s[i])
    BY <1>1
  <1>3. Members(s) \subseteq Members(Tail(s)) \cup {Head(s)}
    <2> SUFFICES ASSUME NEW i \in DOMAIN s PROVE s[i] \in Members(Tail(s)) \cup {Head(s)}
      BY DEF Members
    <2>1. CASE i = 1
      BY <1>1, <2>1
    <2>2. CASE i # 1
      <3>1. i - 1 \in DOMAIN Tail(s) /\ Tail(s)[i - 1] = s[i]
        BY <1>2, <2>2
      <3> QED
        BY <3>1 DEF Members
    <2> QED
      BY <2>1, <2>2
  <1>4. Members(Tail(s)) \subseteq Members(s)
    <2>1. \A i \in DOMAIN Tail(s) : i + 1 \in DOMAIN s
      BY <1>1
    <2> QED
      BY <1>1, <2>1 DEF Members
  <1>5. Head(s) \in Members(s)
    BY <1>1 DEF Members
  <1>6. ASSUME Distinct(s) PROVE Distinct(Tail(s))
    <2>1. \A i \in DOMAIN Tail(s) : i + 1 \in DOMAIN s /\ i \in Int
      BY <1>1
    <2> SUFFICES ASSUME NEW i \in DOMAIN Tail(s), NEW j \in DOMAIN Tail(s), i # j
                 PROVE  Tail(s)[i] # Tail(s)[j]
      BY DEF Distinct
    <2>2. i + 1 # j + 1 /\ i + 1 \in DOMAIN s /\ j + 1 \in DOMAIN s
      BY <2>1
    <2>3. s[i + 1] # s[j + 1]
      BY <1>6, <2>2 DEF Distinct
    <2> QED
      BY <1>1, <2>3
  <1>7. ASSUME Distinct(s) PROVE Head(s) \notin Members(Tail(s))
    <2>1. \A i \in DOMAIN Tail(s) : i + 1 \in DOMAIN s /\ i + 1 # 1
      BY <1>1
    <2>2. \A i \in DOMAIN Tail(s) : Tail(s)[i] # Head(s)
      BY <1>1, <1>7, <2>1 DEF Distinct
    <2> QED
      BY <2>2 DEF Members
  <1> QED
    BY <1>1, <1>3, <1>4, <1>5, <1>6, <1>7

\* Two queues in a row have the members of both.
LEMMA ConcatMembers ==
    ASSUME NEW S, NEW s \in Seq(S), NEW t \in Seq(S)
    PROVE  /\ s \o t \in Seq(S)
           /\ Members(s \o t) = Members(s) \cup Members(t)
           /\ Distinct(s) /\ Distinct(t) /\ Members(s) \cap Members(t) = {} => Distinct(s \o t)
  <1>1. /\ DOMAIN s = 1..Len(s) /\ Len(s) \in Nat
        /\ DOMAIN t = 1..Len(t) /\ Len(t) \in Nat
        /\ DOMAIN (s \o t) = 1..(Len(s) + Len(t))
        /\ s \o t \in Seq(S)
    OBVIOUS
  <1>2. /\ \A i \in DOMAIN s : (s \o t)[i] = s[i]
        /\ \A i \in DOMAIN t : (s \o t)[Len(s) + i] = t[i]
    BY <1>1
  <1>3. \A i \in DOMAIN (s \o t) :
          \/ i \in DOMAIN s /\ (s \o t)[i] = s[i]
          \/ i > Len(s) /\ i - Len(s) \in DOMAIN t /\ (s \o t)[i] = t[i - Len(s)]
    BY <1>1
  <1>4. Members(s \o t) \subseteq Members(s) \cup Members(t)
    BY <1>3 DEF Members
  <1>5. Members(s) \subseteq Members(s \o t)
    BY <1>1, <1>2 DEF Members
  <1>6. Members(t) \subseteq Members(s \o t)
    <2>1. \A i \in DOMAIN t : Len(s) + i \in DOMAIN (s \o t)
      BY <1>1
    <2> QED
      BY <1>2, <2>1 DEF Members
  <1>7. ASSUME Distinct(s), Distinct(t), Members(s) \cap Members(t) = {}
        PROVE  Distinct(s \o t)
    <2> SUFFICES ASSUME NEW i \in DOMAIN (s \o t), NEW j \in DOMAIN (s \o t), i # j,
                        (s \o t)[i] = (s \o t)[j]
                 PROVE  FALSE
      BY DEF Distinct
    <2>1. CASE i \in DOMAIN s /\ j \in DOMAIN s
      BY <1>2, <1>7, <2>1 DEF Distinct
    <2>2. CASE i \in DOMAIN s /\ j \notin DOMAIN s
      <3>1. (s \o t)[i] \in Members(s)
        BY <1>2, <2>2 DEF Members
      <3>2. (s \o t)[j] \in Members(t)
        BY <1>3, <2>2 DEF Members
      <3> QED
        BY <1>7, <3>1, <3>2
    <2>3. CASE i \notin DOMAIN s /\ j \in DOMAIN s
      <3>1. (s \o t)[i] \in Members(t)
        BY <1>3, <2>3 DEF Members
      <3>2. (s \o t)[j] \in Members(s)
        BY <1>2, <2>3 DEF Members
      <3> QED
        BY <1>7, <3>1, <3>2
    <2>4. CASE i \notin DOMAIN s /\ j \notin DOMAIN s
      <3>1. /\ i - Len(s) \in DOMAIN t /\ j - Len(s) \in DOMAIN t
            /\ t[i - Len(s)] = t[j - Len(s)]
        BY <1>3, <2>4
      <3>2. i - Len(s) # j - Len(s)
        BY <1>1
      <3> QED
        BY <1>7, <3>1, <3>2 DEF Distinct
    <2> QED
      BY <2>1, <2>2, <2>3, <2>4
  <1> QED
    BY <1>1, <1>4, <1>5, <1>6, <1>7

\* There is at least one worker.
LEMMA WorkerCountType == WorkerCount \in Nat \ {0} /\ Segments \in Nat
  <1>1. Segments \in Nat
    BY WorkersAssumption DEF Segments
  <1>2. Greatest(1, Least(MaxWorkers, PoolSize)) \in Nat \ {0}
    BY WorkersAssumption DEF Greatest, Least
  <1>3. \A c \in Nat \ {0} : Greatest(1, Least(c, Segments)) \in Nat \ {0}
    BY <1>1 DEF Greatest, Least
  <1> QED
    BY <1>1, <1>2, <1>3 DEF WorkerCount

\* Every segment has a number of batches.
LEMMA BatchesInType == \A s \in 1..Segments : BatchesIn[s] \in Nat
  BY WorkersAssumption DEF Segments

-----------------------------------------------------------------------------
(* The invariant *)

\* Tasks are submitted in the order of the workers.
SubmittedFirst == \A w \in Worker : w <= submitted <=> at[w] # "idle"

\* Where a worker is, it has a segment or none, and has read that many batches.
Cursors ==
    \A w \in Worker :
        /\ at[w] \in {"read", "emit"} => seg[w] # 0
        /\ at[w] = "claim" => seg[w] = 0
        /\ at[w] = "emit" => pos[w] > 0
        /\ seg[w] <= nextSeg
        /\ pos[w] <= (IF seg[w] = 0 THEN 0 ELSE BatchesIn[seg[w]])

\* No two workers have one segment.
ClaimedOnce == \A v, w \in Worker : v # w /\ seg[v] # 0 => seg[v] # seg[w]

\* A worker leaves because the scan was cancelled or because nothing is left of it.
LeavesForAReason ==
    \A w \in Worker :
        /\ at[w] = "catch" => cancelled
        /\ at[w] \in {"exit", "close", "done"} => cancelled \/ (nextSeg >= Segments /\ seg[w] = 0)

ScanInv == ScanTypeOK /\ SubmittedFirst /\ Cursors /\ ClaimedOnce /\ LeavesForAReason

\* The batches that have left the workers: of claimed segments, before the place
\* where a worker reads.
Before(w, b) == seg[w] = b[1] => b[2] <= pos[w] /\ (at[w] = "emit" => b[2] < pos[w])
Passed == {b \in Batches : b[1] <= nextSeg /\ \A w \in Worker : Before(w, b)}

\* A batch is a segment and a number.
LEMMA BatchFacts ==
    ASSUME NEW b \in Batches
    PROVE  b[1] \in 1..Segments /\ b[2] \in 1..BatchesIn[b[1]] /\ b = <<b[1], b[2]>>
  BY DEF Batches

\* The invariant, in parts.
LEMMA ScanParts == ScanInv <=> ScanTypeOK /\ SubmittedFirst /\ Cursors /\ ClaimedOnce /\ LeavesForAReason
  BY DEF ScanInv

\* No batch has left a worker in the initial state.
LEMMA InitScanInv == ScanInit => ScanInv /\ Passed = {}
  <1> SUFFICES ASSUME ScanInit PROVE ScanInv /\ Passed = {}
    OBVIOUS
  <1>0. /\ submitted = 0 /\ nextSeg = 0 /\ cancelled = FALSE
        /\ at = [w \in Worker |-> "idle"]
        /\ seg = [w \in Worker |-> 0]
        /\ pos = [w \in Worker |-> 0]
    BY DEF ScanInit
  <1>1. WorkerCount \in Nat /\ Segments \in Nat /\ \A w \in Worker : w \in Nat \ {0}
    BY WorkerCountType DEF Worker
  <1>2. ScanTypeOK
    <2>1. submitted \in 0..WorkerCount /\ nextSeg \in Nat
      BY <1>0, <1>1
    <2>2. at \in [Worker -> {"idle", "queued", "scan", "claim", "read", "emit", "catch",
                             "exit", "close", "done"}]
      BY <1>0
    <2>3. seg \in [Worker -> 0..Segments] /\ pos \in [Worker -> Nat]
      BY <1>0, <1>1
    <2>4. cancelled \in BOOLEAN
      BY <1>0
    <2> QED
      BY <2>1, <2>2, <2>3, <2>4 DEF ScanTypeOK
  <1>3. SubmittedFirst /\ Cursors /\ ClaimedOnce /\ LeavesForAReason
    BY <1>0, <1>1 DEF SubmittedFirst, Cursors, ClaimedOnce, LeavesForAReason
  <1>4. \A b \in Batches : ~ (b[1] <= nextSeg)
    BY <1>0, <1>1, BatchFacts
  <1>5. Passed = {}
    BY <1>4 DEF Passed
  <1> QED
    BY <1>2, <1>3, <1>5 DEF ScanInv

-----------------------------------------------------------------------------
(* Steps of the scan *)

\* A step that only moves a worker between places where it holds no batch.
LEMMA MovesBetween ==
    ASSUME ScanInv, NEW w \in Worker, at[w] # "emit",
           NEW to, to # "emit", at' = [at EXCEPT ![w] = to],
           UNCHANGED <<nextSeg, seg, pos>>
    PROVE  Passed' = Passed
  <1>1. \A v \in Worker, b \in Batches : Before(v, b)' <=> Before(v, b)
    BY DEF Before, ScanInv, ScanTypeOK
  <1> QED
    BY <1>1 DEF Passed

\* A task is submitted: no batch moves.
LEMMA SubmitKeepsScan ==
    ASSUME ScanInv, SubmitTask
    PROVE  ScanInv' /\ Passed' = Passed
  <1> DEFINE w == submitted + 1
  <1>1. w \in Worker /\ at[w] = "idle" /\ at' = [at EXCEPT ![w] = "queued"] /\ submitted' = w
    BY WorkerCountType DEF SubmitTask, Goto, ScanInv, ScanTypeOK, SubmittedFirst, Worker
  <1>2. UNCHANGED <<nextSeg, cancelled, seg, pos>>
    BY DEF SubmitTask
  <1>3. ScanTypeOK'
    BY <1>1, <1>2, WorkerCountType DEF SubmitTask, ScanInv, ScanTypeOK, Worker
  <1>4. SubmittedFirst'
    BY <1>1, WorkerCountType DEF ScanInv, ScanTypeOK, SubmittedFirst, Worker
  <1>5. Cursors' /\ ClaimedOnce' /\ LeavesForAReason'
    BY <1>1, <1>2 DEF ScanInv, ScanTypeOK, Cursors, ClaimedOnce, LeavesForAReason
  <1>6. Passed' = Passed
    BY <1>1, <1>2, MovesBetween
  <1> QED
    BY <1>3, <1>4, <1>5, <1>6 DEF ScanInv

\* A task starts, or its worker looks at the cancel flag: no batch moves.
LEMMA StartKeepsScan ==
    ASSUME ScanInv, NEW w \in Worker, StartTask(w) \/ CheckCancelled(w)
    PROVE  ScanInv' /\ Passed' = Passed
  <1> DEFINE to == at'[w]
  <1>0. /\ at[w] \in {"queued", "scan"} /\ UNCHANGED <<submitted, nextSeg, cancelled, seg, pos>>
        /\ at' = [at EXCEPT ![w] = to]
        /\ to \in {"scan", "exit", "claim", "read"}
        /\ to = "exit" => cancelled
        /\ to = "claim" => seg[w] = 0
        /\ to = "read" => seg[w] # 0
    BY DEF StartTask, CheckCancelled, Goto, ScanInv, ScanTypeOK
  <1> HIDE DEF to
  <1>1. ScanTypeOK'
    BY <1>0 DEF ScanInv, ScanTypeOK
  <1>2. SubmittedFirst'
    BY <1>0 DEF ScanInv, ScanTypeOK, SubmittedFirst
  <1>3. Cursors' /\ ClaimedOnce' /\ LeavesForAReason'
    BY <1>0 DEF ScanInv, ScanTypeOK, Cursors, ClaimedOnce, LeavesForAReason
  <1>4. Passed' = Passed
    BY <1>0, MovesBetween
  <1> QED
    BY <1>1, <1>2, <1>3, <1>4 DEF ScanInv

\* fetch_add gives the claimed segment to this worker alone, and all of it is
\* still to be read.
LEMMA ClaimKeepsScan ==
    ASSUME ScanInv, NEW w \in Worker, ClaimSegment(w)
    PROVE  ScanInv' /\ Passed' = Passed
  <1>0. /\ at[w] = "claim" /\ seg[w] = 0 /\ pos[w] = 0 /\ nextSeg \in Nat /\ nextSeg' = nextSeg + 1
        /\ UNCHANGED <<submitted, cancelled, pos>>
    BY DEF ClaimSegment, ScanInv, ScanTypeOK, Cursors
  <1>1. CASE nextSeg < Segments
    <2>1. seg' = [seg EXCEPT ![w] = nextSeg + 1] /\ at' = [at EXCEPT ![w] = "read"]
      BY <1>1 DEF ClaimSegment, Goto
    <2>2. nextSeg + 1 \in 1..Segments /\ BatchesIn[nextSeg + 1] \in Nat
      BY <1>0, <1>1, WorkerCountType, BatchesInType
    <2>3. ScanTypeOK'
      BY <1>0, <2>1, <2>2 DEF ScanInv, ScanTypeOK
    <2>4. SubmittedFirst'
      BY <1>0, <2>1 DEF ScanInv, ScanTypeOK, SubmittedFirst
    <2>5. Cursors'
      BY <1>0, <2>1, <2>2, WorkerCountType DEF ScanInv, ScanTypeOK, Cursors
    <2>6. \A v \in Worker : seg[v] # nextSeg + 1
      BY <1>0 DEF ScanInv, ScanTypeOK, Cursors
    <2>7. ClaimedOnce'
      BY <1>0, <2>1, <2>6 DEF ScanInv, ScanTypeOK, ClaimedOnce
    <2>8. LeavesForAReason'
      BY <1>0, <2>1, <1>1, WorkerCountType DEF ScanInv, ScanTypeOK, LeavesForAReason
    <2>9. \A b \in Batches : b[1] # nextSeg + 1 => \A v \in Worker : Before(v, b)' <=> Before(v, b)
      BY <1>0, <2>1, BatchFacts DEF Before, ScanInv, ScanTypeOK
    <2>10. \A b \in Batches : b[1] = nextSeg + 1 => ~ Before(w, b)'
      <3> SUFFICES ASSUME NEW b \in Batches, b[1] = nextSeg + 1 PROVE ~ Before(w, b)'
        OBVIOUS
      <3>1. b[2] \in 1..BatchesIn[nextSeg + 1]
        BY BatchFacts
      <3>2. seg'[w] = b[1] /\ pos'[w] = 0
        BY <1>0, <2>1 DEF ScanInv, ScanTypeOK
      <3> QED
        BY <2>2, <3>1, <3>2 DEF Before
    <2>11. \A b \in Batches : b[1] # nextSeg + 1 => (b[1] <= nextSeg' <=> b[1] <= nextSeg)
      BY <1>0, BatchFacts
    <2>12. \A b \in Batches : b[1] = nextSeg + 1 => ~ (b[1] <= nextSeg)
      BY <1>0
    <2>13. Passed' = Passed
      BY <2>9, <2>10, <2>11, <2>12 DEF Passed
    <2> QED
      BY <2>3, <2>4, <2>5, <2>7, <2>8, <2>13 DEF ScanInv
  <1>2. CASE ~ (nextSeg < Segments)
    <2>1. seg' = seg /\ at' = [at EXCEPT ![w] = "exit"]
      BY <1>2 DEF ClaimSegment, Goto
    <2>2. ScanTypeOK'
      BY <1>0, <2>1 DEF ScanInv, ScanTypeOK
    <2>3. SubmittedFirst'
      BY <1>0, <2>1 DEF ScanInv, ScanTypeOK, SubmittedFirst
    <2>4. Cursors' /\ ClaimedOnce'
      BY <1>0, <2>1, WorkerCountType DEF ScanInv, ScanTypeOK, Cursors, ClaimedOnce
    <2>5. LeavesForAReason'
      BY <1>0, <1>2, <2>1, WorkerCountType DEF ScanInv, ScanTypeOK, LeavesForAReason
    <2>6. \A v \in Worker, b \in Batches : Before(v, b)' <=> Before(v, b)
      BY <1>0, <2>1 DEF Before, ScanInv, ScanTypeOK
    <2>7. \A b \in Batches : b[1] <= nextSeg /\ b[1] <= nextSeg'
      BY <1>0, <1>2, BatchFacts, WorkerCountType
    <2>8. Passed' = Passed
      BY <2>6, <2>7 DEF Passed
    <2> QED
      BY <2>2, <2>3, <2>4, <2>5, <2>8 DEF ScanInv
  <1> QED
    BY <1>1, <1>2

\* A batch that a worker has read is in its hands until the worker emits it.
LEMMA ReadKeepsScan ==
    ASSUME ScanInv, NEW w \in Worker, ReadBatch(w)
    PROVE  ScanInv' /\ Passed' = Passed
  <1>0. /\ at[w] = "read" /\ pos[w] < BatchesIn[seg[w]] /\ pos[w] \in Nat /\ seg[w] # 0
        /\ pos' = [pos EXCEPT ![w] = pos[w] + 1] /\ at' = [at EXCEPT ![w] = "emit"]
        /\ UNCHANGED <<submitted, nextSeg, cancelled, seg>>
    BY DEF ReadBatch, Goto, ScanInv, ScanTypeOK, Cursors
  <1>1. BatchesIn[seg[w]] \in Nat
    BY <1>0, WorkerCountType, BatchesInType DEF ScanInv, ScanTypeOK
  <1>2. ScanTypeOK'
    BY <1>0 DEF ScanInv, ScanTypeOK
  <1>3. SubmittedFirst'
    BY <1>0 DEF ScanInv, ScanTypeOK, SubmittedFirst
  <1>4. Cursors'
    BY <1>0, <1>1 DEF ScanInv, ScanTypeOK, Cursors
  <1>5. ClaimedOnce' /\ LeavesForAReason'
    BY <1>0 DEF ScanInv, ScanTypeOK, ClaimedOnce, LeavesForAReason
  <1>6. \A v \in Worker, b \in Batches : Before(v, b)' <=> Before(v, b)
    <2> SUFFICES ASSUME NEW v \in Worker, NEW b \in Batches PROVE Before(v, b)' <=> Before(v, b)
      OBVIOUS
    <2>1. b[2] \in Nat
      BY BatchFacts, BatchesInType
    <2>2. CASE v = w
      <3>1. at'[w] = "emit" /\ pos'[w] = pos[w] + 1 /\ seg'[w] = seg[w]
        BY <1>0 DEF ScanInv, ScanTypeOK
      <3> QED
        BY <1>0, <2>1, <2>2, <3>1 DEF Before
    <2>3. CASE v # w
      <3>1. at'[v] = at[v] /\ pos'[v] = pos[v] /\ seg'[v] = seg[v]
        BY <1>0, <2>3 DEF ScanInv, ScanTypeOK
      <3> QED
        BY <3>1 DEF Before
    <2> QED
      BY <2>2, <2>3
  <1>7. Passed' = Passed
    BY <1>0, <1>6 DEF Passed
  <1> QED
    BY <1>2, <1>3, <1>4, <1>5, <1>7 DEF ScanInv

\* A worker gives a segment up when all of it has passed.
LEMMA EndKeepsScan ==
    ASSUME ScanInv, NEW w \in Worker, ReadEnds(w)
    PROVE  ScanInv' /\ Passed' = Passed
  <1>0. /\ at[w] = "read" /\ pos[w] = BatchesIn[seg[w]] /\ seg[w] # 0
        /\ seg' = [seg EXCEPT ![w] = 0] /\ pos' = [pos EXCEPT ![w] = 0]
        /\ at' = [at EXCEPT ![w] = "scan"]
        /\ UNCHANGED <<submitted, nextSeg, cancelled>>
    BY DEF ReadEnds, Goto, ScanInv, ScanTypeOK, Cursors
  <1>1. ScanTypeOK'
    BY <1>0, WorkerCountType DEF ScanInv, ScanTypeOK
  <1>2. SubmittedFirst'
    BY <1>0 DEF ScanInv, ScanTypeOK, SubmittedFirst
  <1>3. Cursors' /\ ClaimedOnce' /\ LeavesForAReason'
    BY <1>0 DEF ScanInv, ScanTypeOK, Cursors, ClaimedOnce, LeavesForAReason
  <1>4. \A v \in Worker, b \in Batches : Before(v, b)' <=> Before(v, b)
    <2> SUFFICES ASSUME NEW v \in Worker, NEW b \in Batches PROVE Before(v, b)' <=> Before(v, b)
      OBVIOUS
    <2>1. CASE v = w
      <3>1. Before(w, b)
        BY <1>0, BatchFacts, BatchesInType DEF Before
      <3>2. seg'[w] = 0 /\ b[1] # 0
        BY <1>0, BatchFacts, WorkerCountType DEF ScanInv, ScanTypeOK
      <3> QED
        BY <2>1, <3>1, <3>2 DEF Before
    <2>2. CASE v # w
      <3>1. at'[v] = at[v] /\ pos'[v] = pos[v] /\ seg'[v] = seg[v]
        BY <1>0, <2>2 DEF ScanInv, ScanTypeOK
      <3> QED
        BY <3>1 DEF Before
    <2> QED
      BY <2>1, <2>2
  <1>5. Passed' = Passed
    BY <1>0, <1>4 DEF Passed
  <1> QED
    BY <1>1, <1>2, <1>3, <1>5 DEF ScanInv

\* Every step of the scan keeps the invariant and lets no batch out.
LEMMA ScanStepKeepsScan ==
    ASSUME ScanInv, NEW w \in Worker, ScanStep(w)
    PROVE  ScanInv' /\ Passed' = Passed
  BY StartKeepsScan, ClaimKeepsScan, ReadKeepsScan, EndKeepsScan DEF ScanStep

-----------------------------------------------------------------------------
(* Steps of the query *)

\* A worker that holds no batch moves: into its handler, or further on its way out.
LEMMA MoveKeepsScan ==
    ASSUME ScanInv, NEW w \in Worker,
           NEW to \in {"catch", "exit", "close", "done"},
           \/ at[w] \in {"scan", "read"} /\ to = "catch" /\ cancelled'
           \/ at[w] = "catch" /\ to \in {"exit", "done"}
           \/ at[w] \in {"exit", "close"} /\ to \in {"close", "done"},
           at' = [at EXCEPT ![w] = to],
           UNCHANGED <<submitted, nextSeg, seg, pos>>,
           cancelled' \in BOOLEAN, cancelled => cancelled'
    PROVE  ScanInv' /\ Passed' = Passed
  <1>1. ScanTypeOK'
    BY DEF ScanInv, ScanTypeOK
  <1>2. SubmittedFirst'
    BY DEF ScanInv, ScanTypeOK, SubmittedFirst
  <1>3. Cursors' /\ ClaimedOnce'
    BY DEF ScanInv, ScanTypeOK, Cursors, ClaimedOnce
  <1>4. LeavesForAReason'
    BY DEF ScanInv, ScanTypeOK, LeavesForAReason
  <1>5. Passed' = Passed
    BY MovesBetween
  <1> QED
    BY <1>1, <1>2, <1>3, <1>4, <1>5 DEF ScanInv

\* Nothing but the cancel flag changes.
LEMMA CancelKeepsScan ==
    ASSUME ScanInv, UNCHANGED <<submitted, at, nextSeg, seg, pos>>,
           cancelled' \in BOOLEAN, cancelled => cancelled'
    PROVE  ScanInv' /\ Passed' = Passed
  <1>1. ScanTypeOK' /\ SubmittedFirst' /\ Cursors' /\ ClaimedOnce' /\ LeavesForAReason'
    BY DEF ScanInv, ScanTypeOK, SubmittedFirst, Cursors, ClaimedOnce, LeavesForAReason
  <1>2. Passed' = Passed
    BY DEF Passed, Before
  <1> QED
    BY <1>1, <1>2 DEF ScanInv

\* The batch a worker holds has not passed before.
LEMMA HeldNotPassed ==
    ASSUME ScanInv, NEW w \in Worker, at[w] = "emit"
    PROVE  <<seg[w], pos[w]>> \in Batches \ Passed
  <1>1. seg[w] \in 1..Segments /\ pos[w] \in Nat \ {0} /\ pos[w] <= BatchesIn[seg[w]]
    BY WorkerCountType DEF ScanInv, ScanTypeOK, Cursors
  <1>2. BatchesIn[seg[w]] \in Nat
    BY <1>1, BatchesInType
  <1>3. pos[w] \in 1..BatchesIn[seg[w]]
    BY <1>1, <1>2
  <1>4. <<seg[w], pos[w]>> \in Batches
    BY <1>1, <1>3 DEF Batches
  <1>5. ~ Before(w, <<seg[w], pos[w]>>)
    BY <1>1 DEF Before
  <1> QED
    BY <1>4, <1>5 DEF Passed

\* Those before it in its segment have.
LEMMA EarlierPassed ==
    ASSUME ScanInv, NEW w \in Worker, at[w] = "emit", NEW i \in 1..pos[w] - 1
    PROVE  <<seg[w], i>> \in Passed
  <1>1. seg[w] \in 1..Segments /\ seg[w] <= nextSeg /\ pos[w] \in Nat /\ pos[w] <= BatchesIn[seg[w]]
    BY WorkerCountType DEF ScanInv, ScanTypeOK, Cursors
  <1>2. i \in 1..BatchesIn[seg[w]] /\ i < pos[w] /\ i <= pos[w]
    BY <1>1, BatchesInType
  <1>3. <<seg[w], i>> \in Batches
    BY <1>1, <1>2 DEF Batches
  <1>4. \A v \in Worker : v # w => seg[v] # seg[w]
    BY <1>1 DEF ScanInv, ClaimedOnce
  <1>5. \A v \in Worker : Before(v, <<seg[w], i>>)
    BY <1>2, <1>4 DEF Before
  <1> QED
    BY <1>1, <1>3, <1>5 DEF Passed

\* A worker that holds a batch pushes it, or drops it and leaves: it alone passes.
LEMMA EmitKeepsScan ==
    ASSUME ScanInv, NEW w \in Worker, at[w] = "emit",
           NEW to \in {"scan", "exit"}, to = "exit" => cancelled',
           at' = [at EXCEPT ![w] = to],
           UNCHANGED <<submitted, nextSeg, seg, pos>>,
           cancelled' \in BOOLEAN, cancelled => cancelled'
    PROVE  ScanInv' /\ Passed' = Passed \cup {<<seg[w], pos[w]>>}
  <1>0. seg[w] \in 1..Segments /\ seg[w] <= nextSeg /\ pos[w] \in Nat /\ nextSeg \in Nat
    BY WorkerCountType DEF ScanInv, ScanTypeOK, Cursors
  <1>1. ScanTypeOK'
    BY DEF ScanInv, ScanTypeOK
  <1>2. SubmittedFirst'
    BY DEF ScanInv, ScanTypeOK, SubmittedFirst
  <1>3. Cursors' /\ ClaimedOnce'
    BY DEF ScanInv, ScanTypeOK, Cursors, ClaimedOnce
  <1>4. LeavesForAReason'
    BY DEF ScanInv, ScanTypeOK, LeavesForAReason
  <1>5. \A v \in Worker, b \in Batches : v # w => (Before(v, b)' <=> Before(v, b))
    BY DEF Before, ScanInv, ScanTypeOK
  <1>6. \A b \in Batches : Before(w, b)' <=> Before(w, b) \/ b = <<seg[w], pos[w]>>
    <2> SUFFICES ASSUME NEW b \in Batches
                 PROVE  Before(w, b)' <=> Before(w, b) \/ b = <<seg[w], pos[w]>>
      OBVIOUS
    <2>1. b[1] \in Nat /\ b[2] \in Nat /\ b = <<b[1], b[2]>>
      BY BatchFacts, BatchesInType, WorkerCountType
    <2>2. at'[w] # "emit" /\ seg'[w] = seg[w] /\ pos'[w] = pos[w]
      BY DEF ScanInv, ScanTypeOK
    <2>3. Before(w, b)' <=> (seg[w] = b[1] => b[2] <= pos[w])
      BY <2>2 DEF Before
    <2>4. Before(w, b) <=> (seg[w] = b[1] => b[2] < pos[w])
      BY <1>0, <2>1 DEF Before
    <2>5. b = <<seg[w], pos[w]>> <=> b[1] = seg[w] /\ b[2] = pos[w]
      BY <2>1
    <2> QED
      BY <1>0, <2>1, <2>3, <2>4, <2>5
  <1>7. \A v \in Worker : v # w => Before(v, <<seg[w], pos[w]>>)
    BY <1>0 DEF Before, ScanInv, ClaimedOnce
  <1>8. <<seg[w], pos[w]>> \in Batches
    BY HeldNotPassed
  <1>9. Passed' \subseteq Passed \cup {<<seg[w], pos[w]>>}
    BY <1>5, <1>6 DEF Passed
  <1>10. Passed \subseteq Passed'
    BY <1>5, <1>6 DEF Passed
  <1>11. <<seg[w], pos[w]>> \in Passed'
    BY <1>0, <1>5, <1>6, <1>7, <1>8 DEF Passed
  <1> QED
    BY <1>1, <1>2, <1>3, <1>4, <1>9, <1>10, <1>11 DEF ScanInv

\* When every worker has left a scan that nobody cancelled, all batches have passed.
LEMMA AllPassed ==
    ASSUME ScanInv, ~ cancelled, \A w \in Worker : at[w] = "done"
    PROVE  Passed = Batches
  <1>1. 1 \in Worker
    BY WorkerCountType DEF Worker
  <1>2. nextSeg \in Nat /\ nextSeg >= Segments /\ \A w \in Worker : seg[w] = 0
    BY <1>1 DEF ScanInv, ScanTypeOK, LeavesForAReason
  <1>3. \A b \in Batches : b[1] <= nextSeg /\ b[1] # 0
    BY <1>2, BatchFacts, WorkerCountType
  <1>4. \A b \in Batches, w \in Worker : Before(w, b)
    BY <1>2, <1>3 DEF Before
  <1> QED
    BY <1>3, <1>4 DEF Passed
=============================================================================
