----------------------- MODULE ParallelAggregateProofs -----------------------
(***************************************************************************)
(* Theorems about ParallelAggregate, for any number of workers, segments   *)
(* and batches and whichever of the faults happen: a result is computed    *)
(* from every batch once, and nobody works on a stack frame that has gone. *)
(***************************************************************************)
EXTENDS ParallelAggregate, ScanWorkersProofs

-----------------------------------------------------------------------------
(* The invariant *)

\* The batches that left the workers are in the hash table of one of them, once.
Folded ==
    /\ \A w \in Worker : Distinct(local[w])
    /\ \A v, w \in Worker : v # w => Members(local[v]) \cap Members(local[w]) = {}
    /\ Passed = UNION {Members(local[w]) : w \in Worker}

\* The futures taken are those of workers that are done; the tables of those that did
\* not throw have been merged.
Merged ==
    /\ \A w \in 1..taken : at[w] = "done"
    /\ Distinct(global)
    /\ Members(global) = UNION {Members(local[w]) : w \in (1..taken) \ threw}
    /\ caught <=> (1..taken) \cap threw # {}

\* The scan is cancelled because a worker failed, or because the call is given up.
Failing ==
    /\ \A w \in threw : at[w] = "done"
    /\ cancelled => \/ coord \in {"abandon", "threw"}
                    \/ \E w \in Worker : at[w] = "catch" \/ w \in threw

\* What the calling thread knows where it is.
Calling ==
    /\ coord \in {"output", "returned"} => taken = WorkerCount /\ ~ caught
    /\ coord \in {"output", "returned", "threw"} => Joined

AggregateInv == TypeOK /\ ScanInv /\ Folded /\ Merged /\ Failing /\ Calling

-----------------------------------------------------------------------------
(* Lemmas *)

\* The first state.
LEMMA InitAggregateInv == Init => AggregateInv
  <1> SUFFICES ASSUME Init PROVE AggregateInv
    OBVIOUS
  <1>0. /\ ScanInv /\ Passed = {} /\ submitted = 0 /\ cancelled = FALSE
        /\ local = [w \in Worker |-> <<>>] /\ threw = {} /\ taken = 0 /\ global = <<>>
        /\ caught = FALSE /\ coord = "submit"
    BY InitScanInv DEF Init, ScanInit
  <1>1. TypeOK
    <2>1. local \in [Worker -> Seq(Batches)] /\ global \in Seq(Batches)
      BY <1>0
    <2>2. taken \in 0..WorkerCount
      BY <1>0, WorkerCountType
    <2> QED
      BY <1>0, <2>1, <2>2 DEF TypeOK, ScanInv
  <1>2. Folded
    <2>1. \A w \in Worker : local[w] = <<>>
      BY <1>0
    <2>2. \A w \in Worker : Members(local[w]) = {} /\ Distinct(local[w])
      BY <2>1 DEF Members, Distinct
    <2> QED
      BY <1>0, <2>2 DEF Folded
  <1>3. Merged
    <2>1. 1..taken = {} /\ Members(global) = {} /\ Distinct(global)
      BY <1>0 DEF Members, Distinct
    <2> QED
      BY <1>0, <2>1 DEF Merged
  <1>4. Failing /\ Calling
    BY <1>0 DEF Failing, Calling
  <1> QED
    BY <1>0, <1>1, <1>2, <1>3, <1>4 DEF AggregateInv

\* A step that feeds no hash table and lets no batch out.
LEMMA NothingFolded ==
    ASSUME Folded, UNCHANGED local, Passed' = Passed
    PROVE  Folded'
  BY DEF Folded

\* The calling thread waits for every worker whose task was submitted.
LEMMA WaitedFor ==
    ASSUME AggregateInv, NEW w \in Worker, at[w] \notin {"done", "idle"}
    PROVE  coord \notin {"output", "returned", "threw"} /\ w \notin 1..taken
  <1>1. w \in 1..submitted
    BY WorkerCountType DEF AggregateInv, ScanInv, ScanTypeOK, SubmittedFirst, Worker
  <1> QED
    BY <1>1 DEF Joined, AggregateInv, Calling, Merged

\* What was merged stays so while a worker moves whose future is not taken.
LEMMA MergedStays ==
    ASSUME AggregateInv, NEW w \in Worker, w \notin 1..taken,
           \A v \in Worker : v # w => at'[v] = at[v] /\ local'[v] = local[v],
           threw' = threw \/ threw' = threw \cup {w},
           UNCHANGED <<taken, global, caught>>
    PROVE  Merged'
  <1>1. 1..taken \subseteq Worker
    BY WorkerCountType DEF AggregateInv, TypeOK, Worker
  <1>2. (1..taken) \ threw' = (1..taken) \ threw /\ (1..taken) \cap threw' = (1..taken) \cap threw
    OBVIOUS
  <1>3. \A v \in 1..taken : at'[v] = at[v] /\ local'[v] = local[v]
    BY <1>1
  <1>4. {Members(local'[v]) : v \in (1..taken) \ threw} = {Members(local[v]) : v \in (1..taken) \ threw}
    BY <1>3
  <1> QED
    BY <1>2, <1>3, <1>4 DEF AggregateInv, Merged

-----------------------------------------------------------------------------
(* Steps of the workers *)

\* A step of the scan moves one worker that is neither failing nor leaving.
LEMMA ScanMoves ==
    ASSUME ScanTypeOK, NEW w \in Worker, ScanStep(w)
    PROVE  /\ UNCHANGED <<submitted, cancelled>>
           /\ at[w] \in {"queued", "scan", "claim", "read"}
           /\ at'[w] \in {"scan", "claim", "read", "emit", "exit"}
           /\ \A v \in Worker : v # w => at'[v] = at[v]
  BY DEF ScanStep, StartTask, CheckCancelled, ClaimSegment, ReadBatch, ReadEnds, Goto, ScanTypeOK

\* A step of the scan.
LEMMA ScansKeepInv ==
    ASSUME AggregateInv, NEW w \in Worker, WorkerScans(w)
    PROVE  AggregateInv'
  <1>0. /\ ScanStep(w) /\ ScanTypeOK
        /\ UNCHANGED <<local, threw, coord, taken, global, caught>>
    BY DEF WorkerScans, AggregateInv, ScanInv, callVars
  <1>1. ScanInv' /\ Passed' = Passed
    BY <1>0, ScanStepKeepsScan DEF AggregateInv
  <1>2. /\ UNCHANGED <<submitted, cancelled>>
        /\ at[w] \in {"queued", "scan", "claim", "read"}
        /\ at'[w] \in {"scan", "claim", "read", "emit", "exit"}
        /\ \A v \in Worker : v # w => at'[v] = at[v]
    BY <1>0, ScanMoves
  <1>3. coord \notin {"output", "returned", "threw"} /\ w \notin 1..taken
    BY <1>2, WaitedFor
  <1>4. TypeOK'
    BY <1>0, <1>1 DEF AggregateInv, TypeOK, ScanInv
  <1>5. Folded'
    BY <1>0, <1>1, NothingFolded DEF AggregateInv
  <1>6. Merged'
    BY <1>0, <1>2, <1>3, MergedStays
  <1>7. Failing'
    <2>1. w \notin threw /\ threw \subseteq Worker
      BY <1>2 DEF AggregateInv, TypeOK, Failing
    <2>2. \A v \in Worker : at'[v] = "catch" <=> at[v] = "catch"
      BY <1>2
    <2> QED
      BY <1>0, <1>2, <2>1, <2>2 DEF AggregateInv, Failing
  <1>8. Calling'
    BY <1>0, <1>3 DEF Calling
  <1> QED
    BY <1>1, <1>4, <1>5, <1>6, <1>7, <1>8 DEF AggregateInv

\* A batch is folded into the hash table of its worker when it leaves it.
LEMMA ConsumeKeepsInv ==
    ASSUME AggregateInv, NEW w \in Worker, Consume(w)
    PROVE  AggregateInv'
  <1> DEFINE b == <<seg[w], pos[w]>>
  <1>0. /\ ScanTypeOK /\ at[w] = "emit"
        /\ local' = [local EXCEPT ![w] = Append(local[w], b)]
        /\ at' = [at EXCEPT ![w] = "scan"]
        /\ UNCHANGED <<submitted, nextSeg, cancelled, seg, pos, threw, coord, taken, global, caught>>
    BY DEF Consume, Goto, AggregateInv, ScanInv, callVars
  <1>1. b \in Batches /\ b \notin Passed
    BY <1>0, HeldNotPassed DEF AggregateInv
  <1>2. ScanInv' /\ Passed' = Passed \cup {b}
    <2>1. "scan" \in {"scan", "exit"} /\ "scan" # "exit" /\ cancelled' \in BOOLEAN
      BY <1>0 DEF ScanTypeOK
    <2> QED
      BY <1>0, <2>1, EmitKeepsScan DEF AggregateInv
  <1> HIDE DEF b
  <1>3. local \in [Worker -> Seq(Batches)]
    BY DEF AggregateInv, TypeOK
  <1>4. /\ local'[w] = Append(local[w], b) /\ at'[w] = "scan"
        /\ \A v \in Worker : v # w => at'[v] = at[v] /\ local'[v] = local[v]
    BY <1>0, <1>3 DEF ScanTypeOK
  <1>5. TypeOK'
    <2>1. Append(local[w], b) \in Seq(Batches)
      BY <1>1, <1>3
    <2>2. local' \in [Worker -> Seq(Batches)]
      BY <1>0, <1>3, <2>1
    <2> QED
      BY <1>0, <1>2, <2>2 DEF AggregateInv, TypeOK, ScanInv
  <1>6. \A v \in Worker : b \notin Members(local[v])
    BY <1>1 DEF AggregateInv, Folded
  <1>7. Members(local'[w]) = Members(local[w]) \cup {b} /\ Distinct(local'[w])
    BY <1>1, <1>3, <1>4, <1>6, AppendMember DEF AggregateInv, Folded
  <1>8. \A v \in Worker : v # w => Members(local'[v]) = Members(local[v]) /\ Distinct(local'[v])
    BY <1>4 DEF AggregateInv, Folded
  <1>9. Folded'
    <2>1. ASSUME NEW v \in Worker PROVE Distinct(local'[v])
      <3>1. CASE v = w
        BY <1>7, <3>1
      <3>2. CASE v # w
        BY <1>8, <3>2
      <3> QED
        BY <3>1, <3>2
    <2>2. ASSUME NEW u \in Worker, NEW v \in Worker, u # v
          PROVE  Members(local'[u]) \cap Members(local'[v]) = {}
      <3>0. Members(local[u]) \cap Members(local[v]) = {}
        BY <2>2 DEF AggregateInv, Folded
      <3>1. CASE u = w
        BY <1>6, <1>7, <1>8, <2>2, <3>0, <3>1
      <3>2. CASE v = w
        BY <1>6, <1>7, <1>8, <2>2, <3>0, <3>2
      <3>3. CASE u # w /\ v # w
        BY <1>8, <3>0, <3>3
      <3> QED
        BY <3>1, <3>2, <3>3
    <2>3. (UNION {Members(local'[v]) : v \in Worker}) = (UNION {Members(local[v]) : v \in Worker}) \cup {b}
      BY <1>7, <1>8
    <2> QED
      BY <1>2, <2>1, <2>2, <2>3 DEF AggregateInv, Folded
  <1>10. Merged'
    BY <1>0, <1>4, WaitedFor, MergedStays
  <1>11. Failing'
    <2>1. w \notin threw /\ threw \subseteq Worker
      BY <1>0 DEF AggregateInv, TypeOK, Failing
    <2>2. \A v \in Worker : at'[v] = "catch" <=> at[v] = "catch"
      BY <1>0, <1>4
    <2> QED
      BY <1>0, <1>4, <2>1, <2>2 DEF AggregateInv, Failing
  <1>12. Calling'
    BY <1>0, WaitedFor DEF Calling
  <1> QED
    BY <1>2, <1>5, <1>9, <1>10, <1>11, <1>12 DEF AggregateInv

\* A worker throws, keeps its error or returns what it has.
LEMMA EndKeepsInv ==
    ASSUME AggregateInv, NEW w \in Worker, WorkerFails(w) \/ KeepError(w) \/ ReturnLocal(w)
    PROVE  AggregateInv'
  <1> DEFINE to == IF at[w] \in {"scan", "read"} THEN "catch" ELSE "done"
  <1>0. /\ ScanTypeOK /\ at[w] \in {"scan", "read", "catch", "exit"}
        /\ at' = [at EXCEPT ![w] = to]
        /\ to \in {"catch", "done"}
        /\ to = "catch" => at[w] \in {"scan", "read"} /\ cancelled'
        /\ to = "done" => at[w] \in {"catch", "exit"} /\ cancelled' = cancelled
        /\ threw' = threw \/ threw' = threw \cup {w}
        /\ at[w] = "catch" => threw' = threw \cup {w}
        /\ to = "catch" => threw' = threw
        /\ UNCHANGED <<submitted, nextSeg, seg, pos, local, coord, taken, global, caught>>
        /\ cancelled' \in BOOLEAN /\ (cancelled => cancelled')
    <2>0. ScanTypeOK /\ cancelled \in BOOLEAN
      BY DEF AggregateInv, ScanInv, ScanTypeOK
    <2>1. CASE WorkerFails(w)
      BY <2>0, <2>1 DEF WorkerFails, WorkerThrows, Goto, callVars
    <2>2. CASE KeepError(w)
      BY <2>0, <2>2 DEF KeepError, Goto, callVars
    <2>3. CASE ReturnLocal(w)
      BY <2>0, <2>3 DEF ReturnLocal, Goto, callVars
    <2> QED
      BY <2>1, <2>2, <2>3
  <1> HIDE DEF to
  <1>1. ScanInv' /\ Passed' = Passed
    BY <1>0, MoveKeepsScan DEF AggregateInv
  <1>2. at'[w] = to /\ \A v \in Worker : v # w => at'[v] = at[v] /\ local'[v] = local[v]
    BY <1>0 DEF ScanTypeOK
  <1>3. coord \notin {"output", "returned", "threw"} /\ w \notin 1..taken
    BY <1>0, WaitedFor
  <1>4. TypeOK'
    BY <1>0, <1>1 DEF AggregateInv, TypeOK, ScanInv
  <1>5. Folded'
    BY <1>0, <1>1, NothingFolded DEF AggregateInv
  <1>6. Merged'
    BY <1>0, <1>2, <1>3, MergedStays
  <1>7. Failing'
    <2>1. threw \subseteq Worker /\ w \notin threw
      BY <1>0 DEF AggregateInv, TypeOK, Failing
    <2>2. \A v \in threw' : at'[v] = "done"
      BY <1>0, <1>2, <2>1 DEF AggregateInv, Failing
    <2>3. ASSUME cancelled', coord' \notin {"abandon", "threw"}
          PROVE  \E v \in Worker : at'[v] = "catch" \/ v \in threw'
      <3>1. CASE to = "catch"
        BY <1>2, <3>1
      <3>2. CASE to = "done" /\ at[w] = "catch"
        BY <1>0, <3>2
      <3>3. CASE to = "done" /\ at[w] # "catch"
        <4>1. PICK v \in Worker : at[v] = "catch" \/ v \in threw
          BY <1>0, <2>3, <3>3 DEF AggregateInv, Failing
        <4> QED
          BY <1>0, <1>2, <2>1, <3>3, <4>1
      <3> QED
        BY <1>0, <3>1, <3>2, <3>3
    <2> QED
      BY <2>2, <2>3 DEF Failing
  <1>8. Calling'
    BY <1>0, <1>3 DEF Calling
  <1> QED
    BY <1>1, <1>4, <1>5, <1>6, <1>7, <1>8 DEF AggregateInv

-----------------------------------------------------------------------------
(* Steps of the calling thread *)

\* A task is handed to the pool.
LEMMA SubmitKeepsInv ==
    ASSUME AggregateInv, Submit
    PROVE  AggregateInv'
  <1> DEFINE w == submitted + 1
  <1>0. /\ ScanTypeOK /\ SubmitTask /\ coord = "submit" /\ coord' \in {"collect", "submit"}
        /\ UNCHANGED <<nextSeg, cancelled, seg, pos, local, threw, taken, global, caught>>
    BY DEF Submit, SubmitTask, AggregateInv, ScanInv
  <1>1. ScanInv' /\ Passed' = Passed
    BY <1>0, SubmitKeepsScan DEF AggregateInv
  <1>2. w \in Worker /\ at[w] = "idle" /\ at' = [at EXCEPT ![w] = "queued"]
    BY <1>0, WorkerCountType DEF SubmitTask, Goto, AggregateInv, ScanInv, ScanTypeOK, SubmittedFirst, Worker
  <1> HIDE DEF w
  <1>3. at'[w] = "queued" /\ \A v \in Worker : v # w => at'[v] = at[v] /\ local'[v] = local[v]
    BY <1>0, <1>2 DEF ScanTypeOK
  <1>4. TypeOK'
    BY <1>0, <1>1 DEF AggregateInv, TypeOK, ScanInv
  <1>5. Folded'
    BY <1>0, <1>1, NothingFolded DEF AggregateInv
  <1>6. Merged'
    <2>1. w \notin 1..taken
      BY <1>2 DEF AggregateInv, Merged
    <2> QED
      BY <1>0, <1>2, <1>3, <2>1, MergedStays
  <1>7. Failing'
    <2>1. w \notin threw /\ threw \subseteq Worker
      BY <1>2 DEF AggregateInv, TypeOK, Failing
    <2>2. \A v \in Worker : at'[v] = "catch" <=> at[v] = "catch"
      BY <1>2, <1>3
    <2> QED
      BY <1>0, <1>3, <2>1, <2>2 DEF AggregateInv, Failing
  <1>8. Calling'
    BY <1>0 DEF Calling
  <1> QED
    BY <1>1, <1>4, <1>5, <1>6, <1>7, <1>8 DEF AggregateInv

\* The next future is taken, and what it holds is merged.
LEMMA CollectKeepsInv ==
    ASSUME AggregateInv, Collect
    PROVE  AggregateInv'
  <1> DEFINE w == taken + 1
  <1>0. /\ ScanTypeOK /\ coord = "collect" /\ taken < WorkerCount /\ taken \in Nat
        /\ w \in Worker /\ at[w] = "done" /\ taken' = w
        /\ IF w \in threw THEN caught' = TRUE /\ UNCHANGED global
                        ELSE global' = global \o local[w] /\ UNCHANGED caught
        /\ UNCHANGED <<submitted, at, nextSeg, cancelled, seg, pos, local, threw, coord>>
    BY WorkerCountType DEF Collect, AggregateInv, TypeOK, ScanInv, scanVars, Worker
  <1>1. ScanInv' /\ Passed' = Passed
    BY <1>0, CancelKeepsScan DEF AggregateInv, ScanTypeOK
  <1>2. local[w] \in Seq(Batches) /\ global \in Seq(Batches) /\ caught \in BOOLEAN
    BY <1>0 DEF AggregateInv, TypeOK
  <1>3. 1..taken' = (1..taken) \cup {w} /\ w \notin 1..taken /\ 1..taken \subseteq Worker
    BY <1>0, WorkerCountType DEF Worker
  <1> HIDE DEF w
  <1>4. TypeOK'
    <2>0. global \o local[w] \in Seq(Batches)
      BY <1>2, ConcatMembers
    <2>1. global' \in Seq(Batches) /\ caught' \in BOOLEAN
      BY <1>0, <1>2, <2>0
    <2>2. taken' \in 0..WorkerCount
      BY <1>0, WorkerCountType DEF Worker
    <2> QED
      BY <1>0, <1>1, <2>1, <2>2 DEF AggregateInv, TypeOK, ScanInv
  <1>5. Folded'
    BY <1>0, <1>1, NothingFolded DEF AggregateInv
  <1>6. Merged'
    <2>1. \A v \in 1..taken' : at'[v] = "done"
      BY <1>0, <1>3 DEF AggregateInv, Merged
    <2>2. CASE w \in threw
      <3>1. (1..taken') \ threw' = (1..taken) \ threw /\ (1..taken') \cap threw' # {}
        BY <1>0, <1>3, <2>2
      <3>2. caught' = TRUE /\ global' = global /\ local' = local
        BY <1>0, <2>2
      <3> QED
        BY <2>1, <3>1, <3>2 DEF AggregateInv, Merged
    <2>3. CASE w \notin threw
      <3>1. /\ (1..taken') \ threw' = ((1..taken) \ threw) \cup {w}
            /\ (1..taken') \cap threw' = (1..taken) \cap threw
        BY <1>0, <1>3, <2>3
      <3>2. caught' = caught /\ global' = global \o local[w] /\ local' = local
        BY <1>0, <2>3
      <3>3. Members(global) \cap Members(local[w]) = {}
        <4>1. \A v \in (1..taken) \ threw : Members(local[v]) \cap Members(local[w]) = {}
          BY <1>0, <1>3 DEF AggregateInv, Folded
        <4> QED
          BY <4>1 DEF AggregateInv, Merged
      <3>4. /\ Members(global \o local[w]) = Members(global) \cup Members(local[w])
            /\ Distinct(global \o local[w])
        BY <1>0, <1>2, <3>3, ConcatMembers DEF AggregateInv, Folded, Merged
      <3>5. (UNION {Members(local[v]) : v \in ((1..taken) \ threw) \cup {w}})
              = (UNION {Members(local[v]) : v \in (1..taken) \ threw}) \cup Members(local[w])
        OBVIOUS
      <3>6. Members(global \o local[w]) = UNION {Members(local[v]) : v \in ((1..taken) \ threw) \cup {w}}
        BY <3>4, <3>5 DEF AggregateInv, Merged
      <3>7. Members(global') = UNION {Members(local'[v]) : v \in (1..taken') \ threw'}
        BY <3>1, <3>2, <3>6
      <3>8. Distinct(global')
        BY <3>2, <3>4
      <3>9. caught' <=> (1..taken') \cap threw' # {}
        BY <3>1, <3>2 DEF AggregateInv, Merged
      <3> QED
        BY <2>1, <3>7, <3>8, <3>9 DEF Merged
    <2> QED
      BY <2>2, <2>3
  <1>7. Failing'
    BY <1>0 DEF AggregateInv, Failing
  <1>8. Calling'
    BY <1>0 DEF Calling
  <1> QED
    BY <1>1, <1>4, <1>5, <1>6, <1>7, <1>8 DEF AggregateInv

\* Submit fails, the tasks submitted are awaited, the last future has been taken, the
\* rows are given out.
LEMMA CallKeepsInv ==
    ASSUME AggregateInv, SubmitFails \/ Abandon \/ Collected \/ Output \/ UNCHANGED vars
    PROVE  AggregateInv'
  <1>0. /\ ScanTypeOK
        /\ UNCHANGED <<submitted, at, nextSeg, seg, pos, local, threw, taken, global, caught>>
        /\ cancelled' \in BOOLEAN /\ (cancelled => cancelled')
    <2>1. ScanTypeOK /\ cancelled \in BOOLEAN /\ caught \in BOOLEAN
      BY DEF AggregateInv, ScanInv, ScanTypeOK, TypeOK
    <2>2. UNCHANGED <<submitted, at, nextSeg, seg, pos, local, threw, taken, global, caught>>
      BY DEF SubmitFails, Abandon, Collected, Output, scanVars, vars, callVars
    <2>3. cancelled' = cancelled \/ cancelled' = TRUE \/ cancelled' = (cancelled \/ caught)
      BY DEF SubmitFails, Abandon, Collected, Output, scanVars, vars
    <2> QED
      BY <2>1, <2>2, <2>3
  <1>1. ScanInv' /\ Passed' = Passed
    BY <1>0, CancelKeepsScan DEF AggregateInv
  <1>2. coord' \in {"submit", "abandon", "collect", "output", "returned", "threw"}
    BY DEF SubmitFails, Abandon, Collected, Output, vars, callVars, AggregateInv, TypeOK
  <1>3. TypeOK'
    BY <1>0, <1>1, <1>2 DEF AggregateInv, TypeOK, ScanInv
  <1>4. Folded' /\ Merged'
    <2>1. Folded'
      BY <1>0, <1>1, NothingFolded DEF AggregateInv
    <2>2. Merged'
      BY <1>0 DEF AggregateInv, Merged
    <2> QED
      BY <2>1, <2>2
  <1>5. Failing' /\ Calling'
    <2>0. Joined' <=> Joined
      BY <1>0 DEF Joined
    <2>1. CASE SubmitFails
      BY <1>0, <2>1 DEF SubmitFails, AggregateInv, Failing, Calling
    <2>2. CASE Abandon
      BY <1>0, <2>0, <2>2 DEF Abandon, AggregateInv, Failing, Calling
    <2>3. CASE Collected
      <3>1. taken = WorkerCount /\ coord = "collect" /\ cancelled' = (cancelled \/ caught)
            /\ coord' = IF caught THEN "threw" ELSE "output"
        BY <2>3 DEF Collected
      <3>2. Joined
        <4>1. 1..submitted \subseteq 1..taken
          BY <3>1, WorkerCountType DEF AggregateInv, ScanInv, ScanTypeOK
        <4> QED
          BY <4>1 DEF AggregateInv, Merged, Joined
      <3> QED
        BY <1>0, <2>0, <3>1, <3>2 DEF AggregateInv, Failing, Calling
    <2>4. CASE Output
      BY <1>0, <2>0, <2>4 DEF Output, scanVars, AggregateInv, Failing, Calling
    <2>5. CASE UNCHANGED vars
      BY <1>0, <2>0, <2>5 DEF vars, scanVars, callVars, AggregateInv, Failing, Calling
    <2> QED
      BY <2>1, <2>2, <2>3, <2>4, <2>5
  <1> QED
    BY <1>1, <1>3, <1>4, <1>5 DEF AggregateInv

\* Every step keeps the invariant.
LEMMA NextAggregateInv == AggregateInv /\ [Next]_vars => AggregateInv'
  <1> SUFFICES ASSUME AggregateInv, [Next]_vars PROVE AggregateInv'
    OBVIOUS
  <1>1. ASSUME NEW w \in Worker, WorkerStep(w) \/ WorkerFails(w) PROVE AggregateInv'
    BY <1>1, ScansKeepInv, ConsumeKeepsInv, EndKeepsInv DEF WorkerStep
  <1>2. CASE CallStep
    BY <1>2, SubmitKeepsInv, CollectKeepsInv, CallKeepsInv DEF CallStep
  <1>3. CASE SubmitFails \/ Finished \/ UNCHANGED vars
    BY <1>3, CallKeepsInv DEF Finished
  <1> QED
    BY <1>1, <1>2, <1>3 DEF Next

\* The invariant holds throughout.
LEMMA AggregateInvHolds == Spec => []AggregateInv
  BY InitAggregateInv, NextAggregateInv, PTL DEF Spec

-----------------------------------------------------------------------------
(* What the invariant means for the caller *)

\* Type correctness of an aggregation.
THEOREM AggregateTypes == Spec => []TypeOK
  <1>1. AggregateInv => TypeOK
    BY DEF AggregateInv
  <1> QED
    BY <1>1, AggregateInvHolds, PTL

\* ExecuteAggregate ends only when every worker has left its stack frame.
THEOREM NobodyOnDeadStack == Spec => []WorkersInsideFrame
  <1>1. AggregateInv => WorkersInsideFrame
    BY DEF AggregateInv, TypeOK, Calling, WorkersInsideFrame, Frame
  <1> QED
    BY <1>1, AggregateInvHolds, PTL

\* Rows are computed from every batch of the snapshot, each counted once, or not at all.
THEOREM WholeOrNothing == Spec => []ResultIsWhole
  <1>1. ASSUME AggregateInv, coord \in {"output", "returned"}
        PROVE  Seen(global) = Batches /\ Distinct(global)
    <2>1. taken = WorkerCount /\ (1..taken) \cap threw = {}
      BY <1>1 DEF AggregateInv, Calling, Merged
    <2>2. 1..taken = Worker /\ threw = {}
      BY <1>1, <2>1 DEF AggregateInv, TypeOK, Worker
    <2>3. \A w \in Worker : at[w] = "done"
      BY <1>1, <2>2 DEF AggregateInv, Merged
    <2>4. ~ cancelled
      BY <1>1, <2>2, <2>3 DEF AggregateInv, Failing
    <2>5. Passed = Batches
      BY <1>1, <2>3, <2>4, AllPassed DEF AggregateInv
    <2>6. (1..taken) \ threw = Worker
      BY <2>2
    <2>7. Members(global) = Passed /\ Distinct(global)
      BY <1>1, <2>6 DEF AggregateInv, Merged, Folded
    <2> QED
      BY <2>5, <2>7 DEF Seen, Members
  <1>2. AggregateInv => ResultIsWhole
    BY <1>1 DEF ResultIsWhole, Distinct
  <1> QED
    BY <1>2, AggregateInvHolds, PTL
=============================================================================
