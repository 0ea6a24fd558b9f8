---------------------------- MODULE TableScanProofs ----------------------------
(***************************************************************************)
(* Theorems about the serial scan, for any predicates, batch size, and     *)
(* numbers of segments and rows: it returns exactly the matching rows, in  *)
(* order, whatever the statistics answer and whatever is published.  The   *)
(* last part is about the predicates themselves: what the statistics and   *)
(* the row filter compute is what the scan supposes of them.               *)
(***************************************************************************)
EXTENDS TableScan, Predicates, WellFoundedInduction, TLAPS

-----------------------------------------------------------------------------
(* The inductive invariant *)

\* The cursor has passed row i of segment s.
Passed(s, i) == s < current \/ (s = current /\ i <= offset)

\* Inside a call the cursor is on a segment; only the end takes it past the last one.
CursorOK ==
    /\ mode # "ended" => current \in 0..Len(segments)
    /\ mode = "ended" => current = Len(segments) + 1
    /\ mode \in {"scan", "crashed"} => current \in DOMAIN segments

\* The cursor stays inside its segment, and the predicates that are not evaluated row by
\* row hold of all its rows.
DecisionOK ==
    current \in DOMAIN segments =>
        /\ offset <= Len(Rows)
        /\ decided => \A i \in DOMAIN Rows : Pred \ mask \subseteq Rows[i]

\* Batches hold matching rows that the cursor has passed.
BatchesMatch ==
    \A k \in DOMAIN out :
        /\ out[k].rows # {}
        /\ out[k].segment \in DOMAIN segments
        /\ \A i \in out[k].rows :
              /\ i \in DOMAIN segments[out[k].segment]
              /\ Matching(out[k].segment, i)
              /\ Passed(out[k].segment, i)

BatchesOrdered ==
    \A k, l \in DOMAIN out : k < l =>
        \A i \in out[k].rows : \A j \in out[l].rows : Before(out[k].segment, i, out[l].segment, j)

\* Every matching row that the cursor has passed was returned.
NothingMissed ==
    \A s \in DOMAIN segments : \A i \in DOMAIN segments[s] :
        Matching(s, i) /\ Passed(s, i) => Returned(s, i)

ScanInv ==
    /\ TypeOK
    /\ CursorOK
    /\ DecisionOK
    /\ BatchesMatch
    /\ BatchesOrdered
    /\ NothingMissed

\* The rows of a segment, counted from 1.
LEMMA SegmentRows ==
    ASSUME NEW s \in Segment
    PROVE  /\ DOMAIN s = 1..Len(s) /\ Len(s) \in 1..MaxRows
           /\ \A i \in DOMAIN s : s[i] \subseteq Pred
  <1>1. PICK n \in 1..MaxRows : s \in [1..n -> Row]
    BY DEF Segment
  <1>2. MaxRows \in Nat /\ n \in Nat
    BY <1>1, ScanAssumption
  <1>3. DOMAIN s = 1..n /\ s \in Seq(Row)
    BY <1>1, <1>2
  <1>4. Len(s) = n
    BY <1>2, <1>3
  <1> QED
    BY <1>1, <1>3, <1>4 DEF Row

\* The segments, counted from 1.
LEMMA SegmentFields ==
    ASSUME TypeOK
    PROVE  /\ DOMAIN segments = 1..Len(segments) /\ Len(segments) \in 0..MaxSegments
           /\ \A s \in DOMAIN segments :
                 /\ segments[s] \in Segment
                 /\ DOMAIN segments[s] = 1..Len(segments[s]) /\ Len(segments[s]) \in 1..MaxRows
  <1>1. segments \in Seq(Segment) /\ Len(segments) <= MaxSegments /\ MaxSegments \in Nat
    BY ScanAssumption DEF TypeOK
  <1>2. /\ DOMAIN segments = 1..Len(segments) /\ Len(segments) \in 0..MaxSegments
        /\ \A s \in DOMAIN segments : segments[s] \in Segment
    BY <1>1
  <1> QED
    BY <1>2, SegmentRows

\* A batch that was returned.
LEMMA BatchFields ==
    ASSUME TypeOK, NEW k \in DOMAIN out
    PROVE  out[k].segment \in 1..MaxSegments /\ out[k].rows \subseteq 1..MaxRows
  <1>1. out[k] \in Batch
    BY DEF TypeOK
  <1> QED
    BY <1>1 DEF Batch

-----------------------------------------------------------------------------
(* The steps *)

LEMMA InitKeeps ==
    ASSUME Init
    PROVE  ScanInv
  <1>1. PICK n \in 0..MaxSegments : segments \in [1..n -> Segment]
    BY DEF Init
  <1>2. n \in Nat /\ n <= MaxSegments /\ MaxRows \in Nat
    BY <1>1, ScanAssumption
  <1>3. segments \in Seq(Segment) /\ Len(segments) = n /\ DOMAIN segments = 1..n
    BY <1>1, <1>2
  <1>4. /\ current = 0 /\ offset = 0 /\ decided = FALSE /\ mask = {} /\ mode = "idle"
        /\ out = <<>> /\ DOMAIN out = {}
    BY DEF Init
  <1>5. TypeOK
    <2>1. out \in Seq(Batch)
      BY <1>4
    <2>2. current \in 0..Len(segments) + 1 /\ offset \in 0..MaxRows /\ Len(segments) <= MaxSegments
      BY <1>2, <1>3, <1>4
    <2> QED
      BY <1>3, <1>4, <2>1, <2>2 DEF TypeOK
  <1>6. CursorOK /\ DecisionOK
    BY <1>2, <1>3, <1>4 DEF CursorOK, DecisionOK
  <1>7. BatchesMatch /\ BatchesOrdered
    BY <1>4 DEF BatchesMatch, BatchesOrdered
  <1>8. NothingMissed
    BY <1>2, <1>3, <1>4 DEF NothingMissed, Passed
  <1> QED
    BY <1>5, <1>6, <1>7, <1>8 DEF ScanInv

\* A new segment comes after all others, and the cursor is before it.
LEMMA PublishKeeps ==
    ASSUME ScanInv, NEW s \in Segment, Publish(s)
    PROVE  ScanInv'
  <1>1. /\ mode = "idle" /\ Len(segments) < MaxSegments /\ segments' = Append(segments, s)
        /\ UNCHANGED <<current, offset, decided, mask, mode, out>>
    BY DEF Publish, cursor
  <1>2. TypeOK /\ segments \in Seq(Segment) /\ Len(segments) \in Nat /\ MaxSegments \in Nat
    BY ScanAssumption DEF ScanInv, TypeOK
  <1>3. /\ segments' \in Seq(Segment) /\ Len(segments') = Len(segments) + 1
        /\ DOMAIN segments = 1..Len(segments)
        /\ DOMAIN segments' = DOMAIN segments \cup {Len(segments) + 1}
        /\ \A t \in DOMAIN segments : segments'[t] = segments[t]
        /\ Len(segments) + 1 \notin DOMAIN segments
    BY <1>1, <1>2
  <1>4. current \in 0..Len(segments)
    BY <1>1 DEF ScanInv, CursorOK
  <1>5. TypeOK'
    <2>1. current' \in 0..Len(segments') + 1 /\ Len(segments') <= MaxSegments
      BY <1>1, <1>2, <1>3, <1>4
    <2>2. /\ offset' \in 0..MaxRows /\ decided' \in BOOLEAN /\ mask' \subseteq Pred
          /\ mode' \in {"idle", "scan", "ended", "crashed"} /\ out' \in Seq(Batch)
      BY <1>1, <1>2 DEF TypeOK
    <2> QED
      BY <1>3, <2>1, <2>2 DEF TypeOK
  <1>6. CursorOK'
    BY <1>1, <1>2, <1>3, <1>4 DEF CursorOK
  <1>7. DecisionOK'
    <2>1. current \in DOMAIN segments' => current \in DOMAIN segments
      BY <1>2, <1>3, <1>4
    <2> QED
      BY <1>1, <1>3, <2>1 DEF ScanInv, DecisionOK, Rows
  <1>8. BatchesMatch' /\ BatchesOrdered'
    BY <1>1, <1>3 DEF ScanInv, BatchesMatch, BatchesOrdered, Matching, Passed, Before
  <1>9. NothingMissed'
    <2>1. \A t \in DOMAIN segments' : \A i : Passed(t, i)' => t \in DOMAIN segments
      BY <1>1, <1>2, <1>3, <1>4 DEF Passed
    <2>2. \A t, i : (Passed(t, i)' <=> Passed(t, i)) /\ (Returned(t, i)' <=> Returned(t, i))
      BY <1>1 DEF Passed, Returned
    <2> QED
      BY <1>1, <1>3, <2>1, <2>2 DEF ScanInv, NothingMissed, Matching
  <1> QED
    BY <1>5, <1>6, <1>7, <1>8, <1>9 DEF ScanInv

\* The cursor leaves a segment when all its matching rows were passed.
LEMMA AdvanceKeeps ==
    ASSUME ScanInv, Advance, UNCHANGED <<segments, out>>, mode # "ended",
           current \in DOMAIN segments =>
               \A i \in DOMAIN Rows : Matching(current, i) => Passed(current, i)
    PROVE  ScanInv'
  <1>1. TypeOK /\ current \in 0..Len(segments) /\ Len(segments) \in Nat
    BY DEF ScanInv, CursorOK, TypeOK
  <1>2. /\ current' = current + 1
        /\ current < Len(segments) =>
              offset' = 0 /\ decided' = FALSE /\ mask' = {} /\ mode' = "scan"
        /\ ~ (current < Len(segments)) =>
              mode' = "ended" /\ UNCHANGED <<offset, decided, mask>>
        /\ segments' = segments /\ out' = out
    BY DEF Advance
  <1>3. /\ DOMAIN segments = 1..Len(segments) /\ MaxRows \in Nat
        /\ \A s \in DOMAIN segments : DOMAIN segments[s] = 1..Len(segments[s]) /\ Len(segments[s]) \in Nat
    BY <1>1, SegmentFields, ScanAssumption
  <1>4. TypeOK'
    <2>1. current' \in 0..Len(segments') + 1 /\ offset' \in 0..MaxRows
      BY <1>1, <1>2, <1>3 DEF TypeOK
    <2>2. decided' \in BOOLEAN
      <3>1. CASE current < Len(segments)
        BY <1>2, <3>1
      <3>2. CASE ~ (current < Len(segments))
        BY <1>1, <1>2, <3>2 DEF TypeOK
      <3> QED
        BY <3>1, <3>2
    <2>3. mask' \subseteq Pred /\ mode' \in {"idle", "scan", "ended", "crashed"}
      BY <1>1, <1>2 DEF TypeOK
    <2> QED
      BY <1>1, <1>2, <2>1, <2>2, <2>3 DEF TypeOK
  <1>5. CursorOK'
    BY <1>1, <1>2, <1>3 DEF CursorOK
  <1>6. DecisionOK'
    BY <1>1, <1>2, <1>3 DEF DecisionOK, Rows
  <1>7. \A s \in DOMAIN segments : \A i \in DOMAIN segments[s] : Passed(s, i) => Passed(s, i)'
    BY <1>1, <1>2, <1>3 DEF Passed, TypeOK
  <1>8. \A s \in DOMAIN segments : \A i \in DOMAIN segments[s] :
           Matching(s, i) /\ Passed(s, i)' => Passed(s, i)
    <2> SUFFICES ASSUME NEW s \in DOMAIN segments, NEW i \in DOMAIN segments[s],
                        Matching(s, i), Passed(s, i)'
                 PROVE  Passed(s, i)
      OBVIOUS
    <2>1. CASE s < current
      BY <2>1 DEF Passed
    <2>2. CASE s = current
      BY <2>2 DEF Rows
    <2>3. CASE s > current
      <3>1. s = current' /\ current < Len(segments)
        BY <1>1, <1>2, <1>3, <2>3 DEF Passed
      <3> QED
        BY <1>1, <1>2, <1>3, <3>1 DEF Passed
    <2> QED
      BY <1>1, <1>3, <2>1, <2>2, <2>3
  <1>9. BatchesMatch' /\ BatchesOrdered'
    BY <1>2, <1>7 DEF ScanInv, BatchesMatch, BatchesOrdered, Matching, Before
  <1>10. NothingMissed'
    BY <1>2, <1>8 DEF ScanInv, NothingMissed, Matching, Returned
  <1> QED
    BY <1>4, <1>5, <1>6, <1>9, <1>10 DEF ScanInv

\* A call of Scan: the first one moves to the first segment.
LEMMA ScanCallKeeps ==
    ASSUME ScanInv, ScanCall
    PROVE  ScanInv'
  <1>1. mode = "idle" /\ UNCHANGED <<segments, out>>
    BY DEF ScanCall
  <1>2. TypeOK /\ DOMAIN segments = 1..Len(segments) /\ Len(segments) \in Nat /\ current \in 0..Len(segments)
    BY <1>1, SegmentFields DEF ScanInv, CursorOK
  <1>3. CASE current = 0
    BY <1>1, <1>2, <1>3, AdvanceKeeps DEF ScanCall
  <1>4. CASE current # 0
    <2>1. mode' = "scan" /\ UNCHANGED <<segments, out, current, offset, decided, mask>>
      BY <1>4 DEF ScanCall, cursor
    <2>2. TypeOK'
      BY <1>2, <2>1 DEF TypeOK
    <2>3. CursorOK'
      BY <1>2, <1>4, <2>1 DEF CursorOK
    <2> QED
      BY <2>1, <2>2, <2>3 DEF ScanInv, DecisionOK, Rows, BatchesMatch, BatchesOrdered, NothingMissed,
                              Matching, Passed, Returned, Before
  <1> QED
    BY <1>3, <1>4

\* A crash changes nothing else.
LEMMA OpenFailsKeeps ==
    ASSUME ScanInv, OpenFails
    PROVE  ScanInv'
  <1>1. mode = "scan" /\ mode' = "crashed" /\ UNCHANGED <<segments, current, offset, decided, mask, out>>
    BY DEF OpenFails, cursor
  <1>2. TypeOK' /\ CursorOK'
    BY <1>1 DEF ScanInv, TypeOK, CursorOK
  <1> QED
    BY <1>1, <1>2 DEF ScanInv, DecisionOK, Rows, BatchesMatch, BatchesOrdered, NothingMissed,
                      Matching, Passed, Returned, Before

\* What the statistics prove: a predicate answered "skip" holds of no row, one answered
\* "all" of every row.
LEMMA VerdictsAreTrue ==
    ASSUME NEW p \in Pred
    PROVE  /\ "skip" \in Verdicts(p) => \A i \in DOMAIN Rows : p \notin Rows[i]
           /\ "all" \in Verdicts(p) => \A i \in DOMAIN Rows : p \in Rows[i]
  BY DEF Verdicts

\* The decision for a segment: skipped without losing a row, or filtered by what the
\* statistics could not prove.
LEMMA DecideKeeps ==
    ASSUME ScanInv, Decide
    PROVE  ScanInv'
  <1>1. mode = "scan" /\ UNCHANGED <<segments, out>>
    BY DEF Decide
  <1>2. PICK verdict \in [Pred -> {"skip", "all", "filter"}] :
          /\ \A p \in Pred : verdict[p] \in Verdicts(p)
          /\ IF \E p \in Pred : verdict[p] = "skip"
             THEN Advance
             ELSE /\ decided' = TRUE
                  /\ mask' = {p \in Pred : verdict[p] = "filter"}
                  /\ UNCHANGED <<current, offset, mode>>
    BY DEF Decide
  <1>3. current \in DOMAIN segments
    BY <1>1 DEF ScanInv, CursorOK
  <1>4. CASE \E p \in Pred : verdict[p] = "skip"
    <2>1. PICK p \in Pred : verdict[p] = "skip"
      BY <1>4
    <2>2. \A i \in DOMAIN Rows : p \notin Rows[i]
      BY <1>2, <2>1, VerdictsAreTrue
    <2>3. \A i \in DOMAIN Rows : ~ Matching(current, i)
      BY <2>2 DEF Matching, Rows
    <2> QED
      BY <1>1, <1>2, <1>4, <2>3, AdvanceKeeps
  <1>5. CASE ~ \E p \in Pred : verdict[p] = "skip"
    <2>1. /\ decided' = TRUE /\ mask' = {p \in Pred : verdict[p] = "filter"}
          /\ UNCHANGED <<segments, out, current, offset, mode>>
      BY <1>1, <1>2, <1>5
    <2>2. \A i \in DOMAIN Rows : Pred \ mask' \subseteq Rows[i]
      <3> SUFFICES ASSUME NEW i \in DOMAIN Rows, NEW p \in Pred \ mask'
                   PROVE  p \in Rows[i]
        OBVIOUS
      <3>1. verdict[p] = "all"
        BY <1>5, <2>1
      <3> QED
        BY <1>2, <3>1, VerdictsAreTrue
    <2>3. TypeOK' /\ CursorOK'
      BY <2>1 DEF ScanInv, TypeOK, CursorOK
    <2>4. DecisionOK'
      BY <2>1, <2>2 DEF ScanInv, DecisionOK, Rows
    <2> QED
      BY <2>1, <2>3, <2>4 DEF ScanInv, BatchesMatch, BatchesOrdered, NothingMissed,
                              Matching, Passed, Returned, Before
  <1> QED
    BY <1>4, <1>5

\* The rows that pass the filter are the matching ones of the batch.
LEMMA PassingIsMatching ==
    ASSUME ScanInv, mode = "scan", decided, offset < Len(Rows)
    PROVE  /\ BatchEnd \in Nat /\ offset < BatchEnd /\ BatchEnd <= Len(Rows) /\ BatchEnd <= MaxRows
           /\ Passing \subseteq 1..MaxRows
           /\ \A i : i \in Passing <=>
                 i \in DOMAIN Rows /\ offset < i /\ i <= BatchEnd /\ Matching(current, i)
  <1>1. TypeOK /\ current \in DOMAIN segments /\ MaxRows \in Nat /\ BatchRows \in Nat \ {0} /\ offset \in Nat
    BY ScanAssumption DEF ScanInv, CursorOK, TypeOK
  <1>2. Rows \in Segment /\ DOMAIN Rows = 1..Len(Rows) /\ Len(Rows) \in 1..MaxRows
    BY <1>1, SegmentFields DEF Rows
  <1>3. BatchEnd \in Nat /\ offset < BatchEnd /\ BatchEnd <= Len(Rows) /\ BatchEnd <= MaxRows
    BY <1>1, <1>2 DEF BatchEnd
  <1>4. \A i \in DOMAIN Rows : Pred \ mask \subseteq Rows[i] /\ mask \subseteq Pred
    BY <1>1 DEF ScanInv, DecisionOK, TypeOK
  <1>5. \A i \in DOMAIN Rows : mask \subseteq Rows[i] <=> Pred \subseteq Rows[i]
    BY <1>4
  <1>6. \A i : i \in offset + 1 .. BatchEnd <=> i \in DOMAIN Rows /\ offset < i /\ i <= BatchEnd
    BY <1>1, <1>2, <1>3
  <1>7. \A i : i \in Passing <=> i \in DOMAIN Rows /\ offset < i /\ i <= BatchEnd /\ Matching(current, i)
    BY <1>5, <1>6 DEF Passing, Matching, Rows
  <1>8. Passing \subseteq 1..MaxRows
    BY <1>1, <1>2, <1>7
  <1> QED
    BY <1>3, <1>7, <1>8

\* The batches returned after one more: those before it and the new one.
LEMMA OneMoreBatch ==
    ASSUME TypeOK, NEW b \in Batch, out' = Append(out, b)
    PROVE  /\ out' \in Seq(Batch)
           /\ DOMAIN out' = DOMAIN out \cup {Len(out) + 1}
           /\ \A k \in DOMAIN out : out'[k] = out[k] /\ k \in Nat /\ k <= Len(out)
           /\ out'[Len(out) + 1] = b /\ Len(out) \in Nat
  <1>1. out \in Seq(Batch)
    BY DEF TypeOK
  <1> QED
    BY <1>1

\* The cursor moves over the rows of one batch, and those that match are returned.
LEMMA ReadBatchKeeps ==
    ASSUME ScanInv, ReadBatch
    PROVE  ScanInv'
  <1>1. /\ mode = "scan" /\ decided /\ offset < Len(Rows) /\ offset' = BatchEnd
        /\ UNCHANGED <<segments, current, decided, mask>>
        /\ Passing = {} => UNCHANGED <<mode, out>>
        /\ Passing # {} => mode' = "idle" /\ out' = Append(out, [segment |-> current, rows |-> Passing])
    BY DEF ReadBatch
  <1>2. /\ TypeOK /\ current \in DOMAIN segments /\ MaxRows \in Nat /\ offset \in Nat
        /\ DOMAIN segments = 1..Len(segments) /\ Len(segments) \in 0..MaxSegments /\ MaxSegments \in Nat
        /\ \A s \in DOMAIN segments : DOMAIN segments[s] = 1..Len(segments[s]) /\ Len(segments[s]) \in Nat
    BY <1>1, SegmentFields, ScanAssumption DEF ScanInv, CursorOK, TypeOK
  <1>3. /\ BatchEnd \in Nat /\ offset < BatchEnd /\ BatchEnd <= Len(Rows) /\ BatchEnd <= MaxRows
        /\ Passing \subseteq 1..MaxRows
        /\ \A i : i \in Passing <=>
              i \in DOMAIN Rows /\ offset < i /\ i <= BatchEnd /\ Matching(current, i)
    BY <1>1, PassingIsMatching
  <1>4. CursorOK'
    BY <1>1, <1>2 DEF ScanInv, CursorOK
  <1>5. DecisionOK'
    BY <1>1, <1>3 DEF ScanInv, DecisionOK, Rows
  <1>6. \A s \in DOMAIN segments : \A i \in DOMAIN segments[s] :
           Passed(s, i)' <=> Passed(s, i) \/ (s = current /\ offset < i /\ i <= BatchEnd)
    BY <1>1, <1>2, <1>3 DEF Passed
  <1>7. \A s, i : Matching(s, i)' <=> Matching(s, i)
    BY <1>1 DEF Matching
  <1>8. \A s \in DOMAIN segments : \A i \in DOMAIN segments[s] :
           Matching(s, i) /\ Passed(s, i)' => Returned(s, i) \/ (s = current /\ i \in Passing)
    BY <1>3, <1>6 DEF ScanInv, NothingMissed, Rows
  <1>9. CASE Passing = {}
    <2>1. TypeOK'
      BY <1>1, <1>2, <1>3, <1>9 DEF TypeOK
    <2>2. BatchesMatch' /\ BatchesOrdered'
      BY <1>1, <1>6, <1>7, <1>9 DEF ScanInv, BatchesMatch, BatchesOrdered, Before
    <2>3. NothingMissed'
      BY <1>1, <1>7, <1>8, <1>9 DEF NothingMissed, Returned
    <2> QED
      BY <1>4, <1>5, <2>1, <2>2, <2>3 DEF ScanInv
  <1>10. CASE Passing # {}
    <2> DEFINE b == [segment |-> current, rows |-> Passing]
               n == Len(out) + 1
    <2>1. b \in Batch /\ b.segment = current /\ b.rows = Passing
      BY <1>2, <1>3 DEF Batch
    <2>2. mode' = "idle" /\ out' = Append(out, b)
      BY <1>1, <1>10
    <2> HIDE DEF b
    <2>3. /\ out' \in Seq(Batch)
          /\ DOMAIN out' = DOMAIN out \cup {n}
          /\ \A k \in DOMAIN out : out'[k] = out[k] /\ k \in Nat /\ k < n
          /\ out'[n] = b /\ n \in Nat
      BY <1>2, <2>1, <2>2, OneMoreBatch
    <2> HIDE DEF n
    <2>4. TypeOK'
      BY <1>1, <1>2, <1>3, <2>2, <2>3 DEF TypeOK
    <2>5. BatchesMatch'
      <3>1. ASSUME NEW k \in DOMAIN out
            PROVE  /\ out'[k].rows # {} /\ out'[k].segment \in DOMAIN segments
                   /\ \A i \in out'[k].rows :
                         /\ i \in DOMAIN segments[out'[k].segment]
                         /\ Matching(out'[k].segment, i) /\ Passed(out[k].segment, i)'
        BY <1>6, <2>3 DEF ScanInv, BatchesMatch, Passed
      <3>2. \A i \in Passing :
               i \in DOMAIN segments[current] /\ Matching(current, i) /\ Passed(current, i)'
        BY <1>1, <1>2, <1>3 DEF Rows, Passed
      <3> QED
        BY <1>1, <1>2, <1>7, <1>10, <2>1, <2>3, <3>1, <3>2 DEF BatchesMatch
    <2>6. BatchesOrdered'
      <3>1. \A k \in DOMAIN out : \A i \in out[k].rows : \A j \in Passing : Before(out[k].segment, i, current, j)
        <4> SUFFICES ASSUME NEW k \in DOMAIN out, NEW i \in out[k].rows, NEW j \in Passing
                     PROVE  Before(out[k].segment, i, current, j)
          OBVIOUS
        <4>1. Passed(out[k].segment, i)
          BY DEF ScanInv, BatchesMatch
        <4>2. out[k].rows \subseteq 1..MaxRows /\ j \in 1..MaxRows /\ offset < j
          BY <1>2, <1>3, BatchFields
        <4> QED
          BY <1>2, <4>1, <4>2 DEF Passed, Before
      <3>2. ASSUME NEW k \in DOMAIN out', NEW l \in DOMAIN out', k < l,
                   NEW i \in out'[k].rows, NEW j \in out'[l].rows
            PROVE  Before(out'[k].segment, i, out'[l].segment, j)
        <4>1. k \in DOMAIN out
          BY <2>3, <3>2
        <4>2. CASE l \in DOMAIN out
          BY <2>3, <3>2, <4>1, <4>2 DEF ScanInv, BatchesOrdered
        <4>3. CASE l = n
          BY <2>1, <2>3, <3>1, <3>2, <4>1, <4>3
        <4> QED
          BY <2>3, <4>2, <4>3
      <3> QED
        BY <3>2 DEF BatchesOrdered, Before
    <2>7. NothingMissed'
      <3>1. \A s, i : Returned(s, i) => Returned(s, i)'
        BY <2>3 DEF Returned
      <3>2. \A i \in Passing : Returned(current, i)'
        BY <1>1, <2>1, <2>3 DEF Returned
      <3> QED
        BY <1>1, <1>7, <1>8, <3>1, <3>2 DEF NothingMissed
    <2> QED
      BY <1>4, <1>5, <2>4, <2>5, <2>6, <2>7 DEF ScanInv
  <1> QED
    BY <1>9, <1>10

\* A segment is left when the cursor is at its end.
LEMMA SegmentEndsKeeps ==
    ASSUME ScanInv, SegmentEnds
    PROVE  ScanInv'
  <1>1. mode = "scan" /\ offset >= Len(Rows) /\ Advance /\ UNCHANGED <<segments, out>>
    BY DEF SegmentEnds
  <1>2. /\ current \in DOMAIN segments /\ offset \in Nat
        /\ DOMAIN segments[current] = 1..Len(segments[current]) /\ Len(segments[current]) \in Nat
    BY <1>1, SegmentFields, ScanAssumption DEF ScanInv, CursorOK, TypeOK
  <1>3. \A i \in DOMAIN Rows : Passed(current, i)
    BY <1>1, <1>2 DEF Rows, Passed
  <1> QED
    BY <1>1, <1>3, AdvanceKeeps

-----------------------------------------------------------------------------
(* The theorems *)

\* The invariant holds of every scan (TableStorage::Scan, ScanSegment).
THEOREM ScanKeepsPlace == Spec => []ScanInv
  <1>1. ScanInv /\ [Next]_vars => ScanInv'
    <2> SUFFICES ASSUME ScanInv, [Next]_vars
                 PROVE  ScanInv'
      OBVIOUS
    <2>1. ASSUME NEW s \in Segment, Publish(s)
          PROVE  ScanInv'
      BY <2>1, PublishKeeps
    <2>2. CASE ScanCall
      BY <2>2, ScanCallKeeps
    <2>3. CASE Decide
      BY <2>3, DecideKeeps
    <2>4. CASE ReadBatch
      BY <2>4, ReadBatchKeeps
    <2>5. CASE SegmentEnds
      BY <2>5, SegmentEndsKeeps
    <2>6. CASE OpenFails
      BY <2>6, OpenFailsKeeps
    <2>7. CASE UNCHANGED vars
      <3>1. UNCHANGED <<segments, current, offset, decided, mask, mode, out>>
        BY <2>7 DEF vars, cursor
      <3>2. TypeOK' /\ CursorOK' /\ DecisionOK'
        BY <3>1 DEF ScanInv, TypeOK, CursorOK, DecisionOK, Rows
      <3> QED
        BY <3>1, <3>2 DEF ScanInv, BatchesMatch, BatchesOrdered, NothingMissed,
                          Matching, Passed, Returned, Before
    <2> QED
      BY <2>1, <2>2, <2>3, <2>4, <2>5, <2>6, <2>7 DEF Next, ScanStep, Stopped
  <1> QED
    BY <1>1, InitKeeps, PTL DEF Spec

\* The variables of a scan keep their types.
THEOREM ScanTypes == Spec => []TypeOK
  <1>1. ScanInv => TypeOK
    BY DEF ScanInv
  <1> QED
    BY <1>1, ScanKeepsPlace, PTL

\* Rows before a returned one were passed; at the end all were.
LEMMA InvGivesExact ==
    ASSUME ScanInv
    PROVE  ScanIsExact
  <1>1. /\ TypeOK /\ DOMAIN segments = 1..Len(segments) /\ Len(segments) \in Nat
        /\ \A s \in DOMAIN segments : DOMAIN segments[s] = 1..Len(segments[s]) /\ Len(segments[s]) \in Nat
        /\ current \in Nat /\ offset \in Nat
    BY SegmentFields, ScanAssumption DEF ScanInv, TypeOK
  <1>2. ASSUME NEW s \in DOMAIN segments, NEW i \in DOMAIN segments[s], Matching(s, i),
               \/ mode = "ended"
               \/ \E k \in DOMAIN out : \E j \in out[k].rows : Before(s, i, out[k].segment, j)
        PROVE  Returned(s, i)
    <2>1. CASE mode = "ended"
      <3>1. s < current
        BY <1>1, <2>1 DEF ScanInv, CursorOK
      <3> QED
        BY <1>2, <3>1 DEF ScanInv, NothingMissed, Passed
    <2>2. CASE \E k \in DOMAIN out : \E j \in out[k].rows : Before(s, i, out[k].segment, j)
      <3>1. PICK k \in DOMAIN out : \E j \in out[k].rows : Before(s, i, out[k].segment, j)
        BY <2>2
      <3>2. PICK j \in out[k].rows : Before(s, i, out[k].segment, j)
        BY <3>1
      <3>3. Passed(out[k].segment, j) /\ out[k].segment \in DOMAIN segments /\ j \in DOMAIN segments[out[k].segment]
        BY DEF ScanInv, BatchesMatch
      <3>4. Passed(s, i)
        <4>1. out[k].segment \in Nat /\ j \in Nat /\ s \in Nat /\ i \in Nat
          BY <1>1, <3>3
        <4> QED
          BY <1>1, <3>2, <3>3, <4>1 DEF Passed, Before
      <3> QED
        BY <1>2, <3>4 DEF ScanInv, NothingMissed
    <2> QED
      BY <1>2, <2>1, <2>2
  <1>3. \A k \in DOMAIN out :
           LET s == out[k].segment IN
             /\ out[k].rows # {}
             /\ s \in DOMAIN segments
             /\ \A i \in out[k].rows : i \in DOMAIN segments[s] /\ Matching(s, i)
    BY DEF ScanInv, BatchesMatch
  <1>4. \A k, l \in DOMAIN out : k < l =>
           \A i \in out[k].rows : \A j \in out[l].rows : Before(out[k].segment, i, out[l].segment, j)
    BY DEF ScanInv, BatchesOrdered
  <1> QED
    BY <1>2, <1>3, <1>4 DEF ScanIsExact

\* A serial scan returns exactly the rows that satisfy all pushed predicates, in storage
\* order, whatever the statistics answer and whichever segments a Flush publishes.
THEOREM SerialScanIsExact == Spec => []ScanIsExact
  BY ScanKeepsPlace, InvGivesExact, PTL

-----------------------------------------------------------------------------
(* What the statistics of a segment decide *)

\* A set of natural numbers that is not empty has a least member.
LEMMA LeastNumber ==
    ASSUME NEW S, S \subseteq Nat, S # {}
    PROVE  \E x \in S : \A y \in S : x <= y
  <1>1. PICK x \in S : \A y \in S : ~ (<<y, x>> \in OpToRel(<, Nat))
    BY WFMin, NatLessThanWellFounded, Zenon
  <1>2. \A y \in S : ~ (y < x)
    BY <1>1 DEF OpToRel
  <1> QED
    BY <1>2

\* A nonempty set of integers has a least element, and a greatest, if it can be numbered.
LEMMA NumberedExtremes ==
    ASSUME NEW last \in Nat \ {0}, NEW f \in [1..last -> Int]
    PROVE  /\ \E i \in 1..last : \A j \in 1..last : f[i] <= f[j]
           /\ \E i \in 1..last : \A j \in 1..last : f[i] >= f[j]
  <1> DEFINE least(k) == \E i \in 1..k : \A j \in 1..k : f[i] <= f[j]
             most(k)  == \E i \in 1..k : \A j \in 1..k : f[i] >= f[j]
             Bad == {k \in 1..last : ~ (least(k) /\ most(k))}
  <1>1. SUFFICES ASSUME Bad # {} PROVE FALSE
    <2>1. last \in 1..last
      OBVIOUS
    <2> QED
      BY <1>1, <2>1
  <1>2. PICK k \in Bad : \A x \in Bad : k <= x
    <2>1. Bad \subseteq Nat
      OBVIOUS
    <2> HIDE DEF Bad
    <2> QED
      BY <1>1, <2>1, LeastNumber
  <1>3. k \in 1..last /\ ~ (least(k) /\ most(k))
    BY <1>2
  <1>4. CASE k = 1
    <2>1. 1 \in 1..k /\ \A j \in 1..k : f[1] <= f[j] /\ f[1] >= f[j]
      BY <1>4
    <2> QED
      BY <1>3, <2>1
  <1>5. CASE k # 1
    <2>1. k - 1 \in 1..last /\ k - 1 < k
      BY <1>3, <1>5
    <2>2. k - 1 \notin Bad
      <3> HIDE DEF Bad
      <3>1. k - 1 \in Bad => k <= k - 1
        BY <1>2
      <3> QED
        BY <2>1, <1>3, <3>1
    <2>3. least(k - 1) /\ most(k - 1)
      BY <2>1, <2>2
    <2>4. PICK a \in 1..k - 1 : \A j \in 1..k - 1 : f[a] <= f[j]
      BY <2>3
    <2>5. PICK b \in 1..k - 1 : \A j \in 1..k - 1 : f[b] >= f[j]
      BY <2>3
    <2>6. 1..k = (1..k - 1) \cup {k} /\ a \in 1..last /\ b \in 1..last
      BY <1>3, <1>5
    <2>7. f[a] \in Int /\ f[b] \in Int /\ f[k] \in Int
      BY <1>3, <2>6
    <2>8. least(k)
      <3>1. CASE f[a] <= f[k]
        BY <3>1, <2>4, <2>6
      <3>2. CASE f[k] < f[a]
        <4>1. \A j \in 1..k - 1 : f[k] <= f[j]
          <5>1. \A j \in 1..k - 1 : f[j] \in Int
            BY <1>3, <2>6
          <5> QED
            BY <5>1, <3>2, <2>4, <2>7
        <4>2. k \in 1..k /\ f[k] <= f[k]
          BY <1>3, <2>7
        <4> QED
          BY <4>1, <4>2, <2>6
      <3> QED
        BY <3>1, <3>2, <2>7
    <2>9. most(k)
      <3>1. CASE f[b] >= f[k]
        BY <3>1, <2>5, <2>6
      <3>2. CASE f[k] > f[b]
        <4>1. \A j \in 1..k - 1 : f[k] >= f[j]
          <5>1. \A j \in 1..k - 1 : f[j] \in Int
            BY <1>3, <2>6
          <5> QED
            BY <5>1, <3>2, <2>5, <2>7
        <4>2. k \in 1..k /\ f[k] >= f[k]
          BY <1>3, <2>7
        <4> QED
          BY <4>1, <4>2, <2>6
      <3> QED
        BY <3>1, <3>2, <2>7
    <2> QED
      BY <1>3, <2>8, <2>9
  <1> QED
    BY <1>4, <1>5

\* What a column's statistics are, when its values are doubles.
LEMMA StatsAreBounds ==
    ASSUME NEW last \in Nat \ {0}, NEW rows, DOMAIN rows = 1..last, NEW c,
           \A i \in DOMAIN rows : rows[i][c].n \in Int,
           \A i \in DOMAIN rows : Round(MantissaBits.DOUBLE, rows[i][c].n) = rows[i][c].n
    PROVE  LET st == ColumnStats(rows, c) IN
             /\ \E i \in DOMAIN rows : st.min = rows[i][c].n
             /\ \E i \in DOMAIN rows : st.max = rows[i][c].n
             /\ \A i \in DOMAIN rows : st.min <= rows[i][c].n /\ rows[i][c].n <= st.max
  <1> DEFINE f  == [i \in 1..last |-> rows[i][c].n]
             ns == {Round(MantissaBits.DOUBLE, rows[i][c].n) : i \in DOMAIN rows}
             st == ColumnStats(rows, c)
  <1>1. f \in [1..last -> Int]
    OBVIOUS
  <1>2. /\ \E i \in 1..last : \A j \in 1..last : f[i] <= f[j]
        /\ \E i \in 1..last : \A j \in 1..last : f[i] >= f[j]
    <2> HIDE DEF f
    <2> QED
      BY <1>1, NumberedExtremes
  <1>3. ns = {f[i] : i \in 1..last}
    OBVIOUS
  <1>4. st.min = Min(ns) /\ st.max = Max(ns)
    BY DEF ColumnStats
  <1> HIDE DEF ns, st
  <1>5. \E x \in ns : \A y \in ns : x <= y
    <2> HIDE DEF f
    <2> QED
      BY <1>2, <1>3
  <1>6. \E x \in ns : \A y \in ns : x >= y
    <2> HIDE DEF f
    <2> QED
      BY <1>2, <1>3
  <1>7. Min(ns) \in ns /\ \A y \in ns : Min(ns) <= y
    BY <1>5 DEF Min
  <1>8. Max(ns) \in ns /\ \A y \in ns : Max(ns) >= y
    BY <1>6 DEF Max
  <1>9. /\ \E i \in DOMAIN rows : st.min = f[i]
        /\ \E i \in DOMAIN rows : st.max = f[i]
        /\ \A i \in DOMAIN rows : st.min <= f[i] /\ st.max >= f[i]
    <2> HIDE DEF f
    <2> QED
      BY <1>3, <1>4, <1>7, <1>8
  <1>10. \A i \in DOMAIN rows : f[i] = rows[i][c].n /\ f[i] \in Int
    OBVIOUS
  <1> HIDE DEF f
  <1>11. /\ \E i \in DOMAIN rows : st.min = rows[i][c].n
         /\ \E i \in DOMAIN rows : st.max = rows[i][c].n
         /\ \A i \in DOMAIN rows : st.min <= rows[i][c].n /\ rows[i][c].n <= st.max
    BY <1>9, <1>10
  <1> QED
    BY <1>11 DEF st

\* What EvaluateByStats answers is true of every value between the bounds.
LEMMA AnswersAreTrue ==
    ASSUME NEW st, st.has \in BOOLEAN, st.min \in Int, st.max \in Int, NEW v \in Int, NEW op \in CmpOps,
           NEW n \in Int, st.min <= n, n <= st.max
    PROVE  LET answer == EvaluateByStats(st, op, v) IN
             /\ answer \in {"SKIP", "ALL_MATCH", "NEED_FILTER"}
             /\ answer = "SKIP" => ~ Compares(op, n, v)
             /\ answer = "ALL_MATCH" => Compares(op, n, v)
  <1>1. CASE ~ st.has
    BY <1>1 DEF EvaluateByStats
  <1>2. CASE st.has
    <2>1. CASE op = "="
      BY <1>2, <2>1 DEF EvaluateByStats, Compares
    <2>2. CASE op = "!="
      BY <1>2, <2>2 DEF EvaluateByStats, Compares
    <2>3. CASE op = ">"
      BY <1>2, <2>3 DEF EvaluateByStats, Compares
    <2>4. CASE op = ">="
      BY <1>2, <2>4 DEF EvaluateByStats, Compares
    <2>5. CASE op = "<"
      BY <1>2, <2>5 DEF EvaluateByStats, Compares
    <2>6. CASE op = "<="
      BY <1>2, <2>6 DEF EvaluateByStats, Compares
    <2> QED
      BY <2>1, <2>2, <2>3, <2>4, <2>5, <2>6 DEF CmpOps
  <1> QED
    BY <1>1, <1>2

-----------------------------------------------------------------------------
(* What a predicate is rewritten to for its column *)

\* The range of an integer type; the provers do not know powers of two.
HasRange(type) == Lowest(type) \in Int /\ Highest(type) \in Int

\* The numbers a column of the type holds, in halves.
Storable(type, n) ==
    /\ n \in Int
    /\ IsInteger(type) => HasRange(type) /\ n \in Lowest(type)..Highest(type) /\ n % 2 = 0

\* A number that is a double, and a literal that loses nothing in a column of the type.
IsDouble(n)      == n \in Int /\ Round(MantissaBits.DOUBLE, n) = n
FitsIn(type, n)  == IsDouble(n) /\ (IsFloating(type) => Round(MantissaBits[type], n) = n)

\* Comparing with an integer literal, inside the range of the type or not.
LEMMA ConstantIsExact ==
    ASSUME NEW type, HasRange(type), NEW op \in CmpOps, NEW lit \in Int,
           NEW n \in Lowest(type)..Highest(type)
    PROVE  Passes(SetIntegerConstantPredicate(type, op, lit), n) <=> Compares(op, n, lit)
  <1> DEFINE q == SetIntegerConstantPredicate(type, op, lit)
  <1>1. n \in Int /\ Lowest(type) \in Int /\ Highest(type) \in Int
        /\ Lowest(type) <= n /\ n <= Highest(type)
    BY DEF HasRange
  <1>2. CASE lit < Lowest(type)
    <2>1. q = Always(op \in {"!=", ">", ">="})
      BY <1>2 DEF SetIntegerConstantPredicate
    <2>2. Passes(q, n) <=> op \in {"!=", ">", ">="}
      BY <2>1 DEF Passes, Always
    <2> QED
      BY <1>1, <1>2, <2>2 DEF Compares, CmpOps
  <1>3. CASE lit > Highest(type)
    <2>1. ~ (lit < Lowest(type))
      BY <1>1, <1>3
    <2>2. q = Always(op \in {"!=", "<", "<="})
      BY <1>3, <2>1 DEF SetIntegerConstantPredicate
    <2>3. Passes(q, n) <=> op \in {"!=", "<", "<="}
      BY <2>2 DEF Passes, Always
    <2> QED
      BY <1>1, <1>3, <2>3 DEF Compares, CmpOps
  <1>4. CASE ~ (lit < Lowest(type)) /\ ~ (lit > Highest(type))
    <2>1. q = TypedCompare(op, lit)
      BY <1>4 DEF SetIntegerConstantPredicate
    <2> QED
      BY <2>1 DEF Passes, TypedCompare
  <1> QED
    BY <1>2, <1>3, <1>4

\* Comparing an integer with a literal that may have a fraction.
LEMMA FractionIsExact ==
    ASSUME NEW type, HasRange(type), NEW op \in CmpOps, NEW lit \in Int,
           NEW n \in Lowest(type)..Highest(type), n % 2 = 0
    PROVE  Passes(SetIntegerDoublePredicate(type, op, lit), n) <=> Compares(op, n, lit)
  <1> DEFINE q == SetIntegerDoublePredicate(type, op, lit)
  <1>1. n \in Int
    BY DEF HasRange
  <1>2. CASE lit \notin Lowest(type)..(Highest(type) + 1) \/ lit % 2 = 0
    <2>1. q = SetIntegerConstantPredicate(type, op, lit)
      BY <1>2 DEF SetIntegerDoublePredicate
    <2> QED
      BY <2>1, ConstantIsExact
  <1>3. CASE ~ (lit \notin Lowest(type)..(Highest(type) + 1) \/ lit % 2 = 0)
    <2>1. lit % 2 = 1 /\ lit # n /\ lit - 1 \in Int /\ lit + 1 \in Int
      BY <1>1, <1>3
    <2>2. CASE op \in {"=", "!="}
      <3>1. q = Always(op = "!=")
        BY <1>3, <2>2 DEF SetIntegerDoublePredicate
      <3>2. Passes(q, n) <=> op = "!="
        BY <3>1 DEF Passes, Always
      <3> QED
        BY <2>1, <2>2, <3>2 DEF Compares
    <2>3. CASE op \in {">", ">="}
      <3>1. q = SetIntegerConstantPredicate(type, ">", lit - 1)
        BY <1>3, <2>3 DEF SetIntegerDoublePredicate
      <3>2. Passes(q, n) <=> Compares(">", n, lit - 1)
        BY <2>1, <3>1, ConstantIsExact DEF CmpOps
      <3>3. n > lit - 1 <=> n > lit
        BY <1>1, <2>1
      <3> QED
        BY <1>1, <2>1, <2>3, <3>2, <3>3 DEF Compares
    <2>4. CASE op \in {"<", "<="}
      <3>1. q = SetIntegerConstantPredicate(type, "<", lit + 1)
        BY <1>3, <2>4 DEF SetIntegerDoublePredicate
      <3>2. Passes(q, n) <=> Compares("<", n, lit + 1)
        BY <2>1, <3>1, ConstantIsExact DEF CmpOps
      <3>3. n < lit + 1 <=> n < lit
        BY <1>1, <2>1
      <3> QED
        BY <1>1, <2>1, <2>4, <3>2, <3>3 DEF Compares
    <2> QED
      BY <2>2, <2>3, <2>4 DEF CmpOps
  <1> QED
    BY <1>2, <1>3

\* The prepared predicate is the predicate, of every number its column can hold.
LEMMA PreparedIsExact ==
    ASSUME NEW type, IsNumericType(type), NEW p, p.op \in CmpOps, FitsIn(type, p.val.n),
           NEW n, Storable(type, n)
    PROVE  Passes(PreparePredicate(p, type), n) <=> Compares(p.op, n, p.val.n)
  <1>1. CASE IsFloating(type)
    <2>1. PreparePredicate(p, type) = TypedCompare(p.op, p.val.n)
      BY <1>1 DEF PreparePredicate, BindFloatingPredicate, FitsIn, IsDouble
    <2> QED
      BY <2>1 DEF Passes, TypedCompare
  <1>2. CASE ~ IsFloating(type)
    <2>1. HasRange(type) /\ n \in Lowest(type)..Highest(type) /\ n % 2 = 0 /\ p.val.n \in Int
      BY <1>2 DEF IsNumericType, Storable, FitsIn, IsDouble
    <2>2. CASE IsInteger(p.val.t)
      <3>1. PreparePredicate(p, type) = SetIntegerConstantPredicate(type, p.op, p.val.n)
        BY <1>2, <2>2 DEF PreparePredicate
      <3> QED
        BY <2>1, <3>1, ConstantIsExact
    <2>3. CASE ~ IsInteger(p.val.t)
      <3>1. PreparePredicate(p, type) = SetIntegerDoublePredicate(type, p.op, p.val.n)
        BY <1>2, <2>3 DEF PreparePredicate
      <3> QED
        BY <2>1, <3>1, FractionIsExact
    <2> QED
      BY <2>2, <2>3
  <1> QED
    BY <1>1, <1>2

-----------------------------------------------------------------------------
(* Both together *)

\* What the statistics of rows answer about predicate p.
Answer(rows, p) == EvaluateByStats(ColumnStats(rows, p.col), p.op, Round(MantissaBits.DOUBLE, p.val.n))

\* The rows of a segment, as far as predicate p sees them.
ColumnOf(rows, p, type) ==
    /\ \E last \in Nat \ {0} : DOMAIN rows = 1..last
    /\ \A i \in DOMAIN rows : /\ rows[i][p.col].t = type
                              /\ Storable(type, rows[i][p.col].n) /\ IsDouble(rows[i][p.col].n)

\* The statistics of a segment prove of a predicate only what is true of its rows.
LEMMA StatisticsAreTrue ==
    ASSUME NEW type, IsNumericType(type), NEW p, p.op \in CmpOps, IsDouble(p.val.n),
           NEW rows, ColumnOf(rows, p, type), NEW i \in DOMAIN rows
    PROVE  /\ Answer(rows, p) \in {"SKIP", "ALL_MATCH", "NEED_FILTER"}
           /\ Answer(rows, p) = "SKIP" => ~ Compares(p.op, rows[i][p.col].n, p.val.n)
           /\ Answer(rows, p) = "ALL_MATCH" => Compares(p.op, rows[i][p.col].n, p.val.n)
  <1> DEFINE st == ColumnStats(rows, p.col)
  <1>1. PICK last \in Nat \ {0} : DOMAIN rows = 1..last
    BY DEF ColumnOf
  <1>2. \A j \in DOMAIN rows : /\ rows[j][p.col].n \in Int
                               /\ Round(MantissaBits.DOUBLE, rows[j][p.col].n) = rows[j][p.col].n
    BY DEF ColumnOf, IsDouble
  <1>3. /\ \E j \in DOMAIN rows : st.min = rows[j][p.col].n
        /\ \E j \in DOMAIN rows : st.max = rows[j][p.col].n
        /\ \A j \in DOMAIN rows : st.min <= rows[j][p.col].n /\ rows[j][p.col].n <= st.max
    BY <1>1, <1>2, StatsAreBounds
  <1>4. st.has \in BOOLEAN
    BY DEF ColumnStats, IsNumericType, IsInteger, IsFloating
  <1>5. st.min \in Int /\ st.max \in Int /\ st.min <= rows[i][p.col].n /\ rows[i][p.col].n <= st.max
    <2> HIDE DEF st
    <2> QED
      BY <1>2, <1>3
  <1>6. Answer(rows, p) = EvaluateByStats(st, p.op, p.val.n) /\ p.val.n \in Int
    BY DEF Answer, IsDouble
  <1> HIDE DEF st
  <1> QED
    BY <1>2, <1>4, <1>5, <1>6, AnswersAreTrue

\* What EvaluatePredicates and the row filter do with one predicate: a row of a segment
\* that is not skipped is kept when the statistics settle the predicate or the filter passes
\* the row.  It is kept exactly when the predicate, as it was written, holds of it, for
\* integers of any width and mantissas of any length, as long as the numbers compared
\* are doubles and the literal is a number of a floating column's type.
THEOREM PushedPredicateIsExact ==
    ASSUME NEW type, IsNumericType(type), NEW p, p.op \in CmpOps, FitsIn(type, p.val.n),
           NEW rows, ColumnOf(rows, p, type), NEW i \in DOMAIN rows
    PROVE  (/\ Answer(rows, p) # "SKIP"
            /\ Answer(rows, p) = "NEED_FILTER" => Passes(PreparePredicate(p, type), rows[i][p.col].n))
           <=> Compares(p.op, rows[i][p.col].n, p.val.n)
  <1>1. Passes(PreparePredicate(p, type), rows[i][p.col].n) <=> Compares(p.op, rows[i][p.col].n, p.val.n)
    BY PreparedIsExact DEF ColumnOf
  <1>2. IsDouble(p.val.n)
    BY DEF FitsIn
  <1>3. /\ Answer(rows, p) \in {"SKIP", "ALL_MATCH", "NEED_FILTER"}
        /\ Answer(rows, p) = "SKIP" => ~ Compares(p.op, rows[i][p.col].n, p.val.n)
        /\ Answer(rows, p) = "ALL_MATCH" => Compares(p.op, rows[i][p.col].n, p.val.n)
    BY <1>2, StatisticsAreTrue
  <1> QED
    BY <1>1, <1>3

\* What TableScan calls the answers of the statistics.
Verdict(answer) == [SKIP |-> "skip", ALL_MATCH |-> "all", NEED_FILTER |-> "filter"][answer]

\* TableScan lets the statistics answer anything that is true of a segment.  The answer
\* the code computes is among them: if the rows of the current segment satisfy q where
\* the comparison p holds, then what EvaluateByStats says of p is a verdict on q.
THEOREM StatisticsAreVerdicts ==
    ASSUME NEW type, IsNumericType(type), NEW p, p.op \in CmpOps, IsDouble(p.val.n),
           NEW rows, ColumnOf(rows, p, type), NEW q \in Pred,
           DOMAIN Rows = DOMAIN rows,
           \A i \in DOMAIN rows : q \in Rows[i] <=> Compares(p.op, rows[i][p.col].n, p.val.n)
    PROVE  Verdict(Answer(rows, p)) \in Verdicts(q)
  <1>1. 1 \in DOMAIN rows
    BY DEF ColumnOf
  <1>2. CASE Answer(rows, p) = "SKIP"
    <2>1. \A i \in DOMAIN Rows : q \notin Rows[i]
      BY <1>2, StatisticsAreTrue
    <2> QED
      BY <1>2, <2>1 DEF Verdict, Verdicts
  <1>3. CASE Answer(rows, p) = "ALL_MATCH"
    <2>1. \A i \in DOMAIN Rows : q \in Rows[i]
      BY <1>3, StatisticsAreTrue
    <2> QED
      BY <1>3, <2>1 DEF Verdict, Verdicts
  <1>4. CASE Answer(rows, p) = "NEED_FILTER"
    BY <1>4 DEF Verdict, Verdicts
  <1> QED
    BY <1>1, <1>2, <1>3, <1>4, StatisticsAreTrue

================================================================================
