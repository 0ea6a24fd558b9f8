------------------------------ MODULE TableScan ------------------------------
(***************************************************************************)
(* TableStorage::Scan, the serial read path: a cursor moves over the       *)
(* segments listed in metadata_ and over the rows of each in batches.      *)
(* Segment statistics decide once per segment which of the pushed          *)
(* predicates still have to be evaluated row by row.  Between two calls of *)
(* Scan a Flush may publish another segment.                               *)
(*                                                                         *)
(* A row is the set of predicates it satisfies.  The statistics may answer *)
(* anything that is true of the segment.  A batch is returned as the set   *)
(* of its rows: its selection lists them upwards.                          *)
(*                                                                         *)
(* Bounds: MaxSegments segments of at most MaxRows rows.                   *)
(***************************************************************************)
EXTENDS Integers, Sequences, FiniteSets

CONSTANTS
    Pred,           \* the pushed predicates
    BatchRows,      \* VectorBatch::BATCH_SIZE
    MaxRows,        \* bound: rows of a segment
    MaxSegments,    \* bound: segments
    Faults          \* "open": a segment file cannot be opened or mapped

ASSUME ScanAssumption ==
    /\ BatchRows \in Nat \ {0}
    /\ MaxRows \in Nat
    /\ MaxSegments \in Nat
    /\ Faults \subseteq {"open"}

VARIABLES
    segments,   \* the rows of the segments in metadata_.segment_ids
    current,    \* ScanCursor::segment_id, from 1; 0 is kInvalidSegmentId
    offset,     \* offset_in_segment
    decided,    \* segment_decision_valid
    mask,       \* row_filter_mask: the predicates to evaluate row by row
    mode,       \* "idle" between calls, "scan" inside, "ended" or "crashed"
    out         \* the batches returned so far

cursor == <<current, offset, decided, mask>>
vars   == <<segments, cursor, mode, out>>

Row     == SUBSET Pred
Segment == UNION {[1..n -> Row] : n \in 1..MaxRows}
Batch   == [segment : 1..MaxSegments, rows : SUBSET (1..MaxRows)]

Init ==
    /\ segments \in UNION {[1..n -> Segment] : n \in 0..MaxSegments}
    /\ current = 0
    /\ offset = 0
    /\ decided = FALSE
    /\ mask = {}
    /\ mode = "idle"
    /\ out = <<>>

\* A Flush, by another session or from the consumer of this scan.
Publish(s) ==
    /\ mode = "idle"
    /\ Len(segments) < MaxSegments
    /\ segments' = Append(segments, s)
    /\ UNCHANGED <<cursor, mode, out>>

\* Mutant: the decision made for one segment is kept for the next.
AdvanceKeepsDecision ==
    /\ current' = current + 1
    /\ IF current < Len(segments)
       THEN /\ offset' = 0
            /\ mode' = "scan"
            /\ UNCHANGED <<decided, mask>>
       ELSE /\ mode' = "ended"
            /\ UNCHANGED <<offset, decided, mask>>

\* AdvanceCursorToNextSegment; without one, Scan returns false.
Advance ==
    /\ current' = current + 1
    /\ IF current < Len(segments)
       THEN /\ offset' = 0
            /\ decided' = FALSE
            /\ mask' = {}
            /\ mode' = "scan"
       ELSE /\ mode' = "ended"
            /\ UNCHANGED <<offset, decided, mask>>

\* A call of Scan; the first one moves the cursor to the first segment.
ScanCall ==
    /\ mode = "idle"
    /\ IF current = 0 THEN Advance ELSE mode' = "scan" /\ UNCHANGED cursor
    /\ UNCHANGED <<segments, out>>

\* The first GetSegmentReader of a segment returns nullptr, and ScanSegment
\* dereferences it.  A reader that was opened stays in reader_cache_.
OpenFails ==
    /\ "open" \in Faults
    /\ mode = "scan"
    /\ ~ decided
    /\ mode' = "crashed"
    /\ UNCHANGED <<segments, cursor, out>>

Rows == segments[current]

\* EvaluateByStats for one predicate: no row, every row, or it cannot tell.
Verdicts(p) ==
    {"filter"}
        \cup (IF \A i \in DOMAIN Rows : p \notin Rows[i] THEN {"skip"} ELSE {})
        \cup (IF \A i \in DOMAIN Rows : p \in Rows[i] THEN {"all"} ELSE {})

\* EvaluatePredicates, once per segment: one SKIP skips the segment.
Decide ==
    /\ mode = "scan"
    /\ ~ decided
    /\ \E verdict \in [Pred -> {"skip", "all", "filter"}] :
        /\ \A p \in Pred : verdict[p] \in Verdicts(p)
        /\ IF \E p \in Pred : verdict[p] = "skip"
           THEN Advance
           ELSE /\ decided' = TRUE
                /\ mask' = {p \in Pred : verdict[p] = "filter"}
                /\ UNCHANGED <<current, offset, mode>>
    /\ UNCHANGED <<segments, out>>

\* The rows of one physical batch that pass StorageRowFilter.
BatchEnd == IF Len(Rows) < offset + BatchRows THEN Len(Rows) ELSE offset + BatchRows
Passing  == {i \in offset + 1 .. BatchEnd : mask \subseteq Rows[i]}

\* Mutant: the cursor moves by the rows that passed the filter.
ReadAdvancesByFound ==
    /\ mode = "scan"
    /\ decided
    /\ offset < Len(Rows)
    /\ offset' = offset + Cardinality(Passing)
    /\ IF Passing = {}
       THEN UNCHANGED <<mode, out>>
       ELSE /\ mode' = "idle"
            /\ out' = Append(out, [segment |-> current, rows |-> Passing])
    /\ UNCHANGED <<segments, current, decided, mask>>

\* GetVectorBatch and the row filter: the cursor moves by the physical rows read,
\* and a batch without a match is not returned.
ReadBatch ==
    /\ mode = "scan"
    /\ decided
    /\ offset < Len(Rows)
    /\ offset' = BatchEnd
    /\ IF Passing = {}
       THEN UNCHANGED <<mode, out>>
       ELSE /\ mode' = "idle"
            /\ out' = Append(out, [segment |-> current, rows |-> Passing])
    /\ UNCHANGED <<segments, current, decided, mask>>

\* The segment has been read: go on to the next.
SegmentEnds ==
    /\ mode = "scan"
    /\ decided
    /\ offset >= Len(Rows)
    /\ Advance
    /\ UNCHANGED <<segments, out>>

ScanStep == ScanCall \/ Decide \/ ReadBatch \/ SegmentEnds

\* Operators stop calling at the first false.
Stopped == mode \in {"ended", "crashed"} /\ UNCHANGED vars

Next ==
    \/ \E s \in Segment : Publish(s)
    \/ ScanStep
    \/ OpenFails
    \/ Stopped

\* The caller keeps pulling until Scan returns false.
Spec == Init /\ [][Next]_vars /\ WF_vars(ScanStep)

-----------------------------------------------------------------------------
(* Properties *)

TypeOK ==
    /\ segments \in Seq(Segment) /\ Len(segments) <= MaxSegments
    /\ current \in 0..Len(segments) + 1
    /\ offset \in 0..MaxRows
    /\ decided \in BOOLEAN
    /\ mask \subseteq Pred
    /\ mode \in {"idle", "scan", "ended", "crashed"}
    /\ out \in Seq(Batch)

Matching(s, i)     == Pred \subseteq segments[s][i]
Returned(s, i)     == \E k \in DOMAIN out : out[k].segment = s /\ i \in out[k].rows
Before(s, i, t, j) == s < t \/ (s = t /\ i < j)

\* What Scan has returned is a beginning of the rows that satisfy all predicates, in
\* storage order and without an empty batch, and all of them when it returns false,
\* whatever the statistics could prove and whichever segments were published meanwhile.
ScanIsExact ==
    /\ \A k \in DOMAIN out :
          LET s == out[k].segment IN
            /\ out[k].rows # {}
            /\ s \in DOMAIN segments
            /\ \A i \in out[k].rows : i \in DOMAIN segments[s] /\ Matching(s, i)
    /\ \A k, l \in DOMAIN out : k < l =>
          \A i \in out[k].rows : \A j \in out[l].rows : Before(out[k].segment, i, out[l].segment, j)
    /\ \A s \in DOMAIN segments : \A i \in DOMAIN segments[s] :
          Matching(s, i) /\ (\/ mode = "ended"
                             \/ \E k \in DOMAIN out : \E j \in out[k].rows : Before(s, i, out[k].segment, j))
             => Returned(s, i)

\* The scan ends.
ScanEnds == <>(mode \in {"ended", "crashed"})

=============================================================================
