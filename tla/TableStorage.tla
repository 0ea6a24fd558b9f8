---------------------------- MODULE TableStorage ----------------------------
(***************************************************************************)
(* One table of the storage layer (src/storage/table/table_storage.cpp)    *)
(* together with its two key indexes (src/storage/index/) and the files it *)
(* owns: one file per flushed segment and table.meta, which lists them.    *)
(*                                                                         *)
(* A row carries a primary key and a secondary key; its other columns play *)
(* no part in what is said here.  A segment is the sequence of its rows.   *)
(* Append, Flush, the destructor and Open run step by step: the loops of   *)
(* the code are loops of actions, so a crash or a reader can fall between  *)
(* any two of them.  index_mutex_ is held from the first step of Append or *)
(* Flush to the last, hence there is one program counter.                  *)
(*                                                                         *)
(* Bounds: MaxBatch rows in one Append, MaxSegId segment ids, and the I/O  *)
(* errors and crashes named in Faults.                                     *)
(***************************************************************************)
EXTENDS Integers, Sequences, Functions

CONSTANTS
    Key,        \* values of the primary key
    SecKey,     \* values of the secondary key
    SegCap,     \* kMaxSegmentRowCount
    MaxBatch,   \* bound: rows in one input of Append
    MaxSegId,   \* bound: segment ids handed out
    Faults      \* the faults this instance considers

FaultKind == {"crash", "segment", "reopen", "metaOpen", "metaWrite", "metaClose"}

ASSUME TableAssumption ==
    /\ SegCap \in Nat \ {0}
    /\ MaxBatch \in Nat \ {0}
    /\ MaxSegId \in Nat
    /\ Faults \subseteq FaultKind

VARIABLES
    \* the disk
    meta,       \* table.meta: is it whole, and the ids it lists
    file,       \* id -> segment file: is it whole, and its rows
    \* the members of TableStorage
    segIds,     \* metadata_.segment_ids
    active,     \* rows of active_segment_
    activeId,   \* active_segment_id_
    nextId,     \* next_segment_id_
    sealed,     \* sealed_segments_
    pending,    \* pending_visible_segments_
    pk,         \* entries of the primary index
    sk,         \* entries of the secondary index
    \* where the holder of index_mutex_ is, and its locals
    pc,
    chunk,      \* Append: the part of the input still to be stored
    locs,       \* Append: locations of the rows stored so far
    todo,       \* Flush: sealed segments the loop has not visited
    cur,        \* Flush: the segment being written; Open: the one indexed next
    closing,    \* this Flush is the destructor's
    \* what the last operation told its caller, and what Flush has answered for
    ret,
    acked,      \* rows an explicit Flush has answered true for
    skipped     \* those of them whose segment this process could not write

disk    == <<meta, file>>
memory  == <<segIds, active, activeId, nextId, sealed, pending, pk, sk>>
locals  == <<chunk, locs, todo, cur, closing>>
ghosts  == <<ret, acked, skipped>>
vars    == <<disk, memory, pc, locals, ghosts>>

-----------------------------------------------------------------------------
(* Data *)

Row   == [pk : Key, sk : SecKey]
Loc   == [seg : Nat, off : Nat]
Entry(K) == [key : K, loc : Loc, vis : BOOLEAN]

\* The inputs of Append: non-empty batches.
Batch == UNION {[1..n -> Row] : n \in 1..MaxBatch}

\* f with x bound to v.
Bind(f, x, v) == [y \in DOMAIN f \cup {x} |-> IF y = x THEN v ELSE f[y]]

NoFun == [x \in {} |-> x]
Torn  == [whole |-> FALSE, rows |-> <<>>]
Whole(rows) == [whole |-> TRUE, rows |-> rows]
TornMeta == [whole |-> FALSE, ids |-> <<>>]
WholeMeta(ids) == [whole |-> TRUE, ids |-> ids]

-----------------------------------------------------------------------------
(* DataChunk: a view of len rows from row start of a shared buffer. *)

View(rows) == [rows |-> rows, start |-> 0, len |-> Len(rows)]
ViewRows(c) == SubSeq(c.rows, c.start + 1, c.start + c.len)

\* Slice(boundary): the view keeps its first boundary rows ...
SliceHead(c, boundary) == [c EXCEPT !.len = boundary]
\* ... and the rest starts at boundary, whatever the view's own start is.
SliceRest(c, boundary) == [c EXCEPT !.start = boundary, !.len = c.len - boundary]

-----------------------------------------------------------------------------
(* The indexes (TableIndexManager, PrimaryKeyIndex, SecondaryKeyIndex). *)

\* Mutant: only the rows already visible to queries are checked.
ValidateVisibleOnly(rows) ==
    /\ \A i, j \in DOMAIN rows : i # j => rows[i].pk # rows[j].pk
    /\ \A i \in DOMAIN rows, e \in pk : e.vis => e.key # rows[i].pk

\* Uniqueness of the batch, in itself and against every entry, visible or not.
ValidatePrimaryKey(rows) ==
    /\ \A i, j \in DOMAIN rows : i # j => rows[i].pk # rows[j].pk
    /\ \A i \in DOMAIN rows, e \in pk : e.key # rows[i].pk

\* Insertion into the primary index overwrites the entry of the same key.
InsertPk(idx, rows, at, vis) ==
    {e \in idx : \A j \in DOMAIN at : rows[j].pk # e.key}
        \cup {[key |-> rows[j].pk, loc |-> at[j], vis |-> vis] :
              j \in {k \in DOMAIN at :
                     \A i \in DOMAIN at : i > k => rows[i].pk # rows[k].pk}}

\* Mutant: a secondary key is kept like a primary one, the last row wins.
InsertSkUnique(idx, rows, at, vis) ==
    {e \in idx : \A j \in DOMAIN at : rows[j].sk # e.key}
        \cup {[key |-> rows[j].sk, loc |-> at[j], vis |-> vis] : j \in DOMAIN at}

\* The secondary index keeps every entry of a key.
InsertSk(idx, rows, at, vis) ==
    idx \cup {[key |-> rows[j].sk, loc |-> at[j], vis |-> vis] : j \in DOMAIN at}

MarkVisible(idx, ids) ==
    {IF e.loc.seg \in ids THEN [e EXCEPT !.vis = TRUE] ELSE e : e \in idx}

\* TableIndexManager::Lookup: the visible locations of a key.
Lookup(idx, k) == {e.loc : e \in {x \in idx : x.key = k /\ x.vis}}

\* Mutant: the rows already in the segment are forgotten.
LocsFromZero(id, from, n) == [i \in 1..n |-> [seg |-> id, off |-> i - 1]]

\* Locations of n rows appended to segment id after its first `from` rows.
LocsFrom(id, from, n) == [i \in 1..n |-> [seg |-> id, off |-> from + i - 1]]

-----------------------------------------------------------------------------
(* Table life: Create, Open, RebuildIndexes, crash *)

\* TableStorage::Create: an empty table.meta and an empty active segment.
Init ==
    /\ meta = WholeMeta(<<>>)
    /\ file = NoFun
    /\ segIds = <<>>
    /\ active = <<>>
    /\ activeId = 0
    /\ nextId = 1
    /\ sealed = NoFun
    /\ pending = {}
    /\ pk = {}
    /\ sk = {}
    /\ pc = "ready"
    /\ chunk = View(<<>>)
    /\ locs = <<>>
    /\ todo = {}
    /\ cur = 0
    /\ closing = FALSE
    /\ ret = "none"
    /\ acked = {}
    /\ skipped = {}

NoLocals ==
    /\ chunk' = View(<<>>)
    /\ locs' = <<>>
    /\ todo' = {}
    /\ cur' = 0
    /\ closing' = FALSE

\* The object is gone: its members hold nothing, and the history keeps of the
\* acknowledged rows those that were written.
DropMemory ==
    /\ segIds' = <<>>
    /\ active' = <<>>
    /\ activeId' = 0
    /\ nextId' = 0
    /\ sealed' = NoFun
    /\ pending' = {}
    /\ pk' = {}
    /\ sk' = {}
    /\ NoLocals
    /\ pc' = "down"
    /\ acked' = acked \ skipped
    /\ skipped' = {}

\* The process dies; what was written to files stays.
Crash ==
    /\ "crash" \in Faults
    /\ pc # "down"
    /\ DropMemory
    /\ ret' = "none"
    /\ UNCHANGED disk

\* Mutant: the largest recorded id itself is handed out again.
OpenReusesLast ==
    /\ pc = "down"
    /\ meta.whole
    /\ segIds' = meta.ids
    /\ \E next \in 0..MaxSegId :
        /\ \A id \in Range(meta.ids) : id <= next
        /\ next \in Range(meta.ids) \cup {0}
        /\ activeId' = next
        /\ nextId' = next + 1
    /\ cur' = 1
    /\ pc' = "rebuild"
    /\ UNCHANGED <<disk, active, sealed, pending, pk, sk, chunk, locs, todo,
                   closing, ghosts>>

\* Open reads table.meta (a torn one does not deserialize and Open throws),
\* starts ids above the largest recorded one and creates the active segment.
Open ==
    /\ pc = "down"
    /\ meta.whole
    /\ segIds' = meta.ids
    /\ \E next \in 0..MaxSegId :
        /\ \A id \in Range(meta.ids) : id < next
        /\ next = 0 \/ next - 1 \in Range(meta.ids)
        /\ activeId' = next
        /\ nextId' = next + 1
    /\ cur' = 1
    /\ pc' = "rebuild"
    /\ UNCHANGED <<disk, active, sealed, pending, pk, sk, chunk, locs, todo,
                   closing, ghosts>>

\* RebuildIndexes, one recorded segment: every row is indexed as visible.
RebuildSegment ==
    /\ pc = "rebuild"
    /\ cur \in DOMAIN segIds
    /\ LET id == segIds[cur] IN
        /\ id \in DOMAIN file
        /\ file[id].whole
        /\ LET rows == file[id].rows
               at   == LocsFrom(id, 0, Len(rows))
           IN  /\ pk' = InsertPk(pk, rows, at, TRUE)
               /\ sk' = InsertSk(sk, rows, at, TRUE)
    /\ cur' = cur + 1
    /\ UNCHANGED <<disk, segIds, active, activeId, nextId, sealed, pending, pc,
                   chunk, locs, todo, closing, ghosts>>

\* A recorded segment that is not whole, or that the system cannot open or map:
\* the constructor throws.
RebuildFails ==
    /\ pc = "rebuild"
    /\ cur \in DOMAIN segIds
    /\ \/ "reopen" \in Faults
       \/ segIds[cur] \in DOMAIN file => ~ file[segIds[cur]].whole
    /\ DropMemory
    /\ UNCHANGED <<disk, ret>>

RebuildDone ==
    /\ pc = "rebuild"
    /\ cur \notin DOMAIN segIds
    /\ pc' = "ready"
    /\ cur' = 0
    /\ UNCHANGED <<disk, memory, chunk, locs, todo, closing, ghosts>>

-----------------------------------------------------------------------------
(* Append *)

\* A duplicate key: the exception leaves the table as it was.
AppendRejected(input) ==
    /\ pc = "ready"
    /\ ~ ValidatePrimaryKey(input)
    /\ ret' = "rejected"
    /\ UNCHANGED <<disk, memory, pc, locals, acked, skipped>>

AppendBegin(input) ==
    /\ pc = "ready"
    /\ nextId + Len(input) < MaxSegId
    /\ ValidatePrimaryKey(input)
    /\ chunk' = View(input)
    /\ pc' = "append"
    /\ ret' = "none"
    /\ UNCHANGED <<disk, memory, locs, todo, cur, closing, acked, skipped>>

Remaining == SegCap - Len(active)

AppendInternal(c) ==
    locs \o LocsFrom(activeId, Len(active), c.len)

\* The chunk does not fit: fill the active segment, seal it, open another.
AppendSplit ==
    /\ pc = "append"
    /\ chunk.len > Remaining
    /\ LET head == SliceHead(chunk, Remaining) IN
        /\ locs' = AppendInternal(head)
        /\ sealed' = Bind(sealed, activeId, active \o ViewRows(head))
    /\ chunk' = SliceRest(chunk, Remaining)
    /\ active' = <<>>
    /\ activeId' = nextId
    /\ nextId' = nextId + 1
    /\ UNCHANGED <<disk, segIds, pending, pk, sk, pc, todo, cur, closing, ghosts>>

\* The chunk fits: store it and register the whole input in the indexes.
AppendFit ==
    /\ pc = "append"
    /\ chunk.len <= Remaining
    /\ active' = active \o ViewRows(chunk)
    /\ LET at == AppendInternal(chunk) IN
        /\ pk' = InsertPk(pk, chunk.rows, at, FALSE)
        /\ sk' = InsertSk(sk, chunk.rows, at, FALSE)
    /\ chunk' = View(<<>>)
    /\ locs' = <<>>
    /\ pc' = "ready"
    /\ ret' = "appended"
    /\ UNCHANGED <<disk, segIds, activeId, nextId, sealed, pending, todo, cur,
                   closing, acked, skipped>>

-----------------------------------------------------------------------------
(* Flush and the destructor *)

\* Mutant: the new active segment takes an id without advancing next_segment_id_.
SealKeepsNextId ==
    IF active # <<>>
    THEN /\ sealed' = Bind(sealed, activeId, active)
         /\ active' = <<>>
         /\ activeId' = nextId
         /\ UNCHANGED nextId
    ELSE UNCHANGED <<sealed, active, activeId, nextId>>

\* Seal a non-empty active segment; the loop then visits every sealed one.
SealForFlush ==
    IF active # <<>>
    THEN /\ sealed' = Bind(sealed, activeId, active)
         /\ active' = <<>>
         /\ activeId' = nextId
         /\ nextId' = nextId + 1
    ELSE UNCHANGED <<sealed, active, activeId, nextId>>

FlushBegin ==
    /\ pc = "ready"
    /\ SealForFlush
    /\ todo' = DOMAIN sealed'
    /\ pc' = "flush"
    /\ ret' = "none"
    /\ UNCHANGED <<disk, segIds, pending, pk, sk, chunk, locs, cur, closing, acked, skipped>>

\* ~TableStorage: flush only when something is sealed, ignoring the result.
Close ==
    /\ pc = "ready"
    /\ \/ /\ active = <<>> /\ DOMAIN sealed = {}
          /\ DropMemory
          /\ ret' = "none"
          /\ UNCHANGED disk
       \/ /\ active # <<>> \/ DOMAIN sealed # {}
          /\ SealForFlush
          /\ todo' = DOMAIN sealed'
          /\ pc' = "flush"
          /\ ret' = "none"
          /\ closing' = TRUE
          /\ UNCHANGED <<disk, segIds, pending, pk, sk, chunk, locs, cur, acked, skipped>>

\* SegmentBuilder::Flush opens (and truncates) the segment's file ...
SegmentOpened(id) ==
    /\ pc = "flush"
    /\ id \in todo
    /\ file' = Bind(file, id, Torn)
    /\ cur' = id
    /\ todo' = todo \ {id}
    /\ pc' = "write"
    /\ UNCHANGED <<meta, memory, chunk, locs, closing, ghosts>>

\* ... or cannot: the loop goes on to the next segment.
SegmentOpenFails(id) ==
    /\ "segment" \in Faults
    /\ pc = "flush"
    /\ id \in todo
    /\ todo' = todo \ {id}
    /\ UNCHANGED <<disk, memory, pc, chunk, locs, cur, closing, ghosts>>

\* The segment is on disk: record it.
SegmentWritten ==
    /\ pc = "write"
    /\ file' = Bind(file, cur, Whole(sealed[cur]))
    /\ segIds' = Append(segIds, cur)
    /\ pending' = pending \cup {cur}
    /\ cur' = 0
    /\ pc' = "flush"
    /\ UNCHANGED <<meta, active, activeId, nextId, sealed, pk, sk, chunk, locs,
                   todo, closing, ghosts>>

\* A write or the close fails: the segment is not recorded.
SegmentWriteFails ==
    /\ "segment" \in Faults
    /\ pc = "write"
    /\ cur' = 0
    /\ pc' = "flush"
    /\ UNCHANGED <<disk, memory, chunk, locs, todo, closing, ghosts>>

RowsOf(ids) == UNION {Range(file[id].rows) : id \in Range(ids)}
Published == RowsOf(segIds)

\* History: a Flush that answers true answers for everything that was appended,
\* the sealed segments it could not write included.
AnswersFor ==
    LET Sealed(ids) == UNION {Range(sealed[id]) : id \in ids}
    IN /\ acked' = acked \cup Published \cup Sealed(DOMAIN sealed)
       /\ skipped' = (skipped \cup Sealed(DOMAIN sealed \ Range(segIds))) \ Published

\* Mutant: the pending list is cleared even though table.meta was not saved.
FlushForgetsPending(saved) ==
    IF closing
    THEN /\ DropMemory
         /\ UNCHANGED ret
    ELSE /\ pc' = "ready"
         /\ sealed' = NoFun
         /\ pending' = {}
         /\ IF saved
            THEN /\ pk' = MarkVisible(pk, pending)
                 /\ sk' = MarkVisible(sk, pending)
                 /\ ret' = "flushed"
                 /\ AnswersFor
            ELSE /\ ret' = "unsaved"
                 /\ UNCHANGED <<pk, sk, acked, skipped>>
         /\ UNCHANGED <<segIds, active, activeId, nextId, locals>>

\* What is left of Flush once SaveMeta has answered.
FlushReturns(saved) ==
    IF closing
    THEN /\ DropMemory
         /\ UNCHANGED ret
    ELSE /\ pc' = "ready"
         /\ sealed' = NoFun
         /\ IF saved
            THEN /\ pk' = MarkVisible(pk, pending)
                 /\ sk' = MarkVisible(sk, pending)
                 /\ pending' = {}
                 /\ ret' = "flushed"
                 /\ AnswersFor
            ELSE /\ ret' = "unsaved"
                 /\ UNCHANGED <<pk, sk, pending, acked, skipped>>
         /\ UNCHANGED <<segIds, active, activeId, nextId, locals>>

\* Every sealed segment has been tried: SaveMeta truncates table.meta ...
MetaOpened ==
    /\ pc = "flush"
    /\ todo = {}
    /\ meta' = TornMeta
    /\ pc' = "save"
    /\ UNCHANGED <<file, memory, locals, ghosts>>

\* ... or cannot open it,
MetaOpenFails ==
    /\ "metaOpen" \in Faults
    /\ pc = "flush"
    /\ todo = {}
    /\ FlushReturns(FALSE)
    /\ UNCHANGED disk

\* Mutant: the ids of this flush are registered only after SaveMeta has written.
MetaWrittenEarly ==
    /\ pc = "save"
    /\ meta' = WholeMeta(SelectSeq(segIds, LAMBDA id : id \notin pending))
    /\ FlushReturns(TRUE)
    /\ UNCHANGED file

\* then writes the ids and closes the file,
MetaWritten ==
    /\ pc = "save"
    /\ meta' = WholeMeta(segIds)
    /\ FlushReturns(TRUE)
    /\ UNCHANGED file

\* or sees the write fail,
MetaWriteFails ==
    /\ "metaWrite" \in Faults
    /\ pc = "save"
    /\ FlushReturns(FALSE)
    /\ UNCHANGED disk

\* or only the close fails, after the stream has been found good.
MetaCloseFails ==
    /\ "metaClose" \in Faults
    /\ pc = "save"
    /\ FlushReturns(TRUE)
    /\ UNCHANGED disk

-----------------------------------------------------------------------------

AppendStep ==
    \/ \E input \in Batch : AppendRejected(input) \/ AppendBegin(input)
    \/ AppendSplit
    \/ AppendFit

FlushStep ==
    \/ FlushBegin
    \/ \E id \in todo : SegmentOpened(id) \/ SegmentOpenFails(id)
    \/ SegmentWritten
    \/ SegmentWriteFails
    \/ MetaOpened
    \/ MetaOpenFails
    \/ MetaWritten
    \/ MetaWriteFails
    \/ MetaCloseFails

LifeStep ==
    \/ Open
    \/ RebuildSegment
    \/ RebuildFails
    \/ RebuildDone
    \/ Close
    \/ Crash

Next == AppendStep \/ FlushStep \/ LifeStep

Spec == Init /\ [][Next]_vars

-----------------------------------------------------------------------------
(* Properties *)

\* The segments whose rows the table can still produce, and those rows.
Held == {activeId} \cup DOMAIN sealed \cup Range(segIds)
Up   == pc \notin {"down", "rebuild"}

Rows(id) == IF id = activeId THEN active
            ELSE IF id \in DOMAIN sealed THEN sealed[id]
            ELSE file[id].rows

HeldLocs == UNION {{[seg |-> id, off |-> o - 1] : o \in DOMAIN Rows(id)} : id \in Held}
RowAt(loc) == Rows(loc.seg)[loc.off + 1]

TypeOK ==
    /\ meta \in [whole : BOOLEAN, ids : Seq(Nat)]
    /\ DOMAIN file \subseteq Nat
    /\ \A id \in DOMAIN file : file[id] \in [whole : BOOLEAN, rows : Seq(Row)]
    /\ segIds \in Seq(Nat)
    /\ active \in Seq(Row)
    /\ activeId \in Nat
    /\ nextId \in Nat
    /\ DOMAIN sealed \subseteq Nat
    /\ \A id \in DOMAIN sealed : sealed[id] \in Seq(Row)
    /\ pending \subseteq Nat
    /\ pk \subseteq Entry(Key)
    /\ sk \subseteq Entry(SecKey)
    /\ pc \in {"down", "rebuild", "ready", "append", "flush", "write", "save"}
    /\ chunk \in [rows : Seq(Row), start : Nat, len : Nat]
    /\ locs \in Seq(Loc)
    /\ todo \subseteq DOMAIN sealed
    /\ cur \in Nat
    /\ closing \in BOOLEAN
    /\ ret \in {"none", "appended", "rejected", "flushed", "unsaved"}
    /\ acked \cup skipped \subseteq Row

\* An index entry whose segment the table still has names a row of that segment
\* and that row has the entry's key, however the batch was cut into segments.
IndexedRowsMatch ==
    /\ \A e \in pk : e.loc.seg \in Held => e.loc \in HeldLocs /\ RowAt(e.loc).pk = e.key
    /\ \A e \in sk : e.loc.seg \in Held => e.loc \in HeldLocs /\ RowAt(e.loc).sk = e.key

\* Outside Append and Open every row the table holds is in both indexes under its
\* own keys: nothing stored can be missed by the duplicate check or by a lookup.
EveryRowIndexed ==
    pc \notin {"down", "rebuild", "append"} =>
        \A loc \in HeldLocs :
            /\ \E e \in pk : e.loc = loc /\ e.key = RowAt(loc).pk
            /\ \E e \in sk : e.loc = loc /\ e.key = RowAt(loc).sk

\* No two rows the table holds have the same primary key, whatever was flushed,
\* lost or rebuilt in between (primary keys are checked against the index only).
UniquePrimaryKeys ==
    Up => \A l, m \in HeldLocs : RowAt(l).pk = RowAt(m).pk => l = m

\* In every step a lookup finds only rows that a scan returns, and between calls it
\* finds all of them under its key, as the comment on Lookup in table_storage.h says,
\* unless a Flush could not save table.meta and left segments pending.
LookupsFollowScans ==
    LET Scanned(Keeps(_)) == {loc \in HeldLocs : loc.seg \in Range(segIds) /\ Keeps(RowAt(loc))}
        Follows(idx, k, rows) ==
            /\ Lookup(idx, k) \subseteq rows
            /\ pc = "ready" /\ pending = {} => rows \subseteq Lookup(idx, k)
    IN /\ \A k \in Key : Follows(pk, k, Scanned(LAMBDA row : row.pk = k))
       /\ \A k \in SecKey : Follows(sk, k, Scanned(LAMBDA row : row.sk = k))

\* A whole table.meta names distinct segments whose files are whole: the table
\* can be opened again, and no row comes back twice.
MetaNamesWholeSegments ==
    meta.whole =>
        /\ \A i, j \in DOMAIN meta.ids : i # j => meta.ids[i] # meta.ids[j]
        /\ \A id \in Range(meta.ids) : id \in DOMAIN file /\ file[id].whole

\* What table_storage.h:60 promises of a Flush that answers true, with the two
\* exceptions the code makes: a row it answered for is lost only because its own
\* segment could not be written and was passed over, or because the process ended
\* with table.meta torn.  Otherwise table.meta lists it or, while that is torn, memory
\* does and the next save restores it, over any number of crashes, reopenings and
\* failed flushes.
LostOnlyByFailedWrites ==
    meta.whole \/ pc # "down" =>
        acked \ skipped \subseteq RowsOf(IF meta.whole THEN meta.ids ELSE segIds)

\* What a step does to the segments that memory or a whole table.meta names.
PublishedStays ==
    \A id \in Range(segIds) \cup (IF meta.whole THEN Range(meta.ids) ELSE {}) :
        /\ file'[id] = file[id]
        /\ pc' # "down" /\ id \in Range(segIds) => id \in Range(segIds')

\* A segment file that memory or table.meta names is never written again, and
\* memory forgets a published segment only by going down: segment ids handed out
\* after a crash never collide with a recorded one.
PublishedIsStable == [][PublishedStays]_vars
=============================================================================
