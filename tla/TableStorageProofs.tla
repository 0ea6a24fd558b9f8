------------------------- MODULE TableStorageProofs -------------------------
(***************************************************************************)
(* Theorems about TableStorage, for every set of keys, segment capacity,   *)
(* batch width, number of segments and combination of faults.              *)
(***************************************************************************)
EXTENDS TableStorage, SequenceTheorems, TLAPS

-----------------------------------------------------------------------------
(* Lemmas about the data operators *)

\* Bind changes one argument of a function and adds it to the domain.
LEMMA BindFacts ==
    ASSUME NEW f, NEW x, NEW v
    PROVE  /\ DOMAIN Bind(f, x, v) = DOMAIN f \cup {x}
           /\ Bind(f, x, v)[x] = v
           /\ \A y \in DOMAIN f : y # x => Bind(f, x, v)[y] = f[y]
    BY DEF Bind

\* A function on 1..n is a sequence of length n.
LEMMA SeqOfFun ==
    ASSUME NEW S, NEW n \in Nat, NEW s \in [1..n -> S]
    PROVE  /\ s \in Seq(S)
           /\ Len(s) = n
  <1>1. s \in Seq(S)
    BY SeqDef
  <1>2. Len(s) \in Nat /\ DOMAIN s = 1..Len(s)
    BY <1>1, LenProperties
  <1> QED
    BY <1>1, <1>2

\* A batch is a non-empty sequence of rows.
LEMMA BatchIsSeq ==
    ASSUME NEW input \in Batch
    PROVE  /\ input \in Seq(Row)
           /\ Len(input) \in 1..MaxBatch
  <1>1. PICK n \in 1..MaxBatch : input \in [1..n -> Row]
    BY DEF Batch
  <1>2. n \in Nat
    BY TableAssumption DEF TableAssumption
  <1> QED
    BY <1>1, <1>2, SeqOfFun

\* The locations of n appended rows.
LEMMA LocsFromFacts ==
    ASSUME NEW id \in Nat, NEW from \in Nat, NEW n \in Nat
    PROVE  /\ LocsFrom(id, from, n) \in Seq(Loc)
           /\ Len(LocsFrom(id, from, n)) = n
           /\ \A i \in 1..n : LocsFrom(id, from, n)[i] = [seg |-> id, off |-> from + i - 1]
  <1>1. \A i \in 1..n : [seg |-> id, off |-> from + i - 1] \in Loc
    BY DEF Loc
  <1>2. LocsFrom(id, from, n) \in [1..n -> Loc]
    BY <1>1 DEF LocsFrom
  <1> QED
    BY <1>2, SeqOfFun DEF LocsFrom

\* The rows of a view that lies inside its buffer.
LEMMA ViewRowsFacts ==
    ASSUME NEW c \in [rows : Seq(Row), start : Nat, len : Nat],
           c.start + c.len <= Len(c.rows)
    PROVE  /\ ViewRows(c) \in Seq(Row)
           /\ Len(ViewRows(c)) = c.len
           /\ \A i \in 1..c.len : ViewRows(c)[i] = c.rows[c.start + i]
  <1>1. /\ c.start + 1 \in Int
        /\ c.start + c.len \in Int
        /\ \A i \in c.start + 1 .. c.start + c.len : c.rows[i] \in Row
    BY ElementOfSeq, LenProperties
  <1> QED
    BY <1>1, SubSeqProperties, SMTT(60) DEF ViewRows

\* Entries made by the two insertions, and entries turned visible, are entries.
LEMMA InsertTypes ==
    ASSUME NEW rows \in Seq(Row), NEW at \in Seq(Loc), Len(at) <= Len(rows),
           NEW vis \in BOOLEAN,
           NEW P \in SUBSET Entry(Key), NEW S \in SUBSET Entry(SecKey)
    PROVE  /\ InsertPk(P, rows, at, vis) \subseteq Entry(Key)
           /\ InsertSk(S, rows, at, vis) \subseteq Entry(SecKey)
  <1>1. \A j \in DOMAIN at : rows[j] \in Row /\ at[j] \in Loc
    BY LenProperties, ElementOfSeq
  <1>2. \A j \in DOMAIN at : rows[j].pk \in Key /\ rows[j].sk \in SecKey
    BY <1>1 DEF Row
  <1> QED
    BY <1>1, <1>2 DEF InsertPk, InsertSk, Entry

LEMMA MarkVisibleType ==
    ASSUME NEW K, NEW idx \in SUBSET Entry(K), NEW ids
    PROVE  MarkVisible(idx, ids) \subseteq Entry(K)
    BY DEF MarkVisible, Entry

-----------------------------------------------------------------------------
(* Type correctness.  TypeOK is not inductive: the types of chunk, acked and *)
(* the segment files need the facts about the loops that follow.             *)

\* The active segment never exceeds its capacity, and the part of the batch still
\* to be stored lies in the batch and is what the locations do not cover.
ChunkInBatch ==
    /\ Len(active) <= SegCap
    /\ chunk.start + chunk.len <= Len(chunk.rows)
    /\ Len(locs) + chunk.len = Len(chunk.rows)
    /\ pc # "append" => locs = <<>>

\* Only the loop of Flush has segments to visit, and the one being written is sealed.
FlushLoop ==
    /\ pc \notin {"flush", "write"} => todo = {}
    /\ pc = "write" => cur \in DOMAIN sealed

\* Every segment that memory or table.meta names has a file.
FilesExist == Range(segIds) \cup Range(meta.ids) \subseteq DOMAIN file

TypeInv == TypeOK /\ ChunkInBatch /\ FlushLoop /\ FilesExist

LEMMA EmptySeqFacts ==
    /\ \A S : <<>> \in Seq(S)
    /\ Len(<<>>) = 0
    /\ Range(<<>>) = {}
    BY EmptySeq DEF Range

LEMMA NoFunFacts == DOMAIN NoFun = {}
    BY DEF NoFun

\* Appending an element to a sequence adds it to the range.
LEMMA RangeAppend ==
    ASSUME NEW S, NEW s \in Seq(S), NEW e \in S
    PROVE  Range(Append(s, e)) = Range(s) \cup {e}
  <1>1. /\ Len(Append(s, e)) = Len(s) + 1
        /\ \A i \in 1..Len(s) : Append(s, e)[i] = s[i]
        /\ Append(s, e)[Len(s) + 1] = e
        /\ Append(s, e) \in Seq(S)
    BY AppendProperties
  <1>2. /\ DOMAIN s = 1..Len(s)
        /\ DOMAIN Append(s, e) = 1..Len(s) + 1
        /\ Len(s) \in Nat
    BY <1>1, LenProperties
  <1> QED
    BY <1>1, <1>2 DEF Range

LEMMA InitTypeInv == Init => TypeInv
  <1> SUFFICES ASSUME Init PROVE TypeInv
    OBVIOUS
  <1> USE EmptySeqFacts, NoFunFacts DEF Init, View, WholeMeta
  <1>1. TypeOK
    BY DEF TypeOK
  <1>2. ChunkInBatch
    BY TableAssumption DEF ChunkInBatch, TableAssumption
  <1>3. FlushLoop
    BY DEF FlushLoop
  <1>4. FilesExist
    BY DEF FilesExist
  <1> QED
    BY <1>1, <1>2, <1>3, <1>4 DEF TypeInv

\* table.meta keeps its type when it is left alone, torn or rewritten.
LEMMA MetaTypes ==
    ASSUME TypeInv, meta' \in {meta, TornMeta, WholeMeta(segIds)}
    PROVE  /\ meta' \in [whole : BOOLEAN, ids : Seq(Nat)]
           /\ Range(meta'.ids) \subseteq DOMAIN file
  <1>1. CASE meta' = meta
    BY <1>1 DEF TypeInv, TypeOK, FilesExist
  <1>2. CASE meta' = TornMeta
    BY <1>2, EmptySeqFacts DEF TornMeta
  <1>3. CASE meta' = WholeMeta(segIds)
    BY <1>3 DEF TypeInv, TypeOK, FilesExist, WholeMeta
  <1> QED
    BY <1>1, <1>2, <1>3

\* An object whose memory is dropped is well formed.
LEMMA DropMemoryTypeInv ==
    ASSUME TypeInv, DropMemory, UNCHANGED file,
           meta' \in {meta, TornMeta, WholeMeta(segIds)},
           ret' \in {"none", "appended", "rejected", "flushed", "unsaved"}
    PROVE  TypeInv'
  <1> USE EmptySeqFacts, NoFunFacts, MetaTypes DEF DropMemory, NoLocals, View
  <1>1. TypeOK'
    BY DEF TypeInv, TypeOK
  <1>2. ChunkInBatch'
    BY TableAssumption DEF ChunkInBatch, TableAssumption
  <1>3. FlushLoop'
    BY DEF FlushLoop
  <1>4. FilesExist'
    BY DEF FilesExist
  <1> QED
    BY <1>1, <1>2, <1>3, <1>4 DEF TypeInv

\* What Flush does once SaveMeta has answered keeps the types.
LEMMA FlushReturnsTypeInv ==
    ASSUME TypeInv, NEW saved \in BOOLEAN, FlushReturns(saved), UNCHANGED file,
           pc # "append", meta' \in {meta, WholeMeta(segIds)}, todo = {}
    PROVE  TypeInv'
  <1>1. meta' \in [whole : BOOLEAN, ids : Seq(Nat)] /\ Range(meta'.ids) \subseteq DOMAIN file
    BY MetaTypes
  <1>2. CASE closing
    <2>1. /\ DropMemory
          /\ ret' = ret
      BY <1>2 DEF FlushReturns
    <2>2. ret \in {"none", "appended", "rejected", "flushed", "unsaved"}
      BY DEF TypeInv, TypeOK
    <2> QED
      BY <2>1, <2>2, DropMemoryTypeInv
  <1>3. CASE ~ closing
    <2>1. /\ MarkVisible(pk, pending) \subseteq Entry(Key)
          /\ MarkVisible(sk, pending) \subseteq Entry(SecKey)
      BY MarkVisibleType DEF TypeInv, TypeOK
    <2>2. Published \subseteq Row
      <3> SUFFICES ASSUME NEW id \in Range(segIds) PROVE Range(file[id].rows) \subseteq Row
        BY DEF Published, RowsOf
      <3>1. file[id].rows \in Seq(Row)
        BY DEF TypeInv, TypeOK, FilesExist
      <3> QED
        BY <3>1, RangeOfSeq
    <2>a. \A id \in DOMAIN sealed : Range(sealed[id]) \subseteq Row
      BY RangeOfSeq DEF TypeInv, TypeOK
    <2>g. acked' \cup skipped' \subseteq Row
      <3>1. acked \cup skipped \subseteq Row
        BY DEF TypeInv, TypeOK
      <3>2. CASE saved
        <4>1. AnswersFor
          BY <1>3, <3>2 DEF FlushReturns
        <4> QED
          BY <2>2, <2>a, <3>1, <4>1 DEF AnswersFor
      <3>3. CASE ~ saved
        BY <1>3, <3>1, <3>3 DEF FlushReturns
      <3> QED
        BY <3>2, <3>3
    <2> USE <1>1, <1>3, <2>1, <2>g DEF FlushReturns, locals
    <2>3. TypeOK'
      BY NoFunFacts DEF TypeInv, TypeOK
    <2>4. ChunkInBatch'
      BY DEF TypeInv, ChunkInBatch
    <2>5. FlushLoop'
      BY DEF FlushLoop
    <2>6. FilesExist'
      BY DEF TypeInv, FilesExist
    <2> QED
      BY <2>3, <2>4, <2>5, <2>6 DEF TypeInv
  <1> QED
    BY <1>2, <1>3

\* One conjunct-by-conjunct argument per action.
LEMMA NextTypeInv == TypeInv /\ [Next]_vars => TypeInv'
  <1> SUFFICES ASSUME TypeInv, [Next]_vars PROVE TypeInv'
    OBVIOUS
  <1> USE DEF TypeInv
  <1>c. chunk \in [rows : Seq(Row), start : Nat, len : Nat]
    BY DEF TypeOK
  <1>n. chunk.rows \in Seq(Row) /\ chunk.start \in Nat /\ chunk.len \in Nat
    BY <1>c
  <1>a. active \in Seq(Row)
    BY DEF TypeOK
  <1>l. locs \in Seq(Loc)
    BY DEF TypeOK
  <1>i. activeId \in Nat /\ nextId \in Nat /\ SegCap \in Nat
    BY TableAssumption DEF TypeOK, TableAssumption
  <1>b. /\ Len(chunk.rows) \in Nat
        /\ Len(active) \in Nat
        /\ Len(locs) \in Nat
    BY <1>n, <1>a, <1>l, LenProperties
  <1>1. ASSUME NEW input \in Batch, AppendRejected(input) PROVE TypeInv'
    BY <1>1 DEF AppendRejected, disk, memory, locals, TypeOK, ChunkInBatch, FlushLoop, FilesExist
  <1>2. ASSUME NEW input \in Batch, AppendBegin(input) PROVE TypeInv'
    <2>1. input \in Seq(Row) /\ Len(input) \in Nat
      BY BatchIsSeq, LenProperties
    <2>2. chunk' = [rows |-> input, start |-> 0, len |-> Len(input)]
      BY <1>2 DEF AppendBegin, View
    <2> QED
      BY <1>2, <2>1, <2>2
         DEF AppendBegin, disk, memory, TypeOK, ChunkInBatch, FlushLoop, FilesExist
  <1>3. ASSUME AppendSplit PROVE TypeInv'
    <2> DEFINE head == SliceHead(chunk, Remaining)
    <2>1. /\ Remaining \in Nat
          /\ Len(active) \in Nat
          /\ chunk.len > Remaining
          /\ chunk.len - Remaining \in Nat
      BY <1>3, <1>n, <1>i, <1>b DEF AppendSplit, Remaining, ChunkInBatch
    <2>2. /\ head \in [rows : Seq(Row), start : Nat, len : Nat]
          /\ head.len = Remaining
          /\ head.start + head.len <= Len(head.rows)
          /\ head.rows = chunk.rows
      <3>1. head = [chunk EXCEPT !.len = Remaining]
        BY DEF SliceHead
      <3>2. chunk.start + Remaining <= Len(chunk.rows)
        BY <1>n, <1>b, <2>1 DEF ChunkInBatch
      <3> QED
        BY <1>c, <2>1, <3>1, <3>2
    <2>3. ViewRows(head) \in Seq(Row)
      BY <2>2, ViewRowsFacts
    <2>4. active \o ViewRows(head) \in Seq(Row)
      BY <1>a, <2>3, ConcatProperties
    <2>5. /\ locs' \in Seq(Loc)
          /\ Len(locs') = Len(locs) + Remaining
      <3> DEFINE new == LocsFrom(activeId, Len(active), Remaining)
      <3>1. new \in Seq(Loc) /\ Len(new) = Remaining
        BY <1>i, <1>b, <2>1, LocsFromFacts
      <3>2. locs' = locs \o new
        BY <1>3, <2>2 DEF AppendSplit, AppendInternal
      <3> QED
        BY <1>l, <3>1, <3>2, ConcatProperties
    <2>6. /\ chunk' \in [rows : Seq(Row), start : Nat, len : Nat]
          /\ chunk'.rows = chunk.rows
          /\ chunk'.start = Remaining
          /\ chunk'.len = chunk.len - Remaining
      BY <1>3, <1>c, <2>1 DEF AppendSplit, SliceRest
    <2>7. /\ DOMAIN sealed' = DOMAIN sealed \cup {activeId}
          /\ \A id \in DOMAIN sealed' : sealed'[id] \in Seq(Row)
      <3>1. sealed' = Bind(sealed, activeId, active \o ViewRows(head))
        BY <1>3 DEF AppendSplit
      <3>2. \A id \in DOMAIN sealed : sealed[id] \in Seq(Row)
        BY DEF TypeOK
      <3>3. /\ DOMAIN sealed' = DOMAIN sealed \cup {activeId}
            /\ sealed'[activeId] = active \o ViewRows(head)
            /\ \A id \in DOMAIN sealed : id # activeId => sealed'[id] = sealed[id]
        BY <3>1 DEF Bind
      <3> QED
        BY <2>4, <3>2, <3>3
    <2>8. TypeOK'
      BY <1>3, <2>5, <2>6, <2>7, EmptySeqFacts DEF AppendSplit, disk, ghosts, TypeOK
    <2>9. ChunkInBatch'
      <3>1. Len(active') <= SegCap
        BY <1>3, <1>i, EmptySeqFacts DEF AppendSplit
      <3>2. chunk'.start + chunk'.len <= Len(chunk'.rows)
        BY <1>n, <1>b, <2>1, <2>6 DEF ChunkInBatch
      <3>3. Len(locs') + chunk'.len = Len(chunk'.rows)
        BY <1>3, <1>n, <1>b, <2>1, <2>5, <2>6 DEF AppendSplit, ChunkInBatch
      <3>4. pc' = "append"
        BY <1>3 DEF AppendSplit
      <3> QED
        BY <3>1, <3>2, <3>3, <3>4 DEF ChunkInBatch
    <2>10. FlushLoop' /\ FilesExist'
      BY <1>3 DEF AppendSplit, disk, FlushLoop, FilesExist
    <2> QED
      BY <2>8, <2>9, <2>10
  <1>4. ASSUME AppendFit PROVE TypeInv'
    <2> DEFINE at == AppendInternal(chunk)
    <2>1. /\ ViewRows(chunk) \in Seq(Row)
          /\ Len(ViewRows(chunk)) = chunk.len
      BY <1>c, ViewRowsFacts DEF ChunkInBatch
    <2>2. /\ active' \in Seq(Row)
          /\ Len(active') = Len(active) + chunk.len
      <3>1. active' = active \o ViewRows(chunk)
        BY <1>4 DEF AppendFit
      <3> QED
        BY <1>a, <2>1, <3>1, ConcatProperties
    <2>3. at \in Seq(Loc) /\ Len(at) = Len(chunk.rows)
      <3> DEFINE new == LocsFrom(activeId, Len(active), chunk.len)
      <3>0. chunk.len \in Nat /\ Len(active) \in Nat /\ activeId \in Nat
        BY <1>n, <1>i, <1>b
      <3>1. new \in Seq(Loc) /\ Len(new) = chunk.len
        BY <3>0, LocsFromFacts
      <3>2. at = locs \o new
        BY DEF AppendInternal
      <3>3. at \in Seq(Loc) /\ Len(at) = Len(locs) + chunk.len
        BY <1>l, <3>1, <3>2, ConcatProperties
      <3> QED
        BY <3>3 DEF ChunkInBatch
    <2>4. /\ pk' \subseteq Entry(Key)
          /\ sk' \subseteq Entry(SecKey)
      <3>1. /\ chunk.rows \in Seq(Row)
            /\ Len(at) <= Len(chunk.rows)
            /\ pk \in SUBSET Entry(Key) /\ sk \in SUBSET Entry(SecKey)
        BY <1>n, <1>b, <2>3 DEF TypeOK
      <3>2. /\ InsertPk(pk, chunk.rows, at, FALSE) \subseteq Entry(Key)
            /\ InsertSk(sk, chunk.rows, at, FALSE) \subseteq Entry(SecKey)
        BY <2>3, <3>1, InsertTypes
      <3> QED
        BY <1>4, <3>2 DEF AppendFit
    <2>5. TypeOK'
      BY <1>4, <2>2, <2>4, EmptySeqFacts DEF AppendFit, disk, View, TypeOK
    <2>6. ChunkInBatch'
      <3>1. Len(active') <= SegCap
        BY <1>4, <1>n, <1>i, <1>b, <2>2 DEF AppendFit, Remaining
      <3> QED
        BY <1>4, <3>1, EmptySeqFacts DEF AppendFit, View, ChunkInBatch
    <2>7. FlushLoop' /\ FilesExist'
      BY <1>4 DEF AppendFit, disk, FlushLoop, FilesExist
    <2> QED
      BY <2>5, <2>6, <2>7
  <1>5. ASSUME pc = "ready", SealForFlush
        PROVE  /\ DOMAIN sealed' \subseteq Nat
               /\ \A id \in DOMAIN sealed' : sealed'[id] \in Seq(Row)
               /\ active' \in Seq(Row) /\ Len(active') <= SegCap
               /\ activeId' \in Nat /\ nextId' \in Nat
    <2>1. CASE active # <<>>
      <3>0. sealed' = Bind(sealed, activeId, active)
        BY <1>5, <2>1 DEF SealForFlush
      <3>1. DOMAIN sealed' = DOMAIN sealed \cup {activeId}
        BY <3>0 DEF Bind
      <3>2. \A id \in DOMAIN sealed' : sealed'[id] \in Seq(Row)
        <4>1. \A id \in DOMAIN sealed : sealed[id] \in Seq(Row)
          BY DEF TypeOK
        <4>2. /\ sealed'[activeId] = active
              /\ \A id \in DOMAIN sealed : id # activeId => sealed'[id] = sealed[id]
          BY <3>0 DEF Bind
        <4> QED
          BY <1>a, <3>1, <4>1, <4>2
      <3> QED
        BY <1>5, <2>1, <3>1, <3>2, EmptySeqFacts, TableAssumption
           DEF SealForFlush, TypeOK, TableAssumption
    <2>2. CASE active = <<>>
      BY <1>5, <2>2 DEF SealForFlush, TypeOK, ChunkInBatch
    <2> QED
      BY <2>1, <2>2
  <1>6. ASSUME FlushBegin PROVE TypeInv'
    BY <1>6, <1>5
       DEF FlushBegin, disk, TypeOK, ChunkInBatch, FlushLoop, FilesExist
  <1>7. ASSUME Close PROVE TypeInv'
    <2>1. CASE DropMemory /\ ret' = "none" /\ UNCHANGED disk
      BY <2>1, DropMemoryTypeInv DEF disk
    <2>2. CASE ~ DropMemory \/ ret' # "none" \/ ~ UNCHANGED disk
      BY <1>7, <1>5, <2>2
         DEF Close, disk, TypeOK, ChunkInBatch, FlushLoop, FilesExist
    <2> QED
      BY <2>1, <2>2
  <1>8. ASSUME NEW id \in Nat, NEW e \in [whole : BOOLEAN, rows : Seq(Row)],
               file' = Bind(file, id, e)
        PROVE  /\ DOMAIN file' = DOMAIN file \cup {id}
               /\ DOMAIN file' \subseteq Nat
               /\ \A x \in DOMAIN file' : file'[x] \in [whole : BOOLEAN, rows : Seq(Row)]
    BY <1>8 DEF Bind, TypeOK
  <1>9. ASSUME NEW id \in todo, SegmentOpened(id) PROVE TypeInv'
    <2>1. id \in Nat /\ id \in DOMAIN sealed
      BY DEF TypeOK
    <2>2. Torn \in [whole : BOOLEAN, rows : Seq(Row)]
      BY EmptySeqFacts DEF Torn
    <2>3. /\ DOMAIN file' = DOMAIN file \cup {id}
          /\ DOMAIN file' \subseteq Nat
          /\ \A x \in DOMAIN file' : file'[x] \in [whole : BOOLEAN, rows : Seq(Row)]
      <3>1. file' = Bind(file, id, Torn)
        BY <1>9 DEF SegmentOpened
      <3> QED
        BY <2>1, <2>2, <3>1, <1>8
    <2>4. TypeOK'
      BY <1>9, <2>1, <2>3 DEF SegmentOpened, memory, ghosts, TypeOK
    <2> QED
      BY <1>9, <2>1, <2>3, <2>4 DEF SegmentOpened, memory, ChunkInBatch, FlushLoop, FilesExist
  <1>10. ASSUME NEW id \in todo, SegmentOpenFails(id) PROVE TypeInv'
    BY <1>10 DEF SegmentOpenFails, disk, memory, ghosts,
                 TypeOK, ChunkInBatch, FlushLoop, FilesExist
  <1>11. ASSUME SegmentWritten PROVE TypeInv'
    <2>1. cur \in Nat /\ cur \in DOMAIN sealed
      BY <1>11 DEF SegmentWritten, FlushLoop, TypeOK
    <2>2. Whole(sealed[cur]) \in [whole : BOOLEAN, rows : Seq(Row)]
      BY <2>1 DEF Whole, TypeOK
    <2>3. /\ DOMAIN file' = DOMAIN file \cup {cur}
          /\ DOMAIN file' \subseteq Nat
          /\ \A x \in DOMAIN file' : file'[x] \in [whole : BOOLEAN, rows : Seq(Row)]
      <3>1. file' = Bind(file, cur, Whole(sealed[cur]))
        BY <1>11 DEF SegmentWritten
      <3> QED
        BY <2>1, <2>2, <3>1, <1>8
    <2>4. segIds' \in Seq(Nat) /\ Range(segIds') = Range(segIds) \cup {cur}
      <3>1. segIds' = Append(segIds, cur) /\ segIds \in Seq(Nat)
        BY <1>11 DEF SegmentWritten, TypeOK
      <3> QED
        BY <2>1, <3>1, RangeAppend, AppendProperties
    <2>5. TypeOK'
      BY <1>11, <2>1, <2>3, <2>4 DEF SegmentWritten, ghosts, TypeOK
    <2> QED
      BY <1>11, <2>3, <2>4, <2>5 DEF SegmentWritten, ChunkInBatch, FlushLoop, FilesExist
  <1>12. ASSUME SegmentWriteFails PROVE TypeInv'
    BY <1>12 DEF SegmentWriteFails, disk, memory, ghosts,
                 TypeOK, ChunkInBatch, FlushLoop, FilesExist
  <1>13. ASSUME MetaOpened PROVE TypeInv'
    BY <1>13, EmptySeqFacts DEF MetaOpened, TornMeta, memory, locals, ghosts,
                 TypeOK, ChunkInBatch, FlushLoop, FilesExist
  <1>14. ASSUME MetaOpenFails PROVE TypeInv'
    BY <1>14, FlushReturnsTypeInv DEF MetaOpenFails, disk
  <1>15. ASSUME MetaWritten PROVE TypeInv'
    BY <1>15, FlushReturnsTypeInv DEF MetaWritten, FlushLoop
  <1>16. ASSUME MetaWriteFails PROVE TypeInv'
    BY <1>16, FlushReturnsTypeInv DEF MetaWriteFails, disk, FlushLoop
  <1>17. ASSUME MetaCloseFails PROVE TypeInv'
    BY <1>17, FlushReturnsTypeInv DEF MetaCloseFails, disk, FlushLoop
  <1>18. ASSUME Open PROVE TypeInv'
    <2>1. activeId' \in Nat /\ nextId' \in Nat
      BY <1>18, TableAssumption DEF Open, TableAssumption
    <2> QED
      BY <1>18, <2>1 DEF Open, disk, ghosts, TypeOK, ChunkInBatch, FlushLoop, FilesExist
  <1>19. ASSUME RebuildSegment PROVE TypeInv'
    <2> DEFINE rows == file[segIds[cur]].rows
               at   == LocsFrom(segIds[cur], 0, Len(rows))
    <2>1. segIds[cur] \in Nat /\ rows \in Seq(Row)
      BY <1>19 DEF RebuildSegment, TypeOK
    <2>2. at \in Seq(Loc) /\ Len(at) = Len(rows)
      BY <2>1, LenProperties, LocsFromFacts
    <2>3. /\ InsertPk(pk, rows, at, TRUE) \subseteq Entry(Key)
          /\ InsertSk(sk, rows, at, TRUE) \subseteq Entry(SecKey)
      <3>1. pk \in SUBSET Entry(Key) /\ sk \in SUBSET Entry(SecKey)
        BY DEF TypeOK
      <3>2. Len(at) <= Len(rows)
        BY <2>1, <2>2, LenProperties
      <3> QED
        BY <2>1, <2>2, <3>1, <3>2, InsertTypes
    <2>4. pk' \subseteq Entry(Key) /\ sk' \subseteq Entry(SecKey)
      BY <1>19, <2>3 DEF RebuildSegment
    <2>5. cur' \in Nat
      BY <1>19 DEF RebuildSegment, TypeOK
    <2>6. UNCHANGED <<meta, file, segIds, active, activeId, nextId, sealed, pending,
                      pc, chunk, locs, todo, closing, ret, acked, skipped>> /\ pc = "rebuild"
      BY <1>19 DEF RebuildSegment, disk, ghosts
    <2> QED
      BY <2>4, <2>5, <2>6 DEF TypeOK, ChunkInBatch, FlushLoop, FilesExist
  <1>20. ASSUME RebuildFails PROVE TypeInv'
    <2>1. ret' \in {"none", "appended", "rejected", "flushed", "unsaved"}
      BY <1>20 DEF RebuildFails, TypeOK
    <2> QED
      BY <1>20, <2>1, DropMemoryTypeInv DEF RebuildFails, disk
  <1>21. ASSUME RebuildDone PROVE TypeInv'
    BY <1>21 DEF RebuildDone, disk, memory, ghosts,
                 TypeOK, ChunkInBatch, FlushLoop, FilesExist
  <1>22. ASSUME Crash PROVE TypeInv'
    BY <1>22, DropMemoryTypeInv DEF Crash, disk
  <1>23. CASE UNCHANGED vars
    BY <1>23 DEF vars, disk, memory, locals, ghosts,
                 TypeOK, ChunkInBatch, FlushLoop, FilesExist
  <1> QED
    BY <1>1, <1>2, <1>3, <1>4, <1>6, <1>7, <1>9, <1>10, <1>11, <1>12, <1>13, <1>14,
       <1>15, <1>16, <1>17, <1>18, <1>19, <1>20, <1>21, <1>22, <1>23
       DEF Next, AppendStep, FlushStep, LifeStep

LEMMA TypeInvHolds == Spec => []TypeInv
  <1>1. Init => TypeInv
    BY InitTypeInv
  <1>2. TypeInv /\ [Next]_vars => TypeInv'
    BY NextTypeInv
  <1> QED
    BY <1>1, <1>2, PTL DEF Spec

\* Every variable keeps its type, for any sizes, faults and number of restarts.
THEOREM TypeCorrect == Spec => []TypeOK
  <1>1. TypeInv => TypeOK
    BY DEF TypeInv
  <1> QED
    BY <1>1, TypeInvHolds, PTL

-----------------------------------------------------------------------------
(* Ids and files.  What is durable rests on one fact: a segment id is never   *)
(* handed out twice while a file of that id is named by memory or table.meta. *)

Distinct(s) == \A i, j \in DOMAIN s : i # j => s[i] # s[j]

\* Memory names distinct segments, and their files are whole.
MemoryNamesWholeSegments ==
    /\ Distinct(segIds)
    /\ \A id \in Range(segIds) : id \in DOMAIN file /\ file[id].whole

\* Every id of a live table is below next_segment_id_, and the active one is new.
IdsBelowNext ==
    pc # "down" =>
        /\ activeId < nextId
        /\ \A id \in Range(segIds) \cup DOMAIN sealed : id < nextId /\ id # activeId

\* What Flush has still to write is not recorded yet.
UnwrittenIsNew ==
    /\ todo \cap Range(segIds) = {}
    /\ pc = "write" => cur \notin Range(segIds) \cup todo
    /\ pc \notin {"flush", "write", "save"} => DOMAIN sealed \cap Range(segIds) = {}

\* A whole table.meta is a subset of what a live table has recorded, and it is
\* torn while SaveMeta rewrites it.
MetaBehindMemory ==
    /\ meta.whole /\ pc # "down" => Range(meta.ids) \subseteq Range(segIds)
    /\ pc = "save" => ~ meta.whole

\* A sealed segment that has been written is on disk as it was sealed.
WrittenAsSealed == \A id \in DOMAIN sealed \cap Range(segIds) : file[id].rows = sealed[id]

\* A live table still has what a Flush promised and did not skip, and a whole
\* table.meta lists it.
AckedIsPublished == pc # "down" => acked \ skipped \subseteq Published
AckedIsListed == meta.whole => acked \ skipped \subseteq RowsOf(meta.ids)

\* No table, no memory.
DownIsEmpty == pc = "down" => sealed = NoFun /\ todo = {} /\ segIds = <<>>

IdInv ==
    /\ DownIsEmpty
    /\ MetaNamesWholeSegments
    /\ MemoryNamesWholeSegments
    /\ IdsBelowNext
    /\ UnwrittenIsNew
    /\ MetaBehindMemory
    /\ WrittenAsSealed
    /\ AckedIsPublished
    /\ AckedIsListed

\* A new element keeps a sequence without duplicates so.
LEMMA DistinctAppend ==
    ASSUME NEW S, NEW s \in Seq(S), NEW e \in S, e \notin Range(s), Distinct(s)
    PROVE  Distinct(Append(s, e))
  <1>1. /\ Len(Append(s, e)) = Len(s) + 1
        /\ \A i \in 1..Len(s) : Append(s, e)[i] = s[i]
        /\ Append(s, e)[Len(s) + 1] = e
        /\ Append(s, e) \in Seq(S)
    BY AppendProperties
  <1>2. /\ DOMAIN s = 1..Len(s)
        /\ DOMAIN Append(s, e) = 1..Len(s) + 1
        /\ Len(s) \in Nat
    BY <1>1, LenProperties
  <1> QED
    BY <1>1, <1>2 DEF Range, Distinct

\* A step that leaves disk, recorded ids and promises alone, and one that drops
\* the object, need an argument only about the ids.
LEMMA QuietIdInv ==
    ASSUME IdInv, UNCHANGED <<meta, file, segIds, acked, skipped>>, pc # "down",
           pc' \notin {"down", "save"}, IdsBelowNext', UnwrittenIsNew', WrittenAsSealed'
    PROVE  IdInv'
    BY DEF IdInv, DownIsEmpty, MetaNamesWholeSegments, MemoryNamesWholeSegments, Distinct,
           MetaBehindMemory, AckedIsPublished, Published, RowsOf, AckedIsListed

LEMMA DropMemoryIdInv ==
    ASSUME IdInv, DropMemory, pc # "down" \/ meta' = meta, UNCHANGED file,
           meta' \in {meta, TornMeta, WholeMeta(segIds)}
    PROVE  IdInv'
  <1> USE EmptySeqFacts, NoFunFacts DEF DropMemory, NoLocals
  <1>1. MemoryNamesWholeSegments'
    BY DEF MemoryNamesWholeSegments, Distinct
  <1>2. IdsBelowNext' /\ MetaBehindMemory' /\ AckedIsPublished' /\ DownIsEmpty'
    BY DEF IdsBelowNext, MetaBehindMemory, AckedIsPublished, DownIsEmpty
  <1>3. UnwrittenIsNew' /\ WrittenAsSealed'
    BY DEF UnwrittenIsNew, WrittenAsSealed
  <1>a. acked' \ skipped' = acked \ skipped
    OBVIOUS
  <1>4. MetaNamesWholeSegments' /\ AckedIsListed'
    <2>1. CASE meta' = meta
      BY <1>a, <2>1 DEF IdInv, MetaNamesWholeSegments, AckedIsListed, RowsOf
    <2>2. CASE meta' = TornMeta
      BY <2>2 DEF TornMeta, MetaNamesWholeSegments, AckedIsListed
    <2>3. CASE meta' = WholeMeta(segIds) /\ meta' # meta
      <3>1. meta'.ids = segIds
        BY <2>3 DEF WholeMeta
      <3>2. MetaNamesWholeSegments'
        BY <3>1 DEF IdInv, MemoryNamesWholeSegments, Distinct, MetaNamesWholeSegments
      <3>3. AckedIsListed'
        BY <1>a, <2>3, <3>1 DEF IdInv, AckedIsPublished, Published, RowsOf, AckedIsListed
      <3> QED
        BY <3>2, <3>3
    <2> QED
      BY <2>1, <2>2, <2>3
  <1> QED
    BY <1>1, <1>2, <1>3, <1>4 DEF IdInv

LEMMA FlushReturnsIdInv ==
    ASSUME IdInv, NEW saved \in BOOLEAN, FlushReturns(saved), UNCHANGED file,
           pc \in {"flush", "save"}, todo = {}, saved => pc = "save",
           meta' \in {meta, WholeMeta(segIds)}
    PROVE  IdInv'
  <1>1. CASE closing
    BY <1>1, DropMemoryIdInv DEF FlushReturns
  <1>2. CASE ~ closing
    <2>1. /\ UNCHANGED <<segIds, activeId, nextId, todo, cur>>
          /\ sealed' = NoFun
          /\ pc' = "ready"
          /\ (AnswersFor /\ pc = "save") \/ UNCHANGED <<acked, skipped>>
      BY <1>2 DEF FlushReturns, locals
    <2>2. IdsBelowNext'
      BY <2>1, NoFunFacts DEF IdInv, IdsBelowNext
    <2>3. UnwrittenIsNew' /\ WrittenAsSealed'
      BY <2>1, NoFunFacts DEF IdInv, UnwrittenIsNew, WrittenAsSealed
    <2>4. MemoryNamesWholeSegments'
      BY <2>1 DEF IdInv, MemoryNamesWholeSegments, Distinct
    <2>5. Published' = Published
      BY <2>1 DEF Published, RowsOf
    <2>w. \A id \in DOMAIN sealed \cap Range(segIds) : Range(sealed[id]) \subseteq Published
      BY DEF IdInv, WrittenAsSealed, Published, RowsOf
    <2>k. pc # "down" /\ acked \ skipped \subseteq Published
      BY DEF IdInv, AckedIsPublished
    <2>a. acked' \ skipped' \subseteq Published
      <3>1. CASE AnswersFor
        <4>1. ASSUME NEW row \in acked' \ skipped', row \notin Published PROVE FALSE
          <5>1. row \notin skipped /\ ~ \E id \in DOMAIN sealed \ Range(segIds) : row \in Range(sealed[id])
            BY <3>1, <4>1 DEF AnswersFor
          <5>2. row \in acked \/ \E id \in DOMAIN sealed : row \in Range(sealed[id])
            BY <3>1, <4>1 DEF AnswersFor
          <5> QED
            BY <2>w, <2>k, <4>1, <5>1, <5>2
        <4> QED
          BY <4>1
      <3>2. CASE UNCHANGED <<acked, skipped>>
        BY <2>k, <3>2
      <3> QED
        BY <2>1, <3>1, <3>2
    <2>6. AckedIsPublished'
      BY <2>5, <2>a DEF AckedIsPublished
    <2>7. MetaNamesWholeSegments' /\ MetaBehindMemory' /\ AckedIsListed'
      <3>1. CASE meta' = meta
        BY <2>1, <3>1 DEF IdInv, MetaNamesWholeSegments, MetaBehindMemory, AckedIsListed, RowsOf
      <3>2. CASE meta' = WholeMeta(segIds)
        <4>1. meta'.ids = segIds
          BY <3>2 DEF WholeMeta
        <4> QED
          BY <2>1, <2>a, <4>1
             DEF IdInv, MemoryNamesWholeSegments, Distinct, Published, RowsOf,
                 MetaNamesWholeSegments, MetaBehindMemory, AckedIsListed
      <3> QED
        BY <3>1, <3>2
    <2> QED
      BY <2>1, <2>2, <2>3, <2>4, <2>6, <2>7 DEF IdInv, DownIsEmpty
  <1> QED
    BY <1>1, <1>2

LEMMA NextIdInv == TypeInv /\ IdInv /\ [Next]_vars => IdInv'
  <1> SUFFICES ASSUME TypeInv, IdInv, [Next]_vars PROVE IdInv'
    OBVIOUS
  <1>t. /\ activeId \in Nat /\ nextId \in Nat
        /\ DOMAIN sealed \subseteq Nat /\ todo \subseteq DOMAIN sealed
        /\ segIds \in Seq(Nat)
    BY DEF TypeInv, TypeOK
  <1>s. /\ Range(segIds) \subseteq Nat
    BY <1>t, RangeOfSeq
  <1>i. IdsBelowNext /\ UnwrittenIsNew /\ WrittenAsSealed
    BY DEF IdInv
  <1>1. ASSUME NEW input \in Batch, AppendRejected(input) \/ AppendBegin(input)
        PROVE  IdInv'
    <2>1. IdsBelowNext' /\ UnwrittenIsNew' /\ WrittenAsSealed'
      BY <1>1, <1>i DEF AppendRejected, AppendBegin, disk, memory, locals,
                        IdsBelowNext, UnwrittenIsNew, WrittenAsSealed
    <2> QED
      BY <1>1, <2>1, QuietIdInv DEF AppendRejected, AppendBegin, disk, memory
  <1>2. ASSUME AppendSplit PROVE IdInv'
    <2>1. DOMAIN sealed' = DOMAIN sealed \cup {activeId}
      BY <1>2 DEF AppendSplit, Bind
    <2>2. IdsBelowNext'
      BY <1>2, <1>t, <1>s, <1>i, <2>1 DEF AppendSplit, IdsBelowNext
    <2>3. UnwrittenIsNew' /\ WrittenAsSealed'
      BY <1>2, <1>i, <2>1 DEF AppendSplit, IdsBelowNext, UnwrittenIsNew, WrittenAsSealed
    <2> QED
      BY <1>2, <2>2, <2>3, QuietIdInv DEF AppendSplit, disk, ghosts
  <1>3. ASSUME AppendFit PROVE IdInv'
    <2>1. IdsBelowNext' /\ UnwrittenIsNew' /\ WrittenAsSealed'
      BY <1>3, <1>i DEF AppendFit, IdsBelowNext, UnwrittenIsNew, WrittenAsSealed
    <2> QED
      BY <1>3, <2>1, QuietIdInv DEF AppendFit, disk
  <1>4. ASSUME SealForFlush, pc = "ready", todo' = DOMAIN sealed', pc' = "flush",
               UNCHANGED <<meta, file, segIds, acked, skipped>>
        PROVE  IdInv'
    <2>1. IdsBelowNext' /\ UnwrittenIsNew' /\ WrittenAsSealed'
      <3>1. CASE active # <<>>
        <4>1. DOMAIN sealed' = DOMAIN sealed \cup {activeId}
          BY <1>4, <3>1 DEF SealForFlush, Bind
        <4> QED
          BY <1>4, <1>t, <1>s, <1>i, <3>1, <4>1
             DEF SealForFlush, IdsBelowNext, UnwrittenIsNew, WrittenAsSealed
      <3>2. CASE active = <<>>
        BY <1>4, <1>i, <3>2 DEF SealForFlush, IdsBelowNext, UnwrittenIsNew, WrittenAsSealed
      <3> QED
        BY <3>1, <3>2
    <2> QED
      BY <1>4, <2>1, QuietIdInv
  <1>5. ASSUME FlushBegin PROVE IdInv'
    BY <1>5, <1>4 DEF FlushBegin, disk
  <1>6. ASSUME Close PROVE IdInv'
    <2>1. CASE DropMemory /\ UNCHANGED disk
      BY <1>6, <2>1, DropMemoryIdInv DEF Close, disk
    <2>2. CASE ~ (DropMemory /\ UNCHANGED disk)
      BY <1>6, <2>2, <1>4 DEF Close, disk
    <2> QED
      BY <2>1, <2>2
  <1>7. ASSUME NEW id, id \notin Range(segIds), pc # "down",
               meta' = meta, \A x \in DOMAIN file : x # id => file'[x] = file[x],
               DOMAIN file \subseteq DOMAIN file'
        PROVE  /\ \A x \in Range(segIds) \cup (IF meta.whole THEN Range(meta.ids) ELSE {}) :
                      /\ x \in DOMAIN file /\ file'[x] = file[x]
                      /\ x \in DOMAIN file' /\ file'[x].whole
               /\ MetaNamesWholeSegments'
               /\ UNCHANGED <<acked, skipped>> => AckedIsListed'
    <2>1. \A x \in Range(segIds) \cup (IF meta.whole THEN Range(meta.ids) ELSE {}) :
              x \in DOMAIN file /\ file[x].whole /\ x # id
      BY <1>7 DEF IdInv, MemoryNamesWholeSegments, MetaNamesWholeSegments, MetaBehindMemory
    <2>2. MetaNamesWholeSegments'
      BY <1>7, <2>1 DEF IdInv, MetaNamesWholeSegments
    <2>3. ASSUME UNCHANGED <<acked, skipped>> PROVE AckedIsListed'
      BY <1>7, <2>1, <2>3 DEF IdInv, AckedIsListed, RowsOf
    <2> QED
      BY <1>7, <2>1, <2>2, <2>3
  <1>8. ASSUME NEW id \in todo, SegmentOpened(id) PROVE IdInv'
    <2>1. id \notin Range(segIds) /\ id \in Nat
      BY <1>i, <1>t DEF UnwrittenIsNew
    <2>2. /\ pc = "flush" /\ pc' = "write" /\ cur' = id /\ todo' = todo \ {id}
          /\ UNCHANGED <<meta, segIds, activeId, nextId, sealed, acked, skipped>>
      BY <1>8 DEF SegmentOpened, memory, ghosts
    <2>3. /\ DOMAIN file \subseteq DOMAIN file'
          /\ \A x \in DOMAIN file : x # id => file'[x] = file[x]
      BY <1>8 DEF SegmentOpened, Bind
    <2>4. /\ \A x \in Range(segIds) : file'[x] = file[x] /\ x \in DOMAIN file' /\ file'[x].whole
          /\ MetaNamesWholeSegments' /\ AckedIsListed'
      BY <1>7, <2>1, <2>2, <2>3
    <2>5. IdsBelowNext' /\ UnwrittenIsNew'
      BY <1>i, <2>1, <2>2 DEF IdsBelowNext, UnwrittenIsNew
    <2>6. MemoryNamesWholeSegments' /\ MetaBehindMemory'
      BY <2>2, <2>4 DEF IdInv, MemoryNamesWholeSegments, Distinct, MetaBehindMemory
    <2>7. AckedIsPublished' /\ WrittenAsSealed'
      BY <2>2, <2>4 DEF IdInv, AckedIsPublished, Published, RowsOf, WrittenAsSealed
    <2> QED
      BY <2>2, <2>4, <2>5, <2>6, <2>7 DEF IdInv, DownIsEmpty
  <1>9. ASSUME SegmentWritten PROVE IdInv'
    <2>1. cur \notin Range(segIds) /\ cur \in Nat /\ cur \in DOMAIN sealed
      BY <1>9, <1>i, <1>t DEF SegmentWritten, UnwrittenIsNew, TypeInv, TypeOK, FlushLoop
    <2>2. /\ pc = "write" /\ pc' = "flush"
          /\ segIds' = Append(segIds, cur)
          /\ UNCHANGED <<meta, activeId, nextId, sealed, todo, acked, skipped>>
      BY <1>9 DEF SegmentWritten, ghosts
    <2>3. /\ DOMAIN file' = DOMAIN file \cup {cur}
          /\ file'[cur].whole
          /\ \A x \in DOMAIN file : x # cur => file'[x] = file[x]
      BY <1>9 DEF SegmentWritten, Bind, Whole
    <2>4. /\ \A x \in Range(segIds) : file'[x] = file[x] /\ x \in DOMAIN file' /\ file'[x].whole
          /\ MetaNamesWholeSegments' /\ AckedIsListed'
      BY <1>7, <2>1, <2>2, <2>3
    <2>5. Range(segIds') = Range(segIds) \cup {cur}
      BY <1>t, <2>1, <2>2, RangeAppend
    <2>6. IdsBelowNext' /\ UnwrittenIsNew'
      BY <1>i, <2>1, <2>2, <2>5 DEF IdsBelowNext, UnwrittenIsNew
    <2>7. MetaBehindMemory'
      BY <2>2, <2>5 DEF IdInv, MetaBehindMemory
    <2>8. Distinct(segIds')
      <3>1. Distinct(segIds)
        BY DEF IdInv, MemoryNamesWholeSegments
      <3> QED
        BY <1>t, <2>1, <2>2, <3>1, DistinctAppend
    <2>9. MemoryNamesWholeSegments'
      BY <2>3, <2>4, <2>5, <2>8 DEF MemoryNamesWholeSegments
    <2>10. AckedIsPublished' /\ WrittenAsSealed'
      <3>1. file'[cur].rows = sealed[cur]
        BY <1>9 DEF SegmentWritten, Bind, Whole
      <3> QED
        BY <2>2, <2>4, <2>5, <3>1 DEF IdInv, AckedIsPublished, Published, RowsOf, WrittenAsSealed
    <2> QED
      BY <2>2, <2>4, <2>6, <2>7, <2>9, <2>10 DEF IdInv, DownIsEmpty
  <1>10. ASSUME NEW id \in todo, SegmentOpenFails(id) PROVE IdInv'
    <2>1. IdsBelowNext' /\ UnwrittenIsNew' /\ WrittenAsSealed'
      BY <1>10, <1>i DEF SegmentOpenFails, disk, memory, IdsBelowNext, UnwrittenIsNew, WrittenAsSealed
    <2> QED
      BY <1>10, <2>1, QuietIdInv DEF SegmentOpenFails, disk, memory, ghosts
  <1>11. ASSUME SegmentWriteFails PROVE IdInv'
    <2>1. IdsBelowNext' /\ UnwrittenIsNew' /\ WrittenAsSealed'
      BY <1>11, <1>i DEF SegmentWriteFails, disk, memory, IdsBelowNext, UnwrittenIsNew, WrittenAsSealed
    <2> QED
      BY <1>11, <2>1, QuietIdInv DEF SegmentWriteFails, disk, memory, ghosts
  <1>12. ASSUME MetaOpened PROVE IdInv'
    <2>1. /\ ~ meta'.whole /\ pc = "flush" /\ pc' = "save"
          /\ UNCHANGED <<file, segIds, activeId, nextId, sealed, todo, cur, acked, skipped>>
      BY <1>12 DEF MetaOpened, TornMeta, memory, locals, ghosts
    <2> QED
      BY <1>i, <2>1
         DEF IdInv, DownIsEmpty, IdsBelowNext, UnwrittenIsNew, MetaNamesWholeSegments, AckedIsListed,
             MetaBehindMemory, MemoryNamesWholeSegments, Distinct, AckedIsPublished, Published,
             RowsOf, WrittenAsSealed
  <1>13. todo = {} \/ pc # "save"
    BY DEF TypeInv, FlushLoop
  <1>14. ASSUME MetaOpenFails \/ MetaWritten \/ MetaWriteFails \/ MetaCloseFails PROVE IdInv'
    BY <1>13, <1>14, FlushReturnsIdInv
       DEF MetaOpenFails, MetaWritten, MetaWriteFails, MetaCloseFails, disk
  <1>15. ASSUME Open PROVE IdInv'
    <2>1. /\ pc = "down" /\ pc' = "rebuild" /\ meta.whole /\ segIds' = meta.ids
          /\ UNCHANGED <<meta, file, sealed, todo, acked, skipped>>
      BY <1>15 DEF Open, disk, ghosts
    <2>2. sealed = NoFun /\ todo = {}
      BY <2>1 DEF IdInv, DownIsEmpty
    <2>3. PICK next \in 0..MaxSegId :
              /\ activeId' = next /\ nextId' = next + 1
              /\ \A id \in Range(meta.ids) : id < next
      BY <1>15 DEF Open
    <2>n. next \in Nat
      BY TableAssumption DEF TableAssumption
    <2>4. Range(meta.ids) \subseteq Nat
      BY RangeOfSeq DEF TypeInv, TypeOK
    <2>5. DOMAIN sealed' = {} /\ todo' = {} /\ segIds' = meta.ids /\ pc' = "rebuild"
      BY <2>1, <2>2, NoFunFacts
    <2>6. IdsBelowNext'
      <3>1. activeId' < nextId'
        BY <2>3, <2>n
      <3>2. \A id \in Range(meta.ids) : id < nextId' /\ id # activeId'
        BY <2>3, <2>4, <2>n
      <3>3. \A id \in Range(segIds)' \cup DOMAIN sealed' : id \in Range(meta.ids)
        BY <2>5
      <3> QED
        BY <3>1, <3>2, <3>3 DEF IdsBelowNext
    <2>7. UnwrittenIsNew' /\ WrittenAsSealed'
      BY <2>5 DEF UnwrittenIsNew, WrittenAsSealed
    <2> QED
      BY <2>1, <2>6, <2>7
         DEF IdInv, MetaNamesWholeSegments, AckedIsListed, DownIsEmpty,
             MetaBehindMemory, MemoryNamesWholeSegments, Distinct, AckedIsPublished, Published,
             RowsOf, WrittenAsSealed
  <1>16. ASSUME RebuildSegment \/ RebuildDone PROVE IdInv'
    <2>1. IdsBelowNext' /\ UnwrittenIsNew' /\ WrittenAsSealed'
      BY <1>16, <1>i DEF RebuildSegment, RebuildDone, memory, IdsBelowNext, UnwrittenIsNew,
                         WrittenAsSealed
    <2> QED
      BY <1>16, <2>1, QuietIdInv DEF RebuildSegment, RebuildDone, disk, memory, ghosts
  <1>17. ASSUME RebuildFails \/ Crash PROVE IdInv'
    BY <1>17, DropMemoryIdInv DEF RebuildFails, Crash, disk, ghosts
  <1>18. CASE UNCHANGED vars
    BY <1>18 DEF vars, disk, memory, locals, ghosts,
             IdInv, IdsBelowNext, UnwrittenIsNew, MetaNamesWholeSegments, AckedIsListed, DownIsEmpty,
             MetaBehindMemory, MemoryNamesWholeSegments, Distinct, AckedIsPublished, Published,
             RowsOf, WrittenAsSealed
  <1> QED
    BY <1>1, <1>2, <1>3, <1>5, <1>6, <1>8, <1>9, <1>10, <1>11, <1>12, <1>14, <1>15,
       <1>16, <1>17, <1>18
       DEF Next, AppendStep, FlushStep, LifeStep

LEMMA InitIdInv == Init => IdInv
  <1> SUFFICES ASSUME Init PROVE IdInv
    OBVIOUS
  <1>1. Range(segIds) = {} /\ Range(meta.ids) = {} /\ acked = {} /\ todo = {}
    BY EmptySeqFacts DEF Init, WholeMeta
  <1>2. Distinct(segIds)
    BY EmptySeq DEF Init, Distinct
  <1>3. meta.ids = segIds /\ pc = "ready" /\ activeId < nextId /\ DOMAIN sealed = {}
    BY NoFunFacts DEF Init, WholeMeta
  <1> QED
    BY <1>1, <1>2, <1>3
       DEF IdInv, DownIsEmpty, IdsBelowNext, UnwrittenIsNew, MetaNamesWholeSegments,
           AckedIsListed, MetaBehindMemory, MemoryNamesWholeSegments, Distinct,
           AckedIsPublished, WrittenAsSealed

LEMMA InvHolds == Spec => [](TypeInv /\ IdInv)
  <1>1. Init => TypeInv /\ IdInv
    BY InitTypeInv, InitIdInv
  <1>2. (TypeInv /\ IdInv) /\ [Next]_vars => (TypeInv /\ IdInv)'
    BY NextTypeInv, NextIdInv
  <1> QED
    BY <1>1, <1>2, PTL DEF Spec

\* A table whose table.meta is whole can be opened again, however many flushes,
\* crashes and failures came before.
THEOREM Reopenable == Spec => []MetaNamesWholeSegments
  <1>1. IdInv => MetaNamesWholeSegments
    BY DEF IdInv
  <1> QED
    BY <1>1, InvHolds, PTL

\* A row that a Flush answered true for is lost only because its own segment could
\* not be written, or because the process ended while table.meta was torn: else a
\* whole table.meta lists it, or a running table holds it and lists it at the next save.
THEOREM Durable == Spec => []LostOnlyByFailedWrites
  <1>1. IdInv => LostOnlyByFailedWrites
    BY DEF IdInv, AckedIsPublished, AckedIsListed, Published, LostOnlyByFailedWrites
  <1> QED
    BY <1>1, InvHolds, PTL

\* Only SegmentOpened and SegmentWritten write a segment file, and never a
\* recorded one; only a dropped object forgets a recorded id.
LEMMA StepKeepsPublished == TypeInv /\ IdInv /\ [Next]_vars => PublishedStays
  <1> SUFFICES ASSUME TypeInv, IdInv, [Next]_vars PROVE PublishedStays
    OBVIOUS
  <1>1. CASE UNCHANGED <<file, segIds>>
    BY <1>1 DEF PublishedStays
  <1>2. CASE file' = file /\ pc' = "down"
    BY <1>2 DEF PublishedStays
  <1>3. CASE Open
    <2>1. Range(segIds) = {} /\ file' = file
      BY <1>3, EmptySeqFacts DEF Open, disk, IdInv, DownIsEmpty
    <2> QED
      BY <2>1 DEF PublishedStays
  <1>4. ASSUME NEW id \in todo, SegmentOpened(id) PROVE PublishedStays
    <2>1. /\ file' = Bind(file, id, Torn)
          /\ segIds' = segIds
          /\ pc = "flush"
      BY <1>4 DEF SegmentOpened, memory
    <2>2. \A x \in Range(segIds) \cup (IF meta.whole THEN Range(meta.ids) ELSE {}) :
              x \in DOMAIN file /\ x # id
      BY <1>4, <2>1
         DEF IdInv, UnwrittenIsNew, MemoryNamesWholeSegments, MetaNamesWholeSegments,
             MetaBehindMemory
    <2> QED
      BY <2>1, <2>2 DEF PublishedStays, Bind
  <1>5. CASE SegmentWritten
    <2>1. /\ file' = Bind(file, cur, Whole(sealed[cur]))
          /\ segIds' = Append(segIds, cur)
          /\ pc = "write"
      BY <1>5 DEF SegmentWritten
    <2>2. \A x \in Range(segIds) \cup (IF meta.whole THEN Range(meta.ids) ELSE {}) :
              x \in DOMAIN file /\ x # cur
      BY <2>1
         DEF IdInv, UnwrittenIsNew, MemoryNamesWholeSegments, MetaNamesWholeSegments,
             MetaBehindMemory
    <2>3. Range(segIds') = Range(segIds) \cup {cur}
      <3>1. segIds \in Seq(Nat) /\ cur \in Nat
        BY DEF TypeInv, TypeOK
      <3> QED
        BY <2>1, <3>1, RangeAppend
    <2> QED
      BY <2>1, <2>2, <2>3 DEF PublishedStays, Bind
  <1>6. ASSUME NEW saved \in BOOLEAN, FlushReturns(saved), file' = file PROVE PublishedStays
    <2>1. pc' = "down" \/ segIds' = segIds
      BY <1>6 DEF FlushReturns, DropMemory
    <2> QED
      BY <1>1, <1>2, <1>6, <2>1
  <1>7. CASE MetaOpenFails \/ MetaWritten \/ MetaWriteFails \/ MetaCloseFails
    BY <1>6, <1>7 DEF MetaOpenFails, MetaWritten, MetaWriteFails, MetaCloseFails, disk
  <1>8. CASE AppendStep
    <2>1. UNCHANGED <<file, segIds>>
      BY <1>8 DEF AppendStep, AppendRejected, AppendBegin, AppendSplit, AppendFit, disk, memory
    <2> QED
      BY <1>1, <2>1
  <1>9. CASE FlushBegin \/ (\E id \in todo : SegmentOpenFails(id)) \/ SegmentWriteFails \/ MetaOpened
    <2>1. UNCHANGED <<file, segIds>>
      BY <1>9 DEF FlushBegin, SegmentOpenFails, SegmentWriteFails, MetaOpened, disk, memory
    <2> QED
      BY <1>1, <2>1
  <1>10. CASE RebuildSegment \/ RebuildDone \/ UNCHANGED vars
    <2>1. UNCHANGED <<file, segIds>>
      BY <1>10 DEF RebuildSegment, RebuildDone, vars, disk, memory
    <2> QED
      BY <1>1, <2>1
  <1>11. CASE RebuildFails \/ Crash
    BY <1>2, <1>11 DEF RebuildFails, Crash, DropMemory, disk
  <1>12. CASE Close
    <2>1. file' = file /\ (pc' = "down" \/ segIds' = segIds)
      BY <1>12 DEF Close, DropMemory, disk
    <2> QED
      BY <1>1, <1>2, <2>1
  <1> QED
    BY <1>3, <1>4, <1>5, <1>7, <1>8, <1>9, <1>10, <1>11, <1>12
       DEF Next, FlushStep, LifeStep

\* A recorded segment is never overwritten and never forgotten by a live table.
THEOREM Stable == Spec => PublishedIsStable
  <1>1. TypeInv /\ IdInv /\ [Next]_vars => [PublishedStays]_vars
    BY StepKeepsPublished
  <1> QED
    BY <1>1, InvHolds, PTL DEF Spec, PublishedIsStable

-----------------------------------------------------------------------------
(* The indexes, for batches that are no wider than a segment: such a batch is *)
(* split at most once, and the second part is cut at the right place.         *)

\* Both indexes have the row at loc.
EntryFor(loc, row) ==
    /\ \E e \in pk : e.loc = loc /\ e.key = row.pk
    /\ \E e \in sk : e.loc = loc /\ e.key = row.sk

\* The row at loc is one the batch under way has stored so far.
JustStored(loc) == \E i \in DOMAIN locs : loc = locs[i] /\ RowAt(loc) = chunk.rows[i]

\* The primary index has one entry for a key, and no index an entry of a segment to come.
KeysOnce == \A e, f \in pk : e.key = f.key => e = f
EntriesBelowNext == \A e \in pk \cup sk : e.loc.seg < nextId

\* Every row is in the indexes already or will be when its batch is complete.
RowsIndexed ==
    pc \notin {"down", "rebuild"} => \A loc \in HeldLocs : EntryFor(loc, RowAt(loc)) \/ JustStored(loc)

\* A batch under way has new keys; its first part fills a segment that was sealed, its
\* second part begins a new one.
OneSplit ==
    pc = "append" =>
        /\ ValidatePrimaryKey(chunk.rows)
        /\ Len(chunk.rows) <= SegCap
        /\ chunk.start = Len(locs)
        /\ locs = <<>> \/ active = <<>>
        /\ \A i \in DOMAIN locs : /\ locs[i] \in HeldLocs /\ locs[i].seg \in DOMAIN sealed
                                  /\ RowAt(locs[i]) = chunk.rows[i]

\* The segments a whole table.meta lists have no key twice.
DiskKeysOnce ==
    meta.whole =>
        \A s, t \in Range(meta.ids) : \A i \in DOMAIN file[s].rows, j \in DOMAIN file[t].rows :
            file[s].rows[i].pk = file[t].rows[j].pk => s = t /\ i = j

\* RebuildIndexes has indexed the segments before cur and nothing else.
RebuiltSoFar ==
    pc = "rebuild" =>
        /\ meta.whole /\ segIds = meta.ids /\ active = <<>> /\ DOMAIN sealed = {} /\ cur # 0
        /\ \A k \in DOMAIN segIds : k < cur =>
              \A i \in DOMAIN file[segIds[k]].rows :
                  EntryFor([seg |-> segIds[k], off |-> i - 1], file[segIds[k]].rows[i])
        /\ \A e \in pk \cup sk : \E k \in DOMAIN segIds : k < cur /\ e.loc.seg = segIds[k]

\* Without a table there are no entries.
DownHasNoEntries == pc = "down" => pk = {} /\ sk = {} /\ active = <<>> /\ pending = {}

\* Visible entries are those of recorded segments that are not pending.
VisibleIsRecorded ==
    /\ pending \subseteq Range(segIds)
    /\ \A e \in pk \cup sk : /\ e.vis => e.loc.seg \in Range(segIds)
                             /\ e.loc.seg \in Range(segIds) \ pending => e.vis

IndexInv ==
    /\ IndexedRowsMatch
    /\ KeysOnce
    /\ EntriesBelowNext
    /\ RowsIndexed
    /\ OneSplit
    /\ DiskKeysOnce
    /\ RebuiltSoFar
    /\ DownHasNoEntries
    /\ VisibleIsRecorded


\* What the table holds are segments of rows.
LEMMA SegmentsHeld ==
    ASSUME TypeInv, IdInv, NEW id \in Held
    PROVE  id \in Nat /\ Rows(id) \in Seq(Row)
  <1>1. /\ activeId \in Nat /\ active \in Seq(Row) /\ DOMAIN sealed \subseteq Nat
        /\ \A x \in DOMAIN sealed : sealed[x] \in Seq(Row)
        /\ \A x \in DOMAIN file : file[x].rows \in Seq(Row)
        /\ segIds \in Seq(Nat)
    BY DEF TypeInv, TypeOK
  <1>2. Range(segIds) \subseteq Nat /\ Range(segIds) \subseteq DOMAIN file
    BY <1>1, RangeOfSeq DEF TypeInv, FilesExist
  <1> QED
    BY <1>1, <1>2 DEF Held, Rows

\* What a sequence put behind another adds to it.
LEMMA ConcatFacts ==
    ASSUME NEW S, NEW s \in Seq(S), NEW t \in Seq(S), NEW n, Len(t) = n
    PROVE  /\ s \o t \in Seq(S)
           /\ Len(s \o t) = Len(s) + n
           /\ DOMAIN (s \o t) = 1..(Len(s) + n)
           /\ \A i \in 1..Len(s) : (s \o t)[i] = s[i]
           /\ \A i \in 1..n : (s \o t)[Len(s) + i] = t[i]
  <1>1. s \o t \in Seq(S) /\ Len(s \o t) = Len(s) + n
    BY ConcatProperties, SMTT(60)
  <1>2. \A i \in 1..Len(s) : (s \o t)[i] = s[i]
    BY LenProperties, ConcatProperties, SMTT(60)
  <1>3. \A i \in 1..n : (s \o t)[Len(s) + i] = t[i]
    <2> SUFFICES ASSUME NEW i \in 1..n PROVE (s \o t)[Len(s) + i] = t[i]
      OBVIOUS
    <2>1. /\ Len(s) \in Nat /\ Len(t) \in Nat
          /\ Len(s) + i \in 1..(Len(s) + Len(t)) /\ Len(s) + i > Len(s)
      BY LenProperties
    <2> QED
      BY <2>1, ConcatProperties, SMTT(60)
  <1> QED
    BY <1>1, <1>2, <1>3, LenProperties

\* The places of rows.
Places ==
    /\ \A loc \in HeldLocs : /\ loc \in Loc /\ loc.seg \in Held
                             /\ loc.off + 1 \in DOMAIN Rows(loc.seg)
                             /\ loc = [seg |-> loc.seg, off |-> loc.off]
                             /\ RowAt(loc) \in Row
    /\ \A id \in Held : \A o \in DOMAIN Rows(id) :
           /\ o \in Nat \ {0} /\ [seg |-> id, off |-> o - 1] \in HeldLocs
           /\ RowAt([seg |-> id, off |-> o - 1]) = Rows(id)[o]
    /\ \A loc \in Loc : loc.seg \in Held /\ loc.off + 1 \in DOMAIN Rows(loc.seg) => loc \in HeldLocs

\* A place the table holds is a row of one of its segments, and the reverse.
LEMMA HeldPlaces == TypeInv /\ IdInv => Places
  <1> SUFFICES ASSUME TypeInv, IdInv PROVE Places
    OBVIOUS
  <1>1. \A id \in Held : \A o \in DOMAIN Rows(id) : id \in Nat /\ o \in Nat \ {0} /\ Rows(id)[o] \in Row
    <2> SUFFICES ASSUME NEW id \in Held, NEW o \in DOMAIN Rows(id)
                 PROVE  id \in Nat /\ o \in Nat \ {0} /\ Rows(id)[o] \in Row
      OBVIOUS
    <2>1. id \in Nat /\ Rows(id) \in Seq(Row)
      BY SegmentsHeld
    <2>2. DOMAIN Rows(id) = 1..Len(Rows(id)) /\ Len(Rows(id)) \in Nat
      BY <2>1, LenProperties
    <2> QED
      BY <2>1, <2>2, ElementOfSeq
  <1>2. ASSUME NEW loc \in HeldLocs
        PROVE  /\ loc \in Loc /\ loc.seg \in Held
               /\ loc.off + 1 \in DOMAIN Rows(loc.seg)
               /\ loc = [seg |-> loc.seg, off |-> loc.off]
               /\ RowAt(loc) \in Row
    <2>1. PICK id \in Held : \E o \in DOMAIN Rows(id) : loc = [seg |-> id, off |-> o - 1]
      BY <1>2 DEF HeldLocs
    <2>2. PICK o \in DOMAIN Rows(id) : loc = [seg |-> id, off |-> o - 1]
      BY <2>1
    <2>3. id \in Nat /\ o \in Nat \ {0} /\ Rows(id)[o] \in Row
      BY <1>1
    <2>4. loc.seg = id /\ loc.off = o - 1 /\ loc.off + 1 = o /\ o - 1 \in Nat
      BY <2>2, <2>3
    <2> QED
      BY <2>2, <2>3, <2>4 DEF Loc, RowAt
  <1>3. ASSUME NEW id \in Held, NEW o \in DOMAIN Rows(id)
        PROVE  /\ o \in Nat \ {0} /\ [seg |-> id, off |-> o - 1] \in HeldLocs
               /\ RowAt([seg |-> id, off |-> o - 1]) = Rows(id)[o]
    <2>1. o \in Nat \ {0} /\ (o - 1) + 1 = o
      BY <1>1
    <2> QED
      BY <2>1 DEF HeldLocs, RowAt
  <1>4. ASSUME NEW loc \in Loc, loc.seg \in Held, loc.off + 1 \in DOMAIN Rows(loc.seg)
        PROVE  loc \in HeldLocs
    <2>1. loc = [seg |-> loc.seg, off |-> (loc.off + 1) - 1]
      BY DEF Loc
    <2> QED
      BY <1>3, <1>4, <2>1
  <1> QED
    BY <1>2, <1>3, <1>4 DEF Places

\* The same after a step.
LEMMA HeldPlacesNext == TypeInv' /\ IdInv' => Places'
  BY HeldPlaces, PTL

\* What has the table's rows of the old state has them in the new one.
LEMMA SameRows ==
    ASSUME TypeInv, IdInv, TypeInv', IdInv',
           \A id \in Held' : IF id \in Held THEN Rows(id)' = Rows(id) ELSE Rows(id)' = <<>>
    PROVE  /\ \A loc \in HeldLocs' : loc \in HeldLocs /\ loc.seg \in Held' /\ RowAt(loc)' = RowAt(loc)
           /\ \A loc \in HeldLocs : loc.seg \in Held' => loc \in HeldLocs' /\ RowAt(loc)' = RowAt(loc)
  <1>1. Places /\ Places'
    BY HeldPlaces, HeldPlacesNext
  <1>2. ASSUME NEW loc \in HeldLocs'
        PROVE  loc \in HeldLocs /\ loc.seg \in Held' /\ RowAt(loc)' = RowAt(loc)
    <2>1. loc \in Loc /\ loc.seg \in Held' /\ loc.off + 1 \in DOMAIN Rows(loc.seg)'
      BY <1>1, <1>2 DEF Places
    <2>2. Rows(loc.seg)' = Rows(loc.seg) /\ loc.seg \in Held
      BY <2>1, EmptySeq
    <2>3. loc \in HeldLocs
      BY <1>1, <2>1, <2>2 DEF Places
    <2> QED
      BY <2>1, <2>2, <2>3 DEF RowAt
  <1>3. ASSUME NEW loc \in HeldLocs, loc.seg \in Held'
        PROVE  loc \in HeldLocs' /\ RowAt(loc)' = RowAt(loc)
    <2>1. loc \in Loc /\ loc.seg \in Held /\ loc.off + 1 \in DOMAIN Rows(loc.seg)
      BY <1>1, <1>3 DEF Places
    <2>2. Rows(loc.seg)' = Rows(loc.seg)
      BY <1>3, <2>1
    <2>3. loc \in HeldLocs'
      BY <1>1, <1>3, <2>1, <2>2 DEF Places
    <2> QED
      BY <2>2, <2>3 DEF RowAt
  <1> QED
    BY <1>2, <1>3

\* A row with a key the primary index has is the row of that entry, so rows whose keys
\* are all indexed once have different keys.
LEMMA KeysUnique == TypeInv /\ IdInv /\ IndexInv => UniquePrimaryKeys
  <1> SUFFICES ASSUME TypeInv, IdInv, IndexInv, Up, NEW l \in HeldLocs, NEW m \in HeldLocs,
                      RowAt(l).pk = RowAt(m).pk
               PROVE  l = m
    BY DEF UniquePrimaryKeys
  <1>1. /\ EntryFor(l, RowAt(l)) \/ JustStored(l)
        /\ EntryFor(m, RowAt(m)) \/ JustStored(m)
    BY DEF IndexInv, RowsIndexed, Up
  <1>2. /\ pc = "append" => ValidatePrimaryKey(chunk.rows)
        /\ pc # "append" => locs = <<>>
        /\ DOMAIN locs \subseteq DOMAIN chunk.rows
    <2>1. /\ locs \in Seq(Loc) /\ chunk.rows \in Seq(Row) /\ chunk.len \in Nat
          /\ Len(locs) + chunk.len = Len(chunk.rows)
      BY DEF TypeInv, TypeOK, ChunkInBatch
    <2>2. /\ DOMAIN locs = 1..Len(locs) /\ Len(locs) \in Nat
          /\ DOMAIN chunk.rows = 1..Len(chunk.rows) /\ Len(chunk.rows) \in Nat
      BY <2>1, LenProperties
    <2> QED
      BY <2>1, <2>2 DEF IndexInv, OneSplit, TypeInv, ChunkInBatch
  <1>3. CASE EntryFor(l, RowAt(l)) /\ EntryFor(m, RowAt(m))
    BY <1>3 DEF EntryFor, IndexInv, KeysOnce
  <1>4. CASE JustStored(l) /\ JustStored(m)
    BY <1>2, <1>4, EmptySeq DEF JustStored, ValidatePrimaryKey
  <1>5. CASE (JustStored(l) /\ EntryFor(m, RowAt(m))) \/ (EntryFor(l, RowAt(l)) /\ JustStored(m))
    BY <1>2, <1>5, EmptySeq DEF JustStored, EntryFor, ValidatePrimaryKey
  <1> QED
    BY <1>1, <1>3, <1>4, <1>5

\* Marking entries visible changes neither their keys nor their places.
LEMMA MarkVisibleFacts ==
    ASSUME NEW K, NEW idx \in SUBSET Entry(K), NEW ids
    PROVE  /\ \A e \in MarkVisible(idx, ids) : \E f \in idx :
                  /\ f.key = e.key /\ f.loc = e.loc
                  /\ e.vis <=> f.vis \/ f.loc.seg \in ids
           /\ \A f \in idx : \E e \in MarkVisible(idx, ids) : f.key = e.key /\ f.loc = e.loc
           /\ (\A e, f \in idx : e.key = f.key => e = f)
                  => \A e, f \in MarkVisible(idx, ids) : e.key = f.key => e = f
  <1> DEFINE Marked(f) == IF f.loc.seg \in ids THEN [f EXCEPT !.vis = TRUE] ELSE f
  <1>1. MarkVisible(idx, ids) = {Marked(f) : f \in idx}
    BY DEF MarkVisible
  <1>2. \A f \in idx : Marked(f).key = f.key /\ Marked(f).loc = f.loc
                       /\ (Marked(f).vis <=> f.vis \/ f.loc.seg \in ids)
    BY DEF Entry
  <1> HIDE DEF Marked
  <1> QED
    BY <1>1, <1>2

\* A step that stores no row and forgets none but those of segments it drops, and that
\* changes no entry but to show it.
LEMMA QuietIndex ==
    ASSUME TypeInv, IdInv, IndexInv, TypeInv', IdInv',
           pc \notin {"down", "rebuild", "append"},
           Held' \subseteq Held \cup {nextId}, nextId' >= nextId,
           \A id \in Held' : IF id \in Held THEN Rows(id)' = Rows(id) ELSE Rows(id)' = <<>>,
           \/ pk' = pk /\ sk' = sk
           \/ pk' = MarkVisible(pk, pending) /\ sk' = MarkVisible(sk, pending)
    PROVE  IndexedRowsMatch' /\ KeysOnce' /\ EntriesBelowNext' /\ RowsIndexed'
  <1>1. /\ pk \subseteq Entry(Key) /\ sk \subseteq Entry(SecKey)
        /\ nextId \in Nat /\ nextId' \in Nat
    BY DEF TypeInv, TypeOK
  <1>2. /\ \A e \in pk' : \E f \in pk : f.key = e.key /\ f.loc = e.loc
        /\ \A f \in pk : \E e \in pk' : f.key = e.key /\ f.loc = e.loc
        /\ \A e \in sk' : \E f \in sk : f.key = e.key /\ f.loc = e.loc
        /\ \A f \in sk : \E e \in sk' : f.key = e.key /\ f.loc = e.loc
        /\ KeysOnce'
    <2>0. KeysOnce
      BY DEF IndexInv
    <2>1. CASE pk' = pk /\ sk' = sk
      BY <2>0, <2>1 DEF KeysOnce
    <2>2. CASE pk' = MarkVisible(pk, pending) /\ sk' = MarkVisible(sk, pending)
      <3>1. /\ \A e \in pk' : \E f \in pk : f.key = e.key /\ f.loc = e.loc
            /\ \A f \in pk : \E e \in pk' : f.key = e.key /\ f.loc = e.loc
            /\ KeysOnce'
        BY <1>1, <2>0, <2>2, MarkVisibleFacts DEF KeysOnce
      <3>2. /\ \A e \in sk' : \E f \in sk : f.key = e.key /\ f.loc = e.loc
            /\ \A f \in sk : \E e \in sk' : f.key = e.key /\ f.loc = e.loc
        BY <1>1, <2>2, MarkVisibleFacts
      <3> QED
        BY <3>1, <3>2
    <2> QED
      BY <2>1, <2>2
  <1>3. \A e \in pk \cup sk : e.loc.seg < nextId /\ e.loc.seg \in Nat
    BY <1>1 DEF IndexInv, EntriesBelowNext, Entry, Loc
  <1>4. /\ \A loc \in HeldLocs' : loc \in HeldLocs /\ loc.seg \in Held' /\ RowAt(loc)' = RowAt(loc)
        /\ \A loc \in HeldLocs : loc.seg \in Held' => loc \in HeldLocs' /\ RowAt(loc)' = RowAt(loc)
    BY SameRows
  <1>5. EntriesBelowNext'
    <2> SUFFICES ASSUME NEW e \in pk' \cup sk' PROVE e.loc.seg < nextId'
      BY DEF EntriesBelowNext
    <2>1. PICK f \in pk \cup sk : f.loc = e.loc
      BY <1>2
    <2> QED
      BY <1>1, <1>3, <2>1
  <1>6. IndexedRowsMatch'
    <2>1. ASSUME NEW e \in pk', e.loc.seg \in Held' PROVE e.loc \in HeldLocs' /\ RowAt(e.loc)'.pk = e.key
      <3>1. PICK f \in pk : f.key = e.key /\ f.loc = e.loc
        BY <1>2
      <3>2. f.loc.seg \in Held
        BY <1>1, <1>3, <2>1, <3>1
      <3>3. f.loc \in HeldLocs /\ RowAt(f.loc).pk = f.key
        BY <3>2 DEF IndexInv, IndexedRowsMatch
      <3> QED
        BY <1>4, <2>1, <3>1, <3>3
    <2>2. ASSUME NEW e \in sk', e.loc.seg \in Held' PROVE e.loc \in HeldLocs' /\ RowAt(e.loc)'.sk = e.key
      <3>1. PICK f \in sk : f.key = e.key /\ f.loc = e.loc
        BY <1>2
      <3>2. f.loc.seg \in Held
        BY <1>1, <1>3, <2>2, <3>1
      <3>3. f.loc \in HeldLocs /\ RowAt(f.loc).sk = f.key
        BY <3>2 DEF IndexInv, IndexedRowsMatch
      <3> QED
        BY <1>4, <2>2, <3>1, <3>3
    <2> QED
      BY <2>1, <2>2 DEF IndexedRowsMatch
  <1>7. RowsIndexed'
    <2> SUFFICES ASSUME NEW loc \in HeldLocs' PROVE EntryFor(loc, RowAt(loc))'
      BY DEF RowsIndexed
    <2>1. loc \in HeldLocs /\ RowAt(loc)' = RowAt(loc)
      BY <1>4
    <2>2. locs = <<>>
      BY DEF TypeInv, ChunkInBatch
    <2>3. EntryFor(loc, RowAt(loc))
      BY <2>1, <2>2, EmptySeq DEF IndexInv, RowsIndexed, JustStored
    <2>4. PICK f \in pk, g \in sk : /\ f.loc = loc /\ f.key = RowAt(loc).pk
                                    /\ g.loc = loc /\ g.key = RowAt(loc).sk
      BY <2>3 DEF EntryFor
    <2>5. PICK e \in pk', h \in sk' : f.key = e.key /\ f.loc = e.loc /\ g.key = h.key /\ g.loc = h.loc
      BY <1>2
    <2>6. e.loc = loc /\ e.key = RowAt(loc)'.pk /\ h.loc = loc /\ h.key = RowAt(loc)'.sk
      BY <2>1, <2>4, <2>5
    <2> QED
      BY <2>6 DEF EntryFor
  <1> QED
    BY <1>2, <1>5, <1>6, <1>7

\* The segments of table.meta stay as they are until it is written again.
LEMMA DiskKept ==
    ASSUME TypeInv, IdInv, [Next]_vars, DiskKeysOnce, meta' = meta \/ ~ meta'.whole
    PROVE  DiskKeysOnce'
  <1>1. PublishedStays
    BY StepKeepsPublished
  <1> QED
    BY <1>1 DEF PublishedStays, DiskKeysOnce

\* What a running table has recorded has no key twice, so table.meta may list it.
LEMMA RecordedKeysOnce ==
    ASSUME TypeInv, IdInv, IndexInv, Up,
           NEW s \in Range(segIds), NEW t \in Range(segIds),
           NEW i \in DOMAIN file[s].rows, NEW j \in DOMAIN file[t].rows,
           file[s].rows[i].pk = file[t].rows[j].pk
    PROVE  s = t /\ i = j
  <1>1. \A id \in Range(segIds) : id \in Held /\ Rows(id) = file[id].rows
    BY DEF Held, Rows, IndexInv, WrittenAsSealed, IdInv, IdsBelowNext, Up
  <1>2. /\ [seg |-> s, off |-> i - 1] \in HeldLocs /\ [seg |-> t, off |-> j - 1] \in HeldLocs
        /\ RowAt([seg |-> s, off |-> i - 1]) = file[s].rows[i]
        /\ RowAt([seg |-> t, off |-> j - 1]) = file[t].rows[j]
        /\ i \in Nat /\ j \in Nat
    BY <1>1, HeldPlaces DEF Places
  <1>3. [seg |-> s, off |-> i - 1] = [seg |-> t, off |-> j - 1]
    BY <1>2, KeysUnique DEF UniquePrimaryKeys
  <1>4. s = t /\ i - 1 = j - 1
    BY <1>3
  <1> QED
    BY <1>2, <1>4

\* An object that is gone has nothing to index.
LEMMA DropMemoryIndexInv ==
    ASSUME DropMemory, DiskKeysOnce'
    PROVE  IndexInv'
  <1> USE EmptySeqFacts, NoFunFacts DEF DropMemory, NoLocals
  <1>1. IndexedRowsMatch' /\ KeysOnce' /\ EntriesBelowNext'
    BY DEF IndexedRowsMatch, KeysOnce, EntriesBelowNext
  <1>2. RowsIndexed' /\ OneSplit' /\ RebuiltSoFar' /\ DownHasNoEntries'
    BY DEF RowsIndexed, OneSplit, RebuiltSoFar, DownHasNoEntries
  <1>3. VisibleIsRecorded'
    BY DEF VisibleIsRecorded
  <1> QED
    BY <1>1, <1>2, <1>3 DEF IndexInv

\* Flush and the destructor begin: the active segment is sealed as it is.
LEMMA SealIndexInv ==
    ASSUME TypeInv, IdInv, IndexInv, TypeInv', IdInv', DiskKeysOnce', SealForFlush,
           pc = "ready", pc' = "flush", UNCHANGED <<file, segIds, pending, pk, sk>>
    PROVE  IndexInv'
  <1>1. /\ activeId < nextId /\ activeId \in Nat /\ nextId \in Nat
        /\ \A id \in Range(segIds) \cup DOMAIN sealed : id < nextId /\ id # activeId
        /\ Range(segIds) \cup DOMAIN sealed \subseteq Nat
    <2>1. Range(segIds) \cup DOMAIN sealed \subseteq Nat
      BY SegmentsHeld DEF Held
    <2> QED
      BY <2>1 DEF IdInv, IdsBelowNext, TypeInv, TypeOK
  <1>2. /\ Held' \subseteq Held \cup {nextId} /\ nextId' >= nextId
        /\ \A id \in Held' : IF id \in Held THEN Rows(id)' = Rows(id) ELSE Rows(id)' = <<>>
    <2>1. CASE active = <<>>
      BY <1>1, <2>1 DEF SealForFlush, Held, Rows
    <2>2. CASE active # <<>>
      <3>1. /\ DOMAIN sealed' = DOMAIN sealed \cup {activeId}
            /\ sealed'[activeId] = active
            /\ \A id \in DOMAIN sealed : sealed'[id] = sealed[id]
            /\ active' = <<>> /\ activeId' = nextId /\ nextId' = nextId + 1
        BY <1>1, <2>2 DEF SealForFlush, Bind
      <3>2. Held' = Held \cup {nextId} /\ nextId \notin Held
        BY <1>1, <3>1 DEF Held
      <3>3. ASSUME NEW id \in Held PROVE Rows(id)' = Rows(id)
        BY <1>1, <3>1, <3>2, <3>3 DEF Held, Rows
      <3>4. ASSUME NEW id \in Held', id \notin Held PROVE Rows(id)' = <<>>
        BY <3>1, <3>2, <3>4 DEF Rows
      <3> QED
        BY <1>1, <3>1, <3>2, <3>3, <3>4
    <2> QED
      BY <2>1, <2>2
  <1>3. IndexedRowsMatch' /\ KeysOnce' /\ EntriesBelowNext' /\ RowsIndexed'
    BY <1>2, QuietIndex
  <1>4. OneSplit' /\ RebuiltSoFar' /\ DownHasNoEntries' /\ VisibleIsRecorded'
    BY DEF IndexInv, OneSplit, RebuiltSoFar, DownHasNoEntries, VisibleIsRecorded
  <1> QED
    BY <1>2, <1>3, <1>4 DEF IndexInv

\* A segment file is truncated that is not recorded, or completed and recorded.
LEMMA WriteIndexInv ==
    ASSUME TypeInv, IdInv, IndexInv, TypeInv', IdInv', DiskKeysOnce',
           (\E id \in todo : SegmentOpened(id)) \/ SegmentWritten
    PROVE  IndexInv'
  <1>0. /\ pc \in {"flush", "write"} /\ pc' \in {"flush", "write"}
        /\ UNCHANGED <<active, activeId, nextId, sealed, pk, sk>>
    BY DEF SegmentOpened, SegmentWritten, memory
  <1>1. /\ VisibleIsRecorded' /\ Held' = Held
        /\ \A id \in Held : Rows(id)' = Rows(id)
    <2>0. VisibleIsRecorded
      BY DEF IndexInv
    <2>1. ASSUME NEW id \in todo, SegmentOpened(id)
          PROVE  /\ VisibleIsRecorded' /\ Held' = Held
                 /\ \A x \in Held : Rows(x)' = Rows(x)
      <3>1. /\ segIds' = segIds /\ pending' = pending
            /\ \A x \in DOMAIN file : x # id => file'[x] = file[x]
        BY <2>1 DEF SegmentOpened, memory, Bind
      <3>2. \A x \in Range(segIds) : x \in DOMAIN file /\ x # id
        BY DEF IdInv, UnwrittenIsNew, MemoryNamesWholeSegments
      <3> QED
        BY <1>0, <2>0, <3>1, <3>2 DEF VisibleIsRecorded, Held, Rows
    <2>2. CASE SegmentWritten
      <3>1. /\ segIds \in Seq(Nat) /\ cur \in Nat /\ cur \in DOMAIN sealed
            /\ cur \notin Range(segIds)
        BY <2>2 DEF SegmentWritten, TypeInv, TypeOK, FlushLoop, IdInv, UnwrittenIsNew
      <3>2. Range(segIds') = Range(segIds) \cup {cur} /\ pending' = pending \cup {cur}
        BY <2>2, <3>1, RangeAppend DEF SegmentWritten
      <3>3. /\ file'[cur].rows = sealed[cur]
            /\ \A x \in DOMAIN file : x # cur => file'[x] = file[x]
        BY <2>2 DEF SegmentWritten, Bind, Whole
      <3>4. Range(segIds) \subseteq DOMAIN file
        BY DEF IdInv, MemoryNamesWholeSegments
      <3>5. VisibleIsRecorded'
        BY <1>0, <2>0, <3>2 DEF VisibleIsRecorded
      <3>6. Held' = Held /\ \A x \in Held : Rows(x)' = Rows(x)
        BY <1>0, <3>1, <3>2, <3>3, <3>4 DEF Held, Rows
      <3> QED
        BY <3>5, <3>6
    <2> QED
      BY <2>1, <2>2
  <1>2. nextId' >= nextId
    BY <1>0 DEF TypeInv, TypeOK
  <1>3. IndexedRowsMatch' /\ KeysOnce' /\ EntriesBelowNext' /\ RowsIndexed'
    BY <1>0, <1>1, <1>2, QuietIndex
  <1>4. OneSplit' /\ RebuiltSoFar' /\ DownHasNoEntries'
    BY <1>0 DEF OneSplit, RebuiltSoFar, DownHasNoEntries
  <1> QED
    BY <1>1, <1>3, <1>4 DEF IndexInv

\* The end of Flush: what was written is on disk as it was sealed, what was not is
\* forgotten, and what SaveMeta has listed becomes visible.
LEMMA FlushReturnsIndexInv ==
    ASSUME TypeInv, IdInv, IndexInv, TypeInv', IdInv', DiskKeysOnce',
           NEW saved \in BOOLEAN, FlushReturns(saved), file' = file, pc \in {"flush", "save"}
    PROVE  IndexInv'
  <1>1. CASE closing
    BY <1>1, DropMemoryIndexInv DEF FlushReturns
  <1>2. CASE ~ closing
    <2>0. /\ pc' = "ready" /\ sealed' = NoFun /\ DOMAIN sealed' = {}
          /\ UNCHANGED <<segIds, active, activeId, nextId>>
          /\ \/ pk' = pk /\ sk' = sk /\ pending' = pending
             \/ pk' = MarkVisible(pk, pending) /\ sk' = MarkVisible(sk, pending) /\ pending' = {}
      BY <1>2, NoFunFacts DEF FlushReturns
    <2>1. /\ Held' \subseteq Held
          /\ \A id \in Held' : Rows(id)' = Rows(id)
      BY <2>0 DEF Held, Rows, IndexInv, WrittenAsSealed, IdInv, IdsBelowNext
    <2>2. nextId' >= nextId
      BY <2>0 DEF TypeInv, TypeOK
    <2>3. IndexedRowsMatch' /\ KeysOnce' /\ EntriesBelowNext' /\ RowsIndexed'
      BY <2>0, <2>1, <2>2, QuietIndex
    <2>4. OneSplit' /\ RebuiltSoFar' /\ DownHasNoEntries'
      BY <2>0 DEF OneSplit, RebuiltSoFar, DownHasNoEntries
    <2>5. VisibleIsRecorded'
      <3>0. VisibleIsRecorded /\ pk \subseteq Entry(Key) /\ sk \subseteq Entry(SecKey)
        BY DEF IndexInv, TypeInv, TypeOK
      <3>1. CASE pk' = pk /\ sk' = sk /\ pending' = pending
        BY <2>0, <3>0, <3>1 DEF VisibleIsRecorded
      <3>2. CASE pk' = MarkVisible(pk, pending) /\ sk' = MarkVisible(sk, pending) /\ pending' = {}
        <4>1. \A e \in pk' \cup sk' : \E f \in pk \cup sk :
                  f.loc = e.loc /\ (e.vis <=> f.vis \/ f.loc.seg \in pending)
          <5>1. \A e \in pk' : \E f \in pk : f.loc = e.loc /\ (e.vis <=> f.vis \/ f.loc.seg \in pending)
            BY <3>0, <3>2, MarkVisibleFacts
          <5>2. \A e \in sk' : \E f \in sk : f.loc = e.loc /\ (e.vis <=> f.vis \/ f.loc.seg \in pending)
            BY <3>0, <3>2, MarkVisibleFacts
          <5> QED
            BY <5>1, <5>2
        <4>2. ASSUME NEW e \in pk' \cup sk'
              PROVE  (e.vis => e.loc.seg \in Range(segIds)) /\ (e.loc.seg \in Range(segIds) => e.vis)
          <5>1. PICK f \in pk \cup sk : f.loc = e.loc /\ (e.vis <=> f.vis \/ f.loc.seg \in pending)
            BY <4>1
          <5>2. /\ pending \subseteq Range(segIds)
                /\ f.vis => f.loc.seg \in Range(segIds)
                /\ f.loc.seg \in Range(segIds) \ pending => f.vis
            BY <3>0 DEF VisibleIsRecorded
          <5> QED
            BY <5>1, <5>2
        <4> QED
          BY <2>0, <3>2, <4>2 DEF VisibleIsRecorded
      <3> QED
        BY <2>0, <3>1, <3>2
    <2> QED
      BY <2>3, <2>4, <2>5 DEF IndexInv
  <1> QED
    BY <1>1, <1>2

\* What rows with new keys add to the indexes.
LEMMA InsertedEntries ==
    ASSUME KeysOnce, NEW rows \in Seq(Row), NEW at \in Seq(Loc), Len(at) = Len(rows), NEW vis,
           ValidatePrimaryKey(rows),
           pk' = InsertPk(pk, rows, at, vis), sk' = InsertSk(sk, rows, at, vis)
    PROVE  /\ \A e \in pk' :
                 e \in pk \/ \E j \in DOMAIN at : e = [key |-> rows[j].pk, loc |-> at[j], vis |-> vis]
           /\ \A e \in sk' :
                 e \in sk \/ \E j \in DOMAIN at : e = [key |-> rows[j].sk, loc |-> at[j], vis |-> vis]
           /\ pk \subseteq pk' /\ sk \subseteq sk'
           /\ \A j \in DOMAIN at : /\ \E e \in pk' : e.loc = at[j] /\ e.key = rows[j].pk
                                   /\ \E e \in sk' : e.loc = at[j] /\ e.key = rows[j].sk
           /\ KeysOnce'
  <1>1. DOMAIN at = DOMAIN rows
    BY LenProperties
  <1>2. pk' = pk \cup {[key |-> rows[j].pk, loc |-> at[j], vis |-> vis] : j \in DOMAIN at}
    <2>1. {e \in pk : \A j \in DOMAIN at : rows[j].pk # e.key} = pk
      BY <1>1 DEF ValidatePrimaryKey
    <2>2. \A k \in DOMAIN at : \A i \in DOMAIN at : i > k => rows[i].pk # rows[k].pk
      <3> SUFFICES ASSUME NEW k \in DOMAIN at, NEW i \in DOMAIN at, i > k PROVE rows[i].pk # rows[k].pk
        OBVIOUS
      <3>1. i # k
        BY LenProperties
      <3> QED
        BY <1>1, <3>1 DEF ValidatePrimaryKey
    <2>3. {k \in DOMAIN at : \A i \in DOMAIN at : i > k => rows[i].pk # rows[k].pk} = DOMAIN at
      BY <2>2
    <2> QED
      BY <2>1, <2>3 DEF InsertPk
  <1>3. sk' = sk \cup {[key |-> rows[j].sk, loc |-> at[j], vis |-> vis] : j \in DOMAIN at}
    BY DEF InsertSk
  <1>4. KeysOnce'
    <2> SUFFICES ASSUME NEW e \in pk', NEW f \in pk', e.key = f.key PROVE e = f
      BY DEF KeysOnce
    <2>1. \A g \in pk' :
             g \in pk \/ \E j \in DOMAIN at : g = [key |-> rows[j].pk, loc |-> at[j], vis |-> vis]
      BY <1>2
    <2>2. CASE e \in pk /\ f \in pk
      BY <2>2 DEF KeysOnce
    <2>3. CASE e \in pk /\ f \notin pk
      <3>1. PICK j \in DOMAIN at : f = [key |-> rows[j].pk, loc |-> at[j], vis |-> vis]
        BY <2>1, <2>3
      <3> QED
        BY <1>1, <2>3, <3>1 DEF ValidatePrimaryKey
    <2>4. CASE e \notin pk /\ f \in pk
      <3>1. PICK j \in DOMAIN at : e = [key |-> rows[j].pk, loc |-> at[j], vis |-> vis]
        BY <2>1, <2>4
      <3> QED
        BY <1>1, <2>4, <3>1 DEF ValidatePrimaryKey
    <2>5. CASE e \notin pk /\ f \notin pk
      <3>1. PICK i \in DOMAIN at : e = [key |-> rows[i].pk, loc |-> at[i], vis |-> vis]
        BY <2>1, <2>5
      <3>2. PICK j \in DOMAIN at : f = [key |-> rows[j].pk, loc |-> at[j], vis |-> vis]
        BY <2>1, <2>5
      <3> QED
        BY <1>1, <3>1, <3>2 DEF ValidatePrimaryKey
    <2> QED
      BY <2>2, <2>3, <2>4, <2>5
  <1>5. ASSUME NEW j \in DOMAIN at
        PROVE  /\ \E e \in pk' : e.loc = at[j] /\ e.key = rows[j].pk
               /\ \E e \in sk' : e.loc = at[j] /\ e.key = rows[j].sk
    <2>1. /\ [key |-> rows[j].pk, loc |-> at[j], vis |-> vis] \in pk'
          /\ [key |-> rows[j].sk, loc |-> at[j], vis |-> vis] \in sk'
      BY <1>2, <1>3
    <2> QED
      BY <2>1
  <1> QED
    BY <1>2, <1>3, <1>4, <1>5

\* Rows stay where they are when rows are added behind them.
LEMMA MoreRows ==
    ASSUME TypeInv, IdInv, TypeInv', IdInv',
           \A id \in Held : /\ id \in Held'
                            /\ \A o \in DOMAIN Rows(id) :
                                  o \in DOMAIN Rows(id)' /\ Rows(id)'[o] = Rows(id)[o]
    PROVE  \A loc \in HeldLocs : loc \in HeldLocs' /\ RowAt(loc)' = RowAt(loc)
  <1> SUFFICES ASSUME NEW loc \in HeldLocs PROVE loc \in HeldLocs' /\ RowAt(loc)' = RowAt(loc)
    OBVIOUS
  <1>1. loc \in Loc /\ loc.seg \in Held /\ loc.off + 1 \in DOMAIN Rows(loc.seg)
    BY HeldPlaces DEF Places
  <1>2. loc \in HeldLocs'
    BY <1>1, HeldPlacesNext DEF Places
  <1> QED
    BY <1>1, <1>2 DEF RowAt

\* With the rows that stay, their entries match.
LEMMA OldEntriesMatch ==
    ASSUME TypeInv, IdInv, IndexInv, Held' \subseteq Held \cup {nextId},
           \A loc \in HeldLocs : loc \in HeldLocs' /\ RowAt(loc)' = RowAt(loc)
    PROVE  /\ \A e \in pk : e.loc.seg \in Held' => e.loc \in HeldLocs' /\ RowAt(e.loc)'.pk = e.key
           /\ \A e \in sk : e.loc.seg \in Held' => e.loc \in HeldLocs' /\ RowAt(e.loc)'.sk = e.key
  <1>1. /\ pk \subseteq Entry(Key) /\ sk \subseteq Entry(SecKey) /\ nextId \in Nat
        /\ \A e \in pk \cup sk : e.loc.seg < nextId
    BY DEF TypeInv, TypeOK, IndexInv, EntriesBelowNext
  <1>2. \A e \in pk \cup sk : e.loc.seg \in Nat /\ e.loc.seg # nextId
    BY <1>1 DEF Entry, Loc
  <1>3. \A e \in pk \cup sk : e.loc.seg \in Held' => e.loc.seg \in Held
    BY <1>2
  <1> QED
    BY <1>3 DEF IndexInv, IndexedRowsMatch

\* A batch with new keys begins.
LEMMA BeginIndexInv ==
    ASSUME MaxBatch <= SegCap, TypeInv, IdInv, IndexInv, TypeInv', IdInv', DiskKeysOnce',
           NEW input \in Batch, AppendBegin(input)
    PROVE  IndexInv'
  <1>1. /\ pc = "ready" /\ pc' = "append" /\ ValidatePrimaryKey(input) /\ locs' = locs
        /\ chunk' = [rows |-> input, start |-> 0, len |-> Len(input)]
        /\ UNCHANGED <<file, segIds, active, activeId, nextId, sealed, pending, pk, sk>>
    BY DEF AppendBegin, disk, memory, View
  <1>2. Held' = Held /\ \A id \in Held : Rows(id)' = Rows(id)
    BY <1>1 DEF Held, Rows
  <1>3. nextId' >= nextId
    BY <1>1 DEF TypeInv, TypeOK
  <1>4. IndexedRowsMatch' /\ KeysOnce' /\ EntriesBelowNext' /\ RowsIndexed'
    BY <1>1, <1>2, <1>3, QuietIndex
  <1>5. OneSplit'
    <2>1. locs' = <<>> /\ Len(locs') = 0 /\ DOMAIN locs' = {}
      BY <1>1, EmptySeq DEF TypeInv, ChunkInBatch
    <2>2. Len(input) <= SegCap
      BY BatchIsSeq, TableAssumption DEF TableAssumption
    <2>3. ValidatePrimaryKey(chunk.rows)'
      BY <1>1 DEF ValidatePrimaryKey
    <2> QED
      BY <1>1, <2>1, <2>2, <2>3 DEF OneSplit
  <1>6. RebuiltSoFar' /\ DownHasNoEntries' /\ VisibleIsRecorded'
    BY <1>1 DEF IndexInv, RebuiltSoFar, DownHasNoEntries, VisibleIsRecorded
  <1> QED
    BY <1>4, <1>5, <1>6 DEF IndexInv

\* What a batch under way looks like: before the split, or after the only one.
LEMMA BatchUnderWay ==
    ASSUME TypeInv, IndexInv, pc = "append"
    PROVE  /\ chunk.rows \in Seq(Row) /\ chunk.start \in Nat /\ chunk.len \in Nat
           /\ active \in Seq(Row) /\ locs \in Seq(Loc) /\ activeId \in Nat /\ nextId \in Nat
           /\ Len(active) \in Nat /\ Len(active) <= SegCap /\ SegCap \in Nat \ {0}
           /\ Len(chunk.rows) \in Nat /\ Len(chunk.rows) <= SegCap
           /\ Len(locs) \in Nat /\ chunk.start = Len(locs) /\ Len(locs) + chunk.len = Len(chunk.rows)
           /\ DOMAIN active = 1..Len(active) /\ DOMAIN chunk.rows = 1..Len(chunk.rows)
           /\ DOMAIN locs = 1..Len(locs)
           /\ locs = <<>> \/ active = <<>>
  <1>1. /\ chunk.rows \in Seq(Row) /\ chunk.start \in Nat /\ chunk.len \in Nat
        /\ active \in Seq(Row) /\ locs \in Seq(Loc) /\ activeId \in Nat /\ nextId \in Nat
    BY DEF TypeInv, TypeOK
  <1>2. /\ Len(active) <= SegCap /\ Len(locs) + chunk.len = Len(chunk.rows)
    BY DEF TypeInv, ChunkInBatch
  <1>3. /\ Len(chunk.rows) <= SegCap /\ chunk.start = Len(locs) /\ (locs = <<>> \/ active = <<>>)
    BY DEF IndexInv, OneSplit
  <1> QED
    BY <1>1, <1>2, <1>3, LenProperties, TableAssumption DEF TableAssumption

\* The first part of the batch fills the active segment, which is sealed.
LEMMA SplitIndexInv ==
    ASSUME TypeInv, IdInv, IndexInv, TypeInv', IdInv', DiskKeysOnce', AppendSplit
    PROVE  IndexInv'
  <1> DEFINE n == Remaining
             head == SliceHead(chunk, Remaining)
             new == LocsFrom(activeId, Len(active), Remaining)
  <1>0. /\ pc = "append" /\ pc' = "append" /\ chunk.len > n
        /\ locs' = locs \o LocsFrom(activeId, Len(active), head.len)
        /\ sealed' = Bind(sealed, activeId, active \o ViewRows(head))
        /\ chunk' = SliceRest(chunk, n)
        /\ active' = <<>> /\ activeId' = nextId /\ nextId' = nextId + 1
        /\ UNCHANGED <<file, segIds, pending, pk, sk>>
    BY DEF AppendSplit, AppendInternal, disk
  <1>1. /\ chunk.rows \in Seq(Row) /\ chunk.start \in Nat /\ chunk.len \in Nat
        /\ active \in Seq(Row) /\ locs \in Seq(Loc) /\ activeId \in Nat /\ nextId \in Nat
        /\ Len(active) \in Nat /\ Len(active) <= SegCap /\ SegCap \in Nat \ {0}
        /\ Len(chunk.rows) \in Nat /\ Len(chunk.rows) <= SegCap
        /\ Len(locs) \in Nat /\ chunk.start = Len(locs) /\ Len(locs) + chunk.len = Len(chunk.rows)
        /\ DOMAIN active = 1..Len(active) /\ DOMAIN chunk.rows = 1..Len(chunk.rows)
    BY <1>0, BatchUnderWay
  <1>2. n = SegCap - Len(active) /\ n \in Nat
    BY <1>1 DEF Remaining
  <1>3. locs = <<>> /\ Len(locs) = 0 /\ chunk.start = 0
    <2>1. active # <<>>
      BY <1>0, <1>1, <1>2, EmptySeq
    <2> QED
      BY <1>0, <1>1, <2>1, BatchUnderWay, EmptySeq
  <1>4. /\ head.rows = chunk.rows /\ head.start = 0 /\ head.len = n
        /\ head \in [rows : Seq(Row), start : Nat, len : Nat]
        /\ chunk'.rows = chunk.rows /\ chunk'.start = n
    <2>1. chunk \in [rows : Seq(Row), start : Nat, len : Nat]
      BY DEF TypeInv, TypeOK
    <2> QED
      BY <1>0, <1>2, <1>3, <2>1 DEF SliceHead, SliceRest
  <1>5. /\ ViewRows(head) \in Seq(Row) /\ Len(ViewRows(head)) = n
        /\ \A i \in 1..n : ViewRows(head)[i] = chunk.rows[i]
    <2>1. head.start + head.len <= Len(head.rows)
      BY <1>0, <1>1, <1>2, <1>3, <1>4
    <2>2. /\ ViewRows(head) \in Seq(Row) /\ Len(ViewRows(head)) = head.len
          /\ \A i \in 1..head.len : ViewRows(head)[i] = head.rows[head.start + i]
      BY <1>4, <2>1, ViewRowsFacts
    <2> HIDE DEF head
    <2> QED
      BY <1>2, <1>4, <2>2
  <1>6. /\ DOMAIN (active \o ViewRows(head)) = 1..SegCap
        /\ \A o \in DOMAIN active : (active \o ViewRows(head))[o] = active[o]
        /\ \A i \in 1..n : (active \o ViewRows(head))[Len(active) + i] = chunk.rows[i]
    <2> DEFINE tail == ViewRows(head)
    <2>0. tail \in Seq(Row) /\ Len(tail) = n /\ \A i \in 1..n : tail[i] = chunk.rows[i]
      BY <1>5
    <2>a. active \in Seq(Row)
      BY <1>1
    <2> HIDE DEF tail, n
    <2>1. /\ DOMAIN (active \o tail) = 1..(Len(active) + n)
          /\ \A i \in 1..Len(active) : (active \o tail)[i] = active[i]
          /\ \A i \in 1..n : (active \o tail)[Len(active) + i] = tail[i]
      BY <2>0, <2>a, ConcatFacts, SMTT(60)
    <2>d. DOMAIN active = 1..Len(active)
      BY <1>1
    <2>2. Len(active) + n = SegCap
      BY <1>1, <1>2
    <2> QED
      BY <2>0, <2>1, <2>2, <2>d DEF tail
  <1>7. /\ locs' \in Seq(Loc) /\ Len(locs') = n /\ DOMAIN locs' = 1..n
        /\ \A i \in 1..n : locs'[i] = [seg |-> activeId, off |-> Len(active) + i - 1]
    <2>1. /\ new \in Seq(Loc) /\ Len(new) = n
          /\ \A i \in 1..n : new[i] = [seg |-> activeId, off |-> Len(active) + i - 1]
      <3>1. activeId \in Nat /\ Len(active) \in Nat /\ n \in Nat
        BY <1>1, <1>2
      <3>2. new = LocsFrom(activeId, Len(active), n)
        OBVIOUS
      <3> HIDE DEF n, new
      <3> QED
        BY <3>1, <3>2, LocsFromFacts, ZenonT(60)
    <2>2. locs' = new
      BY <1>0, <1>3, <1>4, <2>1, ConcatEmptySeq
    <2> HIDE DEF new
    <2> QED
      BY <1>2, <2>1, <2>2, LenProperties
  <1>8. /\ activeId < nextId /\ \A id \in Range(segIds) \cup DOMAIN sealed : id < nextId /\ id # activeId
        /\ Range(segIds) \cup DOMAIN sealed \subseteq Nat
    <2>1. Range(segIds) \cup DOMAIN sealed \subseteq Nat
      BY SegmentsHeld DEF Held
    <2> QED
      BY <1>0, <2>1 DEF IdInv, IdsBelowNext
  <1>9. /\ DOMAIN sealed' = DOMAIN sealed \cup {activeId}
        /\ sealed'[activeId] = active \o ViewRows(head)
        /\ \A id \in DOMAIN sealed : sealed'[id] = sealed[id]
    BY <1>0, <1>8 DEF Bind
  <1> DEFINE filled == active \o ViewRows(head)
  <1>f. /\ DOMAIN filled = 1..SegCap
        /\ \A o \in DOMAIN active : filled[o] = active[o]
        /\ \A i \in 1..n : filled[Len(active) + i] = chunk.rows[i]
        /\ sealed'[activeId] = filled
    BY <1>6, <1>9
  <1> HIDE DEF head, new, n, filled
  <1>10. /\ Held' = Held \cup {nextId} /\ nextId \notin Held
         /\ activeId \in Held /\ Rows(activeId) = active
    BY <1>0, <1>1, <1>8, <1>9 DEF Held, Rows
  <1>11. ASSUME NEW id \in Held'
         PROVE  /\ id \notin Held => Rows(id)' = <<>>
                /\ id \in Held /\ id # activeId => Rows(id)' = Rows(id)
                /\ id = activeId => Rows(id)' = filled
    BY <1>0, <1>1, <1>8, <1>9, <1>f, <1>10 DEF Held, Rows
  <1>12. \A loc \in HeldLocs : loc \in HeldLocs' /\ RowAt(loc)' = RowAt(loc)
    <2>1. ASSUME NEW id \in Held
          PROVE  /\ id \in Held'
                 /\ \A o \in DOMAIN Rows(id) : o \in DOMAIN Rows(id)' /\ Rows(id)'[o] = Rows(id)[o]
      <3>1. id \in Held'
        BY <1>10
      <3>2. CASE id = activeId
        <4>1. Rows(id) = active /\ Rows(id)' = filled
          BY <1>10, <1>11, <3>1, <3>2
        <4>2. \A o \in DOMAIN active : o \in 1..SegCap
          BY <1>1
        <4> QED
          BY <1>f, <3>1, <4>1, <4>2
      <3>3. CASE id # activeId
        BY <1>11, <3>1, <3>3
      <3> QED
        BY <3>2, <3>3
    <2> QED
      BY <2>1, MoreRows
  <1>13. ASSUME NEW i \in 1..n, NEW loc, loc = locs'[i]
         PROVE  loc \in HeldLocs' /\ loc.seg = activeId /\ RowAt(loc)' = chunk.rows[i]
    <2>1. /\ loc = [seg |-> activeId, off |-> Len(active) + i - 1]
          /\ loc.off + 1 = Len(active) + i /\ Len(active) + i \in 1..SegCap
          /\ loc \in Loc
      BY <1>1, <1>2, <1>7, <1>13 DEF Loc
    <2>2. loc.seg \in Held' /\ Rows(loc.seg)' = filled
      BY <1>10, <1>11, <2>1
    <2>3. loc \in HeldLocs'
      BY <1>f, <2>1, <2>2, HeldPlacesNext DEF Places
    <2> QED
      BY <1>f, <2>1, <2>2, <2>3 DEF RowAt
  <1>14. RowsIndexed'
    <2> SUFFICES ASSUME NEW loc \in HeldLocs'
                 PROVE  EntryFor(loc, RowAt(loc))' \/ JustStored(loc)'
      BY DEF RowsIndexed
    <2>1. loc \in Loc /\ loc.seg \in Held' /\ loc.off + 1 \in DOMAIN Rows(loc.seg)'
      BY HeldPlacesNext DEF Places
    <2>2. loc.seg \in Held
      BY <1>11, <2>1, EmptySeq
    <2>3. CASE loc \in HeldLocs
      <3>1. EntryFor(loc, RowAt(loc))
        BY <1>0, <1>3, <2>3, EmptySeq DEF IndexInv, RowsIndexed, JustStored
      <3>2. RowAt(loc)' = RowAt(loc) /\ pk' = pk /\ sk' = sk
        BY <1>0, <1>12, <2>3
      <3> QED
        BY <3>1, <3>2 DEF EntryFor
    <2>4. CASE loc \notin HeldLocs
      <3>1. loc.seg = activeId
        BY <1>11, <2>1, <2>2, <2>4, HeldPlaces DEF Places
      <3>2. loc.off + 1 \in 1..SegCap /\ loc.off + 1 \notin DOMAIN active
        BY <1>f, <1>10, <1>11, <2>1, <2>2, <2>4, <3>1, HeldPlaces DEF Places
      <3>3. PICK i \in 1..n : loc.off + 1 = Len(active) + i
        <4>1. loc.off \in Nat
          BY <2>1 DEF Loc
        <4>2. loc.off + 1 - Len(active) \in 1..n
          BY <1>1, <1>2, <3>2, <4>1
        <4> QED
          BY <1>1, <4>1, <4>2
      <3>4. loc = locs'[i]
        <4>1. loc.off = Len(active) + i - 1
          BY <1>1, <1>2, <2>1, <3>3 DEF Loc
        <4> QED
          BY <1>7, <2>1, <3>1, <4>1 DEF Loc
      <3> QED
        <4>1. RowAt(loc)' = chunk'.rows[i] /\ i \in DOMAIN locs'
          BY <1>4, <1>7, <1>13, <3>4
        <4> QED
          BY <3>4, <4>1 DEF JustStored
    <2> QED
      BY <2>3, <2>4
  <1>15. OneSplit'
    <2>1. ValidatePrimaryKey(chunk.rows)'
      BY <1>0, <1>4 DEF IndexInv, OneSplit, ValidatePrimaryKey
    <2> QED
      <3>1. /\ Len(chunk'.rows) <= SegCap /\ chunk'.start = Len(locs') /\ active' = <<>>
        BY <1>0, <1>1, <1>4, <1>7
      <3>2. \A i \in DOMAIN locs' : /\ locs'[i] \in HeldLocs' /\ locs'[i].seg \in DOMAIN sealed'
                                    /\ RowAt(locs[i])' = chunk'.rows[i]
        <4> SUFFICES ASSUME NEW i \in DOMAIN locs', NEW loc, loc = locs'[i]
                     PROVE  loc \in HeldLocs' /\ loc.seg \in DOMAIN sealed' /\ RowAt(loc)' = chunk'.rows[i]
          BY DEF RowAt
        <4> QED
          BY <1>4, <1>7, <1>9, <1>13
      <3> QED
        BY <2>1, <3>1, <3>2 DEF OneSplit
  <1>16. IndexedRowsMatch'
    BY <1>0, <1>10, <1>12, OldEntriesMatch DEF IndexedRowsMatch
  <1>17. KeysOnce' /\ EntriesBelowNext'
    <2>1. \A e \in pk \cup sk : e.loc.seg < nextId /\ e.loc.seg \in Nat
      BY DEF IndexInv, EntriesBelowNext, TypeInv, TypeOK, Entry, Loc
    <2> QED
      BY <1>0, <1>1, <2>1 DEF IndexInv, KeysOnce, EntriesBelowNext
  <1>18. RebuiltSoFar' /\ DownHasNoEntries' /\ VisibleIsRecorded'
    BY <1>0 DEF IndexInv, RebuiltSoFar, DownHasNoEntries, VisibleIsRecorded
  <1> QED
    BY <1>14, <1>15, <1>16, <1>17, <1>18 DEF IndexInv

\* The last part of the batch is stored, and the whole batch is indexed.
LEMMA FitIndexInv ==
    ASSUME TypeInv, IdInv, IndexInv, TypeInv', IdInv', DiskKeysOnce', AppendFit
    PROVE  IndexInv'
  <1> DEFINE rows == chunk.rows
             part == ViewRows(chunk)
             filled == active \o ViewRows(chunk)
             new == LocsFrom(activeId, Len(active), chunk.len)
             at == AppendInternal(chunk)
  <1>0. /\ pc = "append" /\ pc' = "ready" /\ chunk.len <= Remaining
        /\ active' = filled /\ locs' = <<>>
        /\ pk' = InsertPk(pk, rows, at, FALSE) /\ sk' = InsertSk(sk, rows, at, FALSE)
        /\ UNCHANGED <<file, segIds, activeId, nextId, sealed, pending>>
    BY DEF AppendFit, disk
  <1>1. /\ rows \in Seq(Row) /\ chunk.start \in Nat /\ chunk.len \in Nat
        /\ active \in Seq(Row) /\ locs \in Seq(Loc) /\ activeId \in Nat /\ nextId \in Nat
        /\ Len(active) \in Nat /\ Len(rows) \in Nat
        /\ Len(locs) \in Nat /\ chunk.start = Len(locs) /\ Len(locs) + chunk.len = Len(rows)
        /\ DOMAIN active = 1..Len(active) /\ DOMAIN rows = 1..Len(rows) /\ DOMAIN locs = 1..Len(locs)
    BY <1>0, BatchUnderWay
  <1>2. /\ part \in Seq(Row) /\ Len(part) = chunk.len
        /\ \A i \in 1..chunk.len : part[i] = rows[Len(locs) + i]
    <2>1. chunk \in [rows : Seq(Row), start : Nat, len : Nat] /\ chunk.start + chunk.len <= Len(chunk.rows)
      BY DEF TypeInv, TypeOK, ChunkInBatch
    <2> QED
      BY <1>1, <2>1, ViewRowsFacts
  <1>3. /\ DOMAIN filled = 1..(Len(active) + chunk.len)
        /\ \A o \in DOMAIN active : filled[o] = active[o]
        /\ \A i \in 1..chunk.len : filled[Len(active) + i] = rows[Len(locs) + i]
    <2>0. active \in Seq(Row) /\ part \in Seq(Row) /\ Len(part) = chunk.len
      BY <1>1, <1>2
    <2> HIDE DEF part, rows
    <2>1. /\ DOMAIN (active \o part) = 1..(Len(active) + chunk.len)
          /\ \A i \in 1..Len(active) : (active \o part)[i] = active[i]
          /\ \A i \in 1..chunk.len : (active \o part)[Len(active) + i] = part[i]
      BY <2>0, ConcatFacts, SMTT(60)
    <2>2. DOMAIN active = 1..Len(active)
      BY <1>1
    <2>3. filled = active \o part
      BY DEF part
    <2> HIDE DEF filled
    <2> QED
      BY <1>1, <1>2, <2>1, <2>2, <2>3
  <1>4. /\ at \in Seq(Loc) /\ Len(at) = Len(rows) /\ DOMAIN at = 1..Len(rows)
        /\ \A i \in 1..Len(locs) : at[i] = locs[i]
        /\ \A i \in 1..chunk.len : at[Len(locs) + i] = [seg |-> activeId, off |-> Len(active) + i - 1]
    <2>1. /\ new \in Seq(Loc) /\ Len(new) = chunk.len
          /\ \A i \in 1..chunk.len : new[i] = [seg |-> activeId, off |-> Len(active) + i - 1]
      <3>1. activeId \in Nat /\ Len(active) \in Nat /\ chunk.len \in Nat
        BY <1>1
      <3>2. new = LocsFrom(activeId, Len(active), chunk.len)
        OBVIOUS
      <3> HIDE DEF new
      <3> DEFINE m == chunk.len
                 old == Len(active)
      <3>3. m \in Nat /\ old \in Nat /\ new = LocsFrom(activeId, old, m)
        BY <3>1, <3>2
      <3> HIDE DEF m, old
      <3>4. /\ new \in Seq(Loc) /\ Len(new) = m
            /\ \A i \in 1..m : new[i] = [seg |-> activeId, off |-> old + i - 1]
        BY <3>1, <3>3, LocsFromFacts, ZenonT(60)
      <3> QED
        BY <3>4 DEF m, old
    <2>2. at = locs \o new
      BY DEF AppendInternal
    <2> HIDE DEF at, new
    <2>3. /\ at \in Seq(Loc) /\ Len(at) = Len(locs) + chunk.len
          /\ \A i \in 1..Len(locs) : at[i] = locs[i]
          /\ \A i \in 1..chunk.len : at[Len(locs) + i] = new[i]
      <3>1. locs \in Seq(Loc) /\ new \in Seq(Loc) /\ Len(new) = chunk.len
        BY <1>1, <2>1
      <3> QED
        BY <2>2, <3>1, ConcatFacts, SMTT(60)
    <2> QED
      BY <1>1, <2>1, <2>3, LenProperties
  <1>5. /\ \A e \in pk' :
              e \in pk \/ \E j \in DOMAIN at : e = [key |-> rows[j].pk, loc |-> at[j], vis |-> FALSE]
        /\ \A e \in sk' :
              e \in sk \/ \E j \in DOMAIN at : e = [key |-> rows[j].sk, loc |-> at[j], vis |-> FALSE]
        /\ pk \subseteq pk' /\ sk \subseteq sk'
        /\ \A j \in DOMAIN at : /\ \E e \in pk' : e.loc = at[j] /\ e.key = rows[j].pk
                                /\ \E e \in sk' : e.loc = at[j] /\ e.key = rows[j].sk
        /\ KeysOnce'
    <2>1. KeysOnce /\ ValidatePrimaryKey(rows)
      BY <1>0 DEF IndexInv, OneSplit
    <2>2. /\ rows \in Seq(Row) /\ at \in Seq(Loc) /\ Len(at) = Len(rows)
          /\ pk' = InsertPk(pk, rows, at, FALSE) /\ sk' = InsertSk(sk, rows, at, FALSE)
      BY <1>0, <1>1, <1>4
    <2> HIDE DEF at, rows
    <2> QED
      BY <2>1, <2>2, InsertedEntries
  <1>7. /\ activeId < nextId /\ \A id \in Range(segIds) \cup DOMAIN sealed : id < nextId /\ id # activeId
        /\ DOMAIN sealed \cap Range(segIds) = {}
    BY <1>0 DEF IdInv, IdsBelowNext, UnwrittenIsNew
  <1>8. \A i \in DOMAIN locs : /\ locs[i] \in HeldLocs /\ locs[i].seg \in DOMAIN sealed
                               /\ RowAt(locs[i]) = rows[i]
    BY <1>0 DEF IndexInv, OneSplit
  <1> HIDE DEF rows, part, filled, new, at
  <1>9. /\ Held' = Held /\ activeId \in Held
        /\ \A id \in Held : IF id = activeId THEN Rows(id) = active /\ Rows(id)' = filled
                            ELSE Rows(id)' = Rows(id)
    BY <1>0 DEF Held, Rows
  <1>10. \A loc \in HeldLocs : loc \in HeldLocs' /\ RowAt(loc)' = RowAt(loc)
    <2>1. ASSUME NEW id \in Held
          PROVE  /\ id \in Held'
                 /\ \A o \in DOMAIN Rows(id) : o \in DOMAIN Rows(id)' /\ Rows(id)'[o] = Rows(id)[o]
      <3>1. CASE id = activeId
        <4>1. Rows(id) = active /\ Rows(id)' = filled
          BY <1>9, <3>1
        <4>2. \A o \in DOMAIN active : o \in 1..(Len(active) + chunk.len)
          BY <1>1
        <4> QED
          BY <1>3, <1>9, <4>1, <4>2
      <3>2. CASE id # activeId
        BY <1>9, <3>2
      <3> QED
        BY <3>1, <3>2
    <2> QED
      BY <2>1, MoreRows
  <1>11. ASSUME NEW j \in DOMAIN at, NEW loc, loc = at[j]
         PROVE  /\ loc \in HeldLocs' /\ RowAt(loc)' = rows[j]
                /\ loc.seg < nextId /\ loc.seg \notin Range(segIds)
    <2>1. CASE j \in 1..Len(locs)
      <3>1. loc = locs[j] /\ j \in DOMAIN locs
        BY <1>1, <1>4, <1>11, <2>1
      <3> QED
        BY <1>7, <1>8, <1>10, <3>1
    <2>2. CASE j \notin 1..Len(locs)
      <3>1. PICK i \in 1..chunk.len : j = Len(locs) + i
        <4>1. j \in Nat /\ j - Len(locs) \in 1..chunk.len
          BY <1>1, <1>4, <2>2
        <4> QED
          BY <1>1, <4>1
      <3>2. /\ loc = [seg |-> activeId, off |-> Len(active) + i - 1] /\ loc \in Loc
            /\ loc.off + 1 = Len(active) + i /\ Len(active) + i \in 1..(Len(active) + chunk.len)
        <4>1. loc = [seg |-> activeId, off |-> Len(active) + i - 1]
          BY <1>4, <1>11, <3>1
        <4>2. loc.off = Len(active) + i - 1 /\ loc.seg = activeId
          BY <4>1
        <4> QED
          BY <1>1, <4>1, <4>2 DEF Loc
      <3>3. loc \in HeldLocs'
        BY <1>3, <1>9, <3>2, HeldPlacesNext DEF Places
      <3>4. RowAt(loc)' = rows[j]
        BY <1>3, <1>9, <3>1, <3>2 DEF RowAt
      <3> QED
        BY <1>7, <3>2, <3>3, <3>4
    <2> QED
      BY <2>1, <2>2
  <1>12. RowsIndexed'
    <2> SUFFICES ASSUME NEW loc \in HeldLocs'
                 PROVE  /\ \E e \in pk' : e.loc = loc /\ e.key = RowAt(loc)'.pk
                        /\ \E e \in sk' : e.loc = loc /\ e.key = RowAt(loc)'.sk
      BY DEF RowsIndexed, EntryFor
    <2>1. loc \in Loc /\ loc.seg \in Held /\ loc.off + 1 \in DOMAIN Rows(loc.seg)'
      BY <1>9, HeldPlacesNext DEF Places
    <2>2. ASSUME NEW j \in DOMAIN at, loc = at[j]
          PROVE  /\ \E e \in pk' : e.loc = loc /\ e.key = RowAt(loc)'.pk
                 /\ \E e \in sk' : e.loc = loc /\ e.key = RowAt(loc)'.sk
      BY <1>5, <1>11, <2>2
    <2>3. CASE loc \in HeldLocs
      <3>1. EntryFor(loc, RowAt(loc)) \/ JustStored(loc)
        BY <1>0, <2>3 DEF IndexInv, RowsIndexed
      <3>2. CASE EntryFor(loc, RowAt(loc))
        <4>1. PICK e \in pk, f \in sk : /\ e.loc = loc /\ e.key = RowAt(loc).pk
                                        /\ f.loc = loc /\ f.key = RowAt(loc).sk
          BY <3>2 DEF EntryFor
        <4>2. e \in pk' /\ f \in sk' /\ RowAt(loc)' = RowAt(loc)
          BY <1>5, <1>10, <2>3
        <4> QED
          BY <4>1, <4>2
      <3>3. CASE JustStored(loc)
        <4>1. PICK i \in DOMAIN locs : loc = locs[i]
          BY <3>3 DEF JustStored
        <4>2. i \in DOMAIN at /\ loc = at[i]
          BY <1>1, <1>4, <4>1
        <4> QED
          BY <2>2, <4>2
      <3> QED
        BY <3>1, <3>2, <3>3
    <2>4. CASE loc \notin HeldLocs
      <3>1. loc.seg = activeId
        BY <1>9, <2>1, <2>4, HeldPlaces DEF Places
      <3>2. loc.off + 1 \in 1..(Len(active) + chunk.len) /\ loc.off + 1 \notin DOMAIN active
        BY <1>3, <1>9, <2>1, <2>4, <3>1, HeldPlaces DEF Places
      <3>3. loc.off \in Nat
        BY <2>1 DEF Loc
      <3>4. PICK i \in 1..chunk.len : loc.off = Len(active) + i - 1
        <4>1. loc.off + 1 - Len(active) \in 1..chunk.len
          BY <1>1, <3>2, <3>3
        <4> QED
          BY <1>1, <3>3, <4>1
      <3>5. Len(locs) + i \in DOMAIN at /\ loc = at[Len(locs) + i]
        <4>1. Len(locs) + i \in 1..Len(rows)
          BY <1>1
        <4> QED
          BY <1>4, <2>1, <3>1, <3>4, <4>1 DEF Loc
      <3> QED
        BY <2>2, <3>5
    <2> QED
      BY <2>3, <2>4
  <1>13. /\ \A e \in pk : e.loc.seg \in Held' => e.loc \in HeldLocs' /\ RowAt(e.loc)'.pk = e.key
         /\ \A e \in sk : e.loc.seg \in Held' => e.loc \in HeldLocs' /\ RowAt(e.loc)'.sk = e.key
    BY <1>9, <1>10, OldEntriesMatch
  <1>14. IndexedRowsMatch'
    <2>1. ASSUME NEW e \in pk', e.loc.seg \in Held' PROVE e.loc \in HeldLocs' /\ RowAt(e.loc)'.pk = e.key
      <3>1. CASE e \in pk
        BY <1>13, <2>1, <3>1
      <3>2. ASSUME NEW j \in DOMAIN at, e = [key |-> rows[j].pk, loc |-> at[j], vis |-> FALSE]
            PROVE  e.loc \in HeldLocs' /\ RowAt(e.loc)'.pk = e.key
        <4>1. e.loc = at[j] /\ e.key = rows[j].pk
          BY <3>2
        <4> QED
          BY <1>11, <4>1
      <3> QED
        BY <1>5, <3>1, <3>2
    <2>2. ASSUME NEW e \in sk', e.loc.seg \in Held' PROVE e.loc \in HeldLocs' /\ RowAt(e.loc)'.sk = e.key
      <3>1. CASE e \in sk
        BY <1>13, <2>2, <3>1
      <3>2. ASSUME NEW j \in DOMAIN at, e = [key |-> rows[j].sk, loc |-> at[j], vis |-> FALSE]
            PROVE  e.loc \in HeldLocs' /\ RowAt(e.loc)'.sk = e.key
        <4>1. e.loc = at[j] /\ e.key = rows[j].sk
          BY <3>2
        <4> QED
          BY <1>11, <4>1
      <3> QED
        BY <1>5, <3>1, <3>2
    <2> QED
      BY <2>1, <2>2 DEF IndexedRowsMatch
  <1>15. \A e \in pk' \cup sk' : e \in pk \cup sk \/ (/\ e.vis = FALSE /\ e.loc.seg < nextId
                                                      /\ e.loc.seg \notin Range(segIds))
    <2>1. ASSUME NEW e \in pk' \cup sk', e \notin pk \cup sk
          PROVE  e.vis = FALSE /\ e.loc.seg < nextId /\ e.loc.seg \notin Range(segIds)
      <3>1. PICK j \in DOMAIN at : e.loc = at[j] /\ e.vis = FALSE
        BY <1>5, <2>1
      <3> QED
        BY <1>11, <3>1
    <2> QED
      BY <2>1
  <1>16. EntriesBelowNext' /\ VisibleIsRecorded'
    BY <1>0, <1>15 DEF IndexInv, EntriesBelowNext, VisibleIsRecorded
  <1>17. OneSplit' /\ RebuiltSoFar' /\ DownHasNoEntries'
    BY <1>0 DEF IndexInv, OneSplit, RebuiltSoFar, DownHasNoEntries
  <1> QED
    BY <1>5, <1>12, <1>14, <1>16, <1>17 DEF IndexInv

\* A recorded segment is indexed; none of its keys is there yet.
LEMMA RebuildIndexInv ==
    ASSUME TypeInv, IdInv, IndexInv, TypeInv', IdInv', DiskKeysOnce', RebuildSegment
    PROVE  IndexInv'
  <1> DEFINE id == segIds[cur]
             rows == file[segIds[cur]].rows
             at == LocsFrom(segIds[cur], 0, Len(file[segIds[cur]].rows))
  <1>0. /\ pc = "rebuild" /\ pc' = "rebuild" /\ cur \in DOMAIN segIds /\ cur' = cur + 1
        /\ id \in DOMAIN file
        /\ pk' = InsertPk(pk, rows, at, TRUE) /\ sk' = InsertSk(sk, rows, at, TRUE)
        /\ UNCHANGED <<meta, file, segIds, active, activeId, nextId, sealed, pending>>
    BY DEF RebuildSegment, disk
  <1>1. /\ meta.whole /\ segIds = meta.ids /\ active = <<>> /\ DOMAIN sealed = {} /\ cur # 0
        /\ \A k \in DOMAIN segIds : k < cur =>
              \A i \in DOMAIN file[segIds[k]].rows :
                  EntryFor([seg |-> segIds[k], off |-> i - 1], file[segIds[k]].rows[i])
        /\ \A e \in pk \cup sk : \E k \in DOMAIN segIds : k < cur /\ e.loc.seg = segIds[k]
    BY <1>0 DEF IndexInv, RebuiltSoFar
  <1>2. /\ segIds \in Seq(Nat) /\ id \in Nat /\ id \in Range(segIds) /\ rows \in Seq(Row)
        /\ cur \in Nat /\ activeId \in Nat /\ nextId \in Nat
        /\ \A k \in DOMAIN segIds : k \in Nat /\ segIds[k] \in Nat /\ segIds[k] \in Range(segIds)
    <2>1. segIds \in Seq(Nat) /\ cur \in Nat /\ activeId \in Nat /\ nextId \in Nat /\ rows \in Seq(Row)
      BY <1>0 DEF TypeInv, TypeOK
    <2>2. DOMAIN segIds = 1..Len(segIds) /\ Len(segIds) \in Nat
      BY <2>1, LenProperties
    <2> QED
      BY <1>0, <2>1, <2>2, ElementOfSeq DEF Range
  <1>3. /\ at \in Seq(Loc) /\ Len(at) = Len(rows) /\ DOMAIN at = DOMAIN rows
        /\ \A i \in DOMAIN rows : at[i] = [seg |-> id, off |-> i - 1]
    <2>1. Len(rows) \in Nat /\ DOMAIN rows = 1..Len(rows)
      BY <1>2, LenProperties
    <2>2. /\ at \in Seq(Loc) /\ Len(at) = Len(rows)
          /\ \A i \in 1..Len(rows) : at[i] = [seg |-> id, off |-> 0 + i - 1]
      BY <1>2, <2>1, LocsFromFacts
    <2> HIDE DEF at, rows, id
    <2>3. DOMAIN at = DOMAIN rows
      BY <2>1, <2>2, LenProperties
    <2>4. \A i \in 1..Len(rows) : 0 + i - 1 = i - 1
      BY <2>1
    <2> QED
      BY <2>1, <2>2, <2>3, <2>4
  <1>4. /\ \A x \in Range(segIds) : x < nextId /\ x # activeId
        /\ Distinct(segIds)
    BY <1>0 DEF IdInv, IdsBelowNext, MemoryNamesWholeSegments
  <1>5. \A x \in Range(segIds) : x \in Held /\ Rows(x) = file[x].rows
    BY <1>1, <1>4 DEF Held, Rows
  <1>6. /\ Held' = Held /\ \A x \in Held : Rows(x)' = Rows(x)
    BY <1>0 DEF Held, Rows
  <1>7. ValidatePrimaryKey(rows)
    <2>0. DiskKeysOnce
      BY DEF IndexInv
    <2>1. \A i, j \in DOMAIN rows : i # j => rows[i].pk # rows[j].pk
      BY <1>1, <1>2, <2>0 DEF DiskKeysOnce
    <2>2. ASSUME NEW i \in DOMAIN rows, NEW e \in pk, e.key = rows[i].pk PROVE FALSE
      <3>1. PICK k \in DOMAIN segIds : k < cur /\ e.loc.seg = segIds[k]
        BY <1>1
      <3>2. /\ segIds[k] \in Range(segIds) /\ segIds[k] # id
        BY <1>0, <1>2, <1>4, <3>1 DEF Distinct
      <3>3. e.loc \in HeldLocs /\ RowAt(e.loc).pk = e.key
        BY <1>5, <3>1, <3>2 DEF IndexInv, IndexedRowsMatch
      <3>4. e.loc.off + 1 \in DOMAIN file[segIds[k]].rows
        BY <1>5, <3>1, <3>2, <3>3, HeldPlaces DEF Places
      <3>5. RowAt(e.loc) = file[segIds[k]].rows[e.loc.off + 1]
        BY <1>5, <3>1, <3>2 DEF RowAt
      <3> QED
        <4>1. \A s, t \in Range(segIds) : \A m \in DOMAIN file[s].rows, n \in DOMAIN file[t].rows :
                 file[s].rows[m].pk = file[t].rows[n].pk => s = t /\ m = n
          BY <1>1, <2>0 DEF DiskKeysOnce
        <4>2. file[segIds[k]].rows[e.loc.off + 1].pk = file[id].rows[i].pk
          BY <2>2, <3>3, <3>5
        <4> HIDE DEF id
        <4>3. i \in DOMAIN file[id].rows
          BY DEF id
        <4> QED
          BY <1>2, <3>2, <3>4, <4>1, <4>2, <4>3
    <2> QED
      BY <2>1, <2>2 DEF ValidatePrimaryKey
  <1>8. KeysOnce
    BY DEF IndexInv
  <1>9. /\ \A e \in pk' :
              e \in pk \/ \E j \in DOMAIN at : e = [key |-> rows[j].pk, loc |-> at[j], vis |-> TRUE]
        /\ \A e \in sk' :
              e \in sk \/ \E j \in DOMAIN at : e = [key |-> rows[j].sk, loc |-> at[j], vis |-> TRUE]
        /\ pk \subseteq pk' /\ sk \subseteq sk'
        /\ \A j \in DOMAIN at : /\ \E e \in pk' : e.loc = at[j] /\ e.key = rows[j].pk
                                /\ \E e \in sk' : e.loc = at[j] /\ e.key = rows[j].sk
        /\ KeysOnce'
    <2>1. pk' = InsertPk(pk, rows, at, TRUE) /\ sk' = InsertSk(sk, rows, at, TRUE)
      BY <1>0
    <2>2. rows \in Seq(Row) /\ at \in Seq(Loc) /\ Len(at) = Len(rows)
      BY <1>2, <1>3
    <2> HIDE DEF at, rows
    <2> QED
      BY <1>7, <1>8, <2>1, <2>2, InsertedEntries
  <1>10. ASSUME NEW j \in DOMAIN at, NEW loc, loc = at[j]
         PROVE  loc \in HeldLocs /\ RowAt(loc) = rows[j] /\ loc.seg = id
    <2>1. loc = [seg |-> id, off |-> j - 1] /\ j \in DOMAIN Rows(id)
      BY <1>2, <1>3, <1>5, <1>10
    <2> HIDE DEF at
    <2> QED
      BY <1>2, <1>5, <2>1, HeldPlaces DEF Places
  <1>11. \A loc \in HeldLocs : loc \in HeldLocs' /\ RowAt(loc)' = RowAt(loc)
    BY <1>6, MoreRows
  <1> HIDE DEF at, rows, id
  <1>12. /\ \A e \in pk : e.loc.seg \in Held' => e.loc \in HeldLocs' /\ RowAt(e.loc)'.pk = e.key
         /\ \A e \in sk : e.loc.seg \in Held' => e.loc \in HeldLocs' /\ RowAt(e.loc)'.sk = e.key
    BY <1>6, <1>11, OldEntriesMatch
  <1>13. IndexedRowsMatch'
    <2>1. ASSUME NEW e \in pk', e.loc.seg \in Held' PROVE e.loc \in HeldLocs' /\ RowAt(e.loc)'.pk = e.key
      <3>1. CASE e \in pk
        BY <1>12, <2>1, <3>1
      <3>2. ASSUME NEW j \in DOMAIN at, e = [key |-> rows[j].pk, loc |-> at[j], vis |-> TRUE]
            PROVE  e.loc \in HeldLocs' /\ RowAt(e.loc)'.pk = e.key
        <4>1. e.loc = at[j] /\ e.key = rows[j].pk
          BY <3>2
        <4> QED
          BY <1>10, <1>11, <4>1
      <3> QED
        BY <1>9, <3>1, <3>2
    <2>2. ASSUME NEW e \in sk', e.loc.seg \in Held' PROVE e.loc \in HeldLocs' /\ RowAt(e.loc)'.sk = e.key
      <3>1. CASE e \in sk
        BY <1>12, <2>2, <3>1
      <3>2. ASSUME NEW j \in DOMAIN at, e = [key |-> rows[j].sk, loc |-> at[j], vis |-> TRUE]
            PROVE  e.loc \in HeldLocs' /\ RowAt(e.loc)'.sk = e.key
        <4>1. e.loc = at[j] /\ e.key = rows[j].sk
          BY <3>2
        <4> QED
          BY <1>10, <1>11, <4>1
      <3> QED
        BY <1>9, <3>1, <3>2
    <2> QED
      BY <2>1, <2>2 DEF IndexedRowsMatch
  <1>14. \A e \in pk' \cup sk' : e \in pk \cup sk \/ (e.vis = TRUE /\ e.loc.seg = id)
    <2>1. ASSUME NEW e \in pk' \cup sk', e \notin pk \cup sk
          PROVE  e.vis = TRUE /\ e.loc.seg = id
      <3>1. PICK j \in DOMAIN at : e.loc = at[j] /\ e.vis = TRUE
        BY <1>9, <2>1
      <3> QED
        BY <1>10, <3>1
    <2> QED
      BY <2>1
  <1>15. EntriesBelowNext' /\ VisibleIsRecorded'
    BY <1>0, <1>2, <1>4, <1>14 DEF IndexInv, EntriesBelowNext, VisibleIsRecorded
  <1>16. RebuiltSoFar'
    <2>1. ASSUME NEW k \in DOMAIN segIds, k < cur + 1, NEW i \in DOMAIN file[segIds[k]].rows
          PROVE  /\ \E e \in pk' : /\ e.loc = [seg |-> segIds[k], off |-> i - 1]
                                  /\ e.key = file[segIds[k]].rows[i].pk
                 /\ \E e \in sk' : /\ e.loc = [seg |-> segIds[k], off |-> i - 1]
                                  /\ e.key = file[segIds[k]].rows[i].sk
      <3>1. CASE k < cur
        BY <1>1, <1>9, <2>1, <3>1 DEF EntryFor
      <3>2. CASE k = cur
        <4>1. i \in DOMAIN rows /\ file[segIds[k]].rows = rows /\ segIds[k] = id
          BY <2>1, <3>2 DEF rows, id
        <4>2. i \in DOMAIN at /\ at[i] = [seg |-> id, off |-> i - 1]
          BY <1>3, <4>1
        <4> QED
          BY <1>9, <4>1, <4>2
      <3> QED
        BY <1>2, <2>1, <3>1, <3>2
    <2>2. ASSUME NEW e \in pk' \cup sk'
          PROVE  \E k \in DOMAIN segIds : k < cur + 1 /\ e.loc.seg = segIds[k]
      <3>1. CASE e \in pk \cup sk
        BY <1>1, <1>2, <3>1
      <3>2. CASE e \notin pk \cup sk
        <4>1. e.loc.seg = segIds[cur]
          BY <1>14, <3>2 DEF id
        <4> QED
          BY <1>0, <1>2, <4>1
      <3> QED
        BY <3>1, <3>2
    <2>3. cur' # 0
      BY <1>0, <1>2
    <2>4. UNCHANGED <<meta, file, segIds, active, sealed>> /\ cur' = cur + 1
      BY <1>0
    <2>5. meta.whole /\ segIds = meta.ids /\ active = <<>> /\ DOMAIN sealed = {}
      BY <1>1
    <2> QED
      BY <2>1, <2>2, <2>3, <2>4, <2>5 DEF RebuiltSoFar, EntryFor
  <1>17. RowsIndexed' /\ OneSplit' /\ DownHasNoEntries'
    BY <1>0 DEF IndexInv, RowsIndexed, OneSplit, DownHasNoEntries
  <1> QED
    BY <1>9, <1>13, <1>15, <1>16, <1>17 DEF IndexInv

\* Every recorded segment has been indexed: the table is ready.
LEMMA ReadyIndexInv ==
    ASSUME TypeInv, IdInv, IndexInv, TypeInv', IdInv', DiskKeysOnce', RebuildDone
    PROVE  IndexInv'
  <1>0. /\ pc = "rebuild" /\ pc' = "ready" /\ cur \notin DOMAIN segIds
        /\ UNCHANGED <<file, segIds, active, activeId, nextId, sealed, pending, pk, sk, locs, chunk>>
    BY DEF RebuildDone, disk, memory
  <1>1. /\ active = <<>> /\ DOMAIN sealed = {} /\ cur # 0
        /\ \A k \in DOMAIN segIds : k < cur =>
              \A i \in DOMAIN file[segIds[k]].rows :
                  EntryFor([seg |-> segIds[k], off |-> i - 1], file[segIds[k]].rows[i])
    BY <1>0 DEF IndexInv, RebuiltSoFar
  <1>2. \A k \in DOMAIN segIds : k < cur
    <2>1. segIds \in Seq(Nat) /\ cur \in Nat
      BY DEF TypeInv, TypeOK
    <2>2. DOMAIN segIds = 1..Len(segIds) /\ Len(segIds) \in Nat
      BY <2>1, LenProperties
    <2> QED
      BY <1>0, <1>1, <2>1, <2>2
  <1>3. /\ Held' = Held /\ \A id \in Held : Rows(id)' = Rows(id)
    BY <1>0 DEF Held, Rows
  <1>4. \A loc \in HeldLocs : loc \in HeldLocs' /\ RowAt(loc)' = RowAt(loc)
    BY <1>3, MoreRows
  <1>5. ASSUME NEW loc \in HeldLocs PROVE EntryFor(loc, RowAt(loc))
    <2>1. /\ loc \in Loc /\ loc.seg \in Held /\ loc.off + 1 \in DOMAIN Rows(loc.seg)
          /\ loc = [seg |-> loc.seg, off |-> loc.off]
      BY HeldPlaces DEF Places
    <2>2. loc.seg # activeId
      BY <1>1, <2>1, EmptySeq DEF Rows
    <2>3. loc.seg \in Range(segIds) /\ Rows(loc.seg) = file[loc.seg].rows
      BY <1>1, <2>1, <2>2 DEF Held, Rows
    <2>4. PICK k \in DOMAIN segIds : loc.seg = segIds[k]
      BY <2>3 DEF Range
    <2>5. /\ RowAt(loc) = file[segIds[k]].rows[loc.off + 1]
          /\ loc.off + 1 \in DOMAIN file[segIds[k]].rows
          /\ loc = [seg |-> segIds[k], off |-> (loc.off + 1) - 1]
      BY <2>1, <2>3, <2>4 DEF RowAt, Loc
    <2> QED
      BY <1>1, <1>2, <2>5
  <1>6. RowsIndexed'
    <2> SUFFICES ASSUME NEW loc \in HeldLocs' PROVE EntryFor(loc, RowAt(loc))'
      BY DEF RowsIndexed
    <2>1. loc \in HeldLocs
      <3>1. loc \in Loc /\ loc.seg \in Held' /\ loc.off + 1 \in DOMAIN Rows(loc.seg)'
        BY HeldPlacesNext DEF Places
      <3> QED
        BY <1>3, <3>1, HeldPlaces DEF Places
    <2>2. EntryFor(loc, RowAt(loc)) /\ RowAt(loc)' = RowAt(loc) /\ pk' = pk /\ sk' = sk
      BY <1>0, <1>4, <1>5, <2>1
    <2> QED
      BY <2>2 DEF EntryFor
  <1>7. IndexedRowsMatch'
    BY <1>0, <1>3, <1>4, OldEntriesMatch DEF IndexedRowsMatch
  <1>8. /\ KeysOnce' /\ EntriesBelowNext' /\ OneSplit' /\ RebuiltSoFar'
        /\ DownHasNoEntries' /\ VisibleIsRecorded'
    BY <1>0 DEF IndexInv, KeysOnce, EntriesBelowNext, OneSplit, RebuiltSoFar,
                DownHasNoEntries, VisibleIsRecorded
  <1> QED
    BY <1>6, <1>7, <1>8 DEF IndexInv

\* Open starts with nothing indexed.
LEMMA OpenIndexInv ==
    ASSUME TypeInv, IdInv, IndexInv, DiskKeysOnce', Open
    PROVE  IndexInv'
  <1>0. /\ pc = "down" /\ pc' = "rebuild" /\ cur' = 1 /\ meta.whole /\ segIds' = meta.ids
        /\ UNCHANGED <<meta, file, active, sealed, pending, pk, sk>>
    BY DEF Open, disk
  <1>1. pk = {} /\ sk = {} /\ active = <<>> /\ pending = {} /\ sealed = NoFun
    BY <1>0 DEF IndexInv, DownHasNoEntries, IdInv, DownIsEmpty
  <1>2. \A k \in DOMAIN segIds' : ~ (k < cur')
    <2>1. meta.ids \in Seq(Nat)
      BY DEF TypeInv, TypeOK
    <2> QED
      BY <1>0, <2>1, LenProperties
  <1>3. RebuiltSoFar'
    BY <1>0, <1>1, <1>2, NoFunFacts DEF RebuiltSoFar
  <1>4. IndexedRowsMatch' /\ KeysOnce' /\ EntriesBelowNext' /\ VisibleIsRecorded'
    BY <1>0, <1>1 DEF IndexedRowsMatch, KeysOnce, EntriesBelowNext, VisibleIsRecorded
  <1>5. RowsIndexed' /\ OneSplit' /\ DownHasNoEntries'
    BY <1>0, <1>1, NoFunFacts DEF RowsIndexed, OneSplit, DownHasNoEntries
  <1> QED
    BY <1>3, <1>4, <1>5 DEF IndexInv

\* A table just created.
LEMMA InitIndexInv == Init => IndexInv
  <1> SUFFICES ASSUME Init PROVE IndexInv
    OBVIOUS
  <1>1. /\ segIds = <<>> /\ active = <<>> /\ activeId = 0 /\ DOMAIN sealed = {} /\ pending = {}
        /\ pk = {} /\ sk = {} /\ pc = "ready" /\ Range(segIds) = {} /\ Range(meta.ids) = {}
    BY EmptySeqFacts, NoFunFacts DEF Init, WholeMeta
  <1>2. Held = {0} /\ Rows(0) = <<>>
    BY <1>1 DEF Held, Rows
  <1>3. HeldLocs = {}
    BY <1>2, EmptySeq DEF HeldLocs
  <1>4. /\ IndexedRowsMatch /\ KeysOnce /\ EntriesBelowNext /\ RowsIndexed /\ OneSplit
        /\ DiskKeysOnce /\ RebuiltSoFar /\ DownHasNoEntries /\ VisibleIsRecorded
    BY <1>1, <1>3 DEF IndexedRowsMatch, KeysOnce, EntriesBelowNext, RowsIndexed, OneSplit,
        DiskKeysOnce, RebuiltSoFar, DownHasNoEntries, VisibleIsRecorded
  <1> QED
    BY <1>4 DEF IndexInv

\* Steps of a running table between batches that touch neither rows nor entries.
LEMMA QuietStepIndexInv ==
    ASSUME TypeInv, IdInv, IndexInv, TypeInv', IdInv', DiskKeysOnce',
           pc \in {"ready", "flush", "write"}, pc' \in {"ready", "flush", "write", "save"},
           UNCHANGED <<file, segIds, active, activeId, nextId, sealed, pending, pk, sk>>
    PROVE  IndexInv'
  <1>1. Held' = Held /\ \A id \in Held : Rows(id)' = Rows(id)
    BY DEF Held, Rows
  <1>2. nextId' >= nextId
    BY DEF TypeInv, TypeOK
  <1>3. IndexedRowsMatch' /\ KeysOnce' /\ EntriesBelowNext' /\ RowsIndexed'
    BY <1>1, <1>2, QuietIndex
  <1>4. OneSplit' /\ RebuiltSoFar' /\ DownHasNoEntries' /\ VisibleIsRecorded'
    BY DEF IndexInv, OneSplit, RebuiltSoFar, DownHasNoEntries, VisibleIsRecorded
  <1> QED
    BY <1>3, <1>4 DEF IndexInv

\* The actions one by one.
LEMMA NextIndexInv ==
    ASSUME MaxBatch <= SegCap
    PROVE  TypeInv /\ IdInv /\ IndexInv /\ [Next]_vars => IndexInv'
  <1> SUFFICES ASSUME TypeInv, IdInv, IndexInv, [Next]_vars PROVE IndexInv'
    OBVIOUS
  <1>0. TypeInv' /\ IdInv' /\ DiskKeysOnce
    BY NextTypeInv, NextIdInv DEF IndexInv
  <1>k. meta' = meta \/ ~ meta'.whole => DiskKeysOnce'
    BY <1>0, DiskKept
  <1>1. ASSUME NEW input \in Batch, AppendRejected(input) PROVE IndexInv'
    <2>1. /\ pc = "ready" /\ pc' = "ready" /\ meta' = meta
          /\ UNCHANGED <<file, segIds, active, activeId, nextId, sealed, pending, pk, sk>>
      BY <1>1 DEF AppendRejected, disk, memory
    <2> QED
      BY <1>0, <1>k, <2>1, QuietStepIndexInv
  <1>2. ASSUME NEW input \in Batch, AppendBegin(input) PROVE IndexInv'
    <2>1. meta' = meta
      BY <1>2 DEF AppendBegin, disk
    <2> QED
      BY <1>0, <1>2, <1>k, <2>1, BeginIndexInv
  <1>3. CASE AppendSplit
    <2>1. meta' = meta
      BY <1>3 DEF AppendSplit, disk
    <2> QED
      BY <1>0, <1>3, <1>k, <2>1, SplitIndexInv
  <1>4. CASE AppendFit
    <2>1. meta' = meta
      BY <1>4 DEF AppendFit, disk
    <2> QED
      BY <1>0, <1>4, <1>k, <2>1, FitIndexInv
  <1>5. CASE FlushBegin
    <2>1. /\ SealForFlush /\ pc = "ready" /\ pc' = "flush" /\ meta' = meta
          /\ UNCHANGED <<file, segIds, pending, pk, sk>>
      BY <1>5 DEF FlushBegin, disk
    <2> QED
      BY <1>0, <1>k, <2>1, SealIndexInv
  <1>6. CASE Close
    <2>1. meta' = meta /\ file' = file
      BY <1>6 DEF Close, disk
    <2>2. CASE DropMemory
      BY <1>k, <2>1, <2>2, DropMemoryIndexInv
    <2>3. CASE ~ DropMemory
      <3>1. SealForFlush /\ pc = "ready" /\ pc' = "flush" /\ UNCHANGED <<segIds, pending, pk, sk>>
        BY <1>6, <2>3 DEF Close
      <3> QED
        BY <1>0, <1>k, <2>1, <3>1, SealIndexInv
    <2> QED
      BY <2>2, <2>3
  <1>7. ASSUME NEW id \in todo, SegmentOpened(id) PROVE IndexInv'
    <2>1. meta' = meta
      BY <1>7 DEF SegmentOpened
    <2> QED
      BY <1>0, <1>7, <1>k, <2>1, WriteIndexInv
  <1>8. ASSUME NEW id \in todo, SegmentOpenFails(id) PROVE IndexInv'
    <2>1. /\ pc = "flush" /\ pc' = "flush" /\ meta' = meta
          /\ UNCHANGED <<file, segIds, active, activeId, nextId, sealed, pending, pk, sk>>
      BY <1>8 DEF SegmentOpenFails, disk, memory
    <2> QED
      BY <1>0, <1>k, <2>1, QuietStepIndexInv
  <1>9. CASE SegmentWritten
    <2>1. meta' = meta
      BY <1>9 DEF SegmentWritten
    <2> QED
      BY <1>0, <1>9, <1>k, <2>1, WriteIndexInv
  <1>10. CASE SegmentWriteFails
    <2>1. /\ pc = "write" /\ pc' = "flush" /\ meta' = meta
          /\ UNCHANGED <<file, segIds, active, activeId, nextId, sealed, pending, pk, sk>>
      BY <1>10 DEF SegmentWriteFails, disk, memory
    <2> QED
      BY <1>0, <1>k, <2>1, QuietStepIndexInv
  <1>11. CASE MetaOpened
    <2>1. /\ pc = "flush" /\ pc' = "save" /\ ~ meta'.whole
          /\ UNCHANGED <<file, segIds, active, activeId, nextId, sealed, pending, pk, sk>>
      BY <1>11 DEF MetaOpened, memory, TornMeta
    <2> QED
      BY <1>0, <1>k, <2>1, QuietStepIndexInv
  <1>12. CASE MetaOpenFails \/ MetaWriteFails
    <2>1. FlushReturns(FALSE) /\ meta' = meta /\ file' = file /\ pc \in {"flush", "save"}
      BY <1>12 DEF MetaOpenFails, MetaWriteFails, disk
    <2> QED
      BY <1>0, <1>k, <2>1, FlushReturnsIndexInv
  <1>13. CASE MetaCloseFails
    <2>1. FlushReturns(TRUE) /\ meta' = meta /\ file' = file /\ pc \in {"flush", "save"}
      BY <1>13 DEF MetaCloseFails, disk
    <2> QED
      BY <1>0, <1>k, <2>1, FlushReturnsIndexInv
  <1>14. CASE MetaWritten
    <2>1. /\ FlushReturns(TRUE) /\ meta' = WholeMeta(segIds) /\ file' = file /\ pc = "save"
      BY <1>14 DEF MetaWritten
    <2>2. DiskKeysOnce'
      <3>1. meta'.ids = segIds /\ Up
        BY <2>1 DEF WholeMeta, Up
      <3>2. \A s, t \in Range(segIds) : \A i \in DOMAIN file[s].rows, j \in DOMAIN file[t].rows :
                file[s].rows[i].pk = file[t].rows[j].pk => s = t /\ i = j
        BY <3>1, RecordedKeysOnce
      <3> QED
        BY <2>1, <3>1, <3>2 DEF DiskKeysOnce
    <2> QED
      BY <1>0, <2>1, <2>2, FlushReturnsIndexInv
  <1>15. CASE Open
    <2>1. meta' = meta
      BY <1>15 DEF Open, disk
    <2> QED
      BY <1>15, <1>k, <2>1, OpenIndexInv
  <1>16. CASE RebuildSegment
    <2>1. meta' = meta
      BY <1>16 DEF RebuildSegment, disk
    <2> QED
      BY <1>0, <1>16, <1>k, <2>1, RebuildIndexInv
  <1>17. CASE RebuildDone
    <2>1. meta' = meta
      BY <1>17 DEF RebuildDone, disk
    <2> QED
      BY <1>0, <1>17, <1>k, <2>1, ReadyIndexInv
  <1>18. CASE RebuildFails \/ Crash
    <2>1. DropMemory /\ meta' = meta
      BY <1>18 DEF RebuildFails, Crash, disk
    <2> QED
      BY <1>k, <2>1, DropMemoryIndexInv
  <1>19. CASE UNCHANGED vars
    <2>1. UNCHANGED <<disk, memory, pc, locals>>
      BY <1>19 DEF vars
    <2>h. Held' = Held /\ \A id : Rows(id)' = Rows(id)
      BY <2>1 DEF disk, memory, Held, Rows
    <2>r. HeldLocs' = HeldLocs /\ \A loc : RowAt(loc)' = RowAt(loc)
      BY <2>h DEF HeldLocs, RowAt
    <2>2. IndexedRowsMatch' /\ RowsIndexed'
      BY <2>1, <2>h, <2>r DEF memory, locals, IndexInv, IndexedRowsMatch, RowsIndexed, EntryFor,
                              JustStored
    <2>3. OneSplit'
      BY <2>1, <2>r DEF memory, locals, IndexInv, OneSplit, ValidatePrimaryKey
    <2>4. KeysOnce' /\ EntriesBelowNext' /\ DiskKeysOnce'
      BY <2>1 DEF disk, memory, IndexInv, KeysOnce, EntriesBelowNext, DiskKeysOnce
    <2>5. RebuiltSoFar' /\ DownHasNoEntries' /\ VisibleIsRecorded'
      BY <2>1 DEF disk, memory, locals, IndexInv, RebuiltSoFar, EntryFor, DownHasNoEntries,
                  VisibleIsRecorded
    <2> QED
      BY <2>2, <2>3, <2>4, <2>5 DEF IndexInv
  <1> QED
    BY <1>1, <1>2, <1>3, <1>4, <1>5, <1>6, <1>7, <1>8, <1>9, <1>10, <1>11, <1>12, <1>13, <1>14,
       <1>15, <1>16, <1>17, <1>18, <1>19 DEF Next, AppendStep, FlushStep, LifeStep

\* What is reachable has all of it, when a batch is no wider than a segment.
LEMMA IndexInvHolds ==
    ASSUME MaxBatch <= SegCap
    PROVE  Spec => [](TypeInv /\ IdInv /\ IndexInv)
  <1>1. Init => TypeInv /\ IdInv /\ IndexInv
    BY InitTypeInv, InitIdInv, InitIndexInv
  <1>2. (TypeInv /\ IdInv /\ IndexInv) /\ [Next]_vars => (TypeInv /\ IdInv /\ IndexInv)'
    BY NextTypeInv, NextIdInv, NextIndexInv
  <1> QED
    BY <1>1, <1>2, PTL DEF Spec

\* However Append cuts batches no wider than a segment, and whatever is flushed, lost and
\* rebuilt: an index entry names a row that the table has and that has the entry's key.
THEOREM IndexesMatch ==
    ASSUME MaxBatch <= SegCap
    PROVE  Spec => []IndexedRowsMatch
  <1>1. IndexInv => IndexedRowsMatch
    BY DEF IndexInv
  <1> QED
    BY <1>1, IndexInvHolds, PTL

\* Outside Append and Open no row of such a table is missing from an index.
THEOREM IndexesComplete ==
    ASSUME MaxBatch <= SegCap
    PROVE  Spec => []EveryRowIndexed
  <1>1. TypeInv /\ IndexInv => EveryRowIndexed
    BY EmptySeq DEF IndexInv, RowsIndexed, EntryFor, JustStored, TypeInv, ChunkInBatch, EveryRowIndexed
  <1> QED
    BY <1>1, IndexInvHolds, PTL

\* Validating a batch against the index keeps the keys of such a table unique, over every
\* crash, failed flush and restart.
THEOREM KeysStayUnique ==
    ASSUME MaxBatch <= SegCap
    PROVE  Spec => []UniquePrimaryKeys
  <1> QED
    BY KeysUnique, IndexInvHolds, PTL

\* What lookups find in such a table is what scans return.
THEOREM LookupsExact ==
    ASSUME MaxBatch <= SegCap
    PROVE  Spec => []LookupsFollowScans
  <1>1. TypeInv /\ IdInv /\ IndexInv => LookupsFollowScans
    <2> SUFFICES ASSUME TypeInv, IdInv, IndexInv PROVE LookupsFollowScans
      OBVIOUS
    <2>1. IndexedRowsMatch /\ VisibleIsRecorded /\ Range(segIds) \subseteq Held
      BY DEF IndexInv, Held
    <2>2. ASSUME pc = "ready", pending = {}, NEW loc \in HeldLocs, loc.seg \in Range(segIds)
          PROVE  /\ \E e \in pk : e.loc = loc /\ e.key = RowAt(loc).pk /\ e.vis
                 /\ \E e \in sk : e.loc = loc /\ e.key = RowAt(loc).sk /\ e.vis
      <3>1. EntryFor(loc, RowAt(loc))
        BY <2>2, EmptySeq DEF IndexInv, RowsIndexed, JustStored, TypeInv, ChunkInBatch
      <3> QED
        BY <2>1, <2>2, <3>1 DEF EntryFor, VisibleIsRecorded
    <2> DEFINE PkRows(k) == {loc \in HeldLocs : loc.seg \in Range(segIds) /\ RowAt(loc).pk = k}
               SkRows(k) == {loc \in HeldLocs : loc.seg \in Range(segIds) /\ RowAt(loc).sk = k}
    <2>3. ASSUME NEW k \in Key
          PROVE  /\ Lookup(pk, k) \subseteq PkRows(k)
                 /\ pc = "ready" /\ pending = {} => PkRows(k) \subseteq Lookup(pk, k)
      BY <2>1, <2>2 DEF Lookup, IndexedRowsMatch, VisibleIsRecorded
    <2>4. ASSUME NEW k \in SecKey
          PROVE  /\ Lookup(sk, k) \subseteq SkRows(k)
                 /\ pc = "ready" /\ pending = {} => SkRows(k) \subseteq Lookup(sk, k)
      BY <2>1, <2>2 DEF Lookup, IndexedRowsMatch, VisibleIsRecorded
    <2> QED
      BY <2>3, <2>4 DEF LookupsFollowScans
  <1> QED
    BY <1>1, IndexInvHolds, PTL

=============================================================================
