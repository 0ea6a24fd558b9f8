---------------------------- MODULE BatchBuffers ----------------------------
(***************************************************************************)
(* Who owns the memory of a result while a SELECT runs.  The columns of a  *)
(* batch (src/execution/vector/vector.cpp) either own a buffer of the      *)
(* BufferPool (src/memory/buffer_pool/buffer_pool.cpp) or borrow memory:   *)
(* of a mapped segment, or of a batch further down.  A buffer that is      *)
(* given back is handed out again at once, to whatever thread asks.        *)
(*                                                                         *)
(* A scan fills the projection's input_, the projection fills the batch of *)
(* its caller (src/execution/projection/projection.cpp), and the batch     *)
(* reaches the consumer by a call (serial) or through the result queue     *)
(* (parallel), where it is copied into the QueryResult.  The pool locks a  *)
(* free list for one call, so a step fills or gives back one column.       *)
(*                                                                         *)
(* Borrowed memory carries no owner in the code: each batch here has a     *)
(* number, every buffer the number of the batch it was filled for, and a   *)
(* reader that meets another number has read memory that was given back.   *)
(***************************************************************************)
EXTENDS Integers, Sequences

CONSTANTS
    Worker,       \* pipeline threads of a parallel query
    Caller,       \* the thread of the call
    Buffers,      \* bound: addresses of buffers
    Allocator(_), \* what the system may hand out while it has given these addresses
    MaxCached,    \* max_cached_per_class_
    Classes,      \* kClassCount: class c holds c units, more is allocated directly
    Slots,        \* columns of a scan, the column in slot s has s units
    Plans,        \* the projections considered: sequences of slot plans
    MaxBatches,   \* bound: batches of a query
    Queue         \* result_queue_capacity

\* Slot plans, ProjectionSlotPlan: a direct column, a vector expression (two
\* constants are not compiled to one) or a scalar one, over slots of the input.
SlotPlan == [kind : {"direct", "vector", "scalar"}, slots : SUBSET (1..Slots), size : Nat]

ASSUME BatchBuffersAssumption ==
    /\ Caller \notin Worker
    /\ {Buffers, Classes, MaxCached, Slots, MaxBatches, Queue} \subseteq Nat
    /\ \A p \in Plans : /\ p \in Seq(SlotPlan)
                        /\ \A i \in DOMAIN p : /\ p[i].kind = "direct" => \E s \in 1..Slots : p[i].slots = {s}
                                               /\ p[i].kind = "vector" => p[i].slots # {}

VARIABLES
    allocated,  \* the addresses the system gave
    free,       \* free_lists_: per class, the buffers kept for reuse
    holds,      \* per address: the number of the batch it was filled for
    parallel,   \* ExecuteParallelQuery or ExecuteSerialQuery
    source,     \* the leaf of the plan: "seq" or "index"
    plan,       \* the slot_plans_ of the projection
    produced,   \* how many batches the scans have made
    at,         \* per thread: where it is
    hand,       \* per thread: its input_, gathered_input_, batch, and chunk under copy
    queue,      \* the result queue
    chunks      \* the copies in the QueryResult

pool == <<allocated, free, holds>>
query == <<parallel, source, plan>>
vars == <<pool, query, produced, at, hand, queue, chunks>>

Thread == Worker \cup {Caller}
Part == {"input", "gathered", "output", "copy"}
Buffer == 1..Buffers
Class == 1..Classes
Direct == 0             \* UINT32_MAX: not of a size class
View == -1              \* not a handle at all
NoBuffer == 0
Mapped == -1            \* memory of a segment, valid as long as the database
Stale == 0              \* the number of memory nobody filled

-----------------------------------------------------------------------------
(* ColumnData and VectorBatch                                               *)

Borrowed(address) == [buffer |-> address, class |-> View]
Blank == Borrowed(NoBuffer)
NoBatch == [columns |-> <<>>, number |-> Stale]

Owned(batch) == {i \in DOMAIN batch.columns : batch.columns[i].class # View}
Missing(batch) == {i \in DOMAIN batch.columns : batch.columns[i].buffer = NoBuffer}
FirstOf(S, i) == i \in S /\ \A j \in S : i <= j

(* Does a reader of batch n find its data in this column? *)
Holds(column, n) ==
    \/ column.buffer = Mapped
    \/ column.buffer \in allocated /\ holds[column.buffer] = n

(* The number of what a reader of these columns finds. *)
Read(batch, slots) ==
    IF \A s \in slots : Holds(batch.columns[s], batch.number) THEN batch.number ELSE Stale

-----------------------------------------------------------------------------
(* BufferPool                                                               *)

ClassOf(size) == IF size \in Class THEN size ELSE Direct

(* BufferPool::Acquire: a buffer of the free list, or one of the system. *)
Hit(class) == class # Direct /\ free[class] # <<>>

Acquire(b, class) ==
    IF Hit(class)
    THEN /\ b = free[class][Len(free[class])]
         /\ free' = [free EXCEPT ![class] = SubSeq(@, 1, Len(@) - 1)]
         /\ UNCHANGED allocated
    ELSE /\ b \in Allocator(allocated) \ allocated
         /\ allocated' = allocated \cup {b}
         /\ UNCHANGED free

(* BufferPool::Release of what a column owns. *)
Cacheable(class) == class # Direct /\ Len(free[class]) < MaxCached

GiveBack(column) ==
    LET b == column.buffer
        class == column.class
    IN /\ holds' = [holds EXCEPT ![b] = Stale]
       /\ IF Cacheable(class)
          THEN free' = [free EXCEPT ![class] = Append(@, b)] /\ UNCHANGED allocated
          ELSE allocated' = allocated \ {b} /\ UNCHANGED free

(* ColumnData::Resize on a column without a handle, then the writes into it, *)
(* computed from data of batch n.                                            *)
Fill(t, part, i, size, n) ==
    \E b \in Buffer :
        /\ Acquire(b, ClassOf(size))
        /\ holds' = [holds EXCEPT ![b] = n]
        /\ hand' = [hand EXCEPT ![<<t, part>>].columns[i] = [buffer |-> b, class |-> ClassOf(size)]]

-----------------------------------------------------------------------------
(* The operators of one pipeline                                            *)

AllDirect == \A i \in DOMAIN plan : plan[i].kind = "direct"
TheSlot(slot) == CHOOSE s \in slot.slots : TRUE

(* gather_slots_: what some vector expression reads. *)
GatherSlots == UNION {plan[i].slots : i \in {j \in DOMAIN plan : plan[j].kind = "vector"}}

(* BuildDirectOutputMap: the last direct column over a slot is in the map. *)
DirectOutput(slot, i) ==
    LET over == {j \in DOMAIN plan : plan[j].kind = "direct" /\ plan[j].slots = {slot}}
    IN i \in over /\ \A j \in over : j <= i

Pipelines == IF parallel THEN Worker ELSE {Caller}

\* Mutant: any leaf may be run in parallel.
CanParallelize_Any(leaf) == TRUE

(* FindSeqScanPlan: a plan over an index is never run in parallel. *)
CanParallelize(leaf) == leaf = "seq"

Init ==
    /\ allocated = {}
    /\ free = [c \in Class |-> <<>>]
    /\ holds = [b \in Buffer |-> Stale]
    /\ source \in {"seq", "index"}
    /\ parallel \in IF CanParallelize(source) THEN BOOLEAN ELSE {FALSE}
    /\ plan \in Plans
    /\ produced = 0
    /\ at = [t \in Thread |-> "scan"]
    /\ hand = [p \in Thread \X Part |-> NoBatch]
    /\ queue = <<>>
    /\ chunks = <<>>

(* VectorBatch::Reset, ClearBatch and the destructor give the columns back in *)
(* order.  Which batches a thread clears, and in which order, where it is:    *)
(* before a scan the batch shown, then input_; in BuildGatheredInput the      *)
(* gathered_input_ of the call before; at the end everything.                 *)
DirectDone(t) == \A i \in Missing(hand[<<t, "output">>]) : plan[i].kind # "direct"

ToClear(t) ==
    CASE at[t] = "scan" -> <<"output", "input">>
      [] at[t] = "direct" /\ DirectDone(t) -> <<"gathered">>
      [] at[t] = "left" -> <<"copy", "output", "gathered", "input">>
      [] OTHER -> <<>>

Cleared(t, part) == Owned(hand[<<t, part>>]) = {}

Clear(t) ==
    \E k \in DOMAIN ToClear(t) :
        LET p == <<t, ToClear(t)[k]>> IN
          /\ \A l \in 1..(k - 1) : Cleared(t, ToClear(t)[l])
          /\ \E i \in DOMAIN hand[p].columns :
                /\ FirstOf(Owned(hand[p]), i)
                /\ GiveBack(hand[p].columns[i])
                /\ hand' = [hand EXCEPT ![p].columns[i] = Blank]
          /\ UNCHANGED <<query, produced, at, queue, chunks>>

(* The child's Next makes views of a segment (GetVectorBatch) or rows of its *)
(* own (GatherRows, through IndexScan).                                      *)
StartScan(t) ==
    /\ t \in Pipelines
    /\ at[t] = "scan"
    /\ Cleared(t, "output") /\ Cleared(t, "input")
    /\ produced < MaxBatches
    /\ produced' = produced + 1
    /\ hand' = [hand EXCEPT
           ![<<t, "input">>] = [columns |-> [s \in 1..Slots |-> IF source = "seq" THEN Borrowed(Mapped) ELSE Blank],
                                number |-> produced + 1],
           ![<<t, "output">>] = NoBatch]
    /\ at' = [at EXCEPT ![t] = "read"]
    /\ UNCHANGED <<pool, query, queue, chunks>>

ReadRows(t) ==
    /\ at[t] = "read"
    /\ \E s \in 1..Slots :
          /\ FirstOf(Missing(hand[<<t, "input">>]), s)
          /\ Fill(t, "input", s, s, hand[<<t, "input">>].number)
    /\ UNCHANGED <<query, produced, at, queue, chunks>>

(* ProduceViewProjection and ProduceDenseProjection borrow the direct columns *)
(* and leave the expressions to be filled; ProduceSparseProjection borrows    *)
(* nothing.  Which of the last two it is depends on the rows the scan kept.   *)
Project(t) ==
    LET input == hand[<<t, "input">>]
        Output(lends) ==
            [columns |-> [i \in DOMAIN plan |-> IF lends /\ plan[i].kind = "direct"
                                                THEN Borrowed(input.columns[TheSlot(plan[i])].buffer)
                                                ELSE Blank],
             number |-> input.number]
        Produce(lends, next) ==
            /\ hand' = [hand EXCEPT ![<<t, "output">>] = Output(lends)]
            /\ at' = [at EXCEPT ![t] = next]
    IN /\ at[t] = "read"
       /\ Missing(input) = {}
       /\ \/ Produce(TRUE, "dense")
          \/ ~AllDirect /\ Produce(FALSE, "direct")
       /\ UNCHANGED <<pool, query, produced, queue, chunks>>

(* The sparse projection gathers its direct columns first. *)
GatherDirect(t) ==
    /\ at[t] = "direct"
    /\ \E i \in DOMAIN plan :
          /\ FirstOf({j \in Missing(hand[<<t, "output">>]) : plan[j].kind = "direct"}, i)
          /\ Fill(t, "output", i, TheSlot(plan[i]), Read(hand[<<t, "input">>], plan[i].slots))
    /\ UNCHANGED <<query, produced, at, queue, chunks>>

(* BuildGatheredInput, if any vector expression reads anything: a slot that a *)
(* direct column has gathered already is borrowed from the output.            *)
StartGather(t) ==
    LET output == hand[<<t, "output">>]
        From(slot) == IF slot \in GatherSlots /\ \E i \in DOMAIN plan : DirectOutput(slot, i)
                      THEN Borrowed(output.columns[CHOOSE i \in DOMAIN plan : DirectOutput(slot, i)].buffer)
                      ELSE Blank
    IN /\ at[t] = "direct" /\ DirectDone(t)
       /\ at' = [at EXCEPT ![t] = "sparse"]
       /\ \/ GatherSlots = {} /\ UNCHANGED hand
          \/ /\ GatherSlots # {} /\ Cleared(t, "gathered")
             /\ hand' = [hand EXCEPT ![<<t, "gathered">>] =
                            [columns |-> [slot \in 1..Slots |-> From(slot)], number |-> output.number]]
       /\ UNCHANGED <<pool, query, produced, queue, chunks>>

ToGather(t) == GatherSlots \cap Missing(hand[<<t, "gathered">>])

GatherColumn(t) ==
    /\ at[t] = "sparse"
    /\ \E s \in 1..Slots :
          /\ FirstOf(ToGather(t), s)
          /\ Fill(t, "gathered", s, s, Read(hand[<<t, "input">>], {s}))
    /\ UNCHANGED <<query, produced, at, queue, chunks>>

(* The expressions, in the order of their columns or, in a sparse projection, *)
(* the vector expressions first; those read gathered_input_.                  *)
Computes(t) ==
    \/ at[t] = "dense"
    \/ at[t] = "sparse" /\ ToGather(t) = {}

Before(t, i, j) ==
    IF at[t] = "sparse" /\ plan[i].kind # plan[j].kind THEN plan[i].kind = "vector" ELSE i <= j

Evaluate(t) ==
    /\ Computes(t)
    /\ \E i \in Missing(hand[<<t, "output">>]) :
          LET from == IF at[t] = "sparse" /\ plan[i].kind = "vector" THEN "gathered" ELSE "input" IN
            /\ \A j \in Missing(hand[<<t, "output">>]) : Before(t, i, j)
            /\ Fill(t, "output", i, plan[i].size, Read(hand[<<t, from>>], plan[i].slots))
    /\ UNCHANGED <<query, produced, at, queue, chunks>>

Ready(t) == Computes(t) /\ Missing(hand[<<t, "output">>]) = {}

-----------------------------------------------------------------------------
(* From the pipelines to the QueryResult                                    *)

\* Mutant: the move leaves the handles of the source in place.
Push_KeepsHandles(t) ==
    /\ parallel /\ Ready(t)
    /\ Len(queue) < Queue
    /\ queue' = Append(queue, hand[<<t, "output">>])
    /\ at' = [at EXCEPT ![t] = "scan"]
    /\ UNCHANGED <<pool, query, produced, hand, chunks>>

(* A worker moves its batch into the queue and takes an empty one. *)
Push(t) ==
    /\ parallel /\ Ready(t)
    /\ Len(queue) < Queue
    /\ queue' = Append(queue, hand[<<t, "output">>])
    /\ hand' = [hand EXCEPT ![<<t, "output">>] = NoBatch]
    /\ at' = [at EXCEPT ![t] = "scan"]
    /\ UNCHANGED <<pool, query, produced, chunks>>

Pop ==
    /\ parallel
    /\ at[Caller] = "scan" /\ Cleared(Caller, "output")
    /\ queue # <<>>
    /\ hand' = [hand EXCEPT ![<<Caller, "output">>] = Head(queue)]
    /\ queue' = Tail(queue)
    /\ at' = [at EXCEPT ![Caller] = "shown"]
    /\ UNCHANGED <<pool, query, produced, chunks>>

(* The consumer of Connection::Query is QueryResult::Append, a deep copy.  It *)
(* is shown the batch popped or, in a serial query, the batch just produced.  *)
Shown == at[Caller] = "shown" \/ Ready(Caller)

StartCopy ==
    LET batch == hand[<<Caller, "output">>]
    IN /\ Shown
       /\ hand' = [hand EXCEPT ![<<Caller, "copy">>] = [batch EXCEPT !.columns = [i \in DOMAIN @ |-> Blank]]]
       /\ at' = [at EXCEPT ![Caller] = "copy"]
       /\ UNCHANGED <<pool, query, produced, queue, chunks>>

(* A column of a result is a column of the table or has a size of its own. *)
ColumnSize(slot) == IF slot.kind = "direct" THEN TheSlot(slot) ELSE slot.size

CopyColumn ==
    LET batch == hand[<<Caller, "output">>]
    IN /\ at[Caller] = "copy"
       /\ \E i \in DOMAIN batch.columns :
             /\ FirstOf(Missing(hand[<<Caller, "copy">>]), i)
             /\ Fill(Caller, "copy", i, ColumnSize(plan[i]), Read(batch, {i}))
       /\ UNCHANGED <<query, produced, at, queue, chunks>>

EndCopy ==
    /\ at[Caller] = "copy"
    /\ Missing(hand[<<Caller, "copy">>]) = {}
    /\ chunks' = Append(chunks, hand[<<Caller, "copy">>])
    /\ hand' = [hand EXCEPT ![<<Caller, "copy">>] = NoBatch]
    /\ at' = [at EXCEPT ![Caller] = "scan"]
    /\ UNCHANGED <<pool, query, produced, queue>>

(* The end of a pipeline, by exhaustion, cancellation or an exception at any *)
(* point: its operators and its batch are destroyed.                         *)
Leave(t) ==
    /\ t \in Pipelines
    /\ at[t] # "left"
    /\ at' = [at EXCEPT ![t] = "left"]
    /\ UNCHANGED <<pool, query, produced, hand, queue, chunks>>

(* The call of a parallel query returns after its workers. *)
Return ==
    /\ parallel
    /\ \A t \in Worker : at[t] = "left"
    /\ at[Caller] = "scan"
    /\ at' = [at EXCEPT ![Caller] = "left"]
    /\ UNCHANGED <<pool, query, produced, hand, queue, chunks>>

(* The queue goes with the call, and with it what nobody popped. *)
Drain ==
    /\ at[Caller] = "left" /\ Cleared(Caller, "output")
    /\ \E k \in DOMAIN queue :
          /\ \A l \in 1..(k - 1) : Owned(queue[l]) = {}
          /\ \E i \in DOMAIN queue[k].columns :
                /\ FirstOf(Owned(queue[k]), i)
                /\ GiveBack(queue[k].columns[i])
                /\ queue' = [queue EXCEPT ![k].columns[i] = Blank]
    /\ UNCHANGED <<query, produced, at, hand, chunks>>

Next ==
    \/ \E t \in Thread :
          \/ Clear(t) \/ StartScan(t) \/ ReadRows(t) \/ Project(t)
          \/ GatherDirect(t) \/ StartGather(t) \/ GatherColumn(t) \/ Evaluate(t)
          \/ Push(t) \/ Leave(t)
    \/ Pop \/ StartCopy \/ CopyColumn \/ EndCopy
    \/ Return \/ Drain

Spec == Init /\ [][Next]_vars

-----------------------------------------------------------------------------
(* Properties                                                               *)

\* The columns of a family of batches that own a buffer, each with its place.
KeptBy(name, f) ==
    UNION {{<<<<name, k, i>>, f[k].columns[i].buffer>> : i \in Owned(f[k])} : k \in DOMAIN f}

KeptFree == UNION {{<<<<"free", c, i>>, free[c][i]>> : i \in DOMAIN free[c]} : c \in Class}

\* Whoever keeps a buffer, with the buffer it keeps.
Keepers == KeptBy("hand", hand) \cup KeptBy("queue", queue) \cup KeptBy("chunk", chunks) \cup KeptFree

\* Every buffer the system gave is in one place, a free list or one column of
\* one batch, and no place names another: nothing is given back twice and
\* nothing is forgotten, however the query ends.
OneOwner ==
    /\ \A x, y \in Keepers : x[2] = y[2] => x = y
    /\ {x[2] : x \in Keepers} = allocated

\* What a batch that is ready, queued, shown or copied says is what the
\* pipeline computed for it: every column it borrows outlives it, although
\* input_ is cleared and its buffers go to other threads meanwhile.
ResultsKeep ==
    LET Whole(batch) == \A i \in DOMAIN batch.columns : Holds(batch.columns[i], batch.number)
    IN /\ \A t \in Thread : Ready(t) \/ at[t] \in {"shown", "copy"} => Whole(hand[<<t, "output">>])
       /\ at[Caller] # "left" => \A k \in DOMAIN queue : Whole(queue[k])
       /\ \A k \in DOMAIN chunks : Whole(chunks[k])
=============================================================================
