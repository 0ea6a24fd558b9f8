------------------------------- MODULE Arenas -------------------------------
(***************************************************************************)
(* The memory of a query's hash tables: one Arena for the coordinator and  *)
(* one per worker (src/memory/query_memory_context/), each filled by its   *)
(* own thread without a lock (src/memory/arena/arena.cpp), and the         *)
(* BlockPool they all share (src/memory/block_pool/block_pool.cpp), whose  *)
(* lock covers the free list and nothing else.                             *)
(*                                                                         *)
(* A block is an address with a capacity; an allocation is a range of its  *)
(* bytes.  An arena may be reset and filled again, and released and used   *)
(* by a later query: the same Arena constant stands for both.              *)
(***************************************************************************)
EXTENDS Integers, Sequences, FiniteSetsExt

CONSTANTS
    Arena,      \* the arenas of the queries under way
    Block,      \* bound: addresses of blocks
    BlockSize,  \* block_size_, which the constructor rounded up to Unit
    MaxCached,  \* max_cached_blocks_
    Unit,       \* DEFAULT_ALIGNMENT: large blocks are rounded up to it
    Request,    \* the requests considered: size and alignment
    MaxLive     \* bound: allocations of one arena between two resets

ConstantsOK ==
    /\ {BlockSize, Unit} \subseteq Nat \ {0}
    /\ {MaxCached, MaxLive} \subseteq Nat
    /\ BlockSize % Unit = 0
    /\ \A r \in Request : /\ {r.size, r.alignment} \subseteq Nat \ {0}
                          /\ Unit % r.alignment = 0    \* blocks start at a multiple of Unit

VARIABLES
    heap,       \* block -> its capacity and whether it is pooled, while the system gave it
    freeBlocks, \* free_blocks_
    arena,      \* per arena: blocks_ with their offsets, current_block_
    pc,         \* per arena: idle, growing or releasing
    asked,      \* per arena: the request it grows for
    live,       \* per arena: the ranges handed out since the last reset
    balance     \* system_allocations_ - system_deallocations_

vars == <<heap, freeBlocks, arena, pc, asked, live, balance>>

NoRequest == [size |-> 0, alignment |-> 1]
Empty == [blocks |-> <<>>, current |-> 1]

AlignUp(value, alignment) == ((value + alignment - 1) \div alignment) * alignment

Init ==
    /\ heap = [b \in {} |-> NoRequest]
    /\ freeBlocks = <<>>
    /\ arena = [a \in Arena |-> Empty]
    /\ pc = [a \in Arena |-> "idle"]
    /\ asked = [a \in Arena |-> NoRequest]
    /\ live = [a \in Arena |-> <<>>]
    /\ balance = 0

-----------------------------------------------------------------------------
(* Allocation                                                               *)

\* Mutant: the padding before an aligned range is not counted.
Fits_Unpadded(a, i, r) ==
    LET block == arena[a].blocks[i] IN block.offset + r.size <= heap[block.id].capacity

Fits(a, i, r) ==
    LET block == arena[a].blocks[i]
    IN AlignUp(block.offset, r.alignment) + r.size <= heap[block.id].capacity

(* The range is cut off at the block's offset and the block becomes current. *)
Bump(a, blocks, i, r) ==
    LET from == AlignUp(blocks[i].offset, r.alignment)
    IN /\ arena' = [arena EXCEPT ![a] = [blocks |-> [blocks EXCEPT ![i].offset = from + r.size],
                                         current |-> i]]
       /\ live' = [live EXCEPT ![a] = Append(@, [block |-> blocks[i].id, from |-> from,
                                                  size |-> r.size, alignment |-> r.alignment])]

(* The current block, or the first one after it with room: Reset leaves such. *)
Usable(a, r) == {i \in arena[a].current .. Len(arena[a].blocks) : Fits(a, i, r)}

WithBlock(a, b) == Append(arena[a].blocks, [id |-> b, offset |-> 0])

Allocate(a, r) ==
    /\ pc[a] = "idle"
    /\ Len(live[a]) < MaxLive
    /\ IF Usable(a, r) # {}
       THEN /\ Bump(a, arena[a].blocks, Min(Usable(a, r)), r)
            /\ UNCHANGED <<heap, freeBlocks, pc, asked, balance>>
       ELSE IF r.size + r.alignment <= BlockSize /\ freeBlocks # <<>>
       THEN LET b == freeBlocks[Len(freeBlocks)]       \* a hit, under the lock
            IN /\ freeBlocks' = SubSeq(freeBlocks, 1, Len(freeBlocks) - 1)
               /\ Bump(a, WithBlock(a, b), Len(WithBlock(a, b)), r)
               /\ UNCHANGED <<heap, pc, asked, balance>>
       ELSE /\ pc' = [pc EXCEPT ![a] = "grow"]
            /\ asked' = [asked EXCEPT ![a] = r]
            /\ UNCHANGED <<heap, freeBlocks, arena, live, balance>>

(* AllocateNormalBlock or AllocateLargeBlock, after the lock. *)
Grow(a) ==
    LET r == asked[a]
        need == r.size + r.alignment
        pooled == need <= BlockSize
    IN /\ pc[a] = "grow"
       /\ \E b \in Block \ DOMAIN heap :
             /\ heap' = [c \in DOMAIN heap \cup {b} |->
                            IF c = b THEN [capacity |-> IF pooled THEN BlockSize ELSE AlignUp(need, Unit),
                                           pooled |-> pooled]
                                     ELSE heap[c]]
             /\ Bump(a, WithBlock(a, b), Len(WithBlock(a, b)), r)
       /\ balance' = balance + 1
       /\ pc' = [pc EXCEPT ![a] = "idle"]
       /\ asked' = [asked EXCEPT ![a] = NoRequest]
       /\ UNCHANGED freeBlocks

-----------------------------------------------------------------------------
(* Reset keeps the blocks, Release gives them back one by one.              *)

Reset(a) ==
    /\ pc[a] = "idle"
    /\ arena' = [arena EXCEPT ![a] =
                    [blocks |-> [i \in DOMAIN @.blocks |-> [@.blocks[i] EXCEPT !.offset = 0]], current |-> 1]]
    /\ live' = [live EXCEPT ![a] = <<>>]
    /\ UNCHANGED <<heap, freeBlocks, pc, asked, balance>>

Release(a) ==
    /\ pc[a] = "idle"
    /\ arena[a].blocks # <<>>
    /\ pc' = [pc EXCEPT ![a] = "release"]
    /\ live' = [live EXCEPT ![a] = <<>>]
    /\ UNCHANGED <<heap, freeBlocks, arena, asked, balance>>

(* What a step of Release leaves to the arena. *)
\* Mutant: the blocks given back stay in blocks_.
Rest_Kept(a) == [arena[a] EXCEPT !.current = 1]

Rest(a) == [blocks |-> Tail(arena[a].blocks), current |-> 1]

ReleaseBlock(a) ==
    LET b == Head(arena[a].blocks).id
        rest == Rest(a)
    IN /\ pc[a] = "release"
       /\ IF heap[b].pooled /\ Len(freeBlocks) < MaxCached
          THEN freeBlocks' = Append(freeBlocks, b) /\ UNCHANGED <<heap, balance>>
          ELSE /\ heap' = [c \in DOMAIN heap \ {b} |-> heap[c]]
               /\ balance' = balance - 1
               /\ UNCHANGED freeBlocks
       /\ arena' = [arena EXCEPT ![a] = rest]
       /\ pc' = [pc EXCEPT ![a] = IF Len(arena[a].blocks) = 1 THEN "idle" ELSE "release"]
       /\ UNCHANGED <<asked, live>>

Next ==
    \E a \in Arena :
        \/ \E r \in Request : Allocate(a, r)
        \/ Grow(a)
        \/ Reset(a)
        \/ Release(a)
        \/ ReleaseBlock(a)

Spec == Init /\ [][Next]_vars

-----------------------------------------------------------------------------
(* Properties                                                               *)

\* Ranges handed out and not given back lie inside a block of their arena, at
\* an address of the alignment asked for, and no two of them, of whatever
\* arenas, share a byte: neither the search among blocks kept by Reset nor a
\* block that travelled through the pool hands out memory twice.
RangesApart ==
    \A a \in Arena : \A k \in DOMAIN live[a] :
        LET x == live[a][k] IN
          /\ \E i \in DOMAIN arena[a].blocks : arena[a].blocks[i].id = x.block
          /\ x.from + x.size <= heap[x.block].capacity
          /\ x.from % x.alignment = 0
          /\ \A c \in Arena : \A l \in DOMAIN live[c] :
                LET y == live[c][l] IN
                  x.block = y.block /\ <<a, k>> # <<c, l>> =>
                      a = c /\ (x.from + x.size <= y.from \/ y.from + y.size <= x.from)

\* Where a block is: in the free list, or in an arena.
Places(b) ==
    {<<"free", i>> : i \in {j \in DOMAIN freeBlocks : freeBlocks[j] = b}} \cup
    UNION {{<<a, i>> : i \in {j \in DOMAIN arena[a].blocks : arena[a].blocks[j].id = b}} : a \in Arena}

\* A block of the system is in one place, the free list or one arena, until it
\* is given back; the free list stays below its limit and holds blocks of the
\* common size only; the counters tell how many blocks there are.
BlocksAccounted ==
    /\ \A b \in Block : Cardinality(Places(b)) = IF b \in DOMAIN heap THEN 1 ELSE 0
    /\ Len(freeBlocks) <= MaxCached
    /\ \A i \in DOMAIN freeBlocks :
          LET b == freeBlocks[i] IN heap[b].pooled /\ heap[b].capacity = BlockSize
    /\ balance = Cardinality(DOMAIN heap)
=============================================================================
