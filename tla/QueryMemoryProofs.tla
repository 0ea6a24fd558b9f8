-------------------------- MODULE QueryMemoryProofs --------------------------
(***************************************************************************)
(* Theorems about the memory of a query.  The arenas of an aggregate, for  *)
(* any arenas, blocks, requests, block size and limit of the block pool:   *)
(* live ranges never share a byte, and every block the system gave is in   *)
(* one place until it is given back.  The batches of a SELECT, for any     *)
(* threads, plans, classes, limits and addresses: every buffer has one     *)
(* owner, and no result is read from memory that was given back.           *)
(***************************************************************************)
EXTENDS QueryMemory, FiniteSetTheorems, SequenceTheorems, WellFoundedInduction, TLAPS

-----------------------------------------------------------------------------
(* Arenas: rounding up *)

\* Rounding up gives the next multiple.
LEMMA AlignUpFits ==
    ASSUME NEW value \in Nat, NEW alignment \in Nat \ {0}
    PROVE  /\ A!AlignUp(value, alignment) \in Nat
           /\ A!AlignUp(value, alignment) >= value
           /\ A!AlignUp(value, alignment) % alignment = 0
  <1> DEFINE top == value + alignment - 1
             times == top \div alignment
  <1>1. top \in Nat /\ times \in Nat /\ (top % alignment) \in 0..alignment - 1
    OBVIOUS
  <1>2. top = times * alignment + (top % alignment)
    OBVIOUS
  <1>3. A!AlignUp(value, alignment) = times * alignment
    BY DEF A!AlignUp
  <1> HIDE DEF times
  <1>4. times * alignment \in Nat
    BY <1>1
  <1>5. times * alignment >= value
    BY <1>1, <1>2, <1>4
  <1>6. (times * alignment) % alignment = 0
    BY <1>1
  <1> QED
    BY <1>3, <1>4, <1>5, <1>6

\* An empty block is aligned as it is.
LEMMA AlignUpZero ==
    ASSUME NEW alignment \in Nat \ {0}
    PROVE  A!AlignUp(0, alignment) = 0
  <1>1. (0 + alignment - 1) \div alignment = 0
    OBVIOUS
  <1> QED
    BY <1>1 DEF A!AlignUp

-----------------------------------------------------------------------------
(* Arenas: the inductive invariant, on values of the variables *)

BlockUse == [id : Block, offset : Nat]
Extent   == [block : Block, from : Nat, size : Nat, alignment : Nat \ {0}]

\* Blocks of the common size, and only they, go through the pool.
HeapOK(h) ==
    /\ DOMAIN h \subseteq Block
    /\ IsFiniteSet(DOMAIN h)
    /\ h \in [DOMAIN h -> [capacity : Nat, pooled : BOOLEAN]]
    /\ \A b \in DOMAIN h : h[b].pooled => h[b].capacity = BlockSize

FreeOK(f)  == f \in Seq(Block) /\ Len(f) <= MaxCachedBlocks
ArenaOK(u) == u \in [Arena -> [blocks : Seq(BlockUse), current : Nat \ {0}]]
LiveOK(v)  == v \in [Arena -> Seq(Extent)]

\* Block b is used by arena c, or is free.
Uses(u, c, b)   == \E i \in DOMAIN u[c].blocks : u[c].blocks[i].id = b
IsFree(f, b)    == \E i \in DOMAIN f : f[i] = b

\* No block is in two places, and the blocks in some place are those of the heap.
Homes(h, f, u) ==
    /\ \A i, j \in DOMAIN f : f[i] = f[j] => i = j
    /\ \A c, d \in Arena : \A i \in DOMAIN u[c].blocks : \A j \in DOMAIN u[d].blocks :
          u[c].blocks[i].id = u[d].blocks[j].id => c = d /\ i = j
    /\ \A c \in Arena : \A i \in DOMAIN u[c].blocks : ~ IsFree(f, u[c].blocks[i].id)
    /\ \A b : b \in DOMAIN h <=> IsFree(f, b) \/ \E c \in Arena : Uses(u, c, b)
    /\ \A i \in DOMAIN f : h[f[i]].pooled

\* What is used of a block lies inside it.
WithinBlocks(h, u) ==
    \A c \in Arena : \A i \in DOMAIN u[c].blocks :
        u[c].blocks[i].offset <= h[u[c].blocks[i].id].capacity

Disjoint(x, y) == x.block = y.block => x.from + x.size <= y.from \/ y.from + y.size <= x.from

\* The ranges of an arena lie below the offset of one of its blocks, aligned as asked
\* for, and do not overlap.
Carved(u, v) ==
    \A c \in Arena : \A k \in DOMAIN v[c] :
        /\ \E i \in DOMAIN u[c].blocks :
              u[c].blocks[i].id = v[c][k].block /\ v[c][k].from + v[c][k].size <= u[c].blocks[i].offset
        /\ v[c][k].from % v[c][k].alignment = 0
        /\ \A l \in DOMAIN v[c] : l # k => Disjoint(v[c][k], v[c][l])

\* An arena that grows knows for what; one that gives its blocks back has no range
\* left.
CallsOK ==
    /\ pc \in [Arena -> {"idle", "grow", "release"}]
    /\ asked \in [Arena -> Request \cup {A!NoRequest}]
    /\ \A a \in Arena : pc[a] = "grow" => asked[a] \in Request
    /\ \A a \in Arena : pc[a] = "release" => live[a] = <<>> /\ arena[a].blocks # <<>>

Counted == balance = Cardinality(DOMAIN heap)

ArenaInv ==
    /\ HeapOK(heap)
    /\ FreeOK(freeBlocks)
    /\ ArenaOK(arena)
    /\ LiveOK(live)
    /\ CallsOK
    /\ Homes(heap, freeBlocks, arena)
    /\ WithinBlocks(heap, arena)
    /\ Carved(arena, live)
    /\ Counted

\* The fields of a block in use, and where it is in its arena.
LEMMA BlockFields ==
    ASSUME NEW u, ArenaOK(u), NEW c \in Arena, NEW i \in DOMAIN u[c].blocks
    PROVE  /\ u[c].blocks[i].id \in Block /\ u[c].blocks[i].offset \in Nat
           /\ i \in Nat \ {0} /\ i <= Len(u[c].blocks)
  <1>1. u[c].blocks \in Seq(BlockUse)
    BY DEF ArenaOK
  <1>2. u[c].blocks[i] \in BlockUse /\ i \in 1..Len(u[c].blocks) /\ Len(u[c].blocks) \in Nat
    BY <1>1
  <1> QED
    BY <1>2 DEF BlockUse

\* The same for the ranges handed out.
LEMMA ExtentFields ==
    ASSUME NEW v, LiveOK(v), NEW c \in Arena, NEW k \in DOMAIN v[c]
    PROVE  /\ v[c][k].block \in Block /\ v[c][k].alignment \in Nat \ {0}
           /\ v[c][k].from \in Nat /\ v[c][k].size \in Nat
  <1>1. v[c] \in Seq(Extent)
    BY DEF LiveOK
  <1>2. v[c][k] \in Extent
    BY <1>1
  <1> QED
    BY <1>2 DEF Extent

-----------------------------------------------------------------------------
(* Arenas: an arena gets a block *)

\* Arena a with block b, empty, after its others.
Given(u, a, b) == [u EXCEPT ![a].blocks = Append(@, [id |-> b, offset |-> 0])]

\* What the arenas hold then.
LEMMA GivenType ==
    ASSUME NEW u, ArenaOK(u), NEW a \in Arena, NEW b \in Block
    PROVE  /\ ArenaOK(Given(u, a, b))
           /\ Given(u, a, b)[a].blocks = Append(u[a].blocks, [id |-> b, offset |-> 0])
           /\ \A c \in Arena \ {a} : Given(u, a, b)[c] = u[c]
  <1> DEFINE s == u[a].blocks
             new == [id |-> b, offset |-> 0]
             w == Given(u, a, b)
  <1>1. s \in Seq(BlockUse) /\ new \in BlockUse /\ u[a] \in [blocks : Seq(BlockUse), current : Nat \ {0}]
    BY DEF ArenaOK, BlockUse
  <1>2. w = [u EXCEPT ![a] = [u[a] EXCEPT !.blocks = Append(s, new)]]
    BY DEF Given
  <1>3. w[a] = [u[a] EXCEPT !.blocks = Append(s, new)] /\ \A c \in Arena \ {a} : w[c] = u[c]
    BY <1>2 DEF ArenaOK
  <1>4. w[a].blocks = Append(s, new)
    BY <1>1, <1>3
  <1> HIDE DEF new
  <1>5. Append(s, new) \in Seq(BlockUse)
    BY <1>1
  <1>6. w[a] \in [blocks : Seq(BlockUse), current : Nat \ {0}]
    BY <1>1, <1>3, <1>5
  <1>7. ArenaOK(w)
    BY <1>2, <1>3, <1>6 DEF ArenaOK
  <1> QED
    BY <1>3, <1>4, <1>7 DEF new

\* Its blocks one by one: those it had, and the new one.
LEMMA GivenBlocks ==
    ASSUME NEW u, ArenaOK(u), NEW a \in Arena, NEW b \in Block
    PROVE  /\ DOMAIN Given(u, a, b)[a].blocks = DOMAIN u[a].blocks \cup {Len(u[a].blocks) + 1}
           /\ \A i \in DOMAIN u[a].blocks : Given(u, a, b)[a].blocks[i] = u[a].blocks[i]
           /\ Given(u, a, b)[a].blocks[Len(u[a].blocks) + 1] = [id |-> b, offset |-> 0]
           /\ Len(u[a].blocks) + 1 \notin DOMAIN u[a].blocks
  <1> DEFINE s == u[a].blocks
             new == [id |-> b, offset |-> 0]
  <1>1. s \in Seq(BlockUse) /\ new \in BlockUse
    BY DEF ArenaOK, BlockUse
  <1>2. Given(u, a, b)[a].blocks = Append(s, new)
    BY GivenType
  <1> HIDE DEF new
  <1>3. /\ DOMAIN Append(s, new) = DOMAIN s \cup {Len(s) + 1}
        /\ \A i \in DOMAIN s : Append(s, new)[i] = s[i]
        /\ Append(s, new)[Len(s) + 1] = new
        /\ Len(s) + 1 \notin DOMAIN s
    BY <1>1
  <1> QED
    BY <1>2, <1>3 DEF new

\* A block that no arena uses, taken from the free list or from the system, still has
\* one place after it was given to an arena.
LEMMA GivenHomes ==
    ASSUME NEW h, NEW f, NEW u, ArenaOK(u), Homes(h, f, u),
           NEW a \in Arena, NEW b \in Block,
           \A c \in Arena : ~ Uses(u, c, b),
           NEW g, NEW e,
           \A i, j \in DOMAIN e : e[i] = e[j] => i = j,
           \A x : IsFree(e, x) <=> x # b /\ IsFree(f, x),
           \A x : x \in DOMAIN g <=> x = b \/ x \in DOMAIN h,
           \A i \in DOMAIN e : g[e[i]].pooled
    PROVE  Homes(g, e, Given(u, a, b))
  <1> DEFINE w == Given(u, a, b)
             n == Len(u[a].blocks) + 1
  <1>1. /\ \A c \in Arena \ {a} : w[c] = u[c]
        /\ DOMAIN w[a].blocks = DOMAIN u[a].blocks \cup {n}
        /\ \A i \in DOMAIN u[a].blocks : w[a].blocks[i] = u[a].blocks[i]
        /\ w[a].blocks[n] = [id |-> b, offset |-> 0]
        /\ n \notin DOMAIN u[a].blocks
    BY GivenType, GivenBlocks
  <1> HIDE DEF w, n
  <1>2. \A c \in Arena : \A i \in DOMAIN u[c].blocks : u[c].blocks[i].id # b
    BY DEF Uses
  <1>3. \A c \in Arena : \A i \in DOMAIN w[c].blocks :
           \/ i \in DOMAIN u[c].blocks /\ w[c].blocks[i].id = u[c].blocks[i].id /\ w[c].blocks[i].id # b
           \/ c = a /\ i = n /\ w[c].blocks[i].id = b
    BY <1>1, <1>2
  <1>4. \A c, d \in Arena : \A i \in DOMAIN w[c].blocks : \A j \in DOMAIN w[d].blocks :
           w[c].blocks[i].id = w[d].blocks[j].id => c = d /\ i = j
    BY <1>3 DEF Homes
  <1>5. \A c \in Arena : \A i \in DOMAIN w[c].blocks : ~ IsFree(e, w[c].blocks[i].id)
    BY <1>3 DEF Homes
  <1>6. \A x : (\E c \in Arena : Uses(w, c, x)) <=> x = b \/ \E c \in Arena : Uses(u, c, x)
    <2>1. \A x : \A c \in Arena : Uses(w, c, x) => x = b \/ Uses(u, c, x)
      BY <1>3 DEF Uses
    <2>2. \A x : \A c \in Arena : Uses(u, c, x) => Uses(w, c, x)
      BY <1>1 DEF Uses
    <2>3. Uses(w, a, b)
      BY <1>1 DEF Uses
    <2> QED
      BY <2>1, <2>2, <2>3
  <1>7. \A x : x \in DOMAIN g <=> IsFree(e, x) \/ \E c \in Arena : Uses(w, c, x)
    <2>1. \A x : x \in DOMAIN h <=> IsFree(f, x) \/ \E c \in Arena : Uses(u, c, x)
      BY DEF Homes
    <2> QED
      BY <1>6, <2>1
  <1>8. Homes(g, e, w)
    BY <1>4, <1>5, <1>7 DEF Homes
  <1> QED
    BY <1>8 DEF w

\* An empty block changes neither what is used of the others nor the ranges.
LEMMA GivenKeepsRanges ==
    ASSUME NEW h, NEW u, ArenaOK(u), WithinBlocks(h, u), NEW v, Carved(u, v),
           NEW a \in Arena, NEW b \in Block,
           NEW g, g[b].capacity \in Nat,
           \A c \in Arena : \A i \in DOMAIN u[c].blocks :
               g[u[c].blocks[i].id].capacity = h[u[c].blocks[i].id].capacity
    PROVE  WithinBlocks(g, Given(u, a, b)) /\ Carved(Given(u, a, b), v)
  <1> DEFINE w == Given(u, a, b)
             n == Len(u[a].blocks) + 1
  <1>1. /\ \A c \in Arena \ {a} : w[c] = u[c]
        /\ DOMAIN w[a].blocks = DOMAIN u[a].blocks \cup {n}
        /\ \A i \in DOMAIN u[a].blocks : w[a].blocks[i] = u[a].blocks[i]
        /\ w[a].blocks[n] = [id |-> b, offset |-> 0]
    BY GivenType, GivenBlocks
  <1> HIDE DEF w, n
  <1>2. WithinBlocks(g, w)
    BY <1>1 DEF WithinBlocks
  <1>3. \A c \in Arena : \A i \in DOMAIN u[c].blocks : i \in DOMAIN w[c].blocks /\ w[c].blocks[i] = u[c].blocks[i]
    BY <1>1
  <1>4. Carved(w, v)
    BY <1>3 DEF Carved
  <1> QED
    BY <1>2, <1>4 DEF w

-----------------------------------------------------------------------------
(* Arenas: a range is cut off a block *)

\* The i-th block of arena a is used up to a byte, and is the current one.
Cut(u, a, i, end) ==
    [u EXCEPT ![a] = [blocks |-> [u[a].blocks EXCEPT ![i].offset = end], current |-> i]]

\* Ranges are noted in the order in which they are handed out.
Noted(v, a, x) == [v EXCEPT ![a] = Append(@, x)]

\* Cutting changes one offset.
LEMMA CutBlocks ==
    ASSUME NEW u, ArenaOK(u), NEW a \in Arena, NEW i \in DOMAIN u[a].blocks, NEW end \in Nat
    PROVE  /\ ArenaOK(Cut(u, a, i, end))
           /\ \A c \in Arena \ {a} : Cut(u, a, i, end)[c] = u[c]
           /\ \A c \in Arena : DOMAIN Cut(u, a, i, end)[c].blocks = DOMAIN u[c].blocks
           /\ \A c \in Arena : \A j \in DOMAIN u[c].blocks :
                 Cut(u, a, i, end)[c].blocks[j].id = u[c].blocks[j].id
           /\ \A j \in DOMAIN u[a].blocks \ {i} : Cut(u, a, i, end)[a].blocks[j] = u[a].blocks[j]
           /\ Cut(u, a, i, end)[a].blocks[i].offset = end
  <1> DEFINE s == u[a].blocks
             t == [s EXCEPT ![i].offset = end]
             w == Cut(u, a, i, end)
  <1>1. s \in Seq(BlockUse) /\ i \in Nat \ {0} /\ DOMAIN s = 1..Len(s)
    BY DEF ArenaOK
  <1>2. s[i] \in BlockUse /\ [s[i] EXCEPT !.offset = end] \in BlockUse
    <2>1. s[i] \in BlockUse
      BY <1>1
    <2> QED
      BY <2>1 DEF BlockUse
  <1>3. t = [s EXCEPT ![i] = [s[i] EXCEPT !.offset = end]]
    OBVIOUS
  <1>4. /\ t \in Seq(BlockUse) /\ DOMAIN t = DOMAIN s
        /\ \A j \in DOMAIN s \ {i} : t[j] = s[j]
        /\ t[i] = [s[i] EXCEPT !.offset = end]
    BY <1>1, <1>2, <1>3
  <1>5. t[i].id = s[i].id /\ t[i].offset = end
    BY <1>2, <1>4 DEF BlockUse
  <1>6. w[a] = [blocks |-> t, current |-> i] /\ \A c \in Arena \ {a} : w[c] = u[c]
    BY DEF Cut, ArenaOK
  <1> HIDE DEF t
  <1>7. ArenaOK(w)
    BY <1>1, <1>4 DEF Cut, ArenaOK, t
  <1>8. w[a].blocks = t
    BY <1>6
  <1>9. \A c \in Arena : DOMAIN w[c].blocks = DOMAIN u[c].blocks
    BY <1>4, <1>6, <1>8
  <1>10. \A j \in DOMAIN s : t[j].id = s[j].id
    BY <1>4, <1>5
  <1>11. \A c \in Arena : \A j \in DOMAIN u[c].blocks : w[c].blocks[j].id = u[c].blocks[j].id
    BY <1>6, <1>8, <1>10
  <1> QED
    BY <1>4, <1>5, <1>6, <1>7, <1>8, <1>9, <1>11

\* No block changes its place.
LEMMA CutHomes ==
    ASSUME NEW u, ArenaOK(u), NEW a \in Arena, NEW i \in DOMAIN u[a].blocks, NEW end \in Nat,
           NEW h, NEW f, Homes(h, f, u)
    PROVE  Homes(h, f, Cut(u, a, i, end))
  <1> DEFINE w == Cut(u, a, i, end)
  <1>1. /\ \A c \in Arena : DOMAIN w[c].blocks = DOMAIN u[c].blocks
        /\ \A c \in Arena : \A j \in DOMAIN u[c].blocks : w[c].blocks[j].id = u[c].blocks[j].id
    BY CutBlocks
  <1> HIDE DEF w
  <1>2. \A b : \A c \in Arena : Uses(w, c, b) <=> Uses(u, c, b)
    BY <1>1 DEF Uses
  <1>3. Homes(h, f, w)
    BY <1>1, <1>2 DEF Homes
  <1> QED
    BY <1>3 DEF w

\* A range cut off the free end of a block lies apart from all the others.
LEMMA CutKeepsRanges ==
    ASSUME NEW h, HeapOK(h), NEW f, NEW u, ArenaOK(u), NEW v, LiveOK(v),
           Homes(h, f, u), WithinBlocks(h, u), Carved(u, v),
           NEW a \in Arena, NEW i \in DOMAIN u[a].blocks,
           NEW x \in Extent, x.block = u[a].blocks[i].id, x.from >= u[a].blocks[i].offset,
           x.from % x.alignment = 0, x.from + x.size <= h[x.block].capacity
    PROVE  /\ LiveOK(Noted(v, a, x))
           /\ WithinBlocks(h, Cut(u, a, i, x.from + x.size))
           /\ Carved(Cut(u, a, i, x.from + x.size), Noted(v, a, x))
  <1> DEFINE end == x.from + x.size
             w == Cut(u, a, i, end)
             z == Noted(v, a, x)
             n == Len(v[a]) + 1
  <1>1. end \in Nat /\ x.from \in Nat /\ x.size \in Nat
    BY DEF Extent
  <1>2. /\ ArenaOK(w)
        /\ \A c \in Arena \ {a} : w[c] = u[c]
        /\ \A c \in Arena : DOMAIN w[c].blocks = DOMAIN u[c].blocks
        /\ \A c \in Arena : \A j \in DOMAIN u[c].blocks : w[c].blocks[j].id = u[c].blocks[j].id
        /\ \A j \in DOMAIN u[a].blocks \ {i} : w[a].blocks[j] = u[a].blocks[j]
        /\ w[a].blocks[i].offset = end
    BY <1>1, CutBlocks
  <1>3. v[a] \in Seq(Extent) /\ z = [v EXCEPT ![a] = Append(v[a], x)]
    BY DEF LiveOK, Noted
  <1>4. /\ Append(v[a], x) \in Seq(Extent)
        /\ DOMAIN Append(v[a], x) = DOMAIN v[a] \cup {n}
        /\ \A k \in DOMAIN v[a] : Append(v[a], x)[k] = v[a][k]
        /\ Append(v[a], x)[n] = x
        /\ n \notin DOMAIN v[a]
    BY <1>3
  <1>5. /\ LiveOK(z)
        /\ \A c \in Arena \ {a} : z[c] = v[c]
        /\ DOMAIN z[a] = DOMAIN v[a] \cup {n}
        /\ \A k \in DOMAIN v[a] : z[a][k] = v[a][k]
        /\ z[a][n] = x
    BY <1>3, <1>4 DEF LiveOK
  <1>6. \A c \in Arena : \A j \in DOMAIN u[c].blocks : u[c].blocks[j].offset \in Nat
    BY BlockFields
  <1>7. \A c \in Arena : \A k \in DOMAIN v[c] : v[c][k].from \in Nat /\ v[c][k].size \in Nat
    BY ExtentFields
  <1> HIDE DEF end, w, z, n
  <1>8. \A c \in Arena : \A j \in DOMAIN u[c].blocks :
           w[c].blocks[j].offset \in Nat /\ w[c].blocks[j].offset >= u[c].blocks[j].offset
    BY <1>1, <1>2, <1>6 DEF end
  <1>9. WithinBlocks(h, w)
    BY <1>2 DEF WithinBlocks, end
  <1>10. \A k \in DOMAIN v[a] : Disjoint(v[a][k], x) /\ Disjoint(x, v[a][k])
    <2> SUFFICES ASSUME NEW k \in DOMAIN v[a], v[a][k].block = x.block
                 PROVE  v[a][k].from + v[a][k].size <= x.from
      BY DEF Disjoint
    <2>1. PICK j \in DOMAIN u[a].blocks :
             u[a].blocks[j].id = v[a][k].block /\ v[a][k].from + v[a][k].size <= u[a].blocks[j].offset
      BY DEF Carved
    <2>2. j = i
      BY <2>1 DEF Homes
    <2> QED
      BY <1>1, <1>6, <1>7, <2>1, <2>2
  <1>11. Carved(w, z)
    <2>1. ASSUME NEW c \in Arena, NEW k \in DOMAIN v[c]
          PROVE  \E j \in DOMAIN w[c].blocks :
                    w[c].blocks[j].id = v[c][k].block /\ v[c][k].from + v[c][k].size <= w[c].blocks[j].offset
      <3>1. PICK j \in DOMAIN u[c].blocks :
               u[c].blocks[j].id = v[c][k].block /\ v[c][k].from + v[c][k].size <= u[c].blocks[j].offset
        BY DEF Carved
      <3>2. v[c][k].from + v[c][k].size <= w[c].blocks[j].offset
        BY <1>6, <1>7, <1>8, <3>1
      <3> QED
        BY <1>2, <3>1, <3>2
    <2>2. \E j \in DOMAIN w[a].blocks : w[a].blocks[j].id = x.block /\ x.from + x.size <= w[a].blocks[j].offset
      BY <1>1, <1>2 DEF end
    <2>3. ASSUME NEW c \in Arena, NEW k \in DOMAIN z[c]
          PROVE  /\ \E j \in DOMAIN w[c].blocks :
                      w[c].blocks[j].id = z[c][k].block /\ z[c][k].from + z[c][k].size <= w[c].blocks[j].offset
                 /\ z[c][k].from % z[c][k].alignment = 0
                 /\ \A l \in DOMAIN z[c] : l # k => Disjoint(z[c][k], z[c][l])
      <3>1. CASE c # a
        BY <1>5, <2>1, <3>1 DEF Carved
      <3>2. CASE c = a /\ k = n
        BY <1>5, <1>10, <2>2, <3>2
      <3>3. CASE c = a /\ k # n
        <4>1. k \in DOMAIN v[a] /\ z[a][k] = v[a][k]
          BY <1>5, <3>3
        <4>2. \A l \in DOMAIN z[a] : l # k => Disjoint(z[a][k], z[a][l])
          BY <1>5, <1>10, <4>1 DEF Carved
        <4> QED
          BY <2>1, <3>3, <4>1, <4>2 DEF Carved
      <3> QED
        BY <3>1, <3>2, <3>3
    <2> QED
      BY <2>3 DEF Carved
  <1> QED
    BY <1>5, <1>9, <1>11 DEF end, w, z

-----------------------------------------------------------------------------
(* Arenas: the steps *)

\* What the requests are.
LEMMA RequestFields ==
    ASSUME NEW r \in Request
    PROVE  /\ r.size \in Nat \ {0} /\ r.alignment \in Nat \ {0} /\ BlockSize \in Nat \ {0}
           /\ Unit \in Nat \ {0} /\ MaxCachedBlocks \in Nat
  BY ArenasAssumption DEF A!ConstantsOK

\* A set of natural numbers that is not empty has a least member.
LEMMA LeastMember ==
    ASSUME NEW S, S \subseteq Nat, S # {}
    PROVE  A!Min(S) \in S
  <1>1. PICK x \in S : \A y \in S : ~ (<<y, x>> \in OpToRel(<, Nat))
    BY WFMin, NatLessThanWellFounded, Zenon
  <1>2. \A y \in S : ~ (y < x)
    BY <1>1 DEF OpToRel
  <1>3. \A y \in S : x <= y
    BY <1>2
  <1> QED
    BY <1>3 DEF A!Min

\* Bump, on the blocks an arena has or has just been given.
LEMMA BumpKeeps ==
    ASSUME NEW h, HeapOK(h), NEW f, NEW u, ArenaOK(u), ArenaOK(arena), LiveOK(live),
           Homes(h, f, u), WithinBlocks(h, u), Carved(u, live),
           NEW a \in Arena, \A c \in Arena \ {a} : u[c] = arena[c],
           NEW i \in DOMAIN u[a].blocks, NEW r \in Request,
           A!AlignUp(u[a].blocks[i].offset, r.alignment) + r.size <= h[u[a].blocks[i].id].capacity,
           A!Bump(a, u[a].blocks, i, r)
    PROVE  /\ ArenaOK(arena') /\ LiveOK(live')
           /\ Homes(h, f, arena') /\ WithinBlocks(h, arena') /\ Carved(arena', live')
           /\ \A c \in Arena \ {a} : live'[c] = live[c] /\ arena'[c] = arena[c]
  <1> DEFINE from == A!AlignUp(u[a].blocks[i].offset, r.alignment)
             x == [block |-> u[a].blocks[i].id, from |-> from, size |-> r.size, alignment |-> r.alignment]
  <1>1. u[a].blocks[i].id \in Block /\ u[a].blocks[i].offset \in Nat
    BY BlockFields
  <1>2. r.size \in Nat /\ r.alignment \in Nat \ {0}
    BY RequestFields
  <1>3. from \in Nat /\ from >= u[a].blocks[i].offset /\ from % r.alignment = 0
    BY <1>1, <1>2, AlignUpFits
  <1>4. /\ arena' = [arena EXCEPT ![a] = [blocks |-> [u[a].blocks EXCEPT ![i].offset = from + r.size],
                                          current |-> i]]
        /\ live' = Noted(live, a, x)
    BY DEF A!Bump, Noted
  <1> HIDE DEF from
  <1>5. arena' = Cut(u, a, i, from + r.size)
    BY <1>4 DEF Cut, ArenaOK
  <1>6. /\ x \in Extent /\ x.block = u[a].blocks[i].id /\ x.from = from /\ x.size = r.size
        /\ x.alignment = r.alignment
    BY <1>1, <1>2, <1>3 DEF Extent
  <1>7. x.from + x.size <= h[x.block].capacity
    BY <1>6 DEF from
  <1> HIDE DEF x
  <1>8. from + r.size \in Nat
    BY <1>2, <1>3
  <1>9. ArenaOK(arena') /\ Homes(h, f, arena')
    BY <1>5, <1>8, CutBlocks, CutHomes
  <1>10. LiveOK(live') /\ WithinBlocks(h, arena') /\ Carved(arena', live')
    <2>1. x.from >= u[a].blocks[i].offset /\ x.from % x.alignment = 0
      BY <1>3, <1>6
    <2>2. /\ LiveOK(Noted(live, a, x))
          /\ WithinBlocks(h, Cut(u, a, i, x.from + x.size))
          /\ Carved(Cut(u, a, i, x.from + x.size), Noted(live, a, x))
      BY <1>6, <1>7, <2>1, CutKeepsRanges
    <2>3. Cut(u, a, i, x.from + x.size) = arena'
      BY <1>5, <1>6
    <2> QED
      BY <1>4, <2>2, <2>3
  <1>11. \A c \in Arena \ {a} : live'[c] = live[c] /\ arena'[c] = arena[c]
    BY <1>4 DEF Noted, LiveOK, ArenaOK
  <1> QED
    BY <1>9, <1>10, <1>11

\* The calls are in order when one arena starts to grow.
LEMMA GrowCallsOK ==
    ASSUME CallsOK, NEW a \in Arena, NEW r \in Request, pc[a] = "idle",
           pc' = [pc EXCEPT ![a] = "grow"], asked' = [asked EXCEPT ![a] = r],
           UNCHANGED <<arena, live>>
    PROVE  CallsOK'
  BY DEF CallsOK

\* The calls are in order when an arena that is not growing any more hands out a
\* range.
LEMMA BumpCallsOK ==
    ASSUME CallsOK, NEW a \in Arena, pc[a] # "release",
           \/ pc[a] = "idle" /\ UNCHANGED <<pc, asked>>
           \/ pc' = [pc EXCEPT ![a] = "idle"] /\ asked' = [asked EXCEPT ![a] = A!NoRequest],
           \A c \in Arena \ {a} : live'[c] = live[c] /\ arena'[c] = arena[c]
    PROVE  CallsOK'
  BY DEF CallsOK

\* The blocks of an arena that has been given one are WithBlock of it.
LEMMA WithBlockIsGiven ==
    ASSUME ArenaOK(arena), NEW a \in Arena, NEW b \in Block
    PROVE  /\ A!WithBlock(a, b) = Given(arena, a, b)[a].blocks
           /\ Len(A!WithBlock(a, b)) = Len(arena[a].blocks) + 1
           /\ Len(A!WithBlock(a, b)) \in DOMAIN Given(arena, a, b)[a].blocks
           /\ Given(arena, a, b)[a].blocks[Len(A!WithBlock(a, b))] = [id |-> b, offset |-> 0]
  <1>1. A!WithBlock(a, b) = Given(arena, a, b)[a].blocks
    BY GivenType DEF A!WithBlock
  <1>2. Len(A!WithBlock(a, b)) = Len(arena[a].blocks) + 1
    <2>1. arena[a].blocks \in Seq(BlockUse) /\ [id |-> b, offset |-> 0] \in BlockUse
      BY DEF ArenaOK, BlockUse
    <2> QED
      BY <2>1 DEF A!WithBlock
  <1> QED
    BY <1>1, <1>2, GivenBlocks

\* An arena uses the current block or the first one after it with room.
LEMMA AllocateInPlace ==
    ASSUME ArenaInv, NEW a \in Arena, NEW r \in Request, A!Allocate(a, r), A!Usable(a, r) # {}
    PROVE  ArenaInv'
  <1> DEFINE i == A!Min(A!Usable(a, r))
  <1>1. /\ A!Bump(a, arena[a].blocks, i, r) /\ pc[a] = "idle"
        /\ UNCHANGED <<heap, freeBlocks, pc, asked, balance>>
    BY DEF A!Allocate
  <1>2. i \in A!Usable(a, r)
    <2>1. A!Usable(a, r) \subseteq Nat
      BY DEF ArenaInv, ArenaOK, A!Usable
    <2> QED
      BY <2>1, LeastMember
  <1>3. i \in DOMAIN arena[a].blocks /\ A!Fits(a, i, r)
    BY <1>2 DEF ArenaInv, ArenaOK, A!Usable
  <1> HIDE DEF i
  <1>4. /\ ArenaOK(arena') /\ LiveOK(live')
        /\ Homes(heap, freeBlocks, arena') /\ WithinBlocks(heap, arena') /\ Carved(arena', live')
        /\ \A c \in Arena \ {a} : live'[c] = live[c] /\ arena'[c] = arena[c]
    BY <1>1, <1>3, BumpKeeps DEF ArenaInv, A!Fits
  <1>5. CallsOK'
    BY <1>1, <1>4, BumpCallsOK DEF ArenaInv
  <1> QED
    BY <1>1, <1>4, <1>5 DEF ArenaInv, Counted

\* A block of the free list moves to the arena.
LEMMA AllocateFromPool ==
    ASSUME ArenaInv, NEW a \in Arena, NEW r \in Request, A!Allocate(a, r), A!Usable(a, r) = {},
           r.size + r.alignment <= BlockSize, freeBlocks # <<>>
    PROVE  ArenaInv'
  <1> DEFINE b == freeBlocks[Len(freeBlocks)]
             u == Given(arena, a, b)
             n == Len(A!WithBlock(a, b))
             rest == SubSeq(freeBlocks, 1, Len(freeBlocks) - 1)
  <1>1. /\ A!Bump(a, A!WithBlock(a, b), n, r) /\ pc[a] = "idle"
        /\ freeBlocks' = rest
        /\ UNCHANGED <<heap, pc, asked, balance>>
    BY DEF A!Allocate
  <1>2. freeBlocks \in Seq(Block) /\ Len(freeBlocks) \in Nat \ {0} /\ Len(freeBlocks) <= MaxCachedBlocks
    BY DEF ArenaInv, FreeOK
  <1>3. /\ rest \in Seq(Block) /\ Len(rest) = Len(freeBlocks) - 1
        /\ DOMAIN freeBlocks = DOMAIN rest \cup {Len(freeBlocks)}
        /\ Len(freeBlocks) \notin DOMAIN rest
        /\ \A k \in DOMAIN rest : rest[k] = freeBlocks[k]
        /\ b \in Block
    <2>1. rest \in Seq(Block) /\ Len(rest) = Len(freeBlocks) - 1
      <3> DEFINE m == Len(freeBlocks) - 1
      <3>1. \A k \in 1..Len(freeBlocks) - 1 : freeBlocks[k] \in Block
        BY <1>2
      <3>2. m \in Nat /\ 1 \in Int /\ m \in Int
        BY <1>2
      <3>3. rest = SubSeq(freeBlocks, 1, m)
        OBVIOUS
      <3> HIDE DEF m, rest
      <3>4. \A k \in 1..m : freeBlocks[k] \in Block
        BY <3>1 DEF m
      <3>5. /\ SubSeq(freeBlocks, 1, m) \in Seq(Block)
            /\ Len(SubSeq(freeBlocks, 1, m)) = IF 1 <= m THEN m - 1 + 1 ELSE 0
        BY <3>2, <3>4, SubSeqProperties
      <3>6. rest \in Seq(Block) /\ Len(rest) = IF 1 <= m THEN m - 1 + 1 ELSE 0
        BY <3>3, <3>5, Zenon
      <3>7. Len(rest) = m
        BY <3>2, <3>6
      <3> QED
        BY <3>6, <3>7 DEF m
    <2>2. \A k \in 1..Len(freeBlocks) - 1 : rest[k] = freeBlocks[k]
      BY <1>2
    <2>3. DOMAIN freeBlocks = 1..Len(freeBlocks) /\ DOMAIN rest = 1..Len(freeBlocks) - 1
      BY <1>2, <2>1
    <2>4. b \in Block
      BY <1>2
    <2> HIDE DEF rest, b
    <2> QED
      BY <1>2, <2>1, <2>2, <2>3, <2>4
  <1>4. IsFree(freeBlocks, b)
    BY <1>3 DEF IsFree
  <1>5. b \in DOMAIN heap /\ heap[b].pooled /\ heap[b].capacity = BlockSize
    BY <1>3, <1>4 DEF ArenaInv, Homes, HeapOK
  <1> HIDE DEF b, u, n, rest
  <1>6. \A c \in Arena : ~ Uses(arena, c, b)
    BY <1>4 DEF ArenaInv, Homes, Uses
  <1>7. \A k, l \in DOMAIN rest : rest[k] = rest[l] => k = l
    BY <1>3 DEF ArenaInv, Homes
  <1>8. \A x : IsFree(rest, x) <=> x # b /\ IsFree(freeBlocks, x)
    <2>1. \A k, l \in DOMAIN freeBlocks : freeBlocks[k] = freeBlocks[l] => k = l
      BY DEF ArenaInv, Homes
    <2>2. freeBlocks[Len(freeBlocks)] = b
      BY DEF b
    <2> QED
      BY <1>3, <2>1, <2>2 DEF IsFree
  <1>9. \A k \in DOMAIN rest : heap[rest[k]].pooled
    BY <1>3 DEF ArenaInv, Homes
  <1>10. ArenaOK(u) /\ Homes(heap, rest, u) /\ \A c \in Arena \ {a} : u[c] = arena[c]
    <2>1. ArenaOK(arena) /\ Homes(heap, freeBlocks, arena)
      BY DEF ArenaInv
    <2>2. \A x : x \in DOMAIN heap <=> x = b \/ x \in DOMAIN heap
      BY <1>5
    <2>3. Homes(heap, rest, u)
      BY <1>3, <1>6, <1>7, <1>8, <1>9, <2>1, <2>2, GivenHomes DEF u
    <2> QED
      BY <1>3, <2>1, <2>3, GivenType DEF u
  <1>11. WithinBlocks(heap, u) /\ Carved(u, live)
    BY <1>3, <1>5, RequestFields, GivenKeepsRanges DEF ArenaInv, u
  <1>12. /\ A!WithBlock(a, b) = u[a].blocks /\ n \in DOMAIN u[a].blocks
         /\ u[a].blocks[n] = [id |-> b, offset |-> 0]
    BY <1>3, WithBlockIsGiven DEF ArenaInv, u, n
  <1>13. u[a].blocks[n].id = b /\ u[a].blocks[n].offset = 0
    BY <1>12
  <1>14. A!AlignUp(u[a].blocks[n].offset, r.alignment) + r.size <= heap[u[a].blocks[n].id].capacity
    BY <1>5, <1>13, RequestFields, AlignUpZero
  <1>15. /\ ArenaOK(arena') /\ LiveOK(live')
         /\ Homes(heap, rest, arena') /\ WithinBlocks(heap, arena') /\ Carved(arena', live')
         /\ \A c \in Arena \ {a} : live'[c] = live[c] /\ arena'[c] = arena[c]
    BY <1>1, <1>10, <1>11, <1>12, <1>14, BumpKeeps DEF ArenaInv
  <1>16. FreeOK(freeBlocks')
    BY <1>1, <1>2, <1>3, RequestFields DEF FreeOK
  <1>17. CallsOK'
    BY <1>1, <1>15, BumpCallsOK DEF ArenaInv
  <1> QED
    BY <1>1, <1>15, <1>16, <1>17 DEF ArenaInv, Counted

\* Without room the request is noted, and nothing else happens under the lock.
LEMMA AllocateStartsToGrow ==
    ASSUME ArenaInv, NEW a \in Arena, NEW r \in Request, A!Allocate(a, r), A!Usable(a, r) = {},
           ~ (r.size + r.alignment <= BlockSize /\ freeBlocks # <<>>)
    PROVE  ArenaInv'
  <1>1. /\ pc[a] = "idle" /\ pc' = [pc EXCEPT ![a] = "grow"] /\ asked' = [asked EXCEPT ![a] = r]
        /\ UNCHANGED <<heap, freeBlocks, arena, live, balance>>
    BY DEF A!Allocate
  <1>2. CallsOK'
    BY <1>1, GrowCallsOK DEF ArenaInv
  <1> QED
    BY <1>1, <1>2 DEF ArenaInv, Counted

\* What a new block can hold: the common size, or a size rounded up for a large request.
Capacity(need) == IF need <= BlockSize THEN BlockSize ELSE A!AlignUp(need, Unit)

LEMMA CapacityIsEnough ==
    ASSUME NEW need \in Nat
    PROVE  Capacity(need) \in Nat /\ Capacity(need) >= need
  <1>1. BlockSize \in Nat /\ Unit \in Nat \ {0}
    BY ArenasAssumption DEF A!ConstantsOK
  <1>2. A!AlignUp(need, Unit) \in Nat /\ A!AlignUp(need, Unit) >= need
    BY <1>1, AlignUpFits
  <1> QED
    BY <1>1, <1>2 DEF Capacity

\* The system gives one more block.
Grown(h, b, x) == [c \in DOMAIN h \cup {b} |-> IF c = b THEN x ELSE h[c]]

LEMMA HeapGrows ==
    ASSUME NEW h, HeapOK(h), NEW b \in Block \ DOMAIN h,
           NEW x \in [capacity : Nat, pooled : BOOLEAN], x.pooled => x.capacity = BlockSize
    PROVE  /\ HeapOK(Grown(h, b, x))
           /\ Cardinality(DOMAIN Grown(h, b, x)) = Cardinality(DOMAIN h) + 1
           /\ DOMAIN Grown(h, b, x) = DOMAIN h \cup {b}
           /\ Grown(h, b, x)[b] = x
           /\ \A c \in DOMAIN h : Grown(h, b, x)[c] = h[c]
  <1> DEFINE g == Grown(h, b, x)
  <1>1. DOMAIN g = DOMAIN h \cup {b} /\ g[b] = x /\ \A c \in DOMAIN h : g[c] = h[c]
    BY DEF Grown
  <1>2. IsFiniteSet(DOMAIN g) /\ Cardinality(DOMAIN g) = Cardinality(DOMAIN h) + 1
    BY <1>1, FS_AddElement DEF HeapOK
  <1>3. g \in [DOMAIN g -> [capacity : Nat, pooled : BOOLEAN]]
    BY <1>1 DEF HeapOK, Grown
  <1>4. \A c \in DOMAIN g : g[c].pooled => g[c].capacity = BlockSize
    BY <1>1 DEF HeapOK
  <1>5. HeapOK(g)
    BY <1>1, <1>2, <1>3, <1>4 DEF HeapOK
  <1> QED
    BY <1>1, <1>2, <1>5

\* A growing arena gets a block of the system, large enough for its request.
LEMMA GrowKeeps ==
    ASSUME ArenaInv, NEW a \in Arena, A!Grow(a)
    PROVE  ArenaInv'
  <1> DEFINE r == asked[a]
             need == r.size + r.alignment
             x == [capacity |-> Capacity(need), pooled |-> need <= BlockSize]
  <1>1. /\ pc[a] = "grow"
        /\ \E b \in Block \ DOMAIN heap :
              /\ heap' = [c \in DOMAIN heap \cup {b} |-> IF c = b THEN x ELSE heap[c]]
              /\ A!Bump(a, A!WithBlock(a, b), Len(A!WithBlock(a, b)), r)
        /\ balance' = balance + 1
        /\ pc' = [pc EXCEPT ![a] = "idle"]
        /\ asked' = [asked EXCEPT ![a] = A!NoRequest]
        /\ UNCHANGED freeBlocks
    BY DEF A!Grow, Capacity
  <1>2. PICK b \in Block \ DOMAIN heap :
              /\ heap' = [c \in DOMAIN heap \cup {b} |-> IF c = b THEN x ELSE heap[c]]
              /\ A!Bump(a, A!WithBlock(a, b), Len(A!WithBlock(a, b)), r)
    BY <1>1
  <1> DEFINE u == Given(arena, a, b)
             n == Len(A!WithBlock(a, b))
  <1>3. r \in Request
    BY <1>1 DEF ArenaInv, CallsOK
  <1>4. r.size \in Nat /\ r.alignment \in Nat \ {0} /\ BlockSize \in Nat /\ need \in Nat /\ need >= r.size
    BY <1>3, RequestFields
  <1> HIDE DEF need, r
  <1>5. Capacity(need) \in Nat /\ Capacity(need) >= need
    BY <1>4, CapacityIsEnough
  <1>6. x.capacity = Capacity(need) /\ x.pooled = (need <= BlockSize)
    OBVIOUS
  <1>7. (need <= BlockSize) \in BOOLEAN
    OBVIOUS
  <1>8. x \in [capacity : Nat, pooled : BOOLEAN]
    BY <1>5, <1>7, Zenon
  <1>9. x.pooled => x.capacity = BlockSize
    BY <1>6 DEF Capacity
  <1> HIDE DEF x, u, n
  <1>10. /\ HeapOK(heap')
         /\ Cardinality(DOMAIN heap') = Cardinality(DOMAIN heap) + 1
         /\ DOMAIN heap' = DOMAIN heap \cup {b}
         /\ heap'[b] = x
         /\ \A c \in DOMAIN heap : heap'[c] = heap[c]
    <2>1. HeapOK(heap)
      BY DEF ArenaInv
    <2>2. heap' = Grown(heap, b, x)
      BY <1>2 DEF Grown
    <2>3. /\ HeapOK(Grown(heap, b, x))
          /\ Cardinality(DOMAIN Grown(heap, b, x)) = Cardinality(DOMAIN heap) + 1
          /\ DOMAIN Grown(heap, b, x) = DOMAIN heap \cup {b}
          /\ Grown(heap, b, x)[b] = x
          /\ \A c \in DOMAIN heap : Grown(heap, b, x)[c] = heap[c]
      BY <1>8, <1>9, <2>1, HeapGrows, Zenon
    <2> QED
      BY <2>2, <2>3
  <1>11. \A c \in Arena : ~ Uses(arena, c, b)
    BY DEF ArenaInv, Homes
  <1>12. ~ IsFree(freeBlocks, b)
    BY DEF ArenaInv, Homes
  <1>13. \A k \in DOMAIN freeBlocks : freeBlocks[k] \in DOMAIN heap /\ heap[freeBlocks[k]].pooled
    BY DEF ArenaInv, Homes, IsFree
  <1>14. ArenaOK(u) /\ Homes(heap', freeBlocks, u) /\ \A c \in Arena \ {a} : u[c] = arena[c]
    <2>1. ArenaOK(arena) /\ Homes(heap, freeBlocks, arena)
      BY DEF ArenaInv
    <2>2. \A y : y \in DOMAIN heap' <=> y = b \/ y \in DOMAIN heap
      BY <1>10
    <2>3. \A k, l \in DOMAIN freeBlocks : freeBlocks[k] = freeBlocks[l] => k = l
      BY <2>1 DEF Homes
    <2>4. \A y : IsFree(freeBlocks, y) <=> y # b /\ IsFree(freeBlocks, y)
      BY <1>12
    <2>5. \A k \in DOMAIN freeBlocks : heap'[freeBlocks[k]].pooled
      BY <1>10, <1>13
    <2>6. Homes(heap', freeBlocks, u)
      BY <1>11, <2>1, <2>2, <2>3, <2>4, <2>5, GivenHomes DEF u
    <2> QED
      BY <2>1, <2>6, GivenType DEF u
  <1>15. WithinBlocks(heap', u) /\ Carved(u, live)
    <2>1. heap'[b].capacity \in Nat
      BY <1>5, <1>6, <1>10
    <2>2. \A c \in Arena : \A i \in DOMAIN arena[c].blocks : arena[c].blocks[i].id \in DOMAIN heap
      BY DEF ArenaInv, Homes, Uses
    <2>3. \A c \in Arena : \A i \in DOMAIN arena[c].blocks :
             heap'[arena[c].blocks[i].id].capacity = heap[arena[c].blocks[i].id].capacity
      BY <1>10, <2>2
    <2> QED
      BY <2>1, <2>3, GivenKeepsRanges DEF ArenaInv, u
  <1>16. /\ A!WithBlock(a, b) = u[a].blocks /\ n \in DOMAIN u[a].blocks
         /\ u[a].blocks[n] = [id |-> b, offset |-> 0]
    BY WithBlockIsGiven DEF ArenaInv, u, n
  <1>17. u[a].blocks[n].id = b /\ u[a].blocks[n].offset = 0
    BY <1>16
  <1>18. A!AlignUp(u[a].blocks[n].offset, r.alignment) + r.size <= heap'[u[a].blocks[n].id].capacity
    BY <1>4, <1>5, <1>6, <1>10, <1>17, AlignUpZero
  <1>19. A!Bump(a, u[a].blocks, n, r)
    BY <1>2, <1>16 DEF n
  <1>20. /\ ArenaOK(arena') /\ LiveOK(live')
         /\ Homes(heap', freeBlocks, arena') /\ WithinBlocks(heap', arena') /\ Carved(arena', live')
         /\ \A c \in Arena \ {a} : live'[c] = live[c] /\ arena'[c] = arena[c]
    BY <1>3, <1>10, <1>14, <1>15, <1>16, <1>18, <1>19, BumpKeeps DEF ArenaInv
  <1>21. CallsOK'
    BY <1>1, <1>20, BumpCallsOK DEF ArenaInv
  <1>22. Counted'
    BY <1>1, <1>10 DEF ArenaInv, Counted
  <1> QED
    BY <1>1, <1>10, <1>20, <1>21, <1>22 DEF ArenaInv

\* Reset empties the blocks of an arena and forgets its ranges.
LEMMA ResetKeeps ==
    ASSUME ArenaInv, NEW a \in Arena, A!Reset(a)
    PROVE  ArenaInv'
  <1> DEFINE s == arena[a].blocks
             t == [i \in DOMAIN s |-> [s[i] EXCEPT !.offset = 0]]
  <1>1. /\ pc[a] = "idle"
        /\ arena' = [arena EXCEPT ![a] = [blocks |-> t, current |-> 1]]
        /\ live' = [live EXCEPT ![a] = <<>>]
        /\ UNCHANGED <<heap, freeBlocks, pc, asked, balance>>
    BY DEF A!Reset
  <1>2. s \in Seq(BlockUse) /\ DOMAIN s = 1..Len(s) /\ Len(s) \in Nat
    BY DEF ArenaInv, ArenaOK
  <1>3. \A i \in DOMAIN s : s[i] \in BlockUse
    BY <1>2
  <1>4. DOMAIN t = DOMAIN s /\ \A i \in DOMAIN s : t[i] = [s[i] EXCEPT !.offset = 0]
    OBVIOUS
  <1>5. \A i \in DOMAIN s : t[i] \in BlockUse /\ t[i].id = s[i].id /\ t[i].offset = 0
    BY <1>3, <1>4 DEF BlockUse
  <1>6. t \in Seq(BlockUse)
    <2>1. t \in [1..Len(s) -> BlockUse]
      BY <1>2, <1>5, Zenon
    <2> HIDE DEF t
    <2> QED
      BY <1>2, <2>1
  <1> HIDE DEF t
  <1>7. arena'[a].blocks = t /\ \A c \in Arena \ {a} : arena'[c] = arena[c]
    BY <1>1 DEF ArenaInv, ArenaOK
  <1>8. live'[a] = <<>> /\ \A c \in Arena \ {a} : live'[c] = live[c]
    BY <1>1 DEF ArenaInv, LiveOK
  <1>9. ArenaOK(arena')
    BY <1>1, <1>6 DEF ArenaInv, ArenaOK
  <1>10. LiveOK(live')
    BY <1>1 DEF ArenaInv, LiveOK
  <1>11. /\ \A c \in Arena : DOMAIN arena'[c].blocks = DOMAIN arena[c].blocks
         /\ \A c \in Arena : \A i \in DOMAIN arena[c].blocks : arena'[c].blocks[i].id = arena[c].blocks[i].id
    BY <1>4, <1>5, <1>7
  <1>12. Homes(heap, freeBlocks, arena')
    <2>1. \A b : \A c \in Arena : Uses(arena', c, b) <=> Uses(arena, c, b)
      BY <1>11 DEF Uses
    <2> QED
      BY <1>11, <2>1 DEF ArenaInv, Homes
  <1>13. WithinBlocks(heap, arena')
    <2>1. \A i \in DOMAIN s : heap[s[i].id].capacity \in Nat
      <3>1. \A i \in DOMAIN s : s[i].id \in DOMAIN heap
        BY DEF ArenaInv, Homes, Uses
      <3> QED
        BY <3>1 DEF ArenaInv, HeapOK
    <2>2. \A i \in DOMAIN arena'[a].blocks : arena'[a].blocks[i].offset <= heap[arena'[a].blocks[i].id].capacity
      BY <1>4, <1>5, <1>7, <2>1
    <2> QED
      BY <1>7, <2>2 DEF ArenaInv, WithinBlocks
  <1>14. Carved(arena', live')
    <2>1. DOMAIN live'[a] = {}
      BY <1>8
    <2> QED
      BY <1>7, <1>8, <2>1 DEF ArenaInv, Carved
  <1>15. CallsOK'
    BY <1>1, <1>7, <1>8 DEF ArenaInv, CallsOK
  <1> QED
    BY <1>1, <1>9, <1>10, <1>12, <1>13, <1>14, <1>15 DEF ArenaInv, Counted

\* An arena that starts to give its blocks back forgets its ranges.
LEMMA ReleaseKeeps ==
    ASSUME ArenaInv, NEW a \in Arena, A!Release(a)
    PROVE  ArenaInv'
  <1>1. /\ arena[a].blocks # <<>> /\ pc' = [pc EXCEPT ![a] = "release"]
        /\ live' = [live EXCEPT ![a] = <<>>]
        /\ UNCHANGED <<heap, freeBlocks, arena, asked, balance>>
    BY DEF A!Release
  <1>2. live'[a] = <<>> /\ \A c \in Arena \ {a} : live'[c] = live[c]
    BY <1>1 DEF ArenaInv, LiveOK
  <1>3. LiveOK(live')
    BY <1>1 DEF ArenaInv, LiveOK
  <1>4. DOMAIN live'[a] = {}
    BY <1>2
  <1>5. Carved(arena, live')
    BY <1>2, <1>4 DEF ArenaInv, Carved
  <1>6. CallsOK'
    BY <1>1, <1>2 DEF ArenaInv, CallsOK
  <1> QED
    BY <1>1, <1>3, <1>5, <1>6 DEF ArenaInv, Counted

-----------------------------------------------------------------------------
(* Arenas: an arena gives a block back *)

\* Arena a without its first block.
Without(u, a) == [u EXCEPT ![a] = [blocks |-> Tail(u[a].blocks), current |-> 1]]

\* Its blocks one by one.
LEMMA WithoutBlocks ==
    ASSUME NEW u, ArenaOK(u), NEW a \in Arena, u[a].blocks # <<>>
    PROVE  /\ ArenaOK(Without(u, a))
           /\ \A c \in Arena \ {a} : Without(u, a)[c] = u[c]
           /\ 1 \in DOMAIN u[a].blocks /\ Head(u[a].blocks) = u[a].blocks[1]
           /\ \A i \in DOMAIN Without(u, a)[a].blocks :
                 i + 1 \in DOMAIN u[a].blocks /\ i + 1 # 1 /\ Without(u, a)[a].blocks[i] = u[a].blocks[i + 1]
           /\ \A j \in DOMAIN u[a].blocks \ {1} :
                 \E i \in DOMAIN Without(u, a)[a].blocks :
                    j = i + 1 /\ Without(u, a)[a].blocks[i] = u[a].blocks[j]
  <1> DEFINE s == u[a].blocks
             t == Tail(s)
             w == Without(u, a)
  <1>1. s \in Seq(BlockUse) /\ s # <<>>
    BY DEF ArenaOK
  <1>2. /\ t \in Seq(BlockUse) /\ Head(s) = s[1] /\ Len(s) \in Nat \ {0}
        /\ Len(t) = Len(s) - 1 /\ DOMAIN s = 1..Len(s) /\ DOMAIN t = 1..Len(s) - 1
        /\ \A i \in 1..Len(s) - 1 : t[i] = s[i + 1]
    BY <1>1
  <1>3. w[a] = [blocks |-> t, current |-> 1] /\ \A c \in Arena \ {a} : w[c] = u[c]
    BY DEF Without, ArenaOK
  <1>4. ArenaOK(w)
    BY <1>2 DEF Without, ArenaOK
  <1>5. w[a].blocks = t
    BY <1>3
  <1> HIDE DEF t, w
  <1>6. 1 \in DOMAIN s /\ \A i \in DOMAIN t : i + 1 \in DOMAIN s /\ i + 1 # 1 /\ t[i] = s[i + 1]
    BY <1>2
  <1>7. \A j \in DOMAIN s \ {1} : \E i \in DOMAIN t : j = i + 1 /\ t[i] = s[j]
    <2> SUFFICES ASSUME NEW j \in DOMAIN s \ {1}
                 PROVE  j - 1 \in DOMAIN t /\ j = (j - 1) + 1 /\ t[j - 1] = s[j]
      OBVIOUS
    <2>1. j - 1 \in DOMAIN t /\ j = (j - 1) + 1
      BY <1>2
    <2> QED
      BY <1>6, <2>1
  <1>8. /\ \A i \in DOMAIN w[a].blocks : i + 1 \in DOMAIN s /\ i + 1 # 1 /\ w[a].blocks[i] = s[i + 1]
        /\ \A j \in DOMAIN s \ {1} : \E i \in DOMAIN w[a].blocks : j = i + 1 /\ w[a].blocks[i] = s[j]
    BY <1>5, <1>6, <1>7
  <1> QED
    BY <1>2, <1>3, <1>4, <1>6, <1>8, Zenon DEF w

\* The first block of an arena leaves it, for the free list (it is in "kept") or for the
\* system.
LEMMA WithoutHomes ==
    ASSUME NEW h, NEW f, NEW u, ArenaOK(u), Homes(h, f, u),
           NEW a \in Arena, u[a].blocks # <<>>,
           NEW kept, kept \subseteq {Head(u[a].blocks).id},
           NEW g, NEW e,
           \A i, j \in DOMAIN e : e[i] = e[j] => i = j,
           \A x : IsFree(e, x) <=> IsFree(f, x) \/ x \in kept,
           \A x : x \in DOMAIN g <=> x \in DOMAIN h /\ (x # Head(u[a].blocks).id \/ x \in kept),
           \A i \in DOMAIN e : g[e[i]].pooled
    PROVE  Homes(g, e, Without(u, a))
  <1> DEFINE b == Head(u[a].blocks).id
             w == Without(u, a)
             s == u[a].blocks
             t == w[a].blocks
  <1>1. /\ \A c \in Arena \ {a} : w[c] = u[c]
        /\ 1 \in DOMAIN s /\ b = s[1].id
        /\ \A i \in DOMAIN t : i + 1 \in DOMAIN s /\ i + 1 # 1 /\ t[i] = s[i + 1]
        /\ \A j \in DOMAIN s \ {1} : \E i \in DOMAIN t : j = i + 1 /\ t[i] = s[j]
    BY WithoutBlocks
  <1>2. \A i \in DOMAIN t : i \in Int
    <2>1. ArenaOK(w)
      BY WithoutBlocks
    <2> QED
      BY <2>1, BlockFields
  <1> HIDE DEF w, b
  <1>3. \A i \in DOMAIN t : t[i].id # b
    BY <1>1 DEF Homes
  <1>4. \A c, d \in Arena : \A i \in DOMAIN w[c].blocks : \A j \in DOMAIN w[d].blocks :
           w[c].blocks[i].id = w[d].blocks[j].id => c = d /\ i = j
    <2> SUFFICES ASSUME NEW c \in Arena, NEW d \in Arena,
                        NEW i \in DOMAIN w[c].blocks, NEW j \in DOMAIN w[d].blocks,
                        w[c].blocks[i].id = w[d].blocks[j].id
                 PROVE  c = d /\ i = j
      OBVIOUS
    <2>1. CASE c = a /\ d = a
      <3>1. i + 1 \in DOMAIN s /\ j + 1 \in DOMAIN s /\ s[i + 1].id = s[j + 1].id
        BY <1>1, <2>1
      <3>2. i + 1 = j + 1
        BY <3>1 DEF Homes
      <3> QED
        BY <1>2, <2>1, <3>2
    <2>2. CASE c = a /\ d # a
      <3>1. i + 1 \in DOMAIN s /\ j \in DOMAIN u[d].blocks /\ s[i + 1].id = u[d].blocks[j].id
        BY <1>1, <2>2
      <3> QED
        BY <2>2, <3>1 DEF Homes
    <2>3. CASE c # a /\ d = a
      <3>1. i \in DOMAIN u[c].blocks /\ j + 1 \in DOMAIN s /\ u[c].blocks[i].id = s[j + 1].id
        BY <1>1, <2>3
      <3> QED
        BY <2>3, <3>1 DEF Homes
    <2>4. CASE c # a /\ d # a
      BY <1>1, <2>4 DEF Homes
    <2> QED
      BY <2>1, <2>2, <2>3, <2>4
  <1>5. \A c \in Arena : \A i \in DOMAIN w[c].blocks : w[c].blocks[i].id # b /\ ~ IsFree(f, w[c].blocks[i].id)
    <2> SUFFICES ASSUME NEW c \in Arena, NEW i \in DOMAIN w[c].blocks
                 PROVE  w[c].blocks[i].id # b /\ ~ IsFree(f, w[c].blocks[i].id)
      OBVIOUS
    <2>1. CASE c = a
      BY <1>1, <1>3, <2>1 DEF Homes
    <2>2. CASE c # a
      BY <1>1, <2>2 DEF Homes
    <2> QED
      BY <2>1, <2>2
  <1>6. \A c \in Arena : \A i \in DOMAIN w[c].blocks : ~ IsFree(e, w[c].blocks[i].id)
    BY <1>5 DEF b
  <1>7. \A x : (\E c \in Arena : Uses(u, c, x)) <=> x = b \/ \E c \in Arena : Uses(w, c, x)
    <2>1. \A x : \A c \in Arena : Uses(w, c, x) => Uses(u, c, x)
      <3> SUFFICES ASSUME NEW x, NEW c \in Arena, NEW i \in DOMAIN w[c].blocks, w[c].blocks[i].id = x
                   PROVE  Uses(u, c, x)
        BY DEF Uses
      <3>1. CASE c = a
        BY <1>1, <3>1 DEF Uses
      <3>2. CASE c # a
        BY <1>1, <3>2 DEF Uses
      <3> QED
        BY <3>1, <3>2
    <2>2. \A x : \A c \in Arena : Uses(u, c, x) => x = b \/ Uses(w, c, x)
      <3> SUFFICES ASSUME NEW x, NEW c \in Arena, NEW i \in DOMAIN u[c].blocks, u[c].blocks[i].id = x, x # b
                   PROVE  Uses(w, c, x)
        BY DEF Uses
      <3>1. CASE c = a
        <4>1. i # 1
          BY <1>1, <3>1
        <4> QED
          BY <1>1, <3>1, <4>1 DEF Uses
      <3>2. CASE c # a
        BY <1>1, <3>2 DEF Uses
      <3> QED
        BY <3>1, <3>2
    <2>3. Uses(u, a, b)
      BY <1>1 DEF Uses
    <2> QED
      BY <2>1, <2>2, <2>3
  <1>8. \A x : x \in DOMAIN g <=> IsFree(e, x) \/ \E c \in Arena : Uses(w, c, x)
    <2>1. \A x : x \in DOMAIN h <=> IsFree(f, x) \/ \E c \in Arena : Uses(u, c, x)
      BY DEF Homes
    <2>2. ~ IsFree(f, b)
      BY <1>1 DEF Homes
    <2>3. \A c \in Arena : ~ Uses(w, c, b)
      BY <1>5 DEF Uses
    <2>4. \A x : x \in kept => x = b
      BY DEF b
    <2>5. \A x : x \in DOMAIN g <=> x \in DOMAIN h /\ (x # b \/ x \in kept)
      BY DEF b
    <2> QED
      BY <1>7, <2>1, <2>2, <2>3, <2>4, <2>5
  <1>9. Homes(g, e, w)
    BY <1>4, <1>6, <1>8 DEF Homes
  <1> QED
    BY <1>9 DEF w

\* An arena without a range gives its first block away: nothing changes for the ranges.
LEMMA WithoutKeepsRanges ==
    ASSUME NEW h, NEW u, ArenaOK(u), WithinBlocks(h, u), NEW v, Carved(u, v),
           NEW a \in Arena, u[a].blocks # <<>>, v[a] = <<>>,
           NEW g,
           \A c \in Arena : \A i \in DOMAIN Without(u, a)[c].blocks :
               g[Without(u, a)[c].blocks[i].id] = h[Without(u, a)[c].blocks[i].id]
    PROVE  WithinBlocks(g, Without(u, a)) /\ Carved(Without(u, a), v)
  <1> DEFINE w == Without(u, a)
             s == u[a].blocks
             t == w[a].blocks
  <1>1. /\ \A c \in Arena \ {a} : w[c] = u[c]
        /\ \A i \in DOMAIN t : i + 1 \in DOMAIN s /\ t[i] = s[i + 1]
    BY WithoutBlocks
  <1>2. DOMAIN v[a] = {}
    OBVIOUS
  <1>3. \A c \in Arena : \A i \in DOMAIN w[c].blocks : g[w[c].blocks[i].id] = h[w[c].blocks[i].id]
    OBVIOUS
  <1> HIDE DEF w
  <1>4. WithinBlocks(g, w)
    <2> SUFFICES ASSUME NEW c \in Arena, NEW i \in DOMAIN w[c].blocks
                 PROVE  w[c].blocks[i].offset <= h[w[c].blocks[i].id].capacity
      BY <1>3 DEF WithinBlocks
    <2>1. CASE c = a
      BY <1>1, <2>1 DEF WithinBlocks
    <2>2. CASE c # a
      BY <1>1, <2>2 DEF WithinBlocks
    <2> QED
      BY <2>1, <2>2
  <1>5. Carved(w, v)
    BY <1>1, <1>2 DEF Carved
  <1> QED
    BY <1>4, <1>5 DEF w

\* The system takes a block back.
Shrunk(h, b) == [c \in DOMAIN h \ {b} |-> h[c]]

LEMMA HeapShrinks ==
    ASSUME NEW h, HeapOK(h), NEW b \in DOMAIN h
    PROVE  /\ HeapOK(Shrunk(h, b))
           /\ Cardinality(DOMAIN Shrunk(h, b)) = Cardinality(DOMAIN h) - 1
           /\ DOMAIN Shrunk(h, b) = DOMAIN h \ {b}
           /\ \A c \in DOMAIN h \ {b} : Shrunk(h, b)[c] = h[c]
  <1> DEFINE g == Shrunk(h, b)
  <1>1. DOMAIN g = DOMAIN h \ {b} /\ \A c \in DOMAIN h \ {b} : g[c] = h[c]
    BY DEF Shrunk
  <1>2. IsFiniteSet(DOMAIN g) /\ Cardinality(DOMAIN g) = Cardinality(DOMAIN h) - 1
    BY <1>1, FS_RemoveElement DEF HeapOK
  <1>3. g \in [DOMAIN g -> [capacity : Nat, pooled : BOOLEAN]]
    BY <1>1 DEF HeapOK, Shrunk
  <1>4. \A c \in DOMAIN g : g[c].pooled => g[c].capacity = BlockSize
    BY <1>1 DEF HeapOK
  <1>5. HeapOK(g)
    BY <1>1, <1>2, <1>3, <1>4 DEF HeapOK
  <1> QED
    BY <1>1, <1>2, <1>5

\* What every step of Release does, and what it leaves of the invariant whether the pool
\* keeps the block or not.
LEMMA ReleaseBlockShape ==
    ASSUME ArenaInv, NEW a \in Arena, A!ReleaseBlock(a)
    PROVE  /\ pc[a] = "release" /\ arena[a].blocks # <<>> /\ live[a] = <<>>
           /\ arena' = Without(arena, a) /\ live' = live
           /\ Head(arena[a].blocks).id \in DOMAIN heap
           /\ ~ IsFree(freeBlocks, Head(arena[a].blocks).id)
           /\ ArenaOK(arena') /\ CallsOK'
  <1> DEFINE s == arena[a].blocks
             b == Head(s).id
  <1>1. /\ pc[a] = "release" /\ arena' = [arena EXCEPT ![a] = A!Rest(a)]
        /\ pc' = [pc EXCEPT ![a] = IF Len(s) = 1 THEN "idle" ELSE "release"]
        /\ UNCHANGED <<asked, live>>
    BY DEF A!ReleaseBlock
  <1>2. s # <<>> /\ live[a] = <<>> /\ ArenaOK(arena)
    BY <1>1 DEF ArenaInv, CallsOK
  <1>3. arena' = Without(arena, a)
    BY <1>1 DEF Without, A!Rest
  <1>4. 1 \in DOMAIN s /\ b = s[1].id
    BY <1>2, WithoutBlocks
  <1>5. ArenaOK(arena') /\ \A c \in Arena \ {a} : arena'[c] = arena[c]
    BY <1>2, <1>3, WithoutBlocks
  <1>6. b \in DOMAIN heap /\ ~ IsFree(freeBlocks, b)
    BY <1>4 DEF ArenaInv, Homes, Uses
  <1>7. Len(s) # 1 => arena'[a].blocks # <<>>
    <2>1. s \in Seq(BlockUse) /\ arena[a] \in [blocks : Seq(BlockUse), current : Nat \ {0}]
      BY <1>2 DEF ArenaOK
    <2>2. arena'[a] = [blocks |-> Tail(s), current |-> 1]
      BY <1>2, <1>3 DEF Without, ArenaOK
    <2>3. arena'[a].blocks = Tail(s)
      BY <2>2
    <2> HIDE DEF s
    <2>4. Len(s) # 1 => Tail(s) # <<>>
      <3>1. Len(s) \in Nat \ {0} /\ Len(Tail(s)) = Len(s) - 1
        BY <1>2, <2>1 DEF s
      <3>2. Len(<<>>) = 0
        OBVIOUS
      <3> QED
        BY <3>1, <3>2
    <2> QED
      BY <2>3, <2>4
  <1> HIDE DEF s
  <1>8. CallsOK'
    <2>1. /\ pc' \in [Arena -> {"idle", "grow", "release"}]
          /\ asked' \in [Arena -> Request \cup {A!NoRequest}]
      BY <1>1 DEF ArenaInv, CallsOK
    <2>2. \A c \in Arena \ {a} : pc'[c] = pc[c]
      BY <1>1 DEF ArenaInv, CallsOK
    <2>3. pc'[a] # "grow" /\ (pc'[a] = "release" => Len(s) # 1)
      BY <1>1 DEF ArenaInv, CallsOK
    <2>4. \A c \in Arena : pc'[c] = "grow" => asked'[c] \in Request
      BY <1>1, <2>2, <2>3 DEF ArenaInv, CallsOK
    <2>5. \A c \in Arena : pc'[c] = "release" => live'[c] = <<>> /\ arena'[c].blocks # <<>>
      BY <1>1, <1>2, <1>5, <1>7, <2>2, <2>3 DEF ArenaInv, CallsOK
    <2> QED
      BY <2>1, <2>4, <2>5 DEF CallsOK
  <1> QED
    BY <1>1, <1>2, <1>3, <1>5, <1>6, <1>8 DEF s

\* The pool keeps the block: it changes its place.
LEMMA ReleaseToPool ==
    ASSUME ArenaInv, NEW a \in Arena, A!ReleaseBlock(a),
           heap[Head(arena[a].blocks).id].pooled, Len(freeBlocks) < MaxCachedBlocks
    PROVE  ArenaInv'
  <1> DEFINE b == Head(arena[a].blocks).id
             f == Append(freeBlocks, b)
  <1>1. freeBlocks' = f /\ UNCHANGED <<heap, balance>>
    BY DEF A!ReleaseBlock
  <1>2. /\ arena[a].blocks # <<>> /\ live[a] = <<>>
        /\ arena' = Without(arena, a) /\ live' = live
        /\ b \in DOMAIN heap /\ ~ IsFree(freeBlocks, b)
        /\ ArenaOK(arena') /\ CallsOK'
    BY ReleaseBlockShape
  <1>3. /\ freeBlocks \in Seq(Block) /\ b \in Block /\ Len(freeBlocks) <= MaxCachedBlocks
        /\ DOMAIN heap \subseteq Block
    BY <1>2 DEF ArenaInv, FreeOK, HeapOK
  <1>4. heap[b].pooled
    OBVIOUS
  <1> HIDE DEF b
  <1>5. /\ f \in Seq(Block) /\ Len(f) = Len(freeBlocks) + 1
        /\ DOMAIN f = DOMAIN freeBlocks \cup {Len(freeBlocks) + 1}
        /\ \A k \in DOMAIN freeBlocks : f[k] = freeBlocks[k]
        /\ f[Len(freeBlocks) + 1] = b
        /\ Len(freeBlocks) + 1 \notin DOMAIN freeBlocks
    BY <1>3
  <1> HIDE DEF f
  <1>6. FreeOK(f)
    <2>1. MaxCachedBlocks \in Nat /\ Len(freeBlocks) \in Nat
      BY <1>3, ArenasAssumption DEF A!ConstantsOK
    <2> QED
      BY <1>5, <2>1 DEF FreeOK
  <1>7. \A i, j \in DOMAIN f : f[i] = f[j] => i = j
    BY <1>2, <1>5 DEF ArenaInv, Homes, IsFree
  <1>8. \A x : IsFree(f, x) <=> IsFree(freeBlocks, x) \/ x \in {b}
    BY <1>5 DEF IsFree
  <1>9. \A i \in DOMAIN f : heap[f[i]].pooled
    BY <1>4, <1>5 DEF ArenaInv, Homes
  <1>10. \A x : x \in DOMAIN heap <=> x \in DOMAIN heap /\ (x # b \/ x \in {b})
    OBVIOUS
  <1>11. Homes(heap, f, arena')
    <2>1. ArenaOK(arena) /\ Homes(heap, freeBlocks, arena) /\ {b} \subseteq {b}
      BY DEF ArenaInv
    <2> QED
      BY <1>2, <1>7, <1>8, <1>9, <1>10, <2>1, WithoutHomes DEF b
  <1>12. WithinBlocks(heap, arena') /\ Carved(arena', live')
    BY <1>2, WithoutKeepsRanges DEF ArenaInv
  <1> QED
    BY <1>1, <1>2, <1>6, <1>11, <1>12 DEF ArenaInv, Counted

\* The pool is full, or the block is a large one: the system takes it back.
LEMMA ReleaseToSystem ==
    ASSUME ArenaInv, NEW a \in Arena, A!ReleaseBlock(a),
           ~ (heap[Head(arena[a].blocks).id].pooled /\ Len(freeBlocks) < MaxCachedBlocks)
    PROVE  ArenaInv'
  <1> DEFINE b == Head(arena[a].blocks).id
  <1>1. heap' = Shrunk(heap, b) /\ balance' = balance - 1 /\ UNCHANGED freeBlocks
    BY DEF A!ReleaseBlock, Shrunk
  <1>2. /\ arena[a].blocks # <<>> /\ live[a] = <<>>
        /\ arena' = Without(arena, a) /\ live' = live
        /\ b \in DOMAIN heap /\ ~ IsFree(freeBlocks, b)
        /\ ArenaOK(arena') /\ CallsOK'
    BY ReleaseBlockShape
  <1>3. HeapOK(heap) /\ ArenaOK(arena) /\ Homes(heap, freeBlocks, arena)
    BY DEF ArenaInv
  <1> HIDE DEF b
  <1>4. /\ HeapOK(heap')
        /\ Cardinality(DOMAIN heap') = Cardinality(DOMAIN heap) - 1
        /\ DOMAIN heap' = DOMAIN heap \ {b}
        /\ \A c \in DOMAIN heap \ {b} : heap'[c] = heap[c]
    BY <1>1, <1>2, <1>3, HeapShrinks
  <1>5. \A k \in DOMAIN freeBlocks : freeBlocks[k] \in DOMAIN heap \ {b}
    BY <1>2, <1>3 DEF Homes, IsFree
  <1>6. \A k \in DOMAIN freeBlocks : heap'[freeBlocks[k]].pooled
    BY <1>3, <1>4, <1>5 DEF Homes
  <1>7. Homes(heap', freeBlocks, arena')
    <2>1. \A i, j \in DOMAIN freeBlocks : freeBlocks[i] = freeBlocks[j] => i = j
      BY <1>3 DEF Homes
    <2> DEFINE kept == {}
    <2>2. \A x : IsFree(freeBlocks, x) <=> IsFree(freeBlocks, x) \/ x \in kept
      OBVIOUS
    <2>3. \A x : x \in DOMAIN heap' <=> x \in DOMAIN heap /\ (x # b \/ x \in kept)
      BY <1>4
    <2>4. kept \subseteq {b}
      OBVIOUS
    <2> HIDE DEF kept
    <2> QED
      BY <1>2, <1>3, <1>6, <2>1, <2>2, <2>3, <2>4, WithoutHomes DEF b
  <1>8. \A c \in Arena : \A i \in DOMAIN arena'[c].blocks : arena'[c].blocks[i].id \in DOMAIN heap \ {b}
    <2>1. \A c \in Arena : \A i \in DOMAIN arena'[c].blocks : arena'[c].blocks[i].id \in DOMAIN heap'
      BY <1>7 DEF Homes, Uses
    <2> QED
      BY <1>4, <2>1
  <1>9. WithinBlocks(heap', arena') /\ Carved(arena', live')
    <2>1. \A c \in Arena : \A i \in DOMAIN Without(arena, a)[c].blocks :
             heap'[Without(arena, a)[c].blocks[i].id] = heap[Without(arena, a)[c].blocks[i].id]
      BY <1>2, <1>4, <1>8
    <2> QED
      BY <1>2, <2>1, WithoutKeepsRanges DEF ArenaInv
  <1>10. Counted'
    BY <1>1, <1>4 DEF ArenaInv, Counted
  <1> QED
    BY <1>1, <1>2, <1>4, <1>7, <1>9, <1>10 DEF ArenaInv

-----------------------------------------------------------------------------
(* Arenas: the invariant of a query *)

\* Nothing is taken from the system yet.
LEMMA ArenasStart ==
    ASSUME A!Init
    PROVE  ArenaInv
  <1>1. /\ heap = [b \in {} |-> A!NoRequest] /\ freeBlocks = <<>>
        /\ arena = [a \in Arena |-> A!Empty] /\ pc = [a \in Arena |-> "idle"]
        /\ asked = [a \in Arena |-> A!NoRequest] /\ live = [a \in Arena |-> <<>>] /\ balance = 0
    BY DEF A!Init
  <1>2. DOMAIN heap = {} /\ DOMAIN freeBlocks = {} /\ Len(freeBlocks) = 0
    BY <1>1
  <1>3. \A a \in Arena : arena[a] = A!Empty /\ arena[a].blocks = <<>> /\ DOMAIN arena[a].blocks = {}
    BY <1>1 DEF A!Empty
  <1>4. \A a \in Arena : live[a] = <<>> /\ DOMAIN live[a] = {}
    BY <1>1
  <1>5. HeapOK(heap)
    <2>1. heap \in [{} -> [capacity : Nat, pooled : BOOLEAN]]
      BY <1>1
    <2> QED
      BY <1>2, <2>1, FS_EmptySet DEF HeapOK
  <1>6. FreeOK(freeBlocks)
    BY <1>1, <1>2, ArenasAssumption DEF FreeOK, A!ConstantsOK
  <1>7. ArenaOK(arena)
    <2>1. A!Empty \in [blocks : Seq(BlockUse), current : Nat \ {0}]
      BY DEF A!Empty
    <2> QED
      BY <1>1, <2>1 DEF ArenaOK
  <1>8. LiveOK(live)
    BY <1>1 DEF LiveOK
  <1>9. CallsOK
    BY <1>1 DEF CallsOK
  <1>10. Homes(heap, freeBlocks, arena)
    BY <1>2, <1>3 DEF Homes, IsFree, Uses
  <1>11. WithinBlocks(heap, arena) /\ Carved(arena, live)
    BY <1>3, <1>4 DEF WithinBlocks, Carved
  <1>12. Counted
    BY <1>1, <1>2, FS_EmptySet DEF Counted
  <1> QED
    BY <1>5, <1>6, <1>7, <1>8, <1>9, <1>10, <1>11, <1>12 DEF ArenaInv

\* Every step of an arena, in any order of the arenas, keeps the invariant.
LEMMA ArenasStep ==
    ASSUME ArenaInv, A!Next
    PROVE  ArenaInv'
  <1>1. PICK a \in Arena :
           \/ \E r \in Request : A!Allocate(a, r)
           \/ A!Grow(a)
           \/ A!Reset(a)
           \/ A!Release(a)
           \/ A!ReleaseBlock(a)
    BY DEF A!Next
  <1>2. ASSUME NEW r \in Request, A!Allocate(a, r)
        PROVE  ArenaInv'
    <2>1. CASE A!Usable(a, r) # {}
      BY <1>2, <2>1, AllocateInPlace
    <2>2. CASE A!Usable(a, r) = {} /\ r.size + r.alignment <= BlockSize /\ freeBlocks # <<>>
      BY <1>2, <2>2, AllocateFromPool
    <2>3. CASE A!Usable(a, r) = {} /\ ~ (r.size + r.alignment <= BlockSize /\ freeBlocks # <<>>)
      BY <1>2, <2>3, AllocateStartsToGrow
    <2> QED
      BY <2>1, <2>2, <2>3
  <1>3. CASE A!Grow(a)
    BY <1>3, GrowKeeps
  <1>4. CASE A!Reset(a)
    BY <1>4, ResetKeeps
  <1>5. CASE A!Release(a)
    BY <1>5, ReleaseKeeps
  <1>6. CASE A!ReleaseBlock(a)
    <2>1. CASE heap[Head(arena[a].blocks).id].pooled /\ Len(freeBlocks) < MaxCachedBlocks
      BY <1>6, <2>1, ReleaseToPool
    <2>2. CASE ~ (heap[Head(arena[a].blocks).id].pooled /\ Len(freeBlocks) < MaxCachedBlocks)
      BY <1>6, <2>2, ReleaseToSystem
    <2> QED
      BY <2>1, <2>2
  <1> QED
    BY <1>1, <1>2, <1>3, <1>4, <1>5, <1>6

\* The arenas keep their invariant through a query, whichever memory the query works on:
\* the free list is changed under the lock of the block pool alone, each arena by its own
\* thread alone (arena.cpp, block_pool.cpp).
THEOREM ArenasStayConsistent == QuerySpec => []ArenaInv
  <1>1. QueryInit => ArenaInv
    BY ArenasStart DEF QueryInit
  <1>2. ArenaInv /\ [QueryNext]_allVars => ArenaInv'
    <2> SUFFICES ASSUME ArenaInv, [QueryNext]_allVars
                 PROVE  ArenaInv'
      OBVIOUS
    <2>1. CASE A!Next
      BY <2>1, ArenasStep
    <2>2. CASE UNCHANGED arenaVars
      BY <2>2 DEF arenaVars, ArenaInv, CallsOK, Counted
    <2> QED
      BY <2>1, <2>2 DEF QueryNext, allVars
  <1> QED
    BY <1>1, <1>2, PTL DEF QuerySpec

\* Two ranges handed out share a byte only if they are one: the blocks of two arenas
\* differ, and those of one arena are cut from the left.
LEMMA InvGivesApart ==
    ASSUME ArenaInv
    PROVE  RangesApart
  <1> SUFFICES ASSUME NEW a \in Arena, NEW k \in DOMAIN live[a]
               PROVE  /\ \E i \in DOMAIN arena[a].blocks : arena[a].blocks[i].id = live[a][k].block
                      /\ live[a][k].from + live[a][k].size <= heap[live[a][k].block].capacity
                      /\ live[a][k].from % live[a][k].alignment = 0
                      /\ \A c \in Arena : \A l \in DOMAIN live[c] :
                            live[a][k].block = live[c][l].block /\ <<a, k>> # <<c, l>> =>
                               a = c /\ Disjoint(live[a][k], live[c][l])
    BY DEF RangesApart, A!RangesApart, Disjoint
  <1>1. ArenaOK(arena) /\ LiveOK(live) /\ Carved(arena, live) /\ WithinBlocks(heap, arena)
    BY DEF ArenaInv
  <1>2. PICK i \in DOMAIN arena[a].blocks :
           /\ arena[a].blocks[i].id = live[a][k].block
           /\ live[a][k].from + live[a][k].size <= arena[a].blocks[i].offset
    BY <1>1 DEF Carved
  <1>3. live[a][k].from \in Nat /\ live[a][k].size \in Nat
    BY <1>1, ExtentFields
  <1>4. arena[a].blocks[i].offset \in Nat
    BY <1>1, BlockFields
  <1>5. heap[live[a][k].block].capacity \in Nat
    <2>1. live[a][k].block \in DOMAIN heap
      BY <1>2 DEF ArenaInv, Homes, Uses
    <2> QED
      BY <2>1 DEF ArenaInv, HeapOK
  <1>6. live[a][k].from + live[a][k].size <= heap[live[a][k].block].capacity
    <2>1. arena[a].blocks[i].offset <= heap[live[a][k].block].capacity
      BY <1>1, <1>2 DEF WithinBlocks
    <2> QED
      BY <1>2, <1>3, <1>4, <1>5, <2>1
  <1>7. ASSUME NEW c \in Arena, NEW l \in DOMAIN live[c],
               live[a][k].block = live[c][l].block, <<a, k>> # <<c, l>>
        PROVE  a = c /\ Disjoint(live[a][k], live[c][l])
    <2>1. PICK j \in DOMAIN arena[c].blocks : arena[c].blocks[j].id = live[c][l].block
      BY <1>1 DEF Carved
    <2>2. a = c
      BY <1>2, <1>7, <2>1 DEF ArenaInv, Homes
    <2> QED
      BY <1>1, <1>7, <2>2 DEF Carved
  <1> QED
    BY <1>1, <1>2, <1>6, <1>7 DEF Carved

\* No byte of the memory of an aggregate is handed out twice, at any number of arenas,
\* blocks and requests (Arena::Allocate, Reset, Release; BlockPool::Allocate, Free).
THEOREM RangesStayApart == QuerySpec => []RangesApart
  BY ArenasStayConsistent, InvGivesApart, PTL

\* Where a block is.
LEMMA PlacesOf ==
    ASSUME ArenaInv, NEW b
    PROVE  Cardinality(A!Places(b)) = IF b \in DOMAIN heap THEN 1 ELSE 0
  <1> DEFINE P == A!Places(b)
  <1>1. \A x : x \in P <=>
           \/ \E i \in DOMAIN freeBlocks : freeBlocks[i] = b /\ x = <<"free", i>>
           \/ \E a \in Arena : \E i \in DOMAIN arena[a].blocks : arena[a].blocks[i].id = b /\ x = <<a, i>>
    BY DEF A!Places
  <1> HIDE DEF P
  <1>2. b \in DOMAIN heap <=> IsFree(freeBlocks, b) \/ \E a \in Arena : Uses(arena, a, b)
    BY DEF ArenaInv, Homes
  <1>3. CASE IsFree(freeBlocks, b)
    <2>1. PICK i \in DOMAIN freeBlocks : freeBlocks[i] = b
      BY <1>3 DEF IsFree
    <2>2. \A a \in Arena : \A j \in DOMAIN arena[a].blocks : arena[a].blocks[j].id # b
      BY <1>3 DEF ArenaInv, Homes
    <2>3. \A j \in DOMAIN freeBlocks : freeBlocks[j] = b => j = i
      BY <2>1 DEF ArenaInv, Homes
    <2>4. P = {<<"free", i>>}
      BY <1>1, <2>1, <2>2, <2>3
    <2> QED
      BY <1>2, <1>3, <2>4, FS_Singleton DEF P
  <1>4. CASE ~ IsFree(freeBlocks, b) /\ \E a \in Arena : Uses(arena, a, b)
    <2>0. PICK a \in Arena : Uses(arena, a, b)
      BY <1>4
    <2>1. PICK i \in DOMAIN arena[a].blocks : arena[a].blocks[i].id = b
      BY <2>0 DEF Uses
    <2>2. \A c \in Arena : \A j \in DOMAIN arena[c].blocks : arena[c].blocks[j].id = b => c = a /\ j = i
      BY <2>1 DEF ArenaInv, Homes
    <2>3. \A j \in DOMAIN freeBlocks : freeBlocks[j] # b
      BY <1>4 DEF IsFree
    <2>4. P = {<<a, i>>}
      BY <1>1, <2>1, <2>2, <2>3
    <2> QED
      BY <1>2, <1>4, <2>4, FS_Singleton DEF P
  <1>5. CASE ~ IsFree(freeBlocks, b) /\ ~ \E a \in Arena : Uses(arena, a, b)
    <2>1. P = {}
      BY <1>1, <1>5 DEF IsFree, Uses
    <2> QED
      BY <1>2, <1>5, <2>1, FS_EmptySet DEF P
  <1> QED
    BY <1>3, <1>4, <1>5

\* The instance counts as this module does.
LEMMA SameCardinality ==
    ASSUME NEW S
    PROVE  A!Cardinality(S) = Cardinality(S)
  BY Zenon DEF A!Cardinality, Cardinality

\* The rest is part of the invariant.
LEMMA InvGivesAccounts ==
    ASSUME ArenaInv
    PROVE  BlocksAccounted
  <1>1. \A b \in Block : Cardinality(A!Places(b)) = IF b \in DOMAIN heap THEN 1 ELSE 0
    BY PlacesOf
  <1>2. Len(freeBlocks) <= MaxCachedBlocks /\ balance = Cardinality(DOMAIN heap)
    BY DEF ArenaInv, FreeOK, Counted
  <1>3. \A i \in DOMAIN freeBlocks :
           heap[freeBlocks[i]].pooled /\ heap[freeBlocks[i]].capacity = BlockSize
    BY DEF ArenaInv, HeapOK, Homes, IsFree
  <1> QED
    BY <1>1, <1>2, <1>3, SameCardinality DEF BlocksAccounted, A!BlocksAccounted

\* No block is lost or given back twice, the free list stays below its limit and serves
\* blocks of the common size only, and the two counters differ by the blocks there are.
THEOREM BlocksStayAccounted == QuerySpec => []BlocksAccounted
  BY ArenasStayConsistent, InvGivesAccounts, PTL

-----------------------------------------------------------------------------
(* Batches: who keeps which buffer *)

\* No two keepers of one buffer, and what is kept is what the system gave.
Apart(K, S) ==
    /\ \A x, y \in K : x[2] = y[2] => x = y
    /\ \A x \in K : x[2] \in S
    /\ \A b \in S : \E x \in K : x[2] = b

\* OneOwner says it of every keeper.
LEMMA OneOwnerIsApart == OneOwner <=> Apart(Keepers, allocated)
  BY DEF OneOwner, Apart

\* A buffer of the system that nobody keeps finds a keeper.
LEMMA ApartGiven ==
    ASSUME NEW K, NEW S, Apart(K, S), NEW z, z[2] \notin S
    PROVE  Apart(K \cup {z}, S \cup {z[2]})
  BY DEF Apart

\* It changes hands.
LEMMA ApartMoved ==
    ASSUME NEW K, NEW S, Apart(K, S), NEW x \in K, NEW z, z[2] = x[2]
    PROVE  Apart((K \ {x}) \cup {z}, S)
  BY DEF Apart

\* It goes back to the system.
LEMMA ApartLost ==
    ASSUME NEW K, NEW S, Apart(K, S), NEW x \in K
    PROVE  Apart(K \ {x}, S \ {x[2]})
  BY DEF Apart

\* Every keeper changes its place and none its buffer.
LEMMA ApartRelocated ==
    ASSUME NEW K, NEW L, NEW S, Apart(K, S), NEW f,
           \A x \in K : f[x] \in L /\ f[x][2] = x[2],
           \A y \in L : \E x \in K : y = f[x]
    PROVE  Apart(L, S)
  BY DEF Apart

\* The keepers among the batches of a family.
LEMMA KeptMember ==
    ASSUME NEW name, NEW f, NEW x
    PROVE  x \in KeptBy(name, f) <=>
              \E k \in DOMAIN f : \E i \in Owned(f[k]) : x = <<<<name, k, i>>, f[k].columns[i].buffer>>
  BY DEF KeptBy

\* Each keeper carries the name of its family.
LEMMA KeptTag ==
    ASSUME NEW name, NEW f, NEW x \in KeptBy(name, f)
    PROVE  x[1][1] = name
  BY KeptMember

\* The keepers among the free lists.
LEMMA FreeMember ==
    ASSUME NEW x
    PROVE  x \in KeptFree <=> \E c \in Class : \E i \in DOMAIN free[c] : x = <<<<"free", c, i>>, free[c][i]>>
  BY DEF KeptFree

\* Family g is family f but for column i of batch p.
OneColumn(f, g, p, i) ==
    /\ DOMAIN g = DOMAIN f /\ p \in DOMAIN f
    /\ \A k \in DOMAIN f : k # p => g[k] = f[k]
    /\ DOMAIN g[p].columns = DOMAIN f[p].columns /\ i \in DOMAIN f[p].columns
    /\ \A j \in DOMAIN f[p].columns : j # i => g[p].columns[j] = f[p].columns[j]

\* A column that owned nothing becomes a keeper.
LEMMA KeptGained ==
    ASSUME NEW name, NEW f, NEW g, NEW p, NEW i, OneColumn(f, g, p, i),
           f[p].columns[i].class = View, g[p].columns[i].class # View
    PROVE  KeptBy(name, g) = KeptBy(name, f) \cup {<<<<name, p, i>>, g[p].columns[i].buffer>>}
  <1>1. \A k \in DOMAIN f : k # p => Owned(g[k]) = Owned(f[k]) /\ g[k] = f[k]
    BY DEF OneColumn
  <1>2. Owned(g[p]) = Owned(f[p]) \cup {i} /\ i \notin Owned(f[p])
    BY DEF OneColumn, Owned
  <1>3. \A j \in Owned(f[p]) : g[p].columns[j] = f[p].columns[j]
    BY DEF OneColumn, Owned
  <1>4. DOMAIN g = DOMAIN f /\ p \in DOMAIN f
    BY DEF OneColumn
  <1>5. ASSUME NEW x \in KeptBy(name, g)
        PROVE  x \in KeptBy(name, f) \cup {<<<<name, p, i>>, g[p].columns[i].buffer>>}
    BY <1>1, <1>2, <1>3, <1>4, <1>5, KeptMember
  <1>6. ASSUME NEW x \in KeptBy(name, f) \cup {<<<<name, p, i>>, g[p].columns[i].buffer>>}
        PROVE  x \in KeptBy(name, g)
    BY <1>1, <1>2, <1>3, <1>4, <1>6, KeptMember
  <1> QED
    BY <1>5, <1>6

\* A column that owned a buffer is one no more.
LEMMA KeptLost ==
    ASSUME NEW name, NEW f, NEW g, NEW p, NEW i, OneColumn(f, g, p, i),
           f[p].columns[i].class # View, g[p].columns[i].class = View
    PROVE  /\ KeptBy(name, g) = KeptBy(name, f) \ {<<<<name, p, i>>, f[p].columns[i].buffer>>}
           /\ <<<<name, p, i>>, f[p].columns[i].buffer>> \in KeptBy(name, f)
  <1>1. \A k \in DOMAIN f : k # p => Owned(g[k]) = Owned(f[k]) /\ g[k] = f[k]
    BY DEF OneColumn
  <1>2. Owned(g[p]) = Owned(f[p]) \ {i} /\ i \in Owned(f[p])
    BY DEF OneColumn, Owned
  <1>3. \A j \in Owned(g[p]) : g[p].columns[j] = f[p].columns[j]
    BY <1>2 DEF OneColumn, Owned
  <1>4. DOMAIN g = DOMAIN f /\ p \in DOMAIN f
    BY DEF OneColumn
  <1>5. ASSUME NEW x \in KeptBy(name, g)
        PROVE  x \in KeptBy(name, f) \ {<<<<name, p, i>>, f[p].columns[i].buffer>>}
    BY <1>1, <1>2, <1>3, <1>4, <1>5, KeptMember
  <1>6. ASSUME NEW x \in KeptBy(name, f) \ {<<<<name, p, i>>, f[p].columns[i].buffer>>}
        PROVE  x \in KeptBy(name, g)
    BY <1>1, <1>2, <1>3, <1>4, <1>6, KeptMember
  <1> QED
    BY <1>2, <1>4, <1>5, <1>6, KeptMember

\* A batch that owns nothing may be replaced by another.
LEMMA KeptSame ==
    ASSUME NEW name, NEW f, NEW g, DOMAIN g = DOMAIN f,
           \A k \in DOMAIN f : g[k] = f[k] \/ (Owned(f[k]) = {} /\ Owned(g[k]) = {})
    PROVE  KeptBy(name, g) = KeptBy(name, f)
  <1>1. \A x : x \in KeptBy(name, g) <=> x \in KeptBy(name, f)
    BY KeptMember
  <1> QED
    BY <1>1

-----------------------------------------------------------------------------
(* Batches: the pool *)

OwnedColumn == [buffer : Buffer, class : {Direct} \cup Class]
ViewColumn  == [buffer : {Mapped, NoBuffer} \cup Buffer, class : {View}]
Column      == OwnedColumn \cup ViewColumn
Batch       == [columns : Seq(Column), number : Nat]

PoolOK ==
    /\ allocated \subseteq Buffer
    /\ free \in [Class -> Seq(Buffer)]
    /\ holds \in [Buffer -> Nat]

\* The numbers of the bounds.
LEMMA Bounds ==
    /\ {Buffers, Classes, MaxCached, Slots, MaxBatches, Queue} \subseteq Nat
    /\ Direct \notin Class /\ View \notin Class /\ View # Direct
    /\ Mapped \notin Buffer /\ NoBuffer \notin Buffer /\ Mapped # NoBuffer
  BY BatchBuffersAssumption DEF Direct, View, Mapped, NoBuffer, Class, Buffer

\* The last buffer of a free list leaves it.
LEMMA FreePopped ==
    ASSUME PoolOK, NEW c \in Class, free[c] # <<>>,
           free' = [free EXCEPT ![c] = SubSeq(@, 1, Len(@) - 1)]
    PROVE  /\ free' \in [Class -> Seq(Buffer)]
           /\ <<<<"free", c, Len(free[c])>>, free[c][Len(free[c])]>> \in KeptFree
           /\ KeptFree' = KeptFree \ {<<<<"free", c, Len(free[c])>>, free[c][Len(free[c])]>>}
  <1> DEFINE s == free[c]
             t == SubSeq(s, 1, Len(s) - 1)
             out == <<<<"free", c, Len(s)>>, s[Len(s)]>>
  <1>1. s \in Seq(Buffer) /\ s # <<>>
    BY DEF PoolOK
  <1> HIDE DEF s
  <1>2. Len(s) \in Nat \ {0} /\ DOMAIN s = 1..Len(s)
    BY <1>1, EmptySeq, LenProperties
  <1>3. \A i \in 1..(Len(s) - 1) : s[i] \in Buffer
    BY <1>1, <1>2, ElementOfSeq
  <1>4. /\ t \in Seq(Buffer) /\ Len(t) = Len(s) - 1
        /\ \A i \in 1..(Len(s) - 1) : t[i] = s[i]
    BY <1>2, <1>3, SubSeqProperties
  <1> HIDE DEF t
  <1>5. DOMAIN t = 1..(Len(s) - 1)
    BY <1>4, LenProperties
  <1>6. free' = [free EXCEPT ![c] = t]
    BY DEF s, t
  <1>7. free' \in [Class -> Seq(Buffer)]
    BY <1>4, <1>6 DEF PoolOK
  <1>8. \A x : x \in KeptFree' <=> \E d \in Class : \E i \in DOMAIN free'[d] : x = <<<<"free", d, i>>, free'[d][i]>>
    BY DEF KeptFree
  <1>9. free'[c] = t /\ \A d \in Class : d # c => free'[d] = free[d]
    BY <1>6 DEF PoolOK
  <1>10. out \in KeptFree
    <2>1. Len(s) \in DOMAIN s
      BY <1>2
    <2> QED
      BY <2>1, FreeMember DEF s
  <1>11. ASSUME NEW x \in KeptFree'
         PROVE  x \in KeptFree \ {out}
    <2>1. PICK d \in Class, i \in Nat : i \in DOMAIN free'[d] /\ x = <<<<"free", d, i>>, free'[d][i]>>
      <3>1. \A d \in Class : \A i \in DOMAIN free'[d] : i \in Nat
        BY <1>7, LenProperties
      <3> QED
        BY <1>8, <1>11, <3>1
    <2>2. CASE d = c
      <3>0. i \in 1..(Len(s) - 1)
        BY <1>5, <1>9, <2>1, <2>2
      <3>1. i \in DOMAIN s /\ i # Len(s)
        <4>1. \A n \in Nat : i \in 1..(n - 1) => i \in 1..n /\ i # n
          OBVIOUS
        <4>2. Len(s) \in Nat
          BY <1>2
        <4>3. i \in 1..Len(s) /\ i # Len(s)
          BY <3>0, <4>1, <4>2
        <4> QED
          BY <1>2, <4>3
      <3>2. free'[d][i] = s[i]
        BY <1>4, <1>9, <2>2, <3>0
      <3> QED
        BY <2>1, <2>2, <3>1, <3>2, FreeMember DEF s
    <2>3. CASE d # c
      BY <1>9, <2>1, <2>3, FreeMember
    <2> QED
      BY <2>2, <2>3
  <1>12. ASSUME NEW x \in KeptFree \ {out}
         PROVE  x \in KeptFree'
    <2>1. PICK d \in Class, i \in Nat : i \in DOMAIN free[d] /\ x = <<<<"free", d, i>>, free[d][i]>>
      <3>1. \A d \in Class : \A i \in DOMAIN free[d] : i \in Nat
        BY LenProperties DEF PoolOK
      <3> QED
        BY <1>12, <3>1, FreeMember
    <2>2. CASE d = c
      <3>1. i \in DOMAIN t /\ free'[d][i] = s[i]
        BY <1>2, <1>4, <1>5, <1>9, <1>12, <2>1, <2>2 DEF s
      <3> QED
        BY <1>8, <1>9, <2>1, <2>2, <3>1 DEF s
    <2>3. CASE d # c
      BY <1>8, <1>9, <2>1, <2>3
    <2> QED
      BY <2>2, <2>3
  <1> QED
    BY <1>7, <1>10, <1>11, <1>12 DEF s

\* A buffer is added at the end of a free list.
LEMMA FreePushed ==
    ASSUME PoolOK, NEW c \in Class, NEW b \in Buffer,
           free' = [free EXCEPT ![c] = Append(@, b)]
    PROVE  /\ free' \in [Class -> Seq(Buffer)]
           /\ KeptFree' = KeptFree \cup {<<<<"free", c, Len(free[c]) + 1>>, b>>}
  <1> DEFINE s == free[c]
             t == Append(s, b)
             in == <<<<"free", c, Len(s) + 1>>, b>>
  <1>1. s \in Seq(Buffer)
    BY DEF PoolOK
  <1> HIDE DEF s
  <1>2. Len(s) \in Nat /\ DOMAIN s = 1..Len(s)
    BY <1>1, LenProperties
  <1>4. /\ t \in Seq(Buffer) /\ Len(t) = Len(s) + 1
        /\ \A i \in 1..Len(s) : t[i] = s[i]
        /\ t[Len(s) + 1] = b
    BY <1>1, AppendProperties
  <1> HIDE DEF t
  <1>5. DOMAIN t = 1..(Len(s) + 1)
    BY <1>4, LenProperties
  <1>6. free' = [free EXCEPT ![c] = t]
    BY DEF s, t
  <1>7. free' \in [Class -> Seq(Buffer)]
    BY <1>4, <1>6 DEF PoolOK
  <1>8. \A x : x \in KeptFree' <=> \E d \in Class : \E i \in DOMAIN free'[d] : x = <<<<"free", d, i>>, free'[d][i]>>
    BY DEF KeptFree
  <1>9. free'[c] = t /\ \A d \in Class : d # c => free'[d] = free[d]
    BY <1>6 DEF PoolOK
  <1>10. in \in KeptFree'
    <2>1. Len(s) + 1 \in DOMAIN t
      BY <1>2, <1>5
    <2> QED
      BY <1>4, <1>8, <1>9, <2>1
  <1>11. ASSUME NEW x \in KeptFree'
         PROVE  x \in KeptFree \cup {in}
    <2>1. PICK d \in Class, i \in Nat : i \in DOMAIN free'[d] /\ x = <<<<"free", d, i>>, free'[d][i]>>
      <3>1. \A d \in Class : \A i \in DOMAIN free'[d] : i \in Nat
        BY <1>7, LenProperties
      <3> QED
        BY <1>8, <1>11, <3>1
    <2>2. CASE d = c /\ i = Len(s) + 1
      BY <1>4, <1>9, <2>1, <2>2
    <2>3. CASE d = c /\ i # Len(s) + 1
      <3>1. i \in DOMAIN s /\ free'[d][i] = s[i]
        BY <1>2, <1>4, <1>5, <1>9, <2>1, <2>3
      <3> QED
        BY <2>1, <2>3, <3>1, FreeMember DEF s
    <2>4. CASE d # c
      BY <1>9, <2>1, <2>4, FreeMember
    <2> QED
      BY <2>2, <2>3, <2>4
  <1>12. ASSUME NEW x \in KeptFree
         PROVE  x \in KeptFree'
    <2>1. PICK d \in Class, i \in Nat : i \in DOMAIN free[d] /\ x = <<<<"free", d, i>>, free[d][i]>>
      <3>1. \A d \in Class : \A i \in DOMAIN free[d] : i \in Nat
        BY LenProperties DEF PoolOK
      <3> QED
        BY <1>12, <3>1, FreeMember
    <2>2. CASE d = c
      <3>1. i \in DOMAIN t /\ free'[d][i] = s[i]
        BY <1>2, <1>4, <1>5, <1>9, <2>1, <2>2 DEF s
      <3> QED
        BY <1>8, <1>9, <2>1, <2>2, <3>1 DEF s
    <2>3. CASE d # c
      BY <1>8, <1>9, <2>1, <2>3
    <2> QED
      BY <2>2, <2>3
  <1> QED
    BY <1>7, <1>10, <1>11, <1>12 DEF s

\* BufferPool::Acquire serves a new keeper, whoever the others are.
LEMMA AcquireApart ==
    ASSUME PoolOK, NEW b \in Buffer, NEW class \in {Direct} \cup Class, Acquire(b, class),
           NEW K, Apart(K \cup KeptFree, allocated), \A x \in K : x[1][1] # "free",
           NEW z, z[2] = b
    PROVE  /\ Apart(K \cup {z} \cup KeptFree', allocated')
           /\ \A x \in K : x[2] # b
           /\ allocated' \subseteq Buffer
           /\ free' \in [Class -> Seq(Buffer)]
  <1>1. CASE Hit(class)
    <2> DEFINE out == <<<<"free", class, Len(free[class])>>, free[class][Len(free[class])]>>
    <2>1. /\ class \in Class /\ free[class] # <<>>
          /\ b = free[class][Len(free[class])] /\ allocated' = allocated
          /\ free' = [free EXCEPT ![class] = SubSeq(@, 1, Len(@) - 1)]
      BY <1>1 DEF Acquire, Hit
    <2>2. /\ free' \in [Class -> Seq(Buffer)] /\ out \in KeptFree
          /\ KeptFree' = KeptFree \ {out}
      BY <2>1, FreePopped
    <2>3. out[1][1] = "free" /\ out[2] = b
      BY <2>1
    <2> HIDE DEF out
    <2>4. Apart(((K \cup KeptFree) \ {out}) \cup {z}, allocated)
      BY <2>2, <2>3, ApartMoved
    <2>5. ((K \cup KeptFree) \ {out}) \cup {z} = K \cup {z} \cup KeptFree'
      BY <2>2, <2>3
    <2>6. \A x \in K : x[2] # b
      BY <2>2, <2>3 DEF Apart
    <2> QED
      BY <2>1, <2>2, <2>4, <2>5, <2>6 DEF PoolOK
  <1>2. CASE ~ Hit(class)
    <2>1. b \notin allocated /\ allocated' = allocated \cup {b} /\ free' = free
      BY <1>2 DEF Acquire
    <2>2. KeptFree' = KeptFree
      BY <2>1 DEF KeptFree
    <2>3. Apart((K \cup KeptFree) \cup {z}, allocated \cup {b})
      BY <2>1, ApartGiven
    <2>4. (K \cup KeptFree) \cup {z} = K \cup {z} \cup KeptFree'
      BY <2>2
    <2>5. \A x \in K : x[2] # b
      BY <2>1 DEF Apart
    <2> QED
      BY <2>1, <2>3, <2>4, <2>5 DEF PoolOK
  <1> QED
    BY <1>1, <1>2

\* BufferPool::Release takes a keeper away, whoever the others are.
LEMMA GiveBackApart ==
    ASSUME PoolOK, NEW column \in OwnedColumn, GiveBack(column),
           NEW K, Apart(K \cup KeptFree, allocated), \A x \in K : x[1][1] # "free",
           NEW z \in K, z[2] = column.buffer
    PROVE  /\ Apart((K \ {z}) \cup KeptFree', allocated')
           /\ \A x \in K : x # z => x[2] # column.buffer
           /\ PoolOK'
  <1> DEFINE b == column.buffer
             class == column.class
  <1>1. b \in Buffer /\ class \in {Direct} \cup Class
    BY DEF OwnedColumn
  <1>2. holds' = [holds EXCEPT ![b] = Stale]
    BY DEF GiveBack
  <1>3. holds' \in [Buffer -> Nat]
    BY <1>1, <1>2 DEF PoolOK, Stale
  <1>4. \A x \in K : x # z => x[2] # b
    BY DEF Apart
  <1>5. CASE Cacheable(class)
    <2> DEFINE in == <<<<"free", class, Len(free[class]) + 1>>, b>>
    <2>1. class \in Class /\ free' = [free EXCEPT ![class] = Append(@, b)] /\ allocated' = allocated
      BY <1>1, <1>5 DEF GiveBack, Cacheable
    <2>2. free' \in [Class -> Seq(Buffer)] /\ KeptFree' = KeptFree \cup {in}
      BY <1>1, <2>1, FreePushed
    <2>3. in[2] = b
      OBVIOUS
    <2> HIDE DEF in
    <2>4. Apart(((K \cup KeptFree) \ {z}) \cup {in}, allocated)
      BY <2>3, ApartMoved
    <2>5. z \notin KeptFree
      <3>1. \A x \in KeptFree : x[1][1] = "free"
        BY FreeMember
      <3> QED
        BY <3>1
    <2>6. ((K \cup KeptFree) \ {z}) \cup {in} = (K \ {z}) \cup KeptFree'
      BY <2>2, <2>5
    <2> QED
      BY <1>3, <1>4, <2>1, <2>2, <2>4, <2>6 DEF PoolOK
  <1>6. CASE ~ Cacheable(class)
    <2>1. allocated' = allocated \ {b} /\ free' = free
      BY <1>6 DEF GiveBack
    <2>2. KeptFree' = KeptFree
      BY <2>1 DEF KeptFree
    <2>3. Apart((K \cup KeptFree) \ {z}, allocated \ {b})
      BY ApartLost
    <2>4. z \notin KeptFree
      <3>1. \A x \in KeptFree : x[1][1] = "free"
        BY FreeMember
      <3> QED
        BY <3>1
    <2>5. (K \cup KeptFree) \ {z} = (K \ {z}) \cup KeptFree'
      BY <2>2, <2>4
    <2> QED
      BY <1>3, <1>4, <2>1, <2>3, <2>5 DEF PoolOK
  <1> QED
    BY <1>5, <1>6

-----------------------------------------------------------------------------
(* Batches: a column is filled or given back *)

Places == Thread \X Part

BatchesOK ==
    /\ hand \in [Places -> Batch]
    /\ queue \in Seq(Batch)
    /\ chunks \in Seq(Batch)

\* Every buffer that a batch of the family owns was filled for that batch.
InTime(h, f) == \A k \in DOMAIN f : \A i \in Owned(f[k]) : h[f[k].columns[i].buffer] = f[k].number

FilledFor == InTime(holds, hand) /\ InTime(holds, queue) /\ InTime(holds, chunks)

\* The keepers that are columns.
Columns == KeptBy("hand", hand) \cup KeptBy("queue", queue) \cup KeptBy("chunk", chunks)

\* The keepers are the columns and the free lists, and no column is taken for a free list.
LEMMA ColumnsKeep ==
    /\ Keepers = Columns \cup KeptFree
    /\ \A x \in Columns : x[1][1] # "free"
  BY KeptTag DEF Keepers, Columns

\* What another column does with its buffer concerns no batch.
LEMMA InTimeElsewhere ==
    ASSUME NEW name, NEW f, NEW h \in [Buffer -> Nat], InTime(h, f), NEW b, NEW n,
           \A x \in KeptBy(name, f) : x[2] \in Buffer /\ x[2] # b
    PROVE  InTime([h EXCEPT ![b] = n], f)
  <1> SUFFICES ASSUME NEW k \in DOMAIN f, NEW i \in Owned(f[k])
               PROVE  [h EXCEPT ![b] = n][f[k].columns[i].buffer] = f[k].number
    BY DEF InTime
  <1> DEFINE c == f[k].columns[i].buffer
             x == <<<<name, k, i>>, c>>
  <1>1. x \in KeptBy(name, f)
    BY KeptMember
  <1>2. x[2] = c
    OBVIOUS
  <1>3. c \in Buffer /\ c # b
    BY <1>1, <1>2
  <1>4. h[c] = f[k].number
    BY DEF InTime
  <1> HIDE DEF c
  <1>5. [h EXCEPT ![b] = n][c] = h[c]
    BY <1>3
  <1> QED
    BY <1>4, <1>5 DEF c

\* A column of a batch is replaced.
Replaced(f, p, i, c) == [f EXCEPT ![p].columns[i] = c]

\* Replacing a column leaves a family of batches, different in that column.
LEMMA ColumnReplaced ==
    ASSUME NEW K, NEW f \in [K -> Batch], NEW p \in K,
           NEW i \in DOMAIN f[p].columns, NEW c \in Column,
           NEW g, g = Replaced(f, p, i, c)
    PROVE  /\ g \in [K -> Batch] /\ OneColumn(f, g, p, i)
           /\ g[p].columns[i] = c /\ g[p].number = f[p].number
  <1> DEFINE s == f[p].columns
             d == [s EXCEPT ![i] = c]
  <1>1. f[p] \in Batch
    OBVIOUS
  <1>2. s \in Seq(Column) /\ f[p].number \in Nat
    BY <1>1 DEF Batch
  <1> HIDE DEF Column
  <1>3. i \in 1..Len(s) /\ DOMAIN s = 1..Len(s)
    <2>1. DOMAIN s = 1..Len(s)
      BY <1>2, LenProperties
    <2> QED
      BY <2>1
  <1>4. /\ d \in Seq(Column) /\ Len(d) = Len(s)
        /\ \A j \in 1..Len(s) : d[j] = IF j = i THEN c ELSE s[j]
    BY <1>2, <1>3, ExceptSeq
  <1>5. DOMAIN d = DOMAIN s
    BY <1>3, <1>4, LenProperties
  <1>6. g = [f EXCEPT ![p] = [f[p] EXCEPT !.columns = d]]
    BY DEF Replaced
  <1> HIDE DEF d
  <1>7. /\ [f[p] EXCEPT !.columns = d] \in Batch
        /\ [f[p] EXCEPT !.columns = d].columns = d
        /\ [f[p] EXCEPT !.columns = d].number = f[p].number
    BY <1>1, <1>4 DEF Batch
  <1>8. /\ g \in [K -> Batch] /\ g[p].columns = d /\ g[p].number = f[p].number
        /\ \A k \in K : k # p => g[k] = f[k]
    BY <1>6, <1>7
  <1>9. OneColumn(f, g, p, i) /\ g[p].columns[i] = c
    BY <1>3, <1>4, <1>5, <1>8 DEF OneColumn
  <1> QED
    BY <1>8, <1>9

\* ColumnData::Resize, on a column without a handle, fills it for its batch and disturbs
\* nobody else.
LEMMA FillKeeps ==
    ASSUME PoolOK, BatchesOK, OneOwner, FilledFor,
           NEW t \in Thread, NEW part \in Part, NEW i \in DOMAIN hand[<<t, part>>].columns, NEW size,
           hand[<<t, part>>].columns[i].class = View,
           Fill(t, part, i, size, hand[<<t, part>>].number),
           UNCHANGED <<queue, chunks>>
    PROVE  /\ PoolOK' /\ BatchesOK' /\ OneOwner' /\ FilledFor'
           /\ OneColumn(hand, hand', <<t, part>>, i)
           /\ hand'[<<t, part>>].columns[i] \in OwnedColumn
           /\ hand'[<<t, part>>].number = hand[<<t, part>>].number
  <1> DEFINE p == <<t, part>>
             class == ClassOf(size)
             n == hand[p].number
  <1>1. PICK b \in Buffer :
           /\ Acquire(b, class)
           /\ holds' = [holds EXCEPT ![b] = n]
           /\ hand' = [hand EXCEPT ![p].columns[i] = [buffer |-> b, class |-> class]]
    BY DEF Fill
  <1> DEFINE column == [buffer |-> b, class |-> class]
             z == <<<<"hand", p, i>>, b>>
  <1>2. class \in {Direct} \cup Class
    BY DEF ClassOf
  <1>3. column \in OwnedColumn /\ column \in Column /\ column.buffer = b /\ column.class # View
    BY <1>2, Bounds DEF OwnedColumn, Column
  <1>4. p \in Places /\ hand \in [Places -> Batch]
    BY DEF BatchesOK, Places
  <1>5. n \in Nat
    BY <1>4 DEF Batch
  <1> HIDE DEF p, class, column
  <1>6. /\ hand' \in [Places -> Batch] /\ OneColumn(hand, hand', p, i)
        /\ hand'[p].columns[i] = column /\ hand'[p].number = n
    <2>1. hand' = Replaced(hand, p, i, column) /\ i \in DOMAIN hand[p].columns
      BY <1>1 DEF p, column, Replaced
    <2> HIDE DEF Column, Batch
    <2> QED
      BY <1>3, <1>4, <2>1, ColumnReplaced
  <1>7. KeptBy("hand", hand') = KeptBy("hand", hand) \cup {<<<<"hand", p, i>>, hand'[p].columns[i].buffer>>}
    BY <1>3, <1>6, KeptGained DEF p
  <1>8. Columns' = Columns \cup {z}
    BY <1>3, <1>6, <1>7 DEF Columns
  <1>9. Apart(Columns \cup KeptFree, allocated)
    BY ColumnsKeep, OneOwnerIsApart
  <1>10. z[2] = b
    OBVIOUS
  <1> HIDE DEF z
  <1>11. /\ Apart(Columns \cup {z} \cup KeptFree', allocated')
         /\ \A x \in Columns : x[2] # b
         /\ allocated' \subseteq Buffer
         /\ free' \in [Class -> Seq(Buffer)]
    BY <1>1, <1>2, <1>9, <1>10, ColumnsKeep, AcquireApart
  <1>12. OneOwner'
    <2>1. Keepers' = Columns \cup {z} \cup KeptFree'
      BY <1>8 DEF Keepers, Columns
    <2>2. Apart(Keepers', allocated')
      BY <1>11, <2>1
    <2> QED
      BY <2>2 DEF OneOwner, Apart
  <1>13. PoolOK'
    BY <1>1, <1>5, <1>11 DEF PoolOK
  <1>14. BatchesOK'
    BY <1>6 DEF BatchesOK
  <1>15. \A x \in Columns : x[2] \in Buffer /\ x[2] # b
    BY <1>9, <1>11 DEF Apart, PoolOK
  <1>16. InTime(holds', hand) /\ InTime(holds', queue) /\ InTime(holds', chunks)
    <2>1. /\ \A x \in KeptBy("hand", hand) : x[2] \in Buffer /\ x[2] # b
          /\ \A x \in KeptBy("queue", queue) : x[2] \in Buffer /\ x[2] # b
          /\ \A x \in KeptBy("chunk", chunks) : x[2] \in Buffer /\ x[2] # b
      BY <1>15 DEF Columns
    <2>2. holds \in [Buffer -> Nat]
      BY DEF PoolOK
    <2> QED
      BY <1>1, <2>1, <2>2, InTimeElsewhere DEF FilledFor
  <1>17. InTime(holds', hand')
    <2> SUFFICES ASSUME NEW k \in DOMAIN hand', NEW j \in Owned(hand'[k])
                 PROVE  holds'[hand'[k].columns[j].buffer] = hand'[k].number
      BY DEF InTime
    <2>1. CASE k = p /\ j = i
      <3>1. holds'[b] = n
        BY <1>1 DEF PoolOK
      <3> QED
        BY <1>3, <1>6, <2>1, <3>1
    <2>2. CASE ~ (k = p /\ j = i)
      <3>1. k \in DOMAIN hand /\ j \in Owned(hand[k]) /\ hand'[k].columns[j] = hand[k].columns[j]
            /\ hand'[k].number = hand[k].number
        BY <1>6, <2>2 DEF OneColumn, Owned
      <3> QED
        BY <1>16, <3>1 DEF InTime
    <2> QED
      BY <2>1, <2>2
  <1> QED
    BY <1>3, <1>6, <1>12, <1>13, <1>14, <1>16, <1>17 DEF FilledFor, p

\* What a column of a batch in somebody's hands gave back is no longer its own.
LEMMA ClearKeeps ==
    ASSUME PoolOK, BatchesOK, OneOwner, FilledFor,
           NEW p \in Places, NEW i \in Owned(hand[p]),
           GiveBack(hand[p].columns[i]),
           hand' = Replaced(hand, p, i, Blank),
           UNCHANGED <<queue, chunks>>
    PROVE  /\ PoolOK' /\ BatchesOK' /\ OneOwner' /\ FilledFor'
           /\ OneColumn(hand, hand', p, i)
           /\ hand'[p].columns[i] = Blank
           /\ hand'[p].number = hand[p].number
  <1> DEFINE column == hand[p].columns[i]
             b == column.buffer
             z == <<<<"hand", p, i>>, b>>
  <1>1. hand \in [Places -> Batch] /\ i \in DOMAIN hand[p].columns /\ column.class # View
    BY DEF BatchesOK, Owned
  <1>2. column \in OwnedColumn
    <2>1. hand[p].columns \in Seq(Column)
      BY <1>1 DEF Batch
    <2>2. column \in Column
      <3> HIDE DEF Column
      <3> QED
        BY <1>1, <2>1, LenProperties, ElementOfSeq
    <2> QED
      BY <1>1, <2>2 DEF Column, ViewColumn
  <1>3. Blank \in Column /\ Blank.class = View
    BY DEF Blank, Borrowed, Column, ViewColumn
  <1>4. /\ hand' \in [Places -> Batch] /\ OneColumn(hand, hand', p, i)
        /\ hand'[p].columns[i] = Blank /\ hand'[p].number = hand[p].number
    <2> HIDE DEF Column, Batch
    <2> QED
      BY <1>1, <1>3, ColumnReplaced
  <1>5. /\ KeptBy("hand", hand') = KeptBy("hand", hand) \ {z}
        /\ z \in KeptBy("hand", hand)
    <2>1. OneColumn(hand, hand', p, i) /\ hand[p].columns[i].class # View /\ hand'[p].columns[i].class = View
      BY <1>1, <1>3, <1>4
    <2> QED
      BY <2>1, KeptLost
  <1>6. z[1][1] = "hand" /\ z[2] = b
    OBVIOUS
  <1> HIDE DEF z
  <1>7. z \notin KeptBy("queue", queue) /\ z \notin KeptBy("chunk", chunks)
    BY <1>6, KeptTag
  <1>8. Columns' = Columns \ {z} /\ z \in Columns
    BY <1>5, <1>7 DEF Columns
  <1>9. Apart(Columns \cup KeptFree, allocated)
    BY ColumnsKeep, OneOwnerIsApart
  <1>10. /\ Apart((Columns \ {z}) \cup KeptFree', allocated')
         /\ \A x \in Columns : x # z => x[2] # b
         /\ PoolOK'
    BY <1>2, <1>6, <1>8, <1>9, ColumnsKeep, GiveBackApart
  <1>11. OneOwner'
    <2>1. Keepers' = (Columns \ {z}) \cup KeptFree'
      BY <1>8 DEF Keepers, Columns
    <2>2. Apart(Keepers', allocated')
      BY <1>10, <2>1
    <2> QED
      BY <2>2 DEF OneOwner, Apart
  <1>12. BatchesOK'
    BY <1>4 DEF BatchesOK
  <1>13. \A x \in Columns \ {z} : x[2] \in Buffer /\ x[2] # b
    BY <1>9, <1>10 DEF Apart, PoolOK
  <1>14. FilledFor'
    <2>1. InTime(holds, hand')
      <3> SUFFICES ASSUME NEW k \in DOMAIN hand', NEW j \in Owned(hand'[k])
                   PROVE  holds[hand'[k].columns[j].buffer] = hand'[k].number
        BY DEF InTime
      <3>1. ~ (k = p /\ j = i)
        BY <1>3, <1>4 DEF Owned
      <3>2. k \in DOMAIN hand /\ j \in Owned(hand[k]) /\ hand'[k].columns[j] = hand[k].columns[j]
            /\ hand'[k].number = hand[k].number
        BY <1>4, <3>1 DEF OneColumn, Owned
      <3> QED
        BY <3>2 DEF InTime, FilledFor
    <2>2. /\ \A x \in KeptBy("hand", hand') : x[2] \in Buffer /\ x[2] # b
          /\ \A x \in KeptBy("queue", queue) : x[2] \in Buffer /\ x[2] # b
          /\ \A x \in KeptBy("chunk", chunks) : x[2] \in Buffer /\ x[2] # b
      BY <1>5, <1>7, <1>13 DEF Columns
    <2>3. holds \in [Buffer -> Nat] /\ holds' = [holds EXCEPT ![b] = Stale]
      BY DEF PoolOK, GiveBack
    <2> QED
      BY <2>1, <2>2, <2>3, InTimeElsewhere DEF FilledFor
  <1> QED
    BY <1>4, <1>10, <1>11, <1>12, <1>14

\* The same for a column of a batch that nobody popped.
LEMMA DrainKeeps ==
    ASSUME PoolOK, BatchesOK, OneOwner, FilledFor,
           NEW k \in DOMAIN queue, NEW i \in Owned(queue[k]),
           GiveBack(queue[k].columns[i]),
           queue' = Replaced(queue, k, i, Blank),
           UNCHANGED <<hand, chunks>>
    PROVE  PoolOK' /\ BatchesOK' /\ OneOwner' /\ FilledFor'
  <1> DEFINE column == queue[k].columns[i]
             b == column.buffer
             z == <<<<"queue", k, i>>, b>>
             n == Len(queue)
  <1>1. n \in Nat /\ queue \in [1..n -> Batch] /\ k \in 1..n
    <2>1. queue \in Seq(Batch)
      BY DEF BatchesOK
    <2> HIDE DEF Batch
    <2>2. n \in Nat /\ queue \in [1..n -> Batch] /\ DOMAIN queue = 1..n
      BY <2>1, LenProperties
    <2> QED
      BY <2>2
  <1> HIDE DEF n
  <1>2. i \in DOMAIN queue[k].columns /\ column.class # View
    BY DEF Owned
  <1>3. column \in OwnedColumn
    <2>1. queue[k].columns \in Seq(Column)
      BY <1>1 DEF Batch
    <2>2. column \in Column
      <3> HIDE DEF Column
      <3> QED
        BY <1>2, <2>1, LenProperties, ElementOfSeq
    <2> QED
      BY <1>2, <2>2 DEF Column, ViewColumn
  <1>4. Blank \in Column /\ Blank.class = View
    BY DEF Blank, Borrowed, Column, ViewColumn
  <1>5. /\ queue' \in [1..n -> Batch] /\ OneColumn(queue, queue', k, i)
        /\ queue'[k].columns[i] = Blank /\ queue'[k].number = queue[k].number
    <2> HIDE DEF Column, Batch
    <2> DEFINE K == 1..n
    <2>1. queue \in [K -> Batch] /\ k \in K
      BY <1>1
    <2> HIDE DEF K
    <2>2. /\ queue' \in [K -> Batch] /\ OneColumn(queue, queue', k, i)
          /\ queue'[k].columns[i] = Blank /\ queue'[k].number = queue[k].number
      BY <1>2, <1>4, <2>1, ColumnReplaced
    <2> QED
      BY <2>2 DEF K
  <1>6. /\ KeptBy("queue", queue') = KeptBy("queue", queue) \ {z}
        /\ z \in KeptBy("queue", queue)
    <2>1. OneColumn(queue, queue', k, i) /\ queue[k].columns[i].class # View /\ queue'[k].columns[i].class = View
      BY <1>2, <1>4, <1>5
    <2> QED
      BY <2>1, KeptLost
  <1>7. z[1][1] = "queue" /\ z[2] = b
    OBVIOUS
  <1> HIDE DEF z
  <1>8. z \notin KeptBy("hand", hand) /\ z \notin KeptBy("chunk", chunks)
    BY <1>7, KeptTag
  <1>9. Columns' = Columns \ {z} /\ z \in Columns
    BY <1>6, <1>8 DEF Columns
  <1>10. Apart(Columns \cup KeptFree, allocated)
    BY ColumnsKeep, OneOwnerIsApart
  <1>11. /\ Apart((Columns \ {z}) \cup KeptFree', allocated')
         /\ \A x \in Columns : x # z => x[2] # b
         /\ PoolOK'
    BY <1>3, <1>7, <1>9, <1>10, ColumnsKeep, GiveBackApart
  <1>12. OneOwner'
    <2>1. Keepers' = (Columns \ {z}) \cup KeptFree'
      BY <1>9 DEF Keepers, Columns
    <2>2. Apart(Keepers', allocated')
      BY <1>11, <2>1
    <2> QED
      BY <2>2 DEF OneOwner, Apart
  <1>13. BatchesOK'
    <2>1. queue' \in Seq(Batch)
      <3> HIDE DEF Batch
      <3> QED
        BY <1>1, <1>5
    <2> QED
      BY <2>1 DEF BatchesOK
  <1>14. \A x \in Columns \ {z} : x[2] \in Buffer /\ x[2] # b
    BY <1>10, <1>11 DEF Apart, PoolOK
  <1>15. FilledFor'
    <2>1. InTime(holds, queue')
      <3> SUFFICES ASSUME NEW l \in DOMAIN queue', NEW j \in Owned(queue'[l])
                   PROVE  holds[queue'[l].columns[j].buffer] = queue'[l].number
        BY DEF InTime
      <3>1. ~ (l = k /\ j = i)
        BY <1>4, <1>5 DEF Owned
      <3>2. l \in DOMAIN queue /\ j \in Owned(queue[l]) /\ queue'[l].columns[j] = queue[l].columns[j]
            /\ queue'[l].number = queue[l].number
        BY <1>5, <3>1 DEF OneColumn, Owned
      <3> QED
        BY <3>2 DEF InTime, FilledFor
    <2>2. /\ \A x \in KeptBy("queue", queue') : x[2] \in Buffer /\ x[2] # b
          /\ \A x \in KeptBy("hand", hand) : x[2] \in Buffer /\ x[2] # b
          /\ \A x \in KeptBy("chunk", chunks) : x[2] \in Buffer /\ x[2] # b
      BY <1>6, <1>8, <1>14 DEF Columns
    <2>3. holds \in [Buffer -> Nat] /\ holds' = [holds EXCEPT ![b] = Stale]
      BY DEF PoolOK, GiveBack
    <2> QED
      BY <2>1, <2>2, <2>3, InTimeElsewhere DEF FilledFor
  <1> QED
    BY <1>11, <1>12, <1>13, <1>15

-----------------------------------------------------------------------------
(* Batches: a batch changes hands *)

\* The keepers among the columns of one batch.
Carried(name, k, batch) == {<<<<name, k, i>>, batch.columns[i].buffer>> : i \in Owned(batch)}

\* All the buffers of a batch change their place together.
LEMMA ApartCarried ==
    ASSUME NEW K, NEW S, Apart(K, S), NEW batch, NEW from, NEW k, NEW to, NEW l,
           Carried(from, k, batch) \subseteq K
    PROVE  Apart((K \ Carried(from, k, batch)) \cup Carried(to, l, batch), S)
  <1> DEFINE Gone == Carried(from, k, batch)
             B == Carried(to, l, batch)
             At(name, p, i) == <<<<name, p, i>>, batch.columns[i].buffer>>
  <1>0. \A name, p, i : At(name, p, i)[2] = batch.columns[i].buffer
    OBVIOUS
  <1>1. ASSUME NEW x \in B
        PROVE  \E i \in Owned(batch) : \E a \in Gone :
                  /\ x = <<<<to, l, i>>, batch.columns[i].buffer>>
                  /\ a = <<<<from, k, i>>, batch.columns[i].buffer>> /\ a[2] = x[2]
    <2>1. PICK i \in Owned(batch) : x = At(to, l, i)
      BY <1>1 DEF Carried
    <2>2. At(from, k, i) \in Gone
      BY DEF Carried
    <2>3. At(from, k, i)[2] = x[2]
      BY <1>0, <2>1
    <2> QED
      BY <2>1, <2>2, <2>3
  <1>2. \A a \in Gone : \E x \in B : x[2] = a[2]
    <2> TAKE a \in Gone
    <2>1. PICK i \in Owned(batch) : a = At(from, k, i)
      BY DEF Carried
    <2>2. At(to, l, i) \in B
      BY DEF Carried
    <2>3. At(to, l, i)[2] = a[2]
      BY <1>0, <2>1
    <2> QED
      BY <2>2, <2>3
  <1>3. Gone \subseteq K
    OBVIOUS
  <1> HIDE DEF Gone, B
  <1>4. ASSUME NEW x \in (K \ Gone) \cup B, NEW y \in (K \ Gone) \cup B, x[2] = y[2]
        PROVE  x = y
    <2>1. CASE x \in K \ Gone /\ y \in K \ Gone
      BY <1>4, <2>1 DEF Apart
    <2>2. CASE x \in B /\ y \in B
      <3>1. PICK i \in Owned(batch), a \in Gone :
               /\ x = <<<<to, l, i>>, batch.columns[i].buffer>>
               /\ a = <<<<from, k, i>>, batch.columns[i].buffer>> /\ a[2] = x[2]
        BY <1>1, <2>2
      <3>2. PICK j \in Owned(batch), c \in Gone :
               /\ y = <<<<to, l, j>>, batch.columns[j].buffer>>
               /\ c = <<<<from, k, j>>, batch.columns[j].buffer>> /\ c[2] = y[2]
        BY <1>1, <2>2
      <3>3. a = c
        BY <1>3, <1>4, <3>1, <3>2 DEF Apart
      <3>4. i = j
        BY <3>1, <3>2, <3>3
      <3> QED
        BY <3>1, <3>2, <3>4
    <2>3. CASE x \in B /\ y \in K \ Gone
      BY <1>1, <1>3, <1>4, <2>3 DEF Apart
    <2>4. CASE x \in K \ Gone /\ y \in B
      BY <1>1, <1>3, <1>4, <2>4 DEF Apart
    <2> QED
      BY <2>1, <2>2, <2>3, <2>4
  <1>5. \A x \in (K \ Gone) \cup B : x[2] \in S
    BY <1>1, <1>3 DEF Apart
  <1>6. \A b \in S : \E x \in (K \ Gone) \cup B : x[2] = b
    BY <1>2 DEF Apart
  <1>7. Apart((K \ Gone) \cup B, S)
    BY <1>4, <1>5, <1>6 DEF Apart
  <1> QED
    BY <1>7 DEF Gone, B

\* A batch is moved out of a thread's hands.
LEMMA KeptTaken ==
    ASSUME NEW name, NEW f, NEW q \in DOMAIN f, NEW g, DOMAIN g = DOMAIN f,
           \A k \in DOMAIN f : k # q => g[k] = f[k], Owned(g[q]) = {}
    PROVE  /\ KeptBy(name, g) = KeptBy(name, f) \ Carried(name, q, f[q])
           /\ Carried(name, q, f[q]) \subseteq KeptBy(name, f)
  <1>1. \A x : x \in Carried(name, q, f[q]) <=>
                  \E i \in Owned(f[q]) : x = <<<<name, q, i>>, f[q].columns[i].buffer>>
    BY DEF Carried
  <1>2. Carried(name, q, f[q]) \subseteq KeptBy(name, f)
    BY <1>1, KeptMember
  <1>3. ASSUME NEW x \in KeptBy(name, g)
        PROVE  x \in KeptBy(name, f) \ Carried(name, q, f[q])
    <2>1. PICK k \in DOMAIN g : \E i \in Owned(g[k]) : x = <<<<name, k, i>>, g[k].columns[i].buffer>>
      BY <1>3, KeptMember
    <2>2. k # q /\ g[k] = f[k]
      BY <2>1
    <2> QED
      BY <1>1, <2>1, <2>2, KeptMember
  <1>4. ASSUME NEW x \in KeptBy(name, f) \ Carried(name, q, f[q])
        PROVE  x \in KeptBy(name, g)
    <2>1. PICK k \in DOMAIN f : \E i \in Owned(f[k]) : x = <<<<name, k, i>>, f[k].columns[i].buffer>>
      BY <1>4, KeptMember
    <2>2. k # q /\ g[k] = f[k]
      BY <1>1, <1>4, <2>1
    <2> QED
      BY <2>1, <2>2, KeptMember
  <1> QED
    BY <1>2, <1>3, <1>4

\* A batch is put at the end of a sequence of batches.
LEMMA KeptAppended ==
    ASSUME NEW name, NEW s \in Seq(Batch), NEW batch \in Batch
    PROVE  KeptBy(name, Append(s, batch)) = KeptBy(name, s) \cup Carried(name, Len(s) + 1, batch)
  <1> DEFINE t == Append(s, batch)
             n == Len(s)
  <1> HIDE DEF Batch
  <1>1. n \in Nat /\ DOMAIN s = 1..n
    BY LenProperties
  <1>2. /\ t \in Seq(Batch) /\ Len(t) = n + 1
        /\ \A k \in 1..n : t[k] = s[k]
        /\ t[n + 1] = batch
    BY AppendProperties
  <1> HIDE DEF t, n
  <1>3. DOMAIN t = 1..(n + 1)
    BY <1>2, LenProperties
  <1>4. /\ \A k \in DOMAIN s : k \in DOMAIN t /\ t[k] = s[k]
        /\ n + 1 \in DOMAIN t
        /\ \A k \in DOMAIN t : k = n + 1 \/ k \in DOMAIN s
    BY <1>1, <1>2, <1>3
  <1>5. \A x : x \in Carried(name, n + 1, batch) <=>
                  \E i \in Owned(batch) : x = <<<<name, n + 1, i>>, batch.columns[i].buffer>>
    BY DEF Carried
  <1>6. ASSUME NEW x \in KeptBy(name, t)
        PROVE  x \in KeptBy(name, s) \/ x \in Carried(name, n + 1, batch)
    <2>1. PICK k \in DOMAIN t : \E i \in Owned(t[k]) : x = <<<<name, k, i>>, t[k].columns[i].buffer>>
      BY <1>6, KeptMember
    <2>2. CASE k = n + 1
      BY <1>2, <1>5, <2>1, <2>2
    <2>3. CASE k \in DOMAIN s
      BY <1>4, <2>1, <2>3, KeptMember
    <2> QED
      BY <1>4, <2>2, <2>3
  <1>7. ASSUME NEW x \in KeptBy(name, s)
        PROVE  x \in KeptBy(name, t)
    <2>1. PICK k \in DOMAIN s : \E i \in Owned(s[k]) : x = <<<<name, k, i>>, s[k].columns[i].buffer>>
      BY <1>7, KeptMember
    <2> QED
      BY <1>4, <2>1, KeptMember
  <1>8. ASSUME NEW x \in Carried(name, n + 1, batch)
        PROVE  x \in KeptBy(name, t)
    <2>1. PICK i \in Owned(batch) : x = <<<<name, n + 1, i>>, batch.columns[i].buffer>>
      BY <1>5, <1>8
    <2> DEFINE m == n + 1
    <2>2. m \in DOMAIN t /\ i \in Owned(t[m]) /\ x = <<<<name, m, i>>, t[m].columns[i].buffer>>
      BY <1>2, <1>4, <2>1
    <2> HIDE DEF m
    <2> QED
      BY <2>2, KeptMember
  <1> QED
    BY <1>6, <1>7, <1>8 DEF t, n

\* The empty batch owns nothing and lacks nothing.
LEMMA NoBatchOK == NoBatch \in Batch /\ Owned(NoBatch) = {} /\ Missing(NoBatch) = {}
  <1>1. <<>> \in Seq(Column) /\ DOMAIN <<>> = {}
    <2> HIDE DEF Column
    <2> QED
      BY EmptySeq, LenProperties
  <1> QED
    BY <1>1 DEF NoBatch, Batch, Owned, Missing, Stale

\* Hands g are hands f but for the batch at place p.
Swapped(f, g, p, batch) ==
    /\ g \in [Places -> Batch] /\ g[p] = batch
    /\ \A k \in Places : k # p => g[k] = f[k]

\* A thread's batch is replaced by one that owns nothing.
LEMMA HandTaken ==
    ASSUME NEW f \in [Places -> Batch], NEW g, NEW p \in Places, NEW batch, Owned(batch) = {},
           Swapped(f, g, p, batch)
    PROVE  /\ KeptBy("hand", g) = KeptBy("hand", f) \ Carried("hand", p, f[p])
           /\ Carried("hand", p, f[p]) \subseteq KeptBy("hand", f)
           /\ \A h : InTime(h, f) => InTime(h, g)
  <1> HIDE DEF Batch
  <1>1. /\ DOMAIN f = Places /\ DOMAIN g = Places /\ Owned(g[p]) = {}
        /\ \A k \in Places : k # p => g[k] = f[k]
    BY DEF Swapped
  <1>2. ASSUME NEW h, InTime(h, f)
        PROVE  InTime(h, g)
    <2> SUFFICES ASSUME NEW k \in DOMAIN g, NEW i \in Owned(g[k])
                 PROVE  h[g[k].columns[i].buffer] = g[k].number
      BY DEF InTime
    <2>1. k # p /\ g[k] = f[k] /\ k \in DOMAIN f
      BY <1>1
    <2> QED
      BY <1>2, <2>1 DEF InTime
  <1> QED
    BY <1>1, <1>2, KeptTaken

\* A sequence of batches grows by one.
LEMMA InTimeAppended ==
    ASSUME NEW s \in Seq(Batch), NEW batch \in Batch, NEW h, InTime(h, s),
           \A i \in Owned(batch) : h[batch.columns[i].buffer] = batch.number
    PROVE  /\ InTime(h, Append(s, batch)) /\ Append(s, batch) \in Seq(Batch)
           /\ \A k \in DOMAIN Append(s, batch) : Append(s, batch)[k] = batch \/ (k \in DOMAIN s /\ Append(s, batch)[k] = s[k])
  <1> DEFINE t == Append(s, batch)
             n == Len(s)
  <1> HIDE DEF Batch
  <1>1. n \in Nat /\ DOMAIN s = 1..n
    BY LenProperties
  <1>2. /\ t \in Seq(Batch) /\ Len(t) = n + 1
        /\ \A k \in 1..n : t[k] = s[k]
        /\ t[n + 1] = batch
    BY AppendProperties
  <1> HIDE DEF t, n
  <1>3. DOMAIN t = 1..(n + 1)
    BY <1>2, LenProperties
  <1>4. \A k \in DOMAIN t : t[k] = batch \/ (k \in DOMAIN s /\ t[k] = s[k])
    BY <1>1, <1>2, <1>3
  <1>5. InTime(h, t)
    BY <1>4 DEF InTime
  <1> QED
    BY <1>2, <1>4, <1>5 DEF t

\* A batch is moved from a thread into the result queue.
LEMMA QueuedKeeps ==
    ASSUME PoolOK, BatchesOK, OneOwner, FilledFor, NEW p \in Places,
           Swapped(hand, hand', p, NoBatch), queue' = Append(queue, hand[p]),
           UNCHANGED <<pool, chunks>>
    PROVE  BatchesOK' /\ OneOwner' /\ FilledFor'
  <1> HIDE DEF Batch
  <1>1. queue \in Seq(Batch) /\ hand[p] \in Batch /\ p \in DOMAIN hand
    BY DEF BatchesOK
  <1>2. /\ hand' \in [Places -> Batch]
        /\ KeptBy("hand", hand') = KeptBy("hand", hand) \ Carried("hand", p, hand[p])
        /\ Carried("hand", p, hand[p]) \subseteq KeptBy("hand", hand)
        /\ InTime(holds, hand')
    BY NoBatchOK, HandTaken DEF FilledFor, BatchesOK, Swapped
  <1>3. KeptBy("queue", queue') = KeptBy("queue", queue) \cup Carried("queue", Len(queue) + 1, hand[p])
    BY <1>1, KeptAppended
  <1>4. InTime(holds, queue') /\ queue' \in Seq(Batch)
    BY <1>1, InTimeAppended DEF FilledFor, InTime
  <1> DEFINE Gone == Carried("hand", p, hand[p])
             B == Carried("queue", Len(queue) + 1, hand[p])
  <1>5. Keepers' = (Keepers \ Gone) \cup B
    <2>1. \A x \in Gone : x[1][1] = "hand"
      BY <1>2, KeptTag
    <2>2. \A x \in KeptFree : x[1][1] = "free"
      BY FreeMember
    <2>3. \A x \in KeptBy("queue", queue) : x[1][1] = "queue"
      BY KeptTag
    <2>4. \A x \in KeptBy("chunk", chunks) : x[1][1] = "chunk"
      BY KeptTag
    <2>5. KeptFree' = KeptFree /\ chunks' = chunks
      BY DEF KeptFree, pool
    <2> HIDE DEF Gone, B
    <2>6. (KeptBy("queue", queue) \cup KeptBy("chunk", chunks) \cup KeptFree) \cap Gone = {}
      BY <2>1, <2>2, <2>3, <2>4
    <2>7. Keepers' = KeptBy("hand", hand') \cup KeptBy("queue", queue') \cup KeptBy("chunk", chunks) \cup KeptFree
      BY <2>5 DEF Keepers
    <2>8. KeptBy("hand", hand') = KeptBy("hand", hand) \ Gone /\ KeptBy("queue", queue') = KeptBy("queue", queue) \cup B
      BY <1>2, <1>3 DEF Gone, B
    <2> QED
      BY <2>6, <2>7, <2>8 DEF Keepers
  <1>6. Apart((Keepers \ Gone) \cup B, allocated)
    <2>1. Gone \subseteq Keepers
      BY <1>2 DEF Keepers
    <2> QED
      BY <2>1, OneOwnerIsApart, ApartCarried
  <1>7. OneOwner'
    <2>1. Apart(Keepers', allocated')
      BY <1>5, <1>6 DEF pool
    <2> QED
      BY <2>1 DEF OneOwner, Apart
  <1> QED
    BY <1>2, <1>4, <1>7 DEF BatchesOK, FilledFor, pool

\* A copy is moved from the caller into the result.
LEMMA ChunkKeeps ==
    ASSUME PoolOK, BatchesOK, OneOwner, FilledFor, NEW p \in Places,
           Swapped(hand, hand', p, NoBatch), chunks' = Append(chunks, hand[p]),
           UNCHANGED <<pool, queue>>
    PROVE  BatchesOK' /\ OneOwner' /\ FilledFor'
  <1> HIDE DEF Batch
  <1>1. chunks \in Seq(Batch) /\ hand[p] \in Batch /\ p \in DOMAIN hand
    BY DEF BatchesOK
  <1>2. /\ hand' \in [Places -> Batch]
        /\ KeptBy("hand", hand') = KeptBy("hand", hand) \ Carried("hand", p, hand[p])
        /\ Carried("hand", p, hand[p]) \subseteq KeptBy("hand", hand)
        /\ InTime(holds, hand')
    BY NoBatchOK, HandTaken DEF FilledFor, BatchesOK, Swapped
  <1>3. KeptBy("chunk", chunks') = KeptBy("chunk", chunks) \cup Carried("chunk", Len(chunks) + 1, hand[p])
    BY <1>1, KeptAppended
  <1>4. InTime(holds, chunks') /\ chunks' \in Seq(Batch)
    BY <1>1, InTimeAppended DEF FilledFor, InTime
  <1> DEFINE Gone == Carried("hand", p, hand[p])
             B == Carried("chunk", Len(chunks) + 1, hand[p])
  <1>5. Keepers' = (Keepers \ Gone) \cup B
    <2>1. \A x \in Gone : x[1][1] = "hand"
      BY <1>2, KeptTag
    <2>2. \A x \in KeptFree : x[1][1] = "free"
      BY FreeMember
    <2>3. \A x \in KeptBy("queue", queue) : x[1][1] = "queue"
      BY KeptTag
    <2>4. \A x \in KeptBy("chunk", chunks) : x[1][1] = "chunk"
      BY KeptTag
    <2>5. KeptFree' = KeptFree /\ queue' = queue
      BY DEF KeptFree, pool
    <2> HIDE DEF Gone, B
    <2>6. (KeptBy("queue", queue) \cup KeptBy("chunk", chunks) \cup KeptFree) \cap Gone = {}
      BY <2>1, <2>2, <2>3, <2>4
    <2>7. Keepers' = KeptBy("hand", hand') \cup KeptBy("queue", queue) \cup KeptBy("chunk", chunks') \cup KeptFree
      BY <2>5 DEF Keepers
    <2>8. KeptBy("hand", hand') = KeptBy("hand", hand) \ Gone /\ KeptBy("chunk", chunks') = KeptBy("chunk", chunks) \cup B
      BY <1>2, <1>3 DEF Gone, B
    <2> QED
      BY <2>6, <2>7, <2>8 DEF Keepers
  <1>6. Apart((Keepers \ Gone) \cup B, allocated)
    <2>1. Gone \subseteq Keepers
      BY <1>2 DEF Keepers
    <2> QED
      BY <2>1, OneOwnerIsApart, ApartCarried
  <1>7. OneOwner'
    <2>1. Apart(Keepers', allocated')
      BY <1>5, <1>6 DEF pool
    <2> QED
      BY <2>1 DEF OneOwner, Apart
  <1> QED
    BY <1>2, <1>4, <1>7 DEF BatchesOK, FilledFor, pool

\* Batches that own nothing may be replaced by others that own nothing.
LEMMA BlankKeeps ==
    ASSUME PoolOK, BatchesOK, OneOwner, FilledFor,
           hand' \in [Places -> Batch],
           \A p \in Places : hand'[p] = hand[p] \/ (Owned(hand[p]) = {} /\ Owned(hand'[p]) = {}),
           UNCHANGED <<pool, queue, chunks>>
    PROVE  BatchesOK' /\ OneOwner' /\ FilledFor'
  <1> HIDE DEF Batch
  <1>1. DOMAIN hand = Places /\ DOMAIN hand' = Places
    BY DEF BatchesOK
  <1>2. KeptBy("hand", hand') = KeptBy("hand", hand)
    BY <1>1, KeptSame
  <1>3. InTime(holds, hand')
    BY <1>1 DEF InTime, FilledFor
  <1>4. KeptFree' = KeptFree
    BY DEF KeptFree, pool
  <1>5. Keepers' = Keepers
    BY <1>2, <1>4 DEF Keepers
  <1>6. OneOwner'
    BY <1>5 DEF OneOwner, pool
  <1> QED
    BY <1>3, <1>6 DEF BatchesOK, FilledFor, pool

\* The batch at the head of the queue is moved into a thread's empty hands.
LEMMA PopKeeps ==
    ASSUME PoolOK, BatchesOK, OneOwner, FilledFor, NEW p \in Places, queue # <<>>,
           Owned(hand[p]) = {},
           Swapped(hand, hand', p, Head(queue)), queue' = Tail(queue),
           UNCHANGED <<pool, chunks>>
    PROVE  /\ BatchesOK' /\ OneOwner' /\ FilledFor'
           /\ 1 \in DOMAIN queue /\ Head(queue) = queue[1]
           /\ \A k \in DOMAIN queue' : k + 1 \in DOMAIN queue /\ queue'[k] = queue[k + 1]
  <1> DEFINE n == Len(queue)
  <1> HIDE DEF Batch
  <1>1. queue \in Seq(Batch) /\ n \in Nat /\ n # 0 /\ DOMAIN queue = 1..n
    <2>1. queue \in Seq(Batch)
      BY DEF BatchesOK
    <2> QED
      BY <2>1, LenProperties, EmptySeq
  <1>2. /\ queue' \in Seq(Batch) /\ Len(queue') = n - 1
        /\ \A k \in 1..(n - 1) : queue'[k] = queue[k + 1]
    BY <1>1, HeadTailProperties
  <1>3. DOMAIN queue' = 1..(n - 1)
    BY <1>2, LenProperties
  <1>4. Head(queue) = queue[1] /\ Head(queue) \in Batch
    BY <1>1, HeadTailProperties
  <1> HIDE DEF n
  <1>5. /\ 1 \in DOMAIN queue
        /\ \A k \in DOMAIN queue' : k + 1 \in DOMAIN queue /\ k + 1 # 1 /\ queue'[k] = queue[k + 1] /\ k = (k + 1) - 1
        /\ \A k \in DOMAIN queue : k # 1 => k - 1 \in DOMAIN queue' /\ queue'[k - 1] = queue[k]
    BY <1>1, <1>2, <1>3
  <1>6. /\ DOMAIN hand = Places /\ DOMAIN hand' = Places /\ hand'[p] = queue[1]
        /\ \A k \in Places : k # p => hand'[k] = hand[k]
    BY <1>4 DEF BatchesOK, Swapped
  <1>7. KeptFree' = KeptFree /\ chunks' = chunks /\ holds' = holds /\ allocated' = allocated
    BY DEF KeptFree, pool
  <1>8. Keepers' = KeptBy("hand", hand') \cup KeptBy("queue", queue') \cup KeptBy("chunk", chunks) \cup KeptFree
    BY <1>7 DEF Keepers
  <1>9. /\ \A x \in KeptBy("hand", hand) : x[1][1] = "hand"
        /\ \A x \in KeptBy("queue", queue) : x[1][1] = "queue"
        /\ \A x \in KeptBy("chunk", chunks) : x[1][1] = "chunk"
        /\ \A x \in KeptFree : x[1][1] = "free"
    BY KeptTag, FreeMember
  <1> DEFINE F(x) == IF x[1][1] = "queue"
                     THEN IF x[1][2] = 1 THEN <<<<"hand", p, x[1][3]>>, x[2]>>
                                         ELSE <<<<"queue", x[1][2] - 1, x[1][3]>>, x[2]>>
                     ELSE x
             Q(name, k, i, b) == <<<<name, k, i>>, b>>
  <1>10. \A k, i, b : /\ Q("queue", k, i, b)[2] = b
                      /\ k = 1 => F(Q("queue", k, i, b)) = Q("hand", p, i, b)
                      /\ k # 1 => F(Q("queue", k, i, b)) = Q("queue", k - 1, i, b)
    OBVIOUS
  <1>11. \A x : F(x)[2] = x[2]
    OBVIOUS
  <1>12. \A x : x[1][1] # "queue" => F(x) = x
    OBVIOUS
  <1> HIDE DEF F
  <1>13. \A name, f, x : x \in KeptBy(name, f) <=>
            \E k \in DOMAIN f : \E i \in Owned(f[k]) : x = Q(name, k, i, f[k].columns[i].buffer)
    BY KeptMember
  <1> HIDE DEF Q
  <1>14. ASSUME NEW x \in Keepers
         PROVE  F(x) \in Keepers'
    <2>1. CASE x \in KeptBy("queue", queue)
      <3>0. PICK k \in DOMAIN queue : \E i \in Owned(queue[k]) : x = Q("queue", k, i, queue[k].columns[i].buffer)
        BY <1>13, <2>1
      <3>1. PICK i \in Owned(queue[k]) : x = Q("queue", k, i, queue[k].columns[i].buffer)
        BY <3>0
      <3>2. CASE k = 1
        <4>1. F(x) = Q("hand", p, i, hand'[p].columns[i].buffer) /\ i \in Owned(hand'[p])
          BY <1>6, <1>10, <3>1, <3>2
        <4>2. F(x) \in KeptBy("hand", hand')
          BY <1>6, <1>13, <4>1
        <4> QED
          BY <1>8, <4>2
      <3>3. CASE k # 1
        <4> DEFINE l == k - 1
        <4>1. /\ F(x) = Q("queue", l, i, queue'[l].columns[i].buffer)
              /\ l \in DOMAIN queue' /\ i \in Owned(queue'[l])
          BY <1>5, <1>10, <3>1, <3>3
        <4> HIDE DEF l
        <4>2. F(x) \in KeptBy("queue", queue')
          BY <1>13, <4>1
        <4> QED
          BY <1>8, <4>2
      <3> QED
        BY <3>2, <3>3
    <2>2. CASE x \in KeptBy("hand", hand)
      <3>1. F(x) = x
        BY <1>9, <1>12, <2>2
      <3>2. PICK k \in DOMAIN hand : \E i \in Owned(hand[k]) : x = Q("hand", k, i, hand[k].columns[i].buffer)
        BY <1>13, <2>2
      <3>3. k # p /\ k \in DOMAIN hand' /\ hand'[k] = hand[k]
        BY <1>6, <3>2
      <3>4. x \in KeptBy("hand", hand')
        BY <1>13, <3>2, <3>3
      <3> QED
        BY <1>8, <3>1, <3>4
    <2>3. CASE x \in KeptBy("chunk", chunks) \cup KeptFree
      BY <1>8, <1>9, <1>12, <2>3
    <2> QED
      BY <2>1, <2>2, <2>3 DEF Keepers
  <1>15. ASSUME NEW y \in Keepers'
         PROVE  \E x \in Keepers : y = F(x)
    <2>1. CASE y \in KeptBy("queue", queue')
      <3>1. PICK l \in DOMAIN queue' : \E i \in Owned(queue'[l]) : y = Q("queue", l, i, queue'[l].columns[i].buffer)
        <4> DEFINE t == queue'
        <4>1. y \in KeptBy("queue", t)
          BY <2>1
        <4> HIDE DEF t
        <4>2. \E l \in DOMAIN t : \E i \in Owned(t[l]) : y = Q("queue", l, i, t[l].columns[i].buffer)
          BY <1>13, <4>1
        <4> QED
          BY <4>2 DEF t
      <3>2. PICK i \in Owned(queue'[l]) : y = Q("queue", l, i, queue'[l].columns[i].buffer)
        BY <3>1
      <3> DEFINE k == l + 1
      <3>3. k \in DOMAIN queue /\ k # 1 /\ queue'[l] = queue[k] /\ l = k - 1
        BY <1>5
      <3> HIDE DEF k
      <3>4. Q("queue", k, i, queue[k].columns[i].buffer) \in KeptBy("queue", queue)
        BY <1>13, <3>2, <3>3
      <3>5. F(Q("queue", k, i, queue[k].columns[i].buffer)) = y
        BY <1>10, <3>2, <3>3
      <3> QED
        BY <3>4, <3>5 DEF Keepers
    <2>2. CASE y \in KeptBy("hand", hand')
      <3>1. PICK k \in DOMAIN hand' : \E i \in Owned(hand'[k]) : y = Q("hand", k, i, hand'[k].columns[i].buffer)
        BY <1>13, <2>2
      <3>2. CASE k = p
        <4>1. PICK i \in Owned(queue[1]) : y = Q("hand", p, i, queue[1].columns[i].buffer)
          BY <1>6, <3>1, <3>2
        <4>2. Q("queue", 1, i, queue[1].columns[i].buffer) \in KeptBy("queue", queue)
          BY <1>5, <1>13
        <4>3. F(Q("queue", 1, i, queue[1].columns[i].buffer)) = y
          BY <1>10, <4>1
        <4> QED
          BY <4>2, <4>3 DEF Keepers
      <3>3. CASE k # p
        <4>1. y \in KeptBy("hand", hand)
          BY <1>6, <1>13, <3>1, <3>3
        <4> QED
          BY <1>9, <1>12, <4>1 DEF Keepers
      <3> QED
        BY <3>2, <3>3
    <2>3. CASE y \in KeptBy("chunk", chunks) \cup KeptFree
      BY <1>9, <1>12, <2>3 DEF Keepers
    <2> QED
      BY <1>8, <2>1, <2>2, <2>3
  <1>16. OneOwner'
    <2> DEFINE f == [x \in Keepers |-> F(x)]
               L == Keepers'
    <2>1. /\ \A x \in Keepers : f[x] \in L /\ f[x][2] = x[2]
          /\ \A y \in L : \E x \in Keepers : y = f[x]
      BY <1>11, <1>14, <1>15
    <2> HIDE DEF f, L
    <2>2. Apart(L, allocated)
      BY <2>1, OneOwnerIsApart, ApartRelocated
    <2> QED
      BY <1>7, <2>2 DEF L, OneOwner, Apart
  <1>17. FilledFor'
    <2>1. InTime(holds, queue')
      BY <1>5 DEF InTime, FilledFor
    <2>2. InTime(holds, hand')
      BY <1>5, <1>6 DEF InTime, FilledFor
    <2> QED
      BY <1>7, <2>1, <2>2 DEF FilledFor
  <1>18. BatchesOK'
    BY <1>2, <1>7 DEF BatchesOK, Swapped
  <1> QED
    BY <1>4, <1>5, <1>16, <1>17, <1>18

\* EXCEPT swaps a batch.
LEMMA ExceptSwaps ==
    ASSUME BatchesOK, NEW p \in Places, NEW batch \in Batch, hand' = [hand EXCEPT ![p] = batch]
    PROVE  Swapped(hand, hand', p, batch)
  <1> HIDE DEF Batch
  <1> QED
    BY DEF BatchesOK, Swapped

-----------------------------------------------------------------------------
(* Batches: the inductive invariant.  Who may borrow from whom is a matter of *)
(* one thread alone; that borrowed memory still says what it said follows     *)
(* from it, the owners and the numbers.                                       *)

Station == {"scan", "read", "direct", "dense", "sparse", "shown", "copy", "left"}
Projecting == {"direct", "dense", "sparse"}

QueryOK ==
    /\ parallel \in BOOLEAN /\ source \in {"seq", "index"}
    /\ parallel => source = "seq"
    /\ plan \in Plans
    /\ produced \in Nat
    /\ at \in [Thread -> Station]

MappedOnly(batch)   == \A i \in DOMAIN batch.columns : batch.columns[i].class = View => batch.columns[i].buffer = Mapped
OwnedOrBlank(batch) == \A i \in DOMAIN batch.columns : batch.columns[i].class = View => batch.columns[i].buffer = NoBuffer
Lends(batch, address) == \E j \in Owned(batch) : batch.columns[j].buffer = address

\* input_: views of a segment if the leaf scans it, columns of its own or not
\* yet filled if it reads rows.
InputShape(src, a, input) ==
    /\ src = "seq" => \A i \in DOMAIN input.columns : input.columns[i] = Borrowed(Mapped)
    /\ a \in Projecting \cup {"read"} => DOMAIN input.columns = 1..Slots
    /\ a = "read" => \A i \in DOMAIN input.columns :
          input.columns[i].class = View => input.columns[i].buffer \in {Mapped, NoBuffer}
    /\ a \in Projecting => MappedOnly(input)

\* The batch: what it borrows is of a segment or of the thread's own input_.
OutputShape(slotPlans, a, input, output) ==
    /\ a = "read" => output = NoBatch
    /\ a \in Projecting => DOMAIN output.columns = DOMAIN slotPlans /\ output.number = input.number
    /\ a \in {"direct", "sparse"} => OwnedOrBlank(output)
    /\ a = "sparse" => \A i \in Missing(output) : slotPlans[i].kind # "direct"
    /\ a \in {"dense", "shown", "copy"} =>
          \A i \in DOMAIN output.columns : output.columns[i].class = View =>
              \/ output.columns[i].buffer \in {NoBuffer, Mapped}
              \/ output.number = input.number /\ Lends(input, output.columns[i].buffer)
    /\ a \in {"shown", "copy"} => Missing(output) = {}

VectorSlots(slotPlans) ==
    UNION {slotPlans[i].slots : i \in {j \in DOMAIN slotPlans : slotPlans[j].kind = "vector"}}

\* gathered_input_: what it borrows is of the thread's own batch.
GatheredShape(slotPlans, a, output, gathered) ==
    a = "sparse" /\ VectorSlots(slotPlans) # {} =>
        /\ DOMAIN gathered.columns = 1..Slots /\ gathered.number = output.number
        /\ \A i \in DOMAIN gathered.columns : gathered.columns[i].class = View =>
              gathered.columns[i].buffer = NoBuffer \/ Lends(output, gathered.columns[i].buffer)

\* The copy borrows nothing.
CopyShape(a, output, copy) ==
    /\ a = "copy" => /\ DOMAIN copy.columns = DOMAIN output.columns /\ copy.number = output.number
                     /\ OwnedOrBlank(copy)
    /\ a \notin {"copy", "left"} => Owned(copy) = {}

ThreadShape(src, slotPlans, a, input, output, gathered) ==
    /\ InputShape(src, a, input)
    /\ OutputShape(slotPlans, a, input, output)
    /\ GatheredShape(slotPlans, a, output, gathered)

ThreadOK(t) ==
    ThreadShape(source, plan, at[t], hand[<<t, "input">>], hand[<<t, "output">>], hand[<<t, "gathered">>])

CopyOK   == CopyShape(at[Caller], hand[<<Caller, "output">>], hand[<<Caller, "copy">>])
QueueOK  == at[Caller] # "left" => \A k \in DOMAIN queue : MappedOnly(queue[k])
ChunksOK == \A k \in DOMAIN chunks : Owned(chunks[k]) = DOMAIN chunks[k].columns

BatchInv ==
    /\ PoolOK /\ QueryOK /\ BatchesOK
    /\ OneOwner
    /\ FilledFor
    /\ \A t \in Thread : ThreadOK(t)
    /\ CopyOK /\ QueueOK /\ ChunksOK

\* Every thread has every part, and places are told apart by both.
LEMMA PlaceOf ==
    /\ \A t \in Thread, part \in Part : <<t, part>> \in Places
    /\ Caller \in Thread
    /\ \A t, u, x, y : <<t, x>> = <<u, y>> => t = u /\ x = y
  BY DEF Places, Thread

\* Columns and batches have the fields they should.
LEMMA BatchFields ==
    ASSUME NEW batch \in Batch
    PROVE  /\ batch.number \in Nat
           /\ batch.columns \in Seq(Column)
           /\ \A i \in DOMAIN batch.columns : batch.columns[i] \in Column
           /\ \A i \in Owned(batch) : i \in DOMAIN batch.columns /\ batch.columns[i] \in OwnedColumn
  <1>1. batch.number \in Nat /\ batch.columns \in Seq(Column)
    BY DEF Batch
  <1>2. \A i \in DOMAIN batch.columns : batch.columns[i] \in Column
    <2> HIDE DEF Column
    <2> QED
      BY <1>1, LenProperties, ElementOfSeq
  <1>3. \A c \in Column : c.class # View => c \in OwnedColumn
    BY DEF Column, ViewColumn
  <1> QED
    BY <1>1, <1>2, <1>3 DEF Owned

\* What the two kinds of column hold.
LEMMA ColumnFields ==
    /\ \A c \in OwnedColumn : c.buffer \in Buffer /\ c.class # View /\ c \in Column
    /\ Blank \in Column /\ Blank.class = View /\ Blank.buffer = NoBuffer
    /\ \A b \in {Mapped, NoBuffer} \cup Buffer :
          Borrowed(b) \in Column /\ Borrowed(b).class = View /\ Borrowed(b).buffer = b
    /\ \A c \in Column : c.buffer \in {Mapped, NoBuffer} \cup Buffer
  BY Bounds DEF OwnedColumn, ViewColumn, Column, Blank, Borrowed

\* What is owned or mapped is there, and a batch of nothing else lacks nothing.
LEMMA NothingMissing ==
    ASSUME NEW batch \in Batch, MappedOnly(batch)
    PROVE  Missing(batch) = {}
  BY BatchFields, ColumnFields, Bounds DEF MappedOnly, Missing, Owned

\* A batch that borrows nothing and lacks nothing owns all it has.
LEMMA AllOwned ==
    ASSUME NEW batch \in Batch, OwnedOrBlank(batch), Missing(batch) = {}
    PROVE  Owned(batch) = DOMAIN batch.columns
  BY DEF OwnedOrBlank, Missing, Owned

\* Whatever a thread has in hand is a batch.
LEMMA HandFields ==
    ASSUME BatchesOK
    PROVE  \A t \in Thread, part \in Part : hand[<<t, part>>] \in Batch /\ <<t, part>> \in DOMAIN hand
  <1> HIDE DEF Batch
  <1> QED
    BY PlaceOf DEF BatchesOK

\* An owner finds the data of its batch.
LEMMA OwnedHolds ==
    ASSUME PoolOK, OneOwner, NEW name, NEW f, KeptBy(name, f) \subseteq Keepers, InTime(holds, f),
           NEW k \in DOMAIN f, NEW i \in Owned(f[k])
    PROVE  Holds(f[k].columns[i], f[k].number)
  <1> DEFINE b == f[k].columns[i].buffer
             x == <<<<name, k, i>>, b>>
  <1>1. x \in KeptBy(name, f)
    BY KeptMember
  <1>2. x[2] = b
    OBVIOUS
  <1>3. b \in allocated
    BY <1>1, <1>2 DEF OneOwner
  <1>4. holds[b] = f[k].number
    BY DEF InTime
  <1> QED
    BY <1>3, <1>4 DEF Holds

\* The batches of each family are among the keepers.
LEMMA KeepersAre ==
    /\ KeptBy("hand", hand) \subseteq Keepers
    /\ KeptBy("queue", queue) \subseteq Keepers
    /\ KeptBy("chunk", chunks) \subseteq Keepers
  BY DEF Keepers

\* So does an owner in the hands of a thread.
LEMMA HandHolds ==
    ASSUME PoolOK, BatchesOK, OneOwner, FilledFor, NEW t \in Thread, NEW part \in Part,
           NEW i \in Owned(hand[<<t, part>>])
    PROVE  Holds(hand[<<t, part>>].columns[i], hand[<<t, part>>].number)
  <1> DEFINE p == <<t, part>>
  <1>1. p \in DOMAIN hand /\ i \in Owned(hand[p])
    BY HandFields
  <1>2. InTime(holds, hand)
    BY DEF FilledFor
  <1> HIDE DEF p
  <1>3. Holds(hand[p].columns[i], hand[p].number)
    BY <1>1, <1>2, KeepersAre, OwnedHolds
  <1> QED
    BY <1>3 DEF p

\* So does whoever borrows from it, if the numbers agree.
LEMMA LentHolds ==
    ASSUME PoolOK, BatchesOK, OneOwner, FilledFor, NEW t \in Thread, NEW part \in Part,
           NEW column, Lends(hand[<<t, part>>], column.buffer)
    PROVE  Holds(column, hand[<<t, part>>].number)
  <1>1. PICK j \in Owned(hand[<<t, part>>]) : hand[<<t, part>>].columns[j].buffer = column.buffer
    BY DEF Lends
  <1>2. Holds(hand[<<t, part>>].columns[j], hand[<<t, part>>].number)
    BY HandHolds
  <1> QED
    BY <1>1, <1>2 DEF Holds

\* While a thread projects, every column of its input_ holds.
LEMMA InputHolds ==
    ASSUME PoolOK, BatchesOK, OneOwner, FilledFor, NEW t \in Thread,
           InputShape(source, at[t], hand[<<t, "input">>]), at[t] \in Projecting,
           NEW i \in 1..Slots
    PROVE  Holds(hand[<<t, "input">>].columns[i], hand[<<t, "input">>].number)
  <1> DEFINE input == hand[<<t, "input">>]
  <1>1. i \in DOMAIN input.columns /\ MappedOnly(input)
    BY DEF InputShape
  <1>2. CASE input.columns[i].class = View
    BY <1>1, <1>2 DEF MappedOnly, Holds
  <1>3. CASE input.columns[i].class # View
    <2>1. i \in Owned(hand[<<t, "input">>]) /\ "input" \in Part
      BY <1>1, <1>3 DEF Owned, Part
    <2> QED
      BY <2>1, HandHolds
  <1> QED
    BY <1>2, <1>3

\* Once it is complete, so does every column of gathered_input_ that an expression reads.
LEMMA GatheredHolds ==
    ASSUME PoolOK, BatchesOK, OneOwner, FilledFor, NEW t \in Thread,
           GatheredShape(plan, at[t], hand[<<t, "output">>], hand[<<t, "gathered">>]),
           at[t] = "sparse", ToGather(t) = {}, NEW i \in GatherSlots, i \in 1..Slots
    PROVE  /\ Holds(hand[<<t, "gathered">>].columns[i], hand[<<t, "gathered">>].number)
           /\ hand[<<t, "gathered">>].number = hand[<<t, "output">>].number
  <1> DEFINE gathered == hand[<<t, "gathered">>]
             output == hand[<<t, "output">>]
  <1>1. VectorSlots(plan) # {}
    BY DEF GatherSlots, VectorSlots
  <1>2. /\ i \in DOMAIN gathered.columns /\ gathered.number = output.number
        /\ gathered.columns[i].class = View =>
              gathered.columns[i].buffer = NoBuffer \/ Lends(output, gathered.columns[i].buffer)
    BY <1>1 DEF GatheredShape
  <1>3. gathered.columns[i].buffer # NoBuffer
    BY <1>2 DEF ToGather, Missing
  <1>4. "gathered" \in Part /\ "output" \in Part
    BY DEF Part
  <1>5. CASE gathered.columns[i].class = View
    <2>1. Lends(hand[<<t, "output">>], gathered.columns[i].buffer)
      BY <1>2, <1>3, <1>5
    <2> HIDE DEF gathered
    <2>2. Holds(gathered.columns[i], hand[<<t, "output">>].number)
      BY <1>4, <2>1, LentHolds
    <2> QED
      BY <1>2, <2>2 DEF gathered
  <1>6. CASE gathered.columns[i].class # View
    <2>1. i \in Owned(hand[<<t, "gathered">>])
      BY <1>2, <1>6 DEF Owned
    <2> QED
      BY <1>2, <1>4, <2>1, HandHolds
  <1> QED
    BY <1>5, <1>6

\* What is shown, or ready to be, holds.
LEMMA OutputHolds ==
    ASSUME PoolOK, BatchesOK, OneOwner, FilledFor, NEW t \in Thread,
           OutputShape(plan, at[t], hand[<<t, "input">>], hand[<<t, "output">>]),
           at[t] \in {"dense", "sparse", "shown", "copy"},
           Missing(hand[<<t, "output">>]) = {}, NEW i \in DOMAIN hand[<<t, "output">>].columns
    PROVE  Holds(hand[<<t, "output">>].columns[i], hand[<<t, "output">>].number)
  <1> DEFINE output == hand[<<t, "output">>]
  <1>1. "input" \in Part /\ "output" \in Part
    BY DEF Part
  <1>2. output.columns[i].buffer # NoBuffer
    BY DEF Missing
  <1>3. CASE output.columns[i].class # View
    <2>1. i \in Owned(hand[<<t, "output">>])
      BY <1>3 DEF Owned
    <2> QED
      BY <1>1, <2>1, HandHolds
  <1>4. CASE output.columns[i].class = View
    <2>1. \/ output.columns[i].buffer = Mapped
          \/ output.number = hand[<<t, "input">>].number /\ Lends(hand[<<t, "input">>], output.columns[i].buffer)
      BY <1>2, <1>4 DEF OutputShape, OwnedOrBlank
    <2>2. CASE output.columns[i].buffer = Mapped
      BY <2>2 DEF Holds
    <2>3. CASE output.number = hand[<<t, "input">>].number /\ Lends(hand[<<t, "input">>], output.columns[i].buffer)
      <3> HIDE DEF output
      <3>1. Holds(output.columns[i], hand[<<t, "input">>].number)
        BY <1>1, <2>3, LentHolds
      <3> QED
        BY <2>3, <3>1 DEF output
    <2> QED
      BY <2>1, <2>2, <2>3
  <1> QED
    BY <1>3, <1>4

\* The invariant gives the property.
LEMMA InvGivesResults ==
    ASSUME BatchInv
    PROVE  ResultsKeep
  <1>1. ASSUME NEW t \in Thread, Ready(t) \/ at[t] \in {"shown", "copy"},
               NEW i \in DOMAIN hand[<<t, "output">>].columns
        PROVE  Holds(hand[<<t, "output">>].columns[i], hand[<<t, "output">>].number)
    <2>1. OutputShape(plan, at[t], hand[<<t, "input">>], hand[<<t, "output">>])
      BY DEF BatchInv, ThreadOK, ThreadShape
    <2>2. at[t] \in {"dense", "sparse", "shown", "copy"}
      BY <1>1 DEF Ready, Computes
    <2>3. Missing(hand[<<t, "output">>]) = {}
      BY <1>1, <2>1 DEF Ready, OutputShape
    <2> QED
      BY <1>1, <2>1, <2>2, <2>3, OutputHolds DEF BatchInv
  <1>2. ASSUME at[Caller] # "left", NEW k \in DOMAIN queue, NEW i \in DOMAIN queue[k].columns
        PROVE  Holds(queue[k].columns[i], queue[k].number)
    <2>1. CASE queue[k].columns[i].class = View
      BY <1>2, <2>1 DEF BatchInv, QueueOK, MappedOnly, Holds
    <2>2. CASE queue[k].columns[i].class # View
      <3>1. i \in Owned(queue[k])
        BY <1>2, <2>2 DEF Owned
      <3> QED
        BY <1>2, <3>1, KeepersAre, OwnedHolds DEF BatchInv, FilledFor
    <2> QED
      BY <2>1, <2>2
  <1>3. ASSUME NEW k \in DOMAIN chunks, NEW i \in DOMAIN chunks[k].columns
        PROVE  Holds(chunks[k].columns[i], chunks[k].number)
    <2>1. i \in Owned(chunks[k])
      BY <1>3 DEF BatchInv, ChunksOK
    <2> QED
      BY <1>3, <2>1, KeepersAre, OwnedHolds DEF BatchInv, FilledFor
  <1> QED
    BY <1>1, <1>2, <1>3 DEF ResultsKeep

-----------------------------------------------------------------------------
(* Batches: every step keeps the invariant *)

\* A step of thread t concerns its own batches.
LEMMA ThreadStep ==
    ASSUME BatchInv, NEW t \in Thread,
           UNCHANGED <<source, plan>>,
           \A u \in Thread \ {t} : at'[u] = at[u] /\ \A part \in Part : hand'[<<u, part>>] = hand[<<u, part>>],
           PoolOK', QueryOK', BatchesOK', OneOwner', FilledFor',
           ThreadOK(t)', t = Caller => CopyOK', QueueOK', ChunksOK'
    PROVE  BatchInv'
  <1>1. ASSUME NEW u \in Thread
        PROVE  ThreadOK(u)'
    <2>1. CASE u = t
      BY <2>1
    <2>2. CASE u # t
      <3>1. at'[u] = at[u] /\ \A part \in Part : hand'[<<u, part>>] = hand[<<u, part>>]
        BY <2>2
      <3>2. ThreadOK(u)
        BY DEF BatchInv
      <3> QED
        BY <3>1, <3>2 DEF ThreadOK, Part
    <2> QED
      BY <2>1, <2>2
  <1>2. CopyOK'
    <2>1. CASE t # Caller
      <3>1. at'[Caller] = at[Caller] /\ \A part \in Part : hand'[<<Caller, part>>] = hand[<<Caller, part>>]
        BY <2>1, PlaceOf
      <3>2. CopyOK
        BY DEF BatchInv
      <3> QED
        BY <3>1, <3>2 DEF CopyOK, Part
    <2> QED
      BY <2>1
  <1> QED
    BY <1>1, <1>2 DEF BatchInv

\* Batch c is batch b with column i filled.
Filled(b, c, i) ==
    /\ DOMAIN c.columns = DOMAIN b.columns /\ c.number = b.number
    /\ i \in DOMAIN b.columns /\ b.columns[i].class = View /\ c.columns[i] \in OwnedColumn
    /\ \A j \in DOMAIN b.columns : j # i => c.columns[j] = b.columns[j]

\* Filling a column takes nothing from the rest of the batch.
LEMMA FilledBatch ==
    ASSUME NEW b, NEW c, NEW i, Filled(b, c, i)
    PROVE  /\ MappedOnly(b) => MappedOnly(c)
           /\ OwnedOrBlank(b) => OwnedOrBlank(c)
           /\ \A a : Lends(b, a) => Lends(c, a)
           /\ Missing(c) \subseteq Missing(b)
           /\ \A j \in DOMAIN c.columns : c.columns[j].class = View =>
                 j \in DOMAIN b.columns /\ c.columns[j] = b.columns[j] /\ j # i
  <1>1. c.columns[i].class # View /\ c.columns[i].buffer # NoBuffer
    BY ColumnFields, Bounds DEF Filled
  <1>2. \A j \in DOMAIN c.columns : c.columns[j].class = View =>
                 j \in DOMAIN b.columns /\ c.columns[j] = b.columns[j] /\ j # i
    BY <1>1 DEF Filled
  <1>3. \A a : Lends(b, a) => Lends(c, a)
    BY <1>1 DEF Filled, Lends, Owned
  <1>4. Missing(c) \subseteq Missing(b)
    BY <1>1 DEF Filled, Missing
  <1> QED
    BY <1>2, <1>3, <1>4 DEF MappedOnly, OwnedOrBlank

\* A column without data has no handle.
LEMMA MissingIsView ==
    ASSUME NEW batch \in Batch, NEW i \in Missing(batch)
    PROVE  i \in DOMAIN batch.columns /\ batch.columns[i].class = View
  BY BatchFields, ColumnFields, Bounds DEF Missing, Owned

\* A column that had no data gets those of its batch.
LEMMA FillsColumn ==
    ASSUME BatchInv, NEW t \in Thread, NEW part \in Part, NEW i \in Missing(hand[<<t, part>>]), NEW size,
           Fill(t, part, i, size, hand[<<t, part>>].number),
           UNCHANGED <<query, produced, at, queue, chunks>>
    PROVE  /\ PoolOK' /\ QueryOK' /\ BatchesOK' /\ OneOwner' /\ FilledFor'
           /\ Filled(hand[<<t, part>>], hand'[<<t, part>>], i)
           /\ \A u \in Thread, x \in Part : u # t \/ x # part => hand'[<<u, x>>] = hand[<<u, x>>]
           /\ QueueOK' /\ ChunksOK'
  <1>1. PoolOK /\ BatchesOK /\ OneOwner /\ FilledFor /\ QueryOK
    BY DEF BatchInv
  <1>2. hand[<<t, part>>] \in Batch
    BY <1>1, HandFields
  <1>3. i \in DOMAIN hand[<<t, part>>].columns /\ hand[<<t, part>>].columns[i].class = View
    BY <1>2, MissingIsView
  <1>4. /\ PoolOK' /\ BatchesOK' /\ OneOwner' /\ FilledFor'
        /\ OneColumn(hand, hand', <<t, part>>, i)
        /\ hand'[<<t, part>>].columns[i] \in OwnedColumn
        /\ hand'[<<t, part>>].number = hand[<<t, part>>].number
    BY <1>1, <1>3, FillKeeps
  <1>5. Filled(hand[<<t, part>>], hand'[<<t, part>>], i)
    BY <1>3, <1>4 DEF Filled, OneColumn
  <1>6. \A u \in Thread, x \in Part : u # t \/ x # part => hand'[<<u, x>>] = hand[<<u, x>>]
    BY <1>1, <1>4, HandFields, PlaceOf DEF OneColumn
  <1>7. QueryOK'
    BY <1>1 DEF QueryOK, query
  <1>8. QueueOK' /\ ChunksOK'
    BY DEF BatchInv, QueueOK, ChunksOK
  <1> QED
    BY <1>4, <1>5, <1>6, <1>7, <1>8

\* GatherRows fills input_: only a leaf that reads rows does.
LEMMA ReadRowsStep ==
    ASSUME BatchInv, NEW t \in Thread, ReadRows(t)
    PROVE  BatchInv'
  <1> DEFINE input == hand[<<t, "input">>]
  <1>1. "input" \in Part /\ "output" \in Part /\ "gathered" \in Part /\ "copy" \in Part
    BY DEF Part
  <1>2. PICK s \in 1..Slots : s \in Missing(input) /\ Fill(t, "input", s, s, input.number)
    BY DEF ReadRows, FirstOf
  <1>3. at[t] = "read" /\ UNCHANGED <<query, produced, at, queue, chunks>>
    BY DEF ReadRows
  <1>4. /\ PoolOK' /\ QueryOK' /\ BatchesOK' /\ OneOwner' /\ FilledFor'
        /\ Filled(input, hand'[<<t, "input">>], s)
        /\ \A u \in Thread, x \in Part : u # t \/ x # "input" => hand'[<<u, x>>] = hand[<<u, x>>]
        /\ QueueOK' /\ ChunksOK'
    BY <1>1, <1>2, <1>3, FillsColumn
  <1>5. ThreadOK(t)
    BY DEF BatchInv
  <1>6. source' = source /\ plan' = plan /\ at' = at
    BY <1>3 DEF query
  <1>7. source # "seq"
    <2>1. input.columns[s].buffer = NoBuffer /\ s \in DOMAIN input.columns
      BY <1>2 DEF Missing
    <2> QED
      BY <1>5, <2>1, Bounds DEF ThreadOK, ThreadShape, InputShape, Borrowed
  <1>8. InputShape(source, "read", hand'[<<t, "input">>])
    <2>1. InputShape(source, "read", input)
      BY <1>3, <1>5 DEF ThreadOK, ThreadShape
    <2> HIDE DEF input
    <2> QED
      BY <1>4, <1>7, <2>1, FilledBatch DEF InputShape, Filled, Projecting
  <1>9. OutputShape(plan, "read", hand'[<<t, "input">>], hand'[<<t, "output">>])
    <2>1. hand[<<t, "output">>] = NoBatch
      BY <1>3, <1>5 DEF ThreadOK, ThreadShape, OutputShape
    <2> QED
      BY <1>1, <1>4, <2>1 DEF OutputShape, Projecting
  <1>10. ThreadOK(t)'
    BY <1>3, <1>6, <1>8, <1>9 DEF ThreadOK, ThreadShape, GatheredShape
  <1>11. t = Caller => CopyOK'
    BY <1>1, <1>3, <1>4, <1>6, PlaceOf DEF BatchInv, CopyOK, CopyShape
  <1> QED
    BY <1>4, <1>6, <1>10, <1>11, ThreadStep

\* The plan of a query.
LEMMA PlanFields ==
    ASSUME QueryOK
    PROVE  /\ plan \in Seq(SlotPlan)
           /\ \A i \in DOMAIN plan : /\ plan[i].slots \subseteq 1..Slots
                                     /\ plan[i].kind = "direct" => \E s \in 1..Slots : plan[i].slots = {s}
                                     /\ plan[i].kind = "direct" => TheSlot(plan[i]) \in 1..Slots /\ plan[i].slots = {TheSlot(plan[i])}
                                     /\ plan[i].kind = "vector" => plan[i].slots # {} /\ plan[i].slots \subseteq GatherSlots
           /\ GatherSlots \subseteq 1..Slots
           /\ VectorSlots(plan) = GatherSlots
  <1>1. plan \in Seq(SlotPlan)
    BY BatchBuffersAssumption DEF QueryOK
  <1>2. \A i \in DOMAIN plan : plan[i] \in SlotPlan
    <2> HIDE DEF SlotPlan
    <2> QED
      BY <1>1, LenProperties, ElementOfSeq
  <1>3. \A i \in DOMAIN plan : plan[i].slots \subseteq 1..Slots
    BY <1>2 DEF SlotPlan
  <1>4. \A i \in DOMAIN plan : /\ plan[i].kind = "direct" => \E s \in 1..Slots : plan[i].slots = {s}
                               /\ plan[i].kind = "vector" => plan[i].slots # {}
    BY BatchBuffersAssumption DEF QueryOK
  <1>5. ASSUME NEW i \in DOMAIN plan, plan[i].kind = "direct"
        PROVE  TheSlot(plan[i]) \in 1..Slots /\ plan[i].slots = {TheSlot(plan[i])}
    <2>1. PICK s \in 1..Slots : plan[i].slots = {s}
      BY <1>4, <1>5
    <2>2. TheSlot(plan[i]) = s
      BY <2>1 DEF TheSlot
    <2> QED
      BY <2>1, <2>2
  <1>6. GatherSlots \subseteq 1..Slots
    BY <1>3 DEF GatherSlots
  <1>7. \A i \in DOMAIN plan : plan[i].kind = "vector" => plan[i].slots \subseteq GatherSlots
    BY DEF GatherSlots
  <1>8. VectorSlots(plan) = GatherSlots
    BY DEF GatherSlots, VectorSlots
  <1> QED
    BY <1>1, <1>3, <1>4, <1>5, <1>6, <1>7, <1>8

\* A sparse projection reads its direct columns from input_, which holds.
LEMMA GatherDirectStep ==
    ASSUME BatchInv, NEW t \in Thread, GatherDirect(t)
    PROVE  BatchInv'
  <1> DEFINE input == hand[<<t, "input">>]
             output == hand[<<t, "output">>]
  <1>1. "input" \in Part /\ "output" \in Part /\ "gathered" \in Part /\ "copy" \in Part
    BY DEF Part
  <1>2. at[t] = "direct" /\ UNCHANGED <<query, produced, at, queue, chunks>>
    BY DEF GatherDirect
  <1>3. PICK i \in DOMAIN plan : /\ i \in Missing(output) /\ plan[i].kind = "direct"
                                 /\ Fill(t, "output", i, TheSlot(plan[i]), Read(input, plan[i].slots))
    BY DEF GatherDirect, FirstOf
  <1>4. ThreadOK(t) /\ PoolOK /\ BatchesOK /\ OneOwner /\ FilledFor /\ QueryOK
    BY DEF BatchInv
  <1>5. /\ InputShape(source, "direct", input)
        /\ OutputShape(plan, "direct", input, output)
        /\ output.number = input.number
    BY <1>2, <1>4 DEF ThreadOK, ThreadShape, OutputShape, Projecting
  <1>6. Read(input, plan[i].slots) = output.number
    <2>1. \A s \in plan[i].slots : Holds(input.columns[s], input.number)
      BY <1>2, <1>4, <1>5, PlanFields, InputHolds DEF Projecting
    <2> QED
      BY <1>5, <2>1 DEF Read
  <1>7. /\ PoolOK' /\ QueryOK' /\ BatchesOK' /\ OneOwner' /\ FilledFor'
        /\ Filled(output, hand'[<<t, "output">>], i)
        /\ \A u \in Thread, x \in Part : u # t \/ x # "output" => hand'[<<u, x>>] = hand[<<u, x>>]
        /\ QueueOK' /\ ChunksOK'
    BY <1>1, <1>2, <1>3, <1>6, FillsColumn
  <1>8. source' = source /\ plan' = plan /\ at' = at
    BY <1>2 DEF query
  <1>9. OutputShape(plan, "direct", input, hand'[<<t, "output">>])
    <2> HIDE DEF output
    <2> QED
      BY <1>5, <1>7, FilledBatch DEF OutputShape, Filled, Projecting
  <1>10. ThreadOK(t)'
    BY <1>1, <1>2, <1>5, <1>7, <1>8, <1>9 DEF ThreadOK, ThreadShape, GatheredShape
  <1>11. t = Caller => CopyOK'
    BY <1>1, <1>2, <1>7, <1>8, PlaceOf DEF BatchInv, CopyOK, CopyShape
  <1> QED
    BY <1>7, <1>8, <1>10, <1>11, ThreadStep

\* gathered_input_ is filled from input_, which holds.
LEMMA GatherColumnStep ==
    ASSUME BatchInv, NEW t \in Thread, GatherColumn(t)
    PROVE  BatchInv'
  <1> DEFINE input == hand[<<t, "input">>]
             output == hand[<<t, "output">>]
             gathered == hand[<<t, "gathered">>]
  <1>1. "input" \in Part /\ "output" \in Part /\ "gathered" \in Part /\ "copy" \in Part
    BY DEF Part
  <1>2. at[t] = "sparse" /\ UNCHANGED <<query, produced, at, queue, chunks>>
    BY DEF GatherColumn
  <1>3. PICK s \in 1..Slots : /\ s \in GatherSlots /\ s \in Missing(gathered)
                              /\ Fill(t, "gathered", s, s, Read(input, {s}))
    BY DEF GatherColumn, FirstOf, ToGather
  <1>4. ThreadOK(t) /\ PoolOK /\ BatchesOK /\ OneOwner /\ FilledFor /\ QueryOK
    BY DEF BatchInv
  <1>5. /\ InputShape(source, "sparse", input)
        /\ OutputShape(plan, "sparse", input, output)
        /\ GatheredShape(plan, "sparse", output, gathered)
        /\ output.number = input.number
    BY <1>2, <1>4 DEF ThreadOK, ThreadShape, OutputShape, Projecting
  <1>6. gathered.number = output.number
    BY <1>3, <1>4, <1>5, PlanFields DEF GatheredShape
  <1>7. Read(input, {s}) = gathered.number
    <2>1. Holds(input.columns[s], input.number)
      BY <1>2, <1>4, <1>5, PlanFields, InputHolds DEF Projecting
    <2> QED
      BY <1>5, <1>6, <2>1 DEF Read
  <1>8. /\ PoolOK' /\ QueryOK' /\ BatchesOK' /\ OneOwner' /\ FilledFor'
        /\ Filled(gathered, hand'[<<t, "gathered">>], s)
        /\ \A u \in Thread, x \in Part : u # t \/ x # "gathered" => hand'[<<u, x>>] = hand[<<u, x>>]
        /\ QueueOK' /\ ChunksOK'
    BY <1>1, <1>2, <1>3, <1>7, FillsColumn
  <1>9. source' = source /\ plan' = plan /\ at' = at
    BY <1>2 DEF query
  <1>10. GatheredShape(plan, "sparse", output, hand'[<<t, "gathered">>])
    <2> HIDE DEF gathered
    <2> QED
      BY <1>5, <1>8, FilledBatch DEF GatheredShape, Filled
  <1>11. ThreadOK(t)'
    BY <1>1, <1>2, <1>5, <1>8, <1>9, <1>10 DEF ThreadOK, ThreadShape
  <1>12. t = Caller => CopyOK'
    BY <1>1, <1>2, <1>8, <1>9, PlaceOf DEF BatchInv, CopyOK, CopyShape
  <1> QED
    BY <1>8, <1>9, <1>11, <1>12, ThreadStep

\* An expression reads input_, or gathered_input_ once that is complete; both hold.
LEMMA EvaluateStep ==
    ASSUME BatchInv, NEW t \in Thread, Evaluate(t)
    PROVE  BatchInv'
  <1> DEFINE input == hand[<<t, "input">>]
             output == hand[<<t, "output">>]
             gathered == hand[<<t, "gathered">>]
             from(i) == IF at[t] = "sparse" /\ plan[i].kind = "vector" THEN "gathered" ELSE "input"
  <1>1. "input" \in Part /\ "output" \in Part /\ "gathered" \in Part /\ "copy" \in Part
    BY DEF Part
  <1>2. /\ at[t] \in {"dense", "sparse"} /\ (at[t] = "sparse" => ToGather(t) = {})
        /\ UNCHANGED <<query, produced, at, queue, chunks>>
    BY DEF Evaluate, Computes
  <1>3. PICK i \in Missing(output) : Fill(t, "output", i, plan[i].size, Read(hand[<<t, from(i)>>], plan[i].slots))
    BY DEF Evaluate
  <1>4. ThreadOK(t) /\ PoolOK /\ BatchesOK /\ OneOwner /\ FilledFor /\ QueryOK
    BY DEF BatchInv
  <1>5. /\ InputShape(source, at[t], input)
        /\ OutputShape(plan, at[t], input, output)
        /\ GatheredShape(plan, at[t], output, gathered)
        /\ output.number = input.number
        /\ DOMAIN output.columns = DOMAIN plan
    BY <1>2, <1>4 DEF ThreadOK, ThreadShape, OutputShape, Projecting
  <1>6. i \in DOMAIN plan
    BY <1>3, <1>5 DEF Missing
  <1>7. Read(hand[<<t, from(i)>>], plan[i].slots) = output.number
    <2>1. CASE at[t] = "sparse" /\ plan[i].kind = "vector"
      <3>1. plan[i].slots # {} /\ plan[i].slots \subseteq GatherSlots /\ GatherSlots \subseteq 1..Slots
        BY <1>4, <1>6, <2>1, PlanFields
      <3>2. \A s \in plan[i].slots : Holds(gathered.columns[s], gathered.number) /\ gathered.number = output.number
        BY <1>2, <1>4, <1>5, <2>1, <3>1, GatheredHolds
      <3> QED
        BY <2>1, <3>1, <3>2 DEF Read
    <2>2. CASE ~ (at[t] = "sparse" /\ plan[i].kind = "vector")
      <3>1. \A s \in plan[i].slots : Holds(input.columns[s], input.number)
        BY <1>2, <1>4, <1>5, <1>6, PlanFields, InputHolds DEF Projecting
      <3> QED
        BY <1>5, <2>2, <3>1 DEF Read
    <2> QED
      BY <2>1, <2>2
  <1>8. /\ PoolOK' /\ QueryOK' /\ BatchesOK' /\ OneOwner' /\ FilledFor'
        /\ Filled(output, hand'[<<t, "output">>], i)
        /\ \A u \in Thread, x \in Part : u # t \/ x # "output" => hand'[<<u, x>>] = hand[<<u, x>>]
        /\ QueueOK' /\ ChunksOK'
    BY <1>1, <1>2, <1>3, <1>7, FillsColumn
  <1>9. source' = source /\ plan' = plan /\ at' = at
    BY <1>2 DEF query
  <1>10. OutputShape(plan, at[t], input, hand'[<<t, "output">>])
    <2> HIDE DEF output
    <2> QED
      BY <1>2, <1>5, <1>8, FilledBatch DEF OutputShape, Filled, Projecting
  <1>11. GatheredShape(plan, at[t], hand'[<<t, "output">>], gathered)
    <2> HIDE DEF output
    <2> QED
      BY <1>5, <1>8, FilledBatch DEF GatheredShape, Filled
  <1>12. ThreadOK(t)'
    BY <1>1, <1>5, <1>8, <1>9, <1>10, <1>11 DEF ThreadOK, ThreadShape
  <1>13. t = Caller => CopyOK'
    BY <1>1, <1>2, <1>8, <1>9, PlaceOf DEF BatchInv, CopyOK, CopyShape
  <1> QED
    BY <1>8, <1>9, <1>12, <1>13, ThreadStep

\* QueryResult::Append reads the batch it is shown, which holds.
LEMMA CopyColumnStep ==
    ASSUME BatchInv, CopyColumn
    PROVE  BatchInv'
  <1> DEFINE t == Caller
             input == hand[<<t, "input">>]
             output == hand[<<t, "output">>]
             copy == hand[<<t, "copy">>]
  <1>1. "input" \in Part /\ "output" \in Part /\ "gathered" \in Part /\ "copy" \in Part /\ t \in Thread
    BY PlaceOf DEF Part
  <1>2. at[t] = "copy" /\ UNCHANGED <<query, produced, at, queue, chunks>>
    BY DEF CopyColumn
  <1>3. PICK i \in DOMAIN output.columns : /\ i \in Missing(copy)
                                           /\ Fill(t, "copy", i, ColumnSize(plan[i]), Read(output, {i}))
    BY DEF CopyColumn, FirstOf
  <1>4. ThreadOK(t) /\ PoolOK /\ BatchesOK /\ OneOwner /\ FilledFor /\ QueryOK /\ CopyOK
    BY <1>1 DEF BatchInv
  <1>5. /\ InputShape(source, "copy", input)
        /\ OutputShape(plan, "copy", input, output)
        /\ CopyShape("copy", output, copy)
        /\ copy.number = output.number
    BY <1>2, <1>4 DEF ThreadOK, ThreadShape, CopyOK, CopyShape
  <1>6. Read(output, {i}) = copy.number
    <2>1. Holds(output.columns[i], output.number)
      BY <1>1, <1>2, <1>4, <1>5, OutputHolds DEF OutputShape
    <2> QED
      BY <1>5, <2>1 DEF Read
  <1>7. /\ PoolOK' /\ QueryOK' /\ BatchesOK' /\ OneOwner' /\ FilledFor'
        /\ Filled(copy, hand'[<<t, "copy">>], i)
        /\ \A u \in Thread, x \in Part : u # t \/ x # "copy" => hand'[<<u, x>>] = hand[<<u, x>>]
        /\ QueueOK' /\ ChunksOK'
    <2> HIDE DEF t
    <2> QED
      BY <1>1, <1>2, <1>3, <1>6, FillsColumn
  <1>8. source' = source /\ plan' = plan /\ at' = at
    BY <1>2 DEF query
  <1>9. CopyOK'
    <2>1. CopyShape("copy", output, hand'[<<t, "copy">>])
      <3> HIDE DEF copy
      <3> QED
        BY <1>5, <1>7, FilledBatch DEF CopyShape, Filled
    <2> QED
      BY <1>1, <1>2, <1>7, <1>8, <2>1 DEF CopyOK
  <1>10. ThreadOK(t)'
    BY <1>1, <1>2, <1>4, <1>7, <1>8 DEF ThreadOK
  <1> QED
    BY <1>1, <1>7, <1>8, <1>9, <1>10, ThreadStep

\* VectorBatch::Reset gives back what no shape needs any longer.
LEMMA ClearStep ==
    ASSUME BatchInv, NEW t \in Thread, Clear(t)
    PROVE  BatchInv'
  <1> DEFINE input == hand[<<t, "input">>]
             output == hand[<<t, "output">>]
  <1>1. "input" \in Part /\ "output" \in Part /\ "gathered" \in Part /\ "copy" \in Part
    BY DEF Part
  <1>2. PICK k \in DOMAIN ToClear(t) : \E i \in DOMAIN hand[<<t, ToClear(t)[k]>>].columns :
           /\ FirstOf(Owned(hand[<<t, ToClear(t)[k]>>]), i)
           /\ GiveBack(hand[<<t, ToClear(t)[k]>>].columns[i])
           /\ hand' = [hand EXCEPT ![<<t, ToClear(t)[k]>>].columns[i] = Blank]
    BY DEF Clear
  <1> DEFINE part == ToClear(t)[k]
             p == <<t, part>>
  <1>3. PICK i \in DOMAIN hand[p].columns : /\ i \in Owned(hand[p])
                                            /\ GiveBack(hand[p].columns[i])
                                            /\ hand' = Replaced(hand, p, i, Blank)
    BY <1>2 DEF FirstOf, Replaced
  <1>4. UNCHANGED <<query, produced, at, queue, chunks>>
    BY DEF Clear
  <1>5. /\ at[t] = "scan" => part \in {"output", "input"}
        /\ at[t] \in {"scan", "left"} \/ (at[t] = "direct" /\ part = "gathered")
        /\ part \in Part
    <2>1. CASE at[t] = "scan"
      <3>1. ToClear(t) = <<"output", "input">>
        BY <2>1 DEF ToClear
      <3>2. k \in 1..2
        BY <1>2, <3>1
      <3> QED
        BY <1>1, <2>1, <3>1, <3>2
    <2>2. CASE at[t] = "direct" /\ DirectDone(t)
      <3>1. ToClear(t) = <<"gathered">>
        BY <2>2 DEF ToClear
      <3>2. k \in 1..1
        BY <1>2, <3>1
      <3> QED
        BY <1>1, <2>2, <3>1, <3>2
    <2>3. CASE at[t] = "left"
      <3>1. ToClear(t) = <<"copy", "output", "gathered", "input">>
        BY <2>3 DEF ToClear
      <3>2. k \in 1..4
        BY <1>2, <3>1
      <3> QED
        BY <1>1, <2>3, <3>1, <3>2
    <2>4. CASE at[t] # "scan" /\ ~ (at[t] = "direct" /\ DirectDone(t)) /\ at[t] # "left"
      <3>1. ToClear(t) = <<>>
        BY <2>4 DEF ToClear
      <3>2. k \in {}
        BY <1>2, <3>1
      <3> QED
        BY <3>2
    <2> QED
      BY <2>1, <2>2, <2>3, <2>4
  <1> HIDE DEF part
  <1>6. ThreadOK(t) /\ PoolOK /\ BatchesOK /\ OneOwner /\ FilledFor /\ QueryOK
    BY DEF BatchInv
  <1>7. p \in Places
    BY <1>5, PlaceOf
  <1>8. /\ PoolOK' /\ BatchesOK' /\ OneOwner' /\ FilledFor'
        /\ OneColumn(hand, hand', p, i)
        /\ hand'[p].columns[i] = Blank
        /\ hand'[p].number = hand[p].number
    BY <1>3, <1>4, <1>6, <1>7, ClearKeeps
  <1>9. \A u \in Thread, x \in Part : u # t \/ x # part => hand'[<<u, x>>] = hand[<<u, x>>]
    BY <1>6, <1>8, HandFields, PlaceOf DEF OneColumn
  <1>10. source' = source /\ plan' = plan /\ at' = at
    BY <1>4 DEF query
  <1>11. QueryOK'
    BY <1>4, <1>6 DEF QueryOK, query
  <1>12. QueueOK' /\ ChunksOK'
    BY <1>4 DEF BatchInv, QueueOK, ChunksOK
  <1>13. InputShape(source, at[t], hand'[<<t, "input">>])
    <2>1. InputShape(source, at[t], input)
      BY <1>6 DEF ThreadOK, ThreadShape
    <2>2. CASE part # "input"
      BY <1>1, <1>9, <2>1, <2>2
    <2>3. CASE part = "input"
      <3>1. at[t] \in {"scan", "left"}
        BY <1>5, <2>3
      <3>2. source # "seq"
        BY <1>3, <2>1, <2>3 DEF InputShape, Borrowed, Owned
      <3> QED
        BY <3>1, <3>2 DEF InputShape, Projecting
    <2> QED
      BY <2>2, <2>3
  <1>14. OutputShape(plan, at[t], hand'[<<t, "input">>], hand'[<<t, "output">>])
    <2>1. CASE at[t] \in {"scan", "left"}
      BY <2>1 DEF OutputShape, Projecting
    <2>2. CASE at[t] = "direct" /\ part = "gathered"
      BY <1>1, <1>6, <1>9, <2>2 DEF ThreadOK, ThreadShape
    <2> QED
      BY <1>5, <2>1, <2>2
  <1>15. ThreadOK(t)'
    BY <1>5, <1>10, <1>13, <1>14 DEF ThreadOK, ThreadShape, GatheredShape
  <1>16. t = Caller => CopyOK'
    <2> SUFFICES ASSUME t = Caller PROVE CopyOK'
      OBVIOUS
    <2>1. CASE at[t] = "left"
      BY <1>10, <2>1 DEF CopyOK, CopyShape
    <2>2. CASE at[t] # "left"
      <3>1. part # "copy" /\ at[t] # "copy"
        BY <1>5, <2>2
      <3>2. hand'[<<Caller, "copy">>] = hand[<<Caller, "copy">>]
        BY <1>1, <1>9, <3>1
      <3> QED
        BY <1>10, <2>2, <3>1, <3>2 DEF BatchInv, CopyOK, CopyShape
    <2> QED
      BY <2>1, <2>2
  <1> QED
    BY <1>8, <1>9, <1>10, <1>11, <1>12, <1>15, <1>16, ThreadStep

\* Leaving drops every promise about what the thread has in hand.
LEMMA LeaveStep ==
    ASSUME BatchInv, NEW t \in Thread, at' = [at EXCEPT ![t] = "left"],
           UNCHANGED <<pool, query, produced, hand, queue, chunks>>
    PROVE  BatchInv'
  <1>1. PoolOK /\ QueryOK /\ BatchesOK /\ OneOwner /\ FilledFor /\ ThreadOK(t) /\ QueueOK /\ ChunksOK /\ CopyOK
    BY DEF BatchInv
  <1>2. UNCHANGED <<allocated, free, holds, parallel, source, plan, produced, hand, queue, chunks>>
    BY DEF pool, query
  <1>3. at'[t] = "left" /\ at' \in [Thread -> Station] /\ \A u \in Thread \ {t} : at'[u] = at[u]
    BY <1>1 DEF QueryOK, Station
  <1>4. PoolOK' /\ BatchesOK' /\ FilledFor' /\ QueryOK'
    BY <1>1, <1>2, <1>3 DEF PoolOK, BatchesOK, FilledFor, QueryOK
  <1>5. OneOwner'
    BY <1>1, <1>2 DEF OneOwner, Keepers, KeptFree
  <1>6. ThreadOK(t)'
    BY <1>1, <1>2, <1>3 DEF ThreadOK, ThreadShape, InputShape, OutputShape, GatheredShape, Projecting
  <1>7. QueueOK' /\ ChunksOK'
    <2>1. at'[Caller] # "left" => at[Caller] # "left"
      BY <1>3, PlaceOf
    <2> QED
      BY <1>1, <1>2, <2>1 DEF QueueOK, ChunksOK
  <1>8. t = Caller => CopyOK'
    BY <1>2, <1>3 DEF CopyOK, CopyShape
  <1> QED
    BY <1>2, <1>3, <1>4, <1>5, <1>6, <1>7, <1>8, ThreadStep

\* A batch left in the queue is given back when nobody can be shown it.
LEMMA DrainStep ==
    ASSUME BatchInv, Drain
    PROVE  BatchInv'
  <1>1. PICK k \in DOMAIN queue : \E i \in DOMAIN queue[k].columns :
           /\ FirstOf(Owned(queue[k]), i)
           /\ GiveBack(queue[k].columns[i])
           /\ queue' = [queue EXCEPT ![k].columns[i] = Blank]
    BY DEF Drain
  <1>2. PICK i \in Owned(queue[k]) : GiveBack(queue[k].columns[i]) /\ queue' = Replaced(queue, k, i, Blank)
    BY <1>1 DEF FirstOf, Replaced
  <1>3. at[Caller] = "left" /\ UNCHANGED <<query, produced, at, hand, chunks>>
    BY DEF Drain
  <1>4. PoolOK' /\ BatchesOK' /\ OneOwner' /\ FilledFor'
    BY <1>2, <1>3, DrainKeeps DEF BatchInv
  <1>5. QueryOK'
    BY <1>3 DEF BatchInv, QueryOK, query
  <1>6. QueueOK' /\ ChunksOK'
    BY <1>3 DEF BatchInv, QueueOK, ChunksOK
  <1>7. ThreadOK(Caller)' /\ CopyOK' /\ source' = source /\ plan' = plan
    BY <1>3, PlaceOf DEF BatchInv, ThreadOK, CopyOK, query
  <1> QED
    BY <1>3, <1>4, <1>5, <1>6, <1>7, PlaceOf, ThreadStep

\* A batch that owns nothing takes its place in the hands of a thread.
LEMMA ViewsMake ==
    ASSUME NEW n \in Nat, NEW f \in [1..n -> ViewColumn], NEW m \in Nat, NEW batch,
           batch = [columns |-> f, number |-> m]
    PROVE  batch \in Batch /\ Owned(batch) = {} /\ batch.columns = f /\ batch.number = m
  <1>1. \A c \in ViewColumn : c \in Column /\ c.class = View
    BY DEF Column, ViewColumn
  <1> HIDE DEF ViewColumn, Column
  <1>2. f \in [1..n -> Column]
    BY <1>1
  <1>3. f \in Seq(Column)
    BY <1>2
  <1>4. batch \in Batch
    BY <1>3 DEF Batch
  <1> QED
    BY <1>1, <1>4 DEF Owned

\* Thread t takes a batch and goes on.
Takes(t, part, batch, a) ==
    /\ hand' = [hand EXCEPT ![<<t, part>>] = batch]
    /\ at' = [at EXCEPT ![t] = a]

\* EXCEPT swaps the batch at one place and the station of its thread.
LEMMA SwapsOne ==
    ASSUME BatchInv, NEW t \in Thread, NEW part \in Part, NEW batch \in Batch, NEW a \in Station,
           Takes(t, part, batch, a)
    PROVE  /\ Swapped(hand, hand', <<t, part>>, batch)
           /\ hand'[<<t, part>>] = batch
           /\ \A u \in Thread, x \in Part : u # t \/ x # part => hand'[<<u, x>>] = hand[<<u, x>>]
           /\ at' \in [Thread -> Station] /\ at'[t] = a
           /\ \A u \in Thread : u # t => at'[u] = at[u]
  <1>1. <<t, part>> \in Places
    BY PlaceOf
  <1>2. BatchesOK /\ QueryOK
    BY DEF BatchInv
  <1>3. Swapped(hand, hand', <<t, part>>, batch)
    BY <1>1, <1>2, ExceptSwaps DEF Takes
  <1>4. \A u \in Thread, x \in Part : u # t \/ x # part => hand'[<<u, x>>] = hand[<<u, x>>]
    <2> SUFFICES ASSUME NEW u \in Thread, NEW x \in Part, u # t \/ x # part
                 PROVE  hand'[<<u, x>>] = hand[<<u, x>>]
      OBVIOUS
    <2>1. <<u, x>> \in Places /\ <<u, x>> # <<t, part>>
      BY PlaceOf
    <2> QED
      BY <1>3, <2>1 DEF Swapped
  <1>5. /\ at' \in [Thread -> Station] /\ at'[t] = a
        /\ \A u \in Thread : u # t => at'[u] = at[u]
    BY <1>2 DEF QueryOK, Takes
  <1> QED
    BY <1>3, <1>4, <1>5 DEF Swapped

\* What a parallel query queues borrows only from segments.
LEMMA QueuedIsMapped ==
    ASSUME BatchInv, NEW t \in Thread, parallel, Ready(t)
    PROVE  MappedOnly(hand[<<t, "output">>])
  <1> DEFINE input == hand[<<t, "input">>]
             output == hand[<<t, "output">>]
  <1>1. source = "seq" /\ ThreadOK(t)
    BY DEF BatchInv, QueryOK
  <1>2. at[t] \in {"dense", "sparse"} /\ Missing(output) = {}
    BY DEF Ready, Computes
  <1>3. OutputShape(plan, at[t], input, output) /\ InputShape(source, at[t], input)
    BY <1>1 DEF ThreadOK, ThreadShape
  <1>4. \A i \in DOMAIN output.columns : output.columns[i].buffer # NoBuffer
    BY <1>2 DEF Missing
  <1>5. \A a : ~ Lends(input, a)
    BY <1>1, <1>3 DEF InputShape, Lends, Owned, Borrowed
  <1> HIDE DEF input, output
  <1>6. MappedOnly(output)
    BY <1>2, <1>3, <1>4, <1>5 DEF OutputShape, MappedOnly, OwnedOrBlank
  <1> QED
    BY <1>6 DEF output

\* An appended sequence has the batches it had, and the new one.
LEMMA AppendedAre ==
    ASSUME NEW s \in Seq(Batch), NEW batch \in Batch, NEW k \in DOMAIN Append(s, batch)
    PROVE  Append(s, batch)[k] = batch \/ (k \in DOMAIN s /\ Append(s, batch)[k] = s[k])
  <1> HIDE DEF Batch
  <1>1. /\ Append(s, batch) \in Seq(Batch) /\ Len(Append(s, batch)) = Len(s) + 1
        /\ \A n \in 1..Len(s) : Append(s, batch)[n] = s[n]
        /\ Append(s, batch)[Len(s) + 1] = batch
    BY AppendProperties
  <1>2. DOMAIN s = 1..Len(s) /\ Len(s) \in Nat
    BY LenProperties
  <1>3. DOMAIN Append(s, batch) = 1..(Len(s) + 1)
    BY <1>1, LenProperties
  <1> QED
    BY <1>1, <1>2, <1>3

\* A worker moves its batch, which borrows from segments alone.
LEMMA PushStep ==
    ASSUME BatchInv, NEW t \in Thread, Push(t)
    PROVE  BatchInv'
  <1> DEFINE output == hand[<<t, "output">>]
  <1>1. "input" \in Part /\ "output" \in Part /\ "gathered" \in Part /\ "copy" \in Part /\ "scan" \in Station
    BY DEF Part, Station
  <1>2. /\ parallel /\ Ready(t)
        /\ queue' = Append(queue, output)
        /\ hand' = [hand EXCEPT ![<<t, "output">>] = NoBatch]
        /\ at' = [at EXCEPT ![t] = "scan"]
        /\ UNCHANGED <<pool, query, produced, chunks>>
    BY DEF Push
  <1>3. PoolOK /\ QueryOK /\ BatchesOK /\ OneOwner /\ FilledFor /\ ThreadOK(t) /\ QueueOK /\ ChunksOK /\ CopyOK
    BY DEF BatchInv
  <1>4. /\ Swapped(hand, hand', <<t, "output">>, NoBatch)
        /\ \A u \in Thread, x \in Part : u # t \/ x # "output" => hand'[<<u, x>>] = hand[<<u, x>>]
        /\ at' \in [Thread -> Station] /\ at'[t] = "scan"
        /\ \A u \in Thread : u # t => at'[u] = at[u]
    <2>1. Takes(t, "output", NoBatch, "scan")
      BY <1>2 DEF Takes
    <2> QED
      BY <1>1, <2>1, NoBatchOK, SwapsOne
  <1>5. <<t, "output">> \in Places /\ output \in Batch
    BY <1>1, <1>3, PlaceOf, HandFields
  <1>6. BatchesOK' /\ OneOwner' /\ FilledFor'
    BY <1>2, <1>3, <1>4, <1>5, QueuedKeeps
  <1>7. UNCHANGED <<allocated, free, holds, parallel, source, plan, produced, chunks>>
    BY <1>2 DEF pool, query
  <1>8. PoolOK' /\ QueryOK' /\ ChunksOK'
    BY <1>3, <1>4, <1>7 DEF PoolOK, QueryOK, ChunksOK
  <1>9. MappedOnly(output)
    BY <1>2, QueuedIsMapped
  <1>10. QueueOK'
    <2> SUFFICES ASSUME at'[Caller] # "left", NEW k \in DOMAIN queue'
                 PROVE  MappedOnly(queue'[k])
      BY DEF QueueOK
    <2>1. at[Caller] # "left"
      BY <1>2, <1>4, PlaceOf DEF Ready, Computes
    <2>2. queue \in Seq(Batch)
      BY <1>3 DEF BatchesOK
    <2>3. queue'[k] = output \/ (k \in DOMAIN queue /\ queue'[k] = queue[k])
      BY <1>2, <1>5, <2>2, AppendedAre
    <2> QED
      BY <1>3, <1>9, <2>1, <2>3 DEF QueueOK
  <1>11. ThreadOK(t)'
    <2>1. InputShape(source, at[t], hand[<<t, "input">>])
      BY <1>3 DEF ThreadOK, ThreadShape
    <2>2. InputShape(source, "scan", hand'[<<t, "input">>])
      BY <1>1, <1>4, <2>1 DEF InputShape, Projecting
    <2> QED
      BY <1>4, <1>7, <2>2 DEF ThreadOK, ThreadShape, OutputShape, GatheredShape, Projecting
  <1>12. t = Caller => CopyOK'
    <2>1. at[t] \in {"dense", "sparse"}
      BY <1>2 DEF Ready, Computes
    <2> QED
      BY <1>1, <1>3, <1>4, <2>1, PlaceOf DEF CopyOK, CopyShape
  <1> QED
    BY <1>4, <1>6, <1>7, <1>8, <1>10, <1>11, <1>12, ThreadStep

\* The caller is shown what was queued: it borrows from segments alone.
LEMMA PopStep ==
    ASSUME BatchInv, Pop
    PROVE  BatchInv'
  <1> DEFINE output == hand[<<Caller, "output">>]
  <1>1. "input" \in Part /\ "output" \in Part /\ "gathered" \in Part /\ "copy" \in Part /\ "shown" \in Station
        /\ Caller \in Thread
    BY PlaceOf DEF Part, Station
  <1>2. /\ at[Caller] = "scan" /\ Owned(output) = {}
        /\ queue # <<>>
        /\ hand' = [hand EXCEPT ![<<Caller, "output">>] = Head(queue)]
        /\ queue' = Tail(queue)
        /\ at' = [at EXCEPT ![Caller] = "shown"]
        /\ UNCHANGED <<pool, query, produced, chunks>>
    BY DEF Pop, Cleared
  <1>3. PoolOK /\ QueryOK /\ BatchesOK /\ OneOwner /\ FilledFor /\ ThreadOK(Caller) /\ QueueOK /\ ChunksOK /\ CopyOK
    BY <1>1 DEF BatchInv
  <1>4. Head(queue) \in Batch
    <2>1. queue \in Seq(Batch)
      BY <1>3 DEF BatchesOK
    <2> HIDE DEF Batch
    <2> QED
      BY <1>2, <2>1, HeadTailProperties
  <1>5. /\ Swapped(hand, hand', <<Caller, "output">>, Head(queue))
        /\ hand'[<<Caller, "output">>] = Head(queue)
        /\ \A u \in Thread, x \in Part : u # Caller \/ x # "output" => hand'[<<u, x>>] = hand[<<u, x>>]
        /\ at' \in [Thread -> Station] /\ at'[Caller] = "shown"
        /\ \A u \in Thread : u # Caller => at'[u] = at[u]
    <2>1. Takes(Caller, "output", Head(queue), "shown")
      BY <1>2 DEF Takes
    <2> QED
      BY <1>1, <1>4, <2>1, SwapsOne
  <1>6. <<Caller, "output">> \in Places
    BY <1>1, PlaceOf
  <1>7. /\ BatchesOK' /\ OneOwner' /\ FilledFor'
        /\ 1 \in DOMAIN queue /\ Head(queue) = queue[1]
        /\ \A k \in DOMAIN queue' : k + 1 \in DOMAIN queue /\ queue'[k] = queue[k + 1]
    BY <1>2, <1>3, <1>5, <1>6, PopKeeps
  <1>8. UNCHANGED <<allocated, free, holds, parallel, source, plan, produced, chunks>>
    BY <1>2 DEF pool, query
  <1>9. PoolOK' /\ QueryOK' /\ ChunksOK'
    BY <1>3, <1>5, <1>8 DEF PoolOK, QueryOK, ChunksOK
  <1>10. MappedOnly(hand'[<<Caller, "output">>]) /\ \A k \in DOMAIN queue' : MappedOnly(queue'[k])
    <2>1. \A k \in DOMAIN queue : MappedOnly(queue[k])
      BY <1>2, <1>3 DEF QueueOK
    <2> QED
      BY <1>5, <1>7, <2>1
  <1>11. QueueOK'
    BY <1>10 DEF QueueOK
  <1>12. Missing(hand'[<<Caller, "output">>]) = {}
    BY <1>4, <1>5, <1>10, NothingMissing
  <1>13. ThreadOK(Caller)'
    <2>1. InputShape(source, "shown", hand'[<<Caller, "input">>])
      BY <1>1, <1>3, <1>5 DEF ThreadOK, ThreadShape, InputShape, Projecting
    <2>2. OutputShape(plan, "shown", hand'[<<Caller, "input">>], hand'[<<Caller, "output">>])
      BY <1>10, <1>12 DEF OutputShape, MappedOnly, Projecting
    <2> QED
      BY <1>5, <1>8, <2>1, <2>2 DEF ThreadOK, ThreadShape, GatheredShape
  <1>14. CopyOK'
    BY <1>1, <1>2, <1>3, <1>5 DEF CopyOK, CopyShape
  <1> QED
    BY <1>1, <1>5, <1>7, <1>8, <1>9, <1>11, <1>13, <1>14, ThreadStep

\* Views of what others own take the place of a batch that owns nothing.
LEMMA ViewsTaken ==
    ASSUME BatchInv, NEW t \in Thread, NEW part \in Part, NEW batch \in Batch, NEW a \in Station,
           Takes(t, part, batch, a),
           Owned(batch) = {}, Owned(hand[<<t, part>>]) = {},
           UNCHANGED <<pool, query, produced, queue, chunks>>,
           at[t] # "left" \/ a = "left"
    PROVE  /\ PoolOK' /\ QueryOK' /\ BatchesOK' /\ OneOwner' /\ FilledFor'
           /\ QueueOK' /\ ChunksOK'
           /\ source' = source /\ plan' = plan
           /\ hand'[<<t, part>>] = batch
           /\ \A u \in Thread, x \in Part : u # t \/ x # part => hand'[<<u, x>>] = hand[<<u, x>>]
           /\ at'[t] = a /\ \A u \in Thread : u # t => at'[u] = at[u]
  <1>1. PoolOK /\ QueryOK /\ BatchesOK /\ OneOwner /\ FilledFor /\ QueueOK /\ ChunksOK
    BY DEF BatchInv
  <1>2. /\ Swapped(hand, hand', <<t, part>>, batch)
        /\ hand'[<<t, part>>] = batch
        /\ \A u \in Thread, x \in Part : u # t \/ x # part => hand'[<<u, x>>] = hand[<<u, x>>]
        /\ at' \in [Thread -> Station] /\ at'[t] = a
        /\ \A u \in Thread : u # t => at'[u] = at[u]
    BY SwapsOne
  <1>3. /\ hand' \in [Places -> Batch]
        /\ \A p \in Places : hand'[p] = hand[p] \/ (Owned(hand[p]) = {} /\ Owned(hand'[p]) = {})
    BY <1>2 DEF Swapped
  <1>4. BatchesOK' /\ OneOwner' /\ FilledFor'
    BY <1>1, <1>3, BlankKeeps
  <1>5. UNCHANGED <<allocated, free, holds, parallel, source, plan, produced, queue, chunks>>
    BY DEF pool, query
  <1>6. PoolOK' /\ QueryOK' /\ ChunksOK'
    BY <1>1, <1>2, <1>5 DEF PoolOK, QueryOK, ChunksOK
  <1>7. QueueOK'
    <2>1. at'[Caller] # "left" => at[Caller] # "left"
      BY <1>2, PlaceOf
    <2> QED
      BY <1>1, <1>5, <2>1 DEF QueueOK
  <1> QED
    BY <1>2, <1>4, <1>5, <1>6, <1>7

\* A projection borrows what input_ owns or has from a segment.
LEMMA ProjectStep ==
    ASSUME BatchInv, NEW t \in Thread, Project(t)
    PROVE  BatchInv'
  <1> DEFINE input == hand[<<t, "input">>]
             output == hand[<<t, "output">>]
             columns(lends) == [i \in DOMAIN plan |-> IF lends /\ plan[i].kind = "direct"
                                                      THEN Borrowed(input.columns[TheSlot(plan[i])].buffer)
                                                      ELSE Blank]
  <1>1. /\ "input" \in Part /\ "output" \in Part /\ "gathered" \in Part /\ "copy" \in Part
        /\ "dense" \in Station /\ "direct" \in Station
    BY DEF Part, Station
  <1>2. at[t] = "read" /\ Missing(input) = {} /\ UNCHANGED <<pool, query, produced, queue, chunks>>
    BY DEF Project
  <1>3. PICK lends \in BOOLEAN, a \in {"dense", "direct"} :
           /\ Takes(t, "output", [columns |-> columns(lends), number |-> input.number], a)
           /\ lends \/ a = "direct"
           /\ a = "direct" => ~ lends
    BY DEF Project, Takes
  <1>4. PoolOK /\ QueryOK /\ BatchesOK /\ OneOwner /\ FilledFor /\ ThreadOK(t) /\ CopyOK
    BY DEF BatchInv
  <1>5. input \in Batch
    BY <1>1, <1>4, HandFields
  <1>6. /\ DOMAIN input.columns = 1..Slots
        /\ \A i \in 1..Slots : input.columns[i].class = View => input.columns[i].buffer = Mapped
        /\ InputShape(source, "read", input)
        /\ output = NoBatch
    BY <1>2, <1>4 DEF ThreadOK, ThreadShape, InputShape, OutputShape, Missing, Projecting
  <1> DEFINE f == columns(lends)
             batch == [columns |-> f, number |-> input.number]
  <1>7. PICK n \in Nat : DOMAIN plan = 1..n
    BY <1>4, PlanFields, LenProperties
  <1>8. \A i \in DOMAIN plan : plan[i].kind = "direct" => TheSlot(plan[i]) \in 1..Slots
    BY <1>4, PlanFields
  <1>9. \A s \in 1..Slots : input.columns[s].buffer \in {Mapped, NoBuffer} \cup Buffer
    BY <1>5, <1>6, BatchFields, ColumnFields
  <1>10. f \in [1..n -> ViewColumn]
    <2>1. \A b \in {Mapped, NoBuffer} \cup Buffer : Borrowed(b) \in ViewColumn
      BY DEF Borrowed, ViewColumn
    <2>2. Blank \in ViewColumn
      BY DEF Blank, Borrowed, ViewColumn
    <2> HIDE DEF ViewColumn, input
    <2> QED
      BY <1>7, <1>8, <1>9, <2>1, <2>2
  <1>11. \A i \in DOMAIN plan : f[i].buffer = NoBuffer
                                \/ \E s \in 1..Slots : lends /\ f[i].buffer = input.columns[s].buffer
    BY <1>8, <1>9, ColumnFields
  <1>12. DOMAIN f = DOMAIN plan
    OBVIOUS
  <1> HIDE DEF f
  <1>13. /\ batch \in Batch /\ Owned(batch) = {} /\ batch.columns = f /\ batch.number = input.number
    BY <1>5, <1>10, BatchFields, ViewsMake
  <1> HIDE DEF batch
  <1>14. Owned(output) = {}
    BY <1>6, NoBatchOK
  <1>15. Takes(t, "output", batch, a) /\ a \in Station
    BY <1>1, <1>3 DEF batch, f
  <1>16. /\ PoolOK' /\ QueryOK' /\ BatchesOK' /\ OneOwner' /\ FilledFor'
         /\ QueueOK' /\ ChunksOK'
         /\ source' = source /\ plan' = plan
         /\ hand'[<<t, "output">>] = batch
         /\ \A u \in Thread, x \in Part : u # t \/ x # "output" => hand'[<<u, x>>] = hand[<<u, x>>]
         /\ at'[t] = a /\ \A u \in Thread : u # t => at'[u] = at[u]
    BY <1>1, <1>2, <1>13, <1>14, <1>15, ViewsTaken
  <1>17. InputShape(source, a, input)
    BY <1>6 DEF InputShape, MappedOnly
  <1>18. OutputShape(plan, a, input, batch)
    <2>1. a = "direct" => OwnedOrBlank(batch)
      BY <1>3, <1>11, <1>12, <1>13 DEF OwnedOrBlank
    <2>2. ASSUME NEW i \in DOMAIN batch.columns, batch.columns[i].buffer # NoBuffer
          PROVE  batch.columns[i].buffer = Mapped \/ Lends(input, batch.columns[i].buffer)
      <3>1. PICK s \in 1..Slots : batch.columns[i].buffer = input.columns[s].buffer
        BY <1>11, <1>12, <1>13, <2>2
      <3>2. CASE input.columns[s].class = View
        BY <1>6, <3>1, <3>2
      <3>3. CASE input.columns[s].class # View
        BY <1>6, <3>1, <3>3 DEF Lends, Owned
      <3> QED
        BY <3>2, <3>3
    <2> QED
      BY <1>12, <1>13, <2>1, <2>2 DEF OutputShape, Projecting
  <1>19. ThreadOK(t)'
    BY <1>1, <1>16, <1>17, <1>18 DEF ThreadOK, ThreadShape, GatheredShape
  <1>20. t = Caller => CopyOK'
    BY <1>1, <1>2, <1>4, <1>16, PlaceOf DEF CopyOK, CopyShape
  <1> QED
    BY <1>16, <1>19, <1>20, ThreadStep

\* gathered_input_ borrows direct columns, which the batch owns by now.
LEMMA StartGatherStep ==
    ASSUME BatchInv, NEW t \in Thread, StartGather(t)
    PROVE  BatchInv'
  <1> DEFINE input == hand[<<t, "input">>]
             output == hand[<<t, "output">>]
             gathered == hand[<<t, "gathered">>]
             Over(s) == CHOOSE i \in DOMAIN plan : DirectOutput(s, i)
             f == [s \in 1..Slots |-> IF s \in GatherSlots /\ \E i \in DOMAIN plan : DirectOutput(s, i)
                                      THEN Borrowed(output.columns[Over(s)].buffer)
                                      ELSE Blank]
             batch == [columns |-> f, number |-> output.number]
  <1>1. /\ "input" \in Part /\ "output" \in Part /\ "gathered" \in Part /\ "copy" \in Part
        /\ "sparse" \in Station
    BY DEF Part, Station
  <1>2. /\ at[t] = "direct" /\ DirectDone(t)
        /\ UNCHANGED <<pool, query, produced, queue, chunks>>
        /\ at' = [at EXCEPT ![t] = "sparse"]
    BY DEF StartGather
  <1>3. PoolOK /\ QueryOK /\ BatchesOK /\ OneOwner /\ FilledFor /\ ThreadOK(t) /\ CopyOK /\ QueueOK /\ ChunksOK
    BY DEF BatchInv
  <1>4. /\ InputShape(source, "direct", input)
        /\ OutputShape(plan, "direct", input, output)
        /\ DOMAIN output.columns = DOMAIN plan
        /\ OwnedOrBlank(output)
    BY <1>2, <1>3 DEF ThreadOK, ThreadShape, OutputShape, Projecting
  <1>5. InputShape(source, "sparse", input)
    BY <1>4 DEF InputShape, Projecting
  <1>6. OutputShape(plan, "sparse", input, output)
    BY <1>2, <1>4 DEF OutputShape, DirectDone, Projecting
  <1>7. output \in Batch
    BY <1>1, <1>3, HandFields
  <1>8. CASE GatherSlots = {} /\ hand' = hand
    <2>1. UNCHANGED <<allocated, free, holds, parallel, source, plan, produced, hand, queue, chunks>>
      BY <1>2, <1>8 DEF pool, query
    <2>2. at'[t] = "sparse" /\ at' \in [Thread -> Station] /\ \A u \in Thread : u # t => at'[u] = at[u]
      BY <1>1, <1>2, <1>3 DEF QueryOK
    <2>3. PoolOK' /\ BatchesOK' /\ FilledFor' /\ QueryOK' /\ ChunksOK'
      BY <1>3, <2>1, <2>2 DEF PoolOK, BatchesOK, FilledFor, QueryOK, ChunksOK
    <2>4. OneOwner'
      BY <1>3, <2>1 DEF OneOwner, Keepers, KeptFree
    <2>5. QueueOK'
      <3>1. at[Caller] # "left" \/ at'[Caller] = "left"
        BY <1>2, <2>2, PlaceOf
      <3> QED
        BY <1>3, <2>1, <3>1 DEF QueueOK
    <2>6. VectorSlots(plan) = {}
      BY <1>3, <1>8, PlanFields
    <2>7. ThreadOK(t)'
      BY <1>5, <1>6, <2>1, <2>2, <2>6 DEF ThreadOK, ThreadShape, GatheredShape
    <2>8. t = Caller => CopyOK'
      BY <1>2, <1>3, <2>1, <2>2 DEF CopyOK, CopyShape
    <2> QED
      BY <2>1, <2>2, <2>3, <2>4, <2>5, <2>7, <2>8, ThreadStep
  <1>9. CASE Cleared(t, "gathered") /\ Takes(t, "gathered", batch, "sparse")
    <2>1. ASSUME NEW s \in 1..Slots, s \in GatherSlots, NEW i \in DOMAIN plan, DirectOutput(s, i)
          PROVE  Over(s) \in Owned(output)
      <3>1. Over(s) \in DOMAIN plan /\ DirectOutput(s, Over(s))
        BY <2>1
      <3> HIDE DEF Over
      <3>2. plan[Over(s)].kind = "direct"
        BY <3>1 DEF DirectOutput
      <3>3. Over(s) \notin Missing(output)
        BY <1>2, <3>2 DEF DirectDone
      <3> QED
        BY <1>4, <3>1, <3>3 DEF Missing, OwnedOrBlank, Owned
    <2>2. \A s \in 1..Slots :
             \/ f[s] = Blank
             \/ \E j \in Owned(output) : f[s] = Borrowed(output.columns[j].buffer)
      BY <2>1
    <2>3. \A j \in Owned(output) : output.columns[j].buffer \in Buffer
      BY <1>7, BatchFields, ColumnFields
    <2>4. DOMAIN f = 1..Slots /\ f = [s \in 1..Slots |-> f[s]]
      OBVIOUS
    <2> HIDE DEF f
    <2>5. f \in [1..Slots -> ViewColumn]
      <3>1. \A b \in {Mapped, NoBuffer} \cup Buffer : Borrowed(b) \in ViewColumn
        BY DEF Borrowed, ViewColumn
      <3>2. Blank \in ViewColumn
        BY DEF Blank, Borrowed, ViewColumn
      <3>3. \A s \in 1..Slots : f[s] \in ViewColumn
        BY <2>2, <2>3, <3>1, <3>2
      <3> HIDE DEF ViewColumn
      <3> QED
        BY <2>4, <3>3
    <2>6. batch \in Batch /\ Owned(batch) = {} /\ batch.columns = f /\ batch.number = output.number
      <3>1. Slots \in Nat /\ output.number \in Nat
        BY <1>7, Bounds, BatchFields
      <3> QED
        BY <2>5, <3>1, ViewsMake
    <2> HIDE DEF batch
    <2>7. /\ PoolOK' /\ QueryOK' /\ BatchesOK' /\ OneOwner' /\ FilledFor'
          /\ QueueOK' /\ ChunksOK'
          /\ source' = source /\ plan' = plan
          /\ hand'[<<t, "gathered">>] = batch
          /\ \A u \in Thread, x \in Part : u # t \/ x # "gathered" => hand'[<<u, x>>] = hand[<<u, x>>]
          /\ at'[t] = "sparse" /\ \A u \in Thread : u # t => at'[u] = at[u]
      BY <1>1, <1>2, <1>9, <2>6, ViewsTaken DEF Cleared
    <2>8. GatheredShape(plan, "sparse", output, batch)
      <3>1. ASSUME NEW s \in 1..Slots
            PROVE  f[s].buffer = NoBuffer \/ Lends(output, f[s].buffer)
        <4>1. CASE f[s] = Blank
          BY <4>1, ColumnFields
        <4>2. ASSUME NEW j \in Owned(output), f[s] = Borrowed(output.columns[j].buffer)
              PROVE  Lends(output, f[s].buffer)
          BY <4>2 DEF Lends, Borrowed
        <4> QED
          BY <2>2, <4>1, <4>2
      <3> QED
        BY <2>4, <2>6, <3>1 DEF GatheredShape
    <2>9. ThreadOK(t)'
      BY <1>1, <1>5, <1>6, <2>7, <2>8 DEF ThreadOK, ThreadShape
    <2>10. t = Caller => CopyOK'
      BY <1>1, <1>2, <1>3, <2>7, PlaceOf DEF CopyOK, CopyShape
    <2> QED
      BY <2>7, <2>9, <2>10, ThreadStep
  <1> QED
    BY <1>2, <1>8, <1>9 DEF StartGather, Takes

\* The copy begins without data and borrows nothing.
LEMMA StartCopyStep ==
    ASSUME BatchInv, StartCopy
    PROVE  BatchInv'
  <1> DEFINE t == Caller
             input == hand[<<t, "input">>]
             output == hand[<<t, "output">>]
             f == [i \in DOMAIN output.columns |-> Blank]
             batch == [columns |-> f, number |-> output.number]
  <1>1. /\ "input" \in Part /\ "output" \in Part /\ "gathered" \in Part /\ "copy" \in Part
        /\ "copy" \in Station /\ t \in Thread
    BY PlaceOf DEF Part, Station
  <1>2. /\ Shown /\ UNCHANGED <<pool, query, produced, queue, chunks>>
        /\ hand' = [hand EXCEPT ![<<t, "copy">>] = [output EXCEPT !.columns = [i \in DOMAIN @ |-> Blank]]]
        /\ at' = [at EXCEPT ![t] = "copy"]
    BY DEF StartCopy
  <1>3. PoolOK /\ QueryOK /\ BatchesOK /\ OneOwner /\ FilledFor /\ ThreadOK(t) /\ CopyOK
    BY <1>1 DEF BatchInv
  <1>4. output \in Batch
    BY <1>1, <1>3, HandFields
  <1>5. [output EXCEPT !.columns = [i \in DOMAIN @ |-> Blank]] = batch
    BY <1>4 DEF Batch
  <1>6. Takes(t, "copy", batch, "copy")
    BY <1>2, <1>5 DEF Takes
  <1>7. /\ at[t] \in {"dense", "sparse", "shown"}
        /\ Missing(output) = {}
        /\ OutputShape(plan, at[t], input, output) /\ InputShape(source, at[t], input)
    BY <1>2, <1>3 DEF Shown, Ready, Computes, ThreadOK, ThreadShape, OutputShape
  <1>8. Owned(hand[<<t, "copy">>]) = {}
    BY <1>3, <1>7 DEF CopyOK, CopyShape
  <1>9. PICK n \in Nat : DOMAIN output.columns = 1..n
    <2>1. output.columns \in Seq(Column)
      BY <1>4, BatchFields
    <2> HIDE DEF Column
    <2> QED
      BY <2>1, LenProperties
  <1>10. f \in [1..n -> ViewColumn] /\ DOMAIN f = DOMAIN output.columns
         /\ \A i \in DOMAIN f : f[i] = Blank
    <2>1. Blank \in ViewColumn
      BY DEF Blank, Borrowed, ViewColumn
    <2> HIDE DEF ViewColumn, output
    <2> QED
      BY <1>9, <2>1
  <1> HIDE DEF f
  <1>11. batch \in Batch /\ Owned(batch) = {} /\ batch.columns = f /\ batch.number = output.number
    <2>1. output.number \in Nat
      BY <1>4, BatchFields
    <2> QED
      BY <1>10, <2>1, ViewsMake
  <1> HIDE DEF batch
  <1>12. /\ PoolOK' /\ QueryOK' /\ BatchesOK' /\ OneOwner' /\ FilledFor'
         /\ QueueOK' /\ ChunksOK'
         /\ source' = source /\ plan' = plan
         /\ hand'[<<t, "copy">>] = batch
         /\ \A u \in Thread, x \in Part : u # t \/ x # "copy" => hand'[<<u, x>>] = hand[<<u, x>>]
         /\ at'[t] = "copy" /\ \A u \in Thread : u # t => at'[u] = at[u]
    <2>1. at[t] # "left"
      BY <1>7
    <2> HIDE DEF t
    <2> QED
      BY <1>1, <1>2, <1>6, <1>8, <1>11, <2>1, ViewsTaken
  <1>13. InputShape(source, "copy", input)
    BY <1>7 DEF InputShape, Projecting
  <1>14. OutputShape(plan, "copy", input, output)
    <2> HIDE DEF output, input
    <2> QED
      BY <1>7 DEF OutputShape, OwnedOrBlank, Projecting
  <1>15. CopyShape("copy", output, batch)
    BY <1>10, <1>11, ColumnFields DEF CopyShape, OwnedOrBlank
  <1>16. ThreadOK(t)'
    BY <1>1, <1>12, <1>13, <1>14 DEF ThreadOK, ThreadShape, GatheredShape
  <1>17. CopyOK'
    BY <1>1, <1>12, <1>15 DEF CopyOK
  <1> QED
    BY <1>1, <1>12, <1>16, <1>17, ThreadStep

\* The copy is complete, so it owns all it has.
LEMMA EndCopyStep ==
    ASSUME BatchInv, EndCopy
    PROVE  BatchInv'
  <1> DEFINE t == Caller
             input == hand[<<t, "input">>]
             copy == hand[<<t, "copy">>]
  <1>1. /\ "input" \in Part /\ "output" \in Part /\ "gathered" \in Part /\ "copy" \in Part
        /\ "scan" \in Station /\ t \in Thread
    BY PlaceOf DEF Part, Station
  <1>2. /\ at[t] = "copy" /\ Missing(copy) = {}
        /\ chunks' = Append(chunks, copy)
        /\ hand' = [hand EXCEPT ![<<t, "copy">>] = NoBatch]
        /\ at' = [at EXCEPT ![t] = "scan"]
        /\ UNCHANGED <<pool, query, produced, queue>>
    BY DEF EndCopy
  <1>3. PoolOK /\ QueryOK /\ BatchesOK /\ OneOwner /\ FilledFor /\ ThreadOK(t) /\ CopyOK /\ QueueOK /\ ChunksOK
    BY <1>1 DEF BatchInv
  <1>4. /\ Swapped(hand, hand', <<t, "copy">>, NoBatch)
        /\ hand'[<<t, "copy">>] = NoBatch
        /\ \A u \in Thread, x \in Part : u # t \/ x # "copy" => hand'[<<u, x>>] = hand[<<u, x>>]
        /\ at' \in [Thread -> Station] /\ at'[t] = "scan"
        /\ \A u \in Thread : u # t => at'[u] = at[u]
    <2>1. Takes(t, "copy", NoBatch, "scan")
      BY <1>2 DEF Takes
    <2> HIDE DEF t
    <2> QED
      BY <1>1, <2>1, NoBatchOK, SwapsOne
  <1>5. <<t, "copy">> \in Places /\ copy \in Batch
    BY <1>1, <1>3, PlaceOf, HandFields
  <1>6. BatchesOK' /\ OneOwner' /\ FilledFor'
    BY <1>2, <1>3, <1>4, <1>5, ChunkKeeps
  <1>7. UNCHANGED <<allocated, free, holds, parallel, source, plan, produced, queue>>
    BY <1>2 DEF pool, query
  <1>8. PoolOK' /\ QueryOK'
    BY <1>3, <1>4, <1>7 DEF PoolOK, QueryOK
  <1>9. QueueOK'
    BY <1>2, <1>3, <1>7 DEF QueueOK
  <1>10. Owned(copy) = DOMAIN copy.columns
    <2>1. OwnedOrBlank(copy)
      BY <1>2, <1>3 DEF CopyOK, CopyShape
    <2> QED
      BY <1>2, <1>5, <2>1, AllOwned
  <1>11. ChunksOK'
    <2> SUFFICES ASSUME NEW k \in DOMAIN chunks'
                 PROVE  Owned(chunks'[k]) = DOMAIN chunks'[k].columns
      BY DEF ChunksOK
    <2>1. chunks \in Seq(Batch)
      BY <1>3 DEF BatchesOK
    <2>2. chunks'[k] = copy \/ (k \in DOMAIN chunks /\ chunks'[k] = chunks[k])
      BY <1>2, <1>5, <2>1, AppendedAre
    <2> QED
      BY <1>3, <1>10, <2>2 DEF ChunksOK
  <1>12. ThreadOK(t)'
    <2>1. InputShape(source, at[t], input)
      BY <1>3 DEF ThreadOK, ThreadShape
    <2>2. InputShape(source, "scan", hand'[<<t, "input">>])
      BY <1>1, <1>4, <2>1 DEF InputShape, Projecting
    <2> QED
      BY <1>4, <1>7, <2>2 DEF ThreadOK, ThreadShape, OutputShape, GatheredShape, Projecting
  <1>13. CopyOK'
    BY <1>4, NoBatchOK DEF CopyOK, CopyShape
  <1> QED
    BY <1>1, <1>4, <1>6, <1>7, <1>8, <1>9, <1>11, <1>12, <1>13, ThreadStep

\* A scan begins with a batch that owns nothing.
LEMMA StartScanStep ==
    ASSUME BatchInv, NEW t \in Thread, StartScan(t)
    PROVE  BatchInv'
  <1> DEFINE column == IF source = "seq" THEN Borrowed(Mapped) ELSE Blank
             f == [s \in 1..Slots |-> column]
             m == produced + 1
             batch == [columns |-> f, number |-> m]
  <1>1. /\ "input" \in Part /\ "output" \in Part /\ "gathered" \in Part /\ "copy" \in Part
        /\ "read" \in Station
    BY DEF Part, Station
  <1>2. /\ at[t] = "scan" /\ Cleared(t, "output") /\ Cleared(t, "input")
        /\ produced' = produced + 1
        /\ hand' = [hand EXCEPT ![<<t, "input">>] = batch, ![<<t, "output">>] = NoBatch]
        /\ at' = [at EXCEPT ![t] = "read"]
        /\ UNCHANGED <<pool, query, queue, chunks>>
    BY DEF StartScan
  <1>3. PoolOK /\ QueryOK /\ BatchesOK /\ OneOwner /\ FilledFor /\ ThreadOK(t) /\ CopyOK /\ QueueOK /\ ChunksOK
    BY DEF BatchInv
  <1>4. f \in [1..Slots -> ViewColumn] /\ DOMAIN f = 1..Slots /\ \A s \in 1..Slots : f[s] = column
    <2>1. Blank \in ViewColumn /\ Borrowed(Mapped) \in ViewColumn
      BY DEF Blank, Borrowed, ViewColumn
    <2> HIDE DEF ViewColumn
    <2> QED
      BY <2>1
  <1>5. m \in Nat /\ Slots \in Nat
    BY <1>3, Bounds DEF QueryOK
  <1> HIDE DEF f, m
  <1>6. batch \in Batch /\ Owned(batch) = {} /\ batch.columns = f
    BY <1>4, <1>5, ViewsMake
  <1> HIDE DEF batch
  <1>7. /\ hand' \in [Places -> Batch]
        /\ hand'[<<t, "input">>] = batch /\ hand'[<<t, "output">>] = NoBatch
        /\ \A p \in Places : p # <<t, "input">> /\ p # <<t, "output">> => hand'[p] = hand[p]
    <2>1. <<t, "input">> \in Places /\ <<t, "output">> \in Places /\ <<t, "input">> # <<t, "output">>
      BY <1>1, PlaceOf
    <2>2. NoBatch \in Batch /\ hand \in [Places -> Batch]
      BY <1>3, NoBatchOK DEF BatchesOK
    <2> HIDE DEF Batch
    <2> QED
      BY <1>2, <1>6, <2>1, <2>2
  <1>8. \A u \in Thread, x \in Part :
           u # t \/ (x # "input" /\ x # "output") => hand'[<<u, x>>] = hand[<<u, x>>]
    BY <1>7, PlaceOf
  <1>9. at'[t] = "read" /\ at' \in [Thread -> Station] /\ \A u \in Thread : u # t => at'[u] = at[u]
    BY <1>1, <1>2, <1>3 DEF QueryOK
  <1>10. \A p \in Places : hand'[p] = hand[p] \/ (Owned(hand[p]) = {} /\ Owned(hand'[p]) = {})
    BY <1>2, <1>6, <1>7, NoBatchOK DEF Cleared
  <1>11. BatchesOK' /\ OneOwner' /\ FilledFor'
    BY <1>2, <1>3, <1>7, <1>10, BlankKeeps
  <1>12. UNCHANGED <<allocated, free, holds, parallel, source, plan, queue, chunks>>
    BY <1>2 DEF pool, query
  <1>13. PoolOK' /\ QueryOK' /\ ChunksOK'
    <2>1. produced' \in Nat
      BY <1>2, <1>5 DEF m
    <2> QED
      BY <1>3, <1>9, <1>12, <2>1 DEF PoolOK, QueryOK, ChunksOK
  <1>14. QueueOK'
    <2>1. at'[Caller] # "left" => at[Caller] # "left"
      BY <1>2, <1>9, PlaceOf
    <2> QED
      BY <1>3, <1>12, <2>1 DEF QueueOK
  <1>15. InputShape(source, "read", batch)
    BY <1>4, <1>6, ColumnFields DEF InputShape, Projecting
  <1>16. ThreadOK(t)'
    BY <1>7, <1>9, <1>12, <1>15 DEF ThreadOK, ThreadShape, OutputShape, GatheredShape, Projecting
  <1>17. t = Caller => CopyOK'
    BY <1>1, <1>2, <1>3, <1>8, <1>9, PlaceOf DEF CopyOK, CopyShape
  <1> QED
    BY <1>8, <1>9, <1>11, <1>12, <1>13, <1>14, <1>16, <1>17, ThreadStep

-----------------------------------------------------------------------------
(* Batches: the theorems *)

\* At first nobody keeps anything.
LEMMA BatchesBegin ==
    ASSUME Init
    PROVE  BatchInv
  <1>1. PoolOK /\ QueryOK
    <2>1. PoolOK
      <3>1. <<>> \in Seq(Buffer)
        BY EmptySeq
      <3> QED
        BY <3>1 DEF Init, PoolOK, Stale
    <2>2. QueryOK
      BY DEF Init, QueryOK, CanParallelize, Station
    <2> QED
      BY <2>1, <2>2
  <1>2. \A p \in Places : hand[p] = NoBatch
    BY DEF Init, Places
  <1>3. DOMAIN hand = Places /\ queue = <<>> /\ chunks = <<>> /\ DOMAIN queue = {} /\ DOMAIN chunks = {}
    BY DEF Init, Places
  <1>4. BatchesOK
    <2>1. NoBatch \in Batch
      BY NoBatchOK
    <2> HIDE DEF Batch
    <2>2. <<>> \in Seq(Batch)
      BY EmptySeq
    <2>3. hand = [p \in Places |-> NoBatch]
      BY DEF Init, Places
    <2> QED
      BY <1>3, <2>1, <2>2, <2>3 DEF BatchesOK
  <1>5. Keepers = {}
    <2>1. KeptBy("hand", hand) = {}
      BY <1>2, <1>3, NoBatchOK, KeptMember
    <2>2. KeptBy("queue", queue) = {} /\ KeptBy("chunk", chunks) = {}
      BY <1>3, KeptMember
    <2>3. KeptFree = {}
      <3>1. \A c \in Class : DOMAIN free[c] = {}
        BY DEF Init
      <3> QED
        BY <3>1, FreeMember
    <2> QED
      BY <2>1, <2>2, <2>3 DEF Keepers
  <1>6. OneOwner
    BY <1>5 DEF OneOwner, Init
  <1>7. FilledFor
    BY <1>2, <1>3, NoBatchOK DEF FilledFor, InTime
  <1>8. ASSUME NEW t \in Thread
        PROVE  ThreadOK(t)
    <2>1. at[t] = "scan" /\ hand[<<t, "input">>] = NoBatch
      BY <1>2, PlaceOf DEF Init, Part
    <2>2. DOMAIN NoBatch.columns = {}
      BY DEF NoBatch
    <2> QED
      BY <2>1, <2>2 DEF ThreadOK, ThreadShape, InputShape, OutputShape, GatheredShape, Projecting
  <1>9. CopyOK /\ QueueOK /\ ChunksOK
    <2>1. hand[<<Caller, "copy">>] = NoBatch /\ at[Caller] = "scan"
      BY <1>2, PlaceOf DEF Init, Part
    <2> QED
      BY <1>3, <2>1, NoBatchOK DEF CopyOK, CopyShape, QueueOK, ChunksOK
  <1> QED
    BY <1>1, <1>4, <1>6, <1>7, <1>8, <1>9 DEF BatchInv

\* Every step of the batches keeps the invariant.
LEMMA BatchesStep ==
    ASSUME BatchInv, Next
    PROVE  BatchInv'
  <1>1. ASSUME NEW t \in Thread,
               \/ Clear(t) \/ StartScan(t) \/ ReadRows(t) \/ Project(t)
               \/ GatherDirect(t) \/ StartGather(t) \/ GatherColumn(t) \/ Evaluate(t)
               \/ Push(t) \/ Leave(t)
        PROVE  BatchInv'
    <2>1. CASE Clear(t)
      BY <2>1, ClearStep
    <2>2. CASE StartScan(t)
      BY <2>2, StartScanStep
    <2>3. CASE ReadRows(t)
      BY <2>3, ReadRowsStep
    <2>4. CASE Project(t)
      BY <2>4, ProjectStep
    <2>5. CASE GatherDirect(t)
      BY <2>5, GatherDirectStep
    <2>6. CASE StartGather(t)
      BY <2>6, StartGatherStep
    <2>7. CASE GatherColumn(t)
      BY <2>7, GatherColumnStep
    <2>8. CASE Evaluate(t)
      BY <2>8, EvaluateStep
    <2>9. CASE Push(t)
      BY <2>9, PushStep
    <2>10. CASE Leave(t)
      BY <2>10, LeaveStep DEF Leave
    <2> QED
      BY <1>1, <2>1, <2>2, <2>3, <2>4, <2>5, <2>6, <2>7, <2>8, <2>9, <2>10
  <1>2. CASE Pop
    BY <1>2, PopStep
  <1>3. CASE StartCopy
    BY <1>3, StartCopyStep
  <1>4. CASE CopyColumn
    BY <1>4, CopyColumnStep
  <1>5. CASE EndCopy
    BY <1>5, EndCopyStep
  <1>6. CASE Return
    BY <1>6, PlaceOf, LeaveStep DEF Return
  <1>7. CASE Drain
    BY <1>7, DrainStep
  <1> QED
    BY <1>1, <1>2, <1>3, <1>4, <1>5, <1>6, <1>7 DEF Next

\* A query that works on something else leaves its batches alone.
LEMMA BatchesStutter ==
    ASSUME BatchInv, UNCHANGED batchVars
    PROVE  BatchInv'
  <1>1. UNCHANGED <<allocated, free, holds, parallel, source, plan, produced, at, hand, queue, chunks>>
    BY DEF batchVars, vars, pool, query
  <1>2. PoolOK' /\ QueryOK' /\ BatchesOK' /\ FilledFor' /\ CopyOK' /\ QueueOK' /\ ChunksOK'
    BY <1>1 DEF BatchInv, PoolOK, QueryOK, BatchesOK, FilledFor, CopyOK, QueueOK, ChunksOK
  <1>3. OneOwner'
    BY <1>1 DEF BatchInv, OneOwner, Keepers, KeptFree
  <1>4. \A t \in Thread : ThreadOK(t)'
    BY <1>1 DEF BatchInv, ThreadOK
  <1> QED
    BY <1>2, <1>3, <1>4 DEF BatchInv

\* The inductive invariant of the batches of a query: owners, numbers, and who
\* borrows from whom at each station of a pipeline.
THEOREM BatchesStayConsistent == QuerySpec => []BatchInv
  <1>1. QueryInit => BatchInv
    BY BatchesBegin DEF QueryInit
  <1>2. BatchInv /\ [QueryNext]_allVars => BatchInv'
    <2> SUFFICES ASSUME BatchInv, [QueryNext]_allVars
                 PROVE  BatchInv'
      OBVIOUS
    <2>1. Next \/ UNCHANGED batchVars
      BY DEF QueryNext, allVars
    <2> QED
      BY <2>1, BatchesStep, BatchesStutter
  <1> QED
    BY <1>1, <1>2, PTL DEF QuerySpec

\* Every buffer the system gave is in one free list or one column of one batch,
\* for any threads, plans, classes and limits, whatever addresses the system
\* hands out and however the query ends: BufferPool::Release never sees a
\* buffer twice and ColumnData forgets none.
THEOREM BuffersHaveOneOwner == QuerySpec => []OneOwner
  <1>1. BatchInv => OneOwner
    BY DEF BatchInv
  <1> QED
    BY <1>1, BatchesStayConsistent, PTL

\* A batch that is ready, queued, shown or copied says what the pipeline
\* computed for it, in ProjectionOperator, ParallelExecutor and
\* QueryResult::Append: what its columns borrow outlives it.
THEOREM ResultsStayRight == QuerySpec => []ResultsKeep
  <1>1. BatchInv => ResultsKeep
    BY InvGivesResults
  <1> QED
    BY <1>1, BatchesStayConsistent, PTL
=============================================================================
