---------------------------- MODULE QueryMemory ----------------------------
(***************************************************************************)
(* The memory of one query (RunPlannedQuery in src/main/connection.cpp).   *)
(* Both pools belong to the Database and outlive the query; what it takes  *)
(* from them differs: the batches of a SELECT own buffers (BatchBuffers),  *)
(* the hash tables of an aggregate own ranges of arenas (Arenas).  The two *)
(* share no memory, so a query is followed in the one it works on.         *)
(***************************************************************************)
EXTENDS BatchBuffers

CONSTANTS Arena, Block, BlockSize, MaxCachedBlocks, Unit, Request, MaxLive

VARIABLES
    aggregate,  \* does the query aggregate
    heap, freeBlocks, arena, pc, asked, live, balance

A == INSTANCE Arenas WITH MaxCached <- MaxCachedBlocks

ASSUME ArenasAssumption == A!ConstantsOK

batchVars == vars
arenaVars == <<heap, freeBlocks, arena, pc, asked, live, balance>>
allVars == <<batchVars, arenaVars, aggregate>>

QueryInit ==
    /\ aggregate \in BOOLEAN
    /\ Init
    /\ A!Init

QueryNext ==
    \/ ~aggregate /\ Next /\ UNCHANGED <<aggregate, arenaVars>>
    \/ aggregate /\ A!Next /\ UNCHANGED <<aggregate, batchVars>>

QuerySpec == QueryInit /\ [][QueryNext]_allVars

\* Arenas!RangesApart of an aggregate's memory.
RangesApart == A!RangesApart

\* Arenas!BlocksAccounted of an aggregate's memory.
BlocksAccounted == A!BlocksAccounted
=============================================================================
