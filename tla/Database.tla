------------------------------ MODULE Database ------------------------------
(***************************************************************************)
(* Databases and their tables as a whole: the Catalog (name and id of each *)
(* table, src/catalog/catalog.cpp), the StorageManager (open tables and    *)
(* their directories, src/storage/storage_manager.cpp) and the Database    *)
(* that changes the two one after the other (src/main/database.cpp; the    *)
(* SQL path in CommandExecutor does the same).                             *)
(*                                                                         *)
(* catalog.meta is rewritten in place by every change and a directory is   *)
(* reused when its id is, so what matters is where a call stops: CREATE    *)
(* and DROP run step by step, a fault may answer each file operation and   *)
(* the process may die between any two.  Each accepted CREATE makes a new  *)
(* incarnation, a number no other table ever has; the program only knows   *)
(* ids, which it hands out again.  A table's content is whether it has     *)
(* rows; module TableStorage has the inside of one.                        *)
(***************************************************************************)
EXTENDS Integers, Functions

CONSTANTS
    Name,       \* table names
    MaxTable,   \* bound: incarnations
    Faults      \* the faults this instance considers

FaultKind == {"crash", "catalogOpen", "catalogWrite", "catalogClose", "directory",
              "tableOpen", "tableWrite", "tableClose", "segment", "remove", "rename"}

ASSUME DatabaseAssumption ==
    /\ MaxTable \in Nat \ {0}
    /\ Faults \subseteq FaultKind

VARIABLES
    \* the disk
    catalogMeta,    \* catalog.meta: absent, torn, or whole with its entries
    dir,            \* id -> tables/{id}: incarnation, is table.meta whole, does it list rows
    dropped,        \* id -> tables/{id}_dropped
    \* the members of Catalog and StorageManager
    nameIndex,      \* name_index_
    tables,         \* tables_ of the Catalog: id -> name and incarnation
    open,           \* tables_ of the StorageManager: id -> its TableStorage
    \* the call under way
    pc,
    op,
    \* history
    next,           \* the next incarnation
    created,        \* incarnations whose CREATE returned true
    asked,          \* incarnations somebody began to drop
    gone,           \* incarnations whose DROP returned true
    stored          \* incarnations with rows that a table.meta has listed

disk == <<catalogMeta, dir, dropped>>
catalog == <<nameIndex, tables>>
history == <<next, created, asked, gone, stored>>
vars == <<disk, catalog, open, pc, op, history>>

Incarnation == 1..MaxTable
Id == 0..(MaxTable - 1)
PartialFunctions(A, B) == UNION {[D -> B] : D \in SUBSET A}
Entry == [name : Name, table : Incarnation]
Directory == [table : Incarnation, whole : BOOLEAN, rows : BOOLEAN]
Storage == [table : Incarnation, listed : BOOLEAN, unflushed : BOOLEAN]
NoTables == [i \in {} |-> i]
NoCall == [kind |-> "none"]

Whole(entries) == [state |-> "whole", tables |-> entries]
Torn == [state |-> "torn", tables |-> NoTables]
Absent == [state |-> "absent", tables |-> NoTables]

Without(f, x) == Restrict(f, DOMAIN f \ {x})
With(f, x, v) == [y \in DOMAIN f \cup {x} |-> IF y = x THEN v ELSE f[y]]

Init ==
    /\ catalogMeta = Absent
    /\ dir = NoTables
    /\ dropped = NoTables
    /\ nameIndex = NoTables
    /\ tables = NoTables
    /\ open = NoTables
    /\ pc = "down"
    /\ op = NoCall
    /\ next = 1
    /\ created = {}
    /\ asked = {}
    /\ gone = {}
    /\ stored = {}

-----------------------------------------------------------------------------
(* Opening a database.  LoadMeta accepts a whole file only; Create refuses  *)
(* to overwrite one that exists, so a torn file stops every later start.    *)

LoadMeta ==
    /\ pc = "down"
    /\ catalogMeta.state = "whole"
    /\ tables' = catalogMeta.tables
    /\ nameIndex' = [n \in {catalogMeta.tables[i].name : i \in DOMAIN catalogMeta.tables} |->
                        CHOOSE i \in DOMAIN catalogMeta.tables : catalogMeta.tables[i].name = n]
    /\ pc' = "idle"
    /\ UNCHANGED <<disk, open, op, history>>

CreateCatalog ==
    /\ pc = "down"
    /\ catalogMeta.state = "absent"
    /\ op' = [kind |-> "init"]
    /\ pc' = "saveOpen"
    /\ UNCHANGED <<disk, catalog, open, history>>

-----------------------------------------------------------------------------
(* Catalog::SaveMeta, and where its caller goes on.                         *)

(* Catalog::DropTable up to SaveMeta. *)
Unregister(name, id) ==
    /\ nameIndex' = Without(nameIndex, name)
    /\ tables' = Without(tables, id)

Saved ==
    /\ pc' = CASE op.kind = "create" -> "makeDirectory"
               [] op.kind = "drop" -> "close"
               [] OTHER -> "idle"
    /\ op' = IF op.kind \in {"create", "drop"} THEN op ELSE NoCall
    /\ UNCHANGED catalog

\* Mutant: CREATE goes on without its entry being saved.
NotSaved_Ignored ==
    /\ pc' = CASE op.kind = "create" -> "makeDirectory" [] op.kind = "init" -> "down" [] OTHER -> "idle"
    /\ op' = IF op.kind = "create" THEN op ELSE NoCall
    /\ UNCHANGED catalog

\* Mutant: the failed creation removes the entry and forgets the name.
NotSaved_KeepsName ==
    /\ pc' = IF op.kind = "init" THEN "down" ELSE "idle"
    /\ op' = NoCall
    /\ IF op.kind = "create"
          THEN tables' = Without(tables, op.id) /\ UNCHANGED nameIndex
          ELSE UNCHANGED catalog

NotSaved ==
    /\ pc' = IF op.kind = "init" THEN "down" ELSE "idle"
    /\ op' = NoCall
    /\ IF op.kind = "create" THEN Unregister(op.name, op.id) ELSE UNCHANGED catalog

OpenCatalogFile ==
    /\ pc = "saveOpen"
    /\ \/ /\ catalogMeta' = Torn
          /\ pc' = "saveWrite"
          /\ UNCHANGED <<catalog, op>>
       \/ /\ "catalogOpen" \in Faults
          /\ NotSaved
          /\ UNCHANGED catalogMeta
    /\ UNCHANGED <<dir, dropped, open, history>>

(* The stream's state is read before it is closed, so a late error is lost. *)
WriteCatalogFile ==
    /\ pc = "saveWrite"
    /\ \/ catalogMeta' = Whole(tables) /\ Saved
       \/ "catalogWrite" \in Faults /\ UNCHANGED catalogMeta /\ NotSaved
       \/ "catalogClose" \in Faults /\ UNCHANGED catalogMeta /\ Saved
    /\ UNCHANGED <<dir, dropped, open, history>>

-----------------------------------------------------------------------------
(* CREATE TABLE                                                             *)

(* One more than the largest id in use: the id of a table dropped from the *)
(* end is handed out again.                                                *)
IsNextTableId(i) ==
    /\ \A j \in DOMAIN tables : j < i
    /\ i = 0 \/ i - 1 \in DOMAIN tables

CreateTable(name) ==
    /\ pc = "idle"
    /\ name \notin DOMAIN nameIndex
    /\ next \in Incarnation
    /\ \E id \in Id :
          /\ IsNextTableId(id)
          /\ tables' = With(tables, id, [name |-> name, table |-> next])
          /\ nameIndex' = With(nameIndex, name, id)
          /\ op' = [kind |-> "create", name |-> name, id |-> id, table |-> next]
    /\ next' = next + 1
    /\ pc' = "saveOpen"
    /\ UNCHANGED <<disk, open, created, asked, gone, stored>>

(* The physical creation failed: Catalog::DropTable, whose answer is ignored. *)
RollBack ==
    /\ Unregister(op.name, op.id)
    /\ op' = [op EXCEPT !.kind = "rollback"]
    /\ pc' = "saveOpen"

\* Mutant: the storage already open under the id is handed back.
MakeDirectory_TakesOpen ==
    /\ pc = "makeDirectory"
    /\ IF op.id \in DOMAIN open
          THEN /\ created' = created \cup {op.table}
               /\ pc' = "idle"
               /\ op' = NoCall
               /\ UNCHANGED <<catalog, dir>>
          ELSE /\ \/ /\ dir' = With(dir, op.id, [table |-> op.table, whole |-> FALSE, rows |-> FALSE])
                     /\ pc' = "writeTable"
                     /\ UNCHANGED <<catalog, op>>
                  \/ /\ {"directory", "tableOpen"} \cap Faults # {}
                     /\ RollBack
                     /\ UNCHANGED dir
               /\ UNCHANGED created
    /\ UNCHANGED <<catalogMeta, dropped, open, next, asked, gone, stored>>

(* StorageManager::CreateTable refuses an id that is open; TableStorage::Create *)
(* makes the directory, which may already exist, and truncates its table.meta.  *)
MakeDirectory ==
    /\ pc = "makeDirectory"
    /\ \/ /\ op.id \notin DOMAIN open
          /\ dir' = With(dir, op.id, [table |-> op.table, whole |-> FALSE, rows |-> FALSE])
          /\ pc' = "writeTable"
          /\ UNCHANGED <<catalog, op>>
       \/ /\ op.id \in DOMAIN open \/ {"directory", "tableOpen"} \cap Faults # {}
          /\ RollBack
          /\ UNCHANGED dir
    /\ UNCHANGED <<catalogMeta, dropped, open, history>>

WriteTableMeta ==
    LET Done == /\ open' = With(open, op.id, [table |-> op.table, listed |-> FALSE, unflushed |-> FALSE])
                /\ created' = created \cup {op.table}
                /\ pc' = "idle"
                /\ op' = NoCall
                /\ UNCHANGED catalog
    IN /\ pc = "writeTable"
       /\ \/ dir' = [dir EXCEPT ![op.id].whole = TRUE] /\ Done
          \/ "tableClose" \in Faults /\ UNCHANGED dir /\ Done
          \/ "tableWrite" \in Faults /\ UNCHANGED <<dir, open, created>> /\ RollBack
       /\ UNCHANGED <<catalogMeta, dropped, next, asked, gone, stored>>

-----------------------------------------------------------------------------
(* INSERT and Flush, as far as the directory is concerned.                  *)

\* Mutant: the storage opened for a table starts from an empty table.meta.
Insert_OpensEmpty(name) ==
    /\ pc = "idle"
    /\ name \in DOMAIN nameIndex
    /\ LET id == nameIndex[name] IN
         /\ id \in DOMAIN dir
         /\ dir[id].whole
         /\ open' = With(open, id, [table |-> dir[id].table,
                                    listed |-> id \in DOMAIN open /\ open[id].listed,
                                    unflushed |-> TRUE])
    /\ UNCHANGED <<disk, catalog, pc, op, history>>

(* StorageManager::GetTable followed by Append.  A table that is not open is  *)
(* opened from whatever the directory of its id holds.                        *)
Insert(name) ==
    /\ pc = "idle"
    /\ name \in DOMAIN nameIndex
    /\ LET id == nameIndex[name] IN
         \/ /\ id \in DOMAIN open
            /\ open' = [open EXCEPT ![id].unflushed = TRUE]
         \/ /\ id \notin DOMAIN open
            /\ id \in DOMAIN dir
            /\ dir[id].whole
            /\ open' = With(open, id, [table |-> dir[id].table,
                                       listed |-> dir[id].rows, unflushed |-> TRUE])
    /\ UNCHANGED <<disk, catalog, pc, op, history>>

(* What TableStorage::Flush may leave of an open table: its directory and   *)
(* the rows its metadata_ lists.  A segment that cannot be written is lost,  *)
(* table.meta may refuse to open or stay torn.                               *)
Flushed(id) ==
    LET all == open[id].listed \/ open[id].unflushed
        Meta(rows, whole) == [table |-> dir[id].table, whole |-> whole, rows |-> rows]
    IN {[left |-> Meta(all, TRUE), listed |-> all]}
       \cup {[left |-> Meta(open[id].listed, TRUE), listed |-> open[id].listed] : f \in {"segment"} \cap Faults}
       \cup {[left |-> dir[id], listed |-> all] : f \in {"tableOpen"} \cap Faults}
       \cup {[left |-> Meta(all, FALSE), listed |-> all] : f \in {"tableWrite"} \cap Faults}

(* Flush of the storages open under ids; their listed rows become the given ones. *)
FlushInto(ids, outcome) ==
    /\ \A i \in ids : outcome[i] \in Flushed(i)
    /\ dir' = [i \in DOMAIN dir |-> IF i \in ids THEN outcome[i].left ELSE dir[i]]
    /\ stored' = stored \cup {dir[i].table : i \in {j \in ids : dir'[j].whole /\ dir'[j].rows}}

Outcomes(ids) == [ids -> UNION {Flushed(i) : i \in ids}]

Flush ==
    /\ pc = "idle"
    /\ \E outcome \in Outcomes(DOMAIN open) :
          /\ FlushInto(DOMAIN open, outcome)
          /\ open' = [i \in DOMAIN open |->
                         [open[i] EXCEPT !.listed = outcome[i].listed, !.unflushed = FALSE]]
    /\ UNCHANGED <<catalogMeta, dropped, catalog, pc, op, next, created, asked, gone>>

-----------------------------------------------------------------------------
(* DROP TABLE                                                               *)

DropTable(name) ==
    /\ pc = "idle"
    /\ name \in DOMAIN nameIndex
    /\ LET id == nameIndex[name] IN
         /\ Unregister(name, id)
         /\ op' = [kind |-> "drop", name |-> name, id |-> id, table |-> tables[id].table]
         /\ asked' = asked \cup {tables[id].table}
    /\ pc' = "saveOpen"
    /\ UNCHANGED <<disk, open, next, created, gone, stored>>

Return(answer) ==
    /\ gone' = IF answer THEN gone \cup {op.table} ELSE gone
    /\ pc' = "idle"
    /\ op' = NoCall

(* tables_.erase: the destructor of TableStorage flushes what is left.  The  *)
(* schema it points to went with the catalog entry, so it may also bring the *)
(* process down here.                                                        *)
CloseTable ==
    /\ pc = "close"
    /\ IF op.id \in DOMAIN open /\ open[op.id].unflushed
          THEN \E outcome \in Outcomes({op.id}) : FlushInto({op.id}, outcome)
          ELSE UNCHANGED <<dir, stored>>
    /\ open' = Without(open, op.id)
    /\ pc' = "clearMark"
    /\ UNCHANGED <<catalogMeta, dropped, catalog, op, next, created, asked, gone>>

(* A directory left by an earlier DROP of the same id makes room. *)
ClearMark ==
    /\ pc = "clearMark"
    /\ \/ op.id \notin DOMAIN dir /\ Return(TRUE) /\ UNCHANGED dropped
       \/ /\ op.id \in DOMAIN dir
          /\ dropped' = Without(dropped, op.id)
          /\ pc' = "rename"
          /\ UNCHANGED <<op, gone>>
       \/ /\ op.id \in DOMAIN dir \cap DOMAIN dropped
          /\ "remove" \in Faults
          /\ Return(FALSE)
          /\ UNCHANGED dropped
    /\ UNCHANGED <<catalogMeta, dir, catalog, open, next, created, asked, stored>>

\* Mutant: the answer of the rename is ignored.
Rename_Unchecked ==
    /\ pc = "rename"
    /\ \/ /\ dropped' = With(dropped, op.id, dir[op.id])
          /\ dir' = Without(dir, op.id)
       \/ /\ "rename" \in Faults
          /\ UNCHANGED <<dir, dropped>>
    /\ Return(TRUE)
    /\ UNCHANGED <<catalogMeta, catalog, open, next, created, asked, stored>>

Rename ==
    /\ pc = "rename"
    /\ \/ /\ dropped' = With(dropped, op.id, dir[op.id])
          /\ dir' = Without(dir, op.id)
          /\ Return(TRUE)
       \/ /\ "rename" \in Faults
          /\ Return(FALSE)
          /\ UNCHANGED <<dir, dropped>>
    /\ UNCHANGED <<catalogMeta, catalog, open, next, created, asked, stored>>

-----------------------------------------------------------------------------
(* The end of the process, with and without ~StorageManager.                *)

Stop ==
    /\ nameIndex' = NoTables
    /\ tables' = NoTables
    /\ open' = NoTables
    /\ op' = NoCall
    /\ pc' = "down"
    /\ UNCHANGED <<catalogMeta, dropped, next, created, asked, gone>>

CloseDatabase ==
    /\ pc = "idle"
    /\ \E outcome \in Outcomes(DOMAIN open) : FlushInto(DOMAIN open, outcome)
    /\ Stop

Crash ==
    /\ "crash" \in Faults
    /\ pc # "down"
    /\ Stop
    /\ UNCHANGED <<dir, stored>>

Next ==
    \/ LoadMeta
    \/ CreateCatalog
    \/ OpenCatalogFile
    \/ WriteCatalogFile
    \/ \E name \in Name : CreateTable(name) \/ DropTable(name) \/ Insert(name)
    \/ MakeDirectory
    \/ WriteTableMeta
    \/ Flush
    \/ CloseTable
    \/ ClearMark
    \/ Rename
    \/ CloseDatabase
    \/ Crash

Spec == Init /\ [][Next]_vars

-----------------------------------------------------------------------------
(* Properties                                                               *)

Up == pc # "down"
LivesIn(u, id) == id \in DOMAIN dir /\ dir[id].table = u
LiveNow == {tables[i].table : i \in DOMAIN tables}

\* Every variable keeps to its set.
TypeOK ==
    /\ catalogMeta \in [state : {"absent", "torn", "whole"}, tables : PartialFunctions(Id, Entry)]
    /\ dir \in PartialFunctions(Id, Directory)
    /\ dropped \in PartialFunctions(Id, Directory)
    /\ nameIndex \in PartialFunctions(Name, Id)
    /\ tables \in PartialFunctions(Id, Entry)
    /\ open \in PartialFunctions(Id, Storage)
    /\ next \in 1..(MaxTable + 1)
    /\ created \cup asked \cup gone \cup stored \subseteq Incarnation

\* name_index_ and the entries of the Catalog say the same, whatever was rolled
\* back, left behind by a failed save or read again.
CatalogAgrees ==
    /\ \A n \in DOMAIN nameIndex :
          nameIndex[n] \in DOMAIN tables /\ tables[nameIndex[n]].name = n
    /\ \A i \in DOMAIN tables :
          tables[i].name \in DOMAIN nameIndex /\ nameIndex[tables[i].name] = i

\* Between calls, the storage open under the id of a table.
ServedTo(i) == pc = "idle" /\ i \in DOMAIN tables \cap DOMAIN open

\* GetTable opens the directory of an id, whoever it was made for, and
\* storage_manager.h:38 promises the storage of the table asked for.  Rows reach
\* files made for another table only while the table's own CREATE never returned
\* true, and only files of a table that somebody began to drop and no DROP reported
\* as gone: what two calls that died halfway leave is all that can be mixed up.
ForeignFilesAreLeftovers ==
    \A i \in Id : ServedTo(i) /\ open[i].table # tables[i].table =>
        /\ tables[i].table \notin created
        /\ open[i].table \in asked \ gone

\* A table whose CREATE returned true and that nobody began to drop is known
\* to the running database and listed by every whole catalog.meta under the id
\* of its own directory: no failed call for another table, no roll-back and no
\* restart loses it or hands out its id.
CreatedStayListed ==
    \A u \in created \ asked :
        \E id \in Id : /\ LivesIn(u, id)
                       /\ Up => id \in DOMAIN tables /\ tables[id].table = u
                       /\ catalogMeta.state = "whole" =>
                             /\ id \in DOMAIN catalogMeta.tables
                             /\ catalogMeta.tables[id].table = u

\* Rows of such a table that a table.meta has listed stay in its directory, as
\* long as its table.meta is whole.
StoredRowsStay ==
    \A u \in (created \cap stored) \ asked :
        \E id \in Id : LivesIn(u, id) /\ (dir[id].whole => dir[id].rows)

\* A table whose DROP returned true does not come back, neither in the running
\* database, nor in a whole catalog.meta, nor in a directory some later table
\* with its id could open.
DroppedStayGone ==
    \A u \in gone :
        /\ u \notin LiveNow
        /\ \A i \in DOMAIN catalogMeta.tables : catalogMeta.tables[i].table # u
        /\ \A id \in DOMAIN dir : dir[id].table # u

=============================================================================
