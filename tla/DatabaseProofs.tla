--------------------------- MODULE DatabaseProofs ---------------------------
(***************************************************************************)
(* Theorems about Database, for every set of names, number of tables and   *)
(* combination of faults.                                                  *)
(*                                                                         *)
(* The first part is about types and about the two maps of the catalog.    *)
(* The second is about what becomes of a table over the whole history of a *)
(* database.  The program hands ids out again, so the argument there is    *)
(* about claims: each incarnation is found under one id only, wherever it  *)
(* is written down.  The last part is about files: whose they are when the *)
(* program opens the directory of an id.                                   *)
(***************************************************************************)
EXTENDS Database, TLAPS

-----------------------------------------------------------------------------
(* Lemmas about maps *)

\* A partial function is a function from its domain.
LEMMA PartialFunctionFacts ==
    ASSUME NEW A, NEW B, NEW f
    PROVE  f \in PartialFunctions(A, B) <=> f \in [DOMAIN f -> B] /\ DOMAIN f \subseteq A
    BY DEF PartialFunctions

\* With changes one argument and adds it to the domain.
LEMMA WithFacts ==
    ASSUME NEW f, NEW x, NEW v
    PROVE  /\ DOMAIN With(f, x, v) = DOMAIN f \cup {x}
           /\ With(f, x, v)[x] = v
           /\ \A y \in DOMAIN f : y # x => With(f, x, v)[y] = f[y]
    BY DEF With

\* With stays among the partial functions.
LEMMA WithType ==
    ASSUME NEW A, NEW B, NEW f \in PartialFunctions(A, B), NEW x \in A, NEW v \in B
    PROVE  With(f, x, v) \in PartialFunctions(A, B)
  <1>1. f \in [DOMAIN f -> B] /\ DOMAIN f \subseteq A
    BY PartialFunctionFacts
  <1>2. With(f, x, v) \in [DOMAIN f \cup {x} -> B]
    BY <1>1 DEF With
  <1> QED
    BY <1>1, <1>2 DEF PartialFunctions

\* Without removes one argument.
LEMMA WithoutFacts ==
    ASSUME NEW f, NEW x
    PROVE  /\ DOMAIN Without(f, x) = DOMAIN f \ {x}
           /\ \A y \in DOMAIN f \ {x} : Without(f, x)[y] = f[y]
    BY DEF Without, Restrict

\* Without stays among the partial functions.
LEMMA WithoutType ==
    ASSUME NEW A, NEW B, NEW f \in PartialFunctions(A, B), NEW x
    PROVE  Without(f, x) \in PartialFunctions(A, B)
  <1>1. f \in [DOMAIN f -> B] /\ DOMAIN f \subseteq A
    BY PartialFunctionFacts
  <1>2. Without(f, x) \in [DOMAIN f \ {x} -> B]
    BY <1>1 DEF Without, Restrict
  <1> QED
    BY <1>1, <1>2 DEF PartialFunctions

\* The empty map is a partial function of every kind.
LEMMA NoTablesFacts ==
    /\ DOMAIN NoTables = {}
    /\ \A A, B : NoTables \in PartialFunctions(A, B)
  <1>1. DOMAIN NoTables = {}
    BY DEF NoTables
  <1>2. ASSUME NEW A, NEW B PROVE NoTables \in PartialFunctions(A, B)
    <2>1. NoTables \in [{} -> B]
      BY DEF NoTables
    <2> QED
      BY <2>1 DEF PartialFunctions
  <1> QED
    BY <1>1, <1>2

-----------------------------------------------------------------------------
(* Types                                                                    *)

Call == [kind : {"create", "rollback", "drop"}, name : Name, id : Id, table : Incarnation]

\* The call under way fits the place it has reached.
CallFits ==
    /\ op.kind \in {"none", "init"} \/ op \in Call
    /\ pc \in {"down", "idle", "saveOpen", "saveWrite", "makeDirectory", "writeTable",
               "close", "clearMark", "rename"}
    /\ pc \in {"down", "idle"} <=> op.kind = "none"
    /\ pc \in {"makeDirectory", "writeTable"} => op.kind = "create"
    /\ pc \in {"close", "clearMark", "rename"} => op.kind = "drop"

\* An open storage has a directory, which goes only after the storage.
OpenHasDirectory ==
    /\ DOMAIN open \subseteq DOMAIN dir
    /\ pc \in {"writeTable", "rename"} => op.id \in DOMAIN dir
    /\ pc \in {"clearMark", "rename"} => op.id \notin DOMAIN open

TypeInv == TypeOK /\ CallFits /\ OpenHasDirectory

\* Index and entries lead to each other.
Agree(index, entries) ==
    /\ \A n \in DOMAIN index : index[n] \in DOMAIN entries /\ entries[index[n]].name = n
    /\ \A i \in DOMAIN entries : entries[i].name \in DOMAIN index /\ index[entries[i].name] = i

\* A whole catalog.meta has each name once, so that it loads as it was saved.
SavedNamesApart ==
    catalogMeta.state = "whole" =>
        \A i, j \in DOMAIN catalogMeta.tables :
            catalogMeta.tables[i].name = catalogMeta.tables[j].name => i = j

\* The entry a CREATE has made is there until it is taken back.
EntryUnderWay ==
    /\ op.kind = "create" => /\ op.name \in DOMAIN nameIndex
                             /\ nameIndex[op.name] = op.id
                             /\ tables[op.id].table = op.table
    /\ op.kind \in {"drop", "rollback"} => op.id \notin DOMAIN tables

\* Without a database there is nothing in memory.
EmptyWhenDown ==
    pc = "down" \/ op.kind = "init" => nameIndex = NoTables /\ tables = NoTables /\ open = NoTables

IndexInv ==
    /\ Agree(nameIndex, tables)
    /\ SavedNamesApart
    /\ EntryUnderWay
    /\ EmptyWhenDown

\* Incarnations are positive numbers.
LEMMA IncarnationFacts ==
    /\ MaxTable \in Nat
    /\ Incarnation \subseteq Nat
    /\ \A n \in Incarnation : n + 1 \in 1..(MaxTable + 1)
    BY DatabaseAssumption DEF DatabaseAssumption, Incarnation

\* Types are right at first.
LEMMA InitTypeInv == Init => TypeInv
  <1> SUFFICES ASSUME Init PROVE TypeInv
    OBVIOUS
  <1>1. /\ \A A, B : NoTables \in PartialFunctions(A, B)
        /\ DOMAIN NoTables = {}
    BY NoTablesFacts
  <1>2. 1 \in 1..(MaxTable + 1)
    BY IncarnationFacts
  <1>3. catalogMeta \in [state : {"absent", "torn", "whole"}, tables : PartialFunctions(Id, Entry)]
    BY <1>1 DEF Init, Absent
  <1>4. TypeOK
    BY <1>1, <1>2, <1>3 DEF Init, TypeOK
  <1>5. CallFits /\ OpenHasDirectory
    BY <1>1 DEF Init, CallFits, OpenHasDirectory, NoCall
  <1> QED
    BY <1>4, <1>5 DEF TypeInv

\* What a flush leaves of a directory is that of the same table.
LEMMA FlushedFacts ==
    ASSUME TypeInv, NEW id \in DOMAIN open, NEW outcome \in Flushed(id)
    PROVE  /\ outcome.left \in Directory
           /\ outcome.left.table = dir[id].table
           /\ outcome.listed \in BOOLEAN
  <1>1. dir[id] \in Directory /\ open[id] \in Storage
    BY PartialFunctionFacts DEF TypeInv, TypeOK, OpenHasDirectory
  <1>2. open[id].listed \in BOOLEAN /\ open[id].unflushed \in BOOLEAN
    BY <1>1 DEF Storage
  <1> DEFINE all == open[id].listed \/ open[id].unflushed
             Meta(rows, whole) == [table |-> dir[id].table, whole |-> whole, rows |-> rows]
  <1>3. \/ outcome = [left |-> Meta(all, TRUE), listed |-> all]
        \/ outcome = [left |-> Meta(open[id].listed, TRUE), listed |-> open[id].listed]
        \/ outcome = [left |-> dir[id], listed |-> all]
        \/ outcome = [left |-> Meta(all, FALSE), listed |-> all]
    BY DEF Flushed
  <1>4. all \in BOOLEAN
    BY <1>2
  <1>5. ASSUME NEW rows \in BOOLEAN, NEW whole \in BOOLEAN
        PROVE  Meta(rows, whole) \in Directory /\ Meta(rows, whole).table = dir[id].table
    BY <1>1 DEF Directory
  <1> HIDE DEF all, Meta
  <1>6. CASE outcome = [left |-> Meta(all, TRUE), listed |-> all]
    BY <1>4, <1>5, <1>6
  <1>7. CASE outcome = [left |-> Meta(open[id].listed, TRUE), listed |-> open[id].listed]
    BY <1>2, <1>5, <1>7
  <1>8. CASE outcome = [left |-> dir[id], listed |-> all]
    BY <1>1, <1>4, <1>8
  <1>9. CASE outcome = [left |-> Meta(all, FALSE), listed |-> all]
    BY <1>4, <1>5, <1>9
  <1> QED
    BY <1>3, <1>6, <1>7, <1>8, <1>9

\* Flushing changes no directory's owner.
LEMMA FlushIntoFacts ==
    ASSUME TypeInv, NEW ids, ids \subseteq DOMAIN open, NEW outcome, FlushInto(ids, outcome)
    PROVE  /\ DOMAIN dir' = DOMAIN dir
           /\ \A i \in DOMAIN dir : dir'[i].table = dir[i].table
           /\ dir' \in PartialFunctions(Id, Directory)
           /\ stored' \subseteq Incarnation
           /\ \A i \in ids : outcome[i].listed \in BOOLEAN
  <1>1. dir \in [DOMAIN dir -> Directory] /\ DOMAIN dir \subseteq Id
    BY PartialFunctionFacts DEF TypeInv, TypeOK
  <1>2. \A i \in ids : /\ i \in DOMAIN dir
                       /\ outcome[i].left \in Directory
                       /\ outcome[i].left.table = dir[i].table
                       /\ outcome[i].listed \in BOOLEAN
    BY FlushedFacts DEF FlushInto, TypeInv, OpenHasDirectory
  <1>3. dir' = [i \in DOMAIN dir |-> IF i \in ids THEN outcome[i].left ELSE dir[i]]
    BY DEF FlushInto
  <1>4. dir' \in [DOMAIN dir -> Directory]
    BY <1>1, <1>2, <1>3
  <1>5. \A i \in ids : dir[i].table \in Incarnation
    BY <1>1, <1>2 DEF Directory
  <1>6. stored' \subseteq Incarnation
    BY <1>5 DEF FlushInto, TypeInv, TypeOK
  <1> QED
    BY <1>1, <1>2, <1>3, <1>4, <1>6 DEF PartialFunctions

\* What the two catalog maps become when a table leaves them.
LEMMA UnregisterType ==
    ASSUME TypeInv, NEW name, NEW id, Unregister(name, id)
    PROVE  /\ nameIndex' \in PartialFunctions(Name, Id)
           /\ tables' \in PartialFunctions(Id, Entry)
    BY WithoutType DEF Unregister, TypeInv, TypeOK

\* A call that ends, or goes on, after the catalog could not be saved.
LEMMA NotSavedType ==
    ASSUME TypeInv, pc \in {"saveOpen", "saveWrite"}, NotSaved,
           UNCHANGED <<dir, dropped, open, history>>,
           catalogMeta' \in [state : {"absent", "torn", "whole"}, tables : PartialFunctions(Id, Entry)]
    PROVE  TypeInv'
  <1>1. nameIndex' \in PartialFunctions(Name, Id) /\ tables' \in PartialFunctions(Id, Entry)
    BY UnregisterType DEF NotSaved, catalog, TypeInv, TypeOK
  <1>2. TypeOK'
    BY <1>1 DEF TypeInv, TypeOK, history
  <1>3. pc' \in {"idle", "down"} /\ op' = NoCall
    BY DEF NotSaved
  <1> QED
    BY <1>2, <1>3 DEF TypeInv, CallFits, OpenHasDirectory, NoCall

\* A call that goes on, or ends, once the catalog was saved.
LEMMA SavedType ==
    ASSUME TypeInv, pc = "saveWrite", Saved,
           UNCHANGED <<dir, dropped, open, history>>,
           catalogMeta' \in [state : {"absent", "torn", "whole"}, tables : PartialFunctions(Id, Entry)]
    PROVE  TypeInv'
  <1>1. TypeOK'
    BY DEF TypeInv, TypeOK, Saved, catalog, history
  <1>2. \/ op.kind = "create" /\ pc' = "makeDirectory" /\ op' = op
        \/ op.kind = "drop" /\ pc' = "close" /\ op' = op
        \/ pc' = "idle" /\ op' = NoCall
    BY DEF Saved
  <1>3. OpenHasDirectory'
    BY <1>2 DEF TypeInv, OpenHasDirectory
  <1>4. CallFits'
    BY <1>2 DEF TypeInv, CallFits, NoCall
  <1> QED
    BY <1>1, <1>3, <1>4 DEF TypeInv

\* A creation that is undone goes back to saving the catalog.
LEMMA RollBackType ==
    ASSUME TypeInv, pc \in {"makeDirectory", "writeTable"}, RollBack,
           UNCHANGED <<disk, open, history>>
    PROVE  TypeInv'
  <1>1. TypeOK'
    BY UnregisterType DEF RollBack, TypeInv, TypeOK, disk, history
  <1>2. op \in Call /\ op' = [op EXCEPT !.kind = "rollback"] /\ pc' = "saveOpen"
    BY DEF RollBack, TypeInv, CallFits
  <1>3. op' \in Call /\ op'.kind = "rollback"
    BY <1>2 DEF Call
  <1>4. CallFits'
    BY <1>2, <1>3 DEF CallFits
  <1>5. OpenHasDirectory'
    BY <1>2 DEF TypeInv, OpenHasDirectory, disk
  <1> QED
    BY <1>1, <1>4, <1>5 DEF TypeInv

\* The process ends: everything but the disk and the history is forgotten.
LEMMA StopType ==
    ASSUME TypeInv, Stop, DOMAIN dir' = DOMAIN dir,
           dir' \in PartialFunctions(Id, Directory), stored' \subseteq Incarnation
    PROVE  TypeInv'
  <1>1. /\ DOMAIN NoTables = {}
        /\ \A A, B : NoTables \in PartialFunctions(A, B)
    BY NoTablesFacts
  <1>2. TypeOK'
    BY <1>1 DEF Stop, TypeInv, TypeOK
  <1>3. CallFits' /\ OpenHasDirectory'
    BY <1>1 DEF Stop, CallFits, OpenHasDirectory, NoCall
  <1> QED
    BY <1>2, <1>3 DEF TypeInv

\* A name that is known leads to an entry.
LEMMA NamedEntry ==
    ASSUME TypeInv, IndexInv, NEW name \in DOMAIN nameIndex
    PROVE  LET id == nameIndex[name]
           IN id \in DOMAIN tables /\ id \in Id /\ tables[id].table \in Incarnation
  <1>1. nameIndex[name] \in DOMAIN tables
    BY DEF IndexInv, Agree
  <1>2. tables \in [DOMAIN tables -> Entry] /\ DOMAIN tables \subseteq Id
    BY PartialFunctionFacts DEF TypeInv, TypeOK
  <1>3. tables[nameIndex[name]] \in Entry
    BY <1>1, <1>2
  <1> QED
    BY <1>1, <1>2, <1>3 DEF Entry

\* Every action keeps the types and what depends on the place reached.
LEMMA NextTypeInv == TypeInv /\ IndexInv /\ [Next]_vars => TypeInv'
  <1> SUFFICES ASSUME TypeInv, IndexInv, [Next]_vars PROVE TypeInv'
    OBVIOUS
  <1> USE DEF TypeInv
  <1>1. CASE LoadMeta
    <2> DEFINE entries == catalogMeta.tables
    <2>1. entries \in [DOMAIN entries -> Entry] /\ DOMAIN entries \subseteq Id
      BY PartialFunctionFacts DEF TypeOK
    <2>2. \A n \in {entries[i].name : i \in DOMAIN entries} :
             n \in Name /\ (CHOOSE i \in DOMAIN entries : entries[i].name = n) \in Id
      BY <2>1 DEF Entry
    <2>3. nameIndex' \in [{entries[i].name : i \in DOMAIN entries} -> Id]
      BY <1>1, <2>2 DEF LoadMeta
    <2>4. nameIndex' \in PartialFunctions(Name, Id)
      BY <2>2, <2>3 DEF PartialFunctions
    <2>5. TypeOK'
      BY <1>1, <2>4 DEF LoadMeta, TypeOK, disk, history
    <2> QED
      BY <1>1, <2>5 DEF LoadMeta, CallFits, OpenHasDirectory, disk
  <1>2. CASE CreateCatalog
    <2>1. TypeOK'
      BY <1>2 DEF CreateCatalog, TypeOK, disk, catalog, history
    <2> QED
      BY <1>2, <2>1 DEF CreateCatalog, CallFits, OpenHasDirectory, disk
  <1>3. CASE OpenCatalogFile
    <2>1. Torn \in [state : {"absent", "torn", "whole"}, tables : PartialFunctions(Id, Entry)]
      BY NoTablesFacts DEF Torn
    <2>2. CASE catalogMeta' = Torn /\ pc' = "saveWrite" /\ UNCHANGED <<catalog, op>>
      <3>1. TypeOK'
        BY <1>3, <2>1, <2>2 DEF OpenCatalogFile, TypeOK, catalog, history
      <3> QED
        BY <1>3, <2>2, <3>1 DEF OpenCatalogFile, CallFits, OpenHasDirectory
    <2>3. CASE NotSaved /\ UNCHANGED catalogMeta
      BY <1>3, <2>3, NotSavedType DEF OpenCatalogFile, TypeOK
    <2> QED
      BY <1>3, <2>2, <2>3 DEF OpenCatalogFile
  <1>4. CASE WriteCatalogFile
    <2>1. Whole(tables) \in [state : {"absent", "torn", "whole"}, tables : PartialFunctions(Id, Entry)]
      BY DEF Whole, TypeOK
    <2>2. catalogMeta' \in [state : {"absent", "torn", "whole"}, tables : PartialFunctions(Id, Entry)]
      BY <1>4, <2>1 DEF WriteCatalogFile, TypeOK
    <2>3. Saved \/ NotSaved
      BY <1>4 DEF WriteCatalogFile
    <2> QED
      BY <1>4, <2>2, <2>3, SavedType, NotSavedType DEF WriteCatalogFile
  <1>5. ASSUME NEW name \in Name, CreateTable(name) PROVE TypeInv'
    <2>1. PICK id \in Id :
            /\ tables' = With(tables, id, [name |-> name, table |-> next])
            /\ nameIndex' = With(nameIndex, name, id)
            /\ op' = [kind |-> "create", name |-> name, id |-> id, table |-> next]
      BY <1>5 DEF CreateTable
    <2>2. next \in Incarnation /\ next' = next + 1 /\ next' \in 1..(MaxTable + 1)
      BY <1>5, IncarnationFacts DEF CreateTable
    <2>3. [name |-> name, table |-> next] \in Entry /\ op' \in Call
      BY <2>1, <2>2 DEF Entry, Call
    <2>4. tables' \in PartialFunctions(Id, Entry) /\ nameIndex' \in PartialFunctions(Name, Id)
      BY <2>1, <2>3, WithType DEF TypeOK
    <2>5. TypeOK'
      BY <1>5, <2>2, <2>4 DEF CreateTable, TypeOK, disk
    <2> QED
      BY <1>5, <2>1, <2>3, <2>5 DEF CreateTable, CallFits, OpenHasDirectory, disk
  <1>6. ASSUME NEW name \in Name, DropTable(name) PROVE TypeInv'
    <2> DEFINE id == nameIndex[name]
    <2>1. /\ Unregister(name, id)
          /\ op' = [kind |-> "drop", name |-> name, id |-> id, table |-> tables[id].table]
          /\ asked' = asked \cup {tables[id].table}
          /\ name \in DOMAIN nameIndex
      BY <1>6 DEF DropTable
    <2>2. id \in DOMAIN tables /\ id \in Id /\ tables[id].table \in Incarnation
      BY <2>1, NamedEntry
    <2>3. op' \in Call /\ op'.kind = "drop"
      BY <2>1, <2>2 DEF Call
    <2>4. TypeOK'
      BY <1>6, <2>1, <2>2, UnregisterType DEF DropTable, TypeOK, disk
    <2> QED
      BY <1>6, <2>3, <2>4 DEF DropTable, CallFits, OpenHasDirectory, disk
  <1>7. ASSUME NEW name \in Name, Insert(name) PROVE TypeInv'
    <2> DEFINE id == nameIndex[name]
    <2>1. id \in DOMAIN tables /\ id \in Id /\ tables[id].table \in Incarnation
      <3>1. name \in DOMAIN nameIndex
        BY <1>7 DEF Insert
      <3> QED
        BY <3>1, NamedEntry
    <2>2. open \in [DOMAIN open -> Storage] /\ dir \in [DOMAIN dir -> Directory]
      BY PartialFunctionFacts DEF TypeOK
    <2>3. CASE id \in DOMAIN open /\ open' = [open EXCEPT ![id].unflushed = TRUE]
      <3>1. open' \in [DOMAIN open -> Storage]
        BY <2>2, <2>3 DEF Storage
      <3>2. open' \in PartialFunctions(Id, Storage) /\ DOMAIN open' = DOMAIN open
        BY <3>1, PartialFunctionFacts DEF TypeOK
      <3>3. TypeOK'
        BY <1>7, <3>2 DEF Insert, TypeOK, disk, catalog, history
      <3> QED
        BY <1>7, <3>2, <3>3 DEF Insert, CallFits, OpenHasDirectory, disk
    <2>4. CASE /\ id \in DOMAIN dir
               /\ open' = With(open, id, [table |-> dir[id].table,
                                          listed |-> dir[id].rows, unflushed |-> TRUE])
      <3> DEFINE storage == [table |-> dir[id].table, listed |-> dir[id].rows, unflushed |-> TRUE]
      <3>1. storage \in Storage
        BY <2>1, <2>2, <2>4 DEF Storage, Directory
      <3>2. open' \in PartialFunctions(Id, Storage) /\ DOMAIN open' = DOMAIN open \cup {id}
        <4>1. open' = With(open, id, storage) /\ id \in Id /\ open \in PartialFunctions(Id, Storage)
          BY <2>1, <2>4 DEF TypeOK
        <4> HIDE DEF storage, id
        <4> QED
          BY <3>1, <4>1, WithType, WithFacts
      <3>3. TypeOK'
        BY <1>7, <3>2 DEF Insert, TypeOK, disk, catalog, history
      <3>4. pc' = "idle" /\ UNCHANGED <<dir, op>>
        BY <1>7 DEF Insert, disk
      <3> QED
        BY <2>4, <3>2, <3>3, <3>4, <1>7 DEF Insert, CallFits, OpenHasDirectory
    <2> QED
      BY <1>7, <2>3, <2>4 DEF Insert
  <1>8. CASE MakeDirectory
    <2>1. CASE /\ dir' = With(dir, op.id, [table |-> op.table, whole |-> FALSE, rows |-> FALSE])
               /\ pc' = "writeTable"
               /\ UNCHANGED <<catalog, op>>
      <3>1. op \in Call
        BY <1>8 DEF MakeDirectory, CallFits
      <3>2. [table |-> op.table, whole |-> FALSE, rows |-> FALSE] \in Directory /\ op.id \in Id
        BY <3>1 DEF Call, Directory
      <3>3. dir' \in PartialFunctions(Id, Directory) /\ DOMAIN dir' = DOMAIN dir \cup {op.id}
        BY <2>1, <3>2, WithType, WithFacts DEF TypeOK
      <3>4. TypeOK'
        BY <1>8, <2>1, <3>3 DEF MakeDirectory, TypeOK, catalog, history
      <3> QED
        BY <1>8, <2>1, <3>3, <3>4 DEF MakeDirectory, CallFits, OpenHasDirectory
    <2>2. CASE RollBack /\ UNCHANGED dir
      BY <1>8, <2>2, RollBackType DEF MakeDirectory, disk
    <2> QED
      BY <1>8, <2>1, <2>2 DEF MakeDirectory
  <1>9. CASE WriteTableMeta
    <2>1. op \in Call /\ op.id \in DOMAIN dir /\ op.id \in Id /\ op.table \in Incarnation
      BY <1>9 DEF WriteTableMeta, CallFits, OpenHasDirectory, Call
    <2>2. CASE RollBack /\ UNCHANGED <<dir, open, created>>
      BY <1>9, <2>2, RollBackType DEF WriteTableMeta, disk, history
    <2>3. CASE /\ dir' = [dir EXCEPT ![op.id].whole = TRUE] \/ dir' = dir
               /\ open' = With(open, op.id, [table |-> op.table, listed |-> FALSE, unflushed |-> FALSE])
               /\ created' = created \cup {op.table}
               /\ pc' = "idle"
               /\ op' = NoCall
               /\ UNCHANGED catalog
      <3>1. dir \in [DOMAIN dir -> Directory]
        BY PartialFunctionFacts DEF TypeOK
      <3>2. dir' \in [DOMAIN dir -> Directory]
        BY <2>1, <2>3, <3>1 DEF Directory
      <3>3. dir' \in PartialFunctions(Id, Directory) /\ DOMAIN dir' = DOMAIN dir
        BY <3>2, PartialFunctionFacts DEF TypeOK
      <3>4. [table |-> op.table, listed |-> FALSE, unflushed |-> FALSE] \in Storage
        BY <2>1 DEF Storage
      <3>5. open' \in PartialFunctions(Id, Storage) /\ DOMAIN open' = DOMAIN open \cup {op.id}
        BY <2>1, <2>3, <3>4, WithType, WithFacts DEF TypeOK
      <3>6. TypeOK'
        BY <1>9, <2>1, <2>3, <3>3, <3>5 DEF WriteTableMeta, TypeOK, catalog
      <3> QED
        BY <2>1, <2>3, <3>3, <3>5, <3>6 DEF CallFits, OpenHasDirectory, NoCall
    <2> QED
      BY <1>9, <2>2, <2>3 DEF WriteTableMeta
  <1>10. CASE Flush
    <2>1. PICK outcome \in Outcomes(DOMAIN open) :
             /\ FlushInto(DOMAIN open, outcome)
             /\ open' = [i \in DOMAIN open |->
                            [open[i] EXCEPT !.listed = outcome[i].listed, !.unflushed = FALSE]]
      BY <1>10 DEF Flush
    <2>2. /\ DOMAIN dir' = DOMAIN dir
          /\ dir' \in PartialFunctions(Id, Directory)
          /\ stored' \subseteq Incarnation
          /\ \A i \in DOMAIN open : outcome[i].listed \in BOOLEAN
      BY <2>1, FlushIntoFacts
    <2>3. open \in [DOMAIN open -> Storage]
      BY PartialFunctionFacts DEF TypeOK
    <2>4. open' \in [DOMAIN open -> Storage]
      BY <2>1, <2>2, <2>3 DEF Storage
    <2>5. open' \in PartialFunctions(Id, Storage) /\ DOMAIN open' = DOMAIN open
      BY <2>4, PartialFunctionFacts DEF TypeOK
    <2>6. TypeOK'
      BY <1>10, <2>2, <2>5 DEF Flush, TypeOK, catalog
    <2> QED
      BY <1>10, <2>2, <2>5, <2>6 DEF Flush, CallFits, OpenHasDirectory
  <1>11. CASE CloseTable
    <2>1. /\ DOMAIN dir' = DOMAIN dir
          /\ dir' \in PartialFunctions(Id, Directory)
          /\ stored' \subseteq Incarnation
      <3>1. CASE UNCHANGED <<dir, stored>>
        BY <3>1 DEF TypeOK
      <3>2. ASSUME NEW outcome, op.id \in DOMAIN open, FlushInto({op.id}, outcome)
            PROVE  <2>1!1 /\ <2>1!2 /\ <2>1!3
        <4>1. {op.id} \subseteq DOMAIN open
          BY <3>2
        <4> QED
          BY <3>2, <4>1, FlushIntoFacts
      <3> QED
        BY <1>11, <3>1, <3>2 DEF CloseTable
    <2>2. open' = Without(open, op.id) /\ pc' = "clearMark" /\ op' = op /\ op.kind = "drop"
      BY <1>11 DEF CloseTable, CallFits
    <2>3. open' \in PartialFunctions(Id, Storage) /\ DOMAIN open' = DOMAIN open \ {op.id}
      BY <2>2, WithoutType, WithoutFacts DEF TypeOK
    <2>4. TypeOK'
      BY <1>11, <2>1, <2>3 DEF CloseTable, TypeOK, catalog
    <2> QED
      BY <2>1, <2>2, <2>3, <2>4 DEF CallFits, OpenHasDirectory
  <1>12. CASE ClearMark
    <2>1. op \in Call /\ op.table \in Incarnation
      BY <1>12 DEF ClearMark, CallFits, Call
    <2>2. dropped' \in PartialFunctions(Id, Directory)
      <3>1. dropped' = dropped \/ dropped' = Without(dropped, op.id)
        BY <1>12 DEF ClearMark
      <3> QED
        BY <3>1, WithoutType DEF TypeOK
    <2>3. \/ pc' = "rename" /\ op.id \in DOMAIN dir /\ UNCHANGED <<op, gone>>
          \/ pc' = "idle" /\ op' = NoCall /\ gone' \subseteq Incarnation
      BY <1>12, <2>1 DEF ClearMark, Return, TypeOK
    <2>4. TypeOK'
      BY <1>12, <2>2, <2>3 DEF ClearMark, TypeOK, catalog
    <2> QED
      BY <1>12, <2>3, <2>4 DEF ClearMark, CallFits, OpenHasDirectory, NoCall
  <1>13. CASE Rename
    <2>1. op \in Call /\ op.table \in Incarnation /\ op.id \in Id /\ op.id \notin DOMAIN open
      BY <1>13 DEF Rename, CallFits, OpenHasDirectory, Call
    <2>2. pc' = "idle" /\ op' = NoCall /\ gone' \subseteq Incarnation /\ open' = open
      BY <1>13, <2>1 DEF Rename, Return, TypeOK
    <2>3. /\ dir' \in PartialFunctions(Id, Directory)
          /\ dropped' \in PartialFunctions(Id, Directory)
          /\ DOMAIN open \subseteq DOMAIN dir'
      <3>1. CASE UNCHANGED <<dir, dropped>>
        BY <3>1 DEF TypeOK, OpenHasDirectory
      <3>2. CASE dropped' = With(dropped, op.id, dir[op.id]) /\ dir' = Without(dir, op.id)
        <4>1. dir[op.id] \in Directory
          BY <1>13, PartialFunctionFacts DEF Rename, TypeOK, OpenHasDirectory
        <4>2. dropped' \in PartialFunctions(Id, Directory)
          BY <2>1, <3>2, <4>1, WithType DEF TypeOK
        <4>3. dir' \in PartialFunctions(Id, Directory)
          BY <3>2, WithoutType DEF TypeOK
        <4>4. DOMAIN dir' = DOMAIN dir \ {op.id}
          BY <3>2, WithoutFacts
        <4> QED
          BY <2>1, <4>2, <4>3, <4>4 DEF OpenHasDirectory
      <3> QED
        BY <1>13, <3>1, <3>2 DEF Rename
    <2>4. TypeOK'
      BY <1>13, <2>2, <2>3 DEF Rename, TypeOK, catalog
    <2> QED
      BY <2>2, <2>3, <2>4 DEF CallFits, OpenHasDirectory, NoCall
  <1>14. CASE CloseDatabase
    <2>1. PICK outcome : FlushInto(DOMAIN open, outcome) /\ Stop
      BY <1>14 DEF CloseDatabase
    <2> QED
      BY <2>1, FlushIntoFacts, StopType
  <1>15. CASE Crash
    <2>1. Stop /\ UNCHANGED <<dir, stored>>
      BY <1>15 DEF Crash
    <2> QED
      BY <2>1, StopType DEF TypeOK
  <1>16. CASE UNCHANGED vars
    BY <1>16 DEF vars, disk, catalog, history, TypeOK, CallFits, OpenHasDirectory
  <1> QED
    BY <1>1, <1>2, <1>3, <1>4, <1>5, <1>6, <1>7, <1>8, <1>9, <1>10, <1>11, <1>12, <1>13,
       <1>14, <1>15, <1>16 DEF Next

-----------------------------------------------------------------------------
(* Names and entries                                                        *)

\* A new entry under a new name keeps the two maps of the catalog together.
LEMMA AgreeWith ==
    ASSUME NEW index, NEW entries, Agree(index, entries),
           NEW n, n \notin DOMAIN index, NEW i, i \notin DOMAIN entries,
           NEW entry, entry.name = n
    PROVE  Agree(With(index, n, i), With(entries, i, entry))
  <1> DEFINE ix == With(index, n, i)
             en == With(entries, i, entry)
  <1>1. /\ DOMAIN ix = DOMAIN index \cup {n} /\ ix[n] = i
        /\ \A m \in DOMAIN index : m # n => ix[m] = index[m]
    BY DEF With
  <1>2. /\ DOMAIN en = DOMAIN entries \cup {i} /\ en[i] = entry
        /\ \A j \in DOMAIN entries : j # i => en[j] = entries[j]
    BY DEF With
  <1> HIDE DEF ix, en
  <1> SUFFICES Agree(ix, en)
    BY DEF ix, en
  <1>3. \A m \in DOMAIN index : index[m] \in DOMAIN entries /\ entries[index[m]].name = m
    BY DEF Agree
  <1>4. \A j \in DOMAIN entries :
           entries[j].name \in DOMAIN index /\ index[entries[j].name] = j
    BY DEF Agree
  <1>5. \A m \in DOMAIN ix : ix[m] \in DOMAIN en /\ en[ix[m]].name = m
    BY <1>1, <1>2, <1>3
  <1>6. \A j \in DOMAIN en : en[j].name \in DOMAIN ix /\ ix[en[j].name] = j
    BY <1>1, <1>2, <1>4
  <1> QED
    BY <1>5, <1>6 DEF Agree

\* An entry that leaves with its name does so as well.
LEMMA AgreeWithout ==
    ASSUME NEW index, NEW entries, Agree(index, entries), NEW n \in DOMAIN index
    PROVE  Agree(Without(index, n), Without(entries, index[n]))
  <1> DEFINE ix == Without(index, n)
             en == Without(entries, index[n])
  <1>1. /\ DOMAIN ix = DOMAIN index \ {n}
        /\ \A m \in DOMAIN index \ {n} : ix[m] = index[m]
    BY WithoutFacts
  <1>2. /\ DOMAIN en = DOMAIN entries \ {index[n]}
        /\ \A j \in DOMAIN entries \ {index[n]} : en[j] = entries[j]
    BY WithoutFacts
  <1> HIDE DEF ix, en
  <1> SUFFICES Agree(ix, en)
    BY DEF ix, en
  <1> QED
    BY <1>1, <1>2 DEF Agree

\* Empty maps agree.
LEMMA AgreeEmpty == Agree(NoTables, NoTables)
    BY NoTablesFacts DEF Agree

\* The maps agree at first.
LEMMA InitIndexInv == Init => IndexInv
    BY NoTablesFacts, AgreeEmpty
       DEF Init, IndexInv, SavedNamesApart, EntryUnderWay, EmptyWhenDown, Absent, NoCall

\* A catalog without one of its tables.
LEMMA UnregisterIndexInv ==
    ASSUME IndexInv, NEW name \in DOMAIN nameIndex, NEW id, id = nameIndex[name],
           Unregister(name, id)
    PROVE  /\ Agree(nameIndex', tables')
           /\ DOMAIN tables' = DOMAIN tables \ {id}
           /\ \A i \in DOMAIN tables' : tables'[i] = tables[i]
    BY AgreeWithout, WithoutFacts DEF Unregister, IndexInv

\* The names of a saved catalog are those of a catalog.
LEMMA AgreeNamesApart ==
    ASSUME NEW index, NEW entries, Agree(index, entries),
           NEW i \in DOMAIN entries, NEW j \in DOMAIN entries, entries[i].name = entries[j].name
    PROVE  i = j
    BY DEF Agree

\* The steps that end the saving of the catalog.
LEMMA NotSavedIndexInv ==
    ASSUME TypeInv, IndexInv, pc \in {"saveOpen", "saveWrite"}, NotSaved, open' = open, SavedNamesApart'
    PROVE  IndexInv'
  <1>1. op' = NoCall /\ pc' = (IF op.kind = "init" THEN "down" ELSE "idle")
    BY DEF NotSaved
  <1>2. CASE op.kind = "create"
    <2>1. Unregister(op.name, op.id) /\ op.name \in DOMAIN nameIndex /\ op.id = nameIndex[op.name]
      BY <1>2 DEF NotSaved, IndexInv, EntryUnderWay
    <2>2. /\ Agree(nameIndex', tables')
          /\ DOMAIN tables' = DOMAIN tables \ {op.id}
          /\ \A i \in DOMAIN tables' : tables'[i] = tables[i]
      BY <2>1, UnregisterIndexInv
    <2> QED
      BY <1>1, <1>2, <2>2 DEF IndexInv, EntryUnderWay, EmptyWhenDown, NoCall
  <1>3. CASE op.kind # "create"
    BY <1>1, <1>3 DEF NotSaved, catalog, IndexInv, EntryUnderWay, EmptyWhenDown, NoCall
  <1> QED
    BY <1>2, <1>3

\* Going on after the catalog was saved changes neither map.
LEMMA SavedIndexInv ==
    ASSUME TypeInv, IndexInv, pc = "saveWrite", Saved, open' = open, SavedNamesApart'
    PROVE  IndexInv'
  <1>1. \/ op' = op /\ op.kind \in {"create", "drop"}
        \/ op' = NoCall /\ op.kind \notin {"create", "drop"}
    BY DEF Saved
  <1>2. pc' # "down" /\ UNCHANGED <<nameIndex, tables>>
    BY DEF Saved, catalog
  <1> QED
    BY <1>1, <1>2 DEF IndexInv, EntryUnderWay, EmptyWhenDown, NoCall

\* A creation that is taken back.
LEMMA RollBackIndexInv ==
    ASSUME TypeInv, IndexInv, op.kind = "create", RollBack, open' = open, catalogMeta' = catalogMeta
    PROVE  IndexInv'
  <1>1. Unregister(op.name, op.id) /\ op.name \in DOMAIN nameIndex /\ op.id = nameIndex[op.name]
    BY DEF RollBack, IndexInv, EntryUnderWay
  <1>2. /\ Agree(nameIndex', tables')
        /\ DOMAIN tables' = DOMAIN tables \ {op.id}
        /\ \A i \in DOMAIN tables' : tables'[i] = tables[i]
    BY <1>1, UnregisterIndexInv
  <1>3. op \in Call /\ op' = [op EXCEPT !.kind = "rollback"] /\ pc' = "saveOpen"
    BY DEF RollBack, TypeInv, CallFits
  <1>4. op'.kind = "rollback" /\ op'.id = op.id
    BY <1>3 DEF Call
  <1> QED
    BY <1>2, <1>3, <1>4 DEF IndexInv, SavedNamesApart, EntryUnderWay, EmptyWhenDown

\* The end of the process.
LEMMA StopIndexInv ==
    ASSUME IndexInv, Stop PROVE IndexInv'
  <1>1. nameIndex' = NoTables /\ tables' = NoTables /\ open' = NoTables
    BY DEF Stop
  <1>2. op' = NoCall /\ catalogMeta' = catalogMeta
    BY DEF Stop
  <1> QED
    BY <1>1, <1>2, NoTablesFacts, AgreeEmpty
       DEF IndexInv, SavedNamesApart, EntryUnderWay, EmptyWhenDown, NoCall

\* Every action keeps names and entries together.
LEMMA NextIndexInv == TypeInv /\ IndexInv /\ [Next]_vars => IndexInv'
  <1> SUFFICES ASSUME TypeInv, IndexInv, [Next]_vars PROVE IndexInv'
    OBVIOUS
  <1>1. CASE LoadMeta
    <2> DEFINE entries == catalogMeta.tables
               named == {entries[i].name : i \in DOMAIN entries}
    <2>1. /\ tables' = entries
          /\ nameIndex' = [n \in named |-> CHOOSE i \in DOMAIN entries : entries[i].name = n]
          /\ open = NoTables /\ UNCHANGED <<catalogMeta, open, op>> /\ op.kind = "none" /\ pc' = "idle"
      BY <1>1 DEF LoadMeta, disk, IndexInv, EmptyWhenDown, TypeInv, CallFits
    <2>2. \A i, j \in DOMAIN entries : entries[i].name = entries[j].name => i = j
      BY <1>1 DEF LoadMeta, IndexInv, SavedNamesApart
    <2>3. \A n \in named : nameIndex'[n] \in DOMAIN entries /\ entries[nameIndex'[n]].name = n
      BY <2>1
    <2>4. \A i \in DOMAIN entries : entries[i].name \in named /\ nameIndex'[entries[i].name] = i
      BY <2>2, <2>3
    <2>5. Agree(nameIndex', tables')
      BY <2>1, <2>3, <2>4 DEF Agree
    <2> QED
      BY <2>1, <2>5, NoTablesFacts
         DEF IndexInv, SavedNamesApart, EntryUnderWay, EmptyWhenDown
  <1>2. CASE CreateCatalog
    BY <1>2 DEF CreateCatalog, disk, catalog,
                IndexInv, SavedNamesApart, EntryUnderWay, EmptyWhenDown
  <1>3. CASE OpenCatalogFile
    <2>1. CASE catalogMeta' = Torn /\ pc' = "saveWrite" /\ UNCHANGED <<catalog, op>>
      BY <1>3, <2>1 DEF OpenCatalogFile, Torn, catalog,
                IndexInv, SavedNamesApart, EntryUnderWay, EmptyWhenDown
    <2>2. CASE NotSaved /\ UNCHANGED catalogMeta
      BY <1>3, <2>2, NotSavedIndexInv DEF OpenCatalogFile, IndexInv, SavedNamesApart
    <2> QED
      BY <1>3, <2>1, <2>2 DEF OpenCatalogFile
  <1>4. CASE WriteCatalogFile
    <2>1. SavedNamesApart'
      BY <1>4, AgreeNamesApart DEF WriteCatalogFile, Whole, IndexInv, SavedNamesApart
    <2>2. Saved \/ NotSaved
      BY <1>4 DEF WriteCatalogFile
    <2> QED
      BY <1>4, <2>1, <2>2, SavedIndexInv, NotSavedIndexInv DEF WriteCatalogFile
  <1>5. ASSUME NEW name \in Name, CreateTable(name) PROVE IndexInv'
    <2>1. PICK id \in Id :
            /\ IsNextTableId(id)
            /\ tables' = With(tables, id, [name |-> name, table |-> next])
            /\ nameIndex' = With(nameIndex, name, id)
            /\ op' = [kind |-> "create", name |-> name, id |-> id, table |-> next]
      BY <1>5 DEF CreateTable
    <2>2. id \notin DOMAIN tables
      BY <2>1, DatabaseAssumption DEF IsNextTableId, Id, DatabaseAssumption
    <2>3. name \notin DOMAIN nameIndex /\ pc' = "saveOpen" /\ UNCHANGED <<catalogMeta, open>> /\ op.kind = "none"
      BY <1>5 DEF CreateTable, disk, TypeInv, CallFits
    <2> DEFINE entry == [name |-> name, table |-> next]
    <2>4. entry.name = name /\ entry.table = next
      OBVIOUS
    <2> HIDE DEF entry
    <2>5. tables' = With(tables, id, entry)
      BY <2>1 DEF entry
    <2>6. Agree(nameIndex', tables')
      BY <2>1, <2>2, <2>3, <2>4, <2>5, AgreeWith DEF IndexInv
    <2>7. /\ DOMAIN tables' = DOMAIN tables \cup {id} /\ tables'[id] = entry
          /\ \A i \in DOMAIN tables : i # id => tables'[i] = tables[i]
      BY <2>5 DEF With
    <2>8. name \in DOMAIN nameIndex' /\ nameIndex'[name] = id
      BY <2>1 DEF With
    <2>9. EntryUnderWay' /\ EmptyWhenDown' /\ SavedNamesApart'
      BY <2>1, <2>3, <2>4, <2>7, <2>8 DEF EntryUnderWay, EmptyWhenDown, SavedNamesApart, IndexInv
    <2> QED
      BY <2>6, <2>9 DEF IndexInv
  <1>6. ASSUME NEW name \in Name, DropTable(name) PROVE IndexInv'
    <2> DEFINE id == nameIndex[name]
    <2>1. /\ name \in DOMAIN nameIndex /\ Unregister(name, id) /\ pc' = "saveOpen"
          /\ op' = [kind |-> "drop", name |-> name, id |-> id, table |-> tables[id].table]
          /\ UNCHANGED <<catalogMeta, open>> /\ op.kind = "none"
      BY <1>6 DEF DropTable, disk, TypeInv, CallFits
    <2>2. /\ Agree(nameIndex', tables')
          /\ DOMAIN tables' = DOMAIN tables \ {id}
          /\ \A i \in DOMAIN tables' : tables'[i] = tables[i]
      BY <2>1, UnregisterIndexInv
    <2> HIDE DEF id
    <2> QED
      BY <2>1, <2>2 DEF IndexInv, SavedNamesApart, EntryUnderWay, EmptyWhenDown
  <1>7. ASSUME NEW name \in Name, Insert(name) PROVE IndexInv'
    <2>1. op.kind = "none" /\ pc' = "idle" /\ UNCHANGED <<catalogMeta, nameIndex, tables, op>>
      BY <1>7 DEF Insert, disk, catalog, TypeInv, CallFits
    <2> QED
      BY <2>1 DEF IndexInv, SavedNamesApart, EntryUnderWay, EmptyWhenDown
  <1>8. CASE MakeDirectory
    <2>1. CASE pc' = "writeTable" /\ UNCHANGED <<catalog, op>>
      BY <1>8, <2>1 DEF MakeDirectory, catalog, TypeInv, CallFits,
                IndexInv, SavedNamesApart, EntryUnderWay, EmptyWhenDown
    <2>2. CASE RollBack
      BY <1>8, <2>2, RollBackIndexInv DEF MakeDirectory, TypeInv, CallFits
    <2> QED
      BY <1>8, <2>1, <2>2 DEF MakeDirectory
  <1>9. CASE WriteTableMeta
    <2>1. op.kind = "create" /\ catalogMeta' = catalogMeta
      BY <1>9 DEF WriteTableMeta, TypeInv, CallFits
    <2>2. CASE RollBack /\ UNCHANGED open
      BY <2>1, <2>2, RollBackIndexInv
    <2>3. CASE pc' = "idle" /\ op' = NoCall /\ UNCHANGED catalog
      BY <2>1, <2>3
         DEF catalog, NoCall, IndexInv, SavedNamesApart, EntryUnderWay, EmptyWhenDown, TypeInv, CallFits
    <2> QED
      BY <1>9, <2>2, <2>3 DEF WriteTableMeta
  <1>10. CASE Flush
    BY <1>10 DEF Flush, catalog, IndexInv, SavedNamesApart, EntryUnderWay, EmptyWhenDown,
                 TypeInv, CallFits
  <1>11. CASE CloseTable
    BY <1>11 DEF CloseTable, catalog, IndexInv, SavedNamesApart, EntryUnderWay, EmptyWhenDown,
                 TypeInv, CallFits
  <1>12. CASE ClearMark \/ Rename
    <2>1. /\ op.kind = "drop" /\ UNCHANGED <<catalogMeta, nameIndex, tables, open>>
          /\ (op' = op \/ op' = NoCall) /\ pc' # "down"
      BY <1>12 DEF ClearMark, Rename, Return, catalog, TypeInv, CallFits
    <2> QED
      BY <2>1 DEF NoCall, IndexInv, SavedNamesApart, EntryUnderWay, EmptyWhenDown
  <1>13. CASE CloseDatabase \/ Crash
    BY <1>13, StopIndexInv DEF CloseDatabase, Crash
  <1>14. CASE UNCHANGED vars
    BY <1>14 DEF vars, disk, catalog, history,
                IndexInv, SavedNamesApart, EntryUnderWay, EmptyWhenDown
  <1> QED
    BY <1>1, <1>2, <1>3, <1>4, <1>5, <1>6, <1>7, <1>8, <1>9, <1>10, <1>11, <1>12, <1>13,
       <1>14 DEF Next

\* Both invariants hold in every reachable state.
LEMMA CatalogInvHolds == Spec => [](TypeInv /\ IndexInv)
  <1>1. Init => TypeInv /\ IndexInv
    BY InitTypeInv, InitIndexInv
  <1>2. (TypeInv /\ IndexInv) /\ [Next]_vars => (TypeInv /\ IndexInv)'
    BY NextTypeInv, NextIndexInv
  <1> QED
    BY <1>1, <1>2, PTL DEF Spec

\* Every variable keeps to its set, whatever fails.
THEOREM DatabaseTypes == Spec => []TypeOK
  <1>1. TypeInv => TypeOK
    BY DEF TypeInv
  <1> QED
    BY <1>1, CatalogInvHolds, PTL

\* The two maps of the catalog lead to each other in every state, whatever
\* failed, was rolled back or read again before.
THEOREM Agreement == Spec => []CatalogAgrees
  <1>1. TypeInv /\ IndexInv => CatalogAgrees
    BY DEF TypeInv, CallFits, IndexInv, Agree, CatalogAgrees
  <1> QED
    BY <1>1, CatalogInvHolds, PTL

-----------------------------------------------------------------------------
(* The invariant of the history *)

\* Incarnation u is written down under id i: in the catalog, in catalog.meta,
\* in a directory or in the call under way.
Claims(u, i) ==
    \/ i \in DOMAIN tables /\ tables[i].table = u
    \/ i \in DOMAIN catalogMeta.tables /\ catalogMeta.tables[i].table = u
    \/ i \in DOMAIN dir /\ dir[i].table = u
    \/ op \in Call /\ op.id = i /\ op.table = u

\* Everything known of incarnations is about those already made.
BelowNext ==
    /\ \A u \in Incarnation, i \in Id : Claims(u, i) => u < next
    /\ \A u \in created \cup stored \cup gone : u < next

OnePlace ==
    \A u \in Incarnation, i, j \in Id : Claims(u, i) /\ Claims(u, j) => i = j

\* Only a whole catalog.meta has entries; there is none before the first
\* table, and a saving that is half done has torn it.
SavedCatalog ==
    /\ catalogMeta.state # "whole" => DOMAIN catalogMeta.tables = {}
    /\ catalogMeta.state = "absent" => created = {} /\ (pc = "down" \/ op.kind = "init")
    /\ pc = "saveWrite" => catalogMeta.state = "torn"

\* How far the call under way has come.
CreateUnderWay ==
    /\ op.kind = "create" => op.table \notin created \cup stored
    /\ pc \in {"makeDirectory", "writeTable"} /\ catalogMeta.state = "whole" =>
          op.id \in DOMAIN catalogMeta.tables /\ catalogMeta.tables[op.id].table = op.table
    /\ pc = "writeTable" => dir[op.id].table = op.table /\ ~dir[op.id].rows

DropUnderWay ==
    pc \in {"close", "clearMark", "rename"} => op.id \notin DOMAIN catalogMeta.tables

\* A dropped table is written down nowhere.
GoneUnclaimed == \A u \in gone, i \in Id : ~Claims(u, i)

\* A whole table.meta lists the rows that were stored, and so does an open
\* storage, whose next flush would otherwise forget them.
RowsListed ==
    /\ \A i \in DOMAIN dir : dir[i].table \in stored /\ dir[i].whole => dir[i].rows
    /\ \A i \in DOMAIN open :
          dir[i].table \in stored \/ (dir[i].whole /\ dir[i].rows) => open[i].listed

HistoryInv ==
    /\ BelowNext
    /\ OnePlace
    /\ SavedCatalog
    /\ CreateUnderWay
    /\ DropUnderWay
    /\ GoneUnclaimed
    /\ RowsListed
    /\ CreatedStayListed

-----------------------------------------------------------------------------
(* Claims                                                                   *)

\* The maps of the model are functions into their sets.
LEMMA MapFacts ==
    ASSUME TypeInv
    PROVE  /\ tables \in [DOMAIN tables -> Entry] /\ DOMAIN tables \subseteq Id
           /\ catalogMeta.tables \in [DOMAIN catalogMeta.tables -> Entry]
           /\ DOMAIN catalogMeta.tables \subseteq Id
           /\ dir \in [DOMAIN dir -> Directory] /\ DOMAIN dir \subseteq Id
           /\ open \in [DOMAIN open -> Storage] /\ DOMAIN open \subseteq DOMAIN dir
    BY PartialFunctionFacts DEF TypeInv, TypeOK, OpenHasDirectory

\* The idle and the starting program have no table under way.
LEMMA NotACall ==
    /\ NoCall \notin Call
    /\ [kind |-> "init"] \notin Call
  <1>1. \A c \in Call : c.kind \in {"create", "rollback", "drop"}
    BY DEF Call
  <1> QED
    BY <1>1 DEF NoCall

\* A step that only removes what is written down makes no claim.
LEMMA FewerClaims ==
    ASSUME \A i \in DOMAIN tables' : i \in DOMAIN tables /\ tables'[i].table = tables[i].table,
           \A i \in DOMAIN catalogMeta'.tables :
               /\ i \in DOMAIN catalogMeta.tables
               /\ catalogMeta'.tables[i].table = catalogMeta.tables[i].table,
           \A i \in DOMAIN dir' : i \in DOMAIN dir /\ dir'[i].table = dir[i].table,
           \/ op' \notin Call
           \/ op \in Call /\ op'.id = op.id /\ op'.table = op.table,
           NEW u, NEW i, Claims(u, i)'
    PROVE  Claims(u, i)
    BY DEF Claims

\* Neither does a map that loses an argument.
LEMMA FewerWithout ==
    ASSUME NEW f, NEW x, NEW g, g = Without(f, x)
    PROVE  \A i \in DOMAIN g : i \in DOMAIN f /\ i # x /\ g[i].table = f[i].table
    BY DEF Without, Restrict

\* A failed saving makes none.
LEMMA NotSavedClaims ==
    ASSUME NotSaved
    PROVE  /\ \A i \in DOMAIN tables' : i \in DOMAIN tables /\ tables'[i].table = tables[i].table
           /\ op' \notin Call
  <1>1. op' \notin Call
    BY NotACall DEF NotSaved
  <1>2. tables' = tables \/ tables' = Without(tables, op.id)
    BY DEF NotSaved, Unregister, catalog
  <1> QED
    BY <1>1, <1>2, FewerWithout

\* A creation that is taken back makes none.
LEMMA RollBackClaims ==
    ASSUME TypeInv, op.kind = "create", RollBack
    PROVE  /\ \A i \in DOMAIN tables' : i \in DOMAIN tables /\ tables'[i].table = tables[i].table
           /\ op \in Call /\ op'.id = op.id /\ op'.table = op.table /\ op'.kind = "rollback"
  <1>1. op \in Call /\ op' = [op EXCEPT !.kind = "rollback"]
    BY DEF RollBack, TypeInv, CallFits
  <1>2. op'.id = op.id /\ op'.table = op.table /\ op'.kind = "rollback"
    BY <1>1 DEF Call
  <1>3. tables' = Without(tables, op.id)
    BY DEF RollBack, Unregister
  <1>4. \A i \in DOMAIN tables' : i \in DOMAIN tables /\ tables'[i].table = tables[i].table
    BY <1>3, FewerWithout
  <1> QED
    BY <1>1, <1>2, <1>4

\* The only new claim is that of a CREATE to a new incarnation.
LEMMA StepClaims ==
    ASSUME TypeInv, IndexInv, [Next]_vars, NEW u, NEW i, Claims(u, i)'
    PROVE  Claims(u, i) \/ (u = next /\ next' = next + 1 /\ op' \in Call /\ i = op'.id)
  <1>1. CASE LoadMeta
    BY <1>1 DEF LoadMeta, disk, Claims
  <1>2. CASE CreateCatalog
    BY <1>2, NotACall DEF CreateCatalog, disk, catalog, Claims
  <1>3. CASE OpenCatalogFile
    <2>1. CASE catalogMeta' = Torn /\ UNCHANGED <<catalog, op>>
      BY <1>3, <2>1, NoTablesFacts DEF OpenCatalogFile, Torn, catalog, Claims
    <2>2. CASE NotSaved /\ UNCHANGED catalogMeta
      BY <1>3, <2>2, NotSavedClaims, FewerClaims DEF OpenCatalogFile
    <2> QED
      BY <1>3, <2>1, <2>2 DEF OpenCatalogFile
  <1>4. CASE WriteCatalogFile
    <2>1. CASE NotSaved /\ UNCHANGED catalogMeta
      BY <1>4, <2>1, NotSavedClaims, FewerClaims DEF WriteCatalogFile
    <2>2. CASE Saved /\ catalogMeta' \in {catalogMeta, Whole(tables)}
      <3>1. UNCHANGED <<tables, dir>> /\ (op' = op \/ op' = NoCall)
        BY <1>4, <2>2 DEF WriteCatalogFile, Saved, catalog
      <3> QED
        BY <2>2, <3>1, NotACall DEF Whole, Claims
    <2> QED
      BY <1>4, <2>1, <2>2 DEF WriteCatalogFile
  <1>5. ASSUME NEW name \in Name, CreateTable(name)
        PROVE  Claims(u, i) \/ (u = next /\ next' = next + 1 /\ op' \in Call /\ i = op'.id)
    <2>1. PICK id \in Id :
            /\ tables' = With(tables, id, [name |-> name, table |-> next])
            /\ op' = [kind |-> "create", name |-> name, id |-> id, table |-> next]
      BY <1>5 DEF CreateTable
    <2>2. next \in Incarnation /\ next' = next + 1 /\ UNCHANGED <<catalogMeta, dir>>
      BY <1>5 DEF CreateTable, disk
    <2>3. op' \in Call /\ op'.id = id /\ op'.table = next
      BY <2>1, <2>2 DEF Call
    <2> DEFINE entry == [name |-> name, table |-> next]
    <2>4. entry.table = next
      OBVIOUS
    <2> HIDE DEF entry
    <2>5. tables' = With(tables, id, entry)
      BY <2>1 DEF entry
    <2>6. /\ DOMAIN tables' = DOMAIN tables \cup {id} /\ tables'[id] = entry
          /\ \A j \in DOMAIN tables : j # id => tables'[j] = tables[j]
      BY <2>5 DEF With
    <2> QED
      BY <2>2, <2>3, <2>4, <2>6 DEF Claims
  <1>6. ASSUME NEW name \in Name, DropTable(name) PROVE Claims(u, i)
    <2> DEFINE id == nameIndex[name]
    <2>1. /\ name \in DOMAIN nameIndex /\ tables' = Without(tables, id)
          /\ op' = [kind |-> "drop", name |-> name, id |-> id, table |-> tables[id].table]
          /\ UNCHANGED <<catalogMeta, dir>>
      BY <1>6 DEF DropTable, Unregister, disk
    <2>2. id \in DOMAIN tables
      BY <2>1, NamedEntry
    <2>3. op'.id = id /\ op'.table = tables[id].table
      BY <2>1
    <2> HIDE DEF id
    <2>4. \A j \in DOMAIN tables' : j \in DOMAIN tables /\ tables'[j].table = tables[j].table
      BY <2>1, FewerWithout
    <2> QED
      BY <2>1, <2>2, <2>3, <2>4 DEF Claims
  <1>7. ASSUME NEW name \in Name, Insert(name) PROVE Claims(u, i)
    BY <1>7 DEF Insert, disk, catalog, Claims
  <1>8. CASE MakeDirectory
    <2>1. op \in Call /\ op.kind = "create"
      BY <1>8 DEF MakeDirectory, TypeInv, CallFits
    <2>2. CASE RollBack /\ UNCHANGED dir
      BY <1>8, <2>1, <2>2, RollBackClaims, FewerClaims DEF MakeDirectory
    <2>3. CASE /\ dir' = With(dir, op.id, [table |-> op.table, whole |-> FALSE, rows |-> FALSE])
               /\ UNCHANGED <<catalog, op>>
      <3>1. /\ DOMAIN dir' = DOMAIN dir \cup {op.id} /\ dir'[op.id].table = op.table
            /\ \A j \in DOMAIN dir : j # op.id => dir'[j] = dir[j]
        BY <2>3 DEF With
      <3> QED
        BY <1>8, <2>1, <2>3, <3>1 DEF MakeDirectory, catalog, Claims
    <2> QED
      BY <1>8, <2>2, <2>3 DEF MakeDirectory
  <1>9. CASE WriteTableMeta
    <2>1. op.kind = "create" /\ op.id \in DOMAIN dir /\ UNCHANGED catalogMeta
      BY <1>9 DEF WriteTableMeta, TypeInv, CallFits, OpenHasDirectory
    <2>2. CASE RollBack /\ UNCHANGED dir
      BY <2>1, <2>2, RollBackClaims, FewerClaims
    <2>3. CASE dir' = [dir EXCEPT ![op.id].whole = TRUE] /\ op' = NoCall /\ UNCHANGED catalog
      <3>1. DOMAIN dir' = DOMAIN dir /\ \A j \in DOMAIN dir : dir'[j].table = dir[j].table
        BY <2>1, <2>3, MapFacts DEF Directory
      <3> QED
        BY <2>1, <2>3, <3>1, NotACall, FewerClaims DEF catalog
    <2>4. CASE UNCHANGED dir /\ op' = NoCall /\ UNCHANGED catalog
      BY <2>1, <2>4, NotACall, FewerClaims DEF catalog
    <2> QED
      BY <1>9, <2>2, <2>3, <2>4 DEF WriteTableMeta
  <1>10. CASE Flush
    <2>1. PICK outcome : FlushInto(DOMAIN open, outcome)
      BY <1>10 DEF Flush
    <2>2. DOMAIN dir' = DOMAIN dir /\ \A j \in DOMAIN dir : dir'[j].table = dir[j].table
      BY <2>1, FlushIntoFacts
    <2> QED
      BY <1>10, <2>2 DEF Flush, catalog, Claims
  <1>11. CASE CloseTable
    <2>1. DOMAIN dir' = DOMAIN dir /\ \A j \in DOMAIN dir : dir'[j].table = dir[j].table
      BY <1>11, FlushIntoFacts DEF CloseTable
    <2> QED
      BY <1>11, <2>1 DEF CloseTable, catalog, Claims
  <1>12. CASE ClearMark
    <2>1. op' = op \/ op' = NoCall
      BY <1>12 DEF ClearMark, Return
    <2> QED
      BY <1>12, <2>1, NotACall DEF ClearMark, catalog, Claims
  <1>13. CASE Rename
    <2>1. /\ dir' = dir \/ dir' = Without(dir, op.id)
          /\ op' = NoCall /\ UNCHANGED <<catalogMeta, tables>>
      BY <1>13 DEF Rename, Return, catalog
    <2>2. \A j \in DOMAIN dir' : j \in DOMAIN dir /\ dir'[j].table = dir[j].table
      BY <2>1, FewerWithout
    <2> QED
      BY <2>1, <2>2, NotACall, FewerClaims
  <1>14. CASE CloseDatabase \/ Crash
    <2>1. tables' = NoTables /\ op' = NoCall /\ UNCHANGED catalogMeta
      BY <1>14 DEF CloseDatabase, Crash, Stop
    <2>2. DOMAIN dir' = DOMAIN dir /\ \A j \in DOMAIN dir : dir'[j].table = dir[j].table
      BY <1>14, FlushIntoFacts DEF CloseDatabase, Crash
    <2> QED
      BY <2>1, <2>2, NotACall, NoTablesFacts DEF Claims
  <1>15. CASE UNCHANGED vars
    BY <1>15 DEF vars, disk, catalog, Claims
  <1> QED
    BY <1>1, <1>2, <1>3, <1>4, <1>5, <1>6, <1>7, <1>8, <1>9, <1>10, <1>11, <1>12, <1>13,
       <1>14, <1>15 DEF Next

-----------------------------------------------------------------------------
(* One place for each incarnation                                           *)

\* Claims are about incarnations and ids.
LEMMA ClaimFacts ==
    ASSUME TypeInv, NEW u, NEW i, Claims(u, i)
    PROVE  u \in Incarnation /\ i \in Id
    BY MapFacts DEF Claims, Entry, Directory, Call

\* Only a CREATE takes an incarnation.
LEMMA NextGrows ==
    ASSUME TypeInv, [Next]_vars
    PROVE  next \in Nat /\ next' \in {next, next + 1}
  <1>1. next \in Nat
    BY IncarnationFacts DEF TypeInv, TypeOK
  <1> QED
    BY <1>1 DEF Next, LoadMeta, CreateCatalog, OpenCatalogFile, WriteCatalogFile, CreateTable,
                DropTable, Insert, MakeDirectory, WriteTableMeta, Flush, CloseTable, ClearMark,
                Rename, CloseDatabase, Crash, Stop, vars, history

\* What a flush notes as stored belongs to a directory.
LEMMA FlushIntoStored ==
    ASSUME TypeInv, NEW ids, ids \subseteq DOMAIN open, NEW outcome, FlushInto(ids, outcome)
    PROVE  \A u \in stored' : u \in stored \/ \E i \in Id : Claims(u, i)
  <1>1. \A u \in stored' : u \in stored \/ \E i \in ids : u = dir[i].table
    BY DEF FlushInto
  <1> QED
    BY <1>1, MapFacts DEF Claims

\* The history is about incarnations that are written down when they enter it.
LEMMA HistoryGrows ==
    ASSUME TypeInv, [Next]_vars
    PROVE  \A u \in created' \cup stored' \cup gone' :
               u \in created \cup stored \cup gone \/ \E i \in Id : Claims(u, i)
  <1>1. CASE UNCHANGED <<created, stored, gone>>
    BY <1>1
  <1>2. ASSUME op \in Call
        PROVE  op.id \in Id /\ Claims(op.table, op.id)
    BY <1>2 DEF Claims, Call
  <1>3. CASE WriteTableMeta
    <2>1. op \in Call
      BY <1>3 DEF WriteTableMeta, TypeInv, CallFits
    <2>2. created' \in {created, created \cup {op.table}} /\ UNCHANGED <<stored, gone>>
      BY <1>3 DEF WriteTableMeta
    <2> QED
      BY <2>1, <2>2, <1>2
  <1>4. CASE ClearMark \/ Rename
    <2>1. op \in Call
      BY <1>4 DEF ClearMark, Rename, TypeInv, CallFits
    <2>2. gone' \in {gone, gone \cup {op.table}} /\ UNCHANGED <<stored, created>>
      BY <1>4 DEF ClearMark, Rename, Return
    <2> QED
      BY <2>1, <2>2, <1>2
  <1>5. CASE Flush \/ CloseDatabase
    BY <1>5, FlushIntoStored DEF Flush, CloseDatabase, Stop
  <1>6. CASE CloseTable
    <2>1. UNCHANGED <<created, gone>>
      BY <1>6 DEF CloseTable
    <2>2. CASE UNCHANGED stored
      BY <2>1, <2>2
    <2>3. ASSUME NEW outcome, op.id \in DOMAIN open, FlushInto({op.id}, outcome)
          PROVE  \A u \in stored' : u \in stored \/ \E i \in Id : Claims(u, i)
      BY <2>3, FlushIntoStored
    <2> QED
      BY <1>6, <2>1, <2>2, <2>3 DEF CloseTable
  <1> QED
    BY <1>1, <1>3, <1>4, <1>5, <1>6
       DEF Next, LoadMeta, CreateCatalog, OpenCatalogFile, WriteCatalogFile, CreateTable,
           DropTable, Insert, MakeDirectory, Crash, Stop, vars, history

\* Every step keeps incarnations below next and each in its place.
LEMMA NextPlaces ==
    ASSUME TypeInv, IndexInv, BelowNext, OnePlace, [Next]_vars, TypeInv'
    PROVE  BelowNext' /\ OnePlace'
  <1>1. next \in Nat /\ next' \in {next, next + 1}
    BY NextGrows
  <1>2. \A u \in Incarnation, i \in Id : Claims(u, i) => u < next
    BY DEF BelowNext
  <1>3. Incarnation \subseteq Nat
    BY IncarnationFacts
  <1>4. ASSUME NEW u \in Incarnation, NEW i \in Id, Claims(u, i)' PROVE u < next'
    BY <1>1, <1>2, <1>3, <1>4, StepClaims
  <1>5. ASSUME NEW u \in created' \cup stored' \cup gone' PROVE u < next'
    <2>1. u \in Incarnation
      BY DEF TypeInv, TypeOK
    <2>2. u < next
      BY <1>2, <2>1, HistoryGrows DEF BelowNext
    <2> QED
      BY <1>1, <1>3, <2>1, <2>2
  <1>6. ASSUME NEW u \in Incarnation, NEW i \in Id, NEW j \in Id, Claims(u, i)', Claims(u, j)'
        PROVE  i = j
    <2>1. Claims(u, i) \/ (u = next /\ i = op'.id)
      BY <1>6, StepClaims
    <2>2. Claims(u, j) \/ (u = next /\ j = op'.id)
      BY <1>6, StepClaims
    <2>3. ~(next < next)
      BY <1>1
    <2> QED
      BY <2>1, <2>2, <2>3, <1>2 DEF OnePlace
  <1>7. BelowNext'
    BY <1>4, <1>5 DEF BelowNext
  <1> QED
    BY <1>6, <1>7 DEF OnePlace

\* What has been dropped is not written down again.
LEMMA NextGone ==
    ASSUME TypeInv, IndexInv, BelowNext, OnePlace, DropUnderWay, GoneUnclaimed, [Next]_vars
    PROVE  GoneUnclaimed'
  <1>1. ASSUME NEW u \in gone, NEW i \in Id, Claims(u, i)' PROVE FALSE
    <2>1. u < next /\ next \in Nat
      BY NextGrows DEF BelowNext
    <2>2. ~(next < next)
      BY <2>1
    <2> QED
      BY <1>1, <2>1, <2>2, StepClaims DEF GoneUnclaimed
  <1>2. CASE gone' = gone
    BY <1>1, <1>2 DEF GoneUnclaimed
  <1>3. CASE ClearMark \/ Rename
    <2>1. CASE gone' = gone
      BY <1>2, <2>1
    <2>2. CASE op' = NoCall /\ gone' = gone \cup {op.table} /\ op.id \notin DOMAIN dir'
      <3>1. op \in Call /\ op.kind = "drop" /\ UNCHANGED <<tables, catalogMeta, next>>
        BY <1>3 DEF ClearMark, Rename, catalog, TypeInv, CallFits
      <3>2. PICK u \in Incarnation, id \in Id : u = op.table /\ id = op.id
        BY <3>1 DEF Call
      <3>3. Claims(u, id)
        BY <3>1, <3>2 DEF Claims
      <3>4. /\ id \notin DOMAIN tables'
            /\ id \notin DOMAIN catalogMeta'.tables
            /\ id \notin DOMAIN dir'
        BY <1>3, <2>2, <3>1, <3>2 DEF IndexInv, EntryUnderWay, DropUnderWay, ClearMark, Rename
      <3>5. ~Claims(u, id)'
        BY <2>2, <3>4, NotACall DEF Claims
      <3>6. ASSUME NEW i \in Id, Claims(u, i)' PROVE FALSE
        <4>1. next \in Nat /\ next' = next
          BY <3>1, NextGrows
        <4>2. Claims(u, i)
          BY <3>6, <4>1, StepClaims
        <4> QED
          BY <3>3, <3>5, <3>6, <4>2 DEF OnePlace
      <3>7. gone' = gone \cup {u}
        BY <2>2, <3>2
      <3> QED
        BY <1>1, <3>6, <3>7 DEF GoneUnclaimed
    <2>3. CASE Rename
      <3>1. dir' = Without(dir, op.id) => op.id \notin DOMAIN dir'
        BY DEF Without, Restrict
      <3> QED
        BY <2>1, <2>2, <2>3, <3>1 DEF Rename, Return
    <2>4. CASE ClearMark
      BY <2>1, <2>2, <2>4 DEF ClearMark, Return
    <2> QED
      BY <1>3, <2>3, <2>4
  <1> QED
    BY <1>2, <1>3
       DEF Next, LoadMeta, CreateCatalog, OpenCatalogFile, WriteCatalogFile, CreateTable,
           DropTable, Insert, MakeDirectory, WriteTableMeta, Flush, CloseTable, CloseDatabase,
           Crash, Stop, vars, history

-----------------------------------------------------------------------------
(* The call under way                                                       *)

\* The entry of a CREATE, until its end.
LEMMA CreateEntry ==
    ASSUME IndexInv, op.kind = "create"
    PROVE  op.id \in DOMAIN tables /\ tables[op.id].table = op.table
    BY DEF IndexInv, Agree, EntryUnderWay

\* What is said of catalog.meta stays true.
LEMMA NextSavedCatalog ==
    ASSUME TypeInv, SavedCatalog, [Next]_vars
    PROVE  SavedCatalog'
  <1> USE DEF SavedCatalog
  <1>1. CASE UNCHANGED <<catalogMeta, created>> /\ pc \notin {"down", "saveOpen"} /\ pc' # "saveWrite"
    BY <1>1 DEF TypeInv, CallFits
  <1>2. CASE LoadMeta \/ CreateCatalog
    BY <1>2 DEF LoadMeta, CreateCatalog, disk, history
  <1>3. CASE OpenCatalogFile
    <2>1. CASE catalogMeta' = Torn /\ pc' = "saveWrite"
      BY <2>1, NoTablesFacts DEF Torn
    <2>2. CASE NotSaved /\ UNCHANGED catalogMeta
      BY <1>3, <2>2 DEF OpenCatalogFile, NotSaved, history
    <2> QED
      BY <1>3, <2>1, <2>2 DEF OpenCatalogFile
  <1>4. CASE WriteCatalogFile
    <2>1. pc' # "saveWrite" /\ created' = created
      BY <1>4 DEF WriteCatalogFile, Saved, NotSaved, history
    <2>2. CASE catalogMeta' = Whole(tables)
      BY <2>1, <2>2 DEF Whole
    <2>3. CASE UNCHANGED catalogMeta
      BY <1>4, <2>1, <2>3 DEF WriteCatalogFile
    <2> QED
      BY <1>4, <2>2, <2>3 DEF WriteCatalogFile
  <1>5. CASE WriteTableMeta
    <2>1. catalogMeta.state # "absent" /\ UNCHANGED catalogMeta /\ pc' # "saveWrite"
      BY <1>5 DEF WriteTableMeta, RollBack, TypeInv, CallFits
    <2> QED
      BY <2>1
  <1>6. CASE CloseDatabase \/ Crash
    BY <1>6 DEF CloseDatabase, Crash, Stop
  <1>7. CASE UNCHANGED vars
    BY <1>7 DEF vars, disk, history
  <1>8. ASSUME NEW name \in Name, CreateTable(name) \/ DropTable(name) \/ Insert(name)
        PROVE  SavedCatalog'
    BY <1>1, <1>8 DEF CreateTable, DropTable, Insert, disk, history
  <1>9. CASE MakeDirectory
    BY <1>1, <1>9 DEF MakeDirectory, RollBack, history
  <1>10. CASE Flush \/ CloseTable \/ ClearMark \/ Rename
    BY <1>1, <1>10 DEF Flush, CloseTable, ClearMark, Rename, Return
  <1> QED
    BY <1>2, <1>3, <1>4, <1>5, <1>6, <1>7, <1>8, <1>9, <1>10 DEF Next

\* So does what is said of the call.
LEMMA NextUnderWay ==
    ASSUME TypeInv, IndexInv, BelowNext, SavedCatalog, CreateUnderWay, DropUnderWay, [Next]_vars
    PROVE  CreateUnderWay' /\ DropUnderWay'
  <1> USE DEF CreateUnderWay, DropUnderWay
  <1>1. CASE op'.kind # "create"
             /\ pc' \notin {"makeDirectory", "writeTable", "close", "clearMark", "rename"}
    BY <1>1
  <1>2. CASE LoadMeta \/ CreateCatalog
    BY <1>1, <1>2 DEF LoadMeta, CreateCatalog, TypeInv, CallFits
  <1>3. CASE OpenCatalogFile
    <2>1. CASE pc' = "saveWrite" /\ UNCHANGED op
      BY <1>3, <2>1 DEF OpenCatalogFile, history
    <2>2. CASE NotSaved
      BY <1>1, <2>2 DEF NotSaved, NoCall
    <2> QED
      BY <1>3, <2>1, <2>2 DEF OpenCatalogFile
  <1>4. CASE WriteCatalogFile
    <2>1. CASE NotSaved
      BY <1>1, <2>1 DEF NotSaved, NoCall
    <2>2. CASE Saved
      <3>1. \/ op.kind = "create" /\ pc' = "makeDirectory" /\ op' = op
            \/ op.kind = "drop" /\ pc' = "close" /\ op' = op
            \/ pc' = "idle" /\ op' = NoCall
        BY <2>2 DEF Saved
      <3>2. UNCHANGED <<created, stored, tables>>
        BY <1>4, <2>2 DEF WriteCatalogFile, Saved, history, catalog
      <3>3. \/ catalogMeta' = Whole(tables)
            \/ catalogMeta'.state # "whole" /\ DOMAIN catalogMeta'.tables = {}
        BY <1>4 DEF WriteCatalogFile, SavedCatalog
      <3>4. catalogMeta' = Whole(tables) => catalogMeta'.tables = tables
        BY DEF Whole
      <3>5. CASE op.kind = "create" /\ pc' = "makeDirectory" /\ op' = op
        BY <3>2, <3>3, <3>4, <3>5, CreateEntry
      <3>6. CASE op.kind = "drop" /\ pc' = "close" /\ op' = op
        BY <3>2, <3>3, <3>4, <3>6 DEF IndexInv, EntryUnderWay
      <3>7. CASE pc' = "idle" /\ op' = NoCall
        BY <1>1, <3>7 DEF NoCall
      <3> QED
        BY <3>1, <3>5, <3>6, <3>7
    <2> QED
      BY <1>4, <2>1, <2>2 DEF WriteCatalogFile
  <1>5. ASSUME NEW name \in Name, CreateTable(name)
        PROVE  CreateUnderWay' /\ DropUnderWay'
    <2>1. op'.table = next /\ pc' = "saveOpen" /\ UNCHANGED <<created, stored>>
      BY <1>5 DEF CreateTable
    <2>2. next \in Nat /\ ~(next < next)
      BY NextGrows
    <2> QED
      BY <2>1, <2>2 DEF BelowNext
  <1>6. ASSUME NEW name \in Name, DropTable(name) \/ Insert(name)
        PROVE  CreateUnderWay' /\ DropUnderWay'
    BY <1>1, <1>6 DEF DropTable, Insert, TypeInv, CallFits
  <1>7. CASE MakeDirectory
    <2>1. CASE RollBack
      BY <1>1, <2>1, <1>7, RollBackClaims DEF RollBack, MakeDirectory, TypeInv, CallFits
    <2>2. CASE /\ dir' = With(dir, op.id, [table |-> op.table, whole |-> FALSE, rows |-> FALSE])
               /\ pc' = "writeTable" /\ UNCHANGED op
      <3>1. dir'[op.id].table = op.table /\ ~dir'[op.id].rows
        BY <2>2 DEF With
      <3> QED
        BY <1>7, <2>2, <3>1 DEF MakeDirectory, history
    <2> QED
      BY <1>7, <2>1, <2>2 DEF MakeDirectory
  <1>8. CASE WriteTableMeta
    <2>1. CASE RollBack
      BY <1>1, <2>1, <1>8, RollBackClaims DEF RollBack, WriteTableMeta, TypeInv, CallFits
    <2>2. CASE pc' = "idle" /\ op' = NoCall
      BY <1>1, <2>2 DEF NoCall
    <2> QED
      BY <1>8, <2>1, <2>2 DEF WriteTableMeta
  <1>9. CASE Flush
    BY <1>1, <1>9 DEF Flush, TypeInv, CallFits
  <1>10. CASE CloseTable \/ ClearMark \/ Rename
    <2>1. op.kind = "drop" /\ pc' \notin {"makeDirectory", "writeTable"} /\ UNCHANGED catalogMeta
      BY <1>10 DEF CloseTable, ClearMark, Rename, Return, TypeInv, CallFits
    <2>2. op' = op \/ (op' = NoCall /\ pc' = "idle")
      BY <1>10 DEF CloseTable, ClearMark, Rename, Return
    <2>3. pc \in {"close", "clearMark", "rename"}
      BY <1>10 DEF CloseTable, ClearMark, Rename
    <2>4. CASE op' = op
      BY <2>1, <2>3, <2>4
    <2>5. CASE op' = NoCall /\ pc' = "idle"
      BY <1>1, <2>5 DEF NoCall
    <2> QED
      BY <2>2, <2>4, <2>5
  <1>11. CASE CloseDatabase \/ Crash
    BY <1>1, <1>11 DEF CloseDatabase, Crash, Stop, NoCall
  <1>12. CASE UNCHANGED vars
    BY <1>12 DEF vars, disk, history
  <1> QED
    BY <1>2, <1>3, <1>4, <1>5, <1>6, <1>7, <1>8, <1>9, <1>10, <1>11, <1>12 DEF Next

-----------------------------------------------------------------------------
(* Rows                                                                     *)

\* A flush that rewrites table.meta forgets no row, and memory lists at least
\* what the file does.
LEMMA FlushedRows ==
    ASSUME NEW id \in DOMAIN open, NEW outcome \in Flushed(id)
    PROVE  /\ open[id].listed => outcome.listed
           /\ outcome.left = dir[id] \/ (open[id].listed => outcome.left.rows)
           /\ outcome.left = dir[id] \/ (outcome.left.rows => outcome.listed)
  <1> DEFINE all == open[id].listed \/ open[id].unflushed
             Meta(rows, whole) == [table |-> dir[id].table, whole |-> whole, rows |-> rows]
  <1>1. \/ outcome = [left |-> Meta(all, TRUE), listed |-> all]
        \/ outcome = [left |-> Meta(open[id].listed, TRUE), listed |-> open[id].listed]
        \/ outcome = [left |-> dir[id], listed |-> all]
        \/ outcome = [left |-> Meta(all, FALSE), listed |-> all]
    BY DEF Flushed
  <1>2. \A rows, whole : Meta(rows, whole).rows = rows
    OBVIOUS
  <1>3. open[id].listed => all
    OBVIOUS
  <1> HIDE DEF all, Meta
  <1>4. CASE outcome = [left |-> Meta(all, TRUE), listed |-> all]
    BY <1>2, <1>3, <1>4
  <1>5. CASE outcome = [left |-> Meta(open[id].listed, TRUE), listed |-> open[id].listed]
    BY <1>2, <1>3, <1>5
  <1>6. CASE outcome = [left |-> dir[id], listed |-> all]
    BY <1>3, <1>6
  <1>7. CASE outcome = [left |-> Meta(all, FALSE), listed |-> all]
    BY <1>2, <1>3, <1>7
  <1> QED
    BY <1>1, <1>4, <1>5, <1>6, <1>7

\* The same of several tables at once.
LEMMA FlushIntoRows ==
    ASSUME TypeInv, OnePlace, RowsListed,
           NEW ids, ids \subseteq DOMAIN open, NEW outcome, FlushInto(ids, outcome)
    PROVE  /\ \A i \in DOMAIN dir' : dir'[i].table \in stored' /\ dir'[i].whole => dir'[i].rows
           /\ \A i \in ids : dir'[i].table \in stored' \/ (dir'[i].whole /\ dir'[i].rows)
                                => outcome[i].listed
           /\ \A i \in DOMAIN dir \ ids :
                 dir'[i] = dir[i] /\ (dir[i].table \in stored' => dir[i].table \in stored)
  <1>1. /\ \A i \in ids : outcome[i] \in Flushed(i)
        /\ dir' = [i \in DOMAIN dir |-> IF i \in ids THEN outcome[i].left ELSE dir[i]]
        /\ stored' = stored \cup {dir[i].table : i \in {j \in ids : dir'[j].whole /\ dir'[j].rows}}
    BY DEF FlushInto
  <1>2. DOMAIN dir' = DOMAIN dir /\ \A i \in DOMAIN dir : dir'[i].table = dir[i].table
    BY FlushIntoFacts
  <1>3. ids \subseteq DOMAIN dir
    BY MapFacts
  <1>4. \A i \in ids : dir'[i] = outcome[i].left
    BY <1>1, <1>3
  <1>5. \A i \in DOMAIN dir \ ids : dir'[i] = dir[i]
    BY <1>1
  <1>6. ASSUME NEW i \in DOMAIN dir, NEW j \in ids, dir[i].table = dir[j].table
        PROVE  i = j
    <2>1. Claims(dir[i].table, i) /\ Claims(dir[i].table, j)
      BY <1>3, <1>6 DEF Claims
    <2> QED
      BY <2>1, ClaimFacts DEF OnePlace
  <1>7. ASSUME NEW i \in DOMAIN dir, dir[i].table \in stored', dir[i].table \notin stored
        PROVE  i \in ids /\ dir'[i].whole /\ dir'[i].rows
    <2>1. PICK j \in ids : dir[i].table = dir[j].table /\ dir'[j].whole /\ dir'[j].rows
      BY <1>1, <1>7
    <2> QED
      BY <2>1, <1>6
  <1>8. ASSUME NEW i \in ids
        PROVE  /\ dir'[i].table \in stored' /\ dir'[i].whole => dir'[i].rows
               /\ dir'[i].table \in stored' \/ (dir'[i].whole /\ dir'[i].rows) => outcome[i].listed
    <2>1. /\ open[i].listed => outcome[i].listed
          /\ dir'[i] = dir[i] \/ (open[i].listed => dir'[i].rows)
          /\ dir'[i] = dir[i] \/ (dir'[i].rows => outcome[i].listed)
      BY <1>1, <1>4, FlushedRows
    <2>2. /\ dir[i].table \in stored /\ dir[i].whole => dir[i].rows
          /\ dir[i].table \in stored \/ (dir[i].whole /\ dir[i].rows) => open[i].listed
      BY <1>3 DEF RowsListed
    <2> QED
      BY <1>2, <1>3, <1>7, <2>1, <2>2
  <1>9. ASSUME NEW i \in DOMAIN dir \ ids
        PROVE  /\ dir'[i].table \in stored' /\ dir'[i].whole => dir'[i].rows
               /\ dir'[i] = dir[i] /\ (dir[i].table \in stored' => dir[i].table \in stored)
    BY <1>5, <1>7 DEF RowsListed
  <1> QED
    BY <1>2, <1>8, <1>9

\* Every step keeps the stored rows listed.
LEMMA NextRows ==
    ASSUME TypeInv, IndexInv, OnePlace, CreateUnderWay, RowsListed, [Next]_vars
    PROVE  RowsListed'
  <1>1. CASE UNCHANGED <<dir, open, stored>>
    BY <1>1 DEF RowsListed
  <1>2. CASE \E name \in Name : Insert(name)
    <2>1. PICK id \in DOMAIN dir :
             \/ id \in DOMAIN open /\ open' = [open EXCEPT ![id].unflushed = TRUE]
             \/ \E u : /\ dir[id].whole
                       /\ open' = With(open, id, [table |-> u, listed |-> dir[id].rows, unflushed |-> TRUE])
      BY <1>2, MapFacts DEF Insert
    <2>2. UNCHANGED <<dir, stored>>
      BY <1>2 DEF Insert, disk, history
    <2>3. CASE id \in DOMAIN open /\ open' = [open EXCEPT ![id].unflushed = TRUE]
      <3>1. DOMAIN open' = DOMAIN open /\ \A i \in DOMAIN open : open'[i].listed = open[i].listed
        BY <2>3, MapFacts DEF Storage
      <3> QED
        BY <2>2, <3>1 DEF RowsListed
    <2>4. ASSUME NEW u, dir[id].whole,
                 open' = With(open, id, [table |-> u, listed |-> dir[id].rows, unflushed |-> TRUE])
          PROVE  RowsListed'
      <3>1. /\ DOMAIN open' = DOMAIN open \cup {id} /\ open'[id].listed = dir[id].rows
            /\ \A i \in DOMAIN open : i # id => open'[i] = open[i]
        BY <2>4 DEF With
      <3> QED
        BY <2>2, <2>4, <3>1 DEF RowsListed
    <2> QED
      BY <2>1, <2>3, <2>4
  <1>3. CASE MakeDirectory
    <2>1. UNCHANGED <<open, stored>>
      BY <1>3 DEF MakeDirectory, history
    <2>2. CASE UNCHANGED dir
      BY <1>1, <2>1, <2>2
    <2>3. CASE /\ op.id \notin DOMAIN open
               /\ dir' = With(dir, op.id, [table |-> op.table, whole |-> FALSE, rows |-> FALSE])
      <3>1. /\ DOMAIN dir' = DOMAIN dir \cup {op.id}
            /\ dir'[op.id].whole = FALSE
            /\ \A i \in DOMAIN dir : i # op.id => dir'[i] = dir[i]
        BY <2>3 DEF With
      <3> QED
        BY <2>1, <2>3, <3>1, MapFacts DEF RowsListed
    <2> QED
      BY <1>3, <2>2, <2>3 DEF MakeDirectory
  <1>4. CASE WriteTableMeta
    <2>1. /\ op.kind = "create" /\ op.id \in DOMAIN dir /\ stored' = stored
          /\ dir[op.id].table \notin stored /\ ~dir[op.id].rows
      BY <1>4 DEF WriteTableMeta, TypeInv, CallFits, OpenHasDirectory, CreateUnderWay
    <2>2. CASE UNCHANGED <<dir, open>>
      BY <1>1, <2>1, <2>2
    <2>3. CASE /\ dir' = [dir EXCEPT ![op.id].whole = TRUE] \/ dir' = dir
               /\ open' = With(open, op.id, [table |-> op.table, listed |-> FALSE, unflushed |-> FALSE])
      <3>1. /\ DOMAIN dir' = DOMAIN dir
            /\ \A i \in DOMAIN dir : i # op.id => dir'[i] = dir[i]
            /\ dir'[op.id].table = dir[op.id].table /\ dir'[op.id].rows = dir[op.id].rows
        BY <2>1, <2>3, MapFacts DEF Directory
      <3>2. /\ DOMAIN open' = DOMAIN open \cup {op.id}
            /\ \A i \in DOMAIN open : i # op.id => open'[i] = open[i]
        BY <2>3 DEF With
      <3> QED
        BY <2>1, <3>1, <3>2, MapFacts DEF RowsListed
    <2> QED
      BY <1>4, <2>2, <2>3 DEF WriteTableMeta
  <1>5. CASE Flush
    <2>1. PICK outcome :
            /\ FlushInto(DOMAIN open, outcome)
            /\ open' = [i \in DOMAIN open |->
                           [open[i] EXCEPT !.listed = outcome[i].listed, !.unflushed = FALSE]]
      BY <1>5 DEF Flush
    <2>2. DOMAIN open' = DOMAIN open /\ \A i \in DOMAIN open : open'[i].listed = outcome[i].listed
      BY <2>1, MapFacts DEF Storage
    <2> QED
      BY <2>1, <2>2, FlushIntoRows DEF RowsListed
  <1>6. CASE CloseTable
    <2>1. open' = Without(open, op.id)
      BY <1>6 DEF CloseTable
    <2>2. \A i \in DOMAIN open' : i \in DOMAIN open /\ i # op.id /\ open'[i] = open[i]
      BY <2>1 DEF Without, Restrict
    <2>3. CASE UNCHANGED <<dir, stored>>
      BY <2>2, <2>3 DEF RowsListed
    <2>4. ASSUME NEW outcome, op.id \in DOMAIN open, FlushInto({op.id}, outcome)
          PROVE  RowsListed'
      <3>1. /\ \A i \in DOMAIN dir' : dir'[i].table \in stored' /\ dir'[i].whole => dir'[i].rows
            /\ \A i \in DOMAIN dir \ {op.id} :
                  dir'[i] = dir[i] /\ (dir[i].table \in stored' => dir[i].table \in stored)
        BY <2>4, FlushIntoRows
      <3>2. \A i \in DOMAIN open' : i \in DOMAIN dir \ {op.id}
        BY <2>2, MapFacts
      <3> QED
        BY <2>2, <3>1, <3>2 DEF RowsListed
    <2> QED
      BY <1>6, <2>3, <2>4 DEF CloseTable
  <1>7. CASE Rename
    <2>1. UNCHANGED <<open, stored>> /\ op.id \notin DOMAIN open
      BY <1>7 DEF Rename, TypeInv, OpenHasDirectory
    <2>2. dir' = dir \/ dir' = Without(dir, op.id)
      BY <1>7 DEF Rename
    <2>3. \A i \in DOMAIN dir' : i \in DOMAIN dir /\ dir'[i] = dir[i]
      BY <2>2 DEF Without, Restrict
    <2>4. DOMAIN open \subseteq DOMAIN dir'
      BY <2>1, <2>2, MapFacts DEF Without, Restrict
    <2> QED
      BY <2>1, <2>3, <2>4 DEF RowsListed
  <1>8. CASE CloseDatabase
    <2>1. DOMAIN open' = {}
      BY <1>8, NoTablesFacts DEF CloseDatabase, Stop
    <2>2. PICK outcome : FlushInto(DOMAIN open, outcome)
      BY <1>8 DEF CloseDatabase
    <2> QED
      BY <2>1, <2>2, FlushIntoRows DEF RowsListed
  <1>9. CASE Crash
    BY <1>9, NoTablesFacts DEF Crash, Stop, RowsListed
  <1> QED
    BY <1>1, <1>2, <1>3, <1>4, <1>5, <1>6, <1>7, <1>8, <1>9
       DEF Next, LoadMeta, CreateCatalog, OpenCatalogFile, WriteCatalogFile, CreateTable,
           DropTable, ClearMark, vars, disk, history

-----------------------------------------------------------------------------
(* Tables that were created                                                 *)

\* Table u is where CreatedStayListed wants it.
Listed(u, id) ==
    /\ LivesIn(u, id)
    /\ Up => id \in DOMAIN tables /\ tables[id].table = u
    /\ catalogMeta.state = "whole" =>
          id \in DOMAIN catalogMeta.tables /\ catalogMeta.tables[id].table = u

\* A failed CREATE takes back no other table.
LEMMA KeepsOthers ==
    ASSUME IndexInv, CreateUnderWay, op.kind = "create",
           NEW u \in created, NEW id \in DOMAIN tables, tables[id].table = u,
           Unregister(op.name, op.id)
    PROVE  id \in DOMAIN tables' /\ tables'[id].table = u
  <1>1. id # op.id
    BY CreateEntry DEF CreateUnderWay
  <1> QED
    BY <1>1 DEF Unregister, Without, Restrict

\* Nor does a failed saving.
LEMMA NotSavedListed ==
    ASSUME IndexInv, CreateUnderWay, pc # "down", NotSaved, UNCHANGED <<catalogMeta, dir>>,
           NEW u \in created, NEW id \in Id, Listed(u, id)
    PROVE  Listed(u, id)'
  <1>1. id \in DOMAIN tables /\ tables[id].table = u
    BY DEF Listed, Up
  <1>2. id \in DOMAIN tables' /\ tables'[id].table = u
    BY <1>1, KeepsOthers DEF NotSaved, catalog
  <1> QED
    BY <1>2 DEF Listed, LivesIn

\* A table nobody asked to drop stays where it is.
LEMMA StepListed ==
    ASSUME TypeInv, IndexInv, SavedCatalog, CreateUnderWay, [Next]_vars,
           NEW u \in created, NEW id \in Id, Listed(u, id), u \notin asked'
    PROVE  Listed(u, id)'
  <1>1. CASE LoadMeta
    BY <1>1 DEF LoadMeta, disk, Listed, LivesIn
  <1>2. CASE CreateCatalog
    BY <1>2 DEF CreateCatalog, SavedCatalog
  <1>3. CASE OpenCatalogFile
    <2>1. CASE catalogMeta' = Torn /\ pc' = "saveWrite" /\ UNCHANGED <<catalog, op>>
      BY <1>3, <2>1 DEF OpenCatalogFile, Torn, catalog, Listed, LivesIn, Up
    <2>2. CASE NotSaved /\ UNCHANGED catalogMeta
      BY <1>3, <2>2, NotSavedListed DEF OpenCatalogFile
    <2> QED
      BY <1>3, <2>1, <2>2 DEF OpenCatalogFile
  <1>4. CASE WriteCatalogFile
    <2>1. CASE NotSaved /\ UNCHANGED catalogMeta
      BY <1>4, <2>1, NotSavedListed DEF WriteCatalogFile
    <2>2. CASE Saved /\ catalogMeta' \in {catalogMeta, Whole(tables)}
      <3>1. id \in DOMAIN tables /\ tables[id].table = u
        BY <1>4 DEF WriteCatalogFile, Listed, Up
      <3> QED
        BY <1>4, <2>2, <3>1 DEF WriteCatalogFile, Saved, Whole, catalog, Listed, LivesIn
    <2> QED
      BY <1>4, <2>1, <2>2 DEF WriteCatalogFile
  <1>5. ASSUME NEW name \in Name, CreateTable(name) PROVE Listed(u, id)'
    <2>1. PICK new \in Id :
            /\ IsNextTableId(new)
            /\ tables' = With(tables, new, [name |-> name, table |-> next])
      BY <1>5 DEF CreateTable
    <2>2. new \notin DOMAIN tables
      BY <2>1, DatabaseAssumption DEF IsNextTableId, Id, DatabaseAssumption
    <2>3. pc # "down" /\ UNCHANGED <<catalogMeta, dir>>
      BY <1>5 DEF CreateTable, disk
    <2>4. \A i \in DOMAIN tables : i \in DOMAIN tables' /\ tables'[i] = tables[i]
      BY <2>1, <2>2 DEF With
    <2> QED
      BY <2>3, <2>4 DEF Listed, LivesIn, Up
  <1>6. ASSUME NEW name \in Name, DropTable(name) PROVE Listed(u, id)'
    <2> DEFINE old == nameIndex[name]
    <2>1. /\ pc # "down" /\ UNCHANGED <<catalogMeta, dir>>
          /\ tables' = Without(tables, old) /\ tables[old].table \in asked'
      BY <1>6 DEF DropTable, Unregister, disk
    <2> HIDE DEF old
    <2>2. id \in DOMAIN tables /\ tables[id].table = u /\ id # old
      BY <2>1 DEF Listed, Up
    <2>3. id \in DOMAIN tables' /\ tables'[id].table = u
      BY <2>1, <2>2 DEF Without, Restrict
    <2> QED
      BY <2>1, <2>3 DEF Listed, LivesIn
  <1>7. ASSUME NEW name \in Name, Insert(name) PROVE Listed(u, id)'
    BY <1>7 DEF Insert, disk, catalog, Listed, LivesIn, Up
  <1>8. CASE MakeDirectory
    <2>1. /\ op.kind = "create" /\ pc # "down" /\ pc' # "down" /\ UNCHANGED catalogMeta
          /\ id \in DOMAIN tables /\ tables[id].table = u
      BY <1>8 DEF MakeDirectory, RollBack, TypeInv, CallFits, Listed, Up
    <2>2. id # op.id
      BY <2>1, CreateEntry DEF CreateUnderWay
    <2>3. CASE RollBack /\ UNCHANGED dir
      BY <2>1, <2>3, KeepsOthers DEF RollBack, Listed, LivesIn
    <2>4. CASE /\ dir' = With(dir, op.id, [table |-> op.table, whole |-> FALSE, rows |-> FALSE])
               /\ UNCHANGED <<catalog, op>>
      <3>1. \A i \in DOMAIN dir : i # op.id => i \in DOMAIN dir' /\ dir'[i] = dir[i]
        BY <2>4 DEF With
      <3> QED
        BY <2>1, <2>2, <2>4, <3>1 DEF catalog, Listed, LivesIn
    <2> QED
      BY <1>8, <2>3, <2>4 DEF MakeDirectory
  <1>9. CASE WriteTableMeta
    <2>1. /\ op.kind = "create" /\ op.id \in DOMAIN dir /\ UNCHANGED catalogMeta
          /\ id \in DOMAIN tables /\ tables[id].table = u
      BY <1>9 DEF WriteTableMeta, TypeInv, CallFits, OpenHasDirectory, Listed, Up
    <2>2. CASE RollBack /\ UNCHANGED dir
      BY <2>1, <2>2, KeepsOthers DEF RollBack, Listed, LivesIn
    <2>3. CASE /\ dir' = [dir EXCEPT ![op.id].whole = TRUE] \/ dir' = dir
               /\ UNCHANGED catalog
      <3>1. DOMAIN dir' = DOMAIN dir /\ \A i \in DOMAIN dir : dir'[i].table = dir[i].table
        BY <2>1, <2>3, MapFacts DEF Directory
      <3> QED
        BY <2>1, <2>3, <3>1 DEF catalog, Listed, LivesIn
    <2> QED
      BY <1>9, <2>2, <2>3 DEF WriteTableMeta
  <1>10. CASE Flush \/ CloseTable
    <2>1. DOMAIN dir' = DOMAIN dir /\ \A i \in DOMAIN dir : dir'[i].table = dir[i].table
      BY <1>10, FlushIntoFacts DEF Flush, CloseTable
    <2> QED
      BY <1>10, <2>1 DEF Flush, CloseTable, catalog, Listed, LivesIn, Up
  <1>11. CASE ClearMark
    BY <1>11 DEF ClearMark, catalog, Listed, LivesIn, Up
  <1>12. CASE Rename
    <2>1. /\ op.kind = "drop" /\ pc # "down" /\ UNCHANGED <<tables, catalogMeta>>
      BY <1>12 DEF Rename, catalog, TypeInv, CallFits
    <2>2. id # op.id
      BY <2>1 DEF IndexInv, EntryUnderWay, Listed, Up
    <2>3. dir' = dir \/ dir' = Without(dir, op.id)
      BY <1>12 DEF Rename
    <2>4. \A i \in DOMAIN dir : i # op.id => i \in DOMAIN dir' /\ dir'[i] = dir[i]
      BY <2>3 DEF Without, Restrict
    <2> QED
      BY <2>1, <2>2, <2>4 DEF Listed, LivesIn, Up
  <1>13. CASE CloseDatabase \/ Crash
    <2>1. DOMAIN dir' = DOMAIN dir /\ \A i \in DOMAIN dir : dir'[i].table = dir[i].table
      BY <1>13, FlushIntoFacts DEF CloseDatabase, Crash
    <2> QED
      BY <1>13, <2>1 DEF CloseDatabase, Crash, Stop, Listed, LivesIn, Up
  <1>14. CASE UNCHANGED vars
    BY <1>14 DEF vars, disk, catalog, Listed, LivesIn, Up
  <1> QED
    BY <1>1, <1>2, <1>3, <1>4, <1>5, <1>6, <1>7, <1>8, <1>9, <1>10, <1>11, <1>12, <1>13,
       <1>14 DEF Next

\* A CREATE that returns true leaves its table listed.
LEMMA CreatedListed ==
    ASSUME TypeInv, IndexInv, CreateUnderWay, [Next]_vars,
           NEW u \in created', u \notin created
    PROVE  \E id \in Id : Listed(u, id)'
  <1>1. WriteTableMeta /\ created' # created
    BY DEF Next, LoadMeta, CreateCatalog, OpenCatalogFile, WriteCatalogFile, CreateTable,
           DropTable, Insert, MakeDirectory, Flush, CloseTable, ClearMark, Rename,
           CloseDatabase, Crash, Stop, vars, history
  <1>2. /\ u = op.table /\ UNCHANGED <<catalogMeta, tables>>
        /\ dir' = [dir EXCEPT ![op.id].whole = TRUE] \/ dir' = dir
    BY <1>1 DEF WriteTableMeta, catalog
  <1>3. op.kind = "create" /\ op \in Call /\ op.id \in DOMAIN dir
    BY <1>1 DEF WriteTableMeta, TypeInv, CallFits, OpenHasDirectory
  <1>4. op.id \in Id
    BY <1>3 DEF Call
  <1>5. DOMAIN dir' = DOMAIN dir /\ \A i \in DOMAIN dir : dir'[i].table = dir[i].table
    BY <1>2, <1>3, MapFacts DEF Directory
  <1>6. dir[op.id].table = u /\ op.id \in DOMAIN tables /\ tables[op.id].table = u
    BY <1>1, <1>2, <1>3, CreateEntry DEF WriteTableMeta, CreateUnderWay
  <1>7. catalogMeta.state = "whole" =>
           op.id \in DOMAIN catalogMeta.tables /\ catalogMeta.tables[op.id].table = u
    BY <1>1, <1>2 DEF WriteTableMeta, CreateUnderWay
  <1>8. PICK id \in Id : id = op.id
    BY <1>4
  <1>9. Listed(u, id)'
    BY <1>2, <1>3, <1>5, <1>6, <1>7, <1>8 DEF Listed, LivesIn
  <1> QED
    BY <1>9

-----------------------------------------------------------------------------
(* The theorems                                                             *)

\* It holds of a database nobody has made yet.
LEMMA InitHistoryInv == Init => HistoryInv
  <1> SUFFICES ASSUME Init PROVE HistoryInv
    OBVIOUS
  <1>1. /\ DOMAIN tables = {} /\ DOMAIN dir = {} /\ DOMAIN open = {}
        /\ DOMAIN catalogMeta.tables = {} /\ catalogMeta.state = "absent"
        /\ op \notin Call /\ op.kind = "none" /\ pc = "down"
        /\ created = {} /\ stored = {} /\ gone = {}
    BY NoTablesFacts, NotACall DEF Init, Absent, NoCall
  <1>2. \A u, i : ~Claims(u, i)
    BY <1>1 DEF Claims
  <1>3. BelowNext /\ OnePlace /\ GoneUnclaimed
    BY <1>1, <1>2 DEF BelowNext, OnePlace, GoneUnclaimed
  <1>4. SavedCatalog /\ CreateUnderWay /\ DropUnderWay
    BY <1>1 DEF SavedCatalog, CreateUnderWay, DropUnderWay
  <1>5. RowsListed /\ CreatedStayListed
    BY <1>1 DEF RowsListed, CreatedStayListed
  <1> QED
    BY <1>3, <1>4, <1>5 DEF HistoryInv

\* Every step keeps the invariant.
LEMMA NextHistoryInv ==
    ASSUME TypeInv, IndexInv, HistoryInv, [Next]_vars
    PROVE  HistoryInv'
  <1> USE DEF HistoryInv
  <1>1. BelowNext' /\ OnePlace'
    BY NextPlaces, NextTypeInv
  <1>2. GoneUnclaimed' /\ SavedCatalog' /\ RowsListed'
    BY NextGone, NextSavedCatalog, NextRows
  <1>3. CreateUnderWay' /\ DropUnderWay'
    BY NextUnderWay
  <1>4. ASSUME NEW u \in created', u \notin asked'
        PROVE  \E id \in Id : Listed(u, id)'
    <2>1. CASE u \notin created
      BY <2>1, CreatedListed
    <2>2. CASE u \in created
      <3>1. asked \subseteq asked'
        BY DEF Next, LoadMeta, CreateCatalog, OpenCatalogFile, WriteCatalogFile, CreateTable,
               DropTable, Insert, MakeDirectory, WriteTableMeta, Flush, CloseTable, ClearMark,
               Rename, CloseDatabase, Crash, Stop, vars, history
      <3>2. PICK id \in Id : Listed(u, id)
        BY <1>4, <2>2, <3>1 DEF CreatedStayListed, Listed
      <3> QED
        BY <1>4, <2>2, <3>2, StepListed
    <2> QED
      BY <2>1, <2>2
  <1>5. CreatedStayListed'
    BY <1>4 DEF CreatedStayListed, Listed
  <1> QED
    BY <1>1, <1>2, <1>3, <1>5

\* All of it holds in every reachable state.
LEMMA HistoryInvHolds == Spec => [](TypeInv /\ IndexInv /\ HistoryInv)
  <1> DEFINE Inv == TypeInv /\ IndexInv /\ HistoryInv
  <1>1. Init => Inv
    BY InitTypeInv, InitIndexInv, InitHistoryInv
  <1>2. Inv /\ [Next]_vars => Inv'
    BY NextTypeInv, NextIndexInv, NextHistoryInv
  <1> QED
    BY <1>1, <1>2, PTL DEF Spec

\* A table whose CREATE returned true is found by every later start, under the
\* id of its own directory, whatever other calls fail or are cut short.
THEOREM CreatedTablesStay == Spec => []CreatedStayListed
  <1>1. HistoryInv => CreatedStayListed
    BY DEF HistoryInv
  <1> QED
    BY <1>1, HistoryInvHolds, PTL

\* The rows its table.meta has listed stay listed.
THEOREM RowsStay == Spec => []StoredRowsStay
  <1>1. HistoryInv => StoredRowsStay
    BY DEF HistoryInv, CreatedStayListed, RowsListed, StoredRowsStay, LivesIn
  <1> QED
    BY <1>1, HistoryInvHolds, PTL

\* A table whose DROP returned true leaves nothing a later start could find.
THEOREM DroppedTablesStayGone == Spec => []DroppedStayGone
  <1>1. TypeInv /\ HistoryInv => DroppedStayGone
    <2> SUFFICES ASSUME TypeInv, HistoryInv, NEW u \in gone
                 PROVE  /\ u \notin LiveNow
                        /\ \A i \in DOMAIN catalogMeta.tables : catalogMeta.tables[i].table # u
                        /\ \A id \in DOMAIN dir : dir[id].table # u
      BY DEF DroppedStayGone
    <2>1. \A i \in Id : ~Claims(u, i)
      BY DEF HistoryInv, GoneUnclaimed
    <2> QED
      BY <2>1, MapFacts DEF Claims, LiveNow
  <1> QED
    BY <1>1, HistoryInvHolds, PTL

-----------------------------------------------------------------------------
(* Files and whom they were made for                                        *)

\* An open storage writes the files of the directory its id has.
OpenServesDirectory ==
    \A i \in DOMAIN open : open[i].table = dir[i].table

\* Only a CREATE that returned true leaves a table.meta that can be opened.
FilesWereCreated ==
    /\ \A i \in DOMAIN dir : dir[i].whole => dir[i].table \in created
    /\ \A i \in DOMAIN open : dir[i].table \in created

\* A created table that is in the catalog, or in catalog.meta, has the directory
\* of its id.
ListedLivesIn ==
    /\ \A i \in DOMAIN tables : tables[i].table \in created => LivesIn(tables[i].table, i)
    /\ \A i \in DOMAIN catalogMeta.tables :
          catalogMeta.tables[i].table \in created => LivesIn(catalogMeta.tables[i].table, i)

FilesInv ==
    /\ OpenServesDirectory
    /\ FilesWereCreated
    /\ ListedLivesIn

\* It holds of a database nobody has made yet.
LEMMA InitFilesInv == Init => FilesInv
  <1> SUFFICES ASSUME Init PROVE FilesInv
    OBVIOUS
  <1>1. /\ DOMAIN tables = {} /\ DOMAIN dir = {} /\ DOMAIN open = {}
        /\ DOMAIN catalogMeta.tables = {}
    BY NoTablesFacts DEF Init, Absent
  <1> QED
    BY <1>1 DEF FilesInv, OpenServesDirectory, FilesWereCreated, ListedLivesIn

\* A directory keeps its table, and is whole no earlier, over a flush of open tables.
LEMMA FlushIntoFiles ==
    ASSUME TypeInv, FilesWereCreated, NEW ids, ids \subseteq DOMAIN open,
           NEW outcome, FlushInto(ids, outcome)
    PROVE  /\ DOMAIN dir' = DOMAIN dir
           /\ \A i \in DOMAIN dir :
                 /\ dir'[i].table = dir[i].table
                 /\ dir'[i].whole => dir[i].table \in created
  <1>1. DOMAIN dir' = DOMAIN dir /\ \A i \in DOMAIN dir : dir'[i].table = dir[i].table
    BY FlushIntoFacts
  <1>2. \A i \in DOMAIN dir \ ids : dir'[i] = dir[i]
    BY DEF FlushInto
  <1>3. \A i \in ids : dir[i].table \in created
    BY DEF FilesWereCreated
  <1> QED
    BY <1>1, <1>2, <1>3 DEF FilesWereCreated

\* Every step keeps the storages with their directories.
LEMMA NextFiles ==
    ASSUME TypeInv, IndexInv, CreateUnderWay, OpenServesDirectory, FilesWereCreated, [Next]_vars
    PROVE  OpenServesDirectory' /\ FilesWereCreated'
  <1> USE DEF OpenServesDirectory, FilesWereCreated
  <1>1. CASE UNCHANGED <<dir, open, created>>
    BY <1>1
  <1>2. ASSUME NEW name \in Name, Insert(name)
        PROVE  OpenServesDirectory' /\ FilesWereCreated'
    <2> DEFINE id == nameIndex[name]
    <2>1. UNCHANGED <<dir, created>>
      BY <1>2 DEF Insert, disk, history
    <2>2. CASE id \in DOMAIN open /\ open' = [open EXCEPT ![id].unflushed = TRUE]
      <3>1. DOMAIN open' = DOMAIN open /\ \A i \in DOMAIN open : open'[i].table = open[i].table
        BY <2>2, MapFacts DEF Storage
      <3> QED
        BY <2>1, <3>1
    <2>3. CASE /\ id \in DOMAIN dir /\ dir[id].whole
               /\ open' = With(open, id, [table |-> dir[id].table,
                                          listed |-> dir[id].rows, unflushed |-> TRUE])
      <3>1. /\ DOMAIN open' = DOMAIN open \cup {id}
            /\ open'[id].table = dir[id].table
            /\ \A i \in DOMAIN open : i # id => open'[i] = open[i]
        BY <2>3 DEF With
      <3> QED
        BY <2>1, <2>3, <3>1
    <2> QED
      BY <1>2, <2>2, <2>3 DEF Insert
  <1>3. CASE MakeDirectory
    <2>1. UNCHANGED <<open, created>>
      BY <1>3 DEF MakeDirectory, history
    <2>2. CASE UNCHANGED dir
      BY <1>1, <2>1, <2>2
    <2>3. CASE /\ op.id \notin DOMAIN open
               /\ dir' = With(dir, op.id, [table |-> op.table, whole |-> FALSE, rows |-> FALSE])
      <3>1. /\ DOMAIN dir' = DOMAIN dir \cup {op.id}
            /\ dir'[op.id].whole = FALSE
            /\ \A i \in DOMAIN dir : i # op.id => dir'[i] = dir[i]
        BY <2>3 DEF With
      <3> QED
        BY <2>1, <2>3, <3>1, MapFacts
    <2> QED
      BY <1>3, <2>2, <2>3 DEF MakeDirectory
  <1>4. CASE WriteTableMeta
    <2>1. op.id \in DOMAIN dir /\ dir[op.id].table = op.table
      BY <1>4 DEF WriteTableMeta, TypeInv, OpenHasDirectory, CreateUnderWay
    <2>2. CASE UNCHANGED <<dir, open, created>>
      BY <1>1, <2>2
    <2>3. CASE /\ dir' = [dir EXCEPT ![op.id].whole = TRUE] \/ dir' = dir
               /\ open' = With(open, op.id, [table |-> op.table, listed |-> FALSE, unflushed |-> FALSE])
               /\ created' = created \cup {op.table}
      <3>1. /\ DOMAIN dir' = DOMAIN dir
            /\ \A i \in DOMAIN dir : dir'[i].table = dir[i].table
            /\ \A i \in DOMAIN dir : i # op.id => dir'[i] = dir[i]
        BY <2>1, <2>3, MapFacts DEF Directory
      <3>2. /\ DOMAIN open' = DOMAIN open \cup {op.id}
            /\ open'[op.id].table = op.table
            /\ \A i \in DOMAIN open : i # op.id => open'[i] = open[i]
        BY <2>3 DEF With
      <3>3. OpenServesDirectory'
        BY <2>1, <3>1, <3>2, MapFacts
      <3>4. FilesWereCreated'
        BY <2>1, <2>3, <3>1, <3>2, MapFacts
      <3> QED
        BY <3>3, <3>4
    <2> QED
      BY <1>4, <2>2, <2>3 DEF WriteTableMeta
  <1>5. CASE Flush
    <2>1. PICK outcome :
            /\ FlushInto(DOMAIN open, outcome)
            /\ open' = [i \in DOMAIN open |->
                           [open[i] EXCEPT !.listed = outcome[i].listed, !.unflushed = FALSE]]
      BY <1>5 DEF Flush
    <2>2. DOMAIN open' = DOMAIN open /\ \A i \in DOMAIN open : open'[i].table = open[i].table
      BY <2>1, MapFacts DEF Storage
    <2>3. created' = created
      BY <1>5 DEF Flush
    <2> QED
      BY <2>1, <2>2, <2>3, FlushIntoFiles, MapFacts
  <1>6. CASE CloseTable
    <2>1. open' = Without(open, op.id) /\ created' = created
      BY <1>6 DEF CloseTable
    <2>2. \A i \in DOMAIN open' : i \in DOMAIN open /\ open'[i] = open[i]
      BY <2>1 DEF Without, Restrict
    <2>3. CASE UNCHANGED <<dir, stored>>
      BY <2>1, <2>2, <2>3
    <2>4. ASSUME NEW outcome, op.id \in DOMAIN open, FlushInto({op.id}, outcome)
          PROVE  OpenServesDirectory' /\ FilesWereCreated'
      BY <2>1, <2>2, <2>4, FlushIntoFiles, MapFacts
    <2> QED
      BY <1>6, <2>3, <2>4 DEF CloseTable
  <1>7. CASE Rename
    <2>1. UNCHANGED <<open, created>> /\ op.id \notin DOMAIN open
      BY <1>7 DEF Rename, TypeInv, OpenHasDirectory
    <2>2. dir' = dir \/ dir' = Without(dir, op.id)
      BY <1>7 DEF Rename
    <2>3. \A i \in DOMAIN dir' : i \in DOMAIN dir /\ dir'[i] = dir[i]
      BY <2>2 DEF Without, Restrict
    <2>4. DOMAIN open \subseteq DOMAIN dir'
      BY <2>1, <2>2, MapFacts DEF Without, Restrict
    <2> QED
      BY <2>1, <2>3, <2>4
  <1>8. CASE CloseDatabase
    <2>1. DOMAIN open' = {} /\ created' = created
      BY <1>8, NoTablesFacts DEF CloseDatabase, Stop
    <2>2. PICK outcome : FlushInto(DOMAIN open, outcome)
      BY <1>8 DEF CloseDatabase
    <2> QED
      BY <2>1, <2>2, FlushIntoFiles
  <1>9. CASE Crash
    BY <1>9, NoTablesFacts DEF Crash, Stop
  <1> QED
    BY <1>1, <1>2, <1>3, <1>4, <1>5, <1>6, <1>7, <1>8, <1>9
       DEF Next, LoadMeta, CreateCatalog, OpenCatalogFile, WriteCatalogFile, CreateTable,
           DropTable, ClearMark, vars, disk, history

\* Every step keeps the created tables with their directories.
LEMMA NextListed ==
    ASSUME TypeInv, IndexInv, HistoryInv, ListedLivesIn, [Next]_vars
    PROVE  ListedLivesIn'
  <1> USE DEF ListedLivesIn
  <1>1. ASSUME UNCHANGED <<dir, created>>,
               \A i \in DOMAIN tables' : i \in DOMAIN tables /\ tables'[i].table = tables[i].table,
               DOMAIN catalogMeta'.tables = {} \/ UNCHANGED catalogMeta
        PROVE  ListedLivesIn'
    BY <1>1 DEF LivesIn
  <1>2. CASE LoadMeta
    BY <1>2 DEF LoadMeta, disk, history, LivesIn
  <1>3. CASE OpenCatalogFile
    <2>1. CASE catalogMeta' = Torn /\ UNCHANGED catalog
      BY <1>1, <1>3, <2>1, NoTablesFacts DEF OpenCatalogFile, Torn, catalog, history
    <2>2. CASE NotSaved /\ UNCHANGED catalogMeta
      BY <1>1, <1>3, <2>2, NotSavedClaims DEF OpenCatalogFile, history
    <2> QED
      BY <1>3, <2>1, <2>2 DEF OpenCatalogFile
  <1>4. CASE WriteCatalogFile
    <2>1. UNCHANGED <<dir, created>>
      BY <1>4 DEF WriteCatalogFile, history
    <2>2. CASE NotSaved /\ UNCHANGED catalogMeta
      BY <1>1, <2>1, <2>2, NotSavedClaims
    <2>3. CASE Saved /\ catalogMeta' \in {catalogMeta, Whole(tables)}
      BY <2>1, <2>3 DEF Saved, Whole, catalog, LivesIn
    <2> QED
      BY <1>4, <2>2, <2>3 DEF WriteCatalogFile
  <1>5. ASSUME NEW name \in Name, CreateTable(name) PROVE ListedLivesIn'
    <2>1. PICK id \in Id : tables' = With(tables, id, [name |-> name, table |-> next])
      BY <1>5 DEF CreateTable
    <2>2. UNCHANGED <<catalogMeta, dir, created>>
      BY <1>5 DEF CreateTable, disk
    <2>3. next \notin created
      <3>1. next \in Nat /\ ~(next < next)
        BY NextGrows
      <3> QED
        BY <3>1 DEF HistoryInv, BelowNext
    <2> DEFINE entry == [name |-> name, table |-> next]
    <2>4. entry.table = next
      OBVIOUS
    <2> HIDE DEF entry
    <2>5. tables' = With(tables, id, entry)
      BY <2>1 DEF entry
    <2>6. /\ DOMAIN tables' = DOMAIN tables \cup {id} /\ tables'[id] = entry
          /\ \A j \in DOMAIN tables : j # id => tables'[j] = tables[j]
      BY <2>5 DEF With
    <2> QED
      BY <2>2, <2>3, <2>4, <2>6 DEF LivesIn
  <1>6. ASSUME NEW name \in Name, DropTable(name) PROVE ListedLivesIn'
    <2>1. /\ tables' = Without(tables, nameIndex[name])
          /\ UNCHANGED <<catalogMeta, dir, created>>
      BY <1>6 DEF DropTable, Unregister, disk
    <2> QED
      BY <1>1, <2>1, FewerWithout
  <1>7. CASE MakeDirectory
    <2>1. op.kind = "create" /\ created' = created /\ UNCHANGED catalogMeta
      BY <1>7 DEF MakeDirectory, history, TypeInv, CallFits
    <2>2. CASE RollBack /\ UNCHANGED dir
      BY <1>1, <2>1, <2>2, RollBackClaims
    <2>3. CASE /\ dir' = With(dir, op.id, [table |-> op.table, whole |-> FALSE, rows |-> FALSE])
               /\ UNCHANGED <<catalog, op>>
      <3>1. \A i \in DOMAIN dir : i # op.id => i \in DOMAIN dir' /\ dir'[i] = dir[i]
        BY <2>3 DEF With
      <3>2. op.table \notin created /\ tables[op.id].table = op.table
        BY <2>1, CreateEntry DEF HistoryInv, CreateUnderWay
      <3>3. op.id \in DOMAIN catalogMeta.tables => catalogMeta.tables[op.id].table = op.table
        BY <1>7 DEF MakeDirectory, HistoryInv, CreateUnderWay, SavedCatalog
      <3> QED
        BY <2>1, <2>3, <3>1, <3>2, <3>3 DEF catalog, LivesIn
    <2> QED
      BY <1>7, <2>2, <2>3 DEF MakeDirectory
  <1>8. CASE WriteTableMeta
    <2>1. /\ op.kind = "create" /\ op \in Call /\ op.id \in DOMAIN dir /\ UNCHANGED catalogMeta
          /\ dir[op.id].table = op.table
      BY <1>8 DEF WriteTableMeta, TypeInv, CallFits, OpenHasDirectory, HistoryInv, CreateUnderWay
    <2>2. CASE RollBack /\ UNCHANGED <<dir, created>>
      BY <1>1, <2>1, <2>2, RollBackClaims
    <2>3. CASE /\ dir' = [dir EXCEPT ![op.id].whole = TRUE] \/ dir' = dir
               /\ UNCHANGED catalog /\ created' = created \cup {op.table}
      <3>1. DOMAIN dir' = DOMAIN dir /\ \A i \in DOMAIN dir : dir'[i].table = dir[i].table
        BY <2>1, <2>3, MapFacts DEF Directory
      <3>2. op.table \in Incarnation /\ op.id \in Id /\ Claims(op.table, op.id)
        BY <2>1 DEF Call, Claims
      <3>3. \A i \in Id : Claims(op.table, i) => i = op.id
        BY <3>2 DEF HistoryInv, OnePlace
      <3>4. \A i \in DOMAIN tables : tables[i].table = op.table => i = op.id
        BY <3>3, MapFacts DEF Claims
      <3>5. \A i \in DOMAIN catalogMeta.tables : catalogMeta.tables[i].table = op.table => i = op.id
        BY <3>3, MapFacts DEF Claims
      <3> QED
        BY <2>1, <2>3, <3>1, <3>4, <3>5 DEF catalog, LivesIn
    <2> QED
      BY <1>8, <2>2, <2>3 DEF WriteTableMeta
  <1>9. CASE Flush \/ CloseTable
    <2>1. DOMAIN dir' = DOMAIN dir /\ \A i \in DOMAIN dir : dir'[i].table = dir[i].table
      BY <1>9, FlushIntoFacts DEF Flush, CloseTable
    <2> QED
      BY <1>9, <2>1 DEF Flush, CloseTable, catalog, LivesIn
  <1>10. CASE Rename
    <2>1. op.kind = "drop" /\ UNCHANGED <<tables, catalogMeta, created>>
      BY <1>10 DEF Rename, catalog, TypeInv, CallFits
    <2>2. op.id \notin DOMAIN tables /\ op.id \notin DOMAIN catalogMeta.tables
      BY <1>10, <2>1 DEF Rename, IndexInv, EntryUnderWay, HistoryInv, DropUnderWay
    <2>3. dir' = dir \/ dir' = Without(dir, op.id)
      BY <1>10 DEF Rename
    <2>4. \A i \in DOMAIN dir : i # op.id => i \in DOMAIN dir' /\ dir'[i] = dir[i]
      BY <2>3 DEF Without, Restrict
    <2> QED
      BY <2>1, <2>2, <2>4 DEF LivesIn
  <1>11. CASE CloseDatabase \/ Crash
    <2>1. DOMAIN dir' = DOMAIN dir /\ \A i \in DOMAIN dir : dir'[i].table = dir[i].table
      BY <1>11, FlushIntoFacts DEF CloseDatabase, Crash
    <2>2. DOMAIN tables' = {} /\ UNCHANGED <<catalogMeta, created>>
      BY <1>11, NoTablesFacts DEF CloseDatabase, Crash, Stop
    <2> QED
      BY <2>1, <2>2 DEF LivesIn
  <1>12. ASSUME UNCHANGED <<tables, catalogMeta, dir, created>> PROVE ListedLivesIn'
    BY <1>12 DEF LivesIn
  <1> QED
    BY <1>2, <1>3, <1>4, <1>5, <1>6, <1>7, <1>8, <1>9, <1>10, <1>11, <1>12
       DEF Next, CreateCatalog, Insert, ClearMark, vars, disk, catalog, history

\* All of it holds in every reachable state.
LEMMA FilesInvHolds == Spec => [](TypeInv /\ IndexInv /\ HistoryInv /\ FilesInv)
  <1> DEFINE Inv == TypeInv /\ IndexInv /\ HistoryInv /\ FilesInv
  <1>1. Init => Inv
    BY InitTypeInv, InitIndexInv, InitHistoryInv, InitFilesInv
  <1>2. TypeInv /\ IndexInv /\ HistoryInv /\ FilesInv /\ [Next]_vars => FilesInv'
    BY NextFiles, NextListed DEF FilesInv, HistoryInv
  <1>3. Inv /\ [Next]_vars => Inv'
    BY <1>2, NextTypeInv, NextIndexInv, NextHistoryInv
  <1> QED
    BY <1>1, <1>3, PTL DEF Spec

\* GetTable may hand out another table's storage, but only to a table whose own
\* CREATE never returned true, and only that of a table somebody began to drop
\* and no DROP reported as gone, whatever failed and wherever the process died.
THEOREM LeftoversOnly == Spec => []ForeignFilesAreLeftovers
  <1>1. ASSUME TypeInv, IndexInv, HistoryInv, FilesInv,
               NEW i \in Id, ServedTo(i), open[i].table # tables[i].table
        PROVE  tables[i].table \notin created /\ open[i].table \in asked \ gone
    <2> DEFINE u == open[i].table
    <2>1. /\ i \in DOMAIN tables /\ i \in DOMAIN open /\ i \in DOMAIN dir
          /\ u = dir[i].table /\ u \in created
      BY <1>1, MapFacts DEF ServedTo, FilesInv, OpenServesDirectory, FilesWereCreated
    <2>2. Claims(u, i) /\ u \in Incarnation
      BY <1>1, <2>1, ClaimFacts DEF Claims
    <2>3. u \notin gone
      BY <1>1, <2>2 DEF HistoryInv, GoneUnclaimed
    <2>4. tables[i].table \notin created
      BY <1>1, <2>1 DEF FilesInv, ListedLivesIn, LivesIn
    <2>5. ASSUME u \notin asked PROVE FALSE
      <3>1. PICK id \in Id : LivesIn(u, id) /\ (Up => id \in DOMAIN tables /\ tables[id].table = u)
        BY <1>1, <2>1, <2>5 DEF HistoryInv, CreatedStayListed
      <3>2. id = i
        BY <1>1, <2>2, <3>1 DEF LivesIn, Claims, HistoryInv, OnePlace
      <3> QED
        BY <1>1, <3>1, <3>2 DEF ServedTo, Up
    <2> QED
      BY <2>3, <2>4, <2>5
  <1>2. TypeInv /\ IndexInv /\ HistoryInv /\ FilesInv => ForeignFilesAreLeftovers
    BY <1>1 DEF ForeignFilesAreLeftovers
  <1> QED
    BY <1>2, FilesInvHolds, PTL

=============================================================================
