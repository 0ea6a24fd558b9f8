------------------------------- MODULE Planning -------------------------------
(***************************************************************************)
(* From a syntax tree to a physical plan: Binder, Planner, Optimizer and   *)
(* PhysicalPlanner.                                                        *)
(*                                                                         *)
(* A schema is a sequence of columns and a sequence of keys.  A SELECT has *)
(* one shape of plan only, a scan, an optional filter and a projection or  *)
(* an aggregation over it, so the plan is a record with a field for each.  *)
(***************************************************************************)
EXTENDS Sql, TLC

(***************************************************************************)
(* Binder                                                                  *)
(***************************************************************************)
Problem(what) == [kind |-> what, type |-> "INVALID"]
Bad   == Problem("bad")      \* SemanticException
Crash == Problem("crash")    \* the null context_ of BindInsert
Fails(b) == b.kind \in {"bad", "crash"}
FirstProblem(bs) == bs[SelectInSeq(bs, Fails)]
AnyFails(bs) == SelectInSeq(bs, Fails) # 0

\* The index of the column, 0 when there is none.
FindColumn(columns, name) == SelectInSeq(columns, LAMBDA c : c.name = name)

NoContext == <<[name |-> "", type |-> "no context"]>>

BoundColumn(i, type)   == [kind |-> "col", col |-> i, type |-> type]
BoundLiteral(type, n)  == [kind |-> "lit", val |-> Value(type, n), type |-> type]
BoundBinary(op, l, r, type) == [kind |-> "bin", op |-> op, left |-> l, right |-> r, type |-> type]
BoundAgg(fn, arg, type) == [kind |-> "agg", fn |-> fn, arg |-> arg, type |-> type]

RECURSIVE ContainsAggregate(_)
ContainsAggregate(b) ==
    \/ b.kind = "agg"
    \/ b.kind = "bin" /\ (ContainsAggregate(b.left) \/ ContainsAggregate(b.right))

BinaryType(op, l, r) ==
    IF op \in CmpOps \cup {"AND", "OR"} THEN "INT32"
    ELSE IF "DOUBLE" \in {l.type, r.type} THEN "DOUBLE" ELSE l.type

BindAggFunc(fn, arg) ==
    IF fn = "COUNT" /\ arg.kind = "none" THEN BoundAgg("COUNT", arg, "INT64")
    ELSE IF Fails(arg) THEN arg
    ELSE IF ContainsAggregate(arg) THEN Bad
    ELSE CASE fn = "COUNT"          -> BoundAgg(fn, arg, "INT64")
           [] fn \in {"MIN", "MAX"} -> BoundAgg(fn, arg, arg.type)
           [] OTHER -> IF IsNumericType(arg.type) THEN BoundAgg(fn, arg, "DOUBLE") ELSE Bad

RECURSIVE BindExpr(_, _)
BindExpr(e, columns) ==
    CASE e.kind = "none" -> e
      [] e.kind = "int"  -> BoundLiteral("INT32", e.int)
      [] e.kind = "dbl"  -> BoundLiteral("DOUBLE", e.dbl)
      [] e.kind = "str"  -> BoundLiteral("VARCHAR", e.str)
      [] e.kind = "agg"  -> BindAggFunc(e.fn, BindExpr(e.arg, columns))
      [] e.kind = "bin"  ->
            LET l == BindExpr(e.left, columns)
                r == BindExpr(e.right, columns)
            IN IF AnyFails(<<l, r>>) THEN FirstProblem(<<l, r>>)
               ELSE BoundBinary(e.op, l, r, BinaryType(e.op, l, r))
      [] e.kind = "col"  ->
            LET i == FindColumn(columns, e.name)
            IN IF columns = NoContext THEN Crash ELSE IF i = 0 THEN Bad ELSE BoundColumn(i, columns[i].type)

\* SELECT * alone stands for every column.
BindSelectList(items, columns) ==
    IF Len(items) = 1 /\ items[1].expr = ColumnRef("*")
    THEN [i \in DOMAIN columns |-> BoundColumn(i, columns[i].type)]
    ELSE [i \in DOMAIN items |-> BindExpr(items[i].expr, columns)]

\* With GROUP BY an item without an aggregate is one of the grouping
\* expressions; without GROUP BY nothing is checked here.
ValidateAggregations(items, groupBy) ==
    groupBy = <<>> \/ \A i \in DOMAIN items : ContainsAggregate(items[i]) \/ Contains(groupBy, items[i])

BindSelect(s, schemas) ==
    LET columns == schemas[s.table].columns
        items   == BindSelectList(s.items, columns)
        where   == BindExpr(s.where, columns)
        groupBy == [i \in DOMAIN s.groupBy |-> BindExpr(s.groupBy[i], columns)]
    IN IF s.table \notin DOMAIN schemas \/ AnyFails(items \o <<where>> \o groupBy)
          \/ ~ValidateAggregations(items, groupBy)
       THEN Bad
       ELSE [kind |-> "select", table |-> s.table, items |-> items, where |-> where, groupBy |-> groupBy]

\* The columns an INSERT names, or all of them.
InsertTargets(s, columns) ==
    IF s.columns = <<>> THEN [i \in DOMAIN columns |-> i]
    ELSE [i \in DOMAIN s.columns |-> FindColumn(columns, s.columns[i])]

\* Only a value that is itself a column or an aggregate is refused; one
\* inside an expression reaches BindExpr, which has no context here.
BindInsertValue(e, type) ==
    LET b == IF e.kind \in {"col", "agg"} THEN Bad ELSE BindExpr(e, NoContext)
    IN IF ~Fails(b) /\ b.type # type THEN Bad ELSE b

BindInsert(s, schemas) ==
    LET columns == schemas[s.table].columns
        targets == InsertTargets(s, columns)
        bindRow(row) == IF Len(row) # Len(targets) THEN <<Bad>>
                        ELSE [i \in DOMAIN row |-> BindInsertValue(row[i], columns[targets[i]].type)]
        rows    == [r \in DOMAIN s.rows |-> bindRow(s.rows[r])]
    IN IF \/ s.table \notin DOMAIN schemas
          \/ Len(s.rows[1]) # Len(targets) \/ 0 \in ToSet(targets) \/ ~IsInjective(targets)
       THEN Bad
       ELSE IF AnyFails(FlattenSeq(rows)) THEN FirstProblem(FlattenSeq(rows))
       ELSE [kind |-> "insert", table |-> s.table, targets |-> targets, rows |-> rows]

PrimaryKeyName == "PRIMARY"

\* The key id is the place of the key among all keys of the definition.
BindKeys(keys, columns) ==
    [k \in DOMAIN keys |->
        [id |-> k - 1, type |-> keys[k].type,
         name |-> IF keys[k].type = "PRIMARY" THEN PrimaryKeyName
                  ELSE IF keys[k].name = "" THEN "key_" \o ToString(k - 1) ELSE keys[k].name,
         columns |-> [i \in DOMAIN keys[k].columns |-> FindColumn(columns, keys[k].columns[i])]]]

\* Mutant: a column may be in a key twice.
BindCreateTable_Twice(s, schemas) ==
    LET keys == BindKeys(s.keys, s.columns)
    IN IF s.table \in DOMAIN schemas \/ \E k \in DOMAIN keys : 0 \in ToSet(keys[k].columns) THEN Bad
       ELSE [kind |-> "create", table |-> s.table, schema |-> [columns |-> s.columns, keys |-> keys]]

BindCreateTable(s, schemas) ==
    LET keys    == BindKeys(s.keys, s.columns)
        of(type) == SelectSeq(keys, LAMBDA k : k.type = type)
        names(ks) == [k \in DOMAIN ks |-> ks[k].name]
    IN IF \/ s.table \in DOMAIN schemas
          \/ ~IsInjective(names(s.columns))
          \/ \E k \in DOMAIN keys : 0 \in ToSet(keys[k].columns) \/ ~IsInjective(keys[k].columns)
          \/ Len(of("PRIMARY")) > 1 \/ ~IsInjective(names(of("SECONDARY")))
       THEN Bad
       ELSE [kind |-> "create", table |-> s.table, schema |-> [columns |-> s.columns, keys |-> keys]]

BindStatement(s, schemas) ==
    CASE s.stmt = "select" -> BindSelect(s, schemas)
      [] s.stmt = "insert" -> BindInsert(s, schemas)
      [] s.stmt = "create" -> BindCreateTable(s, schemas)

(***************************************************************************)
(* Planner                                                                 *)
(***************************************************************************)
PlanSelect(b) ==
    [kind |-> "select", table |-> b.table, filter |-> b.where, pushed |-> <<>>, columns |-> <<>>,
     aggregate |-> b.groupBy # <<>> \/ \E i \in DOMAIN b.items : ContainsAggregate(b.items[i]),
     groupBy |-> b.groupBy, outputs |-> b.items]

(***************************************************************************)
(* Optimizer                                                               *)
(***************************************************************************)
RECURSIVE FlattenConjuncts(_)
FlattenConjuncts(e) ==
    IF e.kind = "bin" /\ e.op = "AND" THEN FlattenConjuncts(e.left) \o FlattenConjuncts(e.right) ELSE <<e>>

BuildConjunction(es) ==
    IF es = <<>> THEN NoExpr
    ELSE FoldLeft(LAMBDA l, r : BoundBinary("AND", l, r, "INT32"), Head(es), Tail(es))

\* A numeric column =, > or < a numeric literal, in this order.
IsSimplePredicate(e) ==
    /\ e.kind = "bin" /\ e.left.kind = "col" /\ e.right.kind = "lit"
    /\ e.op \in {"=", ">", "<"}
    /\ IsNumericType(e.left.type) /\ IsNumericType(e.right.type)

ExtractSimplePredicate(e) == [col |-> e.left.col, op |-> e.op, val |-> e.right.val]

\* The conjuncts storage can decide move to the scan, the rest stay.
PushPredicate(plan) ==
    LET conjuncts == FlattenConjuncts(plan.filter)
        simple    == SelectSeq(conjuncts, IsSimplePredicate)
        residual  == SelectSeq(conjuncts, LAMBDA e : ~IsSimplePredicate(e))
    IN IF plan.filter.kind = "none" \/ simple = <<>> THEN plan
       ELSE [plan EXCEPT !.pushed = @ \o [i \in DOMAIN simple |-> ExtractSimplePredicate(simple[i])],
                         !.filter = BuildConjunction(residual)]

RECURSIVE CollectColumnRefs(_)
CollectColumnRefs(e) ==
    CASE e.kind = "col" -> {e.col}
      [] e.kind = "bin" -> CollectColumnRefs(e.left) \cup CollectColumnRefs(e.right)
      [] e.kind = "agg" -> CollectColumnRefs(e.arg)
      [] OTHER          -> {}

CollectRequiredColumns(plan) ==
    UNION ({CollectColumnRefs(e) : e \in ToSet(plan.outputs) \cup ToSet(plan.groupBy) \cup {plan.filter}}
           \cup {{p.col} : p \in ToSet(plan.pushed)})

PruneColumns(plan) == [plan EXCEPT !.columns = SetToSortSeq(CollectRequiredColumns(plan), <)]

\* Both rules in turn until neither changes the plan.
RECURSIVE Optimize(_, _)
Optimize(plan, passes) ==
    LET next == PruneColumns(PushPredicate(plan))
    IN IF passes = 0 \/ next = plan THEN plan ELSE Optimize(next, passes - 1)

(***************************************************************************)
(* Physical planner                                                        *)
(***************************************************************************)
\* Mutant: a DOUBLE literal is taken for an integer key.
LiteralUsableForKey_Widened(type, val) == IsNumericType(type) /\ IsNumericType(val.t)

LiteralUsableForKey(type, val) ==
    CASE IsInteger(type)  -> val.t = "INT32"
      [] IsFloating(type) -> val.t \in {"INT32", "DOUBLE"}
      [] OTHER            -> val.t = type

EqualitiesOn(col, predicates) == {i \in DOMAIN predicates : predicates[i].col = col /\ predicates[i].op = "="}

\* Every column of the key has exactly one equality, with a literal an index
\* key can be made of.
MatchesKey(schema, key, predicates) ==
    \A c \in ToSet(key.columns) :
        /\ Cardinality(EqualitiesOn(c, predicates)) = 1
        /\ \A i \in EqualitiesOn(c, predicates) : LiteralUsableForKey(schema.columns[c].type, predicates[i].val)

IndexScan(key, predicates) ==
    LET consumed == UNION {EqualitiesOn(c, predicates) : c \in ToSet(key.columns)}
        literal(c) == predicates[CHOOSE i \in EqualitiesOn(c, predicates) : TRUE].val
        residual == SetToSortSeq(DOMAIN predicates \ consumed, <)
    IN [kind |-> "index", key |-> key,
        lookup |-> [i \in DOMAIN key.columns |-> literal(key.columns[i])],
        predicates |-> [i \in DOMAIN residual |-> predicates[residual[i]]]]

SeqScan(predicates) == [kind |-> "seq", predicates |-> predicates]

\* The primary key first, then the secondary keys in their order.
PlanScan(schema, predicates) ==
    LET of(type)   == SelectSeq(schema.keys, LAMBDA k : k.type = type)
        matching   == SelectSeq(of("PRIMARY") \o of("SECONDARY"), LAMBDA k : MatchesKey(schema, k, predicates))
    IN IF matching = <<>> THEN SeqScan(predicates) ELSE IndexScan(Head(matching), predicates)

CreatePhysicalPlan(plan, schema) == plan @@ [scan |-> PlanScan(schema, plan.pushed)]
=============================================================================
