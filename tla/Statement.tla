------------------------------- MODULE Statement -------------------------------
(***************************************************************************)
(* A connection: the life of SQL statements, one after the other.          *)
(*                                                                         *)
(* Connection::Query lexes and parses a text, binds the tree against the   *)
(* catalog, plans, and executes: a query over the segments that have been  *)
(* flushed, serially or by parallel workers, a command by changing the     *)
(* tables.  Each of these steps is an action over the operators of Sql,    *)
(* Planning and Execution, so that what the optimizer, the kernels, the    *)
(* statistics and the indexes make of a query can be compared with what    *)
(* its tree says.  Rows appended are seen by queries once they are flushed.*)
(***************************************************************************)
EXTENDS Execution

CONSTANTS Starts,    \* set of [tables |-> name -> table, script |-> sequence of texts]
          Workers    \* workers of a parallel aggregation

ASSUME WorkersAssumption == Workers \in Nat \ {0}

VARIABLES tables,  \* name -> [schema, segments: flushed, pending: not flushed]
          script,  \* the texts still to be submitted
          stage,   \* what happens next to the statement
          text, ast, bound, plan,
          answer   \* [ok, rows] of the last statement

vars == <<tables, script, stage, text, ast, bound, plan, answer>>

Schemas == [t \in DOMAIN tables |-> tables[t].schema]

Init ==
    /\ \E s \in Starts : tables = s.tables /\ script = s.script
    /\ stage = "idle" /\ text = <<>> /\ ast = NoExpr /\ bound = NoExpr /\ plan = NoExpr
    /\ answer = Answered(<<>>)

Submit ==
    /\ stage \in {"idle", "answered"} /\ script # <<>>
    /\ text' = Head(script) /\ script' = Tail(script) /\ stage' = "parse"
    /\ ast' = NoExpr /\ bound' = NoExpr /\ plan' = NoExpr /\ answer' = Answered(<<>>)
    /\ UNCHANGED tables

Fail == stage' = "idle" /\ answer' = Thrown

\* Lexer::Lex and Parser::ParseStatement.
Parse ==
    /\ stage = "parse"
    /\ ast' = IF LexOverflows(text) THEN NoExpr ELSE ParseStatement(Lex(text))
    /\ IF ast' = NoExpr THEN Fail ELSE stage' = "bind" /\ UNCHANGED answer
    /\ UNCHANGED <<tables, script, text, bound, plan>>

\* Binder::BindStatement.
Bind ==
    /\ stage = "bind"
    /\ bound' = BindStatement(ast, Schemas)
    /\ IF Fails(bound') THEN Fail ELSE stage' = "plan" /\ UNCHANGED answer
    /\ UNCHANGED <<tables, script, text, ast, plan>>

\* Planner, Optimizer and PhysicalPlanner.  A command is its own plan.
Plan ==
    /\ stage = "plan"
    /\ plan' = IF bound.kind = "select"
               THEN CreatePhysicalPlan(Optimize(PlanSelect(bound), 8), Schemas[bound.table])
               ELSE bound
    /\ stage' = "execute"
    /\ UNCHANGED <<tables, script, text, ast, bound, answer>>

Executing(kind) == stage = "execute" /\ plan.kind = kind /\ stage' = "answered"

\* A query without aggregates.
ExecuteQuery ==
    /\ Executing("select") /\ ~plan.aggregate
    /\ answer' = RunProjection(plan, tables[plan.table].segments, Schemas[plan.table])
    /\ UNCHANGED <<tables, script, text, ast, bound, plan>>

\* A query with aggregates: any worker may claim any segment.  One over an
\* index scan has one worker.
ExecuteAggregate ==
    /\ Executing("select") /\ plan.aggregate
    /\ LET segments == tables[plan.table].segments
       IN \E worker \in [DOMAIN segments -> IF plan.scan.kind = "index" THEN {1} ELSE 1..Workers] :
              answer' = RunAggregate(plan, segments, Schemas[plan.table], worker, Workers)
    /\ UNCHANGED <<tables, script, text, ast, bound, plan>>

\* CommandExecutor::ExecuteInsert: all rows or none.
ExecuteInsert ==
    /\ Executing("insert")
    /\ LET table == tables[plan.table]
           rows  == InsertedRows(table.schema, plan)
           refused == DuplicateKey(table.schema, FlattenSeq(table.segments) \o table.pending, rows)
       IN IF (\E r \in ToSet(rows) : Throw \in ToSet(r)) \/ refused
          THEN answer' = Thrown /\ UNCHANGED tables
          ELSE answer' = Answered(<<>>) /\ tables' = [tables EXCEPT ![plan.table].pending = @ \o rows]
    /\ UNCHANGED <<script, text, ast, bound, plan>>

\* CommandExecutor::ExecuteCreateTable.
ExecuteCreateTable ==
    /\ Executing("create")
    /\ tables' = (plan.table :> [schema |-> plan.schema, segments |-> <<>>, pending |-> <<>>]) @@ tables
    /\ answer' = Answered(<<>>)
    /\ UNCHANGED <<script, text, ast, bound, plan>>

\* Database::Flush: what is pending becomes a segment.
Flush ==
    /\ stage \in {"idle", "answered"} /\ stage' = "idle"
    /\ \E t \in DOMAIN tables :
          /\ tables[t].pending # <<>>
          /\ tables' = [tables EXCEPT ![t].segments = Append(@, tables[t].pending), ![t].pending = <<>>]
    /\ UNCHANGED <<script, text, ast, bound, plan, answer>>

Next == \/ Submit \/ Parse \/ Bind \/ Plan
        \/ ExecuteQuery \/ ExecuteAggregate \/ ExecuteInsert \/ ExecuteCreateTable
        \/ Flush

Spec == Init /\ [][Next]_vars

(***************************************************************************)
(* What a statement means: its tree read by itself, with no plan.          *)
(***************************************************************************)
RECURSIVE TypeOf(_, _), Holds(_), Means(_, _, _), HasAggregate(_)

HasAggregate(e) == e.kind = "agg" \/ (e.kind = "bin" /\ (HasAggregate(e.left) \/ HasAggregate(e.right)))

ColumnNamed(columns, name) == CHOOSE c \in DOMAIN columns : columns[c].name = name

TypeOf(e, columns) ==
    CASE e.kind = "col" -> columns[ColumnNamed(columns, e.name)].type
      [] e.kind = "int" -> "INT32"
      [] e.kind = "dbl" -> "DOUBLE"
      [] e.kind = "str" -> "VARCHAR"
      [] e.kind = "bin" -> IF e.op \notin {"+", "-"} THEN "INT32"
                           ELSE IF TypeOf(e.right, columns) = "DOUBLE" THEN "DOUBLE" ELSE TypeOf(e.left, columns)
      [] e.kind = "agg" -> IF e.fn = "COUNT" THEN "INT64"
                           ELSE IF e.fn \in {"SUM", "AVG"} THEN "DOUBLE" ELSE TypeOf(e.arg, columns)

Holds(v) == v.n # 0

\* The value of an expression of a row, or Throw.
Means(e, row, columns) ==
    CASE e.kind = "col" -> row[ColumnNamed(columns, e.name)]
      [] e.kind \in {"int", "dbl", "str"} ->
            Value(TypeOf(e, columns), CASE e.kind = "int" -> e.int [] e.kind = "dbl" -> e.dbl [] OTHER -> e.str)
      [] e.kind = "bin" ->
            LET l == Means(e.left, row, columns)
                r == Means(e.right, row, columns)
                settled == (e.op = "AND" /\ ~Holds(l)) \/ (e.op = "OR" /\ Holds(l))
            IN IF l = Throw THEN Throw
               ELSE IF settled THEN Bool(e.op = "OR")
               ELSE IF r = Throw THEN Throw
               ELSE IF e.op \in {"AND", "OR"} THEN Bool(Holds(r))
               ELSE IF (l.t = "VARCHAR") # (r.t = "VARCHAR") THEN Throw
               ELSE IF e.op \notin {"+", "-"} THEN Bool(Compares(e.op, l.n, r.n))
               ELSE IF l.t = "VARCHAR" THEN Throw
               ELSE CastNumber(Arithmetic(e.op, l.n, r.n), TypeOf(e, columns))

\* The number an aggregate has over some rows.
MeansAggregate(e, rows, columns) ==
    LET values == [r \in DOMAIN rows |-> Means(e.arg, rows[r], columns)]
        ns     == {values[r].n : r \in DOMAIN rows}
        sum    == FoldLeft(LAMBDA x, v : x + v.n, 0, values)
        none   == rows = <<>>
        type   == TypeOf(e, columns)
    IN CASE e.fn = "COUNT" -> Value(type, 2 * Len(rows))
         [] e.fn = "SUM"   -> CastNumber(sum, type)
         [] e.fn = "AVG"   -> Value(type, Quotient(sum, Len(rows)))
         [] OTHER          -> IF none /\ type = "VARCHAR" THEN Throw
                              ELSE Value(type, IF none THEN 0 ELSE IF e.fn = "MIN" THEN Min(ns) ELSE Max(ns))

\* As a column of the answer an expression has its type.
Shown(v, type) == IF v = Throw THEN Throw ELSE Value(type, v.n)

\* The answer of a SELECT over rows as a sequence of rows in any order; not
\* ok where it has no meaning.
Meaning(s, rows, columns) ==
    LET items  == IF s.items[1].expr = ColumnRef("*") THEN [c \in DOMAIN columns |-> ColumnRef(columns[c].name)]
                  ELSE [i \in DOMAIN s.items |-> s.items[i].expr]
        where(r) == IF s.where = NoExpr THEN Bool(TRUE) ELSE Means(s.where, r, columns)
        chosen == SelectSeq(rows, LAMBDA r : Holds(where(r)))
        keyOf(r) == [g \in DOMAIN s.groupBy |-> Means(s.groupBy[g], r, columns)]
        keys   == IF s.groupBy = <<>> THEN {<<>>} ELSE {keyOf(chosen[r]) : r \in DOMAIN chosen}
        groups == s.groupBy # <<>> \/ \E i \in DOMAIN items : HasAggregate(items[i])
        args   == {items[i].arg : i \in {i \in DOMAIN items : items[i].kind = "agg"}} \ {NoExpr}
        cell(key, e) ==
            IF e.kind = "agg" THEN MeansAggregate(e, SelectSeq(chosen, LAMBDA r : keyOf(r) = key), columns)
            ELSE key[CHOOSE g \in DOMAIN s.groupBy : s.groupBy[g] = e]
        line(f(_)) == [i \in DOMAIN items |-> Shown(f(items[i]), TypeOf(items[i], columns))]
        answered == IF groups THEN [k \in 1..Cardinality(keys) |-> line(LAMBDA e : cell(SetToSeq(keys)[k], e))]
                    ELSE [r \in DOMAIN chosen |-> line(LAMBDA e : Means(e, chosen[r], columns))]
    IN IF \/ HasAggregate(s.where) \/ \E g \in DOMAIN s.groupBy : HasAggregate(s.groupBy[g])
          \/ groups /\ \E i \in DOMAIN items : items[i].kind # "agg" /\ ~Contains(s.groupBy, items[i])
          \/ \E r \in ToSet(rows) : where(r) = Throw
          \/ groups /\ \E r \in ToSet(chosen) : Throw \in ToSet(keyOf(r)) \cup {Means(a, r, columns) : a \in args}
       THEN Thrown ELSE AnswerOf(answered)

(***************************************************************************)
(* Properties                                                              *)
(***************************************************************************)
FlushedRows(t) == FlattenSeq(tables[t].segments)

\* A query answers what its tree says of the flushed rows, each row as often
\* as it is due: push-down, statistics, indexes, kernels, column pruning and
\* the merging of workers change nothing.  It throws only where the tree has
\* no meaning for some row.  (A predicate pushed down may spare it an error.)
AnswerIsExact ==
    stage = "answered" /\ ast.stmt = "select" =>
        LET meaning == Meaning(ast, FlushedRows(ast.table), Schemas[ast.table].columns)
        IN meaning.ok => answer.ok /\ ToBag(answer.rows) = ToBag(meaning.rows)

\* The trees of a statement: those of its items, its condition and so on.
RECURSIVE Subtrees(_)
Subtrees(e) ==
    CASE e.kind = "bin" -> {e} \cup Subtrees(e.left) \cup Subtrees(e.right)
      [] e.kind = "agg" -> {e} \cup Subtrees(e.arg)
      [] OTHER          -> {e}
Trees(s) == IF s.stmt # "select" THEN {}
            ELSE {s.items[i].expr : i \in DOMAIN s.items} \cup {s.where} \cup ToSet(s.groupBy)

LevelOf(e) ==
    IF e.kind # "bin" THEN 4 ELSE IF e.op = "OR" THEN 1 ELSE IF e.op = "AND" THEN 2 ELSE 3
Parenthesis == {Sign("("), Sign(")")}

\* Without parentheses OR binds loosest, then AND, then comparisons and
\* arithmetic, and equal operators group from the left (parser.h:44).
GroupsAsDocumented ==
    stage = "bind" /\ Sign("(") \notin ToSet(text) =>
        \A e \in UNION {Subtrees(t) : t \in Trees(ast)} :
            e.kind = "bin" => LevelOf(e.left) >= LevelOf(e) /\ LevelOf(e.right) > LevelOf(e)

\* The words of a query, parentheses and what may be left out apart, in order.
Commas(texts) == FoldLeft(LAMBDA x, y : x \o <<Sign(",")>> \o y, Head(texts), Tail(texts))
Printed(s) ==
    LET item(x) == IF x.expr = ColumnRef("*") THEN <<Sign("*")>>
                   ELSE ToText(x.expr) \o (IF x.alias = "" THEN <<>> ELSE <<Word(x.alias)>>)
    IN <<Word("SELECT")>> \o Commas([i \in DOMAIN s.items |-> item(s.items[i])]) \o <<Word("FROM"), Word(s.table)>>
       \o (IF s.where = NoExpr THEN <<>> ELSE <<Word("WHERE")>> \o ToText(s.where))
       \o (IF s.groupBy = <<>> THEN <<>>
           ELSE <<Word("GROUP"), Word("BY")>> \o Commas([g \in DOMAIN s.groupBy |-> ToText(s.groupBy[g])]))

\* An accepted query has every word of its text in its tree, in order: none
\* is dropped or read twice (parser.cpp:61).
ReadsWhole ==
    stage = "bind" /\ ast.stmt = "select" =>
        LET words(t) == SelectSeq(t, LAMBDA l : l \notin Parenthesis \cup {Word("AS"), Sign(";")})
        IN words(text) = words(Printed(ast))

\* A table that was created has distinct columns and at most one primary key,
\* and its keys have distinct names, ids and existing, distinct columns.
SchemasAreSound ==
    \A t \in DOMAIN tables :
        LET columns == tables[t].schema.columns
            keys    == tables[t].schema.keys
            distinct(q, f(_)) == IsInjective([i \in DOMAIN q |-> f(q[i])])
        IN /\ distinct(columns, LAMBDA c : c.name)
           /\ distinct(keys, LAMBDA k : k.id)
           /\ distinct(keys, LAMBDA k : k.name)
           /\ \A k \in ToSet(keys) : ToSet(k.columns) \subseteq DOMAIN columns /\ IsInjective(k.columns)
           /\ Cardinality({i \in DOMAIN keys : keys[i].type = "PRIMARY"}) <= 1

\* An INSERT stores, in the order of its rows, each value in the column it was
\* written for and zero elsewhere, or changes nothing.
Stored(s, columns) ==
    LET names == IF s.columns = <<>> THEN [c \in DOMAIN columns |-> columns[c].name] ELSE s.columns
        cell(row, c) == IF ~Contains(names, columns[c].name) THEN Value(columns[c].type, 0)
                        ELSE Means(row[SelectInSeq(names, LAMBDA n : n = columns[c].name)], <<>>, columns)
    IN [r \in DOMAIN s.rows |-> [c \in DOMAIN columns |-> cell(s.rows[r], c)]]
InsertIsExact ==
    [][stage = "execute" /\ ast.stmt = "insert" =>
          LET table == tables[ast.table]
          IN tables' = IF answer'.ok
                       THEN [tables EXCEPT ![ast.table].pending = @ \o Stored(ast, table.schema.columns)]
                       ELSE tables]_vars
=============================================================================
