------------------------------- MODULE Execution -------------------------------
(***************************************************************************)
(* Executing a physical plan: the expressions of exec_expression.cpp, the  *)
(* predicates of the filter, the row filter of storage, the two scans,     *)
(* projection, aggregation and the evaluation of INSERT's values.          *)
(*                                                                         *)
(* A row is a sequence of values.  A batch holds the columns read, by      *)
(* index, the physical rows and the set of rows that are selected; a set   *)
(* of rows that contains 0 says that an evaluation threw.                  *)
(***************************************************************************)
EXTENDS Planning, Predicates

Batch(columns, rows, sel) == [columns |-> columns, rows |-> rows, sel |-> sel]

(***************************************************************************)
(* Expressions                                                             *)
(***************************************************************************)
\* CompileExecExpr: a column becomes its slot in the batch; a column that
\* was not read, and an aggregate, are refused.
RECURSIVE CompileExecExpr(_, _)
CompileExecExpr(e, columns) ==
    CASE e.kind = "col" -> IF Contains(columns, e.col) THEN [e EXCEPT !.col = SelectInSeq(columns, LAMBDA c : c = e.col)] ELSE Bad
      [] e.kind = "bin" ->
            LET l == CompileExecExpr(e.left, columns)
                r == CompileExecExpr(e.right, columns)
            IN IF AnyFails(<<l, r>>) THEN Bad ELSE BoundBinary(e.op, l, r, e.type)
      [] e.kind = "agg" -> Bad
      [] OTHER          -> e

Arithmetic(op, a, b) == IF op = "+" THEN a + b ELSE a - b

\* ExecExpression::Eval on one row; AND and OR need not look at their right.
RECURSIVE Eval(_, _)
Eval(e, row) ==
    CASE e.kind = "col" -> row[e.col]
      [] e.kind = "lit" -> e.val
      [] e.kind = "bin" ->
            LET l == Eval(e.left, row)
                r == Eval(e.right, row)
            IN IF l.t = "throw" THEN Throw
               ELSE CASE e.op = "AND" -> IF ~ExecValueAsBool(l) THEN Bool(FALSE)
                                         ELSE IF r.t = "throw" THEN Throw ELSE Bool(ExecValueAsBool(r))
                      [] e.op = "OR"  -> IF ExecValueAsBool(l) THEN Bool(TRUE)
                                         ELSE IF r.t = "throw" THEN Throw ELSE Bool(ExecValueAsBool(r))
                      [] e.op \in CmpOps     -> CompareValues(e.op, l, r)
                      [] e.op \in {"+", "-"} ->
                        IF r.t = "throw" \/ "VARCHAR" \in {l.t, r.t} THEN Throw
                        ELSE CastNumber(Arithmetic(e.op, l.n, r.n), e.type)

(***************************************************************************)
(* The predicates of FilterOperator                                        *)
(***************************************************************************)
\* TryCompileNumericCompare: a comparison the kernels make, two columns of
\* one numeric type, or a column and a literal that is a number of its type.
IsKernelCompare(e) ==
    /\ e.op \in CmpOps
    /\ LET column(x) == x.kind = "col" /\ IsNumericType(x.type)
       IN \/ column(e.left) /\ e.right.kind = "col" /\ e.left.type = e.right.type
          \/ column(e.left) /\ e.right.kind = "lit" /\ TryCoerceExact(e.right.val, e.left.type)
          \/ column(e.right) /\ e.left.kind = "lit" /\ TryCoerceExact(e.left.val, e.right.type)

\* A literal on the left is compared from the right.
NumericCompare(e, row) ==
    CASE e.left.kind = "lit"  -> Compares(ReverseCmpOp(e.op), row[e.right.col].n, e.left.val.n)
      [] e.right.kind = "lit" -> Compares(e.op, row[e.left.col].n, e.right.val.n)
      [] OTHER                -> Compares(e.op, row[e.left.col].n, row[e.right.col].n)

ScalarMask(e, rows, input) ==
    {i \in input : ExecValueAsBool(Eval(e, rows[i]))} \cup {0 : i \in {j \in input : Eval(e, rows[j]).t = "throw"}}

\* Mutant: the right side of OR is asked about every row, and is the answer.
RECURSIVE VectorMask_OrRight(_, _, _)
VectorMask_OrRight(e, rows, input) ==
    IF e.kind = "bin" /\ e.op \in {"AND", "OR"}
    THEN LET left == VectorMask_OrRight(e.left, rows, input) \ {0}
         IN VectorMask_OrRight(e.right, rows, IF e.op = "AND" THEN left ELSE input \ left)
    ELSE ScalarMask(e, rows, input)

\* VectorPredicate::Evaluate: the rows of the input that satisfy e.  The right
\* side of AND is asked about the rows the left side chose, the right side of
\* OR about those it did not choose.
RECURSIVE VectorMask(_, _, _)
VectorMask(e, rows, input) ==
    IF e.kind = "bin" /\ e.op \in {"AND", "OR"}
    THEN LET left  == VectorMask(e.left, rows, input)
             right == VectorMask(e.right, rows, IF e.op = "AND" THEN left \ {0} ELSE input \ left)
         IN IF e.op = "AND" THEN right \cup (left \cap {0}) ELSE left \cup right
    ELSE IF e.kind = "bin" /\ IsKernelCompare(e) THEN {i \in input : NumericCompare(e, rows[i])}
    ELSE ScalarMask(e, rows, input)

\* FilterOperator over the batches of its child.
FilterBatches(filter, batches) ==
    IF filter.kind = "none" THEN batches
    ELSE [b \in DOMAIN batches |->
            [batches[b] EXCEPT !.sel = VectorMask(CompileExecExpr(filter, batches[b].columns), batches[b].rows, @)]]

(***************************************************************************)
(* Scans                                                                   *)
(***************************************************************************)
\* StorageRowFilter::Apply: the rows every predicate that is in the mask holds of.
RowFilter(predicates, mask, columns, rows) ==
    LET slot(p)    == SelectInSeq(columns, LAMBDA c : c = p.col)
        holds(p, v) == Passes(PreparePredicate(p, v.t), v.n)
    IN {i \in DOMAIN rows : \A k \in mask : holds(predicates[k], rows[i][slot(predicates[k])])}

\* SegmentReader::GetVectorBatch and GatherRows, which fill the columns asked for.
ReadColumns(row, columns) == [c \in DOMAIN columns |-> row[columns[c]]]

\* A plan that needs no column reads the first one, to count rows.
ScanColumns(columns) == IF columns = <<>> THEN <<1>> ELSE columns

\* EvaluatePredicates and ScanSegment: a segment is skipped, or read with a
\* filter made of the predicates its statistics do not settle.
ScanSegment(segment, columns, predicates) ==
    LET match(k) == EvaluateByStats(ColumnStats(segment, predicates[k].col), predicates[k].op,
                                    Round(MantissaBits.DOUBLE, predicates[k].val.n))
        open == {k \in DOMAIN predicates : match(k) = "NEED_FILTER"}
        rows == [i \in DOMAIN segment |-> ReadColumns(segment[i], columns)]
    IN IF \E k \in DOMAIN predicates : match(k) = "SKIP" THEN <<>>
       ELSE <<Batch(columns, rows, RowFilter(predicates, open, columns, rows))>>

\* The components of an index key: of a row its columns, of a lookup the
\* literals, converted.  A FLOAT column takes no integer literal.
EncodeRow(row, key) == [i \in DOMAIN key.columns |-> row[key.columns[i]]]
AppendScalarComponent(v, type) ==
    IF type = v.t THEN v
    ELSE CASE type = "INT64" /\ v.t = "INT32"     -> Value(type, v.n)
           [] type = "FLOAT" /\ v.t = "DOUBLE"    -> CastNumber(v.n, type)
           [] type = "DOUBLE" /\ IsNumericType(v.t) -> CastNumber(v.n, type)
           [] OTHER -> Throw
EncodeLookup(key, lookup, schema) ==
    [i \in DOMAIN lookup |-> AppendScalarComponent(lookup[i], schema.columns[key.columns[i]].type)]

\* IndexScanOperator: the rows with the key, segment by segment, and among
\* them those the remaining predicates hold of.
RunIndexScan(segment, columns, scan, schema) ==
    LET sought == EncodeLookup(scan.key, scan.lookup, schema)
        hits   == SelectSeq(segment, LAMBDA row : EncodeRow(row, scan.key) = sought)
        rows   == [i \in DOMAIN hits |-> ReadColumns(hits[i], columns)]
    IN IF hits = <<>> THEN <<>>
       ELSE <<Batch(columns, rows, RowFilter(scan.predicates, DOMAIN scan.predicates, columns, rows))>>

ScanThrows(plan, schema) ==
    plan.scan.kind = "index" /\ Throw \in ToSet(EncodeLookup(plan.scan.key, plan.scan.lookup, schema))

\* What a scan and the filter over it hand on, from one segment.
SourceBatches(plan, segment, schema) ==
    LET columns == ScanColumns(plan.columns)
    IN FilterBatches(plan.filter, IF plan.scan.kind = "index" THEN RunIndexScan(segment, columns, plan.scan, schema)
                                  ELSE ScanSegment(segment, columns, plan.scan.predicates))

SelectedRows(batch) ==
    LET order == SetToSortSeq(batch.sel, <) IN [i \in DOMAIN order |-> batch.rows[order[i]]]

(***************************************************************************)
(* Projection                                                              *)
(***************************************************************************)
\* TryCompileVectorExpression: an addition or subtraction the kernels make,
\* of columns of the result type and of literals that are numbers of it.
IsKernelArithmetic(e) ==
    LET operand(x) == \/ x.kind = "col" /\ x.type = e.type
                      \/ x.kind = "lit" /\ TryCoerceExact(x.val, e.type)
    IN /\ e.kind = "bin" /\ e.op \in {"+", "-"} /\ IsNumericType(e.type)
       /\ operand(e.left) /\ operand(e.right)
       /\ "col" \in {e.left.kind, e.right.kind}

\* Mutant: the constant is always taken for the right operand.
KernelArithmetic_ConstRight(e, row) ==
    LET v(x) == IF x.kind = "col" THEN row[x.col].n ELSE x.val.n
    IN IF e.left.kind = "lit" THEN Wrap(Arithmetic(e.op, v(e.right), v(e.left)), e.type)
       ELSE Wrap(Arithmetic(e.op, v(e.left), v(e.right)), e.type)

\* ArithmeticVectorExpression::EvaluateDense on one row.
KernelArithmetic(e, row) ==
    LET v(x) == IF x.kind = "col" THEN row[x.col].n ELSE x.val.n
    IN Wrap(Arithmetic(e.op, v(e.left), v(e.right)), e.type)

\* A column is handed on as it is, an expression evaluated by the kernels or
\* row by row.
Project(e, row) ==
    IF e.kind = "col" THEN row[e.col]
    ELSE IF IsKernelArithmetic(e) THEN KernelArithmetic(e, row) ELSE WriteExecValue(Eval(e, row), e.type)

(***************************************************************************)
(* Aggregation                                                             *)
(*                                                                         *)
(* A table of groups maps a key, the values of the grouping expressions,   *)
(* to one state for each aggregate.  Without GROUP BY its only key is the  *)
(* empty one, and it is there from the start.                              *)
(***************************************************************************)
NoValue    == Value("none", 0)
StartState == [count |-> 0, sum |-> 0, best |-> NoValue]

Better(fn, v, best) == v # NoValue /\ (best = NoValue \/ Compares(IF fn = "MIN" THEN "<" ELSE ">", v.n, best.n))

UpdateAggregate(call, state, row) ==
    LET v == Eval(call.arg, row)
    IN CASE call.fn = "COUNT" -> [state EXCEPT !.count = @ + 1]
         [] call.fn = "SUM"   -> [state EXCEPT !.sum = @ + v.n]
         [] call.fn = "AVG"   -> [state EXCEPT !.sum = @ + v.n, !.count = @ + 1]
         [] OTHER             -> [state EXCEPT !.best = IF Better(call.fn, v, @) THEN v ELSE @]

\* Mutant: an average is merged as the sums alone.
CombineAggregate_SumOnly(call, dst, src) ==
    [count |-> IF call.fn = "AVG" THEN dst.count ELSE dst.count + src.count, sum |-> dst.sum + src.sum,
     best  |-> IF Better(call.fn, src.best, dst.best) THEN src.best ELSE dst.best]

CombineAggregate(call, dst, src) ==
    [count |-> dst.count + src.count, sum |-> dst.sum + src.sum,
     best  |-> IF Better(call.fn, src.best, dst.best) THEN src.best ELSE dst.best]

\* Without a value MIN and MAX are the number 0, of strings as well.
FinalizeAggregate(call, state) ==
    CASE call.fn = "COUNT" -> Value("INT64", 2 * state.count)
      [] call.fn = "SUM"   -> CastNumber(state.sum, call.type)
      [] call.fn = "AVG"   -> Value("DOUBLE", Quotient(state.sum, state.count))
      [] OTHER             -> IF state.best = NoValue THEN CastNumber(0, call.type) ELSE state.best

\* BuildAggregateSpec: the aggregates among the outputs, compiled.
AggregateCalls(plan) ==
    LET calls == SelectSeq(plan.outputs, LAMBDA e : e.kind = "agg")
    IN [i \in DOMAIN calls |-> [calls[i] EXCEPT !.arg = CompileExecExpr(@, ScanColumns(plan.columns))]]
GroupExprs(plan) == [i \in DOMAIN plan.groupBy |-> CompileExecExpr(plan.groupBy[i], ScanColumns(plan.columns))]

MakeStates(calls) == [i \in DOMAIN calls |-> StartState]
NoGroups(plan) == IF plan.groupBy = <<>> THEN <<>> :> MakeStates(AggregateCalls(plan)) ELSE <<>>
StatesOf(key, groups, calls) == IF key \in DOMAIN groups THEN groups[key] ELSE MakeStates(calls)

ConsumeRow(plan, groups, row) ==
    LET calls == AggregateCalls(plan)
        exprs == GroupExprs(plan)
        key   == [i \in DOMAIN exprs |-> Eval(exprs[i], row)]
        old   == StatesOf(key, groups, calls)
    IN (key :> [i \in DOMAIN calls |-> UpdateAggregate(calls[i], old[i], row)]) @@ groups

Consume(plan, groups, batch) == FoldLeft(LAMBDA g, row : ConsumeRow(plan, g, row), groups, SelectedRows(batch))

\* What evaluating the grouping expressions and arguments throws.
ConsumeThrows(plan, batch) ==
    \E row \in ToSet(SelectedRows(batch)) :
        \/ \E e \in ToSet(GroupExprs(plan)) : Eval(e, row).t = "throw"
        \/ \E call \in ToSet(AggregateCalls(plan)) : call.arg.kind # "none" /\ Eval(call.arg, row).t = "throw"

\* The state of one worker joins those before it.
Merge(plan, groups, other) ==
    LET calls == AggregateCalls(plan)
    IN [key \in DOMAIN groups \cup DOMAIN other |->
            [i \in DOMAIN calls |-> CombineAggregate(calls[i], StatesOf(key, groups, calls)[i],
                                                     StatesOf(key, other, calls)[i])]]

\* NextGlobalResult and NextGroupedResult for one group.
GroupRow(plan, key, states) ==
    LET callOf(i) == Cardinality({j \in 1..i : plan.outputs[j].kind = "agg"})
        value(i) == IF plan.outputs[i].kind = "agg"
                    THEN FinalizeAggregate(AggregateCalls(plan)[callOf(i)], states[callOf(i)])
                    ELSE key[SelectInSeq(plan.groupBy, LAMBDA g : g = plan.outputs[i])]
    IN [i \in DOMAIN plan.outputs |-> WriteExecValue(value(i), plan.outputs[i].type)]

(***************************************************************************)
(* Queries and commands                                                    *)
(***************************************************************************)
\* Building the operators: every expression is compiled, and beside the
\* aggregates only grouping expressions are put out.
BuildThrows(plan) ==
    LET compiled(es) == [i \in DOMAIN es |-> CompileExecExpr(es[i], ScanColumns(plan.columns))]
        args   == [i \in DOMAIN AggregateCalls(plan) |-> AggregateCalls(plan)[i].arg]
        others == SelectSeq(plan.outputs, LAMBDA e : e.kind # "agg")
    IN \/ AnyFails(compiled(<<plan.filter>>))
       \/ plan.aggregate /\ (AnyFails(GroupExprs(plan) \o args) \/ ~(ToSet(others) \subseteq ToSet(plan.groupBy)))
       \/ ~plan.aggregate /\ AnyFails(compiled(plan.outputs))

Answered(rows)  == [ok |-> TRUE, rows |-> rows]
Thrown          == [ok |-> FALSE, rows |-> <<>>]
AnswerOf(rows) == IF \E r \in ToSet(rows) : Throw \in ToSet(r) THEN Thrown ELSE Answered(rows)

\* The batches of all segments, each in the order it has in its table.
AllBatches(plan, segments, schema) ==
    FlattenSeq([s \in DOMAIN segments |-> SourceBatches(plan, segments[s], schema)])

SourceThrows(plan, segments, schema) ==
    \/ BuildThrows(plan)
    \/ ScanThrows(plan, schema)
    \/ \E b \in ToSet(AllBatches(plan, segments, schema)) : 0 \in b.sel

\* ExecuteSerialQuery with a projection on top.
RunProjection(plan, segments, schema) ==
    LET outputs == [i \in DOMAIN plan.outputs |-> CompileExecExpr(plan.outputs[i], ScanColumns(plan.columns))]
        batches == AllBatches(plan, segments, schema)
        rows    == FlattenSeq([b \in DOMAIN batches |-> SelectedRows(batches[b])])
    IN IF SourceThrows(plan, segments, schema) THEN Thrown
       ELSE AnswerOf([r \in DOMAIN rows |-> [i \in DOMAIN outputs |-> Project(outputs[i], rows[r])]])

\* ExecuteAggregate: worker[s] claims segment s; the states of the workers
\* are merged in the order of the workers.
RunAggregate(plan, segments, schema, worker, workers) ==
    LET batchesOf(w) == FlattenSeq([s \in DOMAIN segments |->
                            IF worker[s] = w THEN SourceBatches(plan, segments[s], schema) ELSE <<>>])
        state(w) == FoldLeft(LAMBDA g, b : Consume(plan, g, b), NoGroups(plan), batchesOf(w))
        groups   == FoldLeft(LAMBDA g, w : Merge(plan, g, state(w)), state(1), [i \in 1..(workers - 1) |-> i + 1])
        rows     == [key \in DOMAIN groups |-> GroupRow(plan, key, groups[key])]
    IN IF \/ SourceThrows(plan, segments, schema)
          \/ \E b \in ToSet(AllBatches(plan, segments, schema)) : ConsumeThrows(plan, b)
       THEN Thrown ELSE AnswerOf([i \in 1..Cardinality(DOMAIN groups) |-> rows[SetToSeq(DOMAIN groups)[i]]])

\* A value of an INSERT, computed in doubles.
RECURSIVE EvalInsertConstant(_)
EvalInsertConstant(e) ==
    IF e.kind = "lit" THEN IF e.type = "VARCHAR" THEN e.val ELSE CastNumber(e.val.n, "DOUBLE")
    ELSE LET l == EvalInsertConstant(e.left)
             r == EvalInsertConstant(e.right)
         IN IF e.op \notin {"+", "-"} \/ l.t # "DOUBLE" \/ r.t # "DOUBLE" THEN Throw
            ELSE CastNumber(Arithmetic(e.op, l.n, r.n), "DOUBLE")

\* Mutant: the values go to the columns from the left, whatever was named.
InsertRow_InOrder(columns, targets, row) ==
    [c \in DOMAIN columns |->
        IF c \in DOMAIN targets THEN WriteExecValue(EvalInsertConstant(row[c]), columns[c].type)
        ELSE Value(columns[c].type, 0)]

\* A column that is not named keeps the zero of its type.
InsertRow(columns, targets, row) ==
    [c \in DOMAIN columns |->
        IF c \in ToSet(targets)
        THEN WriteExecValue(EvalInsertConstant(row[SelectInSeq(targets, LAMBDA t : t = c)]), columns[c].type)
        ELSE Value(columns[c].type, 0)]

InsertedRows(schema, bound) == [r \in DOMAIN bound.rows |-> InsertRow(schema.columns, bound.targets, bound.rows[r])]

\* Whether the rows stored and the new ones hold a primary key twice.
DuplicateKey(schema, stored, new) ==
    \E k \in {k \in ToSet(schema.keys) : k.type = "PRIMARY"} :
        ~IsInjective([r \in DOMAIN (stored \o new) |-> EncodeRow((stored \o new)[r], k)])
=============================================================================
