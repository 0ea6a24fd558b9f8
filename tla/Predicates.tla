------------------------------- MODULE Predicates -------------------------------
(***************************************************************************)
(* The predicates pushed into a scan, for one column: what the statistics  *)
(* of a segment decide about them, and what they are rewritten to for the  *)
(* column's type before they are evaluated row by row.                     *)
(***************************************************************************)
EXTENDS Values, FiniteSetsExt

\* The statistics of a column of a segment, kept as doubles.
ColumnStats(rows, c) ==
    LET ns == {Round(MantissaBits.DOUBLE, rows[i][c].n) : i \in DOMAIN rows}
    IN [has |-> IsNumericType(rows[1][c].t), min |-> Min(ns), max |-> Max(ns)]

\* Mutant: an equal bound is taken to settle the comparison.
EvaluateByStats_Loose(st, op, v) ==
    IF ~st.has THEN "NEED_FILTER"
    ELSE CASE op = "=" -> IF v < st.min \/ v > st.max THEN "SKIP" ELSE "NEED_FILTER"
           [] op = ">" -> IF st.max <= v THEN "SKIP" ELSE IF st.min >= v THEN "ALL_MATCH" ELSE "NEED_FILTER"
           [] OTHER    -> IF st.min >= v THEN "SKIP" ELSE IF st.max <= v THEN "ALL_MATCH" ELSE "NEED_FILTER"

\* What the bounds of a segment say about a comparison with v.
EvaluateByStats(st, op, v) ==
    LET outside == v < st.min \/ v > st.max
        single  == st.min = v /\ st.max = v
        up      == op \in {">", ">="}
        best    == IF up THEN st.max ELSE st.min
        worst   == IF up THEN st.min ELSE st.max
        answer(skip, all) == IF skip THEN "SKIP" ELSE IF all THEN "ALL_MATCH" ELSE "NEED_FILTER"
    IN IF ~st.has THEN "NEED_FILTER"
       ELSE CASE op = "="  -> answer(outside, single)
              [] op = "!=" -> answer(single, outside)
              [] OTHER     -> answer(~Compares(op, best, v), Compares(op, worst, v))

Always(holds)       == [kind |-> IF holds THEN "ALWAYS_TRUE" ELSE "ALWAYS_FALSE", op |-> "=", n |-> 0]
TypedCompare(op, n) == [kind |-> "TYPED_COMPARE", op |-> op, n |-> n]

\* A literal outside the type's range decides for every row.
SetIntegerConstantPredicate(type, op, n) ==
    IF n < Lowest(type) THEN Always(op \in {"!=", ">", ">="})
    ELSE IF n > Highest(type) THEN Always(op \in {"!=", "<", "<="})
    ELSE TypedCompare(op, n)

\* A literal with a fraction is replaced by the next integer.
SetIntegerDoublePredicate(type, op, n) ==
    IF n \notin Lowest(type)..(Highest(type) + 1) \/ n % 2 = 0 THEN SetIntegerConstantPredicate(type, op, n)
    ELSE CASE op \in {"=", "!="} -> Always(op = "!=")
           [] op \in {">", ">="} -> SetIntegerConstantPredicate(type, ">", n - 1)
           [] op \in {"<", "<="} -> SetIntegerConstantPredicate(type, "<", n + 1)

\* A literal becomes a double, and for a FLOAT column that double a float.
BindFloatingPredicate(type, op, n) ==
    TypedCompare(op, Round(MantissaBits[type], Round(MantissaBits.DOUBLE, n)))

PreparePredicate(p, type) ==
    IF IsFloating(type) THEN BindFloatingPredicate(type, p.op, p.val.n)
    ELSE IF IsInteger(p.val.t) THEN SetIntegerConstantPredicate(type, p.op, p.val.n)
    ELSE SetIntegerDoublePredicate(type, p.op, p.val.n)

\* Whether a value passes a prepared predicate: the decided ones and RunTypedCompare.
Passes(q, n) == q.kind = "ALWAYS_TRUE" \/ (q.kind = "TYPED_COMPARE" /\ Compares(q.op, n, q.n))
=============================================================================
