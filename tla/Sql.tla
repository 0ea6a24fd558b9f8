--------------------------------- MODULE Sql ---------------------------------
(***************************************************************************)
(* The SQL front end: Lexer::Lex and Parser::ParseStatement, from the text *)
(* of one statement to its syntax tree.                                    *)
(*                                                                         *)
(* A text is a sequence of lexemes, the pieces between which white space   *)
(* is allowed.  Numbers are counted in halves and strings by their order   *)
(* (see Values), so 1 is 2 and 0.5 is 1.                                   *)
(* A parsing operator takes the tokens and the index of the next one and   *)
(* returns what it built and the index after it; index 0 is an exception.  *)
(***************************************************************************)
EXTENDS Values, SequencesExt

Lexeme(class, text, num) == [class |-> class, text |-> text, num |-> num]
Word(w)    == Lexeme("word", w, 0)
Sign(s)    == Lexeme("sign", s, 0)
Quoted(k)  == Lexeme("quoted", "", 2 * k)
Digits(n)  == Lexeme("digits", "", 2 * n)
Decimal(h) == Lexeme("decimal", "", h)

(***************************************************************************)
(* Lexer                                                                   *)
(***************************************************************************)
Keyword == {"SELECT", "FROM", "WHERE", "GROUP", "BY", "CREATE", "TABLE", "PRIMARY", "KEY",
            "INSERT", "INTO", "VALUES", "AS", "AND", "OR"}
Punctuation == {"(", ")", ",", ";", "*", "+", "-", "=", "<", "<=", ">", ">=", "!="}
Operator == {"+", "-", "=", "!=", "<", "<=", ">", ">="}

TokenType(l) ==
    CASE l.class = "word"    -> IF l.text \in Keyword THEN l.text ELSE "IDENTIFIER"
      [] l.class = "digits"  -> "INTEGER"
      [] l.class = "decimal" -> "FLOAT"
      [] l.class = "quoted"  -> "STRING"
      [] l.class = "sign"    -> IF l.text = "!" THEN "END" ELSE l.text

EndToken == [type |-> "END", text |-> "", num |-> 0]

\* A character the lexer does not know is passed over, and a lone "!" is the
\* end of the input, whatever follows it.
Lex(text) ==
    LET known(l) == l.class = "sign" => l.text \in Punctuation \cup {"!", "--"}
        read     == SelectSeq(text, known)
        tokens   == [i \in DOMAIN read |->
                        [type |-> TokenType(read[i]), text |-> read[i].text, num |-> read[i].num]]
        ends     == SelectInSeq(tokens, LAMBDA t : t.type = "END")
    IN IF ends = 0 THEN Append(tokens, EndToken) ELSE SubSeq(tokens, 1, ends - 1) \o <<EndToken>>

\* On "--" NextToken calls itself without having moved on.
LexOverflows(text) == \E i \in DOMAIN Lex(text) : Lex(text)[i].type = "--"

(***************************************************************************)
(* Syntax trees                                                            *)
(***************************************************************************)
ColumnRef(n)    == [kind |-> "col", name |-> n]
IntLiteral(h)   == [kind |-> "int", int |-> h]
FloatLiteral(h) == [kind |-> "dbl", dbl |-> h]
StringLit(s)    == [kind |-> "str", str |-> s]
BinaryOp(o, l, r) == [kind |-> "bin", op |-> o, left |-> l, right |-> r]
AggFunc(f, a)   == [kind |-> "agg", fn |-> f, arg |-> a]
NoExpr          == [kind |-> "none"]

Failed  == [v |-> NoExpr, i |-> 0]
Got(v, i) == [v |-> v, i |-> i]

\* What is parsed next, unless an exception was thrown.
Then(got, next(_)) == IF got.i = 0 THEN Failed ELSE next(got)

(***************************************************************************)
(* Parser                                                                  *)
(***************************************************************************)
Peek(ts, i) == IF i \in DOMAIN ts THEN ts[i].type ELSE "END"

\* The index after the expected tokens, or 0.
RECURSIVE Expect(_, _, _)
Expect(ts, i, types) ==
    IF types = <<>> \/ i = 0 THEN i
    ELSE IF Peek(ts, i) = Head(types) THEN Expect(ts, i + 1, Tail(types)) ELSE 0

\* The name at i, after which parsing goes on.
Name(ts, i) ==
    IF i # 0 /\ Peek(ts, i) = "IDENTIFIER" THEN Got(ts[i].text, i + 1) ELSE Failed

Aggregates == {"SUM", "COUNT", "AVG", "MIN", "MAX"}
TypeName == [INT |-> "INT32", INTEGER |-> "INT32", BIGINT |-> "INT64",
             FLOAT |-> "FLOAT", DOUBLE |-> "DOUBLE", VARCHAR |-> "VARCHAR"]

\* Mutant: AND and OR bind alike.
LevelOps_Flat(level) == <<{"OR", "AND"}, {"OR", "AND"}, Operator>>[level]

\* The operators of a level of precedence, the loosest first.
LevelOps(level) == <<{"OR"}, {"AND"}, Operator>>[level]

RECURSIVE ParseLevel(_, _, _), ParseMore(_, _, _), ParsePrimary(_, _), ParseList(_, _, _)

ParseExpression(ts, i) == ParseLevel(1, ts, i)

\* ParseOrExpression, ParseAndExpression and ParseComparisonExpression.
ParseLevel(level, ts, i) ==
    IF level = 4 THEN ParsePrimary(ts, i) ELSE ParseMore(level, ts, ParseLevel(level + 1, ts, i))

\* Their loops: as long as an operator of the level follows, the tree so far
\* becomes its left operand.
ParseMore(level, ts, left) ==
    IF left.i = 0 \/ Peek(ts, left.i) \notin LevelOps(level) THEN left
    ELSE Then(ParseLevel(level + 1, ts, left.i + 1), LAMBDA right :
              ParseMore(level, ts, Got(BinaryOp(Peek(ts, left.i), left.v, right.v), right.i)))

\* v and what was parsed, up to a closing parenthesis.
Closed(ts, got, v) == LET end == Expect(ts, got.i, <<")">>) IN IF end = 0 THEN Failed ELSE Got(v, end)

ParseCall(fn, ts, i) ==
    IF fn \notin Aggregates THEN Failed
    ELSE IF Peek(ts, i) = "*" THEN IF fn = "COUNT" THEN Closed(ts, Got(NoExpr, i + 1), AggFunc(fn, NoExpr)) ELSE Failed
    ELSE Then(ParseExpression(ts, i), LAMBDA arg : Closed(ts, arg, AggFunc(fn, arg.v)))

ParsePrimary(ts, i) ==
    CASE Peek(ts, i) = "INTEGER" -> IF ts[i].num > Highest("INT32") THEN Failed ELSE Got(IntLiteral(ts[i].num), i + 1)
      [] Peek(ts, i) = "FLOAT"   -> Got(FloatLiteral(ts[i].num), i + 1)
      [] Peek(ts, i) = "STRING"  -> Got(StringLit(ts[i].num), i + 1)
      [] Peek(ts, i) = "IDENTIFIER" ->
            IF Peek(ts, i + 1) = "(" THEN ParseCall(ts[i].text, ts, i + 2)
            ELSE Got(ColumnRef(ts[i].text), i + 1)
      [] Peek(ts, i) = "(" -> Then(ParseExpression(ts, i + 1), LAMBDA inner : Closed(ts, inner, inner.v))
      [] OTHER -> Failed

\* The alias of an item, "" when it has none.
ParseAlias(ts, i) ==
    CASE Peek(ts, i) = "AS"         -> Name(ts, i + 1)
      [] Peek(ts, i) = "IDENTIFIER" -> Name(ts, i)
      [] OTHER                      -> Got("", i)

ParseSelectItem(ts, i) ==
    IF Peek(ts, i) = "*" THEN Got([expr |-> ColumnRef("*"), alias |-> ""], i + 1)
    ELSE Then(ParseExpression(ts, i), LAMBDA e :
         Then(ParseAlias(ts, e.i), LAMBDA alias : Got([expr |-> e.v, alias |-> alias.v], alias.i)))

Parenthesized(what, ts, i) ==
    IF i = 0 \/ Peek(ts, i) # "(" THEN Failed
    ELSE Then(ParseList(what, ts, i + 1), LAMBDA list : Closed(ts, list, list.v))

\* A column, or a key; a column that is PRIMARY KEY brings a key along.
ParseCreateItem(ts, i) ==
    LET key(type, name, cols)  == [type |-> type, name |-> name, columns |-> cols]
        keyOf(type, name, cols) ==
            IF cols.i = 0 THEN Failed ELSE Got([columns |-> <<>>, keys |-> <<key(type, name, cols.v)>>], cols.i)
        column == [name |-> ts[i].text, type |-> TypeName[ts[i + 1].text]]
        primary == Expect(ts, i + 2, <<"PRIMARY", "KEY">>)
    IN CASE Peek(ts, i) = "PRIMARY" -> keyOf("PRIMARY", "", Parenthesized("name", ts, Expect(ts, i, <<"PRIMARY", "KEY">>)))
         [] Peek(ts, i) = "KEY" /\ Peek(ts, i + 1) = "IDENTIFIER" ->
                keyOf("SECONDARY", ts[i + 1].text, Parenthesized("name", ts, i + 2))
         [] Peek(ts, i) = "KEY" /\ Peek(ts, i + 1) # "IDENTIFIER" ->
                keyOf("SECONDARY", "", Parenthesized("name", ts, i + 1))
         [] OTHER ->
                IF Expect(ts, i, <<"IDENTIFIER", "IDENTIFIER">>) = 0 \/ ts[i + 1].text \notin DOMAIN TypeName THEN Failed
                ELSE IF Peek(ts, i + 2) # "PRIMARY" THEN Got([columns |-> <<column>>, keys |-> <<>>], i + 2)
                ELSE IF primary = 0 THEN Failed
                ELSE Got([columns |-> <<column>>, keys |-> <<key("PRIMARY", "", <<column.name>>)>>], primary)

ParseItem(what, ts, i) ==
    IF i = 0 THEN Failed
    ELSE CASE what = "expr" -> ParseExpression(ts, i)
           [] what = "name"   -> Name(ts, i)
           [] what = "select" -> ParseSelectItem(ts, i)
           [] what = "row"    -> Parenthesized("expr", ts, i)
           [] what = "create" -> ParseCreateItem(ts, i)

\* One or more of them, with commas between.
ParseList(what, ts, i) ==
    Then(ParseItem(what, ts, i), LAMBDA first :
        IF Peek(ts, first.i) # "," THEN Got(<<first.v>>, first.i)
        ELSE Then(ParseList(what, ts, first.i + 1), LAMBDA rest : Got(<<first.v>> \o rest.v, rest.i)))

ParseWhere(ts, i) == IF Peek(ts, i) = "WHERE" THEN ParseExpression(ts, i + 1) ELSE Got(NoExpr, i)

ParseGroupBy(ts, i) ==
    IF Peek(ts, i) # "GROUP" THEN Got(<<>>, i) ELSE ParseList("expr", ts, Expect(ts, i, <<"GROUP", "BY">>))

SelectTree(items, table, where, group) ==
    Got([stmt |-> "select", table |-> table.v, items |-> items.v, where |-> where.v, groupBy |-> group.v], group.i)

\* Mutant: what follows the statement is ignored, as it once was.
SelectEnd_Ignored(ts, select) == select

\* One semicolon, and nothing after it.
SelectEnd(ts, select) ==
    IF Peek(ts, IF Peek(ts, select.i) = ";" THEN select.i + 1 ELSE select.i) = "END" THEN select ELSE Failed

ParseSelect(ts, i) ==
    Then(ParseList("select", ts, i), LAMBDA items :
    Then(Name(ts, Expect(ts, items.i, <<"FROM">>)), LAMBDA table :
    Then(ParseWhere(ts, table.i), LAMBDA where :
    Then(ParseGroupBy(ts, where.i), LAMBDA group :
        SelectEnd(ts, SelectTree(items, table, where, group))))))

\* The columns an INSERT names, if it names any.
ParseInsertColumns(ts, i) == IF Peek(ts, i) = "(" THEN Parenthesized("name", ts, i) ELSE Got(<<>>, i)

ParseInsert(ts, i) ==
    Then(Name(ts, Expect(ts, i, <<"INTO">>)), LAMBDA table :
    Then(ParseInsertColumns(ts, table.i), LAMBDA columns :
    Then(ParseList("row", ts, Expect(ts, columns.i, <<"VALUES">>)), LAMBDA rows :
        Got([stmt |-> "insert", table |-> table.v, columns |-> columns.v, rows |-> rows.v], rows.i))))

ParseCreateTable(ts, i) ==
    LET all(items, f(_)) == FlattenSeq([k \in DOMAIN items |-> f(items[k])])
    IN Then(Name(ts, Expect(ts, i, <<"TABLE">>)), LAMBDA table :
       Then(Parenthesized("create", ts, table.i), LAMBDA items :
           Got([stmt |-> "create", table |-> table.v, columns |-> all(items.v, LAMBDA x : x.columns),
                keys |-> all(items.v, LAMBDA x : x.keys)], items.i)))

\* A statement, or NoExpr when the parser throws.
ParseStatement(ts) ==
    CASE Peek(ts, 1) = "SELECT" -> ParseSelect(ts, 2).v
      [] Peek(ts, 1) = "INSERT" -> ParseInsert(ts, 2).v
      [] Peek(ts, 1) = "CREATE" -> ParseCreateTable(ts, 2).v
      [] OTHER -> NoExpr

(***************************************************************************)
(* Printing, the inverse of parsing                                        *)
(***************************************************************************)
\* Expr::ToString, whose output has parentheses around every operation.
RECURSIVE ToText(_)
ToText(e) ==
    CASE e.kind = "col" -> <<Word(e.name)>>
      [] e.kind = "int" -> <<Lexeme("digits", "", e.int)>>
      [] e.kind = "dbl" -> <<Decimal(e.dbl)>>
      [] e.kind = "str" -> <<Lexeme("quoted", "", e.str)>>
      [] e.kind = "bin" -> <<Sign("(")>> \o ToText(e.left)
                           \o <<IF e.op \in Keyword THEN Word(e.op) ELSE Sign(e.op)>> \o ToText(e.right) \o <<Sign(")")>>
      [] e.kind = "agg" -> <<Word(e.fn), Sign("(")>> \o (IF e.arg = NoExpr THEN <<Sign("*")>> ELSE ToText(e.arg)) \o <<Sign(")")>>
=============================================================================
