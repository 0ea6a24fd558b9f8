------------------------------ MODULE MCStatement ------------------------------
\* Instances of Statement for TLC: tables, texts and scripts.
EXTENDS Statement

MCIntBits      == [INT32 |-> 4, INT64 |-> 6]
MCMantissaBits == [FLOAT |-> 2, DOUBLE |-> 4]

(***************************************************************************)
(* Texts, written as sequences of words                                    *)
(***************************************************************************)
Number == "0" :> Digits(0) @@ "1" :> Digits(1) @@ "2" :> Digits(2) @@ "3" :> Digits(3) @@ "9" :> Digits(9)
          @@ "0.5" :> Decimal(1) @@ "1.5" :> Decimal(3) @@ "'x'" :> Quoted(1) @@ "'y'" :> Quoted(2)
Text(words) == [i \in DOMAIN words |->
    IF words[i] \in DOMAIN Number THEN Number[words[i]]
    ELSE IF words[i] \in Punctuation THEN Sign(words[i]) ELSE Word(words[i])]

Select(items, where, rest) ==
    Text(<<"SELECT">> \o items \o <<"FROM", "t">> \o (IF where = <<>> THEN <<>> ELSE <<"WHERE">> \o where) \o rest)

(***************************************************************************)
(* Tables                                                                  *)
(***************************************************************************)
Column(n, t) == [name |-> n, type |-> t]
Columns == <<Column("a", "INT32"), Column("b", "INT64"), Column("d", "DOUBLE"), Column("f", "FLOAT"), Column("s", "VARCHAR")>>
Key(id, type, name, columns) == [id |-> id, type |-> type, name |-> name, columns |-> columns]
Keys == <<Key(0, "SECONDARY", "two", <<2, 3>>), Key(1, "PRIMARY", "PRIMARY", <<1>>), Key(2, "SECONDARY", "str", <<5>>)>>

Row(a, b, d, f, s) ==
    <<Value("INT32", a), Value("INT64", b), Value("DOUBLE", d), Value("FLOAT", f), Value("VARCHAR", s)>>
Segment1 == <<Row(2, 2, 1, 1, 2), Row(4, 2, 3, 2, 0)>>
Segment2 == <<Row(-2, 4, 1, 2, 4), Row(6, 2, 1, 1, 2)>>
Table(keys, segments) == ("t" :> [schema |-> [columns |-> Columns, keys |-> keys], segments |-> segments, pending |-> <<>>])
Filled == Table(Keys, <<Segment1, Segment2>>)
Empty  == Table(<<>>, <<>>)

(***************************************************************************)
(* Queries                                                                 *)
(***************************************************************************)
Names    == {<<"a">>, <<"b">>, <<"d">>, <<"f">>, <<"s">>}
Literals == {<<"1">>, <<"0.5">>, <<"'x'">>}
Atoms == {x \o <<op>> \o y : x \in Names, op \in CmpOps, y \in Literals \cup {<<"b">>}}
         \cup {x \o <<op>> \o y : x \in Literals \cup {<<"a">>}, op \in CmpOps, y \in {<<"a">>, <<"d">>}}
Joined == {x \o <<o1>> \o y \o <<o2>> \o z :
              x \in {<<"a", "=", "1">>, <<"b", ">", "1">>, <<"s", "=", "'x'">>}, o1 \in {"AND", "OR"},
              y \in {<<"d", "=", "0.5">>, <<"a", "!=", "2">>, <<"s", "<", "1">>}, o2 \in {"AND", "OR"},
              z \in {<<"b", "=", "1">>, <<"(", "a", "<", "3", "OR", "f", ")">>, <<"1", "+", "a", "-", "d", ">", "b">>}}
Others == {<<"a">>, <<"s">>, <<"a", "-", "1">>, <<"COUNT", "(", "a", ")", ">", "1">>, <<"0.5", "<", "a", "+", "b">>,
           <<"b", "=", "1", "AND", "d", "=", "0.5", "AND", "a", "<", "3">>,
           <<"a", "=", "1", "AND", "a", "=", "2">>, <<"a", "=", "0.5">>, <<"(", "a", "=", "1", "OR", "b", ")", "AND", "s">>,
           <<"a", ">", "9">>, <<"a", "<">>, <<"x", "=", "1">>}

Items == {<<"*">>, <<"s", ",", "a", "+", "b", "x">>, <<"1", "-", "a", "AS", "m", ",", "d", "+", "1">>,
          <<"a", "-", "d", ",", "2", "-", "1", ",", "a", "=", "b">>, <<"f", "+", "f", ",", "f", "-", "0.5">>}
Sums  == {<<"COUNT", "(", "*", ")">>, <<"SUM", "(", "a", ")", ",", "AVG", "(", "b", ")", ",", "MIN", "(", "s", ")">>,
          <<"MAX", "(", "a", "-", "d", ")", ",", "COUNT", "(", "s", ")", ",", "MIN", "(", "f", ")">>}
Grouped == {<<"b", ",", "COUNT", "(", "*", ")", ",", "AVG", "(", "a", ")">>, <<"MAX", "(", "s", ")", ",", "b">>}
Refused == {<<"b", ",", "SUM", "(", "a", ")">>, <<"COUNT", "(", "*", ")", "+", "1">>, <<"SUM", "(", "s", ")">>,
            <<"MIN", "(", "MAX", "(", "a", ")", ")">>, <<"SUM", "(", "*", ")">>, <<"*", ",", "a">>, <<"a", "b", "s">>,
            <<"NAME", "(", "a", ")">>, <<"(", "a">>}
GroupBy(g) == <<"GROUP", "BY">> \o g

Wheres == {<<>>, <<"d", "=", "0.5">>, <<"a", ">", "1">>, <<"b", "=", "3">>, <<"s", "=", "'x'", "AND", "a", "<", "3">>,
           <<"a", "=", "1">>, <<"b", "=", "1", "AND", "d", "=", "0.5">>}

Queries == {Select(<<"a">>, w, <<>>) : w \in Atoms \cup Joined \cup Others}
           \cup {Select(i, w, <<";">>) : i \in Items, w \in Wheres}
           \cup {Select(i, w, <<>>) : i \in Sums, w \in Wheres}
           \cup {Select(i, w, GroupBy(<<"b">>)) : i \in Grouped, w \in Wheres}
           \cup {Select(<<"SUM", "(", "d", ")", ",", "a", "-", "d">>, w, GroupBy(<<"a", "-", "d", ",", "s">>)) : w \in Wheres}
           \cup {Select(i, <<>>, rest) : i \in Refused, rest \in {<<>>, GroupBy(<<"b">>)}}
           \cup {Select(<<"a">>, <<>>, rest) : rest \in {<<"t">>, <<";", "1">>, <<"GROUP", "a">>, GroupBy(<<"b">>)}}

(***************************************************************************)
(* Commands                                                                *)
(***************************************************************************)
Create(items) == Text(<<"CREATE", "TABLE", "u", "(">> \o items \o <<")">>)
Insert(what)  == Text(<<"INSERT", "INTO", "u">> \o what)
CreateU == Create(<<"k", "INT", "PRIMARY", "KEY", ",", "v", "DOUBLE", ",", "n", "VARCHAR", ",", "KEY", "(", "v", ")">>)
Creates == {Create(<<"k", "INT">> \o rest) : rest \in {
              <<",", "k", "BIGINT">>, <<",", "KEY", "(", "k", ",", "k", ")">>, <<",", "KEY", "(", "x", ")">>,
              <<",", "KEY", "i", "(", "k", ")", ",", "KEY", "i", "(", "k", ")">>,
              <<"PRIMARY", "KEY", ",", "PRIMARY", "KEY", "(", "k", ")">>, <<"PRIMARY">>,
              <<",", "v", "TEXT">>, <<",", "KEY", "key_1", "(", "k", ")", ",", "KEY", "(", "k", ")">>}}
Inserts == {Insert(<<"VALUES", "(", "1", ",", "0.5", ",", "'x'", ")">>),
            Insert(<<"VALUES", "(", "1", "+", "1", ",", "1", "-", "0.5", ",", "'y'", ")", ",", "(", "0", ",", "1.5", ",", "'x'", ")">>),
            Insert(<<"(", "v", ",", "k", ")", "VALUES", "(", "0.5", ",", "2", ")">>),
            Insert(<<"(", "k", ")", "VALUES", "(", "1", ")", ",", "(", "1", ")">>)}
BadInserts == {Insert(<<"(", "n", ",", "n", ")", "VALUES", "(", "'x'", ",", "'x'", ")">>),
               Insert(<<"(", "k", ")", "VALUES", "(", "0.5", ")">>), Insert(<<"(", "k", ")", "VALUES", "(", "k", ")">>),
               Insert(<<"(", "k", ")", "VALUES", "(", "1", "=", "1", ")">>),
               Insert(<<"(", "n", ")", "VALUES", "(", "'x'", "+", "'y'", ")">>),
               Insert(<<"(", "k", ")", "VALUES", "(", "1", "+", "k", ")">>)}
SelectU == Text(<<"SELECT", "*", "FROM", "u", "WHERE", "k", "=", "2", "AND", "v", "<", "1">>)

MCStarts == {[tables |-> Filled, script |-> <<q>>] : q \in Queries}
            \cup {[tables |-> Empty, script |-> <<Select(i, w, <<>>)>>] : i \in Items \cup Sums, w \in Wheres}
            \cup {[tables |-> Empty, script |-> <<CreateU, i, j, SelectU>>] : i, j \in Inserts}
            \cup {[tables |-> Empty, script |-> <<CreateU, i>>] : i \in BadInserts \cup Creates}
            \cup {[tables |-> Empty, script |-> <<c>>] : c \in Creates}
=============================================================================
