-------------------------- MODULE MCBustubInstance --------------------------
(***************************************************************************)
(* Two sessions: the first sends one request of a list that has every kind  *)
(* of clause, statement and error, the second up to two that change the     *)
(* catalog.                                                                 *)
(***************************************************************************)
EXTENDS BustubInstance

CONSTANTS s1, s2

MCBits == [TINYINT |-> 4, SMALLINT |-> 8, INTEGER |-> 16, BIGINT |-> 20]
MCDraws == <<1, 1, 0>>
MCLowerCase == [colA |-> "cola", colB |-> "colb", colC |-> "colc", colD |-> "cold",
                colE |-> "cole", colF |-> "colf", COUNT |-> "count"]
MCInternalNames == {"__hidden"}
MCMaxRequests == [s \in {s1, s2} |-> IF s = s1 THEN 1 ELSE 2]

-----------------------------------------------------------------------------
(* Shorthands for parse trees *)

C(name) == PGColumnRef(<<name>>)
Q(table, name) == PGColumnRef(<<table, name>>)
N(number) == PGAConst("Integer", number, <<>>)
NULL == PGAConst("Null", 0, <<>>)
Str(chars) == PGAConst("String", 0, chars)
Op(op, l, r) == PGAExpr("AEXPR_OP", op, l, r)
Fn(name, args) == PGFuncCall(name, args, FALSE)
As(val, name) == PGResTarget(name, val)
Item(val) == PGResTarget("", val)
Items(vals) == [k \in DOMAIN vals |-> Item(vals[k])]
Star == Items(<<PGColumnRef(<<"*">>)>>)
T(name) == PGRangeVar(name, "")
TA(name, alias) == PGRangeVar(name, alias)
Sub(query, alias) == PGRangeSubselect(query, alias, FALSE, "__subquery#1")
Join(type, l, r, on) == PGJoinExpr(type, l, r, on)
With(name, query) == PGCommonTableExpr(name, query, FALSE)
Asc(val) == PGSortBy("DEFAULT", val)
Desc(val) == PGSortBy("DESC", val)

Empty == [node |-> "SelectStmt", valuesLists |-> <<>>, withClause |-> <<>>, fromClause |-> <<>>,
          distinct |-> FALSE, distinct_on |-> FALSE, targetList |-> <<>>, whereClause |-> Null,
          groupClause |-> <<>>, havingClause |-> Null, limitCount |-> Null,
          limitOffset |-> Null, sortClause |-> <<>>]
Select(targets, from) == [Empty EXCEPT !.targetList = targets, !.fromClause = from]
Where(query, cond) == [query EXCEPT !.whereClause = cond]
GroupBy(query, keys) == [query EXCEPT !.groupClause = keys]
Having(query, cond) == [query EXCEPT !.havingClause = cond]
OrderBy(query, keys) == [query EXCEPT !.sortClause = keys]
Limit(query, count) == [query EXCEPT !.limitCount = count]
WithIn(ctes, query) == [query EXCEPT !.withClause = ctes]
Values(lists) == [Empty EXCEPT !.valuesLists = lists]

Insert(table, query) ==
  [node |-> "InsertStmt", relation |-> table, cols |-> <<>>, selectStmt |-> query]
Delete(table, cond) == [node |-> "DeleteStmt", relation |-> table, whereClause |-> cond]
Update(table, sets, cond) ==
  [node |-> "UpdateStmt", relation |-> table, targetList |-> sets, whereClause |-> cond]
Column(name, type) ==
  [colname |-> name, typeName |-> type, typmods |-> IF type = "varchar" THEN 1 ELSE 0,
   constraints |-> FALSE]
Create(table, columns) == [node |-> "CreateStmt", relation |-> table, tableElts |-> columns]
Index(name, table, columns) ==
  [node |-> "IndexStmt", idxname |-> name, relation |-> table, indexParams |-> columns]
Explain(query, options) == [node |-> "ExplainStmt", query |-> query, options |-> options]
Set(name, args) == [node |-> "VariableSetStmt", name |-> name, args |-> args]
Show(name) == [node |-> "VariableShowStmt", name |-> name]

-----------------------------------------------------------------------------
(* Queries *)

t1 == T("test_1")
t2 == T("test_2")
m1 == T("__mock_table_1")

Plain ==
  {Select(Items(<<Op("+", N(1), N(2)), NULL>>), <<>>),
   Values(<<<<N(1), N(2)>>, <<N(3), N(4)>>>>),
   Values(<<<<N(1), N(2)>>, <<N(3)>>>>),
   Select(Star, <<Sub(Values(<<<<N(1), Str(<<9>>)>>>>), "v")>>),
   Select(Star, <<T("__mock_t1_50k")>>),
   Where(Select(Items(<<C("x")>>), <<T("__mock_t1_50k")>>), Op(">", C("y"), N(0))),
   Select(<<As(C("colb"), "x"), Item(Op("-", C("cola"), N(1)))>>, <<m1>>),
   Where(Select(Star, <<T("__mock_table_3")>>), Op("<=", C("cole"), N(1))),
   Where(Select(Items(<<C("colf")>>), <<T("__mock_table_3")>>), Op("!=", C("cole"), NULL)),
   Where(Select(Star, <<m1>>),
         PGBoolExpr("or", <<PGBoolExpr("and", <<Op(">", C("cola"), N(0)), Op("<", C("colb"), N(200))>>),
                            Op("=", C("cola"), N(0))>>)),
   Select(Items(<<C("x"), Q("t", "y")>>),
          <<Sub(Where(Select(<<As(C("cola"), "x"), As(Op("+", C("cola"), C("colb")), "y")>>, <<m1>>),
                      Op(">=", C("cola"), N(1))), "t")>>),
   Select(Items(<<Q("s", "cola"), PGColumnRef(<<"test_1", "colb">>)>>), <<Sub(Select(Star, <<t1>>), "s")>>),
   Select(Star, <<Sub(Select(Star, <<t1>>), "")>>)}

Joins ==
  LET on(l, r) == Op("=", l, r)
      both == Items(<<Q("a", "cola"), Q("b", "colc")>>)
      a == TA("test_1", "a")
      b == TA("test_2", "b")
  IN
  {Select(Star, <<t1, t2>>),
   Where(Select(both, <<a, b>>), on(Q("a", "cola"), Q("b", "colb"))),
   Where(Select(both, <<a, b>>), Op("<", Q("b", "colb"), Q("b", "colc"))),
   Where(Select(Items(<<Q("a", "colb"), Q("b", "colb")>>), <<a, TA("test_1", "b"), T("empty_table")>>),
         on(Q("a", "cola"), Q("b", "colb"))),
   Select(both, <<Join("JOIN_INNER", a, b, on(Q("b", "cola"), Q("a", "colb")))>>),
   Select(Star, <<Join("JOIN_LEFT", a, b, on(Q("a", "colb"), Q("b", "colc")))>>),
   Where(Select(both, <<Join("JOIN_LEFT", a, T("empty_table"), on(Q("a", "cola"), Q("empty_table", "cola"))), b>>),
         on(Q("b", "colb"), Q("a", "colb"))),
   Select(Star, <<Join("JOIN_RIGHT", a, b, on(Q("a", "colb"), Q("b", "cola")))>>),
   Select(both, <<Join("JOIN_FULL", a, b, Op(">", Q("a", "cola"), Q("b", "colc")))>>),
   Select(Star, <<Join("JOIN_INNER", a, Sub(Select(Items(<<C("cola")>>), <<t2>>), "s"),
                       on(Q("s", "cola"), Q("a", "colb")))>>),
   Where(Select(Items(<<Q("p", "cola"), Q("q", "colb")>>),
                <<Sub(Select(Items(<<C("cola")>>), <<t1>>), "p"), Sub(Select(Items(<<C("colb")>>), <<t2>>), "q")>>),
         on(Q("p", "cola"), Q("q", "colb"))),
   Select(Star, <<Join("JOIN_SEMI", a, b, on(Q("a", "cola"), Q("b", "cola")))>>)}

Aggregates ==
  {Select(Items(<<Fn("count", <<>>)>>), <<T("empty_table")>>),
   GroupBy(Select(Items(<<C("colb"), Fn("COUNT", <<>>), Fn("sum", <<C("cola")>>)>>), <<t1>>), <<C("colb")>>),
   Having(GroupBy(Select(Items(<<C("colb"), Op("+", Fn("max", <<C("cola")>>), Fn("min", <<C("colc")>>))>>), <<t1>>),
                  <<C("colb")>>), Op(">", Fn("sum", <<C("cola")>>), Fn("min", <<C("colb")>>))),
   Having(Select(Items(<<Fn("max", <<C("cola")>>)>>), <<t1>>), Op(">", Fn("count", <<>>), N(3))),
   Having(Select(Items(<<Fn("min", <<C("cole")>>), Fn("count", <<C("cole")>>)>>), <<T("__mock_table_3")>>),
          Op(">", Fn("count", <<>>), N(2))),
   OrderBy([Select(Items(<<C("colb")>>), <<t1>>) EXCEPT !.distinct = TRUE], <<Desc(C("colb"))>>),
   GroupBy(Select(Items(<<C("cola"), Fn("count", <<>>)>>), <<t1>>), <<C("colb")>>),
   Select(Items(<<PGFuncCall("sum", <<C("cola")>>, TRUE)>>), <<t1>>),
   Select(Items(<<Fn("sum", <<Fn("min", <<C("cola")>>)>>)>>), <<t1>>),
   Select(Items(<<Fn("first", <<C("cola")>>)>>), <<t1>>),
   Where(Select(Star, <<t1>>), Op(">", Fn("count", <<>>), N(0)))}

Orders ==
  LET all == Select(Items(<<C("cola"), C("colb")>>), <<t1>>)
  IN
  {OrderBy(Select(Star, <<t1>>), <<Asc(C("cola"))>>),
   OrderBy(Select(Star, <<t1>>), <<Desc(C("cola"))>>),
   OrderBy(Select(Star, <<t1>>), <<Asc(C("colb"))>>),
   OrderBy(all, <<Asc(C("colb")), Desc(C("cola"))>>),
   OrderBy(all, <<Asc(C("colc"))>>),
   Limit(OrderBy(all, <<PGSortBy("ASC", Op("+", C("cola"), C("colb")))>>), N(2)),
   Limit(all, N(0)), Limit(all, N(-1)), Limit(all, Str(<<Digit(1)>>)),
   [all EXCEPT !.limitOffset = N(1)],
   OrderBy(all, <<PGSortBy("USING", C("cola"))>>)}

Withs ==
  LET x == With("c", Select(<<As(C("cola"), "x"), Item(C("colb"))>>, <<t1>>))
      n == With("c", Select(<<As(Fn("count", <<>>), "n")>>, <<t1>>))
  IN
  {WithIn(<<x>>, Select(Star, <<T("c")>>)),
   WithIn(<<x>>, Where(Select(Items(<<Q("c", "x")>>), <<T("c"), T("test_2")>>), Op("=", C("x"), C("colc")))),
   WithIn(<<x>>, Select(Star, <<TA("c", "d"), TA("c", "e")>>)),
   WithIn(<<x>>, Select(Items(<<C("x")>>), <<TA("c", "d")>>)),
   WithIn(<<n>>, Select(Items(<<C("n"), Op("+", C("n"), N(1))>>), <<T("c")>>)),
   WithIn(<<n>>, Select(Star, <<TA("c", "d"), TA("c", "e")>>)),
   WithIn(<<x, With("e", Select(Star, <<T("empty_table")>>))>>,
          Select(Items(<<C("x")>>), <<Sub(Select(Items(<<C("x")>>), <<T("c")>>), "s")>>)),
   WithIn(<<PGCommonTableExpr("c", Select(Star, <<t1>>), TRUE)>>, Select(Star, <<T("c")>>))}

\* What the binder or the planner refuses
Refused ==
  {Select(Items(<<C("cola")>>), <<t1, t2>>),
   Select(Items(<<C("nowhere")>>), <<t1>>),
   Select(Items(<<C("cola")>>), <<>>),
   Select(Star, <<T("nothing")>>),
   Select(<<Star[1], Item(C("cola"))>>, <<t1>>),
   Select(Star, <<>>),
   Select(<<>>, <<t1>>),
   Select(Star, <<TA("test_1", "a"), TA("test_1", "a")>>),
   Select(Items(<<Q("t", "x")>>), <<Sub(Select(Items(<<Q("t", "x")>>), <<TA("__mock_t4_1m", "t")>>), "t")>>),
   Where(Select(Star, <<t1>>), PGBoolExpr("not", <<Op("=", C("cola"), N(1))>>)),
   Where(Select(Star, <<t1>>), PGBoolExpr("and", <<C("cola"), Op("=", C("cola"), N(1))>>)),
   Select(Items(<<Op("+", C("colc"), N(1))>>), <<T("__mock_table_2")>>),
   Select(Items(<<Op("*", C("cola"), N(2))>>), <<t1>>),
   Select(Items(<<PGAExpr("AEXPR_IN", "=", C("cola"), N(1))>>), <<t1>>),
   Select(Items(<<PGAConst("Float", 1, <<>>)>>), <<>>),
   Select(Star, <<PGRangeSubselect(Select(Star, <<t1>>), "s", TRUE, "")>>),
   [Select(Star, <<t1>>) EXCEPT !.distinct_on = TRUE]}

Changes ==
  {Insert("test_2", Select(Items(<<C("cola"), C("colb"), C("colc")>>), <<t1>>)),
   Insert("test_simple_seq_1", Values(<<<<N(1)>>, <<N(2)>>>>)),
   Insert("test_simple_seq_1", Select(Star, <<t1>>)),
   Insert("__mock_table_1", Select(Star, <<T("test_simple_seq_2")>>)),
   [Insert("test_1", Select(Star, <<t1>>)) EXCEPT !.cols = <<"cola">>],
   Delete("test_1", Op("=", C("colb"), N(1))), Delete("test_2", Null),
   Update("test_1", <<As(Op("+", C("cola"), N(1)), "colb"), As(C("cold"), "colc"), As(N(5), "colb")>>,
          Op(">", Q("test_1", "cola"), N(0))),
   Update("test_1", <<As(N(1), "nowhere")>>, Null)}

Queries == Plain \union Joins \union Aggregates \union Orders \union Withs \union Refused
             \union Changes

-----------------------------------------------------------------------------
(* Requests *)

Sql(statements) == Request("", TRUE, statements)
Meta(command) == Request(command, TRUE, <<>>)

new_table == Create("fresh", <<Column("a", "int4"), Column("b", "varchar")>>)

Commands ==
  {Meta("dt"), Meta("di"), Meta("help"), Meta("dx"), Request("", FALSE, <<>>),
   Sql(<<Set("force_optimizer_starter_rule", <<Str(WordYes)>>), Show("force_optimizer_starter_rule"),
         OrderBy(Select(Star, <<t1>>), <<Asc(C("cola"))>>)>>),
   Sql(<<Show("nothing"), Set("v", <<N(1), N(2)>>)>>),
   Sql(<<Explain(Select(Star, <<t1>>), {}), Explain(new_table, {"b", "verbose"})>>),
   Sql(<<new_table, Insert("fresh", Values(<<<<N(1), Str(<<9>>)>>>>))>>),
   Sql(<<Create("__hidden", <<Column("a", "int4")>>), Select(Star, <<T("__hidden")>>)>>),
   Sql(<<Select(Star, <<T("fresh")>>)>>)}

Definitions ==
  {Sql(<<new_table, Index("i", "fresh", <<"a">>), Index("j", "fresh", <<"b">>)>>),
   Sql(<<Index("i", "test_1", <<"cola">>), Index("i", "test_1", <<"colb">>)>>),
   Sql(<<Index("k", "test_1", <<"colb">>)>>),
   Sql(<<Index("i", "test_2", <<"cola">>), Index("k", "test_2", <<"colc">>)>>),
   Sql(<<Create("test_1", <<Column("a", "int4")>>)>>),
   Sql(<<Create("odd", <<Column("a", "float8")>>)>>),
   Sql(<<Create("odd", <<[Column("a", "int4") EXCEPT !.constraints = TRUE]>>)>>),
   Sql(<<Index("i", "test_2", <<"cola", "colb">>)>>),
   Sql(<<Index("m", "__mock_table_1", <<"cola">>)>>)}

MCRequests ==
  [s \in {s1, s2} |-> IF s = s1 THEN {Sql(<<q>>) : q \in Queries} \union Commands ELSE Definitions]
=============================================================================
