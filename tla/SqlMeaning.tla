----------------------------- MODULE SqlMeaning -----------------------------
(***************************************************************************)
(* What a SQL statement means, said directly on its parse tree and on the   *)
(* rows of the tables, without names being resolved twice, schemas being    *)
(* renamed or aggregations being pulled out: the reference for binder and   *)
(* planner.                                                                 *)
(*                                                                         *)
(* A relation has columns, each with a type and a path of lower-case names: *)
(* x in table t has the path <<"t", "x">>, and <<"s", "t", "x">> when it    *)
(* comes out of a subquery s.  The meaning of a query is the set {relation},*)
(* or {} when it has none.                                                  *)
(***************************************************************************)
EXTENDS Bound

LOCAL R == INSTANCE Relations
LOCAL SE == INSTANCE SequencesExt
LOCAL FE == INSTANCE FiniteSetsExt

Relation(cols, rows) == [cols |-> cols, rows |-> rows]
Unnamed == <<"">>

-----------------------------------------------------------------------------
(* Expressions, on a group of rows: a column is that of the first of them *)

RECURSIVE Embedded(_, _)
Embedded(ref, path) ==
  \/ ref = <<>>
  \/ /\ path # <<>>
     /\ \/ ref[Len(ref)] = path[Len(path)] /\ Embedded(SE!Front(ref), SE!Front(path))
        \/ Embedded(ref, SE!Front(path))

\* A reference names a column when it is its path with parts left out, the
\* last one not; it is good when there is one such column.
Named(cols, ref) ==
  {k \in DOMAIN cols : /\ ref[Len(ref)] = cols[k].path[Len(cols[k].path)]
                       /\ Embedded(ref, cols[k].path)}

Only(S) == IF FE!Cardinality(S) = 1 THEN S ELSE {}

ConstantOf(node) ==
  CASE node.tag = "Integer" -> Value("INTEGER", node.ival)
    [] node.tag = "String" -> VarcharValue(node.str)
    [] OTHER -> GetNullValueByType("INTEGER")

Operator(op, l, r) ==
  CASE op \in {"+", "-"} -> ArithmeticCompute(op, l, r)
    [] op \in {"and", "or"} -> LogicCompute(op, l, r)
    [] OTHER -> PerformComparison(IF op \in {"!=", "<>"} THEN "#" ELSE IF op = "==" THEN "=" ELSE op,
                                  l, r)

RECURSIVE ValueOf(_, _, _)
ValueOf(node, cols, group) ==
  CASE node.node = "ColumnRef" ->
         IF group = <<>> THEN {} ELSE {group[1][k] : k \in Only(Named(cols, node.fields))}
    [] node.node = "AConst" -> {ConstantOf(node)}
    [] node.node = "ResTarget" -> ValueOf(node.val, cols, group)
    [] node.node = "AExpr" ->
         UNION {UNION {Operator(node.name, l, r) : r \in ValueOf(node.rexpr, cols, group)} :
                  l \in ValueOf(node.lexpr, cols, group)}
    [] node.node = "BoolExpr" ->
         {SE!FoldLeft(LAMBDA a, b : CHOOSE v \in LogicCompute(node.boolop, a, b) : TRUE,
                      args[1], Tail(args)) :
            args \in Every([k \in DOMAIN node.args |-> ValueOf(node.args[k], cols, group)])}
    [] node.node = "FuncCall" ->
         {R!Aggregated(IF node.args = <<>> THEN "count_star" ELSE node.funcname, values) :
            values \in IF node.args = <<>> THEN {group}
                       ELSE Every([k \in DOMAIN group |-> ValueOf(node.args[1], cols, <<group[k]>>)])}

RECURSIVE HasAggregate(_)
HasAggregate(node) ==
  CASE node.node = "FuncCall" -> TRUE
    [] node.node = "ResTarget" -> HasAggregate(node.val)
    [] node.node = "AExpr" -> HasAggregate(node.lexpr) \/ HasAggregate(node.rexpr)
    [] node.node = "BoolExpr" -> \E k \in DOMAIN node.args : HasAggregate(node.args[k])
    [] OTHER -> FALSE

\* The type and the path of an item of the select list
RECURSIVE TypeOf(_, _)
TypeOf(node, cols) ==
  CASE node.node = "ColumnRef" -> cols[CHOOSE k \in Named(cols, node.fields) : TRUE].type
    [] node.node = "AConst" -> ConstantOf(node).type
    [] node.node = "ResTarget" -> TypeOf(node.val, cols)
    [] node.node = "AExpr" -> IF node.name \in {"+", "-"} THEN "INTEGER" ELSE "BOOLEAN"
    [] node.node = "BoolExpr" -> "BOOLEAN"
    [] OTHER -> "INTEGER"

PathOf(target, cols) ==
  CASE target.name # "" -> <<Lower(target.name)>>
    [] target.val.node = "ColumnRef" -> cols[CHOOSE k \in Named(cols, target.val.fields) : TRUE].path
    [] OTHER -> Unnamed

IsStar(targets) == targets[1].val = PGColumnRef(<<"*">>)

-----------------------------------------------------------------------------
(* Queries *)

Under(alias, relation) ==
  Relation([k \in DOMAIN relation.cols |->
              [relation.cols[k] EXCEPT !.path = <<alias>> \o @]], relation.rows)

BaseTable(cat, name, alias) ==
  IF name \notin GetTableNames(cat) THEN {}
  ELSE LET schema == GetTable(cat, name).schema
       IN  {Relation([k \in DOMAIN schema |-> [path |-> <<alias>> \o LowerAll(schema[k].name),
                                               type |-> schema[k].type]],
                     RowsOf(cat, name))}

OrName(alias, name) == IF alias = "" THEN name ELSE alias

\* The join of two relations, on a condition over the columns of both
JoinOf(join_type, left, right, condition) ==
  LET cols == left.cols \o right.cols
  IN  {Relation(cols, R!Joined(join_type, left.rows, right.rows, flags, Types(left.cols),
                               Types(right.cols))) :
         flags \in Every([i \in DOMAIN left.rows |->
                      Every([j \in DOMAIN right.rows |->
                        IF condition = Null THEN {GetBooleanValue("CmpTrue")}
                        ELSE ValueOf(condition, cols, <<left.rows[i] \o right.rows[j]>>)])])}

JoinNamed(jointype) ==
  CASE jointype = "JOIN_LEFT" -> "LEFT" [] jointype = "JOIN_RIGHT" -> "RIGHT"
    [] jointype = "JOIN_FULL" -> "OUTER" [] OTHER -> "INNER"

\* The values of nodes on a group; of one node on every group
ValuesOf(nodes, cols, group) == Every([k \in DOMAIN nodes |-> ValueOf(nodes[k], cols, group)])
OnEach(nodes, cols, groups) == Every([g \in DOMAIN groups |-> ValuesOf(nodes, cols, groups[g])])

KeptWhere(node, cols, groups) ==
  IF node = Null THEN {groups}
  ELSE {R!Kept(groups, [g \in DOMAIN groups |-> values[g][1]]) :
          values \in OnEach(<<node>>, cols, groups)}

\* The groups of rows that each give one row of the result
Grouped(node, cols, rows) ==
  LET single == [k \in DOMAIN rows |-> <<rows[k]>>]
      pick(groups) == [g \in DOMAIN groups |-> R!Picked(rows, groups[g])]
  IN  IF node.groupClause # <<>>
      THEN {pick(R!Groups(keys)) : keys \in OnEach(node.groupClause, cols, single)}
      ELSE IF node.havingClause # Null \/ \E k \in DOMAIN node.targetList : HasAggregate(node.targetList[k])
      THEN {<<rows>>}
      ELSE {single}

\* DISTINCT, ORDER BY and LIMIT on pairs of a group and its row of the result
Distinct(node, pairs) ==
  IF ~node.distinct THEN pairs
  ELSE R!Picked(pairs, R!Firsts([k \in DOMAIN pairs |-> pairs[k].row]))

Ordered(node, cols, pairs) ==
  LET targets == [k \in DOMAIN node.sortClause |-> node.sortClause[k].target]
      dirs == [k \in DOMAIN node.sortClause |-> node.sortClause[k].sortby_dir]
  IN  {R!Picked(pairs, R!SortedPositions(keys, dirs)) :
         keys \in OnEach(targets, cols, [k \in DOMAIN pairs |-> pairs[k].group])}

LimitOf(node) ==
  IF node.limitCount = Null \/ node.limitCount.tag # "Integer" THEN -1 ELSE node.limitCount.ival

ResultCols(node, cols) ==
  IF IsStar(node.targetList) THEN cols
  ELSE [k \in DOMAIN node.targetList |-> [path |-> PathOf(node.targetList[k], cols),
                                          type |-> TypeOf(node.targetList[k], cols)]]

ResultRow(node, cols, group) ==
  IF IsStar(node.targetList) THEN {group[1]} ELSE ValuesOf(node.targetList, cols, group)

\* The rows that satisfy WHERE, their groups that satisfy HAVING, each with its
\* row of the result
WhereRows(node, source) ==
  {[k \in DOMAIN groups |-> groups[k][1]] :
     groups \in KeptWhere(node.whereClause, source.cols,
                          [k \in DOMAIN source.rows |-> <<source.rows[k]>>])}

HavingGroups(node, cols, rows) ==
  UNION {KeptWhere(node.havingClause, cols, groups) : groups \in Grouped(node, cols, rows)}

Pairs(node, cols, groups) ==
  {[k \in DOMAIN groups |-> [group |-> groups[k], row |-> rows[k]]] :
     rows \in Every([k \in DOMAIN groups |-> ResultRow(node, cols, groups[k])])}

Selected(node, source) ==
  {Relation(ResultCols(node, source.cols),
            R!Limited([k \in DOMAIN o |-> o[k].row], LimitOf(node))) :
     o \in UNION {Ordered(node, source.cols, Distinct(node, pairs)) :
       pairs \in UNION {Pairs(node, source.cols, groups) :
         groups \in UNION {HavingGroups(node, source.cols, rows) :
           rows \in WhereRows(node, source)}}}}

RECURSIVE QueryMeaning(_, _, _)
RECURSIVE TableMeaning(_, _, _)

TableMeaning(cat, node, ctes) ==
  CASE node.node = "RangeVar" ->
         LET named == {k \in DOMAIN ctes : ctes[k].name = node.relname}
             alias == OrName(node.alias, node.relname)
         IN  IF named # {} THEN {Under(alias, ctes[FE!Min(named)].relation)}
             ELSE BaseTable(cat, node.relname, alias)
    [] node.node = "RangeSubselect" ->
         {Under(OrName(node.alias, node.at), r) : r \in QueryMeaning(cat, node.subquery, ctes)}
    [] node.node = "JoinExpr" ->
         UNION {JoinOf(JoinNamed(node.jointype), l, r, node.quals) :
                  l \in TableMeaning(cat, node.larg, ctes), r \in TableMeaning(cat, node.rarg, ctes)}

\* FROM t1, t2, ... is the product of its tables; no FROM is one empty row.
FromMeaning(cat, list, ctes) ==
  SE!FoldLeft(LAMBDA done, node :
                UNION {JoinOf("INNER", l, r, Null) : l \in done, r \in TableMeaning(cat, node, ctes)},
              {Relation(<<>>, <<<<>>>>)}, list)

ValuesMeaning(lists) ==
  {Relation([k \in DOMAIN lists[1] |-> [path |-> Unnamed, type |-> TypeOf(lists[1][k], <<>>)]], rows) :
     rows \in Every([k \in DOMAIN lists |-> ValuesOf(lists[k], <<>>, <<<<>>>>)])}

QueryMeaning(cat, node, outer) ==
  IF node.valuesLists # <<>> THEN ValuesMeaning(node.valuesLists)
  ELSE LET with == Every([k \in DOMAIN node.withClause |->
                            {[name |-> node.withClause[k].ctename, relation |-> r] :
                               r \in QueryMeaning(cat, node.withClause[k].ctequery, outer)}])
           from(own) == FromMeaning(cat, node.fromClause, IF own = <<>> THEN outer ELSE own)
       IN  UNION {Selected(node, source) : source \in UNION {from(own) : own \in with}}

-----------------------------------------------------------------------------
(* Statements: the rows a query returns, or those a change inserts, removes or
   writes *)

Updated(node, cols, row) ==
  LET sets(c) == {k \in DOMAIN node.targetList :
                    Named(cols, <<node.targetList[k].name>>) = {c}}
  IN  Every([c \in DOMAIN cols |->
               IF sets(c) = {} THEN {row[c]}
               ELSE ValueOf(node.targetList[FE!Max(sets(c))].val, cols, <<row>>)])

StatementMeaning(cat, node) ==
  IF node.node \in {"SelectStmt", "InsertStmt"}
  THEN {r.rows : r \in QueryMeaning(cat, IF node.node = "SelectStmt" THEN node
                                         ELSE node.selectStmt, <<>>)}
  ELSE UNION {UNION {IF node.node = "DeleteStmt" THEN {rows}
                     ELSE Every([k \in DOMAIN rows |-> Updated(node, t.cols, rows[k])]) :
                       rows \in WhereRows(node, t)} :
                t \in BaseTable(cat, node.relation, node.relation)}
=============================================================================
