------------------------------- MODULE Binder -------------------------------
(***************************************************************************)
(* The binder (binder/): from the parse tree to the bound tree, resolving   *)
(* the names of tables and columns.  scope is the table reference in whose  *)
(* columns names are looked up, ctes the WITH list in scope; NewContext     *)
(* forgets the first and keeps the second.                                  *)
(***************************************************************************)
EXTENDS Bound

LOCAL SE == INSTANCE SequencesExt

-----------------------------------------------------------------------------
(* Column names.  {name} where name is <<>> when there is none; {} when it is
   ambiguous. *)

\* At most one match, of the matches in order
Unique(matches) == IF Len(matches) > 1 THEN {} ELSE {IF matches = <<>> THEN <<>> ELSE matches[1]}

ResolveColumnRefFromSchema(schema, col_name) ==
  IF Len(col_name) # 1 THEN {<<>>}
  ELSE Unique(SelectSeq(Names(schema), LAMBDA n : LowerAll(n) = col_name))

\* Direct and stripped resolution: both throws, otherwise the stripped one wins.
Either(direct, stripped) ==
  UNION {UNION {IF d # <<>> /\ s # <<>> THEN {} ELSE {IF s # <<>> THEN s ELSE d} :
                  s \in stripped} : d \in direct}

ResolveColumnRefFromBaseTableRef(ref, col_name) ==
  LET name == GetBoundTableName(ref)
      found(path) == {Prepend(n, name) : n \in ResolveColumnRefFromSchema(ref.schema, path)}
  IN  Either(found(col_name),
             IF Len(col_name) > 1 /\ col_name[1] = name THEN found(Tail(col_name)) ELSE {<<>>})

MatchSuffix(suffix, full_name) ==
  /\ Len(suffix) <= Len(full_name)
  /\ suffix = LowerAll(SubSeq(full_name, Len(full_name) - Len(suffix) + 1, Len(full_name)))

ResolveColumnRefFromSelectList(select_list_name, col_name) ==
  Unique(SelectSeq(select_list_name, LAMBDA full : MatchSuffix(col_name, full)))

\* The result carries the subquery's own alias, also for a CTE that is used
\* under another one.
ResolveColumnRefFromSubqueryRef(ref, alias, col_name) ==
  LET found(path) == {Prepend(n, ref.alias) :
                        n \in ResolveColumnRefFromSelectList(ref.select_list_name, path)}
  IN  Either(found(col_name),
             IF Len(col_name) > 1 /\ col_name[1] = alias THEN found(Tail(col_name)) ELSE {<<>>})

\* The first CTE of that name; the binder only looks for names it has bound.
CTENamed(ctes, name) == ctes[CHOOSE k \in DOMAIN ctes :
                               /\ ctes[k].alias = name
                               /\ \A j \in 1..(k - 1) : ctes[j].alias # name]

RECURSIVE ResolveColumnInternal(_, _, _)
ResolveColumnInternal(ref, col_name, ctes) ==
  CASE ref.type = "BASE_TABLE" -> ResolveColumnRefFromBaseTableRef(ref, col_name)
    [] ref.type \in {"CROSS_PRODUCT", "JOIN"} ->
         Either(ResolveColumnInternal(ref.right, col_name, ctes),
                ResolveColumnInternal(ref.left, col_name, ctes))
    [] ref.type = "SUBQUERY" -> ResolveColumnRefFromSubqueryRef(ref, ref.alias, col_name)
    [] ref.type = "CTE" ->
         ResolveColumnRefFromSubqueryRef(CTENamed(ctes, ref.cte_name), ref.alias, col_name)
    [] OTHER -> {}

ResolveColumn(scope, col_name, ctes) ==
  {BoundColumnRef(n) : n \in ResolveColumnInternal(scope, col_name, ctes) \ {<<>>}}

\* GetAllColumns: what * stands for
RECURSIVE GetAllColumns(_, _)
GetAllColumns(scope, ctes) ==
  CASE scope.type = "BASE_TABLE" ->
         {[k \in DOMAIN scope.schema |->
             BoundColumnRef(<<GetBoundTableName(scope)>> \o scope.schema[k].name)]}
    [] scope.type \in {"CROSS_PRODUCT", "JOIN"} ->
         {l \o r : l \in GetAllColumns(scope.left, ctes), r \in GetAllColumns(scope.right, ctes)}
    [] scope.type = "SUBQUERY" ->
         {[k \in DOMAIN scope.select_list_name |->
             BoundColumnRef(Prepend(scope.select_list_name[k], scope.alias))]}
    [] scope.type = "CTE" ->
         {[k \in DOMAIN columns |->
             BoundColumnRef([columns[k].col_name EXCEPT ![1] = scope.alias])] :
            columns \in GetAllColumns(CTENamed(ctes, scope.cte_name), ctes)}
    [] OTHER -> {}

-----------------------------------------------------------------------------
(* Expressions *)

BindConstant(node) ==
  CASE node.tag = "Integer" -> {BoundConstant(Value("INTEGER", node.ival))}
    [] node.tag = "String" -> {BoundConstant(VarcharValue(node.str))}
    [] node.tag = "Null" -> {BoundConstant(GetNullValueByType("INTEGER"))}
    [] OTHER -> {}

\* The first field decides: t.* has a string first, and is looked up like a
\* column; a column of no scope dereferences a null pointer.
BindColumnRef(node, scope, ctes) ==
  IF node.fields[1] = "*" THEN {BoundStar}
  ELSE ResolveColumn(scope, node.fields, ctes)

AggregateNames == {"min", "max", "first", "last", "sum", "count"}

BindFuncCall(node, args) ==
  LET name == Lower(node.funcname)
  IN  IF name \notin AggregateNames THEN {}
      ELSE {BoundAggCall(IF name = "count" /\ args = <<>> THEN "count_star" ELSE name,
                         node.agg_distinct, args)}

BindAExpr(node, left, right) ==
  IF node.kind # "AEXPR_OP" \/ right = NoExpr THEN {}
  ELSE IF left = NoExpr THEN {BoundUnaryOp(node.name, right)}
  ELSE {BoundBinaryOp(node.name, left, right)}

BindBoolExpr(node, exprs) ==
  IF node.boolop = "not" THEN IF Len(exprs) # 1 THEN {} ELSE {BoundUnaryOp("not", exprs[1])}
  ELSE IF Len(exprs) <= 1 THEN {}
  ELSE {SE!FoldLeft(LAMBDA acc, e : BoundBinaryOp(node.boolop, acc, e), exprs[1], Tail(exprs))}

RECURSIVE BindExpression(_, _, _)
BindExpression(node, scope, ctes) ==
  LET bound(child) == IF child = Null THEN {NoExpr} ELSE BindExpression(child, scope, ctes)
      all(list) == Every([k \in DOMAIN list |-> BindExpression(list[k], scope, ctes)])
      \* BindExpressionList refuses a star
      list(nodes) == {exprs \in all(nodes) : \A k \in DOMAIN exprs : exprs[k].type # "STAR"}
  IN
  CASE node.node = "ColumnRef" -> BindColumnRef(node, scope, ctes)
    [] node.node = "AConst" -> BindConstant(node)
    [] node.node = "ResTarget" ->
         {IF node.name # "" THEN BoundAlias(node.name, e) ELSE e : e \in bound(node.val)}
    [] node.node = "AStar" -> {BoundStar}
    [] node.node = "FuncCall" -> UNION {BindFuncCall(node, args) : args \in all(node.args)}
    [] node.node = "AExpr" ->
         UNION {UNION {BindAExpr(node, l, r) : r \in bound(node.rexpr)} : l \in bound(node.lexpr)}
    [] node.node = "BoolExpr" -> UNION {BindBoolExpr(node, exprs) : exprs \in list(node.args)}
    [] OTHER -> {}

\* A clause that may be absent
BindOptional(node, scope, ctes) ==
  IF node = Null THEN {NoExpr} ELSE BindExpression(node, scope, ctes)

BindExpressionList(list, scope, ctes) ==
  {exprs \in Every([k \in DOMAIN list |-> BindExpression(list[k], scope, ctes)]) :
     \A k \in DOMAIN exprs : exprs[k].type # "STAR"}

\* A star must be alone.
BindSelectList(list, scope, ctes) ==
  UNION {IF \A k \in DOMAIN exprs : exprs[k].type # "STAR" THEN {exprs}
         ELSE IF Len(exprs) = 1 THEN GetAllColumns(scope, ctes)
         ELSE {} : exprs \in Every([k \in DOMAIN list |-> BindExpression(list[k], scope, ctes)])}

BindSort(list, scope, ctes) ==
  Every([k \in DOMAIN list |->
           IF list[k].node # "SortBy" \/ list[k].sortby_dir \notin {"DEFAULT", "ASC", "DESC"} THEN {}
           ELSE {BoundOrderBy(list[k].sortby_dir, e) :
                   e \in BindExpression(list[k].target, scope, ctes)}])

BindValuesList(lists, identifier, ctes) ==
  {BoundExpressionListRef(values, identifier) :
     values \in {v \in Every([k \in DOMAIN lists |-> BindExpressionList(lists[k], NoScope, ctes)]) :
                   v # <<>> /\ \A k \in DOMAIN v : Len(v[k]) = Len(v[1])}}

-----------------------------------------------------------------------------
(* Table references and SELECT *)

BindBaseTableRef(cat, table_name, alias) ==
  LET info == GetTable(cat, table_name)
  IN  IF IsNull(info) THEN {} ELSE {BoundBaseTableRef(table_name, info.oid, alias, info.schema)}

BindRangeVar(cat, node, ctes) ==
  IF \E k \in DOMAIN ctes : ctes[k].alias = node.relname
  THEN {BoundCTERef(node.relname, IF node.alias # "" THEN node.alias ELSE node.relname)}
  ELSE BindBaseTableRef(cat, node.relname, node.alias)

\* The names of the columns of a subquery
SelectListName(select_list) ==
  [k \in DOMAIN select_list |->
     CASE select_list[k].type = "COLUMN_REF" -> select_list[k].col_name
       [] select_list[k].type = "ALIAS" -> <<select_list[k].alias>>
       [] OTHER -> <<"__item#", Numeral(k)>>]

JoinTypeOf(jointype) ==
  CASE jointype = "JOIN_INNER" -> {"INNER"} [] jointype = "JOIN_LEFT" -> {"LEFT"}
    [] jointype = "JOIN_FULL" -> {"OUTER"} [] jointype = "JOIN_RIGHT" -> {"RIGHT"}
    [] OTHER -> {}

RECURSIVE BindSelect(_, _, _)
RECURSIVE BindTableRef(_, _, _)

BindSubquery(cat, node, alias, ctes) ==
  {BoundSubqueryRef(q, SelectListName(q.select_list), alias) : q \in BindSelect(cat, node, ctes)}

BindRangeSubselect(cat, node, ctes) ==
  IF node.lateral THEN {}
  ELSE BindSubquery(cat, node.subquery, IF node.alias # "" THEN node.alias ELSE node.at, ctes)

BindJoin(cat, node, ctes) ==
  UNION {{BoundJoinRef(t, l, r, condition) :
            condition \in BindExpression(node.quals, BoundJoinRef(t, l, r, NoExpr), ctes)} :
           t \in JoinTypeOf(node.jointype),
           l \in BindTableRef(cat, node.larg, ctes), r \in BindTableRef(cat, node.rarg, ctes)}

BindTableRef(cat, node, ctes) ==
  CASE node.node = "RangeVar" -> BindRangeVar(cat, node, ctes)
    [] node.node = "JoinExpr" -> BindJoin(cat, node, ctes)
    [] node.node = "RangeSubselect" -> BindRangeSubselect(cat, node, ctes)
    [] OTHER -> {}

BindFrom(cat, list, ctes) ==
  IF list = <<>> THEN {EmptyTableRef}
  ELSE {SE!FoldLeft(BoundCrossProductRef, refs[1], Tail(refs)) :
          refs \in Every([k \in DOMAIN list |-> BindTableRef(cat, list[k], ctes)])}

\* Every body is bound in the scope that surrounds the WITH clause.
BindCTE(cat, with, ctes) ==
  Every([k \in DOMAIN with |->
           IF with[k].recursive THEN {}
           ELSE BindSubquery(cat, with[k].ctequery, with[k].ctename, ctes)])

\* ORDER BY, LIMIT and the rest of a VALUES clause are not looked at.
BindValues(node, ctes) ==
  LET name == "__values#"
  IN  {SelectStatement(list, [k \in DOMAIN list.values[1] |-> BoundColumnRef(<<name, Numeral(k - 1)>>)],
                       NoExpr, <<>>, NoExpr, NoExpr, NoExpr, <<>>, <<>>, FALSE) :
         list \in BindValuesList(node.valuesLists, name, ctes)}

BindClauses(node, table, own_ctes, ctes) ==
  {SelectStatement(table, c[1], c[2], c[3], c[4], c[5], c[6], c[7], own_ctes, node.distinct) :
     c \in Every(<<IF node.distinct_on \/ node.targetList = <<>> THEN {}
                   ELSE BindSelectList(node.targetList, table, ctes),
                   BindOptional(node.whereClause, table, ctes),
                   BindExpressionList(node.groupClause, table, ctes),
                   BindOptional(node.havingClause, table, ctes),
                   BindOptional(node.limitCount, table, ctes),
                   BindOptional(node.limitOffset, table, ctes),
                   BindSort(node.sortClause, table, ctes)>>)}

BindSelect(cat, node, outer_ctes) ==
  IF node.valuesLists # <<>> THEN BindValues(node, outer_ctes)
  ELSE UNION {LET ctes == IF own = <<>> THEN outer_ctes ELSE own
              IN  UNION {BindClauses(node, table, own, ctes) :
                           table \in BindFrom(cat, node.fromClause, ctes)} :
                own \in BindCTE(cat, node.withClause, outer_ctes)}

-----------------------------------------------------------------------------
(* The other statements *)

\* The names that start with "__"
Internal(name) == IsMock(name) \/ name \in InternalNames

BindInsert(cat, node) ==
  IF node.cols # <<>> \/ Internal(node.relation) THEN {}
  ELSE {InsertStatement(t, s) : t \in BindBaseTableRef(cat, node.relation, ""),
                                s \in BindSelect(cat, node.selectStmt, <<>>)}

\* No condition is the constant TRUE.
BindCondition(node, table) ==
  IF node = Null THEN {BoundConstant(GetBooleanValue("CmpTrue"))}
  ELSE BindExpression(node, table, <<>>)

BindDelete(cat, node) ==
  UNION {{DeleteStatement(t, e) : e \in BindCondition(node.whereClause, t)} :
           t \in BindBaseTableRef(cat, node.relation, "")}

\* A target column that does not exist is a null reference, which the planner
\* dereferences: like a throw, nothing comes of the statement.
BindUpdate(cat, node) ==
  LET targets(t) ==
        Every([k \in DOMAIN node.targetList |->
                 {[col |-> n, expr |-> e] :
                    n \in ResolveColumnRefFromBaseTableRef(t, <<node.targetList[k].name>>) \ {<<>>},
                    e \in BindExpression(node.targetList[k].val, t, <<>>)}])
  IN  UNION {{UpdateStatement(t, e, x) :
                e \in BindCondition(node.whereClause, t), x \in targets(t)} :
               t \in BindBaseTableRef(cat, node.relation, "")}

BindColumnDefinition(cdef) ==
  CASE cdef.typeName = "int4" -> {IntCol(cdef.colname)}
    [] cdef.typeName = "varchar" /\ cdef.typmods = 1 -> {TextCol(cdef.colname)}
    [] OTHER -> {}

BindCreate(node) ==
  {CreateStatement(node.relation, columns) :
     columns \in Every([k \in DOMAIN node.tableElts |->
                          IF node.tableElts[k].constraints THEN {}
                          ELSE BindColumnDefinition(node.tableElts[k])]) \ {<<>>}}

BindIndex(cat, node) ==
  UNION {{IndexStatement(node.idxname, t, cols) :
            cols \in Every([k \in DOMAIN node.indexParams |->
                              ResolveColumn(t, <<node.indexParams[k]>>, <<>>)])} :
           t \in BindBaseTableRef(cat, node.relation, "")}

BindVariableSet(node) ==
  {VariableSetStatement(node.name, ToString(exprs[1].val)) :
     exprs \in {e \in BindExpressionList(node.args, NoScope, <<>>) :
                  Len(e) = 1 /\ e[1].type = "CONSTANT"}}

BindVariableShow(node) == {VariableShowStatement(node.name)}

\* The sections to print: all of them without an option list, otherwise those
\* that it names; unknown options are passed over.
ExplainOptions(options) ==
  LET named(long, short) == IF options = {} \/ options \intersect {long, short} # {}
                            THEN {long} ELSE {}
  IN  named("planner", "p") \union named("optimizer", "o")
        \union named("binder", "b") \union named("schema", "s")

RECURSIVE BindStatement(_, _)
BindStatement(cat, node) ==
  CASE node.node = "CreateStmt" -> BindCreate(node)
    [] node.node = "InsertStmt" -> BindInsert(cat, node)
    [] node.node = "SelectStmt" -> BindSelect(cat, node, <<>>)
    [] node.node = "ExplainStmt" ->
         {ExplainStatement(s, ExplainOptions(node.options)) : s \in BindStatement(cat, node.query)}
    [] node.node = "DeleteStmt" -> BindDelete(cat, node)
    [] node.node = "UpdateStmt" -> BindUpdate(cat, node)
    [] node.node = "IndexStmt" -> BindIndex(cat, node)
    [] node.node = "VariableSetStmt" -> BindVariableSet(node)
    [] node.node = "VariableShowStmt" -> BindVariableShow(node)
    [] OTHER -> {}
=============================================================================
