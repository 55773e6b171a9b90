------------------------------- MODULE Planner ------------------------------
(***************************************************************************)
(* The planner (planner/): from a bound statement to a plan.  Names are     *)
(* looked up again, now in the output schemas of the plan below.            *)
(*                                                                         *)
(* An expression is planned on the schemas of the children of its node.     *)
(* aggs is expr_in_agg_, the columns that stand for the aggregations of the *)
(* query, and next is next_aggregation_, the number of those already used.  *)
(***************************************************************************)
EXTENDS Binder

LOCAL SE == INSTANCE SequencesExt
LOCAL FE == INSTANCE FiniteSetsExt

-----------------------------------------------------------------------------
(* Expressions *)

GetAggCallFromFactory(func_name, args) ==
  CASE func_name = "count_star" /\ Len(args) = 0 -> {"count_star"}
    [] func_name \in {"min", "max", "sum", "count"} /\ Len(args) = 1 -> {func_name}
    [] OTHER -> {}

GetBinaryExpressionFromFactory(op_name, left, right) ==
  CASE op_name \in {"=", "=="} -> ComparisonExpression(left, right, "=")
    [] op_name \in {"!=", "<>"} -> ComparisonExpression(left, right, "#")
    [] op_name \in {"<", "<=", ">", ">="} -> ComparisonExpression(left, right, op_name)
    [] op_name \in {"+", "-"} -> ArithmeticExpression(left, right, op_name)
    [] op_name \in {"and", "or"} -> LogicExpression(left, right, op_name)
    [] OTHER -> {}

\* The positions of a name in a schema, from 0
Positions(schema, col_name) == {k - 1 : k \in {j \in DOMAIN schema : schema[j].name = col_name}}

\* With one child the name must be unique; with two, each schema gives its
\* first match and only one of them may have one.
PlanColumnRef(col_name, schemas) ==
  LET at(t) == Positions(schemas[t + 1], col_name)
      column(t) == LET c == FE!Min(at(t)) IN ColumnValueExpression(t, c, schemas[t + 1][c + 1].type)
  IN  CASE Len(schemas) = 0 -> {}
        [] Len(schemas) = 1 -> IF FE!Cardinality(at(0)) = 1 THEN {column(0)} ELSE {}
        [] OTHER -> IF (at(0) = {}) = (at(1) = {}) THEN {}
                    ELSE {column(IF at(0) # {} THEN 0 ELSE 1)}

Planned(name, expr, next) == [name |-> name, expr |-> expr, next |-> next]

RECURSIVE PlanExpression(_, _, _, _)

PlanBinaryOp(expr, schemas, aggs, next) ==
  UNION {UNION {{Planned(UNNAMED_COLUMN, e, r.next) :
                   e \in GetBinaryExpressionFromFactory(expr.op_name, l.expr, r.expr)} :
                  r \in PlanExpression(expr.rarg, schemas, aggs, l.next)} :
           l \in PlanExpression(expr.larg, schemas, aggs, next)}

PlanExpression(expr, schemas, aggs, next) ==
  CASE expr.type = "AGG_CALL" ->
         IF next >= Len(aggs) THEN {} ELSE {Planned(UNNAMED_COLUMN, aggs[next + 1], next + 1)}
    [] expr.type = "COLUMN_REF" ->
         {Planned(expr.col_name, e, next) : e \in PlanColumnRef(expr.col_name, schemas)}
    [] expr.type = "BINARY_OP" -> PlanBinaryOp(expr, schemas, aggs, next)
    [] expr.type = "CONSTANT" ->
         {Planned(UNNAMED_COLUMN, ConstantValueExpression(expr.val), next)}
    [] expr.type = "ALIAS" ->
         {Planned(<<expr.alias>>, p.expr, p.next) :
            p \in PlanExpression(expr.child, schemas, aggs, next)}
    [] OTHER -> {}

\* A list of expressions, in order: the sequences of what they plan to
PlanList(exprs, schemas, aggs, next) ==
  SE!FoldLeft(LAMBDA done, e :
                UNION {{Append(d, p) :
                          p \in PlanExpression(e, schemas, aggs,
                                               IF d = <<>> THEN next ELSE d[Len(d)].next)} :
                         d \in done},
              {<<>>}, exprs)

\* Outside an aggregation
PlanPlain(expr, schemas) == {p.expr : p \in PlanExpression(expr, schemas, <<>>, 0)}

ExprsOf(planned) == [k \in DOMAIN planned |-> planned[k].expr]

-----------------------------------------------------------------------------
(* Aggregation *)

\* AddAggCallToContext: the aggregation calls of an expression, left to right
RECURSIVE AddAggCallToContext(_)
AddAggCallToContext(expr) ==
  CASE expr.type = "AGG_CALL" -> {<<expr>>}
    [] expr.type \in {"COLUMN_REF", "CONSTANT", "INVALID"} -> {<<>>}
    [] expr.type = "BINARY_OP" ->
         {l \o r : l \in AddAggCallToContext(expr.larg), r \in AddAggCallToContext(expr.rarg)}
    [] expr.type = "ALIAS" -> AddAggCallToContext(expr.child)
    [] OTHER -> {}

AggCallsOf(exprs) ==
  {SE!FlattenSeq(calls) : calls \in Every([k \in DOMAIN exprs |-> AddAggCallToContext(exprs[k])])}

\* Mutant: the calls of HAVING are collected last, but planned first.
AggCallsSelectFirst(statement) == AggCallsOf(Append(statement.select_list, statement.having))

\* The order in which phase 2 plans them again
AggCalls(statement) == AggCallsOf(<<statement.having>> \o statement.select_list)

\* The arguments are planned where aggregations are not allowed; count(*) is
\* planned as count(1).
PlanAggCall(agg_call, schema) ==
  IF agg_call.is_distinct THEN {}
  ELSE UNION {{[type |-> t, expr |-> IF args = <<>> THEN ConstantValueExpression(Integer(1))
                                     ELSE args[1].expr] :
                 t \in GetAggCallFromFactory(agg_call.func_name, args)} :
                args \in PlanList(agg_call.args, <<schema>>, <<>>, 0)}

\* Phase 1: the aggregation node
AggregationNode(child, group_by, calls) ==
  LET exprs == ExprsOf(group_by)
      inputs == ExprsOf(calls)
      names == [k \in DOMAIN group_by |-> group_by[k].name]
                 \o [k \in DOMAIN calls |-> <<"agg#", Numeral(k - 1)>>]
  IN  {AggregationPlanNode(schema, child, exprs, inputs, [k \in DOMAIN calls |-> calls[k].type]) :
         schema \in RenameSchema(InferAggSchema(exprs, inputs), names)}

\* Phase 2: HAVING and the select list over the aggregation node
OverAggregation(statement, plan, aggs) ==
  LET having == IF statement.having = NoExpr THEN {Planned(UNNAMED_COLUMN, NoExpression, 0)}
                ELSE PlanExpression(statement.having, <<plan.schema>>, aggs, 0)
      filtered(h) == IF h.expr = NoExpression THEN plan
                     ELSE FilterPlanNode(plan.schema, h.expr, plan)
      projected(h, items) ==
        {ProjectionPlanNode(schema, ExprsOf(items), filtered(h)) :
           schema \in RenameSchema(InferProjectionSchema(ExprsOf(items)),
                                   [k \in DOMAIN items |-> items[k].name])}
  IN  UNION {UNION {projected(h, items) :
                      items \in PlanList(statement.select_list, <<plan.schema>>, aggs, h.next)} :
               h \in having}

PlanSelectAgg(statement, child) ==
  LET columns(group_by, calls) ==
        [k \in DOMAIN calls |-> ColumnValueExpression(0, Len(group_by) + k - 1, "INTEGER")]
      planned(calls) == Every([k \in DOMAIN calls |-> PlanAggCall(calls[k], child.schema)])
  IN  UNION {UNION {OverAggregation(statement, plan, columns(group_by, calls)) :
                      plan \in AggregationNode(child, group_by, calls)} :
               group_by \in PlanList(statement.group_by, <<child.schema>>, <<>>, 0),
               calls \in UNION {planned(c) : c \in AggCalls(statement)}}

-----------------------------------------------------------------------------
(* Planning replaces the aggregation calls of a statement by placeholders, so
   that a WITH body that has some can be planned only once. *)

RECURSIVE CTERefs(_)
\* How often planning a table reference plans each CTE of the list in scope,
\* as the sequence of the names.  A query with a list of its own hides it.
CTERefs(ref) ==
  CASE ref.type = "CTE" -> <<ref.cte_name>>
    [] ref.type \in {"JOIN", "CROSS_PRODUCT"} -> CTERefs(ref.left) \o CTERefs(ref.right)
    [] ref.type = "SUBQUERY" ->
         IF ref.subquery.ctes = <<>> THEN CTERefs(ref.subquery.table) ELSE <<>>
    [] OTHER -> <<>>

RECURSIVE PlansAggCalls(_)
PlansAggCalls(ref) ==
  CASE ref.type = "SUBQUERY" ->
         \/ \E k \in DOMAIN ref.subquery.select_list : HasAggregation(ref.subquery.select_list[k])
         \/ HasAggregation(ref.subquery.having)
         \/ PlansAggCalls(ref.subquery.table)
         \/ \E k \in DOMAIN ref.subquery.ctes : PlansAggCalls(ref.subquery.ctes[k])
    [] ref.type \in {"JOIN", "CROSS_PRODUCT"} -> PlansAggCalls(ref.left) \/ PlansAggCalls(ref.right)
    [] OTHER -> FALSE

AggregatesPlannedOnce(statement) ==
  \A k \in DOMAIN statement.ctes :
    PlansAggCalls(statement.ctes[k]) =>
      Len(SelectSeq(CTERefs(statement.table), LAMBDA n : n = statement.ctes[k].alias)) <= 1

-----------------------------------------------------------------------------
(* Table references and SELECT *)

PlanBaseTableRef(cat, ref) ==
  LET table == GetTable(cat, ref.table)
      schema == InferScanSchema(GetBoundTableName(ref), ref.schema)
  IN  CASE IsMock(table.name) -> {MockScanPlanNode(schema, table.name)}
        [] Internal(table.name) /\ ~IsMock(table.name) -> {}
        [] OTHER -> {SeqScanPlanNode(schema, table.oid, table.name, NoExpression)}

PlanExpressionListRef(ref) ==
  LET row(k) == {ExprsOf(planned) : planned \in PlanList(ref.values[k], <<>>, <<>>, 0)}
      schema(first) == [k \in DOMAIN first |-> Col(<<ref.identifier, Numeral(k - 1)>>, first[k].type)]
  IN  {ValuesPlanNode(schema(rows[1]), rows) : rows \in Every([k \in DOMAIN ref.values |-> row(k)])}

NestedLoopJoin(left, right, condition, join_type) ==
  NestedLoopJoinPlanNode(InferJoinSchema(left, right), left, right, condition, join_type)

RECURSIVE PlanSelect(_, _, _)

PlanSubquery(cat, ref, alias, ctes) ==
  LET columns(plan) ==
        [k \in DOMAIN plan.schema |-> ColumnValueExpression(0, k - 1, plan.schema[k].type)]
      schema(plan) == RenameSchema(InferProjectionSchema(columns(plan)),
                                   [k \in DOMAIN plan.schema |-> <<alias>> \o ref.select_list_name[k]])
  IN  UNION {{ProjectionPlanNode(s, columns(plan), plan) : s \in schema(plan)} :
               plan \in PlanSelect(cat, ref.subquery, ctes)}

RECURSIVE PlanTableRef(_, _, _)

PlanCrossProductRef(cat, ref, ctes) ==
  {NestedLoopJoin(l, r, ConstantValueExpression(GetBooleanValue("CmpTrue")), "INNER") :
     l \in PlanTableRef(cat, ref.left, ctes), r \in PlanTableRef(cat, ref.right, ctes)}

PlanJoinRef(cat, ref, ctes) ==
  UNION {{NestedLoopJoin(l, r, e, ref.join_type) :
            e \in PlanPlain(ref.condition, <<l.schema, r.schema>>)} :
           l \in PlanTableRef(cat, ref.left, ctes), r \in PlanTableRef(cat, ref.right, ctes)}

PlanCTERef(cat, ref, ctes) == PlanSubquery(cat, CTENamed(ctes, ref.cte_name), ref.alias, ctes)

PlanTableRef(cat, ref, ctes) ==
  CASE ref.type = "BASE_TABLE" -> PlanBaseTableRef(cat, ref)
    [] ref.type = "CROSS_PRODUCT" -> PlanCrossProductRef(cat, ref, ctes)
    [] ref.type = "JOIN" -> PlanJoinRef(cat, ref, ctes)
    [] ref.type = "SUBQUERY" -> PlanSubquery(cat, ref, ref.alias, ctes)
    [] ref.type = "EXPRESSION_LIST" -> PlanExpressionListRef(ref)
    [] ref.type = "CTE" -> PlanCTERef(cat, ref, ctes)
    [] OTHER -> {}

\* FROM and WHERE
PlanWhere(statement, plan) ==
  IF statement.where = NoExpr THEN {plan}
  ELSE {FilterPlanNode(plan.schema, e, plan) : e \in PlanPlain(statement.where, <<plan.schema>>)}

PlanSource(cat, statement, ctes) ==
  UNION {PlanWhere(statement, plan) :
           plan \in IF statement.table = EmptyTableRef THEN {ValuesPlanNode(<<>>, <<<<>>>>)}
                    ELSE PlanTableRef(cat, statement.table, ctes)}

\* The select list without aggregations
PlanProjection(statement, child) ==
  LET name(items, k) == IF items[k].name = UNNAMED_COLUMN THEN <<"__unnamed#", Numeral(k)>>
                        ELSE items[k].name
  IN  UNION {{ProjectionPlanNode(schema, ExprsOf(items), child) :
                schema \in RenameSchema(InferProjectionSchema(ExprsOf(items)),
                                        [k \in DOMAIN items |-> name(items, k)])} :
               items \in PlanList(statement.select_list, <<child.schema>>, <<>>, 0)}

PlanDistinct(statement, child) ==
  IF ~statement.is_distinct THEN child
  ELSE AggregationPlanNode(child.schema, child,
         [k \in DOMAIN child.schema |-> ColumnValueExpression(0, k - 1, child.schema[k].type)],
         <<>>, <<>>)

PlanSort(statement, child) ==
  IF statement.sort = <<>> THEN {child}
  ELSE LET order_by(k) == {[type |-> statement.sort[k].type, expr |-> e] :
                             e \in PlanPlain(statement.sort[k].expr, <<child.schema>>)}
       IN  {SortPlanNode(child.schema, child, order_bys) :
              order_bys \in Every([k \in DOMAIN statement.sort |-> order_by(k)])}

\* A negative count, and NULL, is a large size_t: no limit.
NoLimit == 2^30

PlanLimit(statement, child) ==
  LET limit == statement.limit_count
  IN  IF limit = NoExpr /\ statement.limit_offset = NoExpr THEN {child}
      ELSE IF limit.type # "CONSTANT" \/ statement.limit_offset # NoExpr THEN {}
      ELSE IF limit.val.type # "INTEGER" THEN {}
      ELSE {LimitPlanNode(child.schema, child, IF limit.val.v < 0 THEN NoLimit ELSE limit.val.v)}

IsAggregation(statement) ==
  \/ statement.having # NoExpr
  \/ statement.group_by # <<>>
  \/ \E k \in DOMAIN statement.select_list : HasAggregation(statement.select_list[k])

PlanSelect(cat, statement, outer_ctes) ==
  LET ctes == IF statement.ctes # <<>> THEN statement.ctes ELSE outer_ctes
      selected(plan) == IF IsAggregation(statement) THEN PlanSelectAgg(statement, plan)
                        ELSE PlanProjection(statement, plan)
      ordered(plan) == UNION {PlanLimit(statement, p) :
                                p \in PlanSort(statement, PlanDistinct(statement, plan))}
  IN  IF ~AggregatesPlannedOnce(statement) THEN {}
      ELSE UNION {ordered(p) : p \in UNION {selected(s) : s \in PlanSource(cat, statement, ctes)}}

-----------------------------------------------------------------------------
(* The other statements, and PlanQuery *)

CountSchema(name) == <<Col(<<"__bustub_internal", name>>, "INTEGER")>>

PlanInsert(cat, statement) ==
  {InsertPlanNode(CountSchema("insert_rows"), select, statement.table.oid) :
     select \in {p \in PlanSelect(cat, statement.select, <<>>) :
                   Types(p.schema) = Types(statement.table.schema)}}

PlanFilter(table, expr) ==
  {FilterPlanNode(table.schema, e, table) : e \in PlanPlain(expr, <<table.schema>>)}

PlanDelete(cat, statement) ==
  UNION {{DeletePlanNode(CountSchema("delete_rows"), f, statement.table.oid) :
            f \in PlanFilter(table, statement.expr)} :
           table \in PlanTableRef(cat, statement.table, <<>>)}

\* The last assignment to a column counts; the others keep their value.
TargetExpressions(statement, schema) ==
  LET target(k) == {[col |-> c.col_idx, expr |-> e] :
                      c \in PlanColumnRef(statement.target_expr[k].col, <<schema>>),
                      e \in PlanPlain(statement.target_expr[k].expr, <<schema>>)}
      kept == [k \in DOMAIN schema |-> ColumnValueExpression(0, k - 1, schema[k].type)]
  IN  {SE!FoldLeft(LAMBDA exprs, t : [exprs EXCEPT ![t.col + 1] = t.expr], kept, targets) :
         targets \in Every([k \in DOMAIN statement.target_expr |-> target(k)])}

PlanUpdate(cat, statement) ==
  UNION {{UpdatePlanNode(CountSchema("update_rows"), f, statement.table.oid, exprs) :
            f \in PlanFilter(table, statement.filter_expr),
            exprs \in TargetExpressions(statement, table.schema)} :
           table \in PlanTableRef(cat, statement.table, <<>>)}

PlanQuery(cat, statement) ==
  CASE statement.stmt = "SELECT" -> PlanSelect(cat, statement, <<>>)
    [] statement.stmt = "INSERT" -> PlanInsert(cat, statement)
    [] statement.stmt = "DELETE" -> PlanDelete(cat, statement)
    [] statement.stmt = "UPDATE" -> PlanUpdate(cat, statement)
    [] OTHER -> {}
=============================================================================
