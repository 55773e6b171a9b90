--------------------------- MODULE PlanSemantics ----------------------------
(***************************************************************************)
(* What a query plan promises: the rows that each plan node stands for, by  *)
(* the comments of its class in include/execution/plans/ and by the fields  *)
(* its executor is given.  Most executors are not written yet; this is the  *)
(* contract that planner and optimizer rely on.                             *)
(*                                                                         *)
(* A meaning is a set: {rows}, or {} when an expression cannot be evaluated *)
(* (a column out of range, values that cannot be compared).                 *)
(***************************************************************************)
EXTENDS Catalog

LOCAL R == INSTANCE Relations
LOCAL SE == INSTANCE SequencesExt

\* The values of expressions on one row, of one expression on every row
RowOf(exprs, row) == Every([k \in DOMAIN exprs |-> Evaluate(exprs[k], row)])
ColumnOf(expr, rows) == Every([k \in DOMAIN rows |-> Evaluate(expr, rows[k])])

Filtered(predicate, rows) == {R!Kept(rows, flags) : flags \in ColumnOf(predicate, rows)}

Projected(exprs, rows) == Every([k \in DOMAIN rows |-> RowOf(exprs, rows[k])])

\* flags: for every left row, the value of the predicate on every right row
JoinFlags(predicate, left, right) ==
  Every([i \in DOMAIN left |->
           Every([j \in DOMAIN right |-> EvaluateJoin(predicate, left[i], right[j])])])

NestedLoopJoin(plan, left, right) ==
  {R!Joined(plan.join_type, left, right, flags,
            Types(plan.children[1].schema), Types(plan.children[2].schema)) :
     flags \in JoinFlags(plan.predicate, left, right)}

\* The same with a comparison of the two keys as the predicate
HashJoin(plan, left, right) ==
  LET key == [plan.right_key EXCEPT !.tuple_idx = 1]
      equal == ComparisonExpression(plan.left_key, key, "=")
  IN  UNION {NestedLoopJoin([join_type |-> plan.join_type, predicate |-> p,
                             children |-> plan.children], left, right) : p \in equal}

\* The inner rows are those that the index holds, in the order of the table.
NestedIndexJoin(cat, plan, left) ==
  LET index == GetIndexByOid(cat, plan.index_oid)
      rows == GetTableByOid(cat, plan.inner_table_oid).rows
      held == SelectSeq([k \in DOMAIN rows |-> k], LAMBDA k : SE!Contains(index.entries, k))
      right == [k \in DOMAIN held |-> rows[held[k]]]
      key == ColumnValueExpression(1, index.key_attrs, "INTEGER")
  IN  UNION {{R!Joined(plan.join_type, left, right, flags,
                       Types(plan.children[1].schema), Types(plan.inner_table_schema)) :
                flags \in JoinFlags(p, left, right)} :
               p \in ComparisonExpression(plan.key_predicate, key, "=")}

IndexScan(cat, plan) ==
  LET index == GetIndexByOid(cat, plan.index_oid)
      rows == GetTable(cat, index.table_name).rows
  IN  {[k \in DOMAIN index.entries |-> rows[index.entries[k]]]}

\* One row per group: its key, then its aggregates; a group for no rows at all
\* when there is no key.
Aggregation(plan, rows) ==
  LET row(group, keys, args) ==
        (IF plan.group_bys = <<>> THEN <<>> ELSE keys[group[1]])
          \o [a \in DOMAIN plan.agg_types |->
                R!Aggregated(plan.agg_types[a], [k \in DOMAIN group |-> args[group[k]][a]])]
      each(groups, keys, args) == [g \in DOMAIN groups |-> row(groups[g], keys, args)]
      all == <<[k \in DOMAIN rows |-> k]>>
  IN  {each(IF plan.group_bys = <<>> THEN all ELSE R!Groups(keys), keys, args) :
         keys \in Projected(plan.group_bys, rows), args \in Projected(plan.aggregates, rows)}

Sort(plan, rows) ==
  LET exprs == [k \in DOMAIN plan.order_bys |-> plan.order_bys[k].expr]
      orders == [k \in DOMAIN plan.order_bys |-> plan.order_bys[k].type]
  IN  {R!Picked(rows, R!SortedPositions(keys, orders)) : keys \in Projected(exprs, rows)}

\* What the node makes of the rows of its children
NodeMeaning(cat, plan, rows) ==
  CASE plan.plan = "Values" -> Every([k \in DOMAIN plan.values |-> RowOf(plan.values[k], <<>>)])
    [] plan.plan = "MockScan" -> {MockRows(plan.table)}
    [] plan.plan = "SeqScan" ->
         LET all == GetTableByOid(cat, plan.table_oid).rows
         IN  IF plan.filter_predicate = NoExpression THEN {all}
             ELSE Filtered(plan.filter_predicate, all)
    [] plan.plan = "IndexScan" -> IndexScan(cat, plan)
    [] plan.plan = "Filter" -> Filtered(plan.predicate, rows[1])
    [] plan.plan = "Projection" -> Projected(plan.expressions, rows[1])
    [] plan.plan = "NestedLoopJoin" -> NestedLoopJoin(plan, rows[1], rows[2])
    [] plan.plan = "HashJoin" -> HashJoin(plan, rows[1], rows[2])
    [] plan.plan = "NestedIndexJoin" -> NestedIndexJoin(cat, plan, rows[1])
    [] plan.plan = "Aggregation" -> Aggregation(plan, rows[1])
    [] plan.plan = "Sort" -> Sort(plan, rows[1])
    [] plan.plan = "Limit" -> {R!Limited(rows[1], plan.limit)}
    [] plan.plan \in {"Insert", "Delete"} -> {rows[1]}
    [] plan.plan = "Update" -> Projected(plan.target_expressions, rows[1])

RECURSIVE PlanMeaning(_, _)
PlanMeaning(cat, plan) ==
  UNION {NodeMeaning(cat, plan, rows) :
           rows \in Every([k \in DOMAIN plan.children |-> PlanMeaning(cat, plan.children[k])])}
=============================================================================
