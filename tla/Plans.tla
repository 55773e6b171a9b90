------------------------------- MODULE Plans --------------------------------
(***************************************************************************)
(* The nodes of query plans (include/execution/plans/) and how their output *)
(* schemas are inferred (execution/plan_node.cpp).                          *)
(*                                                                         *)
(* A schema is a sequence of columns [name, type].  The dotted names of the *)
(* code ("t.x") are sequences of their components (<<"t", "x">>).  The      *)
(* declared length of a VARCHAR column is left out.                         *)
(***************************************************************************)
EXTENDS Expressions

\* The name of an absent predicate (a null AbstractExpressionRef)
NoExpression == [kind |-> "none", type |-> "INVALID", children |-> <<>>]

UNNAMED_COLUMN == <<"<unnamed>">>
Col(name, type) == [name |-> name, type |-> type]
Types(schema) == [k \in DOMAIN schema |-> schema[k].type]
Names(schema) == [k \in DOMAIN schema |-> schema[k].name]

-----------------------------------------------------------------------------
(* Nodes.  CloneWithChildren keeps everything but the children. *)

CloneWithChildren(plan, children) == [plan EXCEPT !.children = children]

ValuesPlanNode(schema, values) ==
  [plan |-> "Values", schema |-> schema, children |-> <<>>, values |-> values]

MockScanPlanNode(schema, table) ==
  [plan |-> "MockScan", schema |-> schema, children |-> <<>>, table |-> table]

SeqScanPlanNode(schema, table_oid, table_name, filter_predicate) ==
  [plan |-> "SeqScan", schema |-> schema, children |-> <<>>, table_oid |-> table_oid,
   table_name |-> table_name, filter_predicate |-> filter_predicate]

IndexScanPlanNode(schema, index_oid) ==
  [plan |-> "IndexScan", schema |-> schema, children |-> <<>>, index_oid |-> index_oid]

FilterPlanNode(schema, predicate, child) ==
  [plan |-> "Filter", schema |-> schema, children |-> <<child>>, predicate |-> predicate]

ProjectionPlanNode(schema, expressions, child) ==
  [plan |-> "Projection", schema |-> schema, children |-> <<child>>,
   expressions |-> expressions]

NestedLoopJoinPlanNode(schema, left, right, predicate, join_type) ==
  [plan |-> "NestedLoopJoin", schema |-> schema, children |-> <<left, right>>,
   predicate |-> predicate, join_type |-> join_type]

HashJoinPlanNode(schema, left, right, left_key, right_key, join_type) ==
  [plan |-> "HashJoin", schema |-> schema, children |-> <<left, right>>,
   left_key |-> left_key, right_key |-> right_key, join_type |-> join_type]

NestedIndexJoinPlanNode(schema, child, key_predicate, inner_table_oid, index_oid, inner_table_schema, join_type) ==
  [plan |-> "NestedIndexJoin", schema |-> schema, children |-> <<child>>,
   key_predicate |-> key_predicate, inner_table_oid |-> inner_table_oid,
   index_oid |-> index_oid, inner_table_schema |-> inner_table_schema,
   join_type |-> join_type]

AggregationPlanNode(schema, child, group_bys, aggregates, agg_types) ==
  [plan |-> "Aggregation", schema |-> schema, children |-> <<child>>,
   group_bys |-> group_bys, aggregates |-> aggregates, agg_types |-> agg_types]

SortPlanNode(schema, child, order_bys) ==
  [plan |-> "Sort", schema |-> schema, children |-> <<child>>, order_bys |-> order_bys]

LimitPlanNode(schema, child, limit) ==
  [plan |-> "Limit", schema |-> schema, children |-> <<child>>, limit |-> limit]

InsertPlanNode(schema, child, table_oid) ==
  [plan |-> "Insert", schema |-> schema, children |-> <<child>>, table_oid |-> table_oid]

DeletePlanNode(schema, child, table_oid) ==
  [plan |-> "Delete", schema |-> schema, children |-> <<child>>, table_oid |-> table_oid]

UpdatePlanNode(schema, child, table_oid, target_expressions) ==
  [plan |-> "Update", schema |-> schema, children |-> <<child>>, table_oid |-> table_oid,
   target_expressions |-> target_expressions]

-----------------------------------------------------------------------------
(* Schema inference *)

InferScanSchema(bound_name, schema) ==
  [k \in DOMAIN schema |-> Col(<<bound_name>> \o schema[k].name, schema[k].type)]

InferJoinSchema(left, right) == left.schema \o right.schema

InferProjectionSchema(expressions) ==
  [k \in DOMAIN expressions |-> Col(UNNAMED_COLUMN, expressions[k].type)]

RenameSchema(schema, col_names) ==
  IF Len(col_names) # Len(schema) THEN {}
  ELSE {[k \in DOMAIN schema |-> Col(col_names[k], schema[k].type)]}

InferAggSchema(group_bys, aggregates) ==
  InferProjectionSchema(group_bys)
    \o [k \in DOMAIN aggregates |-> Col(UNNAMED_COLUMN, "INTEGER")]
=============================================================================
