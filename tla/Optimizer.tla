----------------------------- MODULE Optimizer ------------------------------
(***************************************************************************)
(* The rule-based optimizer (optimizer/).  A rule rewrites the children of  *)
(* a node first, then the node itself; it returns the set of the plans it   *)
(* may return, empty when it throws: the order in which the indexes of a    *)
(* table are tried is that of a hash map, so any index that fits may win.   *)
(***************************************************************************)
EXTENDS Catalog

-----------------------------------------------------------------------------
(* Merging a filter into the join under it *)

RECURSIVE RewriteExpressionForJoin(_, _, _)
RewriteExpressionForJoin(expr, left_cnt, right_cnt) ==
  CASE expr.kind = "column" /\ expr.tuple_idx # 0 -> {}
    [] expr.kind = "column" /\ expr.col_idx < left_cnt ->
         {ColumnValueExpression(0, expr.col_idx, expr.type)}
    [] expr.kind = "column" /\ expr.col_idx \in left_cnt..(left_cnt + right_cnt - 1) ->
         {ColumnValueExpression(1, expr.col_idx - left_cnt, expr.type)}
    [] expr.kind = "column" /\ expr.col_idx >= left_cnt + right_cnt -> {}
    [] OTHER -> {[expr EXCEPT !.children = c] :
                   c \in Every([k \in DOMAIN expr.children |->
                           RewriteExpressionForJoin(expr.children[k], left_cnt, right_cnt)])}

\* GetAs<bool> of the constant cast to BOOLEAN: only 0 is false.
AsBool(cast) == IF IsError(cast) THEN {} ELSE {cast.v # 0}

IsPredicateTrue(expr) ==
  IF expr.kind # "constant" THEN {FALSE} ELSE AsBool(CastAs(expr.val, "BOOLEAN"))

MergeFilterNLJ(plan) ==
  LET nlj == plan.children[1]
      count(k) == Len(nlj.children[k].schema)
      merged == {NestedLoopJoinPlanNode(plan.schema, nlj.children[1], nlj.children[2], p,
                                        nlj.join_type) :
                   p \in RewriteExpressionForJoin(plan.predicate, count(1), count(2))}
  IN  IF plan.plan = "Filter" /\ nlj.plan = "NestedLoopJoin"
      THEN UNION {IF true THEN merged ELSE {plan} : true \in IsPredicateTrue(nlj.predicate)}
      ELSE {plan}

RECURSIVE OptimizeMergeFilterNLJ(_)
OptimizeMergeFilterNLJ(plan) ==
  UNION {MergeFilterNLJ(CloneWithChildren(plan, c)) :
           c \in Every([k \in DOMAIN plan.children |-> OptimizeMergeFilterNLJ(plan.children[k])])}

-----------------------------------------------------------------------------
(* Removing projections that only rename *)

IsIdentical(exprs) ==
  \A k \in DOMAIN exprs :
    exprs[k].kind = "column" /\ exprs[k].tuple_idx = 0 /\ exprs[k].col_idx = k - 1

MergeProjection(plan) ==
  LET child == plan.children[1]
  IN  IF /\ plan.plan = "Projection"
         /\ Types(child.schema) = Types(plan.schema)
         /\ IsIdentical(plan.expressions)
      THEN [child EXCEPT !.schema = plan.schema]
      ELSE plan

RECURSIVE OptimizeMergeProjection(_)
OptimizeMergeProjection(plan) ==
  {MergeProjection(CloneWithChildren(plan, c)) :
     c \in Every([k \in DOMAIN plan.children |-> OptimizeMergeProjection(plan.children[k])])}

-----------------------------------------------------------------------------
(* Using an index *)

MatchIndex(cat, table_name, index_key_idx) ==
  {index \in GetTableIndexes(cat, table_name) : index.key_attrs = index_key_idx}

\* <column> = <column>, one of each side of the join: [left, right], or none
EqualKeys(predicate) ==
  LET l == predicate.children[1]
      r == predicate.children[2]
  IN  IF /\ predicate.kind = "comparison" /\ predicate.op = "="
         /\ l.kind = "column" /\ r.kind = "column" /\ l.tuple_idx # r.tuple_idx
      THEN IF l.tuple_idx = 0 THEN {[left |-> l, right |-> r]} ELSE {[left |-> r, right |-> l]}
      ELSE {}

InTuple0(expr) == ColumnValueExpression(0, expr.col_idx, expr.type)

NLJAsIndexJoin(cat, plan) ==
  LET right == plan.children[2]
      joins == {NestedIndexJoinPlanNode(plan.schema, plan.children[1], InTuple0(keys.left),
                                        right.table_oid, index.index_oid, right.schema,
                                        plan.join_type) :
                  keys \in EqualKeys(plan.predicate),
                  index \in UNION {MatchIndex(cat, right.table_name, k.right.col_idx) :
                                     k \in EqualKeys(plan.predicate)}}
  IN  IF plan.plan = "NestedLoopJoin" /\ right.plan = "SeqScan" /\ joins # {} THEN joins
      ELSE {plan}

RECURSIVE OptimizeNLJAsIndexJoin(_, _)
OptimizeNLJAsIndexJoin(cat, plan) ==
  UNION {NLJAsIndexJoin(cat, CloneWithChildren(plan, c)) :
           c \in Every([k \in DOMAIN plan.children |->
                          OptimizeNLJAsIndexJoin(cat, plan.children[k])])}

\* Mutant: the direction of the sort is not looked at.
OrderByAsIndexScanAnyDirection(cat, plan) ==
  LET seq_scan == plan.children[1]
      expr == plan.order_bys[1].expr
      indexes == {index \in GetTableIndexes(cat, seq_scan.table_name) :
                    index.key_schema[1].name
                      = GetTableByOid(cat, seq_scan.table_oid).schema[expr.col_idx + 1].name}
  IN  IF /\ plan.plan = "Sort" /\ Len(plan.order_bys) = 1
         /\ expr.kind = "column" /\ seq_scan.plan = "SeqScan" /\ indexes # {}
      THEN {IndexScanPlanNode(plan.schema, index.index_oid) : index \in indexes}
      ELSE {plan}

OrderByAsIndexScan(cat, plan) ==
  LET seq_scan == plan.children[1]
      order_by == plan.order_bys[1]
      indexes == {index \in GetTableIndexes(cat, seq_scan.table_name) :
                    index.key_schema[1].name
                      = GetTableByOid(cat, seq_scan.table_oid).schema[order_by.expr.col_idx + 1].name}
  IN  IF /\ plan.plan = "Sort" /\ Len(plan.order_bys) = 1
         /\ order_by.type \in {"ASC", "DEFAULT"} /\ order_by.expr.kind = "column"
         /\ seq_scan.plan = "SeqScan" /\ indexes # {}
      THEN {IndexScanPlanNode(plan.schema, index.index_oid) : index \in indexes}
      ELSE {plan}

RECURSIVE OptimizeOrderByAsIndexScan(_, _)
OptimizeOrderByAsIndexScan(cat, plan) ==
  UNION {OrderByAsIndexScan(cat, CloneWithChildren(plan, c)) :
           c \in Every([k \in DOMAIN plan.children |->
                          OptimizeOrderByAsIndexScan(cat, plan.children[k])])}

-----------------------------------------------------------------------------
(* The rules that no pipeline uses yet *)

NLJAsHashJoin(plan) ==
  LET joins == {HashJoinPlanNode(plan.schema, plan.children[1], plan.children[2],
                                 InTuple0(keys.left), InTuple0(keys.right), plan.join_type) :
                  keys \in EqualKeys(plan.predicate)}
  IN  IF plan.plan = "NestedLoopJoin" /\ joins # {} THEN joins ELSE {plan}

RECURSIVE OptimizeNLJAsHashJoin(_)
OptimizeNLJAsHashJoin(plan) ==
  UNION {NLJAsHashJoin(CloneWithChildren(plan, c)) :
           c \in Every([k \in DOMAIN plan.children |-> OptimizeNLJAsHashJoin(plan.children[k])])}

MergeFilterScan(plan) ==
  LET scan == plan.children[1]
  IN  IF plan.plan = "Filter" /\ scan.plan = "SeqScan" /\ scan.filter_predicate = NoExpression
      THEN SeqScanPlanNode(plan.schema, scan.table_oid, scan.table_name, plan.predicate)
      ELSE plan

RECURSIVE OptimizeMergeFilterScan(_)
OptimizeMergeFilterScan(plan) ==
  {MergeFilterScan(CloneWithChildren(plan, c)) :
     c \in Every([k \in DOMAIN plan.children |-> OptimizeMergeFilterScan(plan.children[k])])}

EliminateTrueFilter(plan) ==
  IF plan.plan = "Filter"
  THEN {IF true THEN plan.children[1] ELSE plan : true \in IsPredicateTrue(plan.predicate)}
  ELSE {plan}

RECURSIVE OptimizeEliminateTrueFilter(_)
OptimizeEliminateTrueFilter(plan) ==
  UNION {EliminateTrueFilter(CloneWithChildren(plan, c)) :
           c \in Every([k \in DOMAIN plan.children |->
                          OptimizeEliminateTrueFilter(plan.children[k])])}

-----------------------------------------------------------------------------
(* The pipelines: the starter rules and the custom rules are the same. *)

OptimizeSortLimitAsTopN(plan) == plan

OptimizeCustom(cat, plan) ==
  {OptimizeSortLimitAsTopN(p) :
     p \in UNION {OptimizeOrderByAsIndexScan(cat, p4) :
       p4 \in UNION {OptimizeNLJAsIndexJoin(cat, p3) :
         p3 \in UNION {OptimizeMergeFilterNLJ(p2) : p2 \in OptimizeMergeProjection(plan)}}}}

Optimize(cat, force_starter_rule, plan) ==
  IF force_starter_rule
  THEN UNION {OptimizeOrderByAsIndexScan(cat, p4) :
         p4 \in UNION {OptimizeNLJAsIndexJoin(cat, p3) :
           p3 \in UNION {OptimizeMergeFilterNLJ(p2) : p2 \in OptimizeMergeProjection(plan)}}}
  ELSE OptimizeCustom(cat, plan)
=============================================================================
