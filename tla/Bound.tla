------------------------------- MODULE Bound --------------------------------
(***************************************************************************)
(* The two trees the binder stands between.  The parse tree comes from the  *)
(* bundled PostgreSQL parser (external): a node is modelled by the fields   *)
(* the binder reads, and a null pointer by Null.  The bound tree is that of *)
(* include/binder/: expressions, table references and statements.           *)
(*                                                                         *)
(* Names are strings, dotted names sequences of strings; the empty sequence *)
(* is the null pointer where the code may return no column reference.       *)
(***************************************************************************)
EXTENDS Catalog

LOCAL SE == INSTANCE SequencesExt

CONSTANTS
  LowerCase,      \* the names with capitals, and what StringUtil::Lower makes of them
  InternalNames   \* the names starting with "__" of tables that are no mock tables

Lower(name) == IF name \in DOMAIN LowerCase THEN LowerCase[name] ELSE name
LowerAll(path) == [k \in DOMAIN path |-> Lower(path[k])]

\* A number as a component of a generated name
Numeral(n) == <<"0", "1", "2", "3", "4", "5", "6", "7">>[n + 1]

-----------------------------------------------------------------------------
(* Parse tree nodes *)

Null == [node |-> "null"]
PGColumnRef(fields) == [node |-> "ColumnRef", fields |-> fields]
PGAStar == [node |-> "AStar"]
PGAConst(tag, ival, str) == [node |-> "AConst", tag |-> tag, ival |-> ival, str |-> str]
PGResTarget(name, val) == [node |-> "ResTarget", name |-> name, val |-> val]
PGFuncCall(funcname, args, agg_distinct) ==
  [node |-> "FuncCall", funcname |-> funcname, args |-> args, agg_distinct |-> agg_distinct]
PGAExpr(kind, name, lexpr, rexpr) ==
  [node |-> "AExpr", kind |-> kind, name |-> name, lexpr |-> lexpr, rexpr |-> rexpr]
PGBoolExpr(boolop, args) == [node |-> "BoolExpr", boolop |-> boolop, args |-> args]
PGRangeVar(relname, alias) == [node |-> "RangeVar", relname |-> relname, alias |-> alias]
PGJoinExpr(jointype, larg, rarg, quals) ==
  [node |-> "JoinExpr", jointype |-> jointype, larg |-> larg, rarg |-> rarg, quals |-> quals]
\* at tells apart the subqueries without an alias
PGRangeSubselect(subquery, alias, lateral, at) ==
  [node |-> "RangeSubselect", subquery |-> subquery, alias |-> alias, lateral |-> lateral,
   at |-> at]
PGCommonTableExpr(ctename, ctequery, recursive) ==
  [ctename |-> ctename, ctequery |-> ctequery, recursive |-> recursive]
PGSortBy(dir, node) == [node |-> "SortBy", sortby_dir |-> dir, target |-> node]

-----------------------------------------------------------------------------
(* Bound expressions *)

NoExpr == [type |-> "INVALID"]
BoundColumnRef(col_name) == [type |-> "COLUMN_REF", col_name |-> col_name]
BoundConstant(val) == [type |-> "CONSTANT", val |-> val]
BoundStar == [type |-> "STAR"]
BoundAlias(alias, child) == [type |-> "ALIAS", alias |-> alias, child |-> child]
BoundBinaryOp(op_name, larg, rarg) ==
  [type |-> "BINARY_OP", op_name |-> op_name, larg |-> larg, rarg |-> rarg]
BoundUnaryOp(op_name, arg) == [type |-> "UNARY_OP", op_name |-> op_name, arg |-> arg]
BoundAggCall(func_name, is_distinct, args) ==
  [type |-> "AGG_CALL", func_name |-> func_name, is_distinct |-> is_distinct, args |-> args]

\* BoundColumnRef::Prepend keeps a null pointer null.
Prepend(col_name, prefix) == IF col_name = <<>> THEN <<>> ELSE <<prefix>> \o col_name

\* HasAggregation; asking a star throws, but no star is left in a select list.
RECURSIVE HasAggregation(_)
HasAggregation(expr) ==
  CASE expr.type = "AGG_CALL" -> TRUE
    [] expr.type = "ALIAS" -> HasAggregation(expr.child)
    [] expr.type = "BINARY_OP" -> HasAggregation(expr.larg) \/ HasAggregation(expr.rarg)
    [] expr.type = "UNARY_OP" -> HasAggregation(expr.arg)
    [] OTHER -> FALSE

-----------------------------------------------------------------------------
(* Bound table references *)

EmptyTableRef == [type |-> "EMPTY"]
NoScope == [type |-> "INVALID"]
BoundBaseTableRef(table, oid, alias, schema) ==
  [type |-> "BASE_TABLE", table |-> table, oid |-> oid, alias |-> alias, schema |-> schema]
BoundCrossProductRef(left, right) == [type |-> "CROSS_PRODUCT", left |-> left, right |-> right]
BoundJoinRef(join_type, left, right, condition) ==
  [type |-> "JOIN", join_type |-> join_type, left |-> left, right |-> right,
   condition |-> condition]
BoundSubqueryRef(subquery, select_list_name, alias) ==
  [type |-> "SUBQUERY", subquery |-> subquery, select_list_name |-> select_list_name,
   alias |-> alias]
BoundCTERef(cte_name, alias) == [type |-> "CTE", cte_name |-> cte_name, alias |-> alias]
BoundExpressionListRef(values, identifier) ==
  [type |-> "EXPRESSION_LIST", values |-> values, identifier |-> identifier]

\* The alias, "" when there is none, hides the name of the table.
GetBoundTableName(ref) == IF ref.alias # "" THEN ref.alias ELSE ref.table

-----------------------------------------------------------------------------
(* Bound statements *)

SelectStatement(table, select_list, where, group_by, having, limit_count, limit_offset, sort, ctes, is_distinct) ==
  [stmt |-> "SELECT", table |-> table, select_list |-> select_list, where |-> where,
   group_by |-> group_by, having |-> having, limit_count |-> limit_count,
   limit_offset |-> limit_offset, sort |-> sort, ctes |-> ctes, is_distinct |-> is_distinct]
BoundOrderBy(type, expr) == [type |-> type, expr |-> expr]
InsertStatement(table, select) == [stmt |-> "INSERT", table |-> table, select |-> select]
DeleteStatement(table, expr) == [stmt |-> "DELETE", table |-> table, expr |-> expr]
UpdateStatement(table, filter_expr, target_expr) ==
  [stmt |-> "UPDATE", table |-> table, filter_expr |-> filter_expr, target_expr |-> target_expr]
CreateStatement(table, columns) == [stmt |-> "CREATE", table |-> table, columns |-> columns]
IndexStatement(index_name, table, cols) ==
  [stmt |-> "INDEX", index_name |-> index_name, table |-> table, cols |-> cols]
ExplainStatement(statement, options) ==
  [stmt |-> "EXPLAIN", statement |-> statement, options |-> options]
VariableSetStatement(variable, value) ==
  [stmt |-> "VARIABLE_SET", variable |-> variable, value |-> value]
VariableShowStatement(variable) == [stmt |-> "VARIABLE_SHOW", variable |-> variable]
=============================================================================
