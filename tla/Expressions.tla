---------------------------- MODULE Expressions ----------------------------
(***************************************************************************)
(* The expressions of query plans (include/execution/expressions/): their   *)
(* constructors, which refuse the types they do not support, and what they  *)
(* evaluate to on a row, or on the two rows of a join.                      *)
(*                                                                         *)
(* What may throw (or abort on an assertion) returns the set of what it may *)
(* return: {} when it throws, {x} when it returns x.  A row is a sequence   *)
(* of values: Tuples shows that a stored tuple gives back the values it was *)
(* built from.  Tuple and column numbers count from 0, as in the code.      *)
(***************************************************************************)
EXTENDS Values

LOCAL SE == INSTANCE SequencesExt

\* The sequences that take one member of each option: none when one throws.
Every(options) ==
  SE!FoldLeft(LAMBDA chosen, option : {Append(c, x) : c \in chosen, x \in option},
              {<<>>}, options)

-----------------------------------------------------------------------------
(* Constructors *)

ColumnValueExpression(tuple_idx, col_idx, type) ==
  [kind |-> "column", type |-> type, children |-> <<>>,
   tuple_idx |-> tuple_idx, col_idx |-> col_idx]

ConstantValueExpression(val) ==
  [kind |-> "constant", type |-> val.type, children |-> <<>>, val |-> val]

ComparisonExpression(left, right, comp_type) ==
  {[kind |-> "comparison", type |-> "BOOLEAN", children |-> <<left, right>>,
    op |-> comp_type]}

ArithmeticExpression(left, right, compute_type) ==
  IF left.type # "INTEGER" \/ right.type # "INTEGER" THEN {}
  ELSE {[kind |-> "arithmetic", type |-> "INTEGER", children |-> <<left, right>>,
         op |-> compute_type]}

LogicExpression(left, right, logic_type) ==
  IF left.type # "BOOLEAN" \/ right.type # "BOOLEAN" THEN {}
  ELSE {[kind |-> "logic", type |-> "BOOLEAN", children |-> <<left, right>>,
         op |-> logic_type]}

-----------------------------------------------------------------------------
(* Evaluation *)

\* ArithmeticExpression::PerformComputation and GetIntegerValue: an int32_t
\* that wraps; the sum that equals the null pattern reads as NULL.
ArithmeticCompute(op, lhs, rhs) ==
  {IF lhs.null \/ rhs.null THEN GetNullValueByType("INTEGER")
   ELSE Value("INTEGER", IF op = "+" THEN lhs.v + rhs.v ELSE lhs.v - rhs.v)}

\* ComparisonExpression::PerformComparison
BooleanOf(cmp) ==
  IF cmp \in {"CmpTrue", "CmpFalse", "CmpNull"} THEN {GetBooleanValue(cmp)} ELSE {}

PerformComparison(op, lhs, rhs) == BooleanOf(Compare(op, lhs, rhs))

\* LogicExpression::GetBoolAsCmpBool and PerformComputation
GetBoolAsCmpBool(val) == IF val.null THEN "CmpNull" ELSE GetCmpBool(val.v # 0)

LogicCompute(op, lhs, rhs) ==
  LET absorbing == IF op = "and" THEN "CmpFalse" ELSE "CmpTrue"
      neutral == IF op = "and" THEN "CmpTrue" ELSE "CmpFalse"
      both == {GetBoolAsCmpBool(lhs), GetBoolAsCmpBool(rhs)}
  IN  {GetBooleanValue(IF absorbing \in both THEN absorbing
                       ELSE IF both = {neutral} THEN neutral ELSE "CmpNull")}

Computed(expr, args) ==
  CASE expr.kind = "arithmetic" -> ArithmeticCompute(expr.op, args[1], args[2])
    [] expr.kind = "comparison" -> PerformComparison(expr.op, args[1], args[2])
    [] expr.kind = "logic" -> LogicCompute(expr.op, args[1], args[2])

\* EvaluateJoin; a column out of range has no value.
RECURSIVE EvaluateJoin(_, _, _)
EvaluateJoin(expr, left_tuple, right_tuple) ==
  CASE expr.kind = "column" ->
         LET tuple == IF expr.tuple_idx = 0 THEN left_tuple ELSE right_tuple
         IN  IF expr.col_idx + 1 \in DOMAIN tuple THEN {tuple[expr.col_idx + 1]} ELSE {}
    [] expr.kind = "constant" -> {expr.val}
    [] OTHER ->
         UNION {Computed(expr, args) :
                  args \in Every([k \in DOMAIN expr.children |->
                             EvaluateJoin(expr.children[k], left_tuple, right_tuple)])}

\* Evaluate looks at the one tuple whatever tuple_idx says.
Evaluate(expr, tuple) == EvaluateJoin(expr, tuple, tuple)

\* A predicate keeps a row when it is true: neither false nor NULL.
IsTrue(val) == ~val.null /\ val.v # 0
=============================================================================
