---------------------------- MODULE ValueAlgebra ----------------------------
(***************************************************************************)
(* What the operations of Values and Tuples promise, over every value that  *)
(* a sequence of them can produce: `left' is computed, cast or chosen, step *)
(* by step, against operands taken from the limits of every type.           *)
(***************************************************************************)
EXTENDS Tuples

CONSTANT MaxDecimal   \* bound on the decimals that are computed, in halves

\* Widths that grow from type to type as in the code, small enough for the runs
\* to reach every limit of every type.
ReducedBits == [TINYINT |-> 3, SMALLINT |-> 4, INTEGER |-> 8, BIGINT |-> 9]

VARIABLES left, right

vars == <<left, right>>

Operators == {"+", "-", "*", "/", "%"}
Comparisons == {"=", "#", "<", "<=", ">", ">="}

\* The limits of a type (Type::GetMinValue, GetMaxValue), the numbers next to
\* them, those around zero, and NULL.
GetMinValue(t) ==
  CASE t \in Integers4 -> Value(t, IntMin(t))
    [] t = "BOOLEAN" -> Value(t, 0)
    [] t = "DECIMAL" -> DecimalValue(DecimalMin)
    [] t = "VARCHAR" -> VarcharValue(<<>>)

GetMaxValue(t) ==
  CASE t \in Integers4 -> Value(t, IntMax(t))
    [] t = "BOOLEAN" -> Value(t, 1)
    [] t = "DECIMAL" -> DecimalValue(-DecimalMin)
    [] t = "VARCHAR" -> VarcharNull

Interesting == {-2, -1, 0, 1, 2} \union
               UNION {{IntMin(t), IntMin(t) + 1, IntMax(t) - 1, IntMax(t)} : t \in Integers4}

Operands ==
  {GetMinValue(t) : t \in TypeIds} \union {GetMaxValue(t) : t \in TypeIds}
  \union {GetNullValueByType(t) : t \in TypeIds}
  \union (UNION {{Value(t, i) : i \in Interesting \cap IntMin(t)..IntMax(t)} : t \in Integers4})
  \union {DecimalValue(d) : d \in {-3, -1, 0, 1, 2, 2 * IntMax("TINYINT") + 1,
                                   Double(IntMax("BIGINT"))}}
  \union {VarcharValue(s) : s \in {One, WordTrue, IntegerText(IntMin("TINYINT")),
                                   IntegerText(IntMax("SMALLINT"))}}

Init == left \in Operands /\ right \in Operands

\* Bound: a computed decimal is NULL or no larger than MaxDecimal.
Bounded(val) ==
  ~IsError(val) /\ (val.type = "DECIMAL" => val.null \/ Abs(val.v) <= MaxDecimal)

Becomes(res) == Bounded(res) /\ left' = res /\ UNCHANGED right

Compute == \E op \in Operators : Becomes(Arithmetic(op, left, right))
Cast == \E t \in TypeIds : Becomes(CastAs(left, t))
Choose == \E which \in {"Min", "Max"} : Becomes(MinMax(which, left, right))

Next == Compute \/ Cast \/ Choose

Spec == Init /\ [][Next]_vars

-----------------------------------------------------------------------------
BothIntegers == left.type \in Integers4 /\ right.type \in Integers4
BothNumeric == left.type \in Numeric /\ right.type \in Numeric
NoNull == ~left.null /\ ~right.null

Exact(op, x, y) ==
  CASE op = "+" -> x + y [] op = "-" -> x - y [] op = "*" -> x * y
    [] op = "/" -> Trunc(x, y) [] op = "%" -> x - Trunc(x, y) * y

(* Integer arithmetic is exact: the result is the number that the operation
   has, in the wider type of the two, and OUT_OF_RANGE is thrown exactly when
   that type cannot hold it; only division by zero throws otherwise
   (integer_parent_type.h:79-173, whose checks differ with the two widths).
   Nothing is claimed when the number is the one that stands for NULL, MIN - 1:
   the code and its tests differ on it (ArithmeticStaysInRange). *)
ArithmeticExact ==
  BothIntegers /\ NoNull =>
    \A op \in Operators :
      LET res == Arithmetic(op, left, right)
          t == Wider(left, right)
      IN  IF op \in {"/", "%"} /\ right.v = 0 THEN res = Error("DIVIDE_BY_ZERO")
          ELSE LET x == Exact(op, left.v, right.v)
               IN  /\ x \in IntMin(t)..IntMax(t) => ~IsError(res) /\ res.type = t /\ res.v = x
                   /\ x \notin IntNull(t)..IntMax(t) => res = Error("OUT_OF_RANGE")

(* No value below the minimum of its type can be computed from values that are
   not NULL (type_test.cpp:80: "We should not be allowed to create a value
   that is less than the min value").  The code does not keep it: MIN - 1, the
   number of NULL, passes its range checks (ValueAlgebra_range.cfg). *)
ArithmeticStaysInRange ==
  BothIntegers /\ NoNull =>
    \A op \in Operators :
      LET res == Arithmetic(op, left, right) IN IsError(res) \/ ~res.null

(* NULL is absorbing, and it does not change the type of the result: the type
   that an operation of two numbers has follows from their types alone
   (OperateNull, which each type defines, agrees with the templates). *)
NullKeepsType ==
  BothNumeric /\ ~NoNull =>
    \A op \in Operators :
      LET res == Arithmetic(op, left, right)
          other == Arithmetic("-", IF left.type = "DECIMAL" THEN DecimalValue(0) ELSE Value(left.type, 0),
                                   IF right.type = "DECIMAL" THEN DecimalValue(0) ELSE Value(right.type, 0))
      IN  ~IsError(res) /\ res.null /\ res.type = other.type

\* What the six comparisons of two numbers are, and "<" with them swapped.
OneOrder(cmp, swapped) ==
  /\ cmp["="] = GetCmpBool(cmp["<"] = "CmpFalse" /\ swapped = "CmpFalse")
  /\ cmp["#"] = GetCmpBool(cmp["="] = "CmpFalse")
  /\ cmp["<="] = GetCmpBool("CmpTrue" \in {cmp["<"], cmp["="]})
  /\ cmp[">"] = swapped
  /\ cmp[">="] = GetCmpBool("CmpTrue" \in {swapped, cmp["="]})
  /\ BothIntegers => cmp["<"] = GetCmpBool(left.v < right.v)

(* The six comparisons of two numbers are those of one order, whichever of them
   is on the left and whatever their types (type.h:50-58 derives five of them
   from CompareLessThan; the code writes out all of them for every pair of
   types), and they are CmpNull with a NULL. *)
ComparisonLaws ==
  BothNumeric =>
    LET cmp == [op \in Comparisons |-> Compare(op, left, right)]
        swapped == Compare("<", right, left)
    IN  IF NoNull THEN OneOrder(cmp, swapped)
        ELSE \A op \in Comparisons : cmp[op] = "CmpNull"

(* Integers that compare equal hash alike, whatever their widths (hash_util.h
   widens them all): a hash table keyed by one type finds the keys of another. *)
EqualHashesAlike ==
  BothIntegers /\ Compare("=", left, right) = "CmpTrue" => HashValue(left) = HashValue(right)

(* A cast of an integer either keeps the number or throws OUT_OF_RANGE; casting
   to a wider type or to a text and back gives the value again; and
   ValueFactory::CastAs... agrees with Value::CastAs. *)
CastsKeepNumbers ==
  left.type \in Integers4 =>
    \A t \in TypeIds \ {"BOOLEAN"} :
      LET c == CastAs(left, t)
      IN  /\ c = FactoryCast(left, t)
          /\ IF IsError(c) THEN c = Error("OUT_OF_RANGE") /\ left.v \notin IntMin(t)..IntMax(t)
             ELSE /\ c.null = left.null
                  /\ t \in Integers4 /\ ~c.null => c.v = left.v
                  /\ t \in Integers4 \union {"VARCHAR"} /\ ~c.null => CastAs(c, left.type) = left

(* A tuple gives back the values that it was built from, in the order of its
   schema, whichever of its columns are NULL or stored out of line, and so does
   the key that is cut out of it (tuple.cpp:24-62 and 98-130). *)
TupleRoundTrip ==
  \A values \in {<<left, right>>, <<right, left, right>>} :
    LET schema == [k \in DOMAIN values |-> values[k].type]
        tuple == Tuple(values, schema)
    IN  /\ \A k \in DOMAIN values : GetValue(tuple, schema, k) = values[k]
        /\ LET attrs == <<2, 1>>
               key == KeyFromTuple(tuple, schema, attrs)
           IN  \A k \in 1..2 : GetValue(key, CopySchema(schema, attrs), k) = values[attrs[k]]

=============================================================================
