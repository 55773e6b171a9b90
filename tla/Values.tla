------------------------------- MODULE Values -------------------------------
(***************************************************************************)
(* The SQL values and their types (type/, include/type/): construction,     *)
(* arithmetic with its overflow checks, comparison, casts, hashing.  Every  *)
(* operation is a pure function of its operands; what the code throws, or   *)
(* aborts on, is a result of its own.                                       *)
(*                                                                         *)
(* Integer widths are constants, so that TLC meets every boundary: INTEGER  *)
(* stands for the C++ int, and is at least twice as wide as SMALLINT, so    *)
(* that a product of two narrow integers never overflows an int.  Signed    *)
(* overflow of an int or an int64_t wraps, as in the -O0 build that         *)
(* CMakeLists.txt chooses by default.  A double is a number of halves, and  *)
(* it has one bit less than BIGINT, so that conversions round and truncate. *)
(* A text is a sequence of characters in the order of their codes.          *)
(*                                                                         *)
(* TIMESTAMP is left out: Type::k_types has no entry for it, so             *)
(* Type::GetInstance returns a null pointer for every timestamp value.      *)
(***************************************************************************)
EXTENDS Integers, Sequences

CONSTANT Bits      \* the width of every integer type, in bits

Integers4 == {"TINYINT", "SMALLINT", "INTEGER", "BIGINT"}
Numeric == Integers4 \union {"DECIMAL"}

ASSUME BitsAssumption ==
  /\ Bits \in [Integers4 -> Nat \ {0, 1}]
  /\ Bits["TINYINT"] < Bits["SMALLINT"]
  /\ 2 * Bits["SMALLINT"] <= Bits["INTEGER"]
  /\ Bits["INTEGER"] < Bits["BIGINT"]

TypeIds == Numeric \union {"BOOLEAN", "VARCHAR"}

-----------------------------------------------------------------------------
(* Limits *)

Pow2[n \in Nat] == IF n = 0 THEN 1 ELSE 2 * Pow2[n - 1]

\* The smallest number of a type stands for NULL.
IntMax(t) == Pow2[Bits[t] - 1] - 1
IntNull(t) == -Pow2[Bits[t] - 1]
IntMin(t) == IntNull(t) + 1
BooleanNull == IntNull("TINYINT")
DecimalNull == 8 * IntNull("BIGINT")
DecimalMin == 4 * IntNull("BIGINT")

\* The number that the low bits of i spell in two's complement.
Wrap(t, i) == ((i - IntNull(t)) % Pow2[Bits[t]]) + IntNull(t)

Abs(i) == IF i < 0 THEN -i ELSE i
Trunc(x, y) == IF (x < 0) = (y < 0) THEN Abs(x) \div Abs(y)
                                    ELSE -(Abs(x) \div Abs(y))

\* static_cast<double>: the lowest bit of the largest numbers is lost.
Double(i) == 2 * (IF Abs(i) < Pow2[Bits["BIGINT"] - 2] \/ i % 2 = 0 THEN i
                  ELSE 4 * ((i + 1) \div 4))

-----------------------------------------------------------------------------
(* Construction *)

Error(e) == [error |-> e]
IsError(x) == "error" \in DOMAIN x

NullOf(t) == IF t = "BOOLEAN" THEN BooleanNull
             ELSE IF t = "DECIMAL" THEN DecimalNull ELSE IntNull(t)

\* Value(type, i), one constructor per width of i: the member of the union
\* is assigned, which narrows i, and NULL is recognised by its number.
Holding(t, v) == [type |-> t, null |-> v = NullOf(t), v |-> v]

Value(t, i) == Holding(t, Wrap(IF t = "BOOLEAN" THEN "TINYINT" ELSE t, i))
DecimalValue(d) == Holding("DECIMAL", d)
VarcharValue(s) == [type |-> "VARCHAR", null |-> FALSE, text |-> s]
VarcharNull == [type |-> "VARCHAR", null |-> TRUE, text |-> <<>>]

\* ValueFactory::GetNullValueByType and GetZeroValueByType
GetNullValueByType(t) == IF t = "VARCHAR" THEN VarcharNull ELSE Holding(t, NullOf(t))

GetBooleanValue(c) ==
  Value("BOOLEAN", CASE c = "CmpTrue" -> 1 [] c = "CmpFalse" -> 0
                     [] c = "CmpNull" -> BooleanNull)

GetCmpBool(b) == IF b THEN "CmpTrue" ELSE "CmpFalse"

CheckInteger(val) == val.type \in Integers4

CheckComparable(left, o) ==
  \/ left.type = "VARCHAR"
  \/ left.type = "BOOLEAN" /\ o.type \in {"BOOLEAN", "VARCHAR"}
  \/ left.type \in Numeric /\ o.type \in Numeric \union {"VARCHAR"}

-----------------------------------------------------------------------------
(* Texts: '-' is 0, '.' is 1, the digits follow, words come after them. *)

Minus == 0
Point == 1
Digit(d) == 2 + d
IsDigit(c) == c \in 2..11
WordF == <<12>>
WordFalse == <<13>>
WordT == <<14>>
WordTrue == <<15>>
WordNull == <<16>>

Digits[n \in Nat] ==
  IF n < 10 THEN <<Digit(n)>> ELSE Digits[n \div 10] \o <<Digit(n % 10)>>

Sign(i) == IF i < 0 THEN <<Minus>> ELSE <<>>

\* std::to_string of an integer and of a double (of its six decimals, the one
\* that a number of halves needs)
IntegerText(i) == Sign(i) \o Digits[Abs(i)]
DecimalText(d) ==
  Sign(d) \o Digits[Abs(d) \div 2] \o <<Point, Digit(5 * (Abs(d) % 2))>>

\* ToString of the types
ToString(val) ==
  IF val.null THEN WordNull
  ELSE CASE val.type = "VARCHAR" -> val.text
         [] val.type = "BOOLEAN" -> IF val.v = 1 THEN WordTrue ELSE WordFalse
         [] val.type = "DECIMAL" -> DecimalText(val.v)
         [] OTHER -> IntegerText(val.v)

\* stoi, stoll: an optional sign and as many digits as follow it.  `from' is
\* where the digits begin and `end' where they end.
DigitsFrom(s) == IF s # <<>> /\ s[1] = Minus THEN 2 ELSE 1

DigitsEnd(s, from) ==
  LET ends == {e \in from..Len(s) : \A k \in from..e : IsDigit(s[k])}
  IN  IF ends = {} THEN from - 1 ELSE CHOOSE e \in ends : \A f \in ends : f <= e

Number(s) ==
  LET upto[k \in 0..Len(s)] == IF k = 0 THEN 0 ELSE 10 * upto[k - 1] + (s[k] - Digit(0))
  IN  upto[Len(s)]

Signed(from, n) == IF from = 2 THEN -n ELSE n

InRange(i, t) ==
  IF i < IntNull(t) \/ i > IntMax(t) THEN Error("OUT_OF_RANGE") ELSE [v |-> i]

IntegerPart(s, from, end, t) ==
  IF end < from THEN Error("invalid_argument")
  ELSE InRange(Signed(from, Number(SubSeq(s, from, end))), t)

Stoi(s, t) == IntegerPart(s, DigitsFrom(s), DigitsEnd(s, DigitsFrom(s)), t)

Halves(s, from, end) ==
  LET half == IF end + 2 <= Len(s) /\ s[end + 1] = Point /\ s[end + 2] = Digit(5)
              THEN 1 ELSE 0
  IN  IF end < from THEN Error("invalid_argument")
      ELSE [v |-> Signed(from, 2 * Number(SubSeq(s, from, end)) + half)]

Stod(s) == Halves(s, DigitsFrom(s), DigitsEnd(s, DigitsFrom(s)))

\* TypeUtil::CompareStrings: memcmp of the common length, then the lengths
CompareStrings(a, b) ==
  LET common == 1..(IF Len(a) < Len(b) THEN Len(a) ELSE Len(b))
      differ == {k \in common : a[k] # b[k]}
      first == CHOOSE k \in differ : \A j \in differ : k <= j
  IN  IF differ = {} THEN Len(a) - Len(b) ELSE a[first] - b[first]

-----------------------------------------------------------------------------
(* Casts: Value::CastAs, one virtual function per type *)

\* Every type casts to a text in the same way, and so does the ValueFactory.
CastAsVarchar(val) == IF val.null THEN VarcharNull ELSE VarcharValue(ToString(val))

\* An integer type checks the range of the narrower types only.
IntegerCastAs(val, t, checked) ==
  IF t = "BOOLEAN" THEN Error("not coercable")
  ELSE IF val.null THEN GetNullValueByType(t)
  ELSE CASE t \in Integers4 ->
              IF t \in checked /\ (val.v > IntMax(t) \/ val.v < IntMin(t))
              THEN Error("OUT_OF_RANGE") ELSE Value(t, val.v)
         [] t = "DECIMAL" -> DecimalValue(Double(val.v))

\* Mutant: the narrowest cast of an INTEGER forgets its range check.
IntegerTypeCastAsUnchecked(val, t) == IntegerCastAs(val, t, {"SMALLINT"})

TinyintCastAs(val, t) == IntegerCastAs(val, t, {})
SmallintCastAs(val, t) == IntegerCastAs(val, t, {"TINYINT"})
IntegerTypeCastAs(val, t) == IntegerCastAs(val, t, {"TINYINT", "SMALLINT"})
BigintCastAs(val, t) == IntegerCastAs(val, t, {"TINYINT", "SMALLINT", "INTEGER"})

\* The bound of BIGINT is rounded to a double, and excluded.
DecimalCastAs(val, t) ==
  IF t = "BOOLEAN" THEN Error("not coercable")
  ELSE IF val.null THEN GetNullValueByType(t)
  ELSE CASE t \in Integers4 ->
              IF \/ t = "BIGINT" /\ val.v >= Double(IntMax(t))
                 \/ t # "BIGINT" /\ val.v > 2 * IntMax(t)
                 \/ val.v < (IF t = "BIGINT" THEN Double(IntMin(t)) ELSE 2 * IntMin(t))
              THEN Error("OUT_OF_RANGE") ELSE Value(t, Trunc(val.v, 2))
         [] t = "DECIMAL" -> val

BooleanCastAs(val, t) ==
  IF t = "BOOLEAN" THEN Value("BOOLEAN", val.v) ELSE Error("not coercable")

One == <<Digit(1)>>
Zero == <<Digit(0)>>

TextToBoolean(s) ==
  CASE s \in {WordTrue, One, WordT} -> Value("BOOLEAN", 1)
    [] s \in {WordFalse, Zero, WordF} -> Value("BOOLEAN", 0)
    [] OTHER -> Error("Boolean value format error")

\* stoi gives an int: a TINYINT or a SMALLINT keeps its low bits.
NarrowedTo(t, i) ==
  IF IsError(i) THEN i
  ELSE IF Wrap(t, i.v) < IntMin(t) THEN Error("OUT_OF_RANGE") ELSE Value(t, i.v)

TextToInteger(s, t) == NarrowedTo(t, Stoi(s, IF t = "BIGINT" THEN t ELSE "INTEGER"))

InDecimalRange(d) ==
  IF IsError(d) THEN d
  ELSE IF d.v < DecimalMin THEN Error("OUT_OF_RANGE") ELSE DecimalValue(d.v)

TextToDecimal(s) == InDecimalRange(Stod(s))

TextTo(s, t) ==
  CASE t = "BOOLEAN" -> TextToBoolean(s)
    [] t \in Integers4 -> TextToInteger(s, t)
    [] t = "DECIMAL" -> TextToDecimal(s)

VarlenCastAs(val, t) == IF t = "VARCHAR" THEN val ELSE TextTo(ToString(val), t)

CastAs(val, t) ==
  IF t = "VARCHAR" /\ val.type # "VARCHAR" THEN CastAsVarchar(val)
  ELSE CASE val.type = "BOOLEAN" -> BooleanCastAs(val, t)
         [] val.type = "TINYINT" -> TinyintCastAs(val, t)
         [] val.type = "SMALLINT" -> SmallintCastAs(val, t)
         [] val.type = "INTEGER" -> IntegerTypeCastAs(val, t)
         [] val.type = "BIGINT" -> BigintCastAs(val, t)
         [] val.type = "DECIMAL" -> DecimalCastAs(val, t)
         [] val.type = "VARCHAR" -> VarlenCastAs(val, t)

-----------------------------------------------------------------------------
(* Casts of the ValueFactory, one function per target type *)

IsCoercableFrom(t, from) ==
  \/ t = "BOOLEAN"
  \/ t \in Numeric /\ from \in Numeric \union {"VARCHAR"}
  \/ t = "VARCHAR"

\* The range of a decimal is compared as a double and its bound is included.
FactoryCastToInteger(val, t) ==
  IF ~IsCoercableFrom(t, val.type) THEN Error("not coercable")
  ELSE IF val.null THEN GetNullValueByType(t)
  ELSE CASE val.type \in Integers4 ->
              IF Bits[t] < Bits[val.type] /\ (val.v > IntMax(t) \/ val.v < IntMin(t))
              THEN Error("OUT_OF_RANGE") ELSE Value(t, val.v)
         [] val.type = "DECIMAL" ->
              IF val.v > Double(IntMax(t)) \/ val.v < Double(IntMin(t))
              THEN Error("OUT_OF_RANGE") ELSE Value(t, Trunc(val.v, 2))
         [] val.type = "VARCHAR" -> TextToInteger(ToString(val), t)

CastAsBigInt(val) == FactoryCastToInteger(val, "BIGINT")
CastAsInteger(val) == FactoryCastToInteger(val, "INTEGER")
CastAsSmallInt(val) == FactoryCastToInteger(val, "SMALLINT")
CastAsTinyInt(val) == FactoryCastToInteger(val, "TINYINT")

CastAsDecimal(val) ==
  IF ~IsCoercableFrom("DECIMAL", val.type) THEN Error("not coercable")
  ELSE IF val.null THEN GetNullValueByType("DECIMAL")
  ELSE CASE val.type \in Integers4 -> DecimalValue(Double(val.v))
         [] val.type = "DECIMAL" -> val
         [] val.type = "VARCHAR" -> TextToDecimal(ToString(val))

CastAsBoolean(val) ==
  IF val.null THEN GetNullValueByType("BOOLEAN")
  ELSE CASE val.type = "BOOLEAN" -> val
         [] val.type = "VARCHAR" -> TextToBoolean(ToString(val))
         [] OTHER -> Error("not coercable")

FactoryCast(val, t) ==
  CASE t = "BOOLEAN" -> CastAsBoolean(val)
    [] t = "TINYINT" -> CastAsTinyInt(val)
    [] t = "SMALLINT" -> CastAsSmallInt(val)
    [] t = "INTEGER" -> CastAsInteger(val)
    [] t = "BIGINT" -> CastAsBigInt(val)
    [] t = "DECIMAL" -> CastAsDecimal(val)
    [] t = "VARCHAR" -> CastAsVarchar(val)

-----------------------------------------------------------------------------
(* Arithmetic.  op is "+", "-", "*", "/" or "%".  The functions of a type take
   the right operand r and rv, which is r as they read it. *)

\* A text is cast to the left type; BOOLEAN and VARCHAR cast what they get.
RightOperand(l, r) ==
  IF r.type = "VARCHAR" \/ l.type \in {"BOOLEAN", "VARCHAR"} THEN CastAs(r, l.type) ELSE r

Wider(l, r) == IF Bits[l.type] >= Bits[r.type] THEN l.type ELSE r.type

\* The int, or int64_t, that the C++ expression x op y is computed in.
Expression(l, r, i) ==
  Wrap(IF "BIGINT" \in {l.type, r.type} THEN "BIGINT" ELSE "INTEGER", i)

\* IntegerParentType::AddValue and SubtractValue: the result fits neither
\* type, or the wider of them has overflowed.
FitsNeither(l, r, i) == i # Wrap(l.type, i) /\ i # Wrap(r.type, i)

AddValue(l, r) ==
  LET sum == Expression(l, r, l.v + r.v)
      res == Value(Wider(l, r), sum)
  IN  IF \/ FitsNeither(l, r, sum)
         \/ l.v > 0 /\ r.v > 0 /\ res.v < 0
         \/ l.v < 0 /\ r.v < 0 /\ res.v > 0
      THEN Error("OUT_OF_RANGE") ELSE res

\* Mutant: only the first test of SubtractValue is made.
SubtractValueOneTest(l, r) ==
  LET diff == Expression(l, r, l.v - r.v)
  IN  IF FitsNeither(l, r, diff) THEN Error("OUT_OF_RANGE") ELSE Value(Wider(l, r), diff)

SubtractValue(l, r) ==
  LET diff == Expression(l, r, l.v - r.v)
      res == Value(Wider(l, r), diff)
  IN  IF \/ FitsNeither(l, r, diff)
         \/ l.v > 0 /\ r.v < 0 /\ res.v < 0
         \/ l.v < 0 /\ r.v > 0 /\ res.v > 0
      THEN Error("OUT_OF_RANGE") ELSE res

\* MultiplyValue: the product is divided again.
MultiplyValue(l, r) ==
  LET prod == Expression(l, r, l.v * r.v)
      res == Value(Wider(l, r), prod)
  IN  IF FitsNeither(l, r, prod) \/ (r.v # 0 /\ Trunc(res.v, r.v) # l.v)
      THEN Error("OUT_OF_RANGE") ELSE res

DivideValue(l, r) ==
  IF r.v = 0 THEN Error("DIVIDE_BY_ZERO") ELSE Value(Wider(l, r), Trunc(l.v, r.v))

ModuloValue(l, r) ==
  IF r.v = 0 THEN Error("DIVIDE_BY_ZERO")
  ELSE Value(Wider(l, r), l.v - Trunc(l.v, r.v) * r.v)

Method(op, l, r) ==
  CASE op = "+" -> AddValue(l, r)
    [] op = "-" -> SubtractValue(l, r)
    [] op = "*" -> MultiplyValue(l, r)
    [] op = "/" -> DivideValue(l, r)
    [] op = "%" -> ModuloValue(l, r)

\* The same on doubles, rounded to halves.  NumericType::ValMod is the last.
AsDouble(val) == IF val.type = "DECIMAL" THEN val.v ELSE Double(val.v)

DoubleOp(op, x, y) ==
  CASE op = "+" -> x + y
    [] op = "-" -> x - y
    [] op = "*" -> Trunc(x * y, 2)
    [] op = "/" -> Trunc(2 * x, y)
    [] op = "%" -> x - Trunc(x, y) * y

\* A text has no IsZero: the function of the base class throws.
ZeroDivisor(op, r) ==
  IF op \notin {"/", "%"} THEN "no"
  ELSE IF r.type = "VARCHAR" THEN "not implemented"
  ELSE IF r.v = 0 THEN "DIVIDE_BY_ZERO" ELSE "no"

\* Add, Subtract, Multiply, Divide and Modulo of an integer type, nullResult
\* being what its OperateNull returns
IntegerArithmetic(op, l, r, rv, nullResult) ==
  IF ~CheckComparable(l, r) THEN Error("assert")
  ELSE IF l.null \/ r.null THEN nullResult
  ELSE IF ZeroDivisor(op, r) # "no" THEN Error(ZeroDivisor(op, r))
  ELSE IF r.type = "DECIMAL" THEN DecimalValue(DoubleOp(op, Double(l.v), r.v))
  ELSE IF IsError(rv) THEN rv ELSE Method(op, l, rv)

\* OperateNull: NULL of the type that the operation would have had.
OperateNull(r, kept) ==
  CASE r.type \in kept -> GetNullValueByType(r.type)
    [] r.type \in Integers4 \ kept ->
         GetNullValueByType(CHOOSE t \in kept \ {"DECIMAL"} :
                              \A s \in kept \ {"DECIMAL"} : Bits[t] <= Bits[s])
    [] OTHER -> Error("type error")

\* Mutant: NULL takes the type of the right operand.
BigintOperateNullRight(r) == OperateNull(r, Numeric)

TinyintOperateNull(r) == OperateNull(r, Numeric)
SmallintOperateNull(r) == OperateNull(r, Numeric \ {"TINYINT"})
IntegerTypeOperateNull(r) == OperateNull(r, {"INTEGER", "BIGINT", "DECIMAL"})
BigintOperateNull(r) == OperateNull(r, {"BIGINT", "DECIMAL"})

TinyintArithmetic(op, l, r, rv) == IntegerArithmetic(op, l, r, rv, TinyintOperateNull(r))
SmallintArithmetic(op, l, r, rv) == IntegerArithmetic(op, l, r, rv, SmallintOperateNull(r))
IntegerTypeArithmetic(op, l, r, rv) == IntegerArithmetic(op, l, r, rv, IntegerTypeOperateNull(r))
BigintArithmetic(op, l, r, rv) == IntegerArithmetic(op, l, r, rv, BigintOperateNull(r))

DecimalArithmetic(op, l, r, rv) ==
  IF ~CheckComparable(l, r) THEN Error("assert")
  ELSE IF l.null \/ r.null THEN GetNullValueByType("DECIMAL")
  ELSE IF ZeroDivisor(op, r) # "no" THEN Error(ZeroDivisor(op, r))
  ELSE IF IsError(rv) THEN rv ELSE DecimalValue(DoubleOp(op, l.v, AsDouble(rv)))

\* Type::Add ... Modulo of the other types throw.
ArithmeticWith(op, l, r, rv) ==
  CASE l.type = "TINYINT" -> TinyintArithmetic(op, l, r, rv)
    [] l.type = "SMALLINT" -> SmallintArithmetic(op, l, r, rv)
    [] l.type = "INTEGER" -> IntegerTypeArithmetic(op, l, r, rv)
    [] l.type = "BIGINT" -> BigintArithmetic(op, l, r, rv)
    [] l.type = "DECIMAL" -> DecimalArithmetic(op, l, r, rv)
    [] OTHER -> Error("not implemented")

Arithmetic(op, l, r) == ArithmeticWith(op, l, r, RightOperand(l, r))

-----------------------------------------------------------------------------
(* Comparison.  op is "=", "#", "<", "<=", ">" or ">="; the result is a
   CmpBool, or the name of what is thrown. *)

Holds(op, x, y) ==
  CASE op = "=" -> x = y [] op = "#" -> x # y
    [] op = "<" -> x < y [] op = "<=" -> x <= y
    [] op = ">" -> x > y [] op = ">=" -> x >= y

\* The right operand has been cast, or has failed to be.
HoldsUnlessError(op, x, rv) ==
  IF IsError(rv) THEN rv.error ELSE GetCmpBool(Holds(op, x, rv.v))

\* The comparison functions of an integer type
IntegerCompare(op, l, r, rv) ==
  IF ~CheckComparable(l, r) THEN "assert"
  ELSE IF l.null \/ r.null THEN "CmpNull"
  ELSE HoldsUnlessError(op, IF r.type = "DECIMAL" THEN Double(l.v) ELSE l.v, rv)

\* Mutant: the right operand is read with the width of the left one.
TinyintCompareNarrow(op, l, r, rv) ==
  IF l.null \/ r.null \/ r.type = "VARCHAR" THEN IntegerCompare(op, l, r, rv)
  ELSE GetCmpBool(Holds(op, l.v, Wrap("TINYINT", r.v)))

TinyintCompare(op, l, r, rv) == IntegerCompare(op, l, r, rv)
SmallintCompare(op, l, r, rv) == IntegerCompare(op, l, r, rv)
IntegerTypeCompare(op, l, r, rv) == IntegerCompare(op, l, r, rv)
BigintCompare(op, l, r, rv) == IntegerCompare(op, l, r, rv)

DecimalCompare(op, l, r, rv) ==
  IF ~CheckComparable(l, r) THEN "assert"
  ELSE IF l.null \/ r.null THEN "CmpNull"
  ELSE IF IsError(rv) THEN rv.error ELSE GetCmpBool(Holds(op, l.v, AsDouble(rv)))

BooleanCompare(op, l, r, rv) ==
  IF ~CheckComparable(l, r) THEN "assert"
  ELSE IF l.null \/ r.null THEN "CmpNull"
  ELSE HoldsUnlessError(op, l.v, rv)

VarlenCompare(op, l, r, rv) ==
  IF l.null \/ r.null THEN "CmpNull"
  ELSE GetCmpBool(Holds(op, CompareStrings(l.text, rv.text), 0))

CompareWith(op, l, r, rv) ==
  CASE l.type = "BOOLEAN" -> BooleanCompare(op, l, r, rv)
    [] l.type = "TINYINT" -> TinyintCompare(op, l, r, rv)
    [] l.type = "SMALLINT" -> SmallintCompare(op, l, r, rv)
    [] l.type = "INTEGER" -> IntegerTypeCompare(op, l, r, rv)
    [] l.type = "BIGINT" -> BigintCompare(op, l, r, rv)
    [] l.type = "DECIMAL" -> DecimalCompare(op, l, r, rv)
    [] l.type = "VARCHAR" -> VarlenCompare(op, l, r, rv)

Compare(op, l, r) == CompareWith(op, l, r, RightOperand(l, r))

\* Min and Max of the integer types, of DECIMAL and of VARCHAR, which has no
\* OperateNull: the comparison that chooses the left operand.
ChoosesLeft(which, t) ==
  CASE which = "Min" -> IF t = "DECIMAL" THEN "<=" ELSE "<"
    [] which = "Max" -> IF t = "VARCHAR" THEN ">" ELSE ">="

Chosen(c, l, r) == CASE c = "CmpTrue" -> l [] c = "CmpFalse" -> r [] OTHER -> Error(c)

MinMax(which, l, r) ==
  IF l.type = "BOOLEAN" THEN Error("not implemented")
  ELSE IF ~CheckComparable(l, r) THEN Error("assert")
  ELSE IF l.null \/ r.null THEN Arithmetic("+", l, r)
  ELSE Chosen(Compare(ChoosesLeft(which, l.type), l, r), l, r)

-----------------------------------------------------------------------------
(* HashUtil::HashValue: what is hashed, as the width and the bits of it.  Every
   integer is widened to an int64_t first. *)

\* Mutant: an integer is hashed with its own width.
HashValueOwnWidth(val) ==
  IF val.type = "VARCHAR" THEN <<"bytes", val.text>> ELSE <<val.type, val.v>>

HashValue(val) ==
  CASE val.type \in Integers4 -> <<"int64_t", val.v>>
    [] val.type = "BOOLEAN" -> <<"bool", IF val.v = 0 THEN 0 ELSE 1>>
    [] val.type = "DECIMAL" -> <<"double", val.v>>
    [] val.type = "VARCHAR" -> <<"bytes", val.text>>

=============================================================================
