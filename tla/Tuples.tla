------------------------------- MODULE Tuples -------------------------------
(***************************************************************************)
(* Columns, schemas and tuples (catalog/column, catalog/schema,             *)
(* storage/table/tuple): where the values of a row lie in its bytes.        *)
(*                                                                         *)
(* The bytes of a tuple are a function from offsets to cells; a cell is the *)
(* k-th byte of something that was serialized, so that an overlap of two    *)
(* writes destroys the one made first.                                      *)
(***************************************************************************)
EXTENDS Values

\* Column: sizeof the fixed part; that of a VARCHAR holds the offset of its
\* payload.  The sizes are those of the code, whatever the widths of Bits.
FixedLength(t) ==
  CASE t \in {"BOOLEAN", "TINYINT"} -> 1
    [] t = "SMALLINT" -> 2
    [] t = "INTEGER" -> 4
    [] t \in {"BIGINT", "DECIMAL"} -> 8
    [] t = "VARCHAR" -> 12

IsInlined(t) == t # "VARCHAR"
SizeOfUint32 == 4

\* Schema(columns): the offset of every column and the length of the fixed
\* part.  A schema is the sequence of the types of its columns.
Offset(schema, i) ==
  LET offsets[k \in 1..Len(schema)] ==
        IF k = 1 THEN 0 ELSE offsets[k - 1] + FixedLength(schema[k - 1])
  IN  offsets[i]

SchemaLength(schema) ==
  LET n == Len(schema) IN Offset(schema, n) + FixedLength(schema[n])

CopySchema(schema, attrs) == [k \in DOMAIN attrs |-> schema[attrs[k]]]

\* VarlenType::SerializeTo: the length with the terminating zero, and the
\* data; NULL has only the length.
VarlenLength(val) == IF val.null THEN 0 ELSE Len(val.text) + 1

WriteCells(data, at, what, size) ==
  [o \in DOMAIN data |-> IF o \in at..(at + size - 1) THEN <<what, o - at>> ELSE data[o]]

ReadCells(data, at, size) ==
  /\ at + size - 1 \in DOMAIN data
  /\ \A o \in at..(at + size - 1) : data[o] = <<data[at][1], o - at>>

\* Mutant: every payload begins where the fixed part ends.
PayloadAtFixedEnd(values, schema, i) ==
  IF i > Len(schema) THEN SchemaLength(schema) + 20 ELSE SchemaLength(schema)

\* Where the payload of column i begins, and where the last one ends.
PayloadAt(values, schema, i) ==
  LET at[k \in 1..(Len(schema) + 1)] ==
        IF k = 1 THEN SchemaLength(schema)
        ELSE at[k - 1] + (IF IsInlined(schema[k - 1]) THEN 0
                          ELSE SizeOfUint32 + VarlenLength(values[k - 1]))
  IN  at[i]

\* Tuple(values, schema): the cells are zeroed, then the columns are written
\* from left to right.
SerializeColumn(data, values, schema, i) ==
  IF IsInlined(schema[i])
  THEN WriteCells(data, Offset(schema, i), values[i], FixedLength(schema[i]))
  ELSE LET at == PayloadAt(values, schema, i)
       IN  WriteCells(WriteCells(data, Offset(schema, i), at, SizeOfUint32),
                      at, values[i], SizeOfUint32 + VarlenLength(values[i]))

Tuple(values, schema) ==
  LET n == Len(schema)
      size == PayloadAt(values, schema, n + 1)
      data[k \in 0..n] == IF k = 0 THEN [o \in 0..(size - 1) |-> <<0, 0>>]
                          ELSE SerializeColumn(data[k - 1], values, schema, k)
  IN  data[n]

\* GetDataPtr and GetValue: an inlined column is where it is, the others
\* where their offset says.
GetDataPtr(tuple, schema, i) ==
  IF IsInlined(schema[i]) THEN Offset(schema, i) ELSE tuple[Offset(schema, i)][1]

GetValue(tuple, schema, i) ==
  LET at == GetDataPtr(tuple, schema, i)
      val == tuple[at][1]
      size == IF IsInlined(schema[i]) THEN FixedLength(schema[i])
              ELSE SizeOfUint32 + VarlenLength(val)
  IN  IF ReadCells(tuple, at, size) THEN val ELSE Error("overlap")

KeyFromTuple(tuple, schema, attrs) ==
  Tuple([k \in DOMAIN attrs |-> GetValue(tuple, schema, attrs[k])],
        CopySchema(schema, attrs))

=============================================================================
