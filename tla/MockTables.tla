----------------------------- MODULE MockTables -----------------------------
(***************************************************************************)
(* The tables an instance starts with: the mock tables, whose rows the mock *)
(* scan computes (execution/mock_scan_executor.cpp), and the test tables,   *)
(* which are filled with generated rows (catalog/table_generator.cpp).      *)
(*                                                                         *)
(* Texts are abstracted to what the queries tell apart: an emoji is one     *)
(* character, a TA or a day of the week is one character of its own.        *)
(***************************************************************************)
EXTENDS Plans

CONSTANTS
  MaxRows,      \* bound on the rows of a table
  Draws         \* the numbers that the default random engine draws, as many as MaxRows

ASSUME TablesAssumption ==
  /\ MaxRows \in 1..7
  /\ Len(Draws) = MaxRows /\ \A k \in DOMAIN Draws : Draws[k] \in 0..9

Least(a, b) == IF a < b THEN a ELSE b
Integer(i) == Value("INTEGER", i)
NullInt == GetNullValueByType("INTEGER")
Text(chars) == VarcharValue(chars)
Repeat(char, n) == [k \in 1..n |-> char]
Poop == 20
Innocent == 21
TaName(c) == 30 + c
Day(d) == 50 + d

IntCol(name) == Col(<<name>>, "INTEGER")
TextCol(name) == Col(<<name>>, "VARCHAR")

mock_table_list ==
  <<"__mock_table_1", "__mock_table_2", "__mock_table_3", "__mock_table_tas_2022",
    "__mock_agg_input_small", "__mock_agg_input_big", "__mock_table_schedule_2022",
    "__mock_table_123", "__mock_graph", "__mock_t1_50k", "__mock_t2_100k", "__mock_t3_1k",
    "__mock_t4_1m", "__mock_t5_1m", "__mock_t6_1m", "__mock_t7", "__mock_t8">>

IsMock(table) == \E k \in DOMAIN mock_table_list : mock_table_list[k] = table

GetMockTableSchemaOf(table) ==
  CASE table = "__mock_table_1" -> <<IntCol("colA"), IntCol("colB")>>
    [] table = "__mock_table_2" -> <<TextCol("colC"), TextCol("colD")>>
    [] table = "__mock_table_3" -> <<IntCol("colE"), TextCol("colF")>>
    [] table = "__mock_table_tas_2022" -> <<TextCol("github_id"), TextCol("office_hour")>>
    [] table = "__mock_table_schedule_2022" -> <<TextCol("day_of_week"), IntCol("has_lecture")>>
    [] table \in {"__mock_agg_input_small", "__mock_agg_input_big"} ->
         <<IntCol("v1"), IntCol("v2"), IntCol("v3"), IntCol("v4"), IntCol("v5"), TextCol("v6")>>
    [] table = "__mock_graph" ->
         <<IntCol("src"), IntCol("dst"), TextCol("src_label"), TextCol("dst_label"),
           IntCol("distance")>>
    [] table = "__mock_table_123" -> <<IntCol("number")>>
    [] table \in {"__mock_t1_50k", "__mock_t2_100k", "__mock_t3_1k",
                  "__mock_t4_1m", "__mock_t5_1m", "__mock_t6_1m"} -> <<IntCol("x"), IntCol("y")>>
    [] table = "__mock_t7" -> <<IntCol("v"), IntCol("v1"), IntCol("v2")>>
    [] table = "__mock_t8" -> <<IntCol("v4")>>

\* GetSizeOf, cut off at MaxRows; every other mock table has more rows.
GetSizeOf(table) ==
  LET size == CASE table = "__mock_table_123" -> 3
                [] table = "__mock_table_schedule_2022" -> 7
                [] OTHER -> 10
  IN  Least(size, MaxRows)

GetShuffled(table) == table \in {"__mock_t1_50k", "__mock_t2_100k", "__mock_t3_1k"}

\* Day of office hours of the first seven TAs, days with a lecture
ta_oh_2022 == <<2, 3, 1, 3, 4, 5, 3>>
course_on_bool == <<0, 1, 0, 1, 0, 1, 1>>

Label(i) == Text(<<Digit(0), Digit(0), Digit(i)>>)

\* The row at a cursor
GetFunctionOf(table, c) ==
  LET small(hundreds) == <<Integer((c + 2) % 10), Integer(c), Integer((c + 50) % 100),
                           Integer(c \div hundreds), Integer(233)>>
      square(x) == <<Integer(x), Integer(x * 10)>>
  IN
  CASE table = "__mock_table_1" -> <<Integer(c), Integer(c * 100)>>
    [] table = "__mock_table_2" ->
         <<Text(IntegerText(c) \o <<Minus, Poop>>), Text(Repeat(Innocent, c % 8))>>
    [] table = "__mock_table_3" ->
         <<IF c % 2 = 0 THEN Integer(c) ELSE NullInt, Text(IntegerText(c) \o <<Minus, Poop>>)>>
    [] table = "__mock_table_tas_2022" -> <<Text(<<TaName(c)>>), Text(<<Day(ta_oh_2022[c + 1])>>)>>
    [] table = "__mock_table_schedule_2022" ->
         <<Text(<<Day(c + 1)>>), Integer(course_on_bool[c + 1])>>
    [] table = "__mock_agg_input_small" -> small(100) \o <<Text(Repeat(Poop, (c % 8) + 1))>>
    [] table = "__mock_agg_input_big" -> small(1000) \o <<Text(Repeat(Poop, (c % 16) + 1))>>
    [] table = "__mock_table_123" -> <<Integer(c + 1)>>
    [] table = "__mock_graph" ->
         LET src == c % 10
             dst == c \div 10
         IN  <<Integer(src), Integer(dst), Label(src), Label(dst), IF src = dst THEN NullInt ELSE Integer(1)>>
    [] table = "__mock_t1_50k" -> <<Integer(c * 10), Integer(c * 1000)>>
    [] table = "__mock_t2_100k" -> <<Integer(c), Integer(c * 100)>>
    [] table = "__mock_t3_1k" -> <<Integer(c * 100), Integer(c * 10000)>>
    [] table = "__mock_t4_1m" -> square(c % 500000)
    [] table = "__mock_t5_1m" -> square((c + 30000) % 500000)
    [] table = "__mock_t6_1m" -> square((c + 60000) % 500000)
    [] table = "__mock_t7" -> <<Integer(c % 20), Integer(c), Integer(c)>>
    [] table = "__mock_t8" -> <<Integer(c)>>

MockRows(table) == [k \in 1..GetSizeOf(table) |-> GetFunctionOf(table, k - 1)]

-----------------------------------------------------------------------------
(* Test tables *)

ColumnMeta(name, dist, min, max) == [name |-> name, dist |-> dist, min |-> min, max |-> max]

\* The configured tables; all columns are INTEGER.
insert_meta ==
  <<[name |-> "empty_table", num_rows |-> 0, col_meta |-> <<ColumnMeta("colA", "Serial", 0, 0)>>],
    [name |-> "test_simple_seq_1", num_rows |-> 10,
     col_meta |-> <<ColumnMeta("col1", "Serial", 0, 10)>>],
    [name |-> "test_simple_seq_2", num_rows |-> 10,
     col_meta |-> <<ColumnMeta("col1", "Serial", 0, 10), ColumnMeta("col2", "Serial", 10, 20)>>],
    [name |-> "test_1", num_rows |-> 1000,
     col_meta |-> <<ColumnMeta("colA", "Serial", 0, 0), ColumnMeta("colB", "Uniform", 0, 9),
                    ColumnMeta("colC", "Uniform", 0, 9999), ColumnMeta("colD", "Uniform", 0, 99999)>>],
    [name |-> "test_2", num_rows |-> 100,
     col_meta |-> <<ColumnMeta("colA", "Serial", 0, 99), ColumnMeta("colB", "Uniform", 0, 999),
                    ColumnMeta("colC", "Cyclic", 0, 9)>>]>>

\* The k-th value of a column: a fresh default-seeded engine draws the numbers
\* of every uniform column, so they start with the same draws.
GenNumericValues(col_meta, k) ==
  Integer(CASE col_meta.dist = "Serial" -> k - 1 + col_meta.min
        [] col_meta.dist = "Cyclic" -> (k - 1) % (col_meta.max + 1)
        [] col_meta.dist = "Uniform" -> col_meta.min + Draws[k])

FillTable(table_meta) ==
  [k \in 1..Least(table_meta.num_rows, MaxRows) |->
     [j \in DOMAIN table_meta.col_meta |-> GenNumericValues(table_meta.col_meta[j], k)]]
=============================================================================
