------------------------------ MODULE Catalog -------------------------------
(***************************************************************************)
(* The catalog (include/catalog/catalog.h): the tables and the indexes of   *)
(* an instance, by number and by name.                                      *)
(*                                                                         *)
(* A catalog is a record of the maps of class Catalog.  A map is a function *)
(* and the nullptr that a lookup may return is NULL_INFO.  The rows of a    *)
(* table heap are a sequence: TableHeap shows that a scan returns what was  *)
(* inserted.  The content of an index is the sequence of the positions of   *)
(* the rows it holds, in the order of their keys: BPlusTree shows that the  *)
(* tree keeps the first row of every key and returns them in key order.     *)
(***************************************************************************)
EXTENDS MockTables

LOCAL SE == INSTANCE SequencesExt

NULL_INFO == [null |-> TRUE]
IsNull(info) == "null" \in DOMAIN info

\* unordered_map::emplace: a key that is there keeps its value.
Emplace(map, key, value) ==
  [k \in DOMAIN map \union {key} |-> IF k \in DOMAIN map THEN map[k] ELSE value]

EmptyCatalog ==
  [tables |-> <<>>, table_names |-> <<>>, next_table_oid |-> 0,
   indexes |-> <<>>, index_names |-> <<>>, next_index_oid |-> 0]

-----------------------------------------------------------------------------
(* Lookups *)

TableInfo(schema, name, heap, rows, oid) ==
  [schema |-> schema, name |-> name, heap |-> heap, rows |-> rows, oid |-> oid]

GetTable(cat, name) ==
  IF name \notin DOMAIN cat.table_names THEN NULL_INFO
  ELSE cat.tables[cat.table_names[name]]

GetTableByOid(cat, oid) == IF oid \in DOMAIN cat.tables THEN cat.tables[oid] ELSE NULL_INFO

GetIndex(cat, index_name, table_name) ==
  IF table_name \notin DOMAIN cat.index_names \/ index_name \notin DOMAIN cat.index_names[table_name]
  THEN NULL_INFO
  ELSE cat.indexes[cat.index_names[table_name][index_name]]

GetIndexByOid(cat, oid) == IF oid \in DOMAIN cat.indexes THEN cat.indexes[oid] ELSE NULL_INFO

\* The set of a table's indexes: the code returns them in an order that the
\* hash of their names decides.
GetTableIndexes(cat, table_name) ==
  IF table_name \notin DOMAIN cat.table_names THEN {}
  ELSE {cat.indexes[cat.index_names[table_name][i]] : i \in DOMAIN cat.index_names[table_name]}

GetTableNames(cat) == DOMAIN cat.table_names

-----------------------------------------------------------------------------
(* Changes.  Each returns the new catalog and what the code returns. *)

\* Mutant: the test for an existing table is missing.
CreateTableAgain(cat, table_name, schema, heap, rows) ==
  LET oid == cat.next_table_oid
      info == TableInfo(schema, table_name, heap, rows, oid)
  IN  [info |-> info,
       cat |-> [cat EXCEPT !.next_table_oid = oid + 1,
                           !.tables = Emplace(@, oid, info),
                           !.table_names = Emplace(@, table_name, oid),
                           !.index_names = Emplace(@, table_name, <<>>)]]

\* rows are those that the caller fills the new heap with before anyone else
\* can look at it: none for CREATE TABLE.
CreateTable(cat, table_name, schema, heap, rows) ==
  IF table_name \in DOMAIN cat.table_names THEN [cat |-> cat, info |-> NULL_INFO]
  ELSE LET oid == cat.next_table_oid
           info == TableInfo(schema, table_name, heap, rows, oid)
       IN  [info |-> info,
            cat |-> [cat EXCEPT !.next_table_oid = oid + 1,
                                !.tables = Emplace(@, oid, info),
                                !.table_names = Emplace(@, table_name, oid),
                                !.index_names = Emplace(@, table_name, <<>>)]]

IndexInfo(key_schema, name, oid, table_name, key_attrs, entries) ==
  [key_schema |-> key_schema, name |-> name, index_oid |-> oid, table_name |-> table_name,
   key_attrs |-> key_attrs, entries |-> entries]

\* The population loop: the tree refuses the rows whose key it has.
Populated(rows, key_attr) ==
  LET key(k) == rows[k][key_attr + 1].v
      fresh == {k \in 1..Len(rows) : \A j \in 1..(k - 1) : key(j) # key(k)}
  IN  SE!SetToSortSeq(fresh, LAMBDA a, b : key(a) < key(b))

\* The caller passes the schema it has bound, and exactly one key attribute.
\* The null heap of a mock table is dereferenced: the process dies.
CreateIndex(cat, index_name, table_name, schema, key_attr) ==
  IF table_name \notin DOMAIN cat.table_names \/ index_name \in DOMAIN cat.index_names[table_name]
  THEN [cat |-> cat, info |-> NULL_INFO, dies |-> FALSE]
  ELSE LET oid == cat.next_index_oid
           table == GetTable(cat, table_name)
           info == IndexInfo(<<schema[key_attr + 1]>>, index_name, oid, table_name, key_attr,
                             Populated(table.rows, key_attr))
       IN  [info |-> info, dies |-> ~table.heap,
            cat |-> [cat EXCEPT !.next_index_oid = oid + 1,
                                !.indexes = Emplace(@, oid, info),
                                !.index_names[table_name] = Emplace(@, index_name, oid)]]

-----------------------------------------------------------------------------
(* What an instance starts with *)

\* BustubInstance::GenerateMockTable
GenerateMockTable(cat) ==
  SE!FoldLeft(LAMBDA c, name : CreateTable(c, name, GetMockTableSchemaOf(name), FALSE, <<>>).cat,
              cat, mock_table_list)

\* TableGenerator::GenerateTestTables
GenerateTestTables(cat) ==
  LET schema(meta) == [k \in DOMAIN meta.col_meta |-> IntCol(meta.col_meta[k].name)]
  IN  SE!FoldLeft(LAMBDA c, meta : CreateTable(c, meta.name, schema(meta), TRUE, FillTable(meta)).cat,
                  cat, insert_meta)

\* The rows of a table, whoever stores or computes them
RowsOf(cat, table_name) ==
  IF IsMock(table_name) THEN MockRows(table_name) ELSE GetTable(cat, table_name).rows
=============================================================================
