--------------------------- MODULE BustubInstance ---------------------------
(***************************************************************************)
(* An instance and the sessions that send SQL to it                         *)
(* (common/bustub_instance.cpp).  A statement is bound, planned, optimized  *)
(* and executed in steps of its session; catalog_lock_ is held shared while *)
(* a plan is made and optimized, and exclusively to create a table or an    *)
(* index, but not while a statement is bound or executed.                   *)
(*                                                                         *)
(* An exception anywhere leaves ExecuteSql before the commit: the           *)
(* transaction stays open for ever, and its lock on the global transaction  *)
(* latch with it.                                                           *)
(***************************************************************************)
EXTENDS Planner, Optimizer, Executors

LOCAL FS == INSTANCE FiniteSets

CONSTANTS
  Sessions,       \* the callers of ExecuteSql
  Requests,       \* what each session may send
  MaxRequests     \* bound on the requests of each session

VARIABLES
  catalog,            \* the catalog
  session_variables,  \* shared by all sessions, under no lock
  readers,            \* the sessions that hold catalog_lock_ shared
  session,            \* what each session is doing
  leaked,             \* transactions that an exception left open
  alive               \* FALSE once the process has died on a null pointer

vars == <<catalog, session_variables, readers, session, leaked, alive>>

\* A request is a meta command, or the parse trees of some statements; text
\* that is not SQL has parses = FALSE.
Request(meta, parses, statement_nodes) ==
  [meta |-> meta, parses |-> parses, statement_nodes |-> statement_nodes]

Nothing == [none |-> TRUE]
Idle(sent) == [pc |-> "idle", sent |-> sent, request |-> Nothing, todo |-> <<>>,
               statement |-> Nothing, plan |-> Nothing, optimized |-> Nothing,
               result |-> Nothing]

Init ==
  /\ catalog = GenerateTestTables(GenerateMockTable(EmptyCatalog))
  /\ session_variables = <<>>
  /\ readers = {}
  /\ session = [s \in Sessions |-> Idle(0)]
  /\ leaked = 0
  /\ alive = TRUE

-----------------------------------------------------------------------------
At(s, pc) == alive /\ session[s].pc = pc
Statement(s) == session[s].statement

\* The exception leaves both ExecuteSqlTxn and ExecuteSql; locks are released
\* by their guards.
Throw(s) ==
  /\ session' = [session EXCEPT ![s] = Idle(session[s].sent)]
  /\ readers' = readers \ {s}
  /\ leaked' = leaked + 1
  /\ UNCHANGED <<catalog, session_variables, alive>>

ExecuteSql(s) ==
  /\ At(s, "idle") /\ session[s].sent < MaxRequests[s]
  /\ \E r \in Requests[s] :
       session' = [session EXCEPT ![s] = [Idle(session[s].sent + 1) EXCEPT !.pc = "begun",
                                                                         !.request = r]]
  /\ UNCHANGED <<catalog, session_variables, readers, leaked, alive>>

\* CmdDisplayTables and CmdDisplayIndices read the catalog without a lock.
CmdDisplayTables == {GetTable(catalog, name).oid : name \in GetTableNames(catalog)}
CmdDisplayIndices ==
  UNION {{index.index_oid : index \in GetTableIndexes(catalog, name)} :
           name \in GetTableNames(catalog)}

MetaCommand(s) ==
  /\ At(s, "begun") /\ session[s].request.meta # ""
  /\ LET output(shown) ==
           /\ session' = [session EXCEPT ![s].pc = "statement", ![s].result = shown]
           /\ UNCHANGED <<catalog, session_variables, readers, leaked, alive>>
     IN  CASE session[s].request.meta = "dt" -> output(CmdDisplayTables)
           [] session[s].request.meta = "di" -> output(CmdDisplayIndices)
           [] session[s].request.meta = "help" -> output(Nothing)
           [] OTHER -> Throw(s)

\* The catalog lock is held shared while the text is parsed, and let go.
ParseAndSave(s) ==
  /\ At(s, "begun") /\ session[s].request.meta = ""
  /\ IF ~session[s].request.parses THEN Throw(s)
     ELSE /\ session' = [session EXCEPT ![s].pc = "statement",
                                        ![s].todo = session[s].request.statement_nodes]
          /\ UNCHANGED <<catalog, session_variables, readers, leaked, alive>>

\* No lock: another session may be changing the catalog.
WithBound(s, bound) ==
  \/ bound = {} /\ Throw(s)
  \/ /\ \E b \in bound :
          session' = [session EXCEPT ![s].pc = b.stmt, ![s].statement = b,
                                     ![s].plan = Nothing, ![s].optimized = Nothing,
                                     ![s].result = Nothing]
     /\ UNCHANGED <<catalog, session_variables, readers, leaked, alive>>

Bind(s) ==
  /\ At(s, "statement") /\ session[s].todo # <<>>
  /\ WithBound(s, BindStatement(catalog, Head(session[s].todo)))

\* The statement is done; the loop goes on with the next one.
Done(s, result) ==
  session' = [session EXCEPT ![s].pc = "statement", ![s].result = result, ![s].todo = Tail(@)]

CreateTableStatement(s) ==
  /\ At(s, "CREATE") /\ readers = {}
  /\ LET made == CreateTable(catalog, Statement(s).table, Statement(s).columns, TRUE, <<>>)
     IN  IF IsNull(made.info) THEN Throw(s)
         ELSE /\ catalog' = made.cat
              /\ Done(s, made.info.oid)
              /\ UNCHANGED <<session_variables, readers, leaked, alive>>

\* One INTEGER column; anything else throws before the lock is taken.
IndexColumn(stmt) ==
  LET idx(k) == CHOOSE c \in DOMAIN stmt.table.schema :
                  stmt.table.schema[c].name = <<stmt.cols[k].col_name[Len(stmt.cols[k].col_name)]>>
  IN  IF /\ Len(stmt.cols) = 1
         /\ \A k \in DOMAIN stmt.cols : stmt.table.schema[idx(k)].type = "INTEGER"
      THEN {idx(1) - 1} ELSE {}

CreateIndexStatement(s) ==
  /\ At(s, "INDEX")
  /\ LET made(c) == CreateIndex(catalog, Statement(s).index_name, Statement(s).table.table,
                                Statement(s).table.schema, c)
     IN  \/ IndexColumn(Statement(s)) = {} /\ Throw(s)
         \/ \E c \in IndexColumn(Statement(s)) :
              /\ readers = {}
              /\ IF IsNull(made(c).info) THEN Throw(s)
                 ELSE /\ catalog' = made(c).cat
                      /\ alive' = ~made(c).dies
                      /\ Done(s, made(c).info.index_oid)
                      /\ UNCHANGED <<session_variables, readers, leaked>>

GetSessionVariable(key) ==
  IF key \in DOMAIN session_variables THEN session_variables[key] ELSE <<>>

WordYes == <<17>>
IsForceStarterRule ==
  GetSessionVariable("force_optimizer_starter_rule") \in {<<Digit(1)>>, WordTrue, WordYes}

ShowStatement(s) ==
  /\ At(s, "VARIABLE_SHOW")
  /\ Done(s, GetSessionVariable(Statement(s).variable))
  /\ UNCHANGED <<catalog, session_variables, readers, leaked, alive>>

SetStatement(s) ==
  /\ At(s, "VARIABLE_SET")
  /\ session_variables' =
       [key \in DOMAIN session_variables \union {Statement(s).variable} |->
          IF key = Statement(s).variable THEN Statement(s).value ELSE session_variables[key]]
  /\ Done(s, Nothing)
  /\ UNCHANGED <<catalog, readers, leaked, alive>>

\* The statement to plan: that inside EXPLAIN, or the statement itself
Explained(statement) == IF statement.stmt = "EXPLAIN" THEN statement.statement ELSE statement

WithPlans(s, plans) ==
  \/ plans = {} /\ Throw(s)
  \/ \E plan \in plans :
       /\ readers' = readers \union {s}
       /\ session' = [session EXCEPT ![s].pc = "optimize", ![s].plan = plan]
       /\ UNCHANGED <<catalog, session_variables, leaked, alive>>

PlanStatement(s) ==
  /\ \E pc \in {"SELECT", "INSERT", "DELETE", "UPDATE", "EXPLAIN"} : At(s, pc)
  /\ WithPlans(s, PlanQuery(catalog, Explained(Statement(s))))

WithOptimized(s, plans) ==
  \/ plans = {} /\ Throw(s)
  \/ \E plan \in plans :
       /\ readers' = readers \ {s}
       /\ session' = [session EXCEPT ![s].pc = "optimized", ![s].optimized = plan]
       /\ UNCHANGED <<catalog, session_variables, leaked, alive>>

OptimizeStatement(s) ==
  /\ At(s, "optimize")
  /\ WithOptimized(s, Optimize(catalog, IsForceStarterRule, session[s].plan))

\* EXPLAIN prints the plans; the others are executed, and the rows decoded by
\* the output schema of the plan before optimization.
WithResults(s, results) ==
  \/ results = {} /\ Throw(s)
  \/ /\ \E rows \in results :
          session' = [session EXCEPT ![s].pc = "executed", ![s].result = rows]
     /\ UNCHANGED <<catalog, session_variables, readers, leaked, alive>>

ExecuteStatement(s) ==
  /\ At(s, "optimized")
  /\ IF Statement(s).stmt = "EXPLAIN"
     THEN Done(s, Nothing) /\ UNCHANGED <<catalog, session_variables, readers, leaked, alive>>
     ELSE WithResults(s, Execute(session[s].optimized))

WriteResult(s) ==
  /\ At(s, "executed")
  /\ Done(s, session[s].result)
  /\ UNCHANGED <<catalog, session_variables, readers, leaked, alive>>

Commit(s) ==
  /\ At(s, "statement") /\ session[s].todo = <<>>
  /\ session' = [session EXCEPT ![s] = Idle(session[s].sent)]
  /\ UNCHANGED <<catalog, session_variables, readers, leaked, alive>>

Next ==
  \E s \in Sessions :
    \/ ExecuteSql(s) \/ MetaCommand(s) \/ ParseAndSave(s) \/ Bind(s)
    \/ CreateTableStatement(s) \/ CreateIndexStatement(s) \/ ShowStatement(s) \/ SetStatement(s)
    \/ PlanStatement(s) \/ OptimizeStatement(s) \/ ExecuteStatement(s) \/ WriteResult(s)
    \/ Commit(s)

Spec == Init /\ [][Next]_vars

-----------------------------------------------------------------------------
(* Properties *)

P == INSTANCE PlanSemantics
S == INSTANCE SqlMeaning

\* The parse tree of the statement a session is working on
Source(s) == LET node == Head(session[s].todo)
             IN  IF node.node = "ExplainStmt" THEN node.query ELSE node

\* Whatever statement the binder and the planner accept, the plan they make of
\* it stands for the rows that the statement means: every name is resolved to
\* its column through aliases, subqueries and WITH, every aggregation call to
\* its own column of the aggregation node (Binder::Resolve*,
\* Planner::PlanColumnRef, PlanSelectAgg).
PlanMeansStatement ==
  \A s \in Sessions :
    session[s].pc = "optimize" =>
      P!PlanMeaning(catalog, session[s].plan) = S!StatementMeaning(catalog, Source(s))

\* The indexes that a plan reads
RECURSIVE IndexesOf(_)
IndexesOf(plan) ==
  (IF plan.plan \in {"IndexScan", "NestedIndexJoin"} THEN {plan.index_oid} ELSE {})
    \union UNION {IndexesOf(plan.children[k]) : k \in DOMAIN plan.children}

\* No two rows of the table share a key, so the index has all of them.
HoldsEveryRow(index) == Len(index.entries) = Len(RowsOf(catalog, index.table_name))

\* The types and the rows of all plans are the same.
SameMeaning(plans) ==
  FS!Cardinality({<<Types(p.schema), P!PlanMeaning(catalog, p)>> : p \in plans}) = 1

\* Optimizing a plan keeps its rows, their order and the types of its columns,
\* for the plans of both pipelines and for the rules that no pipeline uses
\* yet.  An index that leaves out rows with equal keys is not as good as its
\* table, and plans that use one are not covered.
OptimizerKeepsMeaning ==
  LET rewritten(s) ==
        CASE session[s].pc = "optimize" -> OptimizeNLJAsHashJoin(session[s].plan)
                                             \union OptimizeMergeFilterScan(session[s].plan)
                                             \union OptimizeEliminateTrueFilter(session[s].plan)
          [] session[s].pc = "optimized" ->
               {p \in {session[s].optimized} :
                  \A oid \in IndexesOf(p) : HoldsEveryRow(GetIndexByOid(catalog, oid))}
          [] OTHER -> {}
  IN  \A s \in Sessions :
        session[s].pc \in {"optimize", "optimized"} => SameMeaning({session[s].plan} \union rewritten(s))

RECURSIVE Uses(_, _)
Uses(plan, kinds) == plan.plan \in kinds \/ \E k \in DOMAIN plan.children : Uses(plan.children[k], kinds)

RECURSIVE ScansShuffled(_)
ScansShuffled(plan) ==
  \/ plan.plan = "MockScan" /\ GetShuffled(plan.table)
  \/ \E k \in DOMAIN plan.children : ScansShuffled(plan.children[k])

SameRows(a, b) ==
  /\ Len(a) = Len(b)
  /\ \A k \in DOMAIN a : Len(SelectSeq(a, LAMBDA r : r = a[k])) = Len(SelectSeq(b, LAMBDA r : r = a[k]))

\* The rows that a session is given are those its plan stands for, in that
\* order unless a shuffled mock table is read: executors, optimizer and engine
\* together neither lose, add nor change a row.  The aggregation executor is
\* a stub that yields no row; plans with an aggregation are not covered.
ResultsAreMeaning ==
  \A s \in Sessions :
    session[s].pc = "executed" /\ ~Uses(session[s].plan, {"Aggregation"}) =>
      \A rows \in P!PlanMeaning(catalog, session[s].plan) :
        IF ScansShuffled(session[s].plan) THEN SameRows(session[s].result, rows)
        ELSE session[s].result = rows

\* The maps of the catalog agree whatever the sessions create and however
\* often they try: a name finds the one table that has it, numbers are handed
\* out once, every table has its map of indexes, and an index holds the first
\* row of every key of its table, in key order.
CatalogConsistent ==
  LET c == catalog
      key(index, k) == RowsOf(c, index.table_name)[k][index.key_attrs + 1].v
      indexed == UNION {{<<t, i>> : i \in DOMAIN c.index_names[t]} : t \in DOMAIN c.index_names}
  IN  /\ DOMAIN c.tables = 0..(c.next_table_oid - 1)
      /\ DOMAIN c.indexes = 0..(c.next_index_oid - 1)
      /\ DOMAIN c.index_names = DOMAIN c.table_names
      /\ \A oid \in DOMAIN c.tables :
           c.tables[oid].oid = oid /\ c.table_names[c.tables[oid].name] = oid
      /\ \A oid \in DOMAIN c.indexes :
           LET index == c.indexes[oid]
           IN  /\ <<index.table_name, index.name>> \in indexed
               /\ c.index_names[index.table_name][index.name] = oid
               /\ index.index_oid = oid
               /\ index.key_schema[1] = GetTable(c, index.table_name).schema[index.key_attrs + 1]
               /\ GetTable(c, index.table_name).heap =>
                    /\ {key(index, index.entries[k]) : k \in DOMAIN index.entries}
                         = {key(index, k) : k \in DOMAIN RowsOf(c, index.table_name)}
                    /\ \A j, k \in DOMAIN index.entries :
                         j < k => key(index, index.entries[j]) < key(index, index.entries[k])
=============================================================================
