----------------------------- MODULE Executors ------------------------------
(***************************************************************************)
(* The executors and the engine that polls them (execution/,                *)
(* include/execution/).  Executors pull rows one at a time from their       *)
(* children and keep no other state than a cursor, so what an executor      *)
(* yields is a function of what its children yield: the set of row          *)
(* sequences it may yield, empty when its constructor, Init or Next throws. *)
(***************************************************************************)
EXTENDS Catalog

LOCAL SE == INSTANCE SequencesExt

\* The executors that are written; Init of every other one throws, except that
\* the aggregation's does nothing and its Next is always exhausted.
Unwritten == {"SeqScan", "IndexScan", "Insert", "Update", "Delete", "Limit", "NestedLoopJoin",
              "NestedIndexJoin", "HashJoin", "Sort", "TopN"}

\* ExecutorFactory::CreateExecutor builds the executors of all children first;
\* the constructors of the joins throw for the join types they do not support.
RECURSIVE CreateExecutor(_)
CreateExecutor(plan) ==
  /\ \A k \in DOMAIN plan.children : CreateExecutor(plan.children[k])
  /\ plan.plan \in {"NestedLoopJoin", "NestedIndexJoin"} => plan.join_type \in {"LEFT", "INNER"}

\* The constructor draws the order of a shuffled table; Next walks the cursor
\* to the end.
MockScanNext(table) ==
  LET orders == IF GetShuffled(table) THEN SE!SetToSeqs(1..GetSizeOf(table))
                ELSE {[k \in 1..GetSizeOf(table) |-> k]}
  IN  {[k \in DOMAIN o |-> GetFunctionOf(table, o[k] - 1)] : o \in orders}

ValuesNext(plan) ==
  Every([r \in DOMAIN plan.values |->
           Every([k \in DOMAIN plan.values[r] |-> Evaluate(plan.values[r][k], <<>>)])])

\* Mutant: the filter looks at the value only, and NULL reads as true.
FilterNextKeepsNull(plan, rows) ==
  {LET kept == SelectSeq([k \in DOMAIN rows |-> k], LAMBDA k : values[k].v # 0)
   IN  [k \in DOMAIN kept |-> rows[kept[k]]] :
     values \in Every([k \in DOMAIN rows |-> Evaluate(plan.predicate, rows[k])])}

FilterNext(plan, rows) ==
  {LET kept == SelectSeq([k \in DOMAIN rows |-> k],
                         LAMBDA k : ~values[k].null /\ values[k].v # 0)
   IN  [k \in DOMAIN kept |-> rows[kept[k]]] :
     values \in Every([k \in DOMAIN rows |-> Evaluate(plan.predicate, rows[k])])}

ProjectionNext(plan, rows) ==
  Every([r \in DOMAIN rows |->
           Every([k \in DOMAIN plan.expressions |-> Evaluate(plan.expressions[k], rows[r])])])

AggregationNext == {<<>>}

\* PollExecutor
RECURSIVE PollExecutor(_)
PollExecutor(plan) ==
  CASE plan.plan = "MockScan" -> MockScanNext(plan.table)
    [] plan.plan = "Values" -> ValuesNext(plan)
    [] plan.plan = "Filter" ->
         UNION {FilterNext(plan, rows) : rows \in PollExecutor(plan.children[1])}
    [] plan.plan = "Projection" ->
         UNION {ProjectionNext(plan, rows) : rows \in PollExecutor(plan.children[1])}
    [] plan.plan = "Aggregation" -> AggregationNext
    [] plan.plan \in Unwritten -> {}

\* ExecutionEngine::Execute.  It catches ExecutionException only, and nothing
\* below it throws one: every exception goes through to the caller.
Execute(plan) == IF CreateExecutor(plan) THEN PollExecutor(plan) ELSE {}
=============================================================================
