----------------------------- MODULE Relations ------------------------------
(***************************************************************************)
(* Relational algebra on sequences of rows, the vocabulary in which both    *)
(* the meaning of a plan (PlanSemantics) and the meaning of a SQL statement *)
(* (SqlMeaning) are stated.  Every operation has one canonical order: joins *)
(* are left-major, groups come in the order of their first row, sorting is  *)
(* stable; so two meanings can be compared as sequences.                    *)
(***************************************************************************)
EXTENDS Expressions

LOCAL SE == INSTANCE SequencesExt
LOCAL FE == INSTANCE FiniteSetsExt

\* The members of s at some positions, and those whose flag is a true value
Picked(s, positions) == [k \in DOMAIN positions |-> s[positions[k]]]

Kept(s, flags) ==
  Picked(s, SelectSeq([k \in 1..Len(s) |-> k], LAMBDA k : IsTrue(flags[k])))

NullRow(types) == [k \in DOMAIN types |-> GetNullValueByType(types[k])]

\* The rows of a join; flags[i][j] says whether left[i] and right[j] match.
Joined(join_type, left, right, flags, left_types, right_types) ==
  LET hits(i) == SelectSeq([j \in 1..Len(right) |-> j], LAMBDA j : IsTrue(flags[i][j]))
      padded(i) == IF hits(i) = <<>> /\ join_type \in {"LEFT", "OUTER"}
                   THEN <<left[i] \o NullRow(right_types)>>
                   ELSE [k \in 1..Len(hits(i)) |-> left[i] \o right[hits(i)[k]]]
      lonely == SelectSeq([j \in 1..Len(right) |-> j],
                          LAMBDA j : \A i \in 1..Len(left) : ~IsTrue(flags[i][j]))
  IN  SE!FlattenSeq([i \in 1..Len(left) |-> padded(i)])
        \o (IF join_type \in {"RIGHT", "OUTER"}
            THEN [k \in 1..Len(lonely) |-> NullRow(left_types) \o right[lonely[k]]]
            ELSE <<>>)

\* AggregateKey::operator==: a NULL equals nothing, not even a NULL.
SameKey(a, b) == \A k \in DOMAIN a : Compare("=", a[k], b[k]) = "CmpTrue"

\* The groups of rows with equal keys, as sequences of positions; a group
\* begins at a position that no earlier one shares its key with.
Firsts(keys) ==
  SelectSeq([k \in 1..Len(keys) |-> k],
            LAMBDA k : \A j \in 1..(k - 1) : ~SameKey(keys[j], keys[k]))

GroupsFrom(firsts, keys) ==
  [g \in 1..Len(firsts) |->
     SelectSeq([k \in 1..Len(keys) |-> k],
               LAMBDA k : k = firsts[g] \/ SameKey(keys[firsts[g]], keys[k]))]

Groups(keys) == GroupsFrom(Firsts(keys), keys)

\* What an aggregate of values is: the initial values of aggregation_executor.h
\* (0 for count(*), NULL for the others), NULL arguments ignored.
Aggregated(agg_type, values) ==
  LET present == SelectSeq(values, LAMBDA v : ~v.null)
      better(a, b) == IF Compare(IF agg_type = "min" THEN "<" ELSE ">", a, b) = "CmpTrue"
                      THEN a ELSE b
  IN  CASE agg_type = "count_star" -> Value("INTEGER", Len(values))
        [] present = <<>> -> GetNullValueByType("INTEGER")
        [] agg_type = "count" -> Value("INTEGER", Len(present))
        [] agg_type = "sum" ->
             SE!FoldLeft(LAMBDA acc, v : Value("INTEGER", acc.v + v.v),
                         Value("INTEGER", 0), present)
        [] OTHER -> SE!FoldLeft(better, Head(present), present)

\* Whether key list a sorts strictly before b; orders[k] is the k-th direction.
Before(a, b, orders) ==
  \E k \in DOMAIN orders :
    /\ \A j \in 1..(k - 1) : Compare("=", a[j], b[j]) = "CmpTrue"
    /\ Compare(IF orders[k] = "DESC" THEN ">" ELSE "<", a[k], b[k]) = "CmpTrue"

\* The positions of keys in sorted order: insertion after every key that does
\* not sort strictly later, so equal keys keep their order.
SortedPositions(keys, orders) ==
  LET insert(sorted, k) ==
        SE!InsertAt(sorted, FE!Min({Len(sorted) + 1} \union
                              {i \in DOMAIN sorted : Before(keys[k], keys[sorted[i]], orders)}), k)
  IN  SE!FoldLeft(insert, <<>>, [k \in 1..Len(keys) |-> k])

\* LIMIT n; a negative or NULL count, read as a size_t, is no limit.
Limited(s, n) == IF n < 0 \/ n >= Len(s) THEN s ELSE SubSeq(s, 1, n)
=============================================================================
