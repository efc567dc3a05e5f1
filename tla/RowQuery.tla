------------------------------ MODULE RowQuery ------------------------------
(***************************************************************************)
(* storage/query.py and utils/pagination.py as operators on a sequence of  *)
(* rows: Query.execute filters, sorts by one key after the other, cuts out *)
(* a page and projects it; aggregate groups the rows; paginate cuts a list *)
(* into numbered pages.                                                    *)
(*                                                                         *)
(* A row is a record; a path that leads nowhere is a field whose value is  *)
(* Missing.  The values of one field are natural numbers: texts and dates  *)
(* count by their order, and a field mixes no types.                       *)
(***************************************************************************)
EXTENDS Naturals, SequencesExt, Sorting

CONSTANT Missing        \* what resolve returns for a path that leads nowhere

ASSUME MissingAssumption == Missing \notin Nat

Resolve(row, path) == IF path \in DOMAIN row THEN row[path] ELSE Missing

(***************************************************************************)
(* A query: predicates that must all hold, sort keys, offset and limit.    *)
(* Each predicate is an interval of one field (Equals when both ends are   *)
(* the same, Between), or Exists, and may be negated.                      *)
(***************************************************************************)
Between(row, path, minimum, maximum) ==
    LET value == Resolve(row, path)
    IN  /\ value # Missing
        /\ minimum # Missing => value >= minimum
        /\ maximum # Missing => value <= maximum

Exists(row, path) == Resolve(row, path) # Missing

PredicateHolds(p, row) ==
    p.negate # (IF p.kind = "between" THEN Between(row, p.path, p.minimum, p.maximum)
                                      ELSE Exists(row, p.path))

\* The rows at some places, in the order of before, a relation of the places.  (TLC
\* computes what is concatenated once, and a function again at each application.)
RowsAt(rows, places, before) ==
    LET order == InOrder(places, before)
    IN  <<>> \o [n \in DOMAIN order |-> rows[order[n]]]

InputOrder(rows) == {ij \in (DOMAIN rows) \X (DOMAIN rows) : ij[1] < ij[2]}

Matched(query, rows) ==
    RowsAt(rows, {i \in DOMAIN rows : \A p \in query.predicates : PredicateHolds(p, rows[i])},
           InputOrder(rows))

\* _sortable: the bucket and the type name put a missing value after all others,
\* or before them.
SortBefore(key, a, b) ==
    LET x == Resolve(a, key.path)
        y == Resolve(b, key.path)
    IN  \/ x = Missing /\ y # Missing /\ ~key.missing_last
        \/ x # Missing /\ y = Missing /\ key.missing_last
        \/ x # Missing /\ y # Missing /\ x < y

KeyBefore(key, a, b) == IF key.descending THEN SortBefore(key, b, a) ELSE SortBefore(key, a, b)
Tied(key, a, b) == ~KeyBefore(key, a, b) /\ ~KeyBefore(key, b, a)

\* list.sort(key, reverse): stable in both directions.
SortOrder(key, rows) ==
    {ij \in (DOMAIN rows) \X (DOMAIN rows) :
        \/ KeyBefore(key, rows[ij[1]], rows[ij[2]])
        \/ ij[1] < ij[2] /\ ~KeyBefore(key, rows[ij[2]], rows[ij[1]])}
SortedBy(key, rows) == RowsAt(rows, DOMAIN rows, SortOrder(key, rows))

\* Mutant: stable sorts from the first key to the last.
SortedForward(keys, rows) ==
    LET after[n \in 0..Len(keys)] ==
            IF n = 0 THEN rows ELSE SortedBy(keys[n], after[n - 1])
    IN  after[Len(keys)]

\* Stable sorts from the last key to the first.
Sorted(keys, rows) ==
    LET after[n \in 0..Len(keys)] ==
            IF n = 0 THEN rows ELSE SortedBy(keys[Len(keys) + 1 - n], after[n - 1])
    IN  after[Len(keys)]

Execute(query, rows) ==
    LET sorted == Sorted(query.sort_keys, Matched(query, rows))
        stop == IF query.limit = Missing THEN Len(sorted)
                ELSE Min({Len(sorted), query.offset + query.limit})
    IN  [rows |-> SubSeq(sorted, query.offset + 1, stop), total |-> Len(sorted)]

HasMore(query, result) ==
    query.limit # Missing /\ query.offset + Len(result.rows) < result.total

(***************************************************************************)
(* aggregate: one row for each value of the group field.                   *)
(***************************************************************************)
Aggregate(rows, group_by, value_path) ==
    LET keys == {Resolve(rows[i], group_by) : i \in DOMAIN rows}
        group(key) == {i \in DOMAIN rows : Resolve(rows[i], group_by) = key}
        valued(key) == {i \in group(key) : Exists(rows[i], value_path)}
        values(key) == {rows[i][value_path] : i \in valued(key)}
    IN  {[key |-> key,
          count |-> Cardinality(group(key)),
          total |-> SumFunctionOnSet([i \in valued(key) |-> rows[i][value_path]], valued(key)),
          minimum |-> IF valued(key) = {} THEN Missing ELSE Min(values(key)),
          maximum |-> IF valued(key) = {} THEN Missing ELSE Max(values(key))] :
         key \in keys}

(***************************************************************************)
(* paginate: pages are numbered from 1.                                    *)
(***************************************************************************)
PageCount(total, page_size) == (total + page_size - 1) \div page_size

Paginate(items, page, page_size) ==
    LET start == (page - 1) * page_size
    IN  [items |-> SubSeq(items, start + 1, Min({Len(items), start + page_size})),
         has_next |-> page < PageCount(Len(items), page_size)]

-----------------------------------------------------------------------------
\* What a query promises, in one sort: row i of the input stands before row j if the
\* first key that tells them apart says so, or none does and i comes first.
StandsBefore(keys, rows, i, j) ==
    \/ \E k \in DOMAIN keys :
          /\ KeyBefore(keys[k], rows[i], rows[j])
          /\ \A l \in 1..(k - 1) : Tied(keys[l], rows[i], rows[j])
    \/ i < j /\ \A k \in DOMAIN keys : Tied(keys[k], rows[i], rows[j])

QueryReference(query, rows) ==
    LET matched == Matched(query, rows)
    IN  RowsAt(matched, DOMAIN matched,
               {ij \in (DOMAIN matched) \X (DOMAIN matched) :
                   StandsBefore(query.sort_keys, matched, ij[1], ij[2])})

Pages(Page(_), count) == <<>> \o [p \in 1..count |-> Page(p)]
=============================================================================
