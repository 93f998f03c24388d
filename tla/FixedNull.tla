----------------------------- MODULE FixedNull -----------------------------
(***************************************************************************)
(* The nullable fixed-width scalar encoding of the read buffer,            *)
(* src/read_buffer/src/column/encoding/scalar/fixed_null.rs.               *)
(*                                                                         *)
(* The Arrow array is a function from row ids 0..n-1 to physical values or *)
(* Null.  Each ScalarEncoding method is an operator that follows the       *)
(* code's loop (the found/count run collection of the row_ids_* scans, the *)
(* chunks of four in sum, the Option comparison in min and max); the state *)
(* machine calls any method with any arguments on any array, and the       *)
(* invariants compare the result with a reference definition of what the   *)
(* method computes.  A transcoder decodes physical values to logical ones  *)
(* (Decode) and encodes a logical comparison value when it fits           *)
(* (Encodable); the transcoders are not in this repository.                *)
(***************************************************************************)
EXTENDS Integers, Sequences, SequencesExt, FiniteSets

CONSTANTS
    Vals,        \* physical values an array may hold (integers)
    MaxRows,     \* bound on the length of an array
    Decode,      \* Transcoder::decode, a function on Vals
    Encodable,   \* logical values encode_comparable maps to a physical value
    Logical,     \* logical comparison values a predicate may carry
    Null,        \* a NULL slot of the array (a model value)
    NoneV        \* Option::None (a model value)

Cells == Vals \cup {Null}
Arrays == UNION {[0 .. (n - 1) -> Cells] : n \in 0 .. MaxRows}

\* Row-id bitmaps (RowIDs) are sets of row ids; add_range(min, max) adds
\* the half-open range.
AddRange_inclusive(dst, lo, hi) == dst \cup (lo .. hi)

AddRange(dst, lo, hi) == dst \cup (lo .. (hi - 1))

Ops == {"=", "!=", ">", ">=", "<", "<="}
OrderOps == {">", ">=", "<", "<="}

VARIABLES
    arr,         \* FixedNull.arr
    call,        \* the method last called and its arguments
    out          \* what it returned

vars == <<arr, call, out>>

NumRows(a) == Cardinality(DOMAIN a)
IsNull(a, i) == a[i] = Null
NullCount(a) == Cardinality({i \in DOMAIN a : IsNull(a, i)})

-----------------------------------------------------------------------------
(* The scans of row_ids_equal, row_ids_cmp_order, row_ids_cmp_range_order  *)
(* and all_non_null_row_ids: walk rows 0..n-1, count a run of matching     *)
(* rows, add the run when a non-matching row ends it, and add any run      *)
(* still open at the end.  M holds the rows for which the code's "no"     *)
(* condition (a NULL or a failed comparison) is false.                     *)

RECURSIVE CollectRuns_noReset(_, _, _, _, _, _)
CollectRuns_noReset(n, M, i, found, count, dst) ==
    IF i = n THEN IF found THEN AddRange(dst, n - count, n) ELSE dst
    ELSE IF i \notin M /\ found
         THEN CollectRuns_noReset(n, M, i + 1, FALSE, count, AddRange(dst, i - count, i))
         ELSE IF i \notin M THEN CollectRuns_noReset(n, M, i + 1, found, count, dst)
         ELSE CollectRuns_noReset(n, M, i + 1, TRUE, count + 1, dst)

RECURSIVE CollectRuns(_, _, _, _, _, _)
CollectRuns(n, M, i, found, count, dst) ==
    IF i = n THEN IF found THEN AddRange(dst, n - count, n) ELSE dst
    ELSE IF i \notin M /\ found
         THEN CollectRuns(n, M, i + 1, FALSE, 0, AddRange(dst, i - count, i))
         ELSE IF i \notin M THEN CollectRuns(n, M, i + 1, found, count, dst)
         ELSE CollectRuns(n, M, i + 1, TRUE, count + 1, dst)

Scan(a, M) == CollectRuns(NumRows(a), M, 0, FALSE, 0, {})

\* ord_from_op: the two orderings either of which satisfies the operator.
OrdFromOp(op) ==
    CASE op = ">"  -> {"Greater"}
      [] op = ">=" -> {"Greater", "Equal"}
      [] op = "<"  -> {"Less"}
      [] op = "<=" -> {"Less", "Equal"}

PartialCmp(x, y) == IF x < y THEN "Less" ELSE IF x = y THEN "Equal" ELSE "Greater"

RowIdsEqual(a, v, op) ==
    LET desired == (op = "=")
    IN Scan(a, {i \in DOMAIN a : ~IsNull(a, i) /\ (a[i] = v) = desired})

RowIdsCmpOrder(a, v, ords) ==
    Scan(a, {i \in DOMAIN a : ~IsNull(a, i) /\ PartialCmp(a[i], v) \in ords})

RowIdsCmpRangeOrder(a, l, lords, r, rords) ==
    Scan(a, {i \in DOMAIN a : /\ ~IsNull(a, i)
                              /\ PartialCmp(a[i], l) \in lords
                              /\ PartialCmp(a[i], r) \in rords})

AllNonNullRowIds(a) ==
    IF NullCount(a) = 0 THEN AddRange({}, 0, NumRows(a))
    ELSE Scan(a, {i \in DOMAIN a : ~IsNull(a, i)})

\* row_ids_filter: encode the value, or answer == and != of an unencodable
\* value directly; dispatch ordering operators to the ordered scan.
RowIdsFilter(a, v, op) ==
    IF v \notin Encodable
    THEN IF op = "=" THEN {} ELSE AllNonNullRowIds(a)
    ELSE IF op \in OrderOps THEN RowIdsCmpOrder(a, v, OrdFromOp(op))
    ELSE RowIdsEqual(a, v, op)

\* row_ids_filter_range: one lower and one upper bound, in either order.
RowIdsFilterRange(a, l, lop, r, rop) ==
    RowIdsCmpRangeOrder(a, l, OrdFromOp(lop), r, OrdFromOp(rop))
-----------------------------------------------------------------------------
(* Aggregates over a sequence of row ids (&[u32]).                          *)

Value(a, id) == IF IsNull(a, id) THEN NoneV ELSE Decode[a[id]]

\* values: one Option per row id, in the order given.
Values(a, ids) == [k \in DOMAIN ids |-> Value(a, ids[k])]

\* count: the row ids' length when there is no null, else the non-null ones.
Count(a, ids) ==
    IF NullCount(a) = 0 THEN Len(ids)
    ELSE Cardinality({k \in DOMAIN ids : ~IsNull(a, ids[k])})

AddDecoded(a, acc, id) == acc + Decode[a[id]]

\* sum without nulls: chunks_exact(4), each chunk added from its fourth
\* row id down to its first, then the remaining len % 4 row ids in order.
SumChunk(a, acc, ids, k) ==
    acc + Decode[a[ids[4*k + 4]]] + Decode[a[ids[4*k + 3]]]
        + Decode[a[ids[4*k + 2]]] + Decode[a[ids[4*k + 1]]]

SumNoNulls_dropLast(a, ids) ==
    LET full == Len(ids) - (Len(ids) % 4)
        chunks == FoldLeft(LAMBDA acc, k : SumChunk(a, acc, ids, k), 0,
                           [j \in 1 .. (full \div 4) |-> j - 1])
    IN FoldLeft(LAMBDA acc, id : AddDecoded(a, acc, id), chunks,
                SubSeq(ids, full + 1, Len(ids) - 1))

SumNoNulls(a, ids) ==
    LET full == Len(ids) - (Len(ids) % 4)
        chunks == FoldLeft(LAMBDA acc, k : SumChunk(a, acc, ids, k), 0,
                           [j \in 1 .. (full \div 4) |-> j - 1])
    IN FoldLeft(LAMBDA acc, id : AddDecoded(a, acc, id), chunks,
                SubSeq(ids, full + 1, Len(ids)))

\* sum: with nulls, skip them, and return None when every row was null.
Sum(a, ids) ==
    IF NullCount(a) = 0 THEN SumNoNulls(a, ids)
    ELSE LET nonNull == SelectSeq(ids, LAMBDA id : ~IsNull(a, id))
         IN IF nonNull = <<>> THEN NoneV
            ELSE FoldLeft(LAMBDA acc, id : AddDecoded(a, acc, id), 0, nonNull)

\* Rust's Option order: None is less than every Some.
OptLt(x, y) == (x = NoneV /\ y # NoneV) \/ (x # NoneV /\ y # NoneV /\ x < y)

Phys(a, id) == IF IsNull(a, id) THEN NoneV ELSE a[id]

\* min: start from row_ids[0] (None when that row is null) and replace the
\* running minimum by each later non-null value that is less than it.
MinValue(a, ids) ==
    LET m == FoldLeft(LAMBDA acc, id :
                         IF ~IsNull(a, id) /\ OptLt(a[id], acc) THEN a[id] ELSE acc,
                     Phys(a, ids[1]), Tail(ids))
    IN IF m = NoneV THEN NoneV ELSE Decode[m]

\* max: the same with "greater than"; every Some is greater than None.
MaxValue_strict(a, ids) ==
    LET m == FoldLeft(LAMBDA acc, id :
                         IF ~IsNull(a, id) /\ acc # NoneV /\ OptLt(acc, a[id]) THEN a[id] ELSE acc,
                     Phys(a, ids[1]), Tail(ids))
    IN IF m = NoneV THEN NoneV ELSE Decode[m]

MaxValue(a, ids) ==
    LET m == FoldLeft(LAMBDA acc, id :
                         IF ~IsNull(a, id) /\ OptLt(acc, a[id]) THEN a[id] ELSE acc,
                     Phys(a, ids[1]), Tail(ids))
    IN IF m = NoneV THEN NoneV ELSE Decode[m]

\* has_non_null_value: true outright when there are rows and no nulls.
HasNonNullValue(a, ids) ==
    IF NullCount(a) = 0 /\ NumRows(a) > 0 THEN TRUE
    ELSE \E k \in DOMAIN ids : ~IsNull(a, ids[k])

HasAnyNonNullValue(a) == NullCount(a) < NumRows(a)
-----------------------------------------------------------------------------
(* Callers: any method, with any arguments the code accepts, on the array. *)

\* Row ids as callers pass them: the sorted ids of a RowIDs bitmap.
RowIdSeqs(a) == {SetToSortSeq(S, <) : S \in SUBSET DOMAIN a}

Init ==
    /\ arr \in Arrays
    /\ call = [m |-> "none"]
    /\ out = NoneV

\* row_ids_filter; an unencodable value only with == or != (the transcoder
\* returns None for no other operator).
CallRowIdsFilter ==
    \E v \in Logical, op \in Ops :
        /\ v \in Encodable \/ op \in {"=", "!="}
        /\ call' = [m |-> "row_ids_filter", v |-> v, op |-> op]
        /\ out' = RowIdsFilter(arr, v, op)
        /\ UNCHANGED arr

\* row_ids_filter_range with a lower and an upper bound, either way round.
CallRowIdsFilterRange ==
    \E l \in Encodable, r \in Encodable, lop \in OrderOps, rop \in OrderOps :
        /\ {lop, rop} \cap {">", ">="} # {}
        /\ {lop, rop} \cap {"<", "<="} # {}
        /\ call' = [m |-> "row_ids_filter_range", l |-> l, lop |-> lop, r |-> r, rop |-> rop]
        /\ out' = RowIdsFilterRange(arr, l, lop, r, rop)
        /\ UNCHANGED arr

CallAggregate ==
    \E ids \in RowIdSeqs(arr) :
        \/ /\ call' = [m |-> "count", ids |-> ids]
           /\ out' = Count(arr, ids)
        \/ /\ call' = [m |-> "sum", ids |-> ids]
           /\ out' = Sum(arr, ids)
        \/ /\ call' = [m |-> "values", ids |-> ids]
           /\ out' = Values(arr, ids)
        \/ /\ call' = [m |-> "has_non_null_value", ids |-> ids]
           /\ out' = HasNonNullValue(arr, ids)
        \/ /\ ids # <<>>      \* min and max index row_ids[0]
           /\ \/ /\ call' = [m |-> "min", ids |-> ids]
                 /\ out' = MinValue(arr, ids)
              \/ /\ call' = [m |-> "max", ids |-> ids]
                 /\ out' = MaxValue(arr, ids)
    /\ UNCHANGED arr

Next == CallRowIdsFilter \/ CallRowIdsFilterRange \/ CallAggregate

Spec == Init /\ [][Next]_vars

-----------------------------------------------------------------------------
(* Reference definitions and properties                                    *)

Satisfies(x, v, op) ==
    CASE op = "="  -> x = v
      [] op = "!=" -> x # v
      [] op = ">"  -> x > v
      [] op = ">=" -> x >= v
      [] op = "<"  -> x < v
      [] op = "<=" -> x <= v

\* The rows whose logical value satisfies every (value, operator) pair;
\* a NULL satisfies no comparison.
RefRows(a, preds) ==
    {i \in DOMAIN a : ~IsNull(a, i) /\ \A p \in preds : Satisfies(Decode[a[i]], p[1], p[2])}

NonNullDecoded(a, ids) == {Decode[a[ids[k]]] : k \in {j \in DOMAIN ids : ~IsNull(a, ids[j])}}

TypeOK ==
    /\ arr \in Arrays
    /\ call.m \in {"none", "row_ids_filter", "row_ids_filter_range", "count", "sum",
                   "values", "has_non_null_value", "min", "max"}
    /\ call.m \in {"row_ids_filter", "row_ids_filter_range"} => out \subseteq DOMAIN arr

(* row_ids_filter and row_ids_filter_range return exactly the non-null rows *)
(* whose value satisfies the predicate: the run collection of the scans    *)
(* neither drops a row at the boundary of a run or at the end of the array *)
(* nor adds one, and an unencodable value matches nothing under == and     *)
(* every non-null row under !=.                                            *)
ScansMatchReference ==
    /\ call.m = "row_ids_filter" => out = RefRows(arr, {<<call.v, call.op>>})
    /\ call.m = "row_ids_filter_range" =>
          out = RefRows(arr, {<<call.l, call.lop>>, <<call.r, call.rop>>})

(* count, sum, values and has_non_null_value agree with their definitions  *)
(* over the given row ids: the no-null fast paths (the chunks of four in   *)
(* sum, the length in count) give what the null-aware paths would, and a  *)
(* sum over only NULL rows is None.  sum and has_non_null_value are asked  *)
(* of at least one row id (see the hazards for the empty case).            *)
AggregatesMatchReference ==
    /\ call.m = "count" => out = Cardinality({k \in DOMAIN call.ids : ~IsNull(arr, call.ids[k])})
    /\ (call.m = "sum" /\ call.ids # <<>>) =>
          out = IF NonNullDecoded(arr, call.ids) = {} THEN NoneV
                ELSE FoldLeft(LAMBDA acc, id : acc + (IF IsNull(arr, id) THEN 0
                                                      ELSE Decode[arr[id]]), 0, call.ids)
    /\ call.m = "values" =>
          /\ Len(out) = Len(call.ids)
          /\ \A k \in DOMAIN out : out[k] = IF IsNull(arr, call.ids[k]) THEN NoneV
                                           ELSE Decode[arr[call.ids[k]]]
    /\ (call.m = "has_non_null_value" /\ call.ids # <<>>) =>
          out = (\E k \in DOMAIN call.ids : ~IsNull(arr, call.ids[k]))

(* max returns the greatest logical value among the non-null rows of the   *)
(* row ids, and None only when all of them are NULL.                       *)
MaxIsMaximumNonNull ==
    call.m = "max" =>
        out = IF NonNullDecoded(arr, call.ids) = {} THEN NoneV
              ELSE Max(NonNullDecoded(arr, call.ids))

(* min returns the least logical value among the non-null rows of the row  *)
(* ids, and None only when all of them are NULL (the "find the minimum    *)
(* physical value" of the code, the counterpart of max).                   *)
MinIsMinimumNonNull ==
    call.m = "min" =>
        out = IF NonNullDecoded(arr, call.ids) = {} THEN NoneV
              ELSE Min(NonNullDecoded(arr, call.ids))
====
