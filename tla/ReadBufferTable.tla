-------------------------- MODULE ReadBufferTable --------------------------
(***************************************************************************)
(* A read-buffer table, src/read_buffer/src/table.rs: its row groups and   *)
(* the table MetaData kept beside them under the RwLock.                   *)
(*                                                                         *)
(* add_row_group merges the new row group into the meta-data              *)
(* (MetaData::update_with); drop_row_group removes one and rebuilds the    *)
(* meta-data from the row groups that remain (From<&[Arc<RowGroup>]>).     *)
(* The reads clone the meta-data and the row groups together under one    *)
(* read lock, validate the predicate against the meta-data, prune the row  *)
(* groups whose column ranges rule the predicate out and hand the rest to  *)
(* row_group.rs.  add_row_group and drop_row_group take &mut self, so no   *)
(* read runs beside them: every operation is one atomic step.              *)
(*                                                                         *)
(* row_group.rs is not in this repository.  What the reads need of it is  *)
(* stated in the RowGroup operators below from its documented contract: a *)
(* row group's rows are its set of timestamps, a predicate is a           *)
(* conjunction of comparisons on a column, a row is deleted when it       *)
(* satisfies every expression of a negated predicate, and pruning looks   *)
(* only at the column range.                                               *)
(*                                                                         *)
(* A row group is a record of its row count, size, time-column range and  *)
(* the distinct count of that column; all row groups of a table share one  *)
(* schema (the write path guarantees it, table.rs 48-50), so the assert   *)
(* of update_with never fires and the schema is left out.                 *)
(***************************************************************************)
EXTENDS Integers, Sequences, SequencesExt, FiniteSets

CONSTANTS
    RowGroups,      \* the row groups the write path may hand in
    MaxRowGroups,   \* bound on the number of row groups of the table
    NoDistinct,     \* distinct_count = None (a model value)
    Columns,        \* the table schema: column name -> logical data type
    Preds,          \* predicates the reads are called with (sets of exprs)
    DeletePreds,    \* negated predicates (deletes) the reads are called with
    NoRead,         \* no read has been made yet (a model value)
    ReadError,      \* the Err(..) of a read (a model value)
    TagColumns,     \* the columns of ColumnType::Tag
    AllColumns,     \* Selection::All (a model value)
    GroupSelections,\* group-column selections read_aggregate is called with
    AggregateSets,  \* sets of [col, agg] aggregates read_aggregate is called with
    ValueColumns,   \* column lists column_values is called with
    NoBatch         \* ReadAggregateResults yields no batch (a model value)

VARIABLES
    data,           \* RowGroupData.data: Vec<Arc<RowGroup>>
    meta,           \* RowGroupData.meta: Arc<MetaData>
    last,           \* the result of the last add or drop
    read            \* the call and result of the last read since the table
                    \* last changed (an observation, cleared by add and drop)

vars == <<data, meta, last, read>>

-----------------------------------------------------------------------------
(* MetaData                                                                *)

\* MetaData::new: the row group's own size, rows and column meta-data.
NewMeta(rg) ==
    [rgsSize |-> rg.size, rows |-> rg.rows, lo |-> rg.lo, hi |-> rg.hi,
     distinct |-> rg.distinct]

MinOf(a, b) == IF a < b THEN a ELSE b
MaxOf(a, b) == IF a > b THEN a ELSE b

UpdateWith_keepDistinct(this, rg) ==
    [rgsSize |-> this.rgsSize + rg.size, rows |-> this.rows + rg.rows,
     lo |-> MinOf(this.lo, rg.lo), hi |-> MaxOf(this.hi, rg.hi),
     distinct |-> this.distinct]

\* MetaData::update_with for a subsequent row group: add size and rows,
\* widen each column's range, and forget the distinct count (there is no
\* way to combine it across row groups).
UpdateWith(this, rg) ==
    [rgsSize |-> this.rgsSize + rg.size, rows |-> this.rows + rg.rows,
     lo |-> MinOf(this.lo, rg.lo), hi |-> MaxOf(this.hi, rg.hi),
     distinct |-> NoDistinct]

\* From<&[Arc<RowGroup>]>: new from the first, update_with the others.
MetaFrom(rgs) == FoldLeft(UpdateWith, NewMeta(rgs[1]), Tail(rgs))

\* Table::time_range: the range of the table's single timestamp column.
TimeRange == <<meta.lo, meta.hi>>

\* MetaData::schema_for_column_names (and schema_for_all_columns for
\* Selection::All): the requested columns the table has.
SchemaFor(sel) == IF sel = AllColumns THEN DOMAIN Columns ELSE sel \cap DOMAIN Columns

\* MetaData::schema_for_aggregate_column_names: aggregates on columns the
\* table lacks are dropped.
AggregateSchema(aggs) == {a \in aggs : a.col \in DOMAIN Columns}

-----------------------------------------------------------------------------
(* Table                                                                   *)

\* Table::with_row_group: a table never starts empty.
Init ==
    \E rg \in RowGroups :
        /\ data = <<rg>>
        /\ meta = NewMeta(rg)
        /\ last = "ok"
    /\ read = NoRead

AddRowGroup(rg) ==
    /\ Len(data) < MaxRowGroups
    /\ meta' = UpdateWith(meta, rg)
    /\ data' = Append(data, rg)
    /\ last' = "ok"
    /\ read' = NoRead

DropRowGroup_noEnsure(pos) ==
    \/ /\ pos >= Len(data)
       /\ last' = "panic"
       /\ UNCHANGED <<data, meta>>
    \/ /\ pos < Len(data)
       /\ data' = RemoveAt(data, pos + 1)
       /\ IF Len(data) > 1
          THEN meta' = MetaFrom(RemoveAt(data, pos + 1)) /\ last' = "ok"
          ELSE UNCHANGED meta /\ last' = "panic"

DropRowGroup_noRebuild(pos) ==
    \/ /\ Len(data) <= 1
       /\ last' = "EmptyTable"
       /\ UNCHANGED <<data, meta>>
    \/ /\ Len(data) > 1
       /\ pos >= Len(data)
       /\ last' = "panic"
       /\ UNCHANGED <<data, meta>>
    \/ /\ Len(data) > 1
       /\ pos < Len(data)
       /\ data' = RemoveAt(data, pos + 1)
       /\ last' = "ok"
       /\ UNCHANGED meta

\* drop_row_group (position is a 0-based usize): EmptyTable when only one
\* row group is left; Vec::remove panics on a position past the end (parking_lot's lock is not poisoned
\* and nothing was changed yet); otherwise remove and rebuild the meta.
DropRowGroup(pos) ==
    \/ /\ Len(data) <= 1
       /\ last' = "EmptyTable"
       /\ UNCHANGED <<data, meta>>
    \/ /\ Len(data) > 1
       /\ pos >= Len(data)
       /\ last' = "panic"
       /\ UNCHANGED <<data, meta>>
    \/ /\ Len(data) > 1
       /\ pos < Len(data)
       /\ data' = RemoveAt(data, pos + 1)
       /\ meta' = MetaFrom(RemoveAt(data, pos + 1))
       /\ last' = "ok"

-----------------------------------------------------------------------------
(* What the reads need of row_group.rs (not in this repository)            *)

\* One comparison `column op literal`: expr.column(), expr.literal().
Holds(e, t) == IF e.op = ">=" THEN t >= e.v ELSE t < e.v
RowMatches(t, p) == \A e \in p : Holds(e, t)

\* could_satisfy_conjunctive_binary_expressions: only the column range
\* [lo, hi] is consulted, so it may say yes for a row group with no match.
RgCouldSatisfy(rg, p) ==
    \A e \in p : IF e.op = ">=" THEN rg.hi >= e.v ELSE rg.lo < e.v

\* RowGroup::read_filter: the rows satisfying the predicate that no negated
\* predicate (a delete) removes.
RgReadFilter(rg, p, negs) ==
    {t \in rg.times : RowMatches(t, p) /\ \A n \in negs : ~RowMatches(t, n)}

RgSatisfies(rg, p) == \E t \in rg.times : RowMatches(t, p)

\* RowGroup::read_aggregate without group columns: count and sum of the
\* column over the rows satisfying the predicate (the only column is time).
RgAggregate(rg, p, a) ==
    LET rows == {t \in rg.times : RowMatches(t, p)} IN
    IF a.agg = "count" THEN Cardinality(rows) ELSE SumSet(rows)

-----------------------------------------------------------------------------
(* Reads                                                                   *)

\* MetaData::validate_exprs: every expression names a column of the table
\* whose logical type matches the literal, or the whole call fails.
ValidateExprs(p) ==
    \A e \in p : e.col \in DOMAIN Columns /\ Columns[e.col] = e.lit

\* Table::filter_row_groups: keep the row groups that could satisfy the
\* predicate, in table order.
FilterRowGroups(p, rgs) == SelectSeq(rgs, LAMBDA rg : RgCouldSatisfy(rg, p))

\* Iterator for ReadFilterResults: one batch per remaining row group, the
\* empty results skipped.
FilterResults(rgs, p, negs) ==
    SelectSeq([i \in DOMAIN rgs |-> RgReadFilter(rgs[i], p, negs)],
              LAMBDA b : b # {})

ReadFilter_skipNegValidation(p, negs) ==
    /\ read' = [op |-> "read_filter", pred |-> p, negs |-> negs, dst |-> {},
                res |-> IF ValidateExprs(p)
                        THEN FilterResults(FilterRowGroups(p, data), p, negs)
                        ELSE ReadError]
    /\ UNCHANGED <<data, meta, last>>

\* Table::read_filter: validate the predicate and each negated predicate
\* against the snapshot's meta-data, then prune.
ReadFilter(p, negs) ==
    /\ read' = [op |-> "read_filter", pred |-> p, negs |-> negs, dst |-> {},
                res |-> IF ValidateExprs(p) /\ \A n \in negs : ValidateExprs(n)
                        THEN FilterResults(FilterRowGroups(p, data), p, negs)
                        ELSE ReadError]
    /\ UNCHANGED <<data, meta, last>>

MergedResult_skipFirst(rgs, p, aggs) ==
    IF rgs = <<>> THEN NoBatch
    ELSE [a \in AggregateSchema(aggs) |->
            FoldLeft(LAMBDA acc, rg : acc + RgAggregate(rg, p, a), 0, Tail(rgs))]

\* ReadAggregateResults::next_merged_result: nothing without row groups;
\* otherwise the first row group's result merged with each later non-empty
\* one, where merging adds the counts and the sums.
MergedResult(rgs, p, aggs) ==
    IF rgs = <<>> THEN NoBatch
    ELSE [a \in AggregateSchema(aggs) |->
            FoldLeft(LAMBDA acc, rg : acc + RgAggregate(rg, p, a), 0, rgs)]

\* Table::read_aggregate: validate the predicate, drop aggregates on unknown
\* columns, fail unless every known group column is a tag, prune, merge.
\* It takes no deletes (the code's TODO).
ReadAggregate(p, groups, aggs) ==
    /\ read' = [op |-> "read_aggregate", pred |-> p, negs |-> {}, dst |-> {},
                groups |-> groups, aggs |-> aggs,
                res |-> IF ~ValidateExprs(p) THEN ReadError
                        ELSE IF ~(SchemaFor(groups) \subseteq TagColumns) THEN ReadError
                        ELSE MergedResult(FilterRowGroups(p, data), p, aggs)]
    /\ UNCHANGED <<data, meta, last>>

\* Table::column_values: fail when a requested column the table has is not a
\* tag, or on an invalid predicate; otherwise each remaining row group adds
\* the values of the requested tag columns to dst (the model's rows carry no
\* tag values, so dst comes back as it went in).
ColumnValues(p, cols, dst) ==
    /\ read' = [op |-> "column_values", pred |-> p, negs |-> {}, dst |-> dst,
                cols |-> cols,
                res |-> IF ~(SchemaFor(cols) \subseteq TagColumns) THEN ReadError
                        ELSE IF ~ValidateExprs(p) THEN ReadError
                        ELSE dst]
    /\ UNCHANGED <<data, meta, last>>

\* Table::could_pass_predicate: false on an invalid predicate, otherwise
\* whether any row group could satisfy it.
CouldPassPredicate(p) ==
    /\ read' = [op |-> "could_pass", pred |-> p, negs |-> {}, dst |-> {},
                res |-> ValidateExprs(p) /\
                        \E i \in DOMAIN data : RgCouldSatisfy(data[i], p)]
    /\ UNCHANGED <<data, meta, last>>

\* Table::satisfies_predicate: false on an invalid predicate or one naming
\* a column the meta-data lacks, otherwise whether any row group has a row.
SatisfiesPredicate(p) ==
    /\ read' = [op |-> "satisfies", pred |-> p, negs |-> {}, dst |-> {},
                res |-> /\ ValidateExprs(p)
                        /\ \A e \in p : e.col \in DOMAIN Columns
                        /\ \E i \in DOMAIN data : RgSatisfies(data[i], p)]
    /\ UNCHANGED <<data, meta, last>>

ColumnNames_ignoreDeletes(p, negs, dst) ==
    LET kept == FilterRowGroups(p, data) IN
    /\ read' = [op |-> "column_names", pred |-> p, negs |-> negs, dst |-> dst,
                res |-> IF DOMAIN Columns \subseteq dst THEN dst
                        ELSE IF ~(ValidateExprs(p) /\ \A n \in negs : ValidateExprs(n))
                        THEN ReadError
                        ELSE dst \cup {c \in DOMAIN Columns :
                                \E i \in DOMAIN kept :
                                    RgReadFilter(kept[i], p, {}) # {}}]
    /\ UNCHANGED <<data, meta, last>>

\* Table::column_names: return dst at once when it already holds every
\* column; otherwise validate, prune, and add each column with a value in a
\* row that satisfies the predicate and survives the deletes.  The only
\* column is the time column, which every row sets.
ColumnNames(p, negs, dst) ==
    LET kept == FilterRowGroups(p, data) IN
    /\ read' = [op |-> "column_names", pred |-> p, negs |-> negs, dst |-> dst,
                res |-> IF DOMAIN Columns \subseteq dst THEN dst
                        ELSE IF ~(ValidateExprs(p) /\ \A n \in negs : ValidateExprs(n))
                        THEN ReadError
                        ELSE dst \cup {c \in DOMAIN Columns :
                                \E i \in DOMAIN kept :
                                    RgReadFilter(kept[i], p, negs) # {}}]
    /\ UNCHANGED <<data, meta, last>>

\* MetaData::to_summary: one ColumnSummary per column of the meta-data,
\* with the column's range, the table's row count, its null count (the
\* time column has none) and its distinct count.
ToSummary ==
    [c \in DOMAIN Columns |->
        [min |-> meta.lo, max |-> meta.hi, total |-> meta.rows,
         nulls |-> 0, distinct |-> meta.distinct]]

\* Table::table_summary: to_summary of the meta-data under the read lock;
\* a Binary column panics.
TableSummary ==
    /\ read' = [op |-> "table_summary", pred |-> {}, negs |-> {}, dst |-> {},
                res |-> IF \E c \in DOMAIN Columns : Columns[c] = "binary"
                        THEN "panic" ELSE ToSummary]
    /\ UNCHANGED <<data, meta, last>>

\* Table::validate_predicate: the predicate back when the meta-data
\* accepts it, the error of validate_exprs otherwise.
ValidatePredicate(p) ==
    /\ read' = [op |-> "validate", pred |-> p, negs |-> {}, dst |-> {},
                res |-> IF ValidateExprs(p) THEN p ELSE ReadError]
    /\ UNCHANGED <<data, meta, last>>

\* Table::rows and Table::row_groups (len): the meta-data's row count and
\* the number of row groups, under the read lock.
Counts ==
    /\ read' = [op |-> "counts", pred |-> {}, negs |-> {}, dst |-> {},
                res |-> <<meta.rows, Len(data)>>]
    /\ UNCHANGED <<data, meta, last>>

\* Any of the reads, with the inputs the callers may pass.
Read ==
    \/ \E p \in Preds, negs \in SUBSET DeletePreds :
          \/ ReadFilter(p, negs)
          \/ \E dst \in SUBSET DOMAIN Columns : ColumnNames(p, negs, dst)
    \/ \E p \in Preds : CouldPassPredicate(p) \/ SatisfiesPredicate(p)
                         \/ ValidatePredicate(p)
    \/ \E p \in Preds, g \in GroupSelections, aggs \in AggregateSets :
          ReadAggregate(p, g, aggs)
    \/ \E p \in Preds, cols \in ValueColumns : ColumnValues(p, cols, {})
    \/ TableSummary
    \/ Counts

Next ==
    \/ \E rg \in RowGroups : AddRowGroup(rg)
    \/ \E pos \in 0 .. MaxRowGroups : DropRowGroup(pos) /\ read' = NoRead
    \/ Read

Spec == Init /\ [][Next]_vars

-----------------------------------------------------------------------------
(* Properties                                                              *)

SumOf(f(_)) == FoldLeft(LAMBDA acc, rg : acc + f(rg), 0, data)
Lows == {data[i].lo : i \in DOMAIN data}
Highs == {data[i].hi : i \in DOMAIN data}

(* "Tables must contain at least one row group": no sequence of adds and   *)
(* drops empties the table.                                                *)
TypeOK ==
    /\ data \in Seq(RowGroups)
    /\ Len(data) \in 1 .. MaxRowGroups
    /\ last \in {"ok", "EmptyTable", "panic"}
    /\ read = NoRead \/ read.op \in {"read_filter", "could_pass", "satisfies",
                                      "column_names", "read_aggregate", "column_values",
                                      "table_summary", "validate", "counts"}

(* After any sequence of add_row_group and drop_row_group calls the table  *)
(* meta-data describes exactly the row groups held: the total size and row *)
(* count (Table::size, Table::rows), the time column's range              *)
(* (Table::time_range), which must shrink again when the row group that    *)
(* widened it is dropped, and a distinct count only when one row group is *)
(* left.                                                                   *)
MetaSummarisesRowGroups ==
    /\ meta.rows = SumOf(LAMBDA rg : rg.rows)
    /\ meta.rgsSize = SumOf(LAMBDA rg : rg.size)
    /\ TimeRange = <<Min(Lows), Max(Highs)>>
    /\ meta.distinct = IF Len(data) = 1 THEN data[1].distinct ELSE NoDistinct

\* What each read should return, from the rows it read (the table has not
\* changed since): a read_filter batch per row group that has surviving
\* rows, in table order.
AllValid(p, negs) == ValidateExprs(p) /\ \A n \in negs : ValidateExprs(n)
RefFilter(rgs, p, negs) ==
    SelectSeq([i \in DOMAIN rgs |-> RgReadFilter(rgs[i], p, negs)],
              LAMBDA b : b # {})
RefHasRow(rgs, p) == \E i \in DOMAIN rgs : RgSatisfies(rgs[i], p)
RefColumns(rgs, p, negs) ==
    {c \in DOMAIN Columns :
        \E i \in DOMAIN rgs : RgReadFilter(rgs[i], p, negs) # {}}

\* read_aggregate over all rows: per aggregate on a known column, the count
\* or sum over every row group; with no matching row, no batch or zeros.
RefTotal(p, a) == FoldLeft(LAMBDA acc, rg : acc + RgAggregate(rg, p, a), 0, data)
RefMatches(p) == \E i \in DOMAIN data : RgSatisfies(data[i], p)

ReadCorrect(r) ==
    CASE r.op = "read_filter" ->
            r.res = IF AllValid(r.pred, r.negs) THEN RefFilter(data, r.pred, r.negs)
                    ELSE ReadError
      [] r.op = "could_pass" ->
            /\ r.res => ValidateExprs(r.pred)
            /\ (ValidateExprs(r.pred) /\ RefHasRow(data, r.pred)) => r.res
      [] r.op = "satisfies" ->
            r.res = (ValidateExprs(r.pred) /\ RefHasRow(data, r.pred))
      [] r.op = "column_names" ->
            IF r.res = ReadError THEN ~AllValid(r.pred, r.negs)
            ELSE r.res = r.dst \cup RefColumns(data, r.pred, r.negs)
      [] r.op = "read_aggregate" ->
            IF ~ValidateExprs(r.pred) \/ ~(SchemaFor(r.groups) \subseteq TagColumns)
            THEN r.res = ReadError
            ELSE IF RefMatches(r.pred)
            THEN r.res = [a \in AggregateSchema(r.aggs) |-> RefTotal(r.pred, a)]
            ELSE r.res \in {NoBatch, [a \in AggregateSchema(r.aggs) |-> 0]}
      [] r.op = "validate" ->
            IF AllValid(r.pred, {}) THEN r.res = r.pred ELSE r.res = ReadError
      [] r.op = "counts" ->
            r.res = <<SumOf(LAMBDA rg : rg.rows), Len(data)>>
      [] r.op = "table_summary" ->
            r.res = [c \in DOMAIN Columns |->
                        [min |-> Min(Lows), max |-> Max(Highs),
                         total |-> SumOf(LAMBDA rg : rg.rows), nulls |-> 0,
                         distinct |-> IF Len(data) = 1 THEN data[1].distinct
                                      ELSE NoDistinct]]
      [] r.op = "column_values" ->
            r.res = IF ValidateExprs(r.pred) /\ SchemaFor(r.cols) \subseteq TagColumns
                    THEN r.dst ELSE ReadError

(* Every read over the table, after any sequence of add_row_group and       *)
(* drop_row_group calls returns what the rows themselves say: pruning row  *)
(* groups on the column ranges never drops a row that satisfies the        *)
(* predicate, deletes (negated predicates) are honoured, an invalid        *)
(* predicate or delete is an error, could_pass_predicate is never false    *)
(* when some row passes, and column_names reports exactly the columns with *)
(* a surviving row, its short cut included; table_summary reports the    *)
(* range, row count and distinct count of the row groups held, rows and   *)
(* row_groups count them, and validate_predicate fails exactly on an       *)
(* invalid predicate;                                                      *)
(* read_aggregate counts and sums every matching row of every row group  *)
(* exactly once, and it and                                                *)
(* column_values fail exactly on an invalid predicate or a non-tag column. *)
ReadsMatchReference == read # NoRead => ReadCorrect(read)
====
