------------------------------ MODULE Compactor ------------------------------
(***************************************************************************)
(* The compactor of one partition, src/compactor/src/query.rs and the      *)
(* compact and split plans of src/iox_query/src/frontend/reorg.rs.         *)
(*                                                                         *)
(* Writes and deletes reach the ingester's buffer, persists turn the       *)
(* buffer into level-0 (L0) files, and a compaction takes the oldest L0    *)
(* files with every level-1 (L1) file they overlap, wraps each as a        *)
(* QueryableParquetChunk with the tombstones not yet materialised for it,  *)
(* deduplicates the rows by (order(), id()), partitions them by the split  *)
(* plan's time predicates and commits one L1 file per non-empty stream.    *)
(* A row is a key and the sequence number of its write; the key fixes the  *)
(* row's time (time is part of the primary key).                           *)
(***************************************************************************)
EXTENDS Integers, Sequences, FiniteSets, FiniteSetsExt

CONSTANTS
    Keys,           \* primary keys of the table
    TimeOf,         \* [Keys -> Int]: the time column of a key
    MaxSeq,         \* bound on sequence numbers handed out by the WAL
    MaxCompactions, \* bound on compaction runs
    SplitChoices    \* split_times a run may use; <<>> stands for compact_plan

VARIABLES
    nextSeq,        \* sequence number of the next WAL operation
    buffer,         \* rows buffered by the ingester, not yet persisted
    files,          \* parquet files of the partition in the catalog
    tombs,          \* catalog tombstones [seq, key]
    processed,      \* processed-tombstone rows <<file id, tombstone seq>>
    nextId,         \* next object-store id
    compactions,    \* compaction runs so far
    written         \* history: every row ever buffered

vars == <<nextSeq, buffer, files, tombs, processed, nextId, compactions, written>>

Row  == [key : Keys, seq : 1..MaxSeq]
Tomb == [seq : 1..MaxSeq, key : Keys]
Times == {TimeOf[k] : k \in Keys}

\* A tombstone removes the rows of its key written before it.
Deletes(t, r) == t.key = r.key /\ r.seq < t.seq

L0(fs) == {f \in fs : f.level = "L0"}
L1(fs) == {f \in fs : f.level = "L1"}

MinTime(f) == Min({TimeOf[r.key] : r \in f.rows})
MaxTime(f) == Max({TimeOf[r.key] : r \in f.rows})
Overlap(lo, hi, f) == MinTime(f) <= hi /\ lo <= MaxTime(f)

-----------------------------------------------------------------------------
(* The chunk a compaction reads for a file.                                *)

\* Tombstones the compactor hands to a file: newer than the file's data and
\* not yet recorded as processed for it.
Unmaterialized(f) ==
    {t \in tombs : t.seq > f.maxSeq /\ <<f.id, t.seq>> \notin processed}

NewChunk_noDeletes(f) ==
    [file |-> f, tombstones |-> Unmaterialized(f), predicates |-> {}]

\* QueryableParquetChunk::new: the tombstones handed to the chunk, which the
\* commit records as processed, become its delete predicates.
NewChunk(f) ==
    [file |-> f, tombstones |-> Unmaterialized(f),
     predicates |-> Unmaterialized(f)]

Order_swapped(f) == IF f.level = "L0" THEN 0 ELSE f.maxSeq

\* QueryableParquetChunk::order: L0 files by max sequence number, L1 first.
Order(f) == IF f.level = "L0" THEN f.maxSeq ELSE 0

\* (order(), id()): the key chunks are sorted by for deduplication.
Rank(c) == <<Order(c.file), c.file.id>>
RankGt(a, b) == a[1] > b[1] \/ (a[1] = b[1] /\ a[2] > b[2])

\* QueryChunk::read_filter of the chunk: the parquet file's rows, read with
\* the empty predicate compact_plan scans with.
ReadFilter(c) == c.file.rows

\* The rows a chunk yields: its delete predicates filter them.
ChunkRows(c) == {r \in ReadFilter(c) : ~\E t \in c.predicates : Deletes(t, r)}

\* The scan of compact_plan: every chunk's rows, and per primary key only
\* the row of the chunk ranked last.
Scan(chunks) ==
    LET tagged == UNION {{[row |-> r, rank |-> Rank(c)] : r \in ChunkRows(c)} :
                            c \in chunks}
    IN  {x.row : x \in {y \in tagged :
            ~\E z \in tagged : z.row.key = y.row.key /\ RankGt(z.rank, y.rank)}}

-----------------------------------------------------------------------------
(* The split plan.  A predicate is the set of times it accepts.            *)

\* split_plan panics on empty or not strictly ascending split_times.
SplitPanics(st) ==
    \/ Len(st) = 0
    \/ \E i \in 2..Len(st) : st[i-1] >= st[i]

SplitExprs_lt(st) ==
    [i \in 1..Len(st) |->
        IF i = 1 THEN {t \in Times : t < st[1]}
                 ELSE {t \in Times : t > st[i-1] /\ t <= st[i]}]

\* split_plan: time <= st[1], then st[i-1] < time <= st[i].
SplitExprs(st) ==
    [i \in 1..Len(st) |->
        IF i = 1 THEN {t \in Times : t <= st[1]}
                 ELSE {t \in Times : t > st[i-1] /\ t <= st[i]}]

\* StreamSplit: a row goes to the first predicate it satisfies, or to the
\* last of the Len(exprs) + 1 streams if it satisfies none.
StreamSplit(exprs, rows) ==
    LET First(r) == {i \in 1..Len(exprs) : TimeOf[r.key] \in exprs[i]
                        /\ \A j \in 1..(i-1) : TimeOf[r.key] \notin exprs[j]}
    IN  [i \in 1..(Len(exprs) + 1) |->
            IF i <= Len(exprs) THEN {r \in rows : i \in First(r)}
                               ELSE {r \in rows : First(r) = {}}]

\* compact_plan yields one stream; split_plan one per split time and one more.
Streams(st, rows) ==
    IF st = <<>> THEN <<rows>> ELSE StreamSplit(SplitExprs(st), rows)

-----------------------------------------------------------------------------
(* Actions                                                                 *)

Init ==
    /\ nextSeq = 1
    /\ buffer = {}
    /\ files = {}
    /\ tombs = {}
    /\ processed = {}
    /\ nextId = 1
    /\ compactions = 0
    /\ written = {}

\* A write reaches the ingester and is buffered.
Write(k) ==
    LET r == [key |-> k, seq |-> nextSeq] IN
    /\ nextSeq <= MaxSeq
    /\ buffer' = buffer \cup {r}
    /\ written' = written \cup {r}
    /\ nextSeq' = nextSeq + 1
    /\ UNCHANGED <<files, tombs, processed, nextId, compactions>>

\* A delete becomes a catalog tombstone and is applied to the buffer.
Delete(k) ==
    LET t == [seq |-> nextSeq, key |-> k] IN
    /\ nextSeq <= MaxSeq
    /\ tombs' = tombs \cup {t}
    /\ buffer' = {r \in buffer : ~Deletes(t, r)}
    /\ nextSeq' = nextSeq + 1
    /\ UNCHANGED <<files, processed, nextId, compactions, written>>

\* The ingester persists the buffer as one deduplicated L0 file.
Persist ==
    LET latest == {r \in buffer : ~\E r2 \in buffer : r2.key = r.key /\ r2.seq > r.seq}
    IN  /\ buffer # {}
        /\ files' = files \cup {[id |-> nextId, level |-> "L0", rows |-> latest,
                                 maxSeq |-> Max({r.seq : r \in buffer})]}
        /\ buffer' = {}
        /\ nextId' = nextId + 1
        /\ UNCHANGED <<nextSeq, tombs, processed, compactions, written>>

\* The files a compaction may take: the oldest L0 files and L1 files, with
\* every L1 file that overlaps the time range of the files taken.
Candidate(S) ==
    LET l0 == L0(S)
        lo == Min({MinTime(f) : f \in S})
        hi == Max({MaxTime(f) : f \in S})
    IN  /\ l0 # {}
        /\ \A f \in l0, g \in L0(files) \ S : f.maxSeq < g.maxSeq
        /\ \A f \in L1(files) : Overlap(lo, hi, f) => f \in S

Compact_allStreams(S, st) ==
    LET chunks == {NewChunk(f) : f \in S}
        out    == Streams(st, Scan(chunks))
        new    == {[id |-> nextId + i - 1, level |-> "L1", rows |-> out[i],
                    maxSeq |-> Max({f.maxSeq : f \in S})] : i \in DOMAIN out}
        mat    == UNION {c.tombstones : c \in chunks}
    IN  /\ compactions < MaxCompactions
        /\ Candidate(S)
        /\ st = <<>> \/ ~SplitPanics(st)
        /\ files' = (files \ S) \cup new
        /\ processed' = processed \cup {<<n.id, t.seq>> : n \in new, t \in mat}
        /\ nextId' = nextId + Len(out)
        /\ compactions' = compactions + 1
        /\ UNCHANGED <<nextSeq, buffer, tombs, written>>

\* One compaction run: chunks, compact or split plan, catalog commit of one
\* L1 file per non-empty stream with the inputs removed and the
\* materialised tombstones recorded as processed for the new files.
Compact(S, st) ==
    LET chunks == {NewChunk(f) : f \in S}
        out    == Streams(st, Scan(chunks))
        new    == {[id |-> nextId + i - 1, level |-> "L1", rows |-> out[i],
                    maxSeq |-> Max({f.maxSeq : f \in S})] :
                       i \in {j \in DOMAIN out : out[j] # {}}}
        mat    == UNION {c.tombstones : c \in chunks}
    IN  /\ compactions < MaxCompactions
        /\ Candidate(S)
        /\ st = <<>> \/ ~SplitPanics(st)
        /\ files' = (files \ S) \cup new
        /\ processed' = processed \cup {<<n.id, t.seq>> : n \in new, t \in mat}
        /\ nextId' = nextId + Len(out)
        /\ compactions' = compactions + 1
        /\ UNCHANGED <<nextSeq, buffer, tombs, written>>

\* Every operation is applied and persisted: the bounded run ends.
Finished ==
    /\ nextSeq > MaxSeq
    /\ buffer = {}
    /\ UNCHANGED vars

Next ==
    \/ \E k \in Keys : Write(k) \/ Delete(k)
    \/ Persist
    \/ \E S \in SUBSET files, st \in SplitChoices : Compact(S, st)
    \/ Finished

Spec == Init /\ [][Next]_vars

-----------------------------------------------------------------------------
(* Properties                                                              *)

\* A file holds at least one row: it has a time range.
File == [id : Nat, level : {"L0", "L1"}, rows : (SUBSET Row) \ {{}}, maxSeq : 1..MaxSeq]

TypeOK ==
    /\ nextSeq \in 1..(MaxSeq + 1)
    /\ buffer \subseteq Row /\ written \subseteq Row
    /\ files \subseteq File
    /\ tombs \subseteq Tomb
    /\ processed \subseteq Nat \X (1..MaxSeq)
    /\ compactions \in 0..MaxCompactions

\* The newest write of a key, if it exists.
Latest(k) ==
    LET mine == {r \in written : r.key = k}
    IN  {r \in mine : \A r2 \in mine : r2.seq <= r.seq}

(* Last write wins through every compaction (spec.md 3, invariant 5): the  *)
(* newest write of a key, unless a tombstone deleted it, is in the buffer  *)
(* or in some file.  The dedup order of QueryableParquetChunk::order must  *)
(* rank an L0 row above the L1 rows it is compacted with.                  *)
LatestRowSurvives ==
    \A k \in Keys : \A r \in Latest(k) :
        (r \notin buffer /\ ~\E t \in tombs : Deletes(t, r))
            => \E f \in files : r \in f.rows

(* L1 files are deduplicated and do not overlap in time (spec.md 3,       *)
(* invariant 6): split_plan's predicates and StreamSplit's first-match    *)
(* routing send each time to exactly one output file.                     *)
L1DedupedAndDisjoint ==
    \A f, g \in L1(files) :
        /\ f # g => ~Overlap(MinTime(g), MaxTime(g), f)
        /\ \A r1, r2 \in f.rows : r1.key = r2.key => r1 = r2

(* A tombstone recorded as processed for a file has really been applied   *)
(* to it: the querier skips it for that file, so a surviving row would    *)
(* come back (spec.md 3, invariant 4).                                    *)
ProcessedTombstonesApplied ==
    \A f \in files, t \in tombs :
        <<f.id, t.seq>> \in processed => ~\E r \in f.rows : Deletes(t, r)
=============================================================================
