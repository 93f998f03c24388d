----------------------------- MODULE QueryPath -----------------------------
(***************************************************************************)
(* One table of one sequencer, end to end: the ingester applies WAL       *)
(* writes and deletes and persists partitions to L0 files, the compactor  *)
(* swaps files of a partition for an L1 file, and a querier reads the     *)
(* ingester and the catalog and reconciles both                           *)
(* (src/querier/src/table/state_reconciler.rs).                           *)
(*                                                                         *)
(* A row is identified by the sequence number of the write that made it.  *)
(* A delete with sequence number t removes every row of the table written *)
(* before it (its predicate matches every row): what is checked is which  *)
(* sources a row comes from, not which rows a predicate selects.          *)
(***************************************************************************)
EXTENDS Integers, FiniteSets, FiniteSetsExt, TLC

CONSTANTS
    Partitions,      \* partition ids of the table
    MaxSeq,          \* WAL operations applied
    MaxDeletes,      \* at most this many of them are deletes
    MaxCompactions,  \* compactor runs
    CatalogFirst     \* TRUE: the querier lists the catalog before asking the ingester

ASSUME MaxSeq \in Nat /\ MaxDeletes \in Nat /\ MaxCompactions \in Nat
ASSUME CatalogFirst \in BOOLEAN

Seqs == 1..MaxSeq
NoSeq == 0                \* Option<SequenceNumber>::None
Del == "delete"           \* the WAL operation is a delete of the table

VARIABLES
    ops,          \* ops[n]: the partition written by operation n, or Del
    buf,          \* buf[p]: sequence numbers buffered and not persisting
    persisting,   \* persisting[p]: sequence numbers of the persisting batch
    pRows,        \* pRows[p]: rows of that batch when it was snapshotted
    committed,    \* committed[p]: its file is in the catalog
    parquetMax,   \* parquetMax[p]: max_persisted_sequence_number
    tombs,        \* tombstones in the catalog
    ingTombs,     \* tombstones the ingester has applied
    files,        \* catalog files not marked for deletion
    compactions,  \* compactor runs so far
    q             \* the query in flight

vars == <<ops, buf, persisting, pRows, committed, parquetMax, tombs, ingTombs, files,
          compactions, q>>

Applied == DOMAIN ops
NextSeq == Cardinality(Applied) + 1

\* rows of the sequence numbers S that the tombstones T leave alive
Live(S, T) == {n \in S : \A t \in T : n > t}

MaxOr(S) == IF S = {} THEN NoSeq ELSE Max(S)

FileRec == [part : Partitions, span : SUBSET Seqs, rows : SUBSET Seqs,
            level : {"L0", "L1"}, proc : SUBSET Seqs]

MaxSeqOf(f) == Max(f.span)

\* an ingester partition as the reconciler sees it (IngesterPartitionInfo):
\* its rows and its parquet and tombstone max sequence numbers
EnvelopeRec == [rows : SUBSET Seqs, parquetMax : {NoSeq} \cup Seqs,
                tombMax : {NoSeq} \cup Seqs]

-----------------------------------------------------------------------------
(* The reconciler (state_reconciler.rs), translated from the code          *)

\* mutation: files newer than the ingester's persisted max are kept
FileDisposition_keepNewer(env, f) ==
    CASE f.part \notin DOMAIN env -> "keep"
      [] env[f.part].parquetMax = NoSeq -> "skip"
      [] f.level # "L0" /\ MaxSeqOf(f) > env[f.part].parquetMax -> "conflict"
      [] OTHER -> "keep"

\* mutation: off by one, a file ending at the persisted max is skipped
FileDisposition_geq(env, f) ==
    CASE f.part \notin DOMAIN env -> "keep"
      [] env[f.part].parquetMax = NoSeq -> "skip"
      [] f.level # "L0" /\ MaxSeqOf(f) > env[f.part].parquetMax -> "conflict"
      [] MaxSeqOf(f) >= env[f.part].parquetMax -> "skip"
      [] OTHER -> "keep"

\* filter_parquet_files for one file: keep it, skip it, or fail the query.
FileDisposition(env, f) ==
    CASE f.part \notin DOMAIN env -> "keep"
      [] env[f.part].parquetMax = NoSeq -> "skip"
      [] f.level # "L0" /\ MaxSeqOf(f) > env[f.part].parquetMax -> "conflict"
      [] MaxSeqOf(f) > env[f.part].parquetMax -> "skip"
      [] OTHER -> "keep"

\* Err(CompactorConflict) if any file conflicts, else the kept files.
FilterParquetFiles(env, fs) ==
    [conflict |-> \E f \in fs : FileDisposition(env, f) = "conflict",
     kept |-> {f \in fs : FileDisposition(env, f) = "keep"}]

\* mutation: off by one, the ingester's newest tombstone is excluded too
TombstoneExcludeList_geq(env, ts) ==
    {pt \in (DOMAIN env) \X ts :
        \/ env[pt[1]].tombMax = NoSeq
        \/ pt[2] >= env[pt[1]].tombMax}

\* tombstone_exclude_list: the (partition, tombstone) pairs newer than
\* what the ingester had applied when it answered.
TombstoneExcludeList(env, ts) ==
    {pt \in (DOMAIN env) \X ts :
        \/ env[pt[1]].tombMax = NoSeq
        \/ pt[2] > env[pt[1]].tombMax}

\* the delete predicates build_chunks_from_parquet attaches to file f
DeletePredicates(f, exclude, ts) ==
    {t \in ts : /\ <<f.part, t>> \notin exclude
                /\ t > MaxSeqOf(f)
                /\ t \notin f.proc}

\* rows a file chunk yields: a delete predicate newer than the file's max
\* sequence number matches every row of it
ChunkRows(f, preds) == IF preds = {} THEN f.rows ELSE {}

\* reconcile: how many chunks (ingester or file) return row n
ResultCount(env, kept, ts) ==
    LET exclude == TombstoneExcludeList(env, ts)
        ingRows == UNION {env[p].rows : p \in DOMAIN env}
    IN [n \in Seqs |-> (IF n \in ingRows THEN 1 ELSE 0)
                       + Cardinality({f \in kept :
                            n \in ChunkRows(f, DeletePredicates(f, exclude, ts))})]

-----------------------------------------------------------------------------
Init ==
    /\ ops = [n \in {} |-> Del]
    /\ buf = [p \in Partitions |-> {}]
    /\ persisting = [p \in Partitions |-> {}]
    /\ pRows = [p \in Partitions |-> {}]
    /\ committed = [p \in Partitions |-> FALSE]
    /\ parquetMax = [p \in Partitions |-> NoSeq]
    /\ tombs = {}
    /\ ingTombs = {}
    /\ files = {}
    /\ compactions = 0
    /\ q = [phase |-> "idle", start |-> 0, snap |-> 0, stop |-> 0,
            env |-> <<>>, files |-> {}, tombs |-> {}, count |-> [n \in Seqs |-> 0]]

-----------------------------------------------------------------------------
(* The ingester (spec-modelled: IngesterData is not in this repository)    *)

\* apply of a write of operation n to partition p: rows land in the buffer
ApplyWrite(p) ==
    /\ NextSeq <= MaxSeq
    /\ ops' = ops @@ (NextSeq :> p)
    /\ buf' = [buf EXCEPT ![p] = @ \cup {NextSeq}]
    /\ UNCHANGED <<persisting, pRows, committed, parquetMax, tombs, ingTombs, files,
                   compactions, q>>

\* apply of a delete: the tombstone is created in the catalog and applied
\* to the ingester's buffered and persisting data
ApplyDelete ==
    /\ NextSeq <= MaxSeq
    /\ Cardinality({n \in Applied : ops[n] = Del}) < MaxDeletes
    /\ ops' = ops @@ (NextSeq :> Del)
    /\ tombs' = tombs \cup {NextSeq}
    /\ ingTombs' = ingTombs \cup {NextSeq}
    /\ UNCHANGED <<buf, persisting, pRows, committed, parquetMax, files,
                   compactions, q>>

\* persist, under the partition lock: the buffer becomes the persisting
\* batch; the file is written from the rows it has now
PersistStart(p) ==
    /\ buf[p] # {}
    /\ persisting[p] = {}
    /\ persisting' = [persisting EXCEPT ![p] = buf[p]]
    /\ pRows' = [pRows EXCEPT ![p] = Live(buf[p], ingTombs)]
    /\ buf' = [buf EXCEPT ![p] = {}]
    /\ UNCHANGED <<ops, committed, parquetMax, tombs, ingTombs, files, compactions, q>>

\* persist: the catalog transaction inserts the L0 file
PersistCommit(p) ==
    /\ persisting[p] # {}
    /\ ~committed[p]
    /\ files' = files \cup {[part |-> p, span |-> persisting[p], rows |-> pRows[p],
                            level |-> "L0", proc |-> {}]}
    /\ committed' = [committed EXCEPT ![p] = TRUE]
    /\ UNCHANGED <<ops, buf, persisting, pRows, parquetMax, tombs, ingTombs, compactions, q>>

\* mutation: "max + 1" is recorded as the persisted sequence number
MarkPersisted_plusOne(p) ==
    /\ committed[p]
    /\ parquetMax' = [parquetMax EXCEPT ![p] = Max(persisting[p]) + 1]
    /\ persisting' = [persisting EXCEPT ![p] = {}]
    /\ pRows' = [pRows EXCEPT ![p] = {}]
    /\ committed' = [committed EXCEPT ![p] = FALSE]
    /\ UNCHANGED <<ops, buf, tombs, ingTombs, files, compactions, q>>

\* mark_persisted, under the partition lock: the persisting batch is
\* dropped and max_persisted_sequence_number advanced
MarkPersisted(p) ==
    /\ committed[p]
    /\ parquetMax' = [parquetMax EXCEPT ![p] = Max(persisting[p])]
    /\ persisting' = [persisting EXCEPT ![p] = {}]
    /\ pRows' = [pRows EXCEPT ![p] = {}]
    /\ committed' = [committed EXCEPT ![p] = FALSE]
    /\ UNCHANGED <<ops, buf, tombs, ingTombs, files, compactions, q>>

-----------------------------------------------------------------------------
(* The compactor (spec.md 4.3; its chunks are QueryableParquetChunk,       *)
(* src/compactor/src/query.rs)                                             *)

\* tombstones the compactor hands to QueryableParquetChunk::new for f
Unmaterialized(f) == {t \in tombs : t > MaxSeqOf(f) /\ t \notin f.proc}

\* files S of partition p (at least one L0) are merged into one L1 file in
\* one catalog transaction, materialising their tombstones
Compact(p, S) ==
    /\ compactions < MaxCompactions
    /\ S # {}
    /\ \A f \in S : f.part = p
    /\ \E f \in S : f.level = "L0"
    /\ files' = (files \ S) \cup
          {[part |-> p,
            span |-> UNION {f.span : f \in S},
            rows |-> UNION {IF Unmaterialized(f) = {} THEN f.rows ELSE {} : f \in S},
            level |-> "L1",
            proc |-> UNION {Unmaterialized(f) : f \in S}]}
    /\ compactions' = compactions + 1
    /\ UNCHANGED <<ops, buf, persisting, pRows, committed, parquetMax, tombs, ingTombs, q>>

\* garbage collection of a tombstone (spec.md 4.1 invariants): only once
\* every catalog file with rows older than it has materialised it; the
\* ingester keeps the tombstone it applied. Not part of Spec: see SpecWithGc.
RemoveTombstone(t) ==
    /\ t \in tombs
    /\ \A f \in files : MaxSeqOf(f) < t => t \in f.proc
    /\ tombs' = tombs \ {t}
    /\ UNCHANGED <<ops, buf, persisting, pRows, committed, parquetMax, ingTombs,
                   files, compactions, q>>

-----------------------------------------------------------------------------
(* The querier                                                             *)

\* the query is admitted; rows of operations up to here must be seen
QueryStart ==
    /\ q.phase = "idle"
    /\ q' = [q EXCEPT !.phase = "started", !.start = NextSeq - 1]
    /\ UNCHANGED <<ops, buf, persisting, pRows, committed, parquetMax, tombs, ingTombs,
                   files, compactions>>

\* prepare_data_to_querier_for_partition: the persisting batch, or an empty
\* one, with the non-persisted data added; no data gives no stream, but
\* the partition's envelope is still sent for its status.
PartitionData(p) == persisting[p] \cup buf[p]

\* query: a single-chunk scan of the batch; the scan applies the delete
\* predicates that go with it (the request's own predicate and column
\* selection are not modelled: the querier asks for whole rows).
ScanRows(S, T) == Live(S, T)

\* the ingester's partition envelopes, taken under the table read lock
Envelopes ==
    [p \in {ops[n] : n \in {m \in Applied : ops[m] # Del}} |->
        [rows |-> ScanRows(PartitionData(p), ingTombs),
         parquetMax |-> parquetMax[p],
         tombMax |-> MaxOr(ingTombs)]]

\* prepare_data_to_querier: one envelope per partition the ingester
\* holds; TableNotFound when it holds none
ReadIngester ==
    LET env == Envelopes IN
    /\ q.phase = IF CatalogFirst THEN "catalogRead" ELSE "started"
    /\ q' = [q EXCEPT !.env = env, !.snap = NextSeq - 1,
                      !.phase = CASE DOMAIN env = {} -> "failed"
                                  [] CatalogFirst -> "read"
                                  [] OTHER -> "ingesterRead"]
    /\ UNCHANGED <<ops, buf, persisting, pRows, committed, parquetMax, tombs, ingTombs,
                   files, compactions>>

\* the querier lists the table's files and tombstones from the catalog
ReadCatalog ==
    /\ q.phase = IF CatalogFirst THEN "started" ELSE "ingesterRead"
    /\ q' = [q EXCEPT !.files = files, !.tombs = tombs,
                      !.phase = IF CatalogFirst THEN "catalogRead" ELSE "read"]
    /\ UNCHANGED <<ops, buf, persisting, pRows, committed, parquetMax, tombs, ingTombs,
                   files, compactions>>

\* Reconciler::reconcile over what was read
Reconcile ==
    LET filtered == FilterParquetFiles(q.env, q.files) IN
    /\ q.phase = "read"
    /\ q' = IF filtered.conflict
            THEN [q EXCEPT !.phase = "conflict", !.stop = NextSeq - 1]
            ELSE [q EXCEPT !.phase = "done", !.stop = NextSeq - 1,
                           !.count = ResultCount(q.env, filtered.kept, q.tombs)]
    /\ UNCHANGED <<ops, buf, persisting, pRows, committed, parquetMax, tombs, ingTombs,
                   files, compactions>>

\* every operation applied and the query answered: the bounded run ends
Finished ==
    /\ NextSeq > MaxSeq
    /\ q.phase \in {"done", "conflict", "failed"}
    /\ UNCHANGED vars

Next ==
    \/ \E p \in Partitions : ApplyWrite(p)
    \/ ApplyDelete
    \/ \E p \in Partitions : PersistStart(p) \/ PersistCommit(p) \/ MarkPersisted(p)
    \/ \E p \in Partitions : \E S \in SUBSET files : Compact(p, S)
    \/ QueryStart
    \/ ReadIngester
    \/ ReadCatalog
    \/ Reconcile
    \/ Finished

Spec == Init /\ [][Next]_vars

\* The system with the catalog's tombstone garbage collection. The rule
\* reads only the catalog, so it cannot see a persist that snapshotted its
\* batch before the delete and commits its file after the removal.
NextWithGc == Next \/ \E t \in tombs : RemoveTombstone(t)
SpecWithGc == Init /\ [][NextWithGc]_vars

-----------------------------------------------------------------------------
(* Properties                                                              *)

Writes(k) == {n \in 1..k : ops[n] # Del}
Deletes(k) == {n \in 1..k : ops[n] = Del}

\* the rows a query answered at sequence number k must return
Visible(k) == Live(Writes(k), Deletes(k))

Result == {n \in Seqs : q.count[n] > 0}

TypeOK ==
    /\ DOMAIN ops = 1..(NextSeq - 1)
    /\ \A n \in Applied : ops[n] \in Partitions \cup {Del}
    /\ buf \in [Partitions -> SUBSET Seqs]
    /\ persisting \in [Partitions -> SUBSET Seqs]
    /\ pRows \in [Partitions -> SUBSET Seqs]
    /\ committed \in [Partitions -> BOOLEAN]
    /\ parquetMax \in [Partitions -> {NoSeq} \cup Seqs]
    /\ tombs \subseteq Seqs
    /\ ingTombs \subseteq Seqs
    /\ files \subseteq FileRec
    /\ compactions \in 0..MaxCompactions
    /\ q.phase \in {"idle", "started", "ingesterRead", "catalogRead", "read",
                    "done", "conflict", "failed"}
    /\ q.count \in [Seqs -> Nat]
    /\ \A p \in DOMAIN q.env : q.env[p] \in EnvelopeRec

\* No row is returned twice: filter_parquet_files drops every file whose
\* rows the ingester still returns from its buffer or persisting batch,
\* whatever persists and compactions ran between the two reads.
NoDuplicateRows ==
    q.phase = "done" => \A n \in Seqs : q.count[n] <= 1

\* A row written before the query started and deleted by no delete applied
\* before the query was answered is returned: persists between the
\* querier's reads move it from the ingester's envelope to a file without
\* it falling between the two.
NoLostRows ==
    q.phase = "done" =>
        \A n \in Writes(q.start) :
            (\A t \in Deletes(q.stop) : n > t) => q.count[n] >= 1

\* No row deleted before the query started is returned: the tombstones the
\* reconciler excludes per partition are only those the ingester had not
\* yet applied, so files still get every older tombstone.
NoResurrectedRows ==
    q.phase = "done" => Result \cap (Writes(q.start) \ Visible(q.start)) = {}

\* The rows returned are the table as of one sequence number between the
\* query's start and its answer (spec.md 5: a consistent slice of the
\* sequencer).
SnapshotConsistent ==
    q.phase = "done" =>
        /\ \A n \in Seqs : q.count[n] <= 1
        /\ \E k \in q.start..q.stop : Result = Visible(k)

====
