------------------------------ MODULE Lifecycle ------------------------------
(***************************************************************************)
(* The ingester's persistence lifecycle (src/ingester/src/lifecycle.rs)    *)
(* together with the parts of the ingester it drives:                      *)
(*                                                                         *)
(*  - one ingest loop per sequencer that applies the WAL's operations in   *)
(*    order, buffering each partition's rows and reporting them through    *)
(*    LifecycleHandle::log_write, and that pauses while the handle says so *)
(*    (the ingester's data and stream-handler code is not in this          *)
(*    repository: those actions follow spec.md 4.1 and are spec-modelled); *)
(*  - LifecycleManager::maybe_persist, split at its lock and await points: *)
(*    the stats snapshot and selection, the removal and spawn of one       *)
(*    persist task per selected partition, the join and the update of the  *)
(*    sequencers' min_unpersisted_sequence_number;                         *)
(*  - the detached persist tasks: Persister::persist (spec-modelled) and   *)
(*    the release of the partition's remembered bytes;                     *)
(*  - a crash of the ingester and its restart (spec-modelled, spec.md 4.1 *)
(*    failure semantics and 6): memory is lost, the catalog and the files  *)
(*    survive, and each sequencer's ingest resumes at its                  *)
(*    min_unpersisted_sequence_number, skipping sequence numbers a        *)
(*    partition already has in a file.                                     *)
(*                                                                         *)
(* Rows are abstracted to the sequence numbers that wrote them; bytes to   *)
(* small integers; time to a bounded counter.                              *)
(***************************************************************************)
EXTENDS Integers, Sequences, FiniteSets, FiniteSetsExt, TLC

CONSTANTS
    Sequencers,              \* sequencer (shard) ids
    Partitions,              \* partition ids, a finite set of positive integers
    SeqOf,                   \* SeqOf[p]: the sequencer partition p belongs to
    MaxSeq,                  \* bound: sequence numbers 1..MaxSeq per sequencer
    WriteSizes,              \* byte sizes a single partition write may report
    MaxTime,                 \* bound on the mock clock
    PauseIngestSize,         \* LifecycleConfig.pause_ingest_size
    PersistMemoryThreshold,  \* LifecycleConfig.persist_memory_threshold
    PartitionSizeThreshold,  \* LifecycleConfig.partition_size_threshold
    PartitionAgeThreshold,   \* LifecycleConfig.partition_age_threshold
    PartitionColdThreshold,  \* LifecycleConfig.partition_cold_threshold
    MaxCrashes               \* bound: ingester crashes in a behaviour

\* LifecycleConfig::new panics unless pause_ingest_size exceeds
\* persist_memory_threshold, so that persisting frees memory before ingest
\* pauses.
ValidLifecycleConfig == PauseIngestSize > PersistMemoryThreshold

ASSUME
    /\ Partitions \subseteq Nat \ {0}
    /\ SeqOf \in [Partitions -> Sequencers]
    /\ MaxSeq \in Nat \ {0}
    /\ WriteSizes \subseteq Nat
    /\ ValidLifecycleConfig

NoPartition == 0

VARIABLES
    \* --- WAL and ingest loops (spec-modelled) ---
    wal,            \* wal[s][n]: partitions written by operation n of sequencer s
    nextSeq,        \* nextSeq[s]: next sequence number the WAL delivers
    ingest,         \* ingest[s]: state of sequencer s's ingest loop
    \* --- ingester buffer and files (spec-modelled) ---
    buffer,         \* buffer[p]: sequence numbers buffered, not persisting
    persisting,     \* persisting[p]: sequence numbers in the persisting batch
    persisted,      \* persisted[p]: sequence numbers committed as files
    minUnpersisted, \* catalog: min_unpersisted_sequence_number per sequencer
    \* --- LifecycleState (shared under the mutex) ---
    totalBytes,     \* LifecycleState.total_bytes
    stats,          \* LifecycleState.partition_stats, a function on a subset of Partitions
    \* --- maybe_persist locals and persist tasks ---
    mgr,            \* phase, spawn queue, rest snapshot, sequencer_maxes
    task,           \* task[p]: state of the persist task of partition p
    usage,          \* usage[p]: partition_memory_usage remembered by that task
    now,            \* the time provider
    crashes         \* number of crashes so far

ingestVars == <<wal, nextSeq, ingest>>
dataVars == <<buffer, persisting, persisted, minUnpersisted>>
lifeVars == <<totalBytes, stats, mgr, task, usage>>
vars == <<ingestVars, dataVars, lifeVars, now, crashes>>

PartitionsOf(s) == {p \in Partitions : SeqOf[p] = s}

StatsRec == [firstWrite : 0..MaxTime, lastWrite : 0..MaxTime,
             bytes : Nat, firstSeq : 1..MaxSeq]

-----------------------------------------------------------------------------
(* Helpers of maybe_persist                                                *)

\* The partition filter of maybe_persist: age, cold and size triggers.
Triggered(st, p) ==
    \/ now - st[p].firstWrite > PartitionAgeThreshold
    \/ now - st[p].lastWrite > PartitionColdThreshold
    \/ st[p].bytes > PartitionSizeThreshold

BytesOf(st, S) == MapThenSumSet(LAMBDA p : st[p].bytes, S)

\* `rest` sorted by bytes_written descending; sort_by is stable and the
\* snapshot comes out of a BTreeMap, so ties keep ascending partition id.
RECURSIVE SortedByBytes(_, _)
SortedByBytes(st, S) ==
    IF S = {} THEN <<>>
    ELSE LET big == {p \in S : \A q \in S : st[q].bytes <= st[p].bytes}
             first == Min(big)
         IN <<first>> \o SortedByBytes(st, S \ {first})

\* The memory loop: walk the sorted rest, moving a partition to to_persist
\* while the running total is still at or above the memory threshold.
RECURSIVE MemoryPicks(_, _, _)
MemoryPicks(st, list, total) ==
    IF list = <<>> THEN <<>>
    ELSE IF total >= PersistMemoryThreshold
         THEN <<Head(list)>> \o MemoryPicks(st, Tail(list), total - st[Head(list)].bytes)
         ELSE MemoryPicks(st, Tail(list), total)

\* S in ascending partition id order (the BTreeMap order of the snapshot)
SortedById(S) == SortedByBytes([p \in S |-> [bytes |-> 0]], S)

SeqToSet(q) == {q[i] : i \in DOMAIN q}

\* for each sequencer with a partition to persist, the largest
\* first_sequence_number among its partitions to persist
SequencerMaxes(st, S) ==
    [s \in {SeqOf[p] : p \in S} |->
        Max({st[p].firstSeq : p \in {q \in S : SeqOf[q] = s}})]

\* mutation: "min + 1" when the sequencer has nothing left buffered
NewMinUnpersisted_plusOne(m, s) ==
    LET restOfS == {p \in DOMAIN m.rest : SeqOf[p] = s}
    IN IF restOfS = {} THEN m.maxes[s] + 1
       ELSE Min({m.rest[p] : p \in restOfS})

\* mutation: the filter on the sequencer id of `rest` is dropped
NewMinUnpersisted_anySequencer(m, s) ==
    LET restOfS == DOMAIN m.rest
    IN IF restOfS = {} THEN m.maxes[s]
       ELSE Min({m.rest[p] : p \in restOfS})

\* the value written for sequencer s once all tasks have finished
NewMinUnpersisted(m, s) ==
    LET restOfS == {p \in DOMAIN m.rest : SeqOf[p] = s}
    IN IF restOfS = {} THEN m.maxes[s]
       ELSE Min({m.rest[p] : p \in restOfS})

-----------------------------------------------------------------------------
Init ==
    /\ wal = [s \in Sequencers |-> [n \in 1..MaxSeq |-> {}]]
    /\ nextSeq = [s \in Sequencers |-> 1]
    /\ ingest = [s \in Sequencers |->
                    [state |-> "idle", seq |-> 0, todo |-> {},
                     pend |-> NoPartition, pause |-> FALSE]]
    /\ buffer = [p \in Partitions |-> {}]
    /\ persisting = [p \in Partitions |-> {}]
    /\ persisted = [p \in Partitions |-> {}]
    /\ minUnpersisted = [s \in Sequencers |-> 0]
    /\ totalBytes = 0
    /\ stats = <<>>
    /\ mgr = [phase |-> "idle", queue |-> <<>>, rest |-> <<>>, maxes |-> <<>>]
    /\ task = [p \in Partitions |-> "none"]
    /\ usage = [p \in Partitions |-> 0]
    /\ now = 0
    /\ crashes = 0

-----------------------------------------------------------------------------
(* Ingest loop of sequencer s (spec-modelled: spec.md 4.1 apply, 4.2)      *)

\* The WAL delivers the next operation of s; it writes to the partitions P.
\* An operation delivered before a crash is delivered again unchanged.
ReceiveOp(s, P) ==
    /\ ingest[s].state = "idle"
    /\ nextSeq[s] <= MaxSeq
    /\ wal[s][nextSeq[s]] \in {{}, P}
    /\ wal' = [wal EXCEPT ![s][nextSeq[s]] = P]
    /\ ingest' = [ingest EXCEPT ![s] = [state |-> "applying", seq |-> nextSeq[s],
                                       todo |-> P, pend |-> NoPartition,
                                       pause |-> FALSE]]
    /\ nextSeq' = [nextSeq EXCEPT ![s] = @ + 1]
    /\ UNCHANGED <<dataVars, lifeVars, now, crashes>>

\* mutation: replay buffers rows the partition already has in a file
BufferWrite_noSkip(s, p) ==
    /\ ingest[s].state = "applying"
    /\ ingest[s].pend = NoPartition
    /\ p \in ingest[s].todo
    /\ buffer' = [buffer EXCEPT ![p] = @ \cup {ingest[s].seq}]
    /\ ingest' = [ingest EXCEPT ![s].pend = p, ![s].todo = @ \ {p}]
    /\ UNCHANGED <<wal, nextSeq, persisting, persisted, minUnpersisted, lifeVars, now, crashes>>

\* Append the operation's rows for partition p under the partition lock,
\* unless p already has this sequence number in a file (a replayed
\* operation): then nothing is buffered and log_write is not called.
BufferWrite(s, p) ==
    LET n == ingest[s].seq
        skip == persisted[p] # {} /\ n <= Max(persisted[p])
    IN
    /\ ingest[s].state = "applying"
    /\ ingest[s].pend = NoPartition
    /\ p \in ingest[s].todo
    /\ buffer' = IF skip THEN buffer ELSE [buffer EXCEPT ![p] = @ \cup {n}]
    /\ ingest' = [ingest EXCEPT ![s].pend = IF skip THEN NoPartition ELSE p,
                                ![s].todo = @ \ {p}]
    /\ UNCHANGED <<wal, nextSeq, persisting, persisted, minUnpersisted, lifeVars, now, crashes>>

\* LifecycleHandleImpl::log_write for the partition just buffered.
LogWrite(s, b) ==
    LET p == ingest[s].pend
        n == ingest[s].seq
        fresh == [firstWrite |-> now, lastWrite |-> now, bytes |-> 0, firstSeq |-> n]
        old == IF p \in DOMAIN stats THEN stats[p] ELSE fresh
        new == [old EXCEPT !.bytes = @ + b, !.lastWrite = now]
    IN
    /\ ingest[s].state = "applying"
    /\ p # NoPartition
    /\ stats' = (p :> new) @@ stats
    /\ totalBytes' = totalBytes + b
    /\ ingest' = [ingest EXCEPT ![s].pend = NoPartition,
                                ![s].pause = @ \/ (totalBytes + b > PauseIngestSize)]
    /\ UNCHANGED <<wal, nextSeq, dataVars, mgr, task, usage, now, crashes>>

\* apply returns; on should_pause the loop waits for can_resume_ingest.
FinishOp(s) ==
    /\ ingest[s].state = "applying"
    /\ ingest[s].todo = {}
    /\ ingest[s].pend = NoPartition
    /\ ingest' = [ingest EXCEPT ![s].state = IF ingest[s].pause THEN "paused" ELSE "idle"]
    /\ UNCHANGED <<wal, nextSeq, dataVars, lifeVars, now, crashes>>

\* LifecycleHandleImpl::can_resume_ingest returned true.
Resume(s) ==
    /\ ingest[s].state = "paused"
    /\ totalBytes < PauseIngestSize
    /\ ingest' = [ingest EXCEPT ![s].state = "idle"]
    /\ UNCHANGED <<wal, nextSeq, dataVars, lifeVars, now, crashes>>

-----------------------------------------------------------------------------
(* LifecycleManager::maybe_persist                                         *)

\* mutation: the memory-pressure loop is missing
MaybePersistBegin_noMemoryLoop ==
    LET st == stats
        triggered == {p \in DOMAIN st : Triggered(st, p)}
        toPersist == SortedById(triggered)
        rest == DOMAIN st \ triggered
    IN
    /\ mgr.phase = "idle"
    /\ mgr' = IF toPersist = <<>>
              THEN mgr
              ELSE [phase |-> "spawning", queue |-> toPersist,
                    rest |-> [p \in rest |-> st[p].firstSeq],
                    maxes |-> SequencerMaxes(st, SeqToSet(toPersist))]
    /\ UNCHANGED <<ingestVars, dataVars, totalBytes, stats, task, usage, now, crashes>>

\* self.stats() under the lock, the trigger partition, the memory loop and
\* sequencer_maxes; no lock is held and nothing is shared until the spawns.
MaybePersistBegin ==
    LET st == stats
        triggered == {p \in DOMAIN st : Triggered(st, p)}
        rest0 == DOMAIN st \ triggered
        after == totalBytes - BytesOf(st, triggered)
        picks == IF after > PersistMemoryThreshold
                 THEN MemoryPicks(st, SortedByBytes(st, rest0), after)
                 ELSE <<>>
        toPersist == SortedById(triggered) \o picks
        rest == rest0 \ SeqToSet(picks)
    IN
    /\ mgr.phase = "idle"
    /\ mgr' = IF toPersist = <<>>
              THEN mgr
              ELSE [phase |-> "spawning", queue |-> toPersist,
                    rest |-> [p \in rest |-> st[p].firstSeq],
                    maxes |-> SequencerMaxes(st, SeqToSet(toPersist))]
    /\ UNCHANGED <<ingestVars, dataVars, totalBytes, stats, task, usage, now, crashes>>

\* LifecycleManager::remove: the partition's entry leaves partition_stats
RemoveStats(st, p) == [q \in DOMAIN st \ {p} |-> st[q]]

\* mutation: the partition's stats are not removed when its task is spawned
SpawnPersist_noRemove ==
    LET p == Head(mgr.queue) IN
    /\ mgr.phase = "spawning"
    /\ usage' = [usage EXCEPT ![p] = IF p \in DOMAIN stats THEN stats[p].bytes ELSE 0]
    /\ task' = [task EXCEPT ![p] = "spawned"]
    /\ mgr' = [mgr EXCEPT !.queue = Tail(@),
                          !.phase = IF Tail(mgr.queue) = <<>> THEN "joining" ELSE @]
    /\ UNCHANGED <<ingestVars, dataVars, totalBytes, stats, now, crashes>>

\* One iteration of the map over to_persist: self.remove(partition_id) under
\* the lock, remembering its bytes, then tokio::spawn of the persist task.
SpawnPersist ==
    LET p == Head(mgr.queue) IN
    /\ mgr.phase = "spawning"
    /\ usage' = [usage EXCEPT ![p] = IF p \in DOMAIN stats THEN stats[p].bytes ELSE 0]
    /\ stats' = RemoveStats(stats, p)
    /\ task' = [task EXCEPT ![p] = "spawned"]
    /\ mgr' = [mgr EXCEPT !.queue = Tail(@),
                          !.phase = IF Tail(mgr.queue) = <<>> THEN "joining" ELSE @]
    /\ UNCHANGED <<ingestVars, dataVars, totalBytes, now, crashes>>

\* join_all has returned: every task finished. For each sequencer in
\* sequencer_maxes, update_min_unpersisted_sequence_number with the minimum
\* first_sequence_number of its `rest` partitions, or its maximum.
MaybePersistFinish ==
    /\ mgr.phase = "joining"
    /\ \A p \in Partitions : task[p] = "none"
    /\ minUnpersisted' = [s \in Sequencers |->
                            IF s \in DOMAIN mgr.maxes THEN NewMinUnpersisted(mgr, s)
                            ELSE minUnpersisted[s]]
    /\ mgr' = [phase |-> "idle", queue |-> <<>>, rest |-> <<>>, maxes |-> <<>>]
    /\ UNCHANGED <<ingestVars, buffer, persisting, persisted, totalBytes, stats,
                   task, usage, now, crashes>>

\* join_all returned and a task had panicked: res.expect("task finished")
\* panics, the manager's loop ends, no min_unpersisted_sequence_number of
\* the round is written and no later maybe_persist runs.
MaybePersistPanic ==
    /\ mgr.phase = "joining"
    /\ \A p \in Partitions : task[p] \in {"none", "panicked"}
    /\ \E p \in Partitions : task[p] = "panicked"
    /\ mgr' = [mgr EXCEPT !.phase = "dead"]
    /\ UNCHANGED <<ingestVars, dataVars, totalBytes, stats, task, usage, now, crashes>>

-----------------------------------------------------------------------------
(* The persist task of partition p                                         *)

\* Persister::persist, first half (spec-modelled, spec.md 4.1 persist): the
\* buffered data is moved into the persisting batch under the lock.
PersistStart(p) ==
    /\ task[p] = "spawned"
    /\ persisting' = [persisting EXCEPT ![p] = buffer[p]]
    /\ buffer' = [buffer EXCEPT ![p] = {}]
    /\ task' = [task EXCEPT ![p] = "persisting"]
    /\ UNCHANGED <<ingestVars, persisted, minUnpersisted, totalBytes, stats, mgr,
                   usage, now, crashes>>

\* Persister::persist, second half: the file is committed to the catalog and
\* the persisting batch dropped.
PersistCommit(p) ==
    /\ task[p] = "persisting"
    /\ persisted' = [persisted EXCEPT ![p] = @ \cup persisting[p]]
    /\ persisting' = [persisting EXCEPT ![p] = {}]
    /\ task' = [task EXCEPT ![p] = "committed"]
    /\ UNCHANGED <<ingestVars, buffer, minUnpersisted, totalBytes, stats, mgr,
                   usage, now, crashes>>

\* Persister::persist panics before its catalog commit: the task ends
\* without releasing its bytes and the persisting batch stays in memory.
\* The panic ends in a restart of the ingester, so it is bounded by the
\* crashes still allowed.
PersistPanic(p) ==
    /\ task[p] \in {"spawned", "persisting"}
    /\ crashes < MaxCrashes
    /\ task' = [task EXCEPT ![p] = "panicked"]
    /\ UNCHANGED <<ingestVars, dataVars, totalBytes, stats, mgr, usage, now, crashes>>

\* state.lock().total_bytes -= partition_memory_usage; the task ends.
ReleaseMemory(p) ==
    /\ task[p] = "committed"
    /\ totalBytes' = totalBytes - usage[p]
    /\ task' = [task EXCEPT ![p] = "none"]
    /\ usage' = [usage EXCEPT ![p] = 0]
    /\ UNCHANGED <<ingestVars, dataVars, stats, mgr, now, crashes>>

-----------------------------------------------------------------------------
(* Crash and restart of the ingester (spec-modelled)                       *)

\* mutation: replay resumes after min_unpersisted_sequence_number
Crash_afterMin ==
    /\ crashes < MaxCrashes
    /\ nextSeq' = [s \in Sequencers |-> minUnpersisted[s] + 1]
    /\ ingest' = [s \in Sequencers |->
                    [state |-> "idle", seq |-> 0, todo |-> {},
                     pend |-> NoPartition, pause |-> FALSE]]
    /\ buffer' = [p \in Partitions |-> {}]
    /\ persisting' = [p \in Partitions |-> {}]
    /\ totalBytes' = 0
    /\ stats' = <<>>
    /\ mgr' = [phase |-> "idle", queue |-> <<>>, rest |-> <<>>, maxes |-> <<>>]
    /\ task' = [p \in Partitions |-> "none"]
    /\ usage' = [p \in Partitions |-> 0]
    /\ crashes' = crashes + 1
    /\ UNCHANGED <<wal, persisted, minUnpersisted, now>>

\* The process dies at any point: buffers, persisting batches, the
\* lifecycle state and the running persist tasks are lost (an uncommitted
\* file is never visible: the catalog insert is the commit). The restarted
\* ingester has a new LifecycleManager and each sequencer's ingest resumes
\* at its min_unpersisted_sequence_number (the first number, 1, if none
\* was recorded).
Crash ==
    /\ crashes < MaxCrashes
    /\ nextSeq' = [s \in Sequencers |-> IF minUnpersisted[s] = 0 THEN 1
                                         ELSE minUnpersisted[s]]
    /\ ingest' = [s \in Sequencers |->
                    [state |-> "idle", seq |-> 0, todo |-> {},
                     pend |-> NoPartition, pause |-> FALSE]]
    /\ buffer' = [p \in Partitions |-> {}]
    /\ persisting' = [p \in Partitions |-> {}]
    /\ totalBytes' = 0
    /\ stats' = <<>>
    /\ mgr' = [phase |-> "idle", queue |-> <<>>, rest |-> <<>>, maxes |-> <<>>]
    /\ task' = [p \in Partitions |-> "none"]
    /\ usage' = [p \in Partitions |-> 0]
    /\ crashes' = crashes + 1
    /\ UNCHANGED <<wal, persisted, minUnpersisted, now>>

\* The clock advances (bounded).
Tick ==
    /\ now < MaxTime
    /\ now' = now + 1
    /\ UNCHANGED <<ingestVars, dataVars, lifeVars, crashes>>

-----------------------------------------------------------------------------
IngestStep(s) ==
    \/ \E P \in (SUBSET PartitionsOf(s)) \ {{}} : ReceiveOp(s, P)
    \/ \E p \in PartitionsOf(s) : BufferWrite(s, p)
    \/ \E b \in WriteSizes : LogWrite(s, b)
    \/ FinishOp(s)
    \/ Resume(s)

TaskStep(p) == PersistStart(p) \/ PersistCommit(p) \/ ReleaseMemory(p) \/ PersistPanic(p)

ManagerStep == MaybePersistBegin \/ SpawnPersist \/ MaybePersistFinish \/ MaybePersistPanic

Next ==
    \/ \E s \in Sequencers : IngestStep(s)
    \/ ManagerStep
    \/ \E p \in Partitions : TaskStep(p)
    \/ Tick
    \/ Crash

\* The manager loop runs every CHECK_INTERVAL, spawned tokio tasks run to
\* completion, apply finishes an operation it started and the paused loop
\* keeps polling can_resume_ingest. New WAL operations and the clock are
\* not assumed to progress.
Fairness ==
    /\ WF_vars(ManagerStep)
    /\ \A p \in Partitions : WF_vars(TaskStep(p))
    /\ \A s \in Sequencers :
          /\ WF_vars(\E p \in PartitionsOf(s) : BufferWrite(s, p))
          /\ WF_vars(\E b \in WriteSizes : LogWrite(s, b))
          /\ WF_vars(FinishOp(s))
          /\ WF_vars(Resume(s))

Spec == Init /\ [][Next]_vars /\ Fairness

-----------------------------------------------------------------------------
(* Properties                                                              *)

TaskStates == {"none", "spawned", "persisting", "committed", "panicked"}

TypeOK ==
    /\ nextSeq \in [Sequencers -> 1..MaxSeq + 1]
    /\ wal \in [Sequencers -> [1..MaxSeq -> SUBSET Partitions]]
    /\ \A s \in Sequencers :
          /\ ingest[s].state \in {"idle", "applying", "paused"}
          /\ ingest[s].todo \subseteq PartitionsOf(s)
          /\ ingest[s].pend \in PartitionsOf(s) \cup {NoPartition}
    /\ buffer \in [Partitions -> SUBSET (1..MaxSeq)]
    /\ persisting \in [Partitions -> SUBSET (1..MaxSeq)]
    /\ persisted \in [Partitions -> SUBSET (1..MaxSeq)]
    /\ minUnpersisted \in [Sequencers -> 0..MaxSeq]
    /\ totalBytes \in Nat
    /\ DOMAIN stats \subseteq Partitions
    /\ \A p \in DOMAIN stats : stats[p] \in StatsRec
    /\ mgr.phase \in {"idle", "spawning", "joining", "dead"}
    /\ task \in [Partitions -> TaskStates]
    /\ usage \in [Partitions -> Nat]
    /\ now \in 0..MaxTime
    /\ crashes \in 0..MaxCrashes

\* total_bytes is the bytes of every tracked partition plus the bytes each
\* running persist task removed from the stats and has not yet released:
\* log_write, the removal in maybe_persist and the task's subtraction,
\* which run on three different tasks, keep the counter exact (and it never
\* underflows).
BytesAccounted ==
    totalBytes = BytesOf(stats, DOMAIN stats)
                 + MapThenSumSet(LAMBDA p : usage[p], {p \in Partitions : task[p] # "none"})

\* Every operation of a sequencer numbered below its recorded
\* min_unpersisted_sequence_number has all its rows in files: replaying the
\* WAL from that number after a crash loses nothing.
MinUnpersistedSafe ==
    \A s \in Sequencers : \A n \in 1..MaxSeq :
        n < minUnpersisted[s] => \A p \in wal[s][n] : n \in persisted[p]

\* The catalog's min_unpersisted_sequence_number of a sequencer never
\* decreases (spec.md 3, invariant 1), whatever the order of writes,
\* snapshots and persists.
MinUnpersistedMonotonic ==
    [][\A s \in Sequencers : minUnpersisted'[s] >= minUnpersisted[s]]_minUnpersisted

\* No row is ever written to two parquet files: a replayed operation is
\* not buffered again for a partition whose files already hold it, so no
\* buffered or persisting row of a partition is also in one of its files.
NoRowPersistedTwice ==
    \A p \in Partitions : (buffer[p] \cup persisting[p]) \cap persisted[p] = {}

\* No acknowledged operation is lost across crashes: every WAL operation
\* behind a sequencer's read position has, for each partition it wrote,
\* its rows buffered, persisting or in a file, unless the loop is still
\* applying it to that partition. A crash moves the read position back to
\* min_unpersisted_sequence_number, so this holds only if that number
\* never passes an operation whose rows are only in memory.
NoLostWrites ==
    \A s \in Sequencers : \A n \in 1..(nextSeq[s] - 1) : \A p \in wal[s][n] :
        \/ n \in buffer[p] \cup persisting[p] \cup persisted[p]
        \/ ingest[s].state = "applying" /\ ingest[s].seq = n /\ p \in ingest[s].todo

\* An ingest loop paused by log_write's backpressure signal is eventually
\* allowed to resume: the manager's memory trigger frees enough bytes.
PausedIngestResumes ==
    \A s \in Sequencers : ingest[s].state = "paused" ~> ingest[s].state # "paused"

====
