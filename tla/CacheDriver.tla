---------------------------- MODULE CacheDriver ----------------------------
(***************************************************************************)
(* CacheDriver (src/cache_system/src/cache/driver.rs) for one key: clients *)
(* call get, peek and set; a get that misses spawns a loader task with a  *)
(* fresh tag; set side-loads a value into the running task, if any.       *)
(* Values are versions of the data behind the key: the source only moves  *)
(* forward, a loader reads it while it runs, and a set stores the version *)
(* current when it is called.                                             *)
(***************************************************************************)
EXTENDS Integers, FiniteSets, TLC

CONSTANTS
    Clients,        \* concurrent callers
    MaxVersion,     \* source updates
    MaxLoads,       \* loader tasks spawned (tag_counter bound)
    MaxEvictions    \* entries dropped by the backend's policy

ASSUME MaxVersion \in Nat /\ MaxLoads \in Nat /\ MaxEvictions \in Nat

Versions == 0..MaxVersion
None == -1            \* no entry / no running query
Panic == -2           \* retrieve_from_shared panicked on RecvError
Dropped == -3         \* the side-load sender was dropped unused

VARIABLES
    src,          \* version of the data the loader reads
    cache,        \* cached_entries[k], or None
    rq,           \* tag of running_queries[k], or None
    tagCounter,   \* tag_counter
    tasks,        \* tasks[tag]: the spawned loader task with that tag
    clients,      \* what each caller is doing
    lastSet,      \* version stored by the latest set (None before any)
    evictions

vars == <<src, cache, rq, tagCounter, tasks, clients, lastSet, evictions>>

TaskPhases == {"loading", "submitting", "spinning", "done"}

Idle == [op |-> "none", phase |-> "idle", task |-> None, floor |-> None,
         result |-> None]

Init ==
    /\ src = 0
    /\ cache = None
    /\ rq = None
    /\ tagCounter = 0
    /\ tasks = [t \in {} |-> {}]
    /\ clients = [c \in Clients |-> Idle]
    /\ lastSet = None
    /\ evictions = 0

-----------------------------------------------------------------------------
(* Clients                                                                 *)

\* mutation: tag_counter is not incremented
Get_sameTag(c) ==
    /\ clients[c].phase \in {"idle", "done"}
    /\ cache = None => (rq # None \/ tagCounter < MaxLoads)
    /\ clients' = [clients EXCEPT ![c] =
          CASE cache # None -> [op |-> "get", phase |-> "done", task |-> None,
                                floor |-> lastSet, result |-> cache]
            [] rq # None -> [op |-> "get", phase |-> "waiting", task |-> rq,
                             floor |-> lastSet, result |-> None]
            [] OTHER -> [op |-> "get", phase |-> "waiting", task |-> tagCounter,
                         floor |-> lastSet, result |-> None]]
    /\ IF cache = None /\ rq = None
       THEN /\ rq' = tagCounter
            /\ tasks' = tasks @@ (tagCounter :> [phase |-> "loading", lv |-> None,
                                                side |-> None, out |-> None,
                                                panicked |-> FALSE])
            /\ UNCHANGED tagCounter
       ELSE UNCHANGED <<rq, tasks, tagCounter>>
    /\ UNCHANGED <<src, cache, lastSet, evictions>>

\* get_with_status under the state lock: a hit returns at once; otherwise
\* join the running query, or spawn a loader task with a fresh tag.
Get(c) ==
    /\ clients[c].phase \in {"idle", "done"}
    /\ cache = None => (rq # None \/ tagCounter < MaxLoads)
    /\ clients' = [clients EXCEPT ![c] =
          CASE cache # None -> [op |-> "get", phase |-> "done", task |-> None,
                                floor |-> lastSet, result |-> cache]
            [] rq # None -> [op |-> "get", phase |-> "waiting", task |-> rq,
                             floor |-> lastSet, result |-> None]
            [] OTHER -> [op |-> "get", phase |-> "waiting", task |-> tagCounter,
                         floor |-> lastSet, result |-> None]]
    /\ IF cache = None /\ rq = None
       THEN /\ rq' = tagCounter
            /\ tasks' = tasks @@ (tagCounter :> [phase |-> "loading", lv |-> None,
                                                side |-> None, out |-> None,
                                                panicked |-> FALSE])
            /\ tagCounter' = tagCounter + 1
       ELSE UNCHANGED <<rq, tasks, tagCounter>>
    /\ UNCHANGED <<src, cache, lastSet, evictions>>

\* peek_with_status: a hit, or join the running query, or None.
Peek(c) ==
    /\ clients[c].phase \in {"idle", "done"}
    /\ clients' = [clients EXCEPT ![c] =
          CASE cache # None -> [op |-> "peek", phase |-> "done", task |-> None,
                                floor |-> lastSet, result |-> cache]
            [] rq # None -> [op |-> "peek", phase |-> "waiting", task |-> rq,
                             floor |-> lastSet, result |-> None]
            [] OTHER -> [op |-> "peek", phase |-> "done", task |-> None,
                         floor |-> lastSet, result |-> None]]
    /\ UNCHANGED <<src, cache, rq, tagCounter, tasks, lastSet, evictions>>

\* retrieve_from_shared: the shared receiver resolves with the task's
\* broadcast, or with RecvError (the sender was dropped), and expect panics.
Receive(c) ==
    LET t == clients[c].task IN
    /\ clients[c].phase = "waiting"
    /\ tasks[t].phase = "done"
    /\ clients' = [clients EXCEPT ![c].phase = "done", ![c].result = tasks[t].out]
    /\ UNCHANGED <<src, cache, rq, tagCounter, tasks, lastSet, evictions>>

\* mutation: the running query is removed but nothing is side-loaded into it
Set_dropSender(c) ==
    /\ clients[c].phase \in {"idle", "done"}
    /\ tasks' = IF rq # None THEN [tasks EXCEPT ![rq].side = Dropped] ELSE tasks
    /\ clients' = [clients EXCEPT ![c] =
          [op |-> "set", phase |-> IF rq # None THEN "joining" ELSE "done",
           task |-> rq, floor |-> None, result |-> None]]
    /\ rq' = None
    /\ cache' = src
    /\ lastSet' = src
    /\ UNCHANGED <<src, tagCounter, evictions>>

\* set under the state lock: remove the running query and send the value
\* on its side-load channel, then store the value in the backend; outside
\* the lock, await the task's join handle.
Set(c) ==
    /\ clients[c].phase \in {"idle", "done"}
    /\ tasks' = IF rq # None THEN [tasks EXCEPT ![rq].side = src] ELSE tasks
    /\ clients' = [clients EXCEPT ![c] =
          [op |-> "set", phase |-> IF rq # None THEN "joining" ELSE "done",
           task |-> rq, floor |-> None, result |-> None]]
    /\ rq' = None
    /\ cache' = src
    /\ lastSet' = src
    /\ UNCHANGED <<src, tagCounter, evictions>>

\* join_handle.await returns once the side-loaded task has finished
SetJoin(c) ==
    /\ clients[c].phase = "joining"
    /\ tasks[clients[c].task].phase = "done"
    /\ clients' = [clients EXCEPT ![c].phase = "done"]
    /\ UNCHANGED <<src, cache, rq, tagCounter, tasks, lastSet, evictions>>

-----------------------------------------------------------------------------
(* The loader task of tag t                                                *)

\* mutation: finalize checks only that some query for the key is running
Finalize_noTagCheck(t, v) ==
    IF rq # None
    THEN /\ rq' = None
         /\ cache' = IF v = None THEN cache ELSE v
    ELSE UNCHANGED <<rq, cache>>

\* ResultSubmitter::finalize under the state lock: only the query still
\* registered under its tag stores its value and leaves running_queries.
Finalize(t, v) ==
    IF rq = t
    THEN /\ rq' = None
         /\ cache' = IF v = None THEN cache ELSE v
    ELSE UNCHANGED <<rq, cache>>

\* select_biased! polls rx_set first: a side-loaded value wins and the
\* loader future is dropped (its ResultSubmitter finalizes without a
\* value); a dropped sender ends the task without a broadcast. Otherwise
\* the loader future is polled: loader.load reads the source and the
\* future goes on to submit.
PollLoading(t) ==
    /\ tasks[t].phase = "loading"
    /\ IF tasks[t].side = None
       THEN /\ tasks' = [tasks EXCEPT ![t].phase = "submitting", ![t].lv = src]
            /\ UNCHANGED <<rq, cache>>
       ELSE /\ tasks' = [tasks EXCEPT ![t].phase = "done",
                                      ![t].out = IF tasks[t].side = Dropped
                                                 THEN Panic ELSE tasks[t].side]
            /\ Finalize(t, None)
    /\ UNCHANGED <<src, tagCounter, clients, lastSet, evictions>>

\* mutation: a submit that finds its query gone returns the loaded value
\* instead of waiting for the side-loaded one
Submit_noSpin(t) ==
    /\ tasks[t].phase = "submitting"
    /\ tasks' = [tasks EXCEPT ![t].phase = "done", ![t].out = tasks[t].lv]
    /\ Finalize(t, tasks[t].lv)
    /\ UNCHANGED <<src, tagCounter, clients, lastSet, evictions>>

\* submitter.submit(v): if this query was running, v is stored and
\* broadcast; if not, it was side-loaded and the future spins on yield_now.
Submit(t) ==
    /\ tasks[t].phase = "submitting"
    /\ tasks' = [tasks EXCEPT ![t].phase = IF rq = t THEN "done" ELSE "spinning",
                              ![t].out = IF rq = t THEN tasks[t].lv ELSE None]
    /\ Finalize(t, tasks[t].lv)
    /\ UNCHANGED <<src, tagCounter, clients, lastSet, evictions>>

\* mutation: a blocking spin (std::thread::yield_now) never returns to
\* select_biased!, so rx_set is not polled again
PollSpinning_blocking(t) ==
    /\ tasks[t].phase = "spinning"
    /\ UNCHANGED vars

\* the spinning loader is polled again after rx_set: the side-loaded value
\* is taken and broadcast
PollSpinning(t) ==
    /\ tasks[t].phase = "spinning"
    /\ tasks[t].side # None
    /\ tasks' = [tasks EXCEPT ![t].phase = "done",
                              ![t].out = IF tasks[t].side = Dropped
                                         THEN Panic ELSE tasks[t].side]
    /\ UNCHANGED <<src, cache, rq, tagCounter, clients, lastSet, evictions>>

\* mutation: a panicking loader leaves its running query registered
LoaderPanic_noFinalize(t) ==
    /\ tasks[t].phase = "loading"
    /\ tasks' = [tasks EXCEPT ![t].phase = "done", ![t].out = Panic,
                              ![t].panicked = TRUE]
    /\ UNCHANGED <<src, cache, rq, tagCounter, clients, lastSet, evictions>>

\* loader.load panics: the ResultSubmitter's Drop finalizes the query and
\* tx_main is dropped, so every receiver gets RecvError. A set may have
\* landed after this poll of select_biased! checked rx_set: the side-loaded
\* value is then in the backend but never broadcast.
LoaderPanic(t) ==
    /\ tasks[t].phase = "loading"
    /\ tasks' = [tasks EXCEPT ![t].phase = "done", ![t].out = Panic,
                              ![t].panicked = TRUE]
    /\ Finalize(t, None)
    /\ UNCHANGED <<src, tagCounter, clients, lastSet, evictions>>

-----------------------------------------------------------------------------
(* The environment                                                         *)

\* the data behind the key changes
Update ==
    /\ src < MaxVersion
    /\ src' = src + 1
    /\ UNCHANGED <<cache, rq, tagCounter, tasks, clients, lastSet, evictions>>

\* the backend's policy drops the entry
Evict ==
    /\ cache # None
    /\ evictions < MaxEvictions
    /\ cache' = None
    /\ evictions' = evictions + 1
    /\ UNCHANGED <<src, rq, tagCounter, tasks, clients, lastSet>>

ClientStep(c) ==
    \/ Get(c) \/ Peek(c) \/ Set(c) \/ Receive(c) \/ SetJoin(c)

TaskStep(t) ==
    /\ t \in DOMAIN tasks
    /\ \/ PollLoading(t) \/ Submit(t) \/ PollSpinning(t) \/ LoaderPanic(t)

Next ==
    \/ \E c \in Clients : ClientStep(c)
    \/ \E t \in DOMAIN tasks : TaskStep(t)
    \/ Update
    \/ Evict

\* Spawned tokio tasks are polled until they finish, and a caller awaiting
\* a shared receiver that has resolved is woken. Callers are not obliged
\* to call again, and the source and the backend need not act.
Fairness ==
    /\ \A t \in 0..MaxLoads - 1 : WF_vars(TaskStep(t))
    /\ \A c \in Clients : WF_vars(Receive(c))

Spec == Init /\ [][Next]_vars /\ Fairness

-----------------------------------------------------------------------------
(* Properties                                                              *)

Results == Versions \cup {None, Panic}

TypeOK ==
    /\ src \in Versions
    /\ cache \in Versions \cup {None}
    /\ tagCounter \in 0..MaxLoads
    /\ DOMAIN tasks = 0..tagCounter - 1
    /\ rq \in DOMAIN tasks \cup {None}
    /\ \A t \in DOMAIN tasks :
          /\ tasks[t].phase \in TaskPhases
          /\ tasks[t].lv \in Versions \cup {None}
          /\ tasks[t].side \in Versions \cup {None, Dropped}
          /\ tasks[t].out \in Results
          /\ tasks[t].panicked \in BOOLEAN
    /\ \A c \in Clients :
          /\ clients[c].phase \in {"idle", "waiting", "joining", "done"}
          /\ clients[c].result \in Results
    /\ lastSet \in Versions \cup {None}

\* A get or peek never returns a version older than one a set stored
\* before the call: a loader that started before the set, even one that
\* gets to submit after an eviction and a new load, never puts its older
\* value back (the tag check of ResultSubmitter::finalize).
GetNotStale ==
    \A c \in Clients :
        /\ clients[c].op \in {"get", "peek"}
        /\ clients[c].phase = "done"
        /\ clients[c].result \in Versions
        => clients[c].result >= clients[c].floor

\* Everyone waiting on a side-loaded query whose loader did not panic
\* receives the side-loaded value, also when the set lands between the
\* task's poll of rx_set and its submit (the spin on yield_now).
SideLoadWins ==
    \A t \in DOMAIN tasks :
        tasks[t].phase = "done" /\ tasks[t].side \in Versions /\ ~tasks[t].panicked
        => tasks[t].out = tasks[t].side

\* A caller only sees the "cache loader panicked" panic when the loader of
\* the query it waited on panicked: removing a running query in set or in
\* ResultSubmitter::finalize never drops the side-load sender unused.
NoSpuriousPanic ==
    \A c \in Clients :
        clients[c].phase = "done" /\ clients[c].result = Panic
        => tasks[clients[c].task].panicked

\* running_queries only ever holds a query whose task is still running:
\* a finished or panicked loader never leaves the key blocked.
RunningQueryIsLive ==
    rq # None => tasks[rq].phase # "done"

\* Every get that waits on a loader eventually returns.
WaitersReturn ==
    \A c \in Clients : clients[c].phase = "waiting" ~> clients[c].phase = "done"

====
