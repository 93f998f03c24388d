------------------------------ MODULE Backoff ------------------------------
(***************************************************************************)
(* Exponential backoff with jitter, src/backoff/src/lib.rs.                *)
(*                                                                         *)
(* One `Backoff` driven by `retry_all_errors`: the operation is called,    *)
(* and on an error `next()` picks the following interval and the caller   *)
(* sleeps for the previous one.  Durations are whole time units; the f64   *)
(* range `init_backoff..(next_backoff_secs * base)` of `gen_range` is the  *)
(* half-open integer interval it covers.  The configuration is chosen in   *)
(* Init from `Configs`, so one run checks every configuration in the set.  *)
(***************************************************************************)
EXTENDS Integers

CONSTANTS
    Configs     \* set of [init |-> Nat, max |-> Nat, base |-> Nat]

VARIABLES
    cfg,        \* the BackoffConfig this Backoff was created from
    nextB,      \* next_backoff_secs
    slept,      \* the last interval returned by next(), 0 before any
    phase       \* "call" | "sleep" | "done" | "panicked"

vars == <<cfg, nextB, slept, phase>>

\* The values `gen_range(lo..hi)` may return; it panics when this is empty.
GenRange(lo, hi) == lo .. (hi - 1)

MinOf(a, b) == IF a < b THEN a ELSE b

Init_zeroNext ==
    /\ cfg \in Configs
    /\ nextB = 0
    /\ slept = 0
    /\ phase = "call"

Init_offByOne ==
    /\ cfg \in Configs
    /\ nextB = cfg.init - 1
    /\ slept = 0
    /\ phase = "call"

\* Backoff::new_with_rng: next_backoff_secs starts at init_backoff.
Init ==
    /\ cfg \in Configs
    /\ nextB = cfg.init
    /\ slept = 0
    /\ phase = "call"

(***************************************************************************)
(* Backoff::next, as the step of retry_with_backoff after an error: draw   *)
(* from init..next*base, cap at max, return the old next_backoff_secs.     *)
(***************************************************************************)
NextBackoff_noCap ==
    LET range == GenRange(cfg.init, nextB * cfg.base) IN
    \/ /\ range = {}
       /\ phase' = "panicked"
       /\ UNCHANGED <<cfg, nextB, slept>>
    \/ \E r \in range :
          /\ nextB' = r
          /\ slept' = nextB
          /\ phase' = "sleep"
          /\ UNCHANGED cfg

NextBackoff ==
    LET range == GenRange(cfg.init, nextB * cfg.base) IN
    \/ /\ range = {}
       /\ phase' = "panicked"
       /\ UNCHANGED <<cfg, nextB, slept>>
    \/ \E r \in range :
          /\ nextB' = MinOf(cfg.max, r)
          /\ slept' = nextB
          /\ phase' = "sleep"
          /\ UNCHANGED cfg

(***************************************************************************)
(* One call of do_stuff inside the loop of retry_with_backoff, through     *)
(* retry_all_errors: Ok breaks out of the loop, Err continues with next(). *)
(***************************************************************************)
Attempt ==
    /\ phase = "call"
    /\ \/ /\ phase' = "done"
          /\ UNCHANGED <<cfg, nextB, slept>>
       \/ NextBackoff

\* tokio::time::sleep(backoff).await, then the loop calls do_stuff again.
Sleep ==
    /\ phase = "sleep"
    /\ phase' = "call"
    /\ UNCHANGED <<cfg, nextB, slept>>

\* The retry loop has returned (or the task panicked): nothing more happens.
Finished ==
    /\ phase \in {"done", "panicked"}
    /\ UNCHANGED vars

Next == Attempt \/ Sleep \/ Finished

\* The task running the retry loop is polled, and its timer fires.
Spec == Init /\ [][Next]_vars /\ WF_vars(Attempt) /\ WF_vars(Sleep)

-----------------------------------------------------------------------------
(* A configuration a caller would write: a positive initial backoff, a     *)
(* cap not below it, and a base that grows the interval.                   *)
ValidConfig(c) == c.init > 0 /\ c.max >= c.init /\ c.base > 1

TypeOK ==
    /\ cfg \in Configs
    /\ nextB \in Nat
    /\ slept \in Nat
    /\ phase \in {"call", "sleep", "done", "panicked"}

(* For every valid configuration, no sequence of failed attempts makes     *)
(* next() call gen_range on an empty range, which panics the caller.       *)
NeverPanics == ValidConfig(cfg) => phase # "panicked"

(* For a valid configuration every interval next() returns lies between    *)
(* init_backoff and max_backoff: the jitter never goes below the initial   *)
(* backoff and the cap applies to every round after the first.             *)
BackoffBounded ==
    (ValidConfig(cfg) /\ slept # 0) => slept \in cfg.init .. cfg.max
=============================================================================
