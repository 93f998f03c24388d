---------------------------- MODULE WriteBufferLog ----------------------------
(***************************************************************************)
(* What a write buffer promises its readers, from the traits of            *)
(* src/write_buffer/src/core.rs: each sequencer is a log of operations     *)
(* numbered 0, 1, 2, ...; a stream handler of a sequencer has a cursor, the *)
(* sequence number it reads next, and yields the log from there in order.  *)
(* A cursor outside the retained part of the log ends the handler's        *)
(* streams with UnknownSequenceNumber until it seeks or resets.            *)
(***************************************************************************)
EXTENDS Integers, Sequences, SequencesExt

CONSTANTS
    Sequencers,     \* sequencer ids
    Handlers,       \* stream handlers
    HandlerSeq      \* [Handlers -> Sequencers]: the sequencer of a handler

VARIABLES
    log,            \* log[s]: operation ids; entry i has sequence number i - 1
    earliest,       \* earliest[s]: first sequence number retention keeps
    cursor,         \* cursor[h]: sequence number the handler reads next
    ended,          \* ended[h]: its streams failed with UnknownSequenceNumber
    out             \* out[h]: sequence numbers yielded since the cursor was set

vars == <<log, earliest, cursor, ended, out>>

\* fetch_high_watermark: the sequence number the next entry will get.
Watermark(s) == Len(log[s])

Init ==
    /\ log = [s \in Sequencers |-> <<>>]
    /\ earliest = [s \in Sequencers |-> 0]
    /\ cursor = [h \in Handlers |-> 0]
    /\ ended = [h \in Handlers |-> FALSE]
    /\ out = [h \in Handlers |-> <<>>]

\* A batch of stored operations becomes visible at the end of a log; no
\* entry already in it changes.
AppendBatch(s) ==
    /\ DOMAIN log' = Sequencers
    /\ IsStrictPrefix(log[s], log'[s])
    /\ \A t \in Sequencers \ {s} : log'[t] = log[t]
    /\ UNCHANGED <<earliest, cursor, ended, out>>

\* A stream yields the entry at the cursor.
Advance(h) ==
    /\ ~ended[h]
    /\ cursor[h] < Watermark(HandlerSeq[h])
    /\ cursor' = [cursor EXCEPT ![h] = @ + 1]
    /\ out' = [out EXCEPT ![h] = Append(@, cursor[h])]
    /\ UNCHANGED <<log, earliest, ended>>

\* A cursor retention has passed, or one in the future, fails the stream.
Fail(h) ==
    LET s == HandlerSeq[h] IN
    /\ ~ended[h]
    /\ cursor[h] < earliest[s] \/ cursor[h] > Watermark(s)
    /\ ended' = [ended EXCEPT ![h] = TRUE]
    /\ UNCHANGED <<log, earliest, cursor, out>>

\* seek and reset_to_earliest move the cursor and revive the handler.
Move(h) ==
    /\ DOMAIN cursor' = Handlers
    /\ cursor'[h] \in Nat
    /\ \A g \in Handlers \ {h} : cursor'[g] = cursor[g]
    /\ ended' = [ended EXCEPT ![h] = FALSE]
    /\ out' = [out EXCEPT ![h] = <<>>]
    /\ UNCHANGED <<log, earliest>>

\* Retention drops the oldest entry of a log.
Retain(s) ==
    /\ earliest[s] < Watermark(s)
    /\ earliest' = [earliest EXCEPT ![s] = @ + 1]
    /\ UNCHANGED <<log, cursor, ended, out>>

Next ==
    \/ \E s \in Sequencers : Retain(s)
    \/ \E s \in Sequencers : AppendBatch(s)
    \/ \E h \in Handlers : Advance(h) \/ Fail(h) \/ Move(h)

Spec == Init /\ [][Next]_vars
=============================================================================
