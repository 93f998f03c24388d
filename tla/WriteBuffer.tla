------------------------------ MODULE WriteBuffer ------------------------------
(***************************************************************************)
(* The write buffer contract of src/write_buffer/src/core.rs, as its       *)
(* traits document it and its generic tests (test_utils) exercise it.      *)
(*                                                                         *)
(* Writers: store_operation may stay pending to gather a batch; the batch  *)
(* is submitted when its linger time expires or on flush, and every store  *)
(* of it then returns with its sequence number and producer timestamp.     *)
(* Readers: a stream handler keeps the sequence number it reads next; a    *)
(* stream of it fetches entries ahead into a buffer and yields them; a     *)
(* dropped stream loses what it fetched but did not yield, and the next    *)
(* stream starts where the handler stands.  seek and reset_to_earliest    *)
(* need the handler without a stream (&mut self).  A sequence number     *)
(* retention removed, or one in the future, ends the handler's streams     *)
(* with UnknownSequenceNumber.                                             *)
(*                                                                         *)
(* Messages: a written entry carries its operation encoded by the codec   *)
(* (IoxHeaders::headers and encode_operation, module Codec); a stream      *)
(* decodes what it yields with from_headers and decode.                    *)
(***************************************************************************)
EXTENDS Integers, Sequences, SequencesExt, Codec

CONSTANTS
    Sequencers,     \* sequencer ids
    Writers,        \* WriteBufferWriting instances
    Handlers,       \* WriteBufferStreamHandler instances
    HandlerSeq,     \* [Handlers -> Sequencers]
    SeekTargets,    \* sequence numbers seek is called with
    MaxOps,         \* bound on store_operation calls
    MaxTime,        \* bound on the time provider
    MaxPrefetch,    \* entries a stream fetches ahead of what it yielded
    WriterOps,      \* WriterOps[w]: the operation writer w stores
    Collector       \* Collector[h]: the handler's reader has a trace collector

ASSUME /\ WriterOps \in [Writers -> Operations]
       /\ Collector \in [Handlers -> BOOLEAN]

VARIABLES
    created,        \* the sequencers exist (auto-created by a client)
    log,            \* log[s]: entries [id, ts]; entry i has sequence number i - 1
    earliest,       \* earliest[s]: first sequence number still retained
    pending,        \* pending[w]: store_operation calls not yet returned
    calls,          \* history: [id, s, ts] of every store_operation call
    nextOp,         \* id of the next operation
    flushing,       \* flushing[w]: ids a running flush waits for, or {}
    clock,          \* the time provider
    next,           \* next[h]: sequence number the handler reads next
    ended,          \* ended[h]: streams end with UnknownSequenceNumber
    stream,         \* stream[h]: "none" | "open"
    fpos,           \* fpos[h]: sequence number the open stream fetches next
    buf,            \* buf[h]: sequence numbers fetched but not yielded
    got,            \* got[h]: sequence numbers yielded since the last move
    received        \* received[h]: the operations those entries decoded to

writerVars == <<pending, calls, nextOp, flushing, clock>>
readerVars == <<next, ended, stream, fpos, buf, got, received>>
vars == <<created, log, earliest, writerVars, readerVars>>

\* fetch_high_watermark: the next sequence number to be added, 0 when empty.
HighWatermark(s) == Len(log[s])

\* The message a produced entry carries (the producers are not in this
\* repository): the operation's IOx headers and encoded payload.
Message(op) ==
    [hdrs |-> Headers(ProducerHeaders(op.span, op.ns)),
     data |-> EncodeOperation(op.ns.text, op)]

\* Entries of a pending list that go to sequencer s, and the others.
For(p, s) == SelectSeq(p, LAMBDA c : c.s = s)
NotFor(p, s) == SelectSeq(p, LAMBDA c : c.s # s)

Init ==
    /\ created = FALSE
    /\ log = [s \in Sequencers |-> <<>>]
    /\ earliest = [s \in Sequencers |-> 0]
    /\ pending = [w \in Writers |-> <<>>]
    /\ calls = {}
    /\ nextOp = 1
    /\ flushing = [w \in Writers |-> {}]
    /\ clock = 0
    /\ next = [h \in Handlers |-> 0]
    /\ ended = [h \in Handlers |-> FALSE]
    /\ stream = [h \in Handlers |-> "none"]
    /\ fpos = [h \in Handlers |-> 0]
    /\ buf = [h \in Handlers |-> <<>>]
    /\ got = [h \in Handlers |-> <<>>]
    /\ received = [h \in Handlers |-> <<>>]

\* writing(true) / reading(true) create the sequencers; with false they
\* fail while the sequencers are missing, which changes nothing.
CreateSequencers ==
    /\ ~created
    /\ created' = TRUE
    /\ UNCHANGED <<log, earliest, writerVars, readerVars>>

\* store_operation to a known sequencer: the call is pending, with the
\* producer time taken when it was made.
Store(w, s) ==
    LET c == [id |-> nextOp, s |-> s, ts |-> clock, op |-> WriterOps[w]] IN
    /\ created
    /\ nextOp <= MaxOps
    /\ pending' = [pending EXCEPT ![w] = Append(@, c)]
    /\ calls' = calls \cup {c}
    /\ nextOp' = nextOp + 1
    /\ UNCHANGED <<created, log, earliest, flushing, clock, readerVars>>

\* The writer's batch for sequencer s is written (its linger time expired,
\* or a flush asked for it): its operations get the next sequence numbers
\* in the order they were stored, keep the time of their own call, and
\* their store_operation calls return.
Submit(w, s) ==
    LET batch == For(pending[w], s) IN
    /\ batch # <<>>
    /\ log' = [log EXCEPT ![s] = @ \o [i \in 1..Len(batch) |->
                                          [id |-> batch[i].id, ts |-> batch[i].ts,
                                           msg |-> Message(batch[i].op)]]]
    /\ pending' = [pending EXCEPT ![w] = NotFor(@, s)]
    /\ UNCHANGED <<created, earliest, calls, nextOp, flushing, clock, readerVars>>

\* flush: waits for the store calls outstanding when it was called.
FlushBegin(w) ==
    /\ created
    /\ flushing[w] = {}
    /\ pending[w] # <<>>
    /\ flushing' = [flushing EXCEPT ![w] = {pending[w][i].id : i \in 1..Len(pending[w])}]
    /\ UNCHANGED <<created, log, earliest, pending, calls, nextOp, clock, readerVars>>

\* flush returns once none of the calls it waits for is pending.
FlushEnd(w) ==
    /\ flushing[w] # {}
    /\ \A i \in 1..Len(pending[w]) : pending[w][i].id \notin flushing[w]
    /\ flushing' = [flushing EXCEPT ![w] = {}]
    /\ UNCHANGED <<created, log, earliest, pending, calls, nextOp, clock, readerVars>>

\* The time provider advances.
Tick ==
    /\ clock < MaxTime
    /\ clock' = clock + 1
    /\ UNCHANGED <<created, log, earliest, pending, calls, nextOp, flushing, readerVars>>

Retain_unguarded(s) ==
    /\ earliest' = [earliest EXCEPT ![s] = @ + 1]
    /\ UNCHANGED <<created, log, writerVars, readerVars>>

\* Retention removes the oldest entry of a sequencer.
Retain(s) ==
    /\ earliest[s] < HighWatermark(s)
    /\ earliest' = [earliest EXCEPT ![s] = @ + 1]
    /\ UNCHANGED <<created, log, writerVars, readerVars>>

-----------------------------------------------------------------------------
(* Stream handlers                                                         *)

\* stream(): a new stream starts at the handler's sequence number.
OpenStream(h) ==
    /\ created
    /\ stream[h] = "none"
    /\ stream' = [stream EXCEPT ![h] = "open"]
    /\ fpos' = [fpos EXCEPT ![h] = next[h]]
    /\ buf' = [buf EXCEPT ![h] = <<>>]
    /\ UNCHANGED <<created, log, earliest, writerVars, next, ended, got, received>>

Fetch_advancesHandler(h) ==
    LET s == HandlerSeq[h] IN
    /\ stream[h] = "open"
    /\ ~ended[h]
    /\ Len(buf[h]) < MaxPrefetch
    /\ earliest[s] <= fpos[h] /\ fpos[h] < HighWatermark(s)
    /\ buf' = [buf EXCEPT ![h] = Append(@, fpos[h])]
    /\ fpos' = [fpos EXCEPT ![h] = @ + 1]
    /\ next' = [next EXCEPT ![h] = fpos[h] + 1]
    /\ UNCHANGED <<created, log, earliest, writerVars, ended, stream, got, received>>

\* The stream fetches a retained entry ahead of the consumer.
Fetch(h) ==
    LET s == HandlerSeq[h] IN
    /\ stream[h] = "open"
    /\ ~ended[h]
    /\ Len(buf[h]) < MaxPrefetch
    /\ earliest[s] <= fpos[h] /\ fpos[h] < HighWatermark(s)
    /\ buf' = [buf EXCEPT ![h] = Append(@, fpos[h])]
    /\ fpos' = [fpos EXCEPT ![h] = @ + 1]
    /\ UNCHANGED <<created, log, earliest, writerVars, next, ended, stream, got, received>>

\* stream.next() yields the oldest fetched entry, decoded from its headers
\* and payload; the handler remembers the sequence number after it.
Yield(h) ==
    LET e == log[HandlerSeq[h]][Head(buf[h]) + 1]
        hd == FromHeaders(e.msg.hdrs, Collector[h])
    IN
    /\ stream[h] = "open"
    /\ buf[h] # <<>>
    /\ received' = [received EXCEPT ![h] =
                       Append(@, IF IsError(hd) THEN hd ELSE Decode(e.msg.data, hd))]
    /\ next' = [next EXCEPT ![h] = Head(buf[h]) + 1]
    /\ got' = [got EXCEPT ![h] = Append(@, Head(buf[h]))]
    /\ buf' = [buf EXCEPT ![h] = Tail(@)]
    /\ UNCHANGED <<created, log, earliest, writerVars, ended, stream, fpos>>

\* The sequence number to read is unknown: retention removed it, or it lies
\* beyond the high watermark (the stream may also stay pending there).  The
\* stream yields UnknownSequenceNumber and the handler's streams end.
YieldError(h) ==
    LET s == HandlerSeq[h] IN
    /\ stream[h] = "open"
    /\ ~ended[h]
    /\ buf[h] = <<>>
    /\ fpos[h] < earliest[s] \/ fpos[h] > HighWatermark(s)
    /\ ended' = [ended EXCEPT ![h] = TRUE]
    /\ UNCHANGED <<created, log, earliest, writerVars, next, stream, fpos, buf, got, received>>

\* The stream is dropped with whatever it fetched (fpos is dead until the
\* next stream sets it).
DropStream(h) ==
    /\ stream[h] = "open"
    /\ stream' = [stream EXCEPT ![h] = "none"]
    /\ buf' = [buf EXCEPT ![h] = <<>>]
    /\ fpos' = [fpos EXCEPT ![h] = 0]
    /\ UNCHANGED <<created, log, earliest, writerVars, next, ended, got, received>>

\* seek(n): the next entry yielded has sequence number n; a failed handler
\* recovers.
Seek(h, n) ==
    /\ created
    /\ stream[h] = "none"
    /\ next' = [next EXCEPT ![h] = n]
    /\ ended' = [ended EXCEPT ![h] = FALSE]
    /\ got' = [got EXCEPT ![h] = <<>>]
    /\ received' = [received EXCEPT ![h] = <<>>]
    /\ UNCHANGED <<created, log, earliest, writerVars, stream, fpos, buf>>

\* reset_to_earliest: jump to the earliest retained sequence number.
ResetToEarliest(h) ==
    /\ created
    /\ stream[h] = "none"
    /\ next' = [next EXCEPT ![h] = earliest[HandlerSeq[h]]]
    /\ ended' = [ended EXCEPT ![h] = FALSE]
    /\ got' = [got EXCEPT ![h] = <<>>]
    /\ received' = [received EXCEPT ![h] = <<>>]
    /\ UNCHANGED <<created, log, earliest, writerVars, stream, fpos, buf>>

Next ==
    \/ CreateSequencers
    \/ \E w \in Writers, s \in Sequencers : Store(w, s) \/ Submit(w, s)
    \/ \E w \in Writers : FlushBegin(w) \/ FlushEnd(w)
    \/ Tick
    \/ \E s \in Sequencers : Retain(s)
    \/ \E h \in Handlers :
          \/ OpenStream(h) \/ Fetch(h) \/ Yield(h) \/ YieldError(h)
          \/ DropStream(h) \/ ResetToEarliest(h)
    \/ \E h \in Handlers, n \in SeekTargets : Seek(h, n)

Spec == Init /\ [][Next]_vars

-----------------------------------------------------------------------------
(* Properties                                                              *)

Call == [id : 1..MaxOps, s : Sequencers, ts : 0..MaxTime, op : Operations]

Messages == {Message(op) : op \in Operations}

TypeOK ==
    /\ created \in BOOLEAN
    /\ log \in [Sequencers -> Seq([id : 1..MaxOps, ts : 0..MaxTime, msg : Messages])]
    /\ \A s \in Sequencers : earliest[s] \in 0..HighWatermark(s)
    /\ pending \in [Writers -> Seq(Call)]
    /\ calls \subseteq Call
    /\ flushing \in [Writers -> SUBSET (1..MaxOps)]
    /\ next \in [Handlers -> Nat]
    /\ stream \in [Handlers -> {"none", "open"}]
    /\ buf \in [Handlers -> Seq(Nat)]
    /\ got \in [Handlers -> Seq(Nat)]
    /\ \A h \in Handlers : Len(received[h]) = Len(got[h])

(* The operation a handler decodes from an entry is the one its writer    *)
(* stored (assert_write_op_eq, test_multi_namespaces, test_span_context): *)
(* namespace, tables or predicate, partition key or table name survive   *)
(* IoxHeaders::headers, encode_operation, from_headers and decode, through *)
(* batching, prefetch, dropped streams and seeks; the span context is     *)
(* kept only when it is sampled and the reader collects traces.           *)
DecodedAsStored ==
    \A h \in Handlers : \A i \in 1..Len(received[h]) :
        LET e == log[HandlerSeq[h]][got[h][i] + 1]
        IN \E c \in calls : c.id = e.id /\ received[h][i] = Received(c.op, Collector[h])

(* The handlers implement the reader promise of the traits: the refinement *)
(* maps each log to its operation ids and each handler to the sequence    *)
(* number it reads next and what it yielded since it was last moved.      *)
Log == INSTANCE WriteBufferLog WITH
    log <- [s \in Sequencers |-> [i \in 1..Len(log[s]) |-> log[s][i].id]],
    cursor <- next,
    out <- got

LogSpec == Log!Spec
=============================================================================
