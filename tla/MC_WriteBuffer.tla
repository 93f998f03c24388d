---------------------------- MODULE MC_WriteBuffer ----------------------------
EXTENDS WriteBuffer, TLC

CONSTANTS s1, s2, w1, w2, h1, h2, b1, b2, p1

\* One handler per sequencer; handlers share no state (stream_handler).
\* Two sequencers make a writer's pending stores split into batches.
MCHandlerSeq == (h1 :> s1) @@ (h2 :> s2)

\* Header names in the spellings producers use, and their lower case.
MCHeaderNames == {"content-type", "Content-Type", "uber-trace-id", "iox-namespace", "x-other"}
MCCaseFold == [n \in MCHeaderNames |->
                  IF n = "Content-Type" THEN "content-type" ELSE n]

\* w1 writes with no partition key and a sampled span context; w2 deletes
\* with no table name, in the empty namespace, with a span context that
\* is not sampled: the cases the codec writes as "" or drops.
MCWriterOps ==
    w1 :> [kind |-> "write", ns |-> Str("ns1"), tables |-> b1, pkey |-> None,
           span |-> [id |-> 1, sampled |-> TRUE]]
    @@ w2 :> [kind |-> "delete", ns |-> Str(""), pred |-> p1, table |-> None,
              span |-> [id |-> 1, sampled |-> FALSE]]

\* h1's reader has a trace collector and h2's has none (from_headers keeps
\* a span context only with one).
MCCollector == (h1 :> TRUE) @@ (h2 :> FALSE)
=============================================================================
