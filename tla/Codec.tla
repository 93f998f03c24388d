------------------------------- MODULE Codec -------------------------------
(***************************************************************************)
(* The write buffer's message codec (src/write_buffer/src/codec.rs): the   *)
(* IOx headers a message carries (IoxHeaders::headers on the producer,     *)
(* IoxHeaders::from_headers on the consumer) and the payload of an         *)
(* operation (encode_operation, decode).                                   *)
(*                                                                         *)
(* Byte strings are abstracted to what the codec tells apart: a header     *)
(* value is valid UTF-8 text, text with a control character (valid UTF-8   *)
(* but not a valid http HeaderValue), bytes that are not UTF-8, or a       *)
(* Jaeger trace context as format_jaeger_trace_context writes it. Header   *)
(* names are compared case-insensitively through CaseFold. The table       *)
(* batch of a write and a delete predicate are opaque values: their        *)
(* encodings belong to mutable_batch_pb and generated_types.               *)
(***************************************************************************)
EXTENDS Integers, Sequences, SequencesExt

CONSTANTS
    HeaderNames,    \* header names as a producer may spell them
    CaseFold,       \* CaseFold[n]: n in lower case
    Texts,          \* UTF-8 texts used as namespaces and header values
    SpanIds,        \* trace/span ids of span contexts
    Batches,        \* encoded table batches of a write
    BadBatch,       \* a batch decode_database_batch rejects
    Predicates,     \* delete predicates
    TableNames,     \* non-empty table names
    PartitionKeys,  \* non-empty partition keys
    None            \* an absent Option

HEADER_CONTENT_TYPE == "content-type"
HEADER_TRACE_CONTEXT == "uber-trace-id"
HEADER_NAMESPACE == "iox-namespace"
CONTENT_TYPE_PROTOBUF == "application/x-protobuf"

\* A header value: the byte strings the codec tells apart.
Str(t) == [kind |-> "text", text |-> t]
CtrlText == [kind |-> "ctrl"]
NonUtf8 == [kind |-> "bytes"]
\* format_jaeger_trace_context: the context's ids and its sampled flag
JaegerValue(ctx) == [kind |-> "jaeger", id |-> ctx.id, sampled |-> ctx.sampled]

SpanContexts == [id : SpanIds, sampled : BOOLEAN]
Error(kind) == [error |-> kind]
IsError(r) == "error" \in DOMAIN r

\* std::str::from_utf8 / String::from_utf8 succeed
IsUtf8(v) == v.kind # "bytes"
\* HeaderValue::from_bytes succeeds: no control characters
IsHeaderValue(v) == v.kind # "ctrl"

\* TraceHeaderParser::parse of a Jaeger header (trace_http, not in this
\* repository): a formatted context parses back, anything else is an error.
ParseJaeger(v) ==
    IF v.kind = "jaeger" THEN [id |-> v.id, sampled |-> v.sampled]
    ELSE Error("trace_context")

-----------------------------------------------------------------------------
(* IoxHeaders::from_headers                                                *)

\* One iteration of the loop over the headers. A header name matches at
\* most one of the three comparisons; a failure returns at once. The
\* trace header is only read when the consumer has a trace collector, and
\* a value HeaderValue rejects is skipped; a context that is not sampled
\* clears the one found so far.
HeaderStep(acc, hdr, collector) ==
    LET name == CaseFold[hdr[1]]
        v == hdr[2]
    IN CASE name = HEADER_CONTENT_TYPE ->
              IF v = Str(CONTENT_TYPE_PROTOBUF) THEN [acc EXCEPT !.ct = "protobuf"]
              ELSE IF IsUtf8(v) THEN Error("unknown_format") ELSE Error("content_type_utf8")
         [] name = HEADER_TRACE_CONTEXT /\ collector /\ IsHeaderValue(v) ->
              LET ctx == ParseJaeger(v)
              IN IF IsError(ctx) THEN ctx
                 ELSE [acc EXCEPT !.span = IF ctx.sampled THEN ctx ELSE None]
         [] name = HEADER_NAMESPACE ->
              IF IsUtf8(v) THEN [acc EXCEPT !.ns = v] ELSE Error("namespace_utf8")
         [] OTHER -> acc

\* The headers of a received message, in order, into IoxHeaders; no
\* content type is an error and the namespace defaults to "".
FromHeaders(hdrs, collector) ==
    LET r == FoldLeft(LAMBDA acc, h : IF IsError(acc) THEN acc
                                      ELSE HeaderStep(acc, h, collector),
                      [ct |-> None, span |-> None, ns |-> None], hdrs)
    IN CASE IsError(r) -> r
         [] r.ct = None -> Error("no_content_type")
         [] OTHER -> [r EXCEPT !.ns = IF @ = None THEN Str("") ELSE @]

\* IoxHeaders::headers: content type, the trace context if any, namespace.
Headers(h) ==
    <<<<HEADER_CONTENT_TYPE, Str(CONTENT_TYPE_PROTOBUF)>>>>
    \o (IF h.span = None THEN <<>>
        ELSE <<<<HEADER_TRACE_CONTEXT, JaegerValue(h.span)>>>>)
    \o <<<<HEADER_NAMESPACE, h.ns>>>>

-----------------------------------------------------------------------------
(* Operations                                                              *)

\* encode_operation: a WriteBufferPayload; encode_write writes a missing
\* partition key as "" and a delete without a table is written as "".
EncodeOperation(db, op) ==
    IF op.kind = "write"
    THEN [kind |-> "write", db |-> db, tables |-> op.tables,
          pkey |-> IF op.pkey = None THEN "" ELSE op.pkey]
    ELSE [kind |-> "delete", db |-> db, pred |-> op.pred,
          table |-> IF op.table = None THEN "" ELSE op.table]

\* mutation: the empty partition key is kept as a key
Decode_keepEmptyKey(data, h) ==
    CASE data.kind = "garbage" -> Error("payload")
      [] data.kind = "empty" -> Error("no_payload")
      [] data.kind = "write" /\ data.tables = BadBatch -> Error("database_batch")
      [] data.kind = "write" ->
            [kind |-> "write", ns |-> h.ns, tables |-> data.tables,
             pkey |-> data.pkey, span |-> h.span]
      [] data.kind = "delete" /\ data.pred = None -> Error("predicate")
      [] OTHER ->
            [kind |-> "delete", ns |-> h.ns, pred |-> data.pred,
             table |-> IF data.table = "" THEN None ELSE data.table, span |-> h.span]

\* decode: the namespace and span come from the headers, never from the
\* payload's db_name; an empty partition key or table name is none.
Decode(data, h) ==
    CASE data.kind = "garbage" -> Error("payload")
      [] data.kind = "empty" -> Error("no_payload")
      [] data.kind = "write" /\ data.tables = BadBatch -> Error("database_batch")
      [] data.kind = "write" ->
            [kind |-> "write", ns |-> h.ns, tables |-> data.tables,
             pkey |-> IF data.pkey = "" THEN None ELSE data.pkey, span |-> h.span]
      [] data.kind = "delete" /\ data.pred = None -> Error("predicate")
      [] OTHER ->
            [kind |-> "delete", ns |-> h.ns, pred |-> data.pred,
             table |-> IF data.table = "" THEN None ELSE data.table, span |-> h.span]

-----------------------------------------------------------------------------
\* The IoxHeaders of a producer: IoxHeaders::new(Protobuf, span, namespace).
ProducerHeaders(span, ns) == [ct |-> "protobuf", span |-> span, ns |-> ns]

\* The operations a producer may store: DmlWrite and DmlDelete with their
\* namespace, an optional partition key or table name and span context.
Operations ==
    LET nss == {Str(t) : t \in Texts}
        spans == SpanContexts \cup {None}
    IN [kind : {"write"}, ns : nss, tables : Batches \ {BadBatch},
        pkey : PartitionKeys \cup {None}, span : spans]
       \cup [kind : {"delete"}, ns : nss, pred : Predicates,
             table : TableNames \cup {None}, span : spans]

\* What a consumer should get back for a stored operation: the operation
\* itself, its span context kept only when sampled and the consumer
\* collects traces.
Received(op, collector) ==
    [op EXCEPT !.span = IF collector /\ @ # None /\ @.sampled THEN @ ELSE None]

=============================================================================
