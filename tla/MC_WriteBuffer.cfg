CONSTANTS
    s1 = s1
    s2 = s2
    w1 = w1
    w2 = w2
    h1 = h1
    h2 = h2

    Sequencers = {s1, s2}
    Writers = {w1, w2}
    Handlers = {h1, h2}
    HandlerSeq <- MCHandlerSeq
    SeekTargets = {0, 1, 4}
    MaxOps = 2
    MaxTime = 1
    MaxPrefetch = 2

    b1 = b1
    b2 = b2
    p1 = p1
    None = None
    HeaderNames <- MCHeaderNames
    CaseFold <- MCCaseFold
    Texts = {"", "ns1"}
    SpanIds = {1}
    Batches = {b1, b2}
    BadBatch = b2
    Predicates = {p1}
    TableNames = {"t1"}
    PartitionKeys = {"k1"}
    WriterOps <- MCWriterOps
    Collector <- MCCollector

SPECIFICATION Spec

INVARIANT TypeOK
INVARIANT DecodedAsStored
PROPERTY LogSpec
