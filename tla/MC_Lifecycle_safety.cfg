CONSTANTS
    s1 = s1
    s2 = s2
    Sequencers <- TwoSequencers
    Partitions <- ThreePartitions
    SeqOf <- TwoSeqOf
    MaxSeq = 2
    WriteSizes = {1}
    MaxTime = 1
    PauseIngestSize = 3
    PersistMemoryThreshold = 2
    PartitionSizeThreshold = 1
    PartitionAgeThreshold = 0
    PartitionColdThreshold = 5
    MaxCrashes = 1

SPECIFICATION Spec

INVARIANT TypeOK
INVARIANT NoRowPersistedTwice
INVARIANT NoLostWrites
INVARIANT BytesAccounted
INVARIANT MinUnpersistedSafe
PROPERTY MinUnpersistedMonotonic
