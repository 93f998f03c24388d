CONSTANTS
    s1 = s1
    s2 = s2
    Sequencers <- OneSequencer
    Partitions <- TwoPartitions
    SeqOf <- OneSeqOf
    MaxSeq = 3
    WriteSizes = {2}
    MaxTime = 0
    PauseIngestSize = 3
    PersistMemoryThreshold = 2
    PartitionSizeThreshold = 4
    PartitionAgeThreshold = 0
    PartitionColdThreshold = 5
    MaxCrashes = 0

SPECIFICATION Spec

PROPERTY PausedIngestResumes
