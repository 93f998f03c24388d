CONSTANTS
    p1 = p1
    p2 = p2
    Partitions <- TwoPartitions
    MaxSeq = 3
    MaxDeletes = 0
    MaxCompactions = 0
    CatalogFirst = FALSE

SPECIFICATION Spec

INVARIANT SnapshotConsistent
