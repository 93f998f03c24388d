CONSTANTS
    p1 = p1
    p2 = p2
    Partitions <- OnePartition
    MaxSeq = 3
    MaxDeletes = 1
    MaxCompactions = 1
    CatalogFirst = FALSE

SPECIFICATION SpecWithGc

INVARIANT NoResurrectedRows
