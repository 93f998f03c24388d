---------------------------- MODULE MC_QueryPath ----------------------------
EXTENDS QueryPath

CONSTANTS p1, p2

TwoPartitions == {p1, p2}
OnePartition == {p1}

====
