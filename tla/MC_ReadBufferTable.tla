------------------------ MODULE MC_ReadBufferTable ------------------------
(* Four row groups with different row counts, sizes, timestamps and        *)
(* distinct counts: one lies inside another's range, one widens it on each *)
(* side, and one has a range that meets [1, 3) with no row inside it, so   *)
(* pruning on the range keeps it.  Up to three row groups in the table,    *)
(* the same one more than once.  The schema is the time column, of logical *)
(* type Integer; the predicates cover a range, a bound, a column the table *)
(* lacks and a literal of the wrong type.  The table has no tag column.    *)
EXTENDS ReadBufferTable

MCRowGroups ==
    { [rows |-> 2, size |-> 2, times |-> {1, 2}, lo |-> 1, hi |-> 2, distinct |-> 2],
      [rows |-> 2, size |-> 3, times |-> {0, 1}, lo |-> 0, hi |-> 1, distinct |-> 2],
      [rows |-> 2, size |-> 1, times |-> {0, 3}, lo |-> 0, hi |-> 3, distinct |-> 2],
      [rows |-> 1, size |-> 2, times |-> {3},    lo |-> 3, hi |-> 3, distinct |-> 1] }

MCColumns == [time |-> "int"]

GeOne   == [col |-> "time",   op |-> ">=", v |-> 1, lit |-> "int"]
LtThree == [col |-> "time",   op |-> "<",  v |-> 3, lit |-> "int"]
GeThree == [col |-> "time",   op |-> ">=", v |-> 3, lit |-> "int"]
NoCol   == [col |-> "region", op |-> ">=", v |-> 0, lit |-> "int"]
BadLit  == [col |-> "time",   op |-> ">=", v |-> 1, lit |-> "float"]

MCPreds == { {}, {GeOne, LtThree}, {GeThree}, {NoCol}, {BadLit} }
MCDeletePreds == { {GeThree}, {LtThree}, {BadLit} }

\* read_aggregate_no_groups: no group column, the time column (not a tag),
\* a column the table lacks, and Selection::All; count and sum of time, and
\* an aggregate on a column the table lacks.
MCGroupSelections == { {}, {"time"}, {"region"}, AllColumns }
MCAggregateSets ==
    { {[col |-> "time", agg |-> "count"], [col |-> "time", agg |-> "sum"]},
      {[col |-> "min", agg |-> "count"]} }
MCValueColumns == { {}, {"time"}, {"region"} }
=============================================================================
