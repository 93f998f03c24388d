---------------------------- MODULE MC_Compactor ----------------------------
EXTENDS Compactor

\* Three keys at times 1, 2 and 3.
MCKeys == {"a", "b", "c"}
MCTimeOf == [k \in MCKeys |-> CASE k = "a" -> 1 [] k = "b" -> 2 [] k = "c" -> 3]

\* compact_plan, split plans with one and two split times, and a
\* descending one that split_plan rejects.
MCSplitChoices == {<<>>, <<1>>, <<1, 2>>, <<2, 1>>}
=============================================================================
