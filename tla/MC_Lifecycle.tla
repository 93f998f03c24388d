---------------------------- MODULE MC_Lifecycle ----------------------------
(* Model-checking instances of Lifecycle.                                 *)
(*  - two sequencers: s1 owns partitions 1 and 2 (so one operation can    *)
(*    write two partitions), s2 owns partition 3;                         *)
(*  - one sequencer owning partitions 1 and 2, for the liveness run.      *)
EXTENDS Lifecycle

CONSTANTS s1, s2

TwoSequencers == {s1, s2}
ThreePartitions == {1, 2, 3}
TwoSeqOf == (1 :> s1) @@ (2 :> s1) @@ (3 :> s2)

OneSequencer == {s1}
TwoPartitions == {1, 2}
OneSeqOf == (1 :> s1) @@ (2 :> s1)
====
