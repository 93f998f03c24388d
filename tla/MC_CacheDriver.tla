--------------------------- MODULE MC_CacheDriver ---------------------------
(* Three callers: the stale-loader interleaving needs one caller waiting on *)
(* the old load, one calling set and one starting the new load.            *)
EXTENDS CacheDriver

CONSTANTS c1, c2, c3

ThreeClients == {c1, c2, c3}
====
