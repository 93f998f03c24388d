---------------------------- MODULE MC_Backoff ----------------------------
EXTENDS Backoff

\* Every configuration with init_backoff in 0..3, max_backoff in 1..6 and an
\* integral base of 2 or 3, valid or not: the invalid ones reach the panic.
MCConfigs == [init : 0 .. 3, max : 1 .. 6, base : 2 .. 3]
=============================================================================
