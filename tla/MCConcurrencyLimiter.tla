------------------------- MODULE MCConcurrencyLimiter -------------------------
(* ConcurrencyLimiter for TLC: three handlers race on two keys whose limit *)
(* moves between unlimited, one and two.                                   *)
EXTENDS ConcurrencyLimiter

CONSTANTS r1, r2, r3, k1, k2

MCRequests == {r1, r2, r3}
MCKeys == {k1, k2}
OneKey == {k1}
MCLimits == {0, 1, 2}
=============================================================================
