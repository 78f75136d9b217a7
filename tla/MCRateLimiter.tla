----------------------------- MODULE MCRateLimiter -----------------------------
(* RateLimiter for TLC: a second of three ticks, a minute of three seconds.*)
EXTENDS RateLimiter

CONSTANTS r1, r2

TwoRequests == {r1, r2}
Both == {<<2, 3>>}
=============================================================================
