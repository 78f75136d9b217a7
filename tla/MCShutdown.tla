------------------------------- MODULE MCShutdown -------------------------------
(* Shutdown for TLC: two handlers of one key with settings nobody changes, *)
(* an upstream that may never answer, and up to two signals at any time.   *)
EXTENDS Shutdown

CONSTANTS r1, r2, k1

TwoRequests == {r1, r2}
OneKey == {k1}
OpenAIKey == [k \in {k1} |-> "openai"]

Settings == {"max_concurrent", "daily_budget", "timeout"}
Small == {0, 1}
Unit == {1}

Fixed == {[f \in Settings |-> 1], [f \in Settings |-> 0]}
=============================================================================
