-------------------------------- MODULE MCProxy --------------------------------
(* Proxy for TLC.  ProxyGates: two handlers and one key that is PATCHed,   *)
(* expires and is revoked, next to freeze and drain.  The violation runs:  *)
(* handlers of one key with settings nobody changes.                       *)
EXTENDS Proxy, TLC

CONSTANTS r1, r2, r3, k1

TwoRequests == {r1, r2}
ThreeRequests == {r1, r2, r3}
OneKey == {k1}
OpenAIKey == [k \in {k1} |-> "openai"]
Symmetric == Permutations({r1, r2, r3})

Settings == {"max_concurrent", "daily_budget", "timeout"}
Small == {0, 1}
Unit == {1}

Cfg(K, D, T) == [f \in Settings |->
  CASE f = "max_concurrent" -> K [] f = "daily_budget" -> D [] f = "timeout" -> T]

Patched == {Cfg(0, 1, 0), Cfg(1, 1, 1)}
Fixed == {Cfg(1, 1, 1)}
=============================================================================
