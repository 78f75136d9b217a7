----------------------------- MODULE MCKeyStore -------------------------------
(* KeyStore for TLC: one key with two settings of two values, one or two   *)
(* admin handlers whose patches name one setting, the expiry or nothing,   *)
(* and a clock of a few half seconds.                                      *)
EXTENDS KeyStore, FiniteSets

CONSTANTS k1, k2, a1, a2

OneKey == {k1}
TwoKeys == {k1, k2}
OneAdmin == {a1}
TwoAdmins == {a1, a2}
TwoFields == {"max_concurrent", "daily_budget"}
OneChangePatches ==
  {p \in KeyPatch : Cardinality(DOMAIN p.set) + (IF p.expires = Keep THEN 0 ELSE 1) <= 1}
=============================================================================
