----------------------------- MODULE MCSqliteMeter -----------------------------
(* SqliteMeter for TLC: two callers on one key, three days in two months.   *)
EXTENDS SqliteMeter

CONSTANTS k1, k2, w1, w2, w3

OneKey == {k1}
TwoKeys == {k1, k2}
TwoCallers == {w1, w2}
ThreeCallers == {w1, w2, w3}
=============================================================================
