----------------------------- MODULE MCKeyRotation -----------------------------
(* KeyRotation for TLC.                                                    *)
EXTENDS KeyRotation

CONSTANTS k1, k2, k3

ThreeKeys == {k1, k2, k3}
=============================================================================
