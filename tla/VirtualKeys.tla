------------------------------ MODULE VirtualKeys ------------------------------
(* The virtual key ids (VirtualKey.ID of internal/keys/keys.go) that the   *)
(* keystore, the meter and the limiter all index their state by.           *)
CONSTANT Keys
=============================================================================
