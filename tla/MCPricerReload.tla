---------------------------- MODULE MCPricerReload ----------------------------
(* PricerReload for TLC.                                                   *)
EXTENDS PricerReload
=============================================================================
