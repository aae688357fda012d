------------------------------ MODULE MCUplink ------------------------------
(* Uplink with two routers, for TLC. *)
EXTENDS Uplink
=============================================================================
