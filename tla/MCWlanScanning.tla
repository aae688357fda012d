---------------------------- MODULE MCWlanScanning ----------------------------
(* The scanning services as the configuration bounds them.                 *)
EXTENDS WlanScanning
=============================================================================
