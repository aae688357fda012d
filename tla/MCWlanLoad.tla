------------------------------ MODULE MCWlanLoad ------------------------------
(* Three loads or unloads, three requests, two faults.                          *)
EXTENDS WlanLoad
=============================================================================
