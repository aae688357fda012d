-------------------------- MODULE MCBearerRecovery --------------------------
(* BearerRecovery for TLC: the watchdog's times as short as they can be. *)
EXTENDS BearerRecovery
=============================================================================
