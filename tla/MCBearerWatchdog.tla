-------------------------- MODULE MCBearerWatchdog --------------------------
(* BearerWatchdog for TLC: times in units of a few check intervals. *)
EXTENDS BearerWatchdog
=============================================================================
