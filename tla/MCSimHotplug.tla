---------------------------- MODULE MCSimHotplug ----------------------------
(* SimHotplug on two cards, for TLC. *)
EXTENDS SimHotplug, TLC

CardSymmetry == Permutations(Cards)
=============================================================================
