------------------------------- MODULE MCWlanSap -------------------------------
(* The access point with the stations and channels of the configuration;   *)
(* stations and channels are interchangeable.                              *)
EXTENDS WlanSap, TLC
Symmetry == Permutations(Stations) \union Permutations(Channels)
=============================================================================
