---------------------------- MODULE MCWlanPersonas ----------------------------
(* Every failing call of the module, for the configurations that allow it. *)
EXTENDS WlanPersonas
AllKinds == {"sme", "tdls", "country", "ap", "register", "alloc", "privacy"}
(* Of the three troubles - a failing call, a wait that gives up early, a   *)
(* restart - any two happen in one behaviour, with all the requests.       *)
TwoTroubles == left.late + left.fails + left.ssr >= 1
=============================================================================
