----------------------------- MODULE BearerTurns -----------------------------
(***************************************************************************)
(* What the bearer lock promises: the daemons that bring the modem         *)
(* interface up take turns, and during the watchdog's turn the interface   *)
(* stays as the watchdog has put it.                                       *)
(***************************************************************************)
CONSTANT Outsiders   \* somebody brings the interface up without taking a turn

VARIABLES
    holders,   \* the daemons whose turn it is
    held,      \* the watchdog has taken the interface down and not up again
    auto       \* the interface is meant to be up

turns == <<holders, held, auto>>

Daemons == {"watchdog", "autocfg", "hotplug"}

Init == holders = {} /\ held = FALSE /\ auto = TRUE

Take(d) ==
    /\ holders = {}
    /\ holders' = {d}
    /\ UNCHANGED <<held, auto>>

\* The turn ends, also because its daemon is killed.  The other daemons raise the
\* interface as the last thing they do in theirs.
Leave(d) ==
    /\ d \in holders
    /\ holders' = holders \ {d}
    /\ IF d = "watchdog"
       THEN held' = FALSE /\ UNCHANGED auto
       ELSE UNCHANGED held /\ auto' \in {auto, TRUE}

HoldDown ==
    /\ "watchdog" \in holders
    /\ held' = TRUE /\ auto' = FALSE
    /\ UNCHANGED holders

BringUp ==
    /\ held
    /\ held' = FALSE /\ auto' = TRUE
    /\ UNCHANGED holders

\* Anybody, and a setup that is blocked, gives the interface up, at any time.
Drop == auto' = FALSE /\ UNCHANGED <<holders, held>>

\* The watchdog re-drives the interface outside its turn.
Redrive ==
    /\ "watchdog" \notin holders
    /\ auto' = TRUE
    /\ UNCHANGED <<holders, held>>

RaiseOutside ==
    /\ Outsiders
    /\ auto' = TRUE
    /\ UNCHANGED <<holders, held>>

Next ==
    \/ \E d \in Daemons : Take(d) \/ Leave(d)
    \/ HoldDown \/ BringUp \/ Drop \/ Redrive \/ RaiseOutside

Spec == Init /\ [][Next]_turns

-----------------------------------------------------------------------------
\* It is never the turn of two daemons: the flocks of modem-bearer-watchdog,
\* qcom-carrier-autocfg and sim-hotplug exclude each other, also across a kill.
OneTurn == \A d, e \in holders : d = e

\* The watchdog holds the interface down in its turn only.
HeldInTurn == held => "watchdog" \in holders

\* The interface the watchdog holds down is raised by nobody else.
Undisturbed == held /\ ~Outsiders => ~auto
=============================================================================
