--------------------------- MODULE BearerRecovery ---------------------------
(***************************************************************************)
(* The daemons that bring the modem interface down and up, together:       *)
(*                                                                         *)
(*  - modem-bearer-watchdog (BearerWatchdog), whose ladder holds           *)
(*    /var/lock/modem-bearer.lock from Stage 1 to the end;                 *)
(*  - qcom-carrier-autocfg, which flushes the radio cache (ifdown, delete  *)
(*    bearers) outside that lock and brings the bearer up inside it;       *)
(*  - sim-hotplug's bring_up_bearer, which waits 40 s for the lock;        *)
(*  - modem-led-monitor, on the boards where it also reconnects the modem, *)
(*    under a lock file of its own;                                        *)
(*  - the user's ifdown and ifup.                                          *)
(***************************************************************************)
EXTENDS BearerWatchdog

CONSTANT LedRecovers     \* IS_HMU05: modem-led-monitor runs its own watchdog

ASSUME RecoveryAssumption == LedRecovers \in BOOLEAN

VARIABLES
  cfg,        \* autocfg: "poll", "delete", "network", "flock", "ifup"
  provision,  \* INITIAL_BOOT_PROVISION, or an IMSI that is not the stored one
  hotplug,    \* sim-hotplug: "idle", "flock", "ifup"
  led,        \* modem-led-monitor: "idle", "settle"
  ledLock,    \* /var/run/modem-recovery.lock exists
  userDown    \* the last of the user's ifdown and ifup is an ifdown

others == <<cfg, provision, hotplug, led, ledLock, userDown>>
allVars == <<vars, others>>

RInit ==
  /\ Init
  /\ cfg = "poll" /\ provision = TRUE /\ hotplug = "idle"
  /\ led = "idle" /\ ledLock = FALSE /\ userDown = FALSE

\* What the other daemons leave alone of the watchdog and of the modem.
SameDog == UNCHANGED <<pc, counters, ages, hist>>
SameModem == UNCHANGED <<rproc, mmAlive, online, dormant, newRx, newTx, enabled>>

-----------------------------------------------------------------------------
(* qcom-carrier-autocfg.                                                   *)

\* A SIM to provision, and no mismatch of the radio cache: nothing to flush.
CfgMatches ==
  /\ cfg = "poll" /\ provision /\ mmObj /\ cfg' = "network"
  /\ UNCHANGED <<netifd, radio, lock, provision, hotplug, led, ledLock, userDown>>
  /\ SameDog

\* flush_bearer_cache: ifdown first, without the lock.
CfgFlush ==
  /\ cfg = "poll" /\ provision /\ mmObj /\ cfg' = "delete"
  /\ UbusDown
  /\ UNCHANGED <<radio, lock, provision, hotplug, led, ledLock, userDown>>
  /\ SameDog

\* ... then every bearer is deleted, also that of an interface brought up since.
CfgDelete ==
  /\ cfg = "delete" /\ cfg' = "network"
  /\ link' = IF IfUp /\ link # "rf" THEN "bearer" ELSE link
  /\ UNCHANGED <<netifd, lock, provision, hotplug, led, ledLock, userDown, faults>>
  /\ SameDog /\ SameModem

\* provision_network: settings that differ are committed, and netifd reloads them.
CfgNetwork ==
  /\ cfg = "network" /\ cfg' = "flock"
  /\ Reload \/ UNCHANGED netifd
  /\ UNCHANGED <<radio, lock, provision, hotplug, led, ledLock, userDown>>
  /\ SameDog

\* (bug) The bearer lock is taken without waiting for it.
CfgLockBusy ==
  /\ cfg = "flock" /\ cfg' = "ifup" /\ lock' = "autocfg"
  /\ UNCHANGED <<netifd, radio, provision, hotplug, led, ledLock, userDown>>
  /\ SameDog

CfgLock ==
  /\ cfg = "flock" /\ lock = "free" /\ cfg' = "ifup" /\ lock' = "autocfg"
  /\ UNCHANGED <<netifd, radio, provision, hotplug, led, ledLock, userDown>>
  /\ SameDog

CfgIfup ==
  /\ cfg = "ifup" /\ cfg' = "poll" /\ lock' = "free"
  /\ Ifup /\ provision' = FALSE
  /\ UNCHANGED <<radio, hotplug, led, ledLock, userDown>>
  /\ SameDog

\* (bug) A respawned autocfg trusts that the boot has been provisioned.
CfgKilledForgets ==
  /\ Fault("killcfg") /\ cfg' = "poll" /\ provision' = FALSE
  /\ lock' = IF lock = "autocfg" THEN "free" ELSE lock
  /\ UNCHANGED <<netifd, link, hotplug, led, ledLock, userDown>>
  /\ SameDog /\ SameModem

\* procd respawns it: INITIAL_BOOT_PROVISION is 1 again.
CfgKilled ==
  /\ Fault("killcfg") /\ cfg' = "poll" /\ provision' = TRUE
  /\ lock' = IF lock = "autocfg" THEN "free" ELSE lock
  /\ UNCHANGED <<netifd, link, hotplug, led, ledLock, userDown>>
  /\ SameDog /\ SameModem

-----------------------------------------------------------------------------
(* sim-hotplug and the card.                                               *)

\* A different card is in service: both daemons have found it.
CardSwapped ==
  /\ Fault("swap") /\ provision' = TRUE /\ hotplug = "idle" /\ hotplug' = "flock"
  /\ UNCHANGED <<netifd, link, lock, cfg, led, ledLock, userDown>>
  /\ SameDog /\ SameModem

HotplugLock ==
  /\ hotplug = "flock" /\ lock = "free" /\ hotplug' = "ifup" /\ lock' = "hotplug"
  /\ UNCHANGED <<netifd, radio, cfg, provision, led, ledLock, userDown>>
  /\ SameDog

\* `timeout 40 flock` expires while another daemon has the lock.
HotplugGivesUp ==
  /\ hotplug = "flock" /\ lock # "free" /\ hotplug' = "idle"
  /\ UNCHANGED <<netifd, radio, lock, cfg, provision, led, ledLock, userDown>>
  /\ SameDog

HotplugIfup ==
  /\ hotplug = "ifup" /\ hotplug' = "idle" /\ lock' = "free"
  /\ Ifup
  /\ UNCHANGED <<radio, cfg, provision, led, ledLock, userDown>>
  /\ SameDog

-----------------------------------------------------------------------------
(* modem-led-monitor: safe_reconnect_modem.                                *)

\* Five failed pings, or a detached packet service, on an interface that is up.
LedDown ==
  /\ LedRecovers /\ led = "idle" /\ IfUp /\ ~ledLock
  /\ \/ link # "ok" /\ NoFault
     \/ link = "ok" /\ Fault("ping")
  /\ led' = "settle" /\ ledLock' = TRUE
  /\ UbusDown
  /\ UNCHANGED <<link, lock, cfg, provision, hotplug, userDown>>
  /\ SameDog /\ SameModem

LedUp ==
  /\ led = "settle" /\ led' = "idle" /\ ledLock' = FALSE
  /\ Ifup
  /\ UNCHANGED <<radio, lock, cfg, provision, hotplug, userDown>>
  /\ SameDog

\* The lock file outlives the process.
LedKilled ==
  /\ Fault("killled") /\ led = "settle" /\ led' = "idle"
  /\ UNCHANGED <<netifd, link, lock, cfg, provision, hotplug, ledLock, userDown>>
  /\ SameDog /\ SameModem

-----------------------------------------------------------------------------
(* The user.                                                               *)

UserIfdown ==
  /\ ~userDown /\ Fault("user") /\ userDown' = TRUE
  /\ UbusDown
  /\ UNCHANGED <<link, lock, cfg, provision, hotplug, led, ledLock>>
  /\ SameDog /\ SameModem

UserIfup ==
  /\ userDown /\ userDown' = FALSE
  /\ Ifup
  /\ UNCHANGED <<radio, lock, cfg, provision, hotplug, led, ledLock>>
  /\ SameDog

-----------------------------------------------------------------------------
Autocfg == CfgMatches \/ CfgFlush \/ CfgDelete \/ CfgNetwork \/ CfgLock \/ CfgIfup
Hotplug == HotplugLock \/ HotplugGivesUp \/ HotplugIfup

RNext ==
  \/ Next /\ UNCHANGED others
  \/ Autocfg \/ CfgKilled \/ CardSwapped \/ Hotplug
  \/ LedDown \/ LedUp \/ LedKilled \/ UserIfdown \/ UserIfup

RSpec == RInit /\ [][RNext]_allVars

Alone(A) == A /\ UNCHANGED others

\* Every daemon keeps running, the flocks are fair, and the user who took the
\* interface down brings it up again.
RFairness ==
  /\ WF_allVars(Alone(Watchdog)) /\ SF_allVars(Alone(TakeLock))
  /\ WF_allVars(Alone(NetifdSetsUp)) /\ WF_allVars(Alone(NetifdTearsDown))
  /\ WF_allVars(Alone(NetifdNoDevice)) /\ WF_allVars(Alone(MMProbes))
  /\ WF_allVars(Alone(ModemReturns)) /\ WF_allVars(Alone(~enabled /\ Disable))
  /\ WF_allVars(Autocfg) /\ SF_allVars(CfgLock) /\ WF_allVars(Hotplug)
  /\ WF_allVars(LedUp) /\ WF_allVars(UserIfup)

RFairSpec == RSpec /\ RFairness

-----------------------------------------------------------------------------
\* While the watchdog deletes the old bearers (Stage 2) or restarts the modem
\* (Stage 3), netifd does not start a session of its own: no other daemon brings
\* the interface up under the watchdog.
ControlKept == pc \in {"delete", "up2", "restart", "up3"} => ~auto

\* An interface that is meant to be up is not left down: with autostart set, the
\* re-drive brings it up in the end, whatever was killed and whoever failed.
StuckIsRedriven == []<>(IfUp \/ ~auto)

\* What leaves the interface down for ever: a modem-led-monitor killed between its
\* down and its up (its lock file stays), a watchdog killed between its own (the new
\* one, which has counted nothing yet, takes the cleared autostart for an ifdown), and
\* a setup that has blocked the restart.
LedLeftIt == ledLock /\ led = "idle"
DogLeftIt == LeftByDog /\ ~userDown
Blocked == ~auto /\ err = "other"

\* Whatever the daemons and the user do to it, whatever fails, and if autocfg is
\* killed in the middle of its work, the interface comes up again, unless it was left
\* in one of those three ways.
ReturnsUnlessLeft == []<>(IfUp \/ LedLeftIt \/ DogLeftIt \/ Blocked)

-----------------------------------------------------------------------------
(* The daemons take turns with the interface: BearerTurns knows neither the *)
(* lock nor what a turn is made of.                                         *)

\* The daemons that are where they have the lock.
Holders ==
  {d \in {"watchdog", "autocfg", "hotplug"} :
     \/ d = "watchdog" /\ pc \in Ladder \ {"flock"}
     \/ d = "autocfg" /\ cfg = "ifup"
     \/ d = "hotplug" /\ hotplug = "ifup"}

\* The watchdog is between its down and its up.
Held == pc \in {"delete", "up2", "restart", "up3"}

Turns == INSTANCE BearerTurns WITH
  Outsiders <- LedRecovers \/ "user" \in FaultKinds, holders <- Holders, held <- Held
=============================================================================
