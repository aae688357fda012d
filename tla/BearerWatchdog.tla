--------------------------- MODULE BearerWatchdog ---------------------------
(***************************************************************************)
(* msm89xx/base-files/usr/sbin/modem-bearer-watchdog: the loop that finds  *)
(* a stalled user plane by the wwan0 counters, verifies it by DNS probes   *)
(* and climbs the recovery ladder (dormancy, new bearer, modem restart),   *)
(* and that re-drives an interface netifd has left down.                   *)
(*                                                                         *)
(* One unit of time is one CHECK_INTERVAL; ages saturate at the value the  *)
(* code compares them with.  A packet counter is abstracted to whether it  *)
(* has moved since the loop's LAST_RX / LAST_TX.                           *)
(***************************************************************************)
EXTENDS Integers, Netifd

CONSTANTS
  STALL_TIMEOUT, PROBE_ATTEMPTS, PROBE_FAIL_MIN, KEEPALIVE_INTERVAL,
  COOLDOWN_SECS, EXTENDED_COOLDOWN_SECS, MAX_RECOVERY_ATTEMPTS,
  BEARER_DOWN_RECOVER_SECS, BEARER_REARM_COOLDOWN,
  ZOMBIE_NUDGE_SECS, ZOMBIE_NUDGE_COOLDOWN,
  SsrLever,                 \* outcomes of the tests before Stage 3
  FaultKinds, MaxFaults     \* what the environment may do, and how often

ASSUME WatchdogAssumption ==
  /\ {STALL_TIMEOUT, PROBE_ATTEMPTS, PROBE_FAIL_MIN, MAX_RECOVERY_ATTEMPTS} \subseteq Nat \ {0}
  /\ {KEEPALIVE_INTERVAL, COOLDOWN_SECS, EXTENDED_COOLDOWN_SECS, BEARER_DOWN_RECOVER_SECS,
      BEARER_REARM_COOLDOWN, ZOMBIE_NUDGE_SECS, ZOMBIE_NUDGE_COOLDOWN} \subseteq Nat
  /\ COOLDOWN_SECS <= EXTENDED_COOLDOWN_SECS
  /\ SsrLever \subseteq BOOLEAN /\ MaxFaults \in Nat

VARIABLES
  rproc,      \* "running", "restarting"
  mmAlive,    \* ModemManager is on the bus
  online,     \* the modem's DMS operating mode is online
  link,       \* the user plane: "ok", or what it takes to cure it
  dormant,    \* the next uplink packet is lost (RRC idle)
  newRx, newTx,     \* rx_packets > LAST_RX, tx_packets > LAST_TX
  enabled,    \* modem-watchdog enabled and not disabled in /tmp
  faults

radio == <<rproc, mmAlive, online, link, dormant, newRx, newTx, enabled, faults>>

VARIABLES
  pc, lock,                                  \* lock: "free" or its holder
  fresh,                                     \* LAST_TX and LAST_RX are 0
  stall, probeFails, failed, attempts,       \* STALL_COUNT, PROBE_FAILS, RECOVERY_*
  downFor, zombieFor,                        \* BEARER_DOWN_SECS, ZOMBIE_DOWN_SECS
  sinceKeepalive, sinceRecovery, sinceRearm, sinceNudge

counters == <<fresh, stall, probeFails, failed, attempts, downFor, zombieFor>>
ages == <<sinceKeepalive, sinceRecovery, sinceRearm, sinceNudge>>
dog == <<pc, lock, counters, ages>>

VARIABLES     \* history, read by properties only
  disturbed,  \* the user plane or the modem has failed at some time
  sinceSsr,   \* time since this process last restarted the modem
  ssrFutile   \* and that restart did not bring a packet back

hist == <<disturbed, sinceSsr, ssrFutile>>
vars == <<netifd, radio, dog, hist>>

-----------------------------------------------------------------------------
Cap(n, m) == IF n < m THEN n ELSE m
Cures == {"rrc", "bearer", "rf"}

Init ==
  /\ NetifdInit
  /\ rproc = "running" /\ mmAlive = TRUE /\ online = TRUE
  /\ link = "ok" /\ dormant = FALSE /\ newRx = FALSE /\ newTx = FALSE
  /\ enabled = TRUE /\ faults = 0
  /\ pc = "loop" /\ lock = "free" /\ fresh = TRUE
  /\ stall = 0 /\ probeFails = 0 /\ failed = FALSE /\ attempts = 0
  /\ downFor = 0 /\ zombieFor = 0
  /\ sinceKeepalive = KEEPALIVE_INTERVAL /\ sinceRecovery = EXTENDED_COOLDOWN_SECS
  /\ sinceRearm = BEARER_REARM_COOLDOWN /\ sinceNudge = ZOMBIE_NUDGE_COOLDOWN
  /\ disturbed = FALSE
  /\ sinceSsr = EXTENDED_COOLDOWN_SECS /\ ssrFutile = FALSE

\* The sleep that ends an iteration, with the ages that now start from 0.
Sleep(reset) ==
  LET Age(name, x, cap) == Cap((IF name = reset THEN 0 ELSE x) + 1, cap)
  IN /\ pc' = "loop"
     /\ sinceKeepalive' = Age("keepalive", sinceKeepalive, KEEPALIVE_INTERVAL)
     /\ sinceRecovery' = Age("recovery", sinceRecovery, EXTENDED_COOLDOWN_SECS)
     /\ sinceRearm' = Age("rearm", sinceRearm, BEARER_REARM_COOLDOWN)
     /\ sinceNudge' = Age("nudge", sinceNudge, ZOMBIE_NUDGE_COOLDOWN)
     /\ sinceSsr' = Cap(sinceSsr + 1, EXTENDED_COOLDOWN_SECS)
     /\ UNCHANGED ssrFutile

\* No time passes, and nothing is recorded of it.
Now == UNCHANGED <<ages, sinceSsr>>
Goto(label) == pc' = label /\ Now /\ UNCHANGED ssrFutile

-----------------------------------------------------------------------------
(* Steps 1 and 3: is there anything to watch, and is the interface up?     *)

Runs == enabled /\ rproc = "running"

LoopIdle ==
  /\ pc = "loop" /\ ~Runs
  /\ stall' = 0 /\ Sleep("none")
  /\ UNCHANGED <<netifd, radio, lock, fresh, probeFails, failed, attempts, downFor, zombieFor>>
  /\ UNCHANGED disturbed

\* The gate of the re-drive: down long enough, and not by an intentional ifdown.
MayRedrive ==
  /\ downFor + 1 >= BEARER_DOWN_RECOVER_SECS
  /\ sinceRearm >= BEARER_REARM_COOLDOWN
  /\ auto \/ err = "connect"

LoopDown ==
  /\ pc = "loop" /\ Runs /\ ~IfUp
  /\ stall' = 0 /\ downFor' = Cap(downFor + 1, BEARER_DOWN_RECOVER_SECS)
  /\ IF MayRedrive THEN Goto("mmcli") ELSE Sleep("none")
  /\ UNCHANGED <<netifd, radio, lock, fresh, probeFails, failed, attempts, zombieFor>>
  /\ UNCHANGED disturbed

ModemFound ==
  /\ pc = "mmcli" /\ mmObj
  /\ zombieFor' = 0 /\ Goto("redrive")
  /\ UNCHANGED <<netifd, radio, lock, fresh, stall, probeFails, failed, attempts, downFor>>
  /\ UNCHANGED disturbed

\* (bug) The re-drive does not re-arm the available flag.
RedriveUpOnly ==
  /\ pc = "redrive"
  /\ UbusUp /\ Sleep("rearm")
  /\ UNCHANGED <<radio, lock, counters, disturbed>>

Redrive ==
  /\ pc = "redrive"
  /\ UpAndAvailable /\ Sleep("rearm")
  /\ UNCHANGED <<radio, lock, counters, disturbed>>

\* No modem object: the zombie counter, and its nudge once it is due.
NudgeDue == zombieFor + 1 >= ZOMBIE_NUDGE_SECS /\ sinceNudge >= ZOMBIE_NUDGE_COOLDOWN

NoModemYet ==
  /\ pc = "mmcli" /\ ~mmObj /\ ~NudgeDue
  /\ zombieFor' = Cap(zombieFor + 1, ZOMBIE_NUDGE_SECS) /\ Sleep("none")
  /\ UNCHANGED <<netifd, radio, lock, fresh, stall, probeFails, failed, attempts, downFor>>
  /\ UNCHANGED disturbed

Nudge ==
  /\ pc = "mmcli" /\ ~mmObj /\ NudgeDue
  /\ mmAlive' = TRUE
  /\ online' = IF rproc = "running" THEN TRUE ELSE online
  /\ zombieFor' = 0 /\ Sleep("nudge")
  /\ UNCHANGED <<netifd, rproc, link, dormant, newRx, newTx, enabled, faults>>
  /\ UNCHANGED <<lock, fresh, stall, probeFails, failed, attempts, downFor, disturbed>>

-----------------------------------------------------------------------------
(* Step 5: the counters.  LAST_RX and LAST_TX become the values just read. *)

Counts == pc = "loop" /\ Runs /\ IfUp /\ newRx' = FALSE /\ newTx' = FALSE /\ downFor' = 0

CountFirst ==
  /\ Counts /\ fresh
  /\ fresh' = FALSE /\ Sleep("none")
  /\ UNCHANGED <<netifd, rproc, mmAlive, online, link, dormant, enabled, faults>>
  /\ UNCHANGED <<lock, stall, probeFails, failed, attempts, zombieFor, disturbed>>

CountRx ==
  /\ Counts /\ ~fresh /\ newRx
  /\ stall' = 0 /\ probeFails' = 0 /\ Sleep("none")
  /\ UNCHANGED <<netifd, rproc, mmAlive, online, link, dormant, enabled, faults>>
  /\ UNCHANGED <<lock, fresh, failed, attempts, zombieFor, disturbed>>

CountTx ==
  /\ Counts /\ ~fresh /\ ~newRx /\ newTx
  /\ stall' = Cap(stall + 1, STALL_TIMEOUT)
  /\ IF stall + 1 >= STALL_TIMEOUT THEN Goto("probeTx") ELSE Sleep("none")
  /\ UNCHANGED <<netifd, rproc, mmAlive, online, link, dormant, enabled, faults>>
  /\ UNCHANGED <<lock, fresh, probeFails, failed, attempts, zombieFor, disturbed>>

\* Nothing sent, nothing received: a stall in progress goes on.
CountIdle ==
  /\ Counts /\ ~fresh /\ ~newRx /\ ~newTx
  /\ stall' = IF stall = 0 THEN 0 ELSE Cap(stall + 1, STALL_TIMEOUT)
  /\ IF stall' >= STALL_TIMEOUT THEN Goto("probeIdle") ELSE Goto("keepalive")
  /\ UNCHANGED <<netifd, rproc, mmAlive, online, link, dormant, enabled, faults>>
  /\ UNCHANGED <<lock, fresh, probeFails, failed, attempts, zombieFor, disturbed>>

-----------------------------------------------------------------------------
(* Probes.  The first packet after dormancy is lost, and ends it.          *)

Answered(n) == link = "ok" /\ IfUp /\ (dormant => n >= 2)

\* (bug) A single lost packet fails the probe.
VerifyOnce(ok) ==
  /\ ok = Answered(1)
  /\ dormant' = FALSE
  /\ newTx' = (newTx \/ IfUp)
  /\ newRx' = (newRx \/ ok)

\* verify_rx_connectivity: PROBE_ATTEMPTS DNS queries until the counter moves.
Verify(ok) ==
  /\ ok = Answered(PROBE_ATTEMPTS)
  /\ dormant' = FALSE
  /\ newTx' = (newTx \/ IfUp)
  /\ newRx' = (newRx \/ ok)

SameRadio == UNCHANGED <<rproc, mmAlive, online, link, enabled, faults>>

ProbeOk ==
  /\ pc \in {"probeTx", "probeIdle"} /\ Verify(TRUE)
  /\ stall' = 0 /\ Sleep("none")
  /\ SameRadio
  /\ UNCHANGED <<netifd, lock, fresh, probeFails, failed, attempts, downFor, zombieFor, disturbed>>

ProbeFails ==
  /\ pc \in {"probeTx", "probeIdle"} /\ Verify(FALSE)
  /\ Goto(IF pc = "probeTx" THEN "gate" ELSE "keepalive")
  /\ SameRadio /\ UNCHANGED <<netifd, lock, counters, disturbed>>

\* Step 6: a DNS query when it is due; its answer and its packets are then
\* counted as seen, so that the next iteration starts from them.
Keepalive ==
  /\ pc = "keepalive"
  /\ IF sinceKeepalive >= KEEPALIVE_INTERVAL
     THEN /\ newRx' = IF Answered(1) THEN FALSE ELSE newRx
          /\ newTx' = FALSE /\ dormant' = FALSE
     ELSE UNCHANGED <<newRx, newTx, dormant>>
  /\ IF stall >= STALL_TIMEOUT
     THEN /\ pc' = "gate"
          /\ UNCHANGED <<sinceRecovery, sinceRearm, sinceNudge, sinceSsr, ssrFutile>>
          /\ sinceKeepalive' = IF sinceKeepalive >= KEEPALIVE_INTERVAL THEN 0 ELSE sinceKeepalive
     ELSE Sleep(IF sinceKeepalive >= KEEPALIVE_INTERVAL THEN "keepalive" ELSE "none")
  /\ SameRadio /\ UNCHANGED <<netifd, lock, counters, disturbed>>

\* The escalation gate: a probe of its own, PROBE_FAIL_MIN failures, the cooldowns.
GateOk ==
  /\ pc = "gate" /\ Verify(TRUE)
  /\ stall' = 0 /\ probeFails' = 0 /\ Sleep("none")
  /\ SameRadio
  /\ UNCHANGED <<netifd, lock, fresh, failed, attempts, downFor, zombieFor, disturbed>>

\* (bugs) The extended cooldown is not enforced; it never ends.
HaltedNever == sinceRecovery < COOLDOWN_SECS
HaltedForEver == sinceRecovery < COOLDOWN_SECS \/ failed

Halted ==
  \/ sinceRecovery < COOLDOWN_SECS
  \/ failed /\ sinceRecovery < EXTENDED_COOLDOWN_SECS

GateWaits ==
  /\ pc = "gate" /\ Verify(FALSE)
  /\ probeFails' = Cap(probeFails + 1, PROBE_FAIL_MIN)
  /\ probeFails + 1 < PROBE_FAIL_MIN \/ Halted
  /\ Sleep("none")
  /\ SameRadio
  /\ UNCHANGED <<netifd, lock, fresh, stall, failed, attempts, downFor, zombieFor, disturbed>>

\* (bug) A fresh start after the extended cooldown keeps the old attempts.
EscalateKeepsAttempts ==
  /\ pc = "gate" /\ Verify(FALSE)
  /\ probeFails' = Cap(probeFails + 1, PROBE_FAIL_MIN)
  /\ probeFails + 1 >= PROBE_FAIL_MIN /\ ~Halted
  /\ failed' = FALSE /\ UNCHANGED attempts
  /\ Goto("flock")
  /\ SameRadio
  /\ UNCHANGED <<netifd, lock, fresh, stall, downFor, zombieFor, disturbed>>

Escalate ==
  /\ pc = "gate" /\ Verify(FALSE)
  /\ probeFails' = Cap(probeFails + 1, PROBE_FAIL_MIN)
  /\ probeFails + 1 >= PROBE_FAIL_MIN /\ ~Halted
  /\ failed' = FALSE /\ attempts' = IF failed THEN 0 ELSE attempts
  /\ Goto("flock")
  /\ SameRadio
  /\ UNCHANGED <<netifd, lock, fresh, stall, downFor, zombieFor, disturbed>>

-----------------------------------------------------------------------------
(* The recovery ladder, under the bearer lock.                             *)

TakeLock ==
  /\ pc = "flock" /\ lock = "free" /\ lock' = "watchdog" /\ Goto("dormant")
  /\ UNCHANGED <<netifd, radio, counters, disturbed>>

Stage1 ==
  /\ pc = "dormant"
  /\ link' = IF link = "rrc" THEN "ok" ELSE link
  /\ dormant' = TRUE /\ Goto("verify1")
  /\ UNCHANGED <<netifd, rproc, mmAlive, online, newRx, newTx, enabled, faults>>
  /\ UNCHANGED <<lock, counters, disturbed>>

Verifies == {"verify1", "verify2", "verify3"}

\* RX is back: the attempts are forgotten.
StageOk ==
  /\ pc \in Verifies /\ Verify(TRUE)
  /\ stall' = 0 /\ attempts' = 0 /\ failed' = FALSE
  /\ pc' = "unlock" /\ Now
  /\ ssrFutile' = (ssrFutile /\ pc # "verify3")
  /\ SameRadio
  /\ UNCHANGED <<netifd, lock, fresh, probeFails, downFor, zombieFor, disturbed>>

\* Stage 1 or 2 was not enough: the interface is taken down for the next.
StageFails ==
  /\ pc \in {"verify1", "verify2"} /\ Verify(FALSE)
  /\ Goto(IF pc = "verify1" THEN "down2" ELSE "down3")
  /\ SameRadio /\ UNCHANGED <<netifd, lock, counters, disturbed>>

Stage2Down ==
  /\ pc = "down2" /\ UbusDown /\ Goto("delete")
  /\ UNCHANGED <<radio, lock, counters, disturbed>>

\* Every bearer but the initial one is disconnected and deleted; a session that
\* something else has brought up meanwhile loses its bearer.
DeleteBearers ==
  /\ pc = "delete" /\ Goto("up2")
  /\ link' = IF IfUp /\ link # "rf" THEN "bearer" ELSE link
  /\ disturbed' = (disturbed \/ link' # "ok")
  /\ UNCHANGED <<netifd, rproc, mmAlive, online, dormant, newRx, newTx, enabled, faults>>
  /\ UNCHANGED <<lock, counters>>

Stage2Up ==
  /\ pc = "up2" /\ UbusUp /\ Goto("verify2")
  /\ UNCHANGED <<radio, lock, counters, disturbed>>

Stage3Down ==
  /\ pc = "down3" /\ UbusDown /\ Goto("restart")
  /\ UNCHANGED <<radio, lock, counters, disturbed>>

ModemGoes == rproc' = "restarting" /\ ModemVanishes

\* modem_restart writes the msm_subsys node and waits for the restart to complete.
Stage3Restart ==
  /\ pc = "restart" /\ TRUE \in SsrLever /\ rproc = "running"
  /\ ModemGoes /\ pc' = "up3" /\ UNCHANGED ages
  /\ sinceSsr' = 0 /\ ssrFutile' = TRUE
  /\ UNCHANGED <<mmAlive, online, link, dormant, newRx, newTx, enabled, faults>>
  /\ UNCHANGED <<lock, counters, disturbed>>

Stage3NoRestart ==
  /\ pc = "restart" /\ (FALSE \in SsrLever \/ rproc # "running")
  /\ Goto("up3")
  /\ UNCHANGED <<netifd, radio, lock, counters, disturbed>>

Stage3Up ==
  /\ pc = "up3" /\ UbusUp /\ Goto("verify3")
  /\ UNCHANGED <<radio, lock, counters, disturbed>>

\* Even the restart did not help: MAX_RECOVERY_ATTEMPTS of those halt the ladder.
Stage3Fails ==
  /\ pc = "verify3" /\ Verify(FALSE)
  /\ attempts' = attempts + 1
  /\ failed' = (failed \/ attempts + 1 >= MAX_RECOVERY_ATTEMPTS)
  /\ Goto("unlock")
  /\ SameRadio
  /\ UNCHANGED <<netifd, lock, fresh, stall, probeFails, downFor, zombieFor, disturbed>>

Unlock ==
  /\ pc = "unlock" /\ lock' = "free"
  /\ newRx' = FALSE /\ newTx' = FALSE
  /\ stall' = 0 /\ probeFails' = 0 /\ Sleep("recovery")
  /\ UNCHANGED <<netifd, rproc, mmAlive, online, link, dormant, enabled, faults>>
  /\ UNCHANGED <<fresh, failed, attempts, downFor, zombieFor, disturbed>>

\* procd respawns the script; its lock and everything it counted are gone.
Respawn ==
  /\ lock' = IF lock = "watchdog" THEN "free" ELSE lock
  /\ pc' = "loop" /\ fresh' = TRUE
  /\ stall' = 0 /\ probeFails' = 0 /\ failed' = FALSE /\ attempts' = 0
  /\ downFor' = 0 /\ zombieFor' = 0
  /\ sinceKeepalive' = KEEPALIVE_INTERVAL /\ sinceRecovery' = EXTENDED_COOLDOWN_SECS
  /\ sinceRearm' = BEARER_REARM_COOLDOWN /\ sinceNudge' = ZOMBIE_NUDGE_COOLDOWN
  /\ UNCHANGED disturbed
  /\ sinceSsr' = EXTENDED_COOLDOWN_SECS /\ ssrFutile' = FALSE

-----------------------------------------------------------------------------
(* The environment.                                                        *)

Fault(kind) == kind \in FaultKinds /\ faults < MaxFaults /\ faults' = faults + 1

NotDog == UNCHANGED <<dog, sinceSsr, ssrFutile>>
NoFault == UNCHANGED faults

\* Traffic of the LAN; the answer comes over a healthy link.
Send ==
  /\ IfUp /\ newTx' = TRUE /\ dormant' = FALSE
  /\ newRx' = (newRx \/ Answered(1))
  /\ SameRadio /\ NotDog /\ UNCHANGED <<netifd, disturbed>>

GoDormant ==
  /\ "dormancy" \in FaultKinds /\ IfUp /\ dormant' = TRUE
  /\ SameRadio /\ NotDog /\ UNCHANGED <<netifd, newRx, newTx, disturbed>>

LinkBreaks ==
  /\ link = "ok" /\ IfUp /\ Fault("link")
  /\ link' \in Cures /\ disturbed' = TRUE
  /\ UNCHANGED <<netifd, rproc, mmAlive, online, dormant, newRx, newTx, enabled>>
  /\ NotDog

\* netifd and ModemManager at work.
NetifdSetsUp ==
  /\ SetupSucceeds
  /\ link' = IF link \in {"rrc", "bearer"} THEN "ok" ELSE link
  /\ UNCHANGED <<rproc, mmAlive, online, dormant, newRx, newTx, enabled, faults>>
  /\ NotDog /\ UNCHANGED disturbed

NetifdSame ==
  /\ UNCHANGED <<rproc, mmAlive, online, link, dormant, newRx, newTx, enabled>>
  /\ NotDog /\ UNCHANGED disturbed

NetifdTearsDown == TeardownEnds /\ NoFault /\ NetifdSame

NetifdNoDevice == DeviceNotManaged /\ ~mmObj /\ NoFault /\ NetifdSame

NetifdSetupFails ==
  /\ \/ DeviceNotManaged /\ mmObj /\ Fault("busy")
     \/ ConnectFails /\ Fault("connect")
     \/ SetupBlocks /\ Fault("block")
  /\ NetifdSame

MMProbes ==
  /\ mmAlive /\ online /\ rproc = "running" /\ ~mmObj
  /\ ModemAppears
  /\ UNCHANGED radio /\ NotDog /\ UNCHANGED disturbed

\* ModemManager dies without exiting, or loses the modem for a while.
MMFails ==
  /\ mmObj /\ Fault("mm") /\ mmAlive' \in BOOLEAN
  /\ ModemVanishes /\ disturbed' = TRUE
  /\ UNCHANGED <<rproc, online, link, dormant, newRx, newTx, enabled>>
  /\ NotDog

\* A modem fatal, and the restart that follows it: into a low-power zombie if
\* the fault says so.
ModemFatal ==
  /\ rproc = "running" /\ Fault("fatal")
  /\ ModemGoes /\ disturbed' = TRUE
  /\ mmAlive' \in BOOLEAN /\ online' \in BOOLEAN
  /\ UNCHANGED <<link, dormant, newRx, newTx, enabled>>
  /\ NotDog

ModemReturns ==
  /\ rproc = "restarting" /\ rproc' = "running"
  /\ link' = "ok" /\ dormant' = FALSE /\ newRx' = FALSE /\ newTx' = FALSE
  /\ UNCHANGED <<netifd, mmAlive, online, enabled, faults>>
  /\ NotDog /\ UNCHANGED disturbed

Disable ==
  /\ \/ enabled /\ Fault("disable")
     \/ ~enabled /\ NoFault
  /\ enabled' = ~enabled
  /\ UNCHANGED <<netifd, rproc, mmAlive, online, link, dormant, newRx, newTx>>
  /\ NotDog /\ UNCHANGED disturbed

Killed ==
  /\ Fault("kill") /\ Respawn
  /\ UNCHANGED <<netifd, rproc, mmAlive, online, link, dormant, newRx, newTx, enabled>>

-----------------------------------------------------------------------------
Watchdog ==
  \/ LoopIdle \/ LoopDown \/ ModemFound \/ Redrive \/ NoModemYet \/ Nudge
  \/ CountFirst \/ CountRx \/ CountTx \/ CountIdle
  \/ ProbeOk \/ ProbeFails \/ Keepalive \/ GateOk \/ GateWaits \/ Escalate
  \/ TakeLock \/ Stage1 \/ StageOk \/ StageFails \/ Stage2Down \/ DeleteBearers
  \/ Stage2Up \/ Stage3Down \/ Stage3Restart \/ Stage3NoRestart \/ Stage3Up
  \/ Stage3Fails \/ Unlock

Environment ==
  \/ Send \/ GoDormant \/ LinkBreaks
  \/ NetifdSetsUp \/ NetifdTearsDown \/ NetifdNoDevice \/ NetifdSetupFails
  \/ MMProbes \/ MMFails \/ ModemFatal \/ ModemReturns \/ Disable \/ Killed

Next == Watchdog \/ Environment

Spec == Init /\ [][Next]_vars

\* The script polls for ever; netifd ends its tasks, ModemManager probes a modem
\* it can reach, a restarting modem comes back, the switch is not left off.
Fairness ==
  /\ WF_vars(Watchdog) /\ WF_vars(NetifdSetsUp) /\ WF_vars(NetifdTearsDown)
  /\ WF_vars(NetifdNoDevice) /\ WF_vars(MMProbes) /\ WF_vars(ModemReturns)
  /\ WF_vars(~enabled /\ Disable)

FairSpec == Spec /\ Fairness

\* Somebody on the LAN keeps sending, and not only while the keepalive runs.
BusySpec == FairSpec /\ SF_vars(pc = "loop" /\ Send)

-----------------------------------------------------------------------------
Ladder == {"flock", "dormant", "verify1", "down2", "delete", "up2", "verify2", "down3",
           "restart", "up3", "verify3", "unlock"}

RadioTypeOK ==
  /\ rproc \in {"running", "restarting"} /\ link \in Cures \cup {"ok"}
  /\ {mmAlive, online, dormant, newRx, newTx, enabled} \subseteq BOOLEAN
  /\ faults \in 0..MaxFaults

AgeTypeOK ==
  /\ sinceKeepalive \in 0..KEEPALIVE_INTERVAL /\ sinceRecovery \in 0..EXTENDED_COOLDOWN_SECS
  /\ sinceRearm \in 0..BEARER_REARM_COOLDOWN /\ sinceNudge \in 0..ZOMBIE_NUDGE_COOLDOWN
  /\ sinceSsr \in 0..EXTENDED_COOLDOWN_SECS

DogTypeOK ==
  /\ pc \in Ladder \cup {"loop", "mmcli", "redrive", "probeTx", "probeIdle", "keepalive", "gate"}
  /\ lock \in {"free", "watchdog", "autocfg", "hotplug"}
  /\ {fresh, failed, disturbed, ssrFutile} \subseteq BOOLEAN
  /\ stall \in 0..STALL_TIMEOUT /\ probeFails \in 0..PROBE_FAIL_MIN
  /\ attempts \in 0..MAX_RECOVERY_ATTEMPTS
  /\ downFor \in 0..BEARER_DOWN_RECOVER_SECS /\ zombieFor \in 0..ZOMBIE_NUDGE_SECS

\* Types of every variable.
TypeOK == NetifdTypeOK /\ RadioTypeOK /\ AgeTypeOK /\ DogTypeOK

\* A user plane that has never failed is never torn down, although the modem
\* loses the first packet after every dormancy: the retries of the probe absorb it,
\* whatever the counters of the loop have made of the loss.
NoLadderOnHealthyLink == ~disturbed => pc \notin Ladder

\* The ladder does not churn: after a modem restart that brought no packet back
\* the next one is at least the extended cooldown away, and otherwise at least
\* the plain cooldown, whatever the stages in between reported.
SsrSpacing ==
  [][Stage3Restart =>
       sinceSsr >= IF ssrFutile THEN EXTENDED_COOLDOWN_SECS ELSE COOLDOWN_SECS]_vars

\* A watchdog killed between its down and its up leaves the interface down: the new
\* one, which has counted nothing yet, takes the cleared autostart for an ifdown.
LeftByDog == fresh /\ ~auto /\ err = "none"

\* A stalled user plane that dormancy, a new bearer or a modem restart can cure
\* is cured, as long as somebody sends and no killed watchdog has left the bearer.
StallCured == link # "ok" ~> link = "ok" \/ LeftByDog

\* After any finite number of connect failures, spurious DEVICE_NOT_MANAGED
\* answers, modem fatals, zombies and kills elsewhere, the bearer comes back.
BearerReturns == []<>(IfUp \/ LeftByDog)
=============================================================================
