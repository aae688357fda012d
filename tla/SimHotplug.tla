----------------------------- MODULE SimHotplug -----------------------------
(***************************************************************************)
(* The SIM hot-swap daemon, msm89xx/base-files/usr/sbin/sim-hotplug, with  *)
(* the three parties it drives: the card slot, the modem's baseband (which *)
(* notices a removal by itself but an insertion only after a pulse or a    *)
(* modem restart) and ModemManager (which caches the SIM it read last).    *)
(*                                                                         *)
(* The daemon is one shell process.  Every query, write or sleep that the  *)
(* other parties can run between is a step of its own, named by pc.  Time  *)
(* passes in the daemon's own sleeps: Aged(x, d, cap) advances an age by d *)
(* and saturates at the only value the code compares it with.              *)
(***************************************************************************)
EXTENDS Integers

CONSTANTS
  Cards, NoCard,          \* the cards of the swap history; the empty slot
  MAX_PULSE,              \* max_pulse_before_restart
  MAX_RESTARTS,           \* max_restart_attempts
  RESTART_BACKOFF,        \* restart_backoff
  IDLE_INTERVAL,          \* idle_interval
  ACTIVE_INTERVAL,        \* active_interval
  QMI_RETRY,              \* the 120 s between two ModemManager restarts
  SETTLE, ABSENT_INTERVAL, MODEM_CYCLE, REGISTER_WAIT, LOOP_SLEEP, LONG_SLEEP,
                          \* how long each kind of sleep of the daemon lasts
  Lever,                  \* outcomes of the test for a writable restart node
  MaxSwaps, MaxFaults, MaxRespawns   \* bounds of the environment

ASSUME SimAssumption ==
  /\ NoCard \notin Cards
  /\ {MAX_PULSE, QMI_RETRY} \subseteq Nat \ {0}
  /\ {MAX_RESTARTS, RESTART_BACKOFF, IDLE_INTERVAL, ACTIVE_INTERVAL} \subseteq Nat
  /\ {SETTLE, ABSENT_INTERVAL, MODEM_CYCLE, REGISTER_WAIT, LOOP_SLEEP, LONG_SLEEP}
       \subseteq Nat
  /\ Lever \subseteq BOOLEAN
  /\ {MaxSwaps, MaxFaults, MaxRespawns} \subseteq Nat

VARIABLES
  slot,          \* the card electrically in the slot, or NoCard
  bbState,       \* what UIM answers: "present", "absent" or "error"
  bbCard,        \* the card the baseband read last
  rproc,         \* remoteproc0/state: "running", "cycling" (restarting), "dead"
  qmi,           \* /dev/wwan0qmi0 exists
  mmState,       \* "failed" (sim-missing), "disabled", "searching" or "registered"
  mmSim,         \* the SIM object ModemManager caches
  swaps, faults, respawns      \* how much of each bound is used

env == <<slot, bbState, bbCard, rproc, qmi, mmState, mmSim,
         swaps, faults, respawns>>

VARIABLES
  pc,            \* where the daemon is
  removed,       \* "the card is believed absent"
  miss, err, restarts, gaveUp,          \* the script's own counters
  idx,           \* MODEM_IDX of the script's own shell: "none" (empty), or "current" or
                 \* "stale", as ModemManager numbers the modem now or no longer does
  st,            \* modem_state as read at the top of the monitor loop
  since,         \* now - last          (capped at IDLE_INTERVAL)
  sinceRestart,  \* now - last_restart  (capped at RESTART_BACKOFF)
  sinceQmi       \* now - last_qmi      (capped at QMI_RETRY)

daemon == <<pc, removed, miss, err, restarts, gaveUp, idx, st, since, sinceRestart,
            sinceQmi>>

VARIABLES        \* history, read by properties only
  attempts,      \* restarts written by this process since then
  sinceAttempt,  \* time since the last restart was written
  lastFailed,    \* that restart did not come back in time
  unread         \* while a swap is served: `mmcli -d` did not go through, or a rescan
                 \* typed by hand came after the SIM was read again

hist == <<attempts, sinceAttempt, lastFailed, unread>>
vars == <<env, daemon, hist>>

-----------------------------------------------------------------------------
Cap(n, m) == IF n < m THEN n ELSE m
Aged(x, d, cap) == Cap(x + d, cap)

\* Time passing in a sleep of the daemon, `last` apart.
Sleep(d) ==
  /\ sinceRestart' = Aged(sinceRestart, d, RESTART_BACKOFF)
  /\ sinceAttempt' = Aged(sinceAttempt, d, RESTART_BACKOFF)
  /\ sinceQmi' = Aged(sinceQmi, d, QMI_RETRY)

InService(s) == s = "registered"

Init ==
  /\ slot \in Cards \cup {NoCard}
  /\ bbCard = slot
  /\ bbState = IF slot = NoCard THEN "absent" ELSE "present"
  /\ rproc = "running" /\ qmi = TRUE
  /\ mmState = IF slot = NoCard THEN "failed" ELSE "searching"
  /\ mmSim = slot
  /\ swaps = 0 /\ faults = 0 /\ respawns = 0
  /\ pc = "start" /\ removed = FALSE /\ miss = 0 /\ err = 0 /\ restarts = 0
  /\ gaveUp = FALSE /\ idx = "none" /\ st = "searching" /\ since = 0
  /\ sinceRestart = RESTART_BACKOFF /\ sinceQmi = QMI_RETRY
  /\ attempts = 0 /\ sinceAttempt = RESTART_BACKOFF
  /\ lastFailed = FALSE /\ unread = FALSE

-----------------------------------------------------------------------------
(* uim_state.  A query that finds the QMI lock busy, times out or finds    *)
(* the client IDs exhausted is a fault of the environment.                 *)

UimAnswer == IF ~qmi THEN "qmi-down" ELSE IF bbState = "error" THEN "unknown" ELSE bbState

Asks(u) ==
  \/ u = UimAnswer /\ UNCHANGED faults
  \/ /\ qmi /\ u \in {"locked", "exhaust"}
     /\ faults < MaxFaults /\ faults' = faults + 1

UimAnswers == {"present", "absent", "unknown", "locked", "exhaust", "qmi-down"}

\* Everything of the environment the daemon's queries leave alone.
SameEnv == UNCHANGED <<slot, bbState, bbCard, rproc, qmi, mmState, mmSim,
                       swaps, respawns>>

Startup ==
  /\ pc = "start"
  /\ \E u \in UimAnswers :
       /\ Asks(u)
       /\ removed' = (u = "absent")
       /\ pc' = IF u = "absent" THEN "pulse" ELSE "monitor"
  /\ since' = 0
  /\ SameEnv
  /\ UNCHANGED <<miss, err, restarts, gaveUp, idx, st, sinceRestart, sinceQmi, hist>>

(* The absent cycle: pulse, settle, query.                                 *)

\* (bug) Giving up stops the pulses too.
PulseReadsUntilGivenUp ==
  /\ pc = "pulse" /\ ~gaveUp
  /\ IF rproc = "running"
     THEN /\ bbCard' = slot
          /\ bbState' = IF slot = NoCard THEN "absent" ELSE "present"
     ELSE UNCHANGED <<bbCard, bbState>>
  /\ pc' = "read" /\ Sleep(SETTLE)
  /\ UNCHANGED <<slot, rproc, qmi, mmState, mmSim, swaps, faults, respawns>>
  /\ UNCHANGED <<removed, miss, err, restarts, gaveUp, idx, st, since>>
  /\ UNCHANGED <<attempts, lastFailed, unread>>

\* The pulse makes a running baseband read the slot again.
PulseReads ==
  /\ pc = "pulse"
  /\ IF rproc = "running"
     THEN /\ bbCard' = slot
          /\ bbState' = IF slot = NoCard THEN "absent" ELSE "present"
     ELSE UNCHANGED <<bbCard, bbState>>
  /\ pc' = "read" /\ Sleep(SETTLE)
  /\ UNCHANGED <<slot, rproc, qmi, mmState, mmSim, swaps, faults, respawns>>
  /\ UNCHANGED <<removed, miss, err, restarts, gaveUp, idx, st, since>>
  /\ UNCHANGED <<attempts, lastFailed, unread>>

\* The pulse has no effect on the baseband (seen on some units).
PulseFails ==
  /\ pc = "pulse" /\ faults < MaxFaults /\ faults' = faults + 1
  /\ pc' = "read" /\ Sleep(SETTLE)
  /\ SameEnv
  /\ UNCHANGED <<removed, miss, err, restarts, gaveUp, idx, st, since>>
  /\ UNCHANGED <<attempts, lastFailed, unread>>

\* "present": the card event is over; miss is not cleared.
ReadPresent ==
  /\ pc = "read" /\ Asks("present")
  /\ removed' = FALSE /\ restarts' = 0 /\ gaveUp' = FALSE
  /\ since' = 0 /\ pc' = "recover"
  /\ attempts' = 0
  /\ SameEnv
  /\ UNCHANGED <<miss, err, idx, st, sinceRestart, sinceQmi, sinceAttempt, lastFailed, unread>>

\* The end of every other branch: sleep ABSENT_INTERVAL (after `extra`), pulse again.
NextPulse(extra) ==
  /\ pc' = "pulse"
  /\ Sleep(extra + ABSENT_INTERVAL)
  /\ since' = Aged(0, ABSENT_INTERVAL, IDLE_INTERVAL)
  /\ UNCHANGED <<removed, err, idx, st>>

\* "absent", with fewer than MAX_PULSE misses.
ReadAbsent ==
  /\ pc = "read" /\ Asks("absent")
  /\ miss + 1 < MAX_PULSE /\ miss' = miss + 1
  /\ NextPulse(0) /\ SameEnv
  /\ UNCHANGED <<restarts, gaveUp, attempts, lastFailed, unread>>

\* "absent" for the MAX_PULSE-th time, and the code decides not to restart.
Declines ==
  \/ gaveUp /\ UNCHANGED gaveUp
  \/ ~gaveUp /\ restarts >= MAX_RESTARTS /\ gaveUp' = TRUE
  \/ ~gaveUp /\ restarts < MAX_RESTARTS /\ sinceRestart < RESTART_BACKOFF /\ UNCHANGED gaveUp
  \/ /\ ~gaveUp /\ restarts < MAX_RESTARTS /\ sinceRestart >= RESTART_BACKOFF
     /\ rproc # "running" /\ gaveUp' = TRUE
  \/ /\ ~gaveUp /\ restarts < MAX_RESTARTS /\ sinceRestart >= RESTART_BACKOFF
     /\ rproc = "running" /\ FALSE \in Lever /\ UNCHANGED gaveUp

DeclineRestart ==
  /\ pc = "read" /\ Asks("absent")
  /\ miss + 1 >= MAX_PULSE /\ miss' = 0
  /\ Declines
  /\ NextPulse(0) /\ SameEnv
  /\ UNCHANGED <<restarts, attempts, lastFailed, unread>>

\* (bugs) A restart too early; a restart after a failed one.
RestartGuardNoBackoff == ~gaveUp /\ restarts < MAX_RESTARTS
RestartGuardAfterGiveUp == restarts < MAX_RESTARTS /\ sinceRestart >= RESTART_BACKOFF

RestartGuard == ~gaveUp /\ restarts < MAX_RESTARTS /\ sinceRestart >= RESTART_BACKOFF

\* "absent" for the MAX_PULSE-th time: restart_modem writes the restart node.
\* now, which becomes last_restart if the modem comes back, is read before.
StartRestart ==
  /\ pc = "read" /\ Asks("absent")
  /\ miss + 1 >= MAX_PULSE /\ miss' = 0
  /\ RestartGuard /\ TRUE \in Lever /\ rproc = "running"
  /\ rproc' = "cycling" /\ qmi' = FALSE
  /\ pc' = "cycle" /\ since' = 0
  /\ attempts' = Cap(attempts + 1, MAX_RESTARTS + 1) /\ sinceAttempt' = 0 /\ lastFailed' = FALSE
  /\ UNCHANGED <<slot, bbState, bbCard, mmState, mmSim, swaps, respawns>>
  /\ UNCHANGED <<removed, err, restarts, gaveUp, idx, st, sinceRestart, sinceQmi, unread>>

\* "unknown" counts as a miss but never escalates by itself.
ReadUnknown ==
  /\ pc = "read" /\ Asks("unknown")
  /\ miss' = Cap(miss + 1, MAX_PULSE)   \* the code only asks whether miss reaches it
  /\ NextPulse(0) /\ SameEnv
  /\ UNCHANGED <<restarts, gaveUp, attempts, lastFailed, unread>>

ReadLocked ==
  /\ pc = "read" /\ Asks("locked")
  /\ NextPulse(0) /\ SameEnv
  /\ UNCHANGED <<miss, restarts, gaveUp, attempts, lastFailed, unread>>

ReadQmiDown ==
  /\ pc = "read" /\ Asks("qmi-down")
  /\ gaveUp' = TRUE
  /\ NextPulse(LONG_SLEEP) /\ SameEnv
  /\ UNCHANGED <<miss, restarts, attempts, lastFailed, unread>>

ReadExhaust ==
  /\ pc = "read" /\ Asks("exhaust")
  /\ NextPulse(LONG_SLEEP) /\ SameEnv
  /\ UNCHANGED <<miss, restarts, gaveUp, attempts, lastFailed, unread>>

\* wait_modem_cycle is over: 0 if the modem runs again, 2 if it does not.
RestartReturns ==
  /\ pc = "cycle" /\ pc' = "pulse"
  /\ IF rproc = "running"
     THEN /\ restarts' = restarts + 1
          /\ sinceRestart' = Aged(0, MODEM_CYCLE + ABSENT_INTERVAL, RESTART_BACKOFF)
          /\ UNCHANGED <<gaveUp, lastFailed, unread>>
     ELSE /\ gaveUp' = TRUE /\ lastFailed' = TRUE
          /\ sinceRestart' = Aged(sinceRestart, MODEM_CYCLE + ABSENT_INTERVAL, RESTART_BACKOFF)
          /\ UNCHANGED restarts
  /\ sinceAttempt' = Aged(sinceAttempt, MODEM_CYCLE + ABSENT_INTERVAL, RESTART_BACKOFF)
  /\ sinceQmi' = Aged(sinceQmi, MODEM_CYCLE + ABSENT_INTERVAL, QMI_RETRY)
  /\ since' = Aged(since, MODEM_CYCLE + ABSENT_INTERVAL, IDLE_INTERVAL)
  /\ UNCHANGED <<env, removed, miss, err, idx, st, attempts, unread>>

(* modem_state.  It runs in a subshell, so the index it looks up again when *)
(* mmcli finds no modem at the remembered one is lost with that subshell:  *)
(* only refresh_modem sets MODEM_IDX, and only Recover empties it.         *)

\* ModemManager has the modem on its list.
Listed == rproc = "running" /\ qmi

StateAnswer ==
  IF idx = "none" THEN (IF Listed THEN mmState ELSE "none")
  ELSE IF idx = "current" /\ Listed THEN mmState ELSE "unknown"

\* A modem_state answers s; one whose `timeout 6 mmcli` expires is a fault.
Says(s) ==
  \/ s = StateAnswer /\ UNCHANGED faults
  \/ s = "unknown" /\ faults < MaxFaults /\ faults' = faults + 1

MmStates == {"failed", "disabled", "searching", "registered"}
StateAnswers == MmStates \cup {"none", "unknown"}

\* A ModemManager that probes the modem anew may give it another index.
Renumbered == IF idx = "none" THEN {"none"} ELSE {"current", "stale"}

(* After "present": get the new card into service.                         *)

\* A modem that booted without a card stays failed until MM is restarted.
Recover ==
  /\ pc = "recover" /\ pc' = "waitreg"
  /\ \E s \in StateAnswers :
       /\ Says(s)
       /\ IF s = "failed"
          THEN /\ mmState' = (IF bbState = "present" THEN "searching" ELSE "failed")
               /\ mmSim' = (IF bbState = "present" THEN bbCard ELSE NoCard)
               /\ idx' = "none"
          ELSE UNCHANGED <<mmState, mmSim, idx>>
  /\ UNCHANGED <<slot, bbState, bbCard, rproc, qmi, swaps, respawns>>
  /\ UNCHANGED <<removed, miss, err, restarts, gaveUp, st, since, sinceRestart, sinceQmi, hist>>

\* wait_register polls for REGISTER_WAIT; only its success reaches refresh_modem.
WaitRegister ==
  /\ pc = "waitreg"
  /\ IF InService(StateAnswer) THEN pc' = "refresh" /\ UNCHANGED since /\ Sleep(0)
     ELSE /\ pc' = "monitor" /\ Sleep(REGISTER_WAIT)
          /\ since' = Aged(since, REGISTER_WAIT, IDLE_INTERVAL)
  /\ UNCHANGED <<env, removed, miss, err, restarts, gaveUp, idx, st>>
  /\ UNCHANGED <<attempts, lastFailed, unread>>

\* (bug) The bearer is brought up without the refresh.
RefreshSkipped ==
  /\ pc = "refresh" /\ pc' = "bringup"
  /\ UNCHANGED <<env, removed, miss, err, restarts, gaveUp, idx, st, since, sinceRestart,
                 sinceQmi, hist>>

\* refresh_modem up to `mmcli -d`, whose result nobody looks at: without an index
\* it returns at once, and a modem that does not take the command keeps its SIM.
RefreshDisable ==
  /\ pc = "refresh"
  /\ IF idx = "none" /\ ~Listed
     THEN pc' = "bringup" /\ unread' = TRUE /\ UNCHANGED <<mmState, idx, faults>>
     ELSE /\ pc' = "enable" /\ idx' = (IF idx = "none" THEN "current" ELSE idx)
          /\ \/ /\ idx' = "current" /\ Listed /\ InService(mmState)
                /\ mmState' = "disabled" /\ unread' = FALSE /\ UNCHANGED faults
             \/ /\ unread' = TRUE /\ UNCHANGED mmState
                /\ IF idx' = "current" /\ Listed /\ InService(mmState)
                   THEN faults < MaxFaults /\ faults' = faults + 1
                   ELSE UNCHANGED faults
  /\ UNCHANGED <<slot, bbState, bbCard, rproc, qmi, mmSim, swaps, respawns>>
  /\ UNCHANGED <<removed, miss, err, restarts, gaveUp, st, since, sinceRestart, sinceQmi>>
  /\ UNCHANGED <<attempts, sinceAttempt, lastFailed>>

\* `mmcli -e`, whose result nobody looks at either: a disabled modem that takes it
\* reads its SIM.  Then the index is looked up again, and the second wait_register,
\* which only decides what is logged, takes its time.  (The third mmcli is for an
\* answer modem_state cannot give while there is an index.)
RefreshEnable ==
  /\ pc = "enable" /\ pc' = "bringup"
  /\ \/ /\ idx = "current" /\ Listed /\ mmState = "disabled" /\ bbState = "present"
        /\ mmSim' = bbCard /\ mmState' \in {"searching", "registered"}
        /\ UNCHANGED faults
     \/ /\ idx # "current" \/ ~Listed \/ mmState # "disabled" \/ bbState # "present"
        /\ UNCHANGED <<mmSim, mmState, faults>>
     \/ faults < MaxFaults /\ faults' = faults + 1 /\ UNCHANGED <<mmSim, mmState>>
  /\ idx' = IF Listed THEN "current" ELSE "none"
  /\ LET d == IF Listed /\ InService(mmState') THEN 0 ELSE REGISTER_WAIT
     IN Sleep(d) /\ since' = Aged(since, d, IDLE_INTERVAL)
  /\ UNCHANGED <<slot, bbState, bbCard, rproc, qmi, swaps, respawns>>
  /\ UNCHANGED <<removed, miss, err, restarts, gaveUp, st>>
  /\ UNCHANGED <<attempts, lastFailed, unread>>

\* The SIM an ifup connects with: its own `mmcli --enable` reads it on a disabled modem.
BearerSim == IF mmState = "disabled" THEN bbCard ELSE mmSim

\* bring_up_bearer: `timeout 40 flock` may expire while another daemon holds the
\* lock, and ModemManager may not have the modem.
BringUp ==
  /\ pc = "bringup" /\ pc' = "monitor" /\ unread' = FALSE
  /\ \/ /\ Listed /\ bbState = "present" /\ mmSim' = BearerSim
        /\ mmState' = (IF mmState = "disabled" THEN "searching" ELSE mmState)
        /\ UNCHANGED faults
     \/ ~(Listed /\ bbState = "present") /\ UNCHANGED <<mmSim, mmState, faults>>
     \/ faults < MaxFaults /\ faults' = faults + 1 /\ UNCHANGED <<mmSim, mmState>>
  /\ UNCHANGED <<slot, bbState, bbCard, rproc, qmi, swaps, respawns>>
  /\ UNCHANGED <<removed, miss, err, restarts, gaveUp, idx, st, since, sinceRestart, sinceQmi>>
  /\ UNCHANGED <<attempts, sinceAttempt, lastFailed>>

(* The monitor loop: modem_state first, then, when due, uim_state.         *)

MonitorState ==
  /\ pc = "monitor" /\ pc' = "check"
  /\ st' \in StateAnswers /\ Says(st')
  /\ SameEnv
  /\ UNCHANGED <<removed, miss, err, restarts, gaveUp, idx, since, sinceRestart, sinceQmi, hist>>

Interval == IF InService(st) THEN IDLE_INTERVAL ELSE ACTIVE_INTERVAL

\* The sleep at the end of an iteration, `extra` after a long branch.
LoopAgain(extra, newSince) ==
  /\ pc' = "monitor" /\ UNCHANGED removed
  /\ Sleep(extra + LOOP_SLEEP)
  /\ since' = Aged(newSince, LOOP_SLEEP, IDLE_INTERVAL)

\* (bug) The error count is left behind.
ForceReannounceKeepsErr ==
  /\ pc' = "pulse" /\ removed' = TRUE /\ err' = err + 1
  /\ attempts' = 0
  /\ Sleep(LOOP_SLEEP) /\ since' = Aged(0, LOOP_SLEEP, IDLE_INTERVAL)

\* Removal found, or presumed: from here on the card is believed absent.
ForceReannounce ==
  /\ pc' = "pulse" /\ removed' = TRUE /\ err' = 0
  /\ attempts' = 0
  /\ Sleep(LOOP_SLEEP) /\ since' = Aged(0, LOOP_SLEEP, IDLE_INTERVAL)

CheckNotDue ==
  /\ pc = "check" /\ since < Interval
  /\ LoopAgain(0, since)
  /\ UNCHANGED <<env, miss, err, restarts, gaveUp, idx, st, attempts, lastFailed, unread>>

CheckAbsent ==
  /\ pc = "check" /\ since >= Interval /\ Asks("absent")
  /\ ForceReannounce /\ SameEnv
  /\ UNCHANGED <<miss, restarts, gaveUp, idx, st, lastFailed, unread>>

\* A UIM error forces a re-announce out of service, from the second one on.
CheckUnknown ==
  /\ pc = "check" /\ since >= Interval /\ Asks("unknown")
  /\ IF ~InService(st) /\ err + 1 >= 2
     THEN ForceReannounce
     ELSE /\ err' = IF InService(st) THEN 0 ELSE err + 1
          /\ LoopAgain(0, 0) /\ UNCHANGED attempts
  /\ SameEnv
  /\ UNCHANGED <<miss, restarts, gaveUp, idx, st, lastFailed, unread>>

\* "present" and "locked" fall through the case: nothing changes but last.
CheckOther ==
  /\ pc = "check" /\ since >= Interval
  /\ \E u \in {"present", "locked"} : Asks(u)
  /\ LoopAgain(0, 0) /\ SameEnv
  /\ UNCHANGED <<miss, err, restarts, gaveUp, idx, st, attempts, lastFailed, unread>>

CheckExhaust ==
  /\ pc = "check" /\ since >= Interval /\ Asks("exhaust")
  /\ LoopAgain(LONG_SLEEP, 0) /\ SameEnv
  /\ UNCHANGED <<miss, err, restarts, gaveUp, idx, st, attempts, lastFailed, unread>>

\* The QMI node is gone: on a running modem a ModemManager restart returns it.
CheckQmiDown ==
  /\ pc = "check" /\ since >= Interval /\ Asks("qmi-down")
  /\ pc' = "monitor"
  /\ IF sinceQmi >= QMI_RETRY
     THEN /\ sinceQmi' = Aged(0, LONG_SLEEP + LOOP_SLEEP, QMI_RETRY)
          /\ IF rproc = "running"
             THEN /\ qmi' = TRUE
                  /\ mmState' = (IF bbState = "present" THEN "searching" ELSE "failed")
                  /\ mmSim' = (IF bbState = "present" THEN bbCard ELSE NoCard)
                  /\ idx' \in Renumbered
             ELSE UNCHANGED <<qmi, mmState, mmSim, idx>>
     ELSE /\ sinceQmi' = Aged(sinceQmi, LONG_SLEEP + LOOP_SLEEP, QMI_RETRY)
          /\ UNCHANGED <<qmi, mmState, mmSim, idx>>
  /\ sinceRestart' = Aged(sinceRestart, LONG_SLEEP + LOOP_SLEEP, RESTART_BACKOFF)
  /\ sinceAttempt' = Aged(sinceAttempt, LONG_SLEEP + LOOP_SLEEP, RESTART_BACKOFF)
  /\ since' = Aged(0, LOOP_SLEEP, IDLE_INTERVAL)
  /\ UNCHANGED <<slot, bbState, bbCard, rproc, swaps, respawns>>
  /\ UNCHANGED <<removed, miss, err, restarts, gaveUp, st, attempts, lastFailed, unread>>

\* procd respawns the script: everything it remembers is gone.
Respawn ==
  /\ respawns < MaxRespawns /\ respawns' = respawns + 1
  /\ pc' = "start" /\ removed' = FALSE /\ miss' = 0 /\ err' = 0 /\ restarts' = 0
  /\ gaveUp' = FALSE /\ idx' = "none" /\ st' = "searching" /\ since' = 0
  /\ sinceRestart' = RESTART_BACKOFF /\ sinceQmi' = QMI_RETRY
  /\ attempts' = 0 /\ sinceAttempt' = RESTART_BACKOFF
  /\ lastFailed' = FALSE /\ unread' = FALSE
  /\ UNCHANGED <<slot, bbState, bbCard, rproc, qmi, mmState, mmSim, swaps, faults>>

-----------------------------------------------------------------------------
(* The environment: hands, baseband, network, remoteproc (external).       *)

NoSwap == UNCHANGED <<daemon, hist, respawns>>

RemoveCard ==
  /\ slot # NoCard /\ slot' = NoCard
  /\ NoSwap /\ UNCHANGED <<bbState, bbCard, rproc, qmi, mmState, mmSim, swaps, faults>>

InsertCard(c) ==
  /\ slot = NoCard /\ slot' = c
  /\ swaps < MaxSwaps /\ swaps' = swaps + 1
  /\ NoSwap /\ UNCHANGED <<bbState, bbCard, rproc, qmi, mmState, mmSim, faults>>

\* The card stops answering: the baseband reports possibly-removed, service drops.
NoticeRemoval ==
  /\ rproc = "running" /\ bbState = "present" /\ bbCard # slot
  /\ bbState' = "absent"
  /\ mmState' = IF mmState = "registered" THEN "searching" ELSE mmState
  /\ NoSwap /\ UNCHANGED <<slot, bbCard, rproc, qmi, mmSim, swaps, faults>>

\* A transient UIM error, and its end.
UimError ==
  /\ rproc = "running" /\ bbState = "present"
  /\ faults < MaxFaults /\ faults' = faults + 1
  /\ bbState' = "error"
  /\ NoSwap /\ UNCHANGED <<slot, bbCard, rproc, qmi, mmState, mmSim, swaps>>

UimErrorEnds ==
  /\ rproc = "running" /\ bbState = "error"
  /\ bbState' = IF bbCard = slot THEN "present" ELSE "absent"
  /\ NoSwap /\ UNCHANGED <<slot, bbCard, rproc, qmi, mmState, mmSim, swaps, faults>>

Register ==
  /\ rproc = "running" /\ bbState = "present" /\ mmState = "searching"
  /\ mmState' = "registered"
  /\ NoSwap /\ UNCHANGED <<slot, bbState, bbCard, rproc, qmi, mmSim, swaps, faults>>

Deregister ==
  /\ mmState = "registered" /\ faults < MaxFaults /\ faults' = faults + 1
  /\ mmState' = "searching"
  /\ NoSwap /\ UNCHANGED <<slot, bbState, bbCard, rproc, qmi, mmSim, swaps>>

\* The QMI port of a running modem is lost with a dead ModemManager.
LosePort ==
  /\ rproc = "running" /\ qmi /\ faults < MaxFaults /\ faults' = faults + 1
  /\ qmi' = FALSE
  /\ NoSwap /\ UNCHANGED <<slot, bbState, bbCard, rproc, mmState, mmSim, swaps>>

\* `sim-hotplug rescan`, typed by hand: one pulse, whatever the daemon is doing.
Rescan ==
  /\ rproc = "running" /\ faults < MaxFaults /\ faults' = faults + 1
  /\ bbCard' = slot
  /\ bbState' = IF slot = NoCard THEN "absent" ELSE "present"
  /\ unread' = (unread \/ pc = "bringup")
  /\ UNCHANGED <<slot, rproc, qmi, mmState, mmSim, swaps, respawns, daemon>>
  /\ UNCHANGED <<attempts, sinceAttempt, lastFailed>>

\* A restarted modem reads the slot, and ModemManager probes it afresh.
RprocUp ==
  /\ rproc = "cycling" /\ rproc' = "running" /\ qmi' = TRUE
  /\ bbCard' = slot
  /\ bbState' = (IF slot = NoCard THEN "absent" ELSE "present")
  /\ mmState' = (IF slot = NoCard THEN "failed" ELSE "searching")
  /\ mmSim' = slot /\ idx' \in Renumbered
  /\ UNCHANGED <<slot, swaps, faults, respawns, hist>>
  /\ UNCHANGED <<pc, removed, miss, err, restarts, gaveUp, st, since, sinceRestart, sinceQmi>>

\* A restart that fails ("port failed halt") leaves the modem down for good.
RprocDies ==
  /\ rproc = "cycling" /\ faults < MaxFaults /\ faults' = faults + 1
  /\ rproc' = "dead"
  /\ NoSwap /\ UNCHANGED <<slot, bbState, bbCard, qmi, mmState, mmSim, swaps>>

-----------------------------------------------------------------------------
ReadAny ==
  \/ ReadPresent \/ ReadAbsent \/ DeclineRestart \/ StartRestart
  \/ ReadUnknown \/ ReadLocked \/ ReadQmiDown \/ ReadExhaust

CheckAny ==
  \/ CheckNotDue \/ CheckAbsent \/ CheckUnknown \/ CheckOther
  \/ CheckExhaust \/ CheckQmiDown

Daemon ==
  \/ Startup \/ PulseReads \/ PulseFails \/ ReadAny \/ RestartReturns
  \/ Recover \/ WaitRegister \/ RefreshDisable \/ RefreshEnable \/ BringUp \/ MonitorState \/ CheckAny

Environment ==
  \/ RemoveCard \/ (\E c \in Cards : InsertCard(c)) \/ NoticeRemoval
  \/ UimError \/ UimErrorEnds \/ Register \/ Deregister
  \/ LosePort \/ Rescan \/ RprocUp \/ RprocDies

Next == Daemon \/ Respawn \/ Environment

Spec == Init /\ [][Next]_vars

\* The script never stops sleeping and polling; the baseband notices a removal,
\* ends its errors, registers a card it can read and finishes a restart.
Fairness ==
  /\ WF_vars(Daemon)
  /\ WF_vars(NoticeRemoval) /\ WF_vars(UimErrorEnds)
  /\ WF_vars(Register) /\ WF_vars(RprocUp)

FairSpec == Spec /\ Fairness

-----------------------------------------------------------------------------
DaemonPcs == {"start", "pulse", "read", "cycle", "recover", "waitreg", "refresh",
              "enable", "bringup", "monitor", "check"}

EnvTypeOK ==
  /\ {slot, bbCard, mmSim} \subseteq Cards \cup {NoCard}
  /\ bbState \in {"present", "absent", "error"}
  /\ rproc \in {"running", "cycling", "dead"} /\ qmi \in BOOLEAN
  /\ mmState \in MmStates
  /\ swaps \in 0..MaxSwaps /\ faults \in 0..MaxFaults /\ respawns \in 0..MaxRespawns

AgeTypeOK ==
  /\ since \in 0..IDLE_INTERVAL /\ sinceQmi \in 0..QMI_RETRY
  /\ sinceRestart \in 0..RESTART_BACKOFF /\ sinceAttempt \in 0..RESTART_BACKOFF

DaemonTypeOK ==
  /\ pc \in DaemonPcs /\ removed \in BOOLEAN /\ miss \in 0..MAX_PULSE /\ err \in 0..1
  /\ restarts \in 0..MAX_RESTARTS /\ gaveUp \in BOOLEAN
  /\ idx \in {"none", "current", "stale"} /\ st \in StateAnswers
  /\ attempts \in 0..(MAX_RESTARTS + 1)
  /\ lastFailed \in BOOLEAN /\ unread \in BOOLEAN

\* Types of every variable.
TypeOK == EnvTypeOK /\ AgeTypeOK /\ DaemonTypeOK

\* One process never writes more than max_restart_attempts restarts between two
\* sightings of a card, whether they came back (restarts counts them) or not
\* (gave_up stops the rest).
RestartBudget == attempts <= MAX_RESTARTS

\* A restart that follows one which came back is at least restart_backoff later.
RestartSpacing ==
  [][StartRestart => lastFailed \/ sinceAttempt >= RESTART_BACKOFF]_vars

\* Every card event starts with the whole budget: while the card is believed
\* present, no give-up of an earlier event is left over that would silently
\* disable the escalation for the next one.
BudgetRearmed == ~removed => ~gaveUp /\ restarts = 0

\* The bearer is brought up for the card the baseband reads (if it still reads one),
\* never for a SIM that ModemManager cached before the swap - whatever else fails,
\* unless the `mmcli -d` of the refresh did not go through, which the script ignores,
\* or somebody rescans in between.  A failing `mmcli -e` alone does no harm: the
\* ifup enables the disabled modem itself.
BringUpFresh ==
  pc = "bringup" /\ bbState = "present" /\ ~unread => BearerSim = bbCard

\* A card that stays in the slot of a modem that stays alive is discovered,
\* whatever the restart budget says: giving up stops restarts, never pulses.
InsertionDetected ==
  <>[](slot # NoCard /\ rproc = "running" /\ qmi) => <>[](~removed /\ bbCard = slot)
=============================================================================
