------------------------------- MODULE Netifd -------------------------------
(***************************************************************************)
(* netifd's `modem` interface as the daemons of this repository drive it:  *)
(* `ubus call network.interface.modem up|down`, ifup (down, then up),      *)
(* ifdown, and the modemmanager protocol handler                           *)
(* (openwrt-overlay/.../lib/netifd/proto/modemmanager.sh) that netifd runs *)
(* as the interface's setup task.  netifd itself is not in the repository: *)
(* its rules are those the comments of modem-bearer-watchdog and           *)
(* modemmanager.sh record.                                                 *)
(***************************************************************************)

VARIABLES
  ifState,   \* "down", "setup", "up", "teardown"
  auto,      \* the autostart flag
  avail,     \* the available flag
  err,       \* errors[0]: "none", "connect" or "other"
  mmObj      \* ModemManager exports a modem object

netifd == <<ifState, auto, avail, err, mmObj>>

NetifdTypeOK ==
  /\ ifState \in {"down", "setup", "up", "teardown"}
  /\ auto \in BOOLEAN /\ avail \in BOOLEAN /\ mmObj \in BOOLEAN
  /\ err \in {"none", "connect", "other"}

NetifdInit ==
  /\ ifState = "down" /\ auto = TRUE /\ avail = FALSE /\ err = "none" /\ mmObj = FALSE

IfUp == ifState = "up"

\* The interface leaves a state in which the handler holds it.
TornDown == IF ifState \in {"setup", "up"} THEN "teardown" ELSE ifState

\* `up`: autostart is set; a down interface starts setup if it is available,
\* and records NO_DEVICE if it is not.
UbusUp ==
  /\ auto' = TRUE
  /\ IF ifState # "down" THEN UNCHANGED <<ifState, err>>
     ELSE IF avail THEN ifState' = "setup" /\ err' = "none"
     ELSE err' = "other" /\ UNCHANGED ifState
  /\ UNCHANGED <<avail, mmObj>>

\* `down`: autostart is cleared; a clean ifdown leaves no error.
UbusDown ==
  /\ auto' = FALSE /\ err' = "none" /\ ifState' = TornDown
  /\ UNCHANGED <<avail, mmObj>>

\* ifup(8): down, then up, while the teardown runs.
Ifup ==
  /\ auto' = TRUE
  /\ IF ifState = "down"
     THEN IF avail THEN ifState' = "setup" /\ err' = "none"
          ELSE err' = "other" /\ UNCHANGED ifState
     ELSE ifState' = TornDown /\ err' = "none"
  /\ UNCHANGED <<avail, mmObj>>

\* `network reload` after the interface's section has changed: it starts again from
\* its new settings, if autostart and available say so.
Reload ==
  /\ IF ifState = "down"
     THEN IF auto /\ avail THEN ifState' = "setup" /\ err' = "none"
          ELSE UNCHANGED <<ifState, err>>
     ELSE ifState' = TornDown /\ UNCHANGED err
  /\ UNCHANGED <<auto, avail, mmObj>>

\* `up`, then `notify_proto available`: what the watchdog's re-drive sends.
UpAndAvailable ==
  /\ auto' = TRUE /\ avail' = TRUE
  /\ IF ifState = "down" THEN ifState' = "setup" /\ err' = "none"
     ELSE UNCHANGED <<ifState, err>>
  /\ UNCHANGED mmObj

(* proto_modemmanager_setup, by how it ends.                               *)

SetupSucceeds ==
  /\ ifState = "setup" /\ mmObj /\ ifState' = "up"
  /\ UNCHANGED <<auto, avail, err, mmObj>>

\* MM_CONNECT_FAILED or MM_INTERFACE_RESTART: netifd tries again.
ConnectFails ==
  /\ ifState = "setup" /\ mmObj /\ ifState' = "teardown" /\ err' = "connect"
  /\ UNCHANGED <<auto, avail, mmObj>>

\* A missing SIM, a locked SIM or a refused registration: proto_block_restart.
SetupBlocks ==
  /\ ifState = "setup" /\ mmObj /\ ifState' = "teardown" /\ err' = "other"
  /\ auto' = FALSE
  /\ UNCHANGED <<avail, mmObj>>

\* DEVICE_NOT_MANAGED: mmcli gave no answer, so the available flag is cleared.
DeviceNotManaged ==
  /\ ifState = "setup" /\ ifState' = "teardown" /\ err' = "other"
  /\ avail' = FALSE
  /\ UNCHANGED <<auto, mmObj>>

\* The end of a teardown: with autostart, netifd goes straight back to setup,
\* which clears the errors.
TeardownEnds ==
  /\ ifState = "teardown"
  /\ IF auto /\ avail THEN ifState' = "setup" /\ err' = "none"
     ELSE ifState' = "down" /\ UNCHANGED err
  /\ UNCHANGED <<auto, avail, mmObj>>

\* ModemManager-monitor's (+): the interface is available again.
ModemAppears ==
  /\ mmObj' = TRUE /\ avail' = TRUE
  /\ IF auto /\ ifState = "down" THEN ifState' = "setup" /\ err' = "none"
     ELSE UNCHANGED <<ifState, err>>
  /\ UNCHANGED auto

\* ModemManager-monitor's (-).
ModemVanishes ==
  /\ mmObj' = FALSE /\ avail' = FALSE /\ ifState' = TornDown
  /\ UNCHANGED <<auto, err>>
=============================================================================
