------------------------------- MODULE Uplink -------------------------------
(***************************************************************************)
(* The choice between the two ways to the internet: uplink-manager         *)
(* (packages/msm89xx-scripts/.../uplink-manager) probes the modem and the  *)
(* Wi-Fi station and moves the default route and dnsmasq's servers, while  *)
(* udhcpc's handler wifi-sta-dhcp.sh writes the same routes and the same   *)
(* DNS option, netifd adds and removes the modem's route, and USR1 tells   *)
(* the manager that something has changed.                                 *)
(*                                                                         *)
(* The manager's cycle is split where another process can come between:    *)
(* top (wake, reload), read, probe, candidate route, decision, DNS, sleep. *)
(* A route is the metric it has; a gateway stands for the lease that named *)
(* it, its DNS servers included.                                           *)
(***************************************************************************)
EXTENDS Naturals

CONSTANTS
  Gateways, NoGw,     \* routers the access point may name; none
  ConfDns,            \* uplink.general.sta_dns is set
  FAIL_THRESHOLD,
  Policies,           \* what the user may choose
  MaxEvents, MaxFaults \* bounds: DHCP events and changes of policy; failures

\* The manager's three metrics, and the two that /etc/config/network gives the modem:
\* on the first boot, and once the carrier has been provisioned.
Override == 40
Normal == 50
Candidate == 100
FirstBoot == 50
Provisioned == 10

ASSUME UplinkAssumption ==
  /\ NoGw \notin Gateways /\ "conf" \notin Gateways \cup {NoGw} /\ FAIL_THRESHOLD \in Nat \ {0}
  /\ Policies \subseteq {"auto", "modem", "sta"} /\ "auto" \in Policies
  /\ ConfDns \in BOOLEAN /\ MaxEvents \in Nat /\ MaxFaults \in Nat

VARIABLES
  modemUp, modemReach,  \* netifd's modem interface is up; its path answers pings
  addr, staReach,       \* the station has an address; its path answers pings
  lease,                \* the router in /tmp/wifi-sta-lease, or NoGw
  rModem,               \* metrics of the modem's default routes
  r40, r100,            \* gateways of the station's two default routes, or NoGw
  dns,                  \* dhcp.@dnsmasq[0].server: NoGw, "conf", or a lease's
  conf,                 \* uplink.general.policy in /etc/config
  metric                \* network.modem.metric there: netifd's for the modem's route

kernel ==
  <<modemUp, modemReach, addr, staReach, lease, rModem, r40, r100, dns, conf, metric>>

VARIABLES
  dhcp, offered,        \* the DHCP handler's next step, and the router it was given
  events, faults

VARIABLES
  pc,                   \* the manager: "start" (no process, or no trap yet), "top", ...
  wake, reload, policy,
  modemOk, staOk, staGw,   \* read_modem, read_sta
  modemBad, staBad,        \* lost probes in a row, up to FAIL_THRESHOLD
  active, prevDns

readings == <<modemOk, staOk, staGw>>
manager == <<pc, wake, reload, policy, readings, modemBad, staBad, active, prevDns>>
vars == <<kernel, dhcp, offered, events, faults, manager>>

-----------------------------------------------------------------------------
Init ==
  /\ modemUp = FALSE /\ modemReach = TRUE /\ addr = FALSE /\ staReach = TRUE
  /\ lease = NoGw /\ rModem = {} /\ r40 = NoGw /\ r100 = NoGw /\ dns = NoGw
  /\ conf = "auto" /\ metric = FirstBoot
  /\ dhcp = "idle" /\ offered = NoGw /\ events = 0 /\ faults = 0
  /\ pc = "start" /\ wake = FALSE /\ reload = FALSE /\ policy = "auto"
  /\ modemOk = FALSE /\ staOk = FALSE /\ staGw = NoGw
  /\ modemBad = 0 /\ staBad = 0 /\ active = "none" /\ prevDns = NoGw

\* The metrics of all default routes; the lowest carries the traffic.
Metrics ==
  rModem \cup (IF r40 # NoGw THEN {Override} ELSE {})
         \cup (IF r100 # NoGw THEN {Candidate} ELSE {})

Best ==
  IF Metrics = {} THEN "none"
  ELSE LET m == CHOOSE m \in Metrics : \A n \in Metrics : m <= n
       IN IF m \in {Override, Candidate} THEN "sta" ELSE "modem"

\* The servers a lease stands for: the configured ones come first.
Servers(gw) == IF gw = NoGw THEN NoGw ELSE IF ConfDns THEN "conf" ELSE gw

Fault == faults < MaxFaults /\ faults' = faults + 1
Event == events < MaxEvents /\ events' = events + 1

-----------------------------------------------------------------------------
(* uplink-manager.                                                         *)

\* The script starts, sets its trap and reads its configuration.
Start ==
  /\ pc = "start" /\ pc' = "top" /\ policy' = conf
  /\ UNCHANGED <<kernel, dhcp, offered, events, faults>>
  /\ UNCHANGED <<wake, reload, readings, modemBad, staBad, active, prevDns>>

Top ==
  /\ pc = "top" /\ pc' = "read"
  /\ wake' = FALSE /\ reload' = FALSE
  /\ policy' = IF reload THEN conf ELSE policy
  /\ UNCHANGED <<kernel, dhcp, offered, events, faults>>
  /\ UNCHANGED <<readings, modemBad, staBad, active, prevDns>>

\* read_modem, read_sta: a lease is trusted while the vif carries an address.
Read ==
  /\ pc = "read" /\ pc' = "probe"
  /\ modemOk' = modemUp
  /\ staOk' = (addr /\ lease # NoGw)
  /\ staGw' = IF addr THEN lease ELSE NoGw
  /\ UNCHANGED <<kernel, dhcp, offered, events, faults>>
  /\ UNCHANGED <<wake, reload, policy, modemBad, staBad, active, prevDns>>

\* (bug) An answer does not start the count again.
LostForEver(ok, bad, answered) ==
  IF ~ok THEN FAIL_THRESHOLD
  ELSE IF answered \/ bad = FAIL_THRESHOLD THEN bad ELSE bad + 1

\* Lost probes in a row: none after an answer, all of them for an absent link.
Lost(ok, bad, answered) ==
  IF ~ok THEN FAIL_THRESHOLD
  ELSE IF answered THEN 0
  ELSE IF bad < FAIL_THRESHOLD THEN bad + 1 ELSE bad

\* One ping over each device; it needs a route of that device.
Probe ==
  /\ pc = "probe" /\ pc' = "candidate"
  /\ \E m, s \in BOOLEAN :
       /\ m => rModem # {} /\ modemReach
       /\ s => {r40, r100} # {NoGw} /\ staReach
       /\ IF /\ modemOk /\ rModem # {} /\ modemReach => m
             /\ staOk /\ {r40, r100} # {NoGw} /\ staReach => s
          THEN UNCHANGED faults ELSE Fault
       /\ modemBad' = Lost(modemOk, modemBad, m)
       /\ staBad' = Lost(staOk, staBad, s)
  /\ UNCHANGED <<kernel, dhcp, offered, events>>
  /\ UNCHANGED <<wake, reload, policy, readings, active, prevDns>>

\* (bug) The modem's route is normalised to the station's metric.
CandidateSwapped ==
  /\ pc = "candidate" /\ pc' = "decide"
  /\ rModem' = IF modemOk /\ rModem # {} THEN rModem \cup {Override} ELSE rModem
  /\ r100' = IF ~staOk THEN r100
             ELSE IF policy = "modem" THEN NoGw
             ELSE IF addr THEN staGw ELSE r100
  /\ UNCHANGED <<modemUp, modemReach, addr, staReach, lease, r40, dns, conf, metric>>
  /\ UNCHANGED <<dhcp, offered, events, faults>>
  /\ UNCHANGED <<wake, reload, policy, readings, modemBad, staBad, active, prevDns>>

\* The modem's route gets a copy at our metric, and the station's candidate route
\* tracks policy and presence.  Without a station its device is the empty string,
\* and `ip route del ... dev ""` deletes nothing.
CandidateRoute ==
  /\ pc = "candidate" /\ pc' = "decide"
  /\ rModem' = IF modemOk /\ rModem # {} THEN rModem \cup {Normal} ELSE rModem
  /\ r100' = IF ~staOk THEN r100
             ELSE IF policy = "modem" THEN NoGw
             ELSE IF addr THEN staGw ELSE r100
  /\ UNCHANGED <<modemUp, modemReach, addr, staReach, lease, r40, dns, conf, metric>>
  /\ UNCHANGED <<dhcp, offered, events, faults>>
  /\ UNCHANGED <<wake, reload, policy, readings, modemBad, staBad, active, prevDns>>

ModemHealthy == modemOk /\ modemBad < FAIL_THRESHOLD
StaHealthy == staOk /\ staBad < FAIL_THRESHOLD

Choice ==
  CASE policy = "modem" -> IF ModemHealthy THEN "modem" ELSE "none"
    [] policy = "sta"   -> IF StaHealthy THEN "sta" ELSE IF ModemHealthy THEN "modem" ELSE "none"
    [] OTHER            -> IF ModemHealthy THEN "modem" ELSE IF StaHealthy THEN "sta" ELSE "none"

\* (bug) Nobody removes the override when the station is no longer active.
DecideKeepsOverride ==
  /\ pc = "decide" /\ pc' = "dns"
  /\ active' = Choice
  /\ r40' = IF Choice = "sta" /\ addr THEN staGw ELSE r40
  /\ UNCHANGED <<modemUp, modemReach, addr, staReach, lease, rModem, r100, dns, conf, metric>>
  /\ UNCHANGED <<dhcp, offered, events, faults>>
  /\ UNCHANGED <<wake, reload, policy, readings, modemBad, staBad, prevDns>>

\* The active link, and the override route of an active station; the kernel
\* refuses a route through a vif that has lost its address.
Decide ==
  /\ pc = "decide" /\ pc' = "dns"
  /\ active' = Choice
  /\ r40' = IF Choice # "sta" THEN NoGw ELSE IF addr THEN staGw ELSE r40
  /\ UNCHANGED <<modemUp, modemReach, addr, staReach, lease, rModem, r100, dns, conf, metric>>
  /\ UNCHANGED <<dhcp, offered, events, faults>>
  /\ UNCHANGED <<wake, reload, policy, readings, modemBad, staBad, prevDns>>

\* (bug) Written only when the active link changes.
ApplyDnsOnChange ==
  /\ pc = "dns" /\ pc' = "sleep"
  /\ LET want == IF active = "sta" THEN Servers(staGw) ELSE NoGw
     IN IF (want = NoGw) = (prevDns = NoGw) THEN UNCHANGED <<dns, prevDns>>
        ELSE dns' = want /\ prevDns' = want
  /\ UNCHANGED <<modemUp, modemReach, addr, staReach, lease, rModem, r40, r100, conf, metric>>
  /\ UNCHANGED <<dhcp, offered, events, faults>>
  /\ UNCHANGED <<wake, reload, policy, readings, modemBad, staBad, active>>

\* apply_dns: written only if it is not what this process wrote last.
ApplyDns ==
  /\ pc = "dns" /\ pc' = "sleep"
  /\ LET want == IF active = "sta" THEN Servers(staGw) ELSE NoGw
     IN /\ prevDns' = want
        /\ dns' = IF want = prevDns THEN dns ELSE want
  /\ UNCHANGED <<modemUp, modemReach, addr, staReach, lease, rModem, r40, r100, conf, metric>>
  /\ UNCHANGED <<dhcp, offered, events, faults>>
  /\ UNCHANGED <<wake, reload, policy, readings, modemBad, staBad, active>>

\* The interval is over, or a signal has cut it short.
Wakes ==
  /\ pc = "sleep" /\ pc' = "top"
  /\ UNCHANGED <<kernel, dhcp, offered, events, faults>>
  /\ UNCHANGED <<wake, reload, policy, readings, modemBad, staBad, active, prevDns>>

\* procd starts it again, with empty counters and no memory of the DNS it wrote.
Killed ==
  /\ pc # "start" /\ Fault /\ pc' = "start"
  /\ wake' = FALSE /\ reload' = FALSE /\ policy' = "auto"
  /\ modemOk' = FALSE /\ staOk' = FALSE /\ staGw' = NoGw
  /\ modemBad' = 0 /\ staBad' = 0 /\ active' = "none" /\ prevDns' = NoGw
  /\ UNCHANGED <<kernel, dhcp, offered, events>>

\* USR1: before the trap is set it ends the process, which procd starts again.
Signal ==
  /\ wake' = (pc # "start") /\ reload' = (pc # "start")
  /\ UNCHANGED <<pc, policy, readings, modemBad, staBad, active, prevDns>>

-----------------------------------------------------------------------------
(* udhcpc's handler, wifi-sta-dhcp.sh, one udhcpc event at a time.         *)

\* Flushing the last address of the vif removes its routes.
Flush == r40' = NoGw

\* bound, renew: address and candidate route first ...
Bound(gw) ==
  /\ dhcp = "idle" /\ Event /\ dhcp' = "lease" /\ offered' = gw
  /\ Flush /\ addr' = TRUE /\ r100' = gw
  /\ UNCHANGED <<modemUp, modemReach, staReach, lease, rModem, dns, conf, metric, faults, manager>>

\* ... then the lease file ...
WriteLease ==
  /\ dhcp = "lease" /\ dhcp' = "dns" /\ lease' = offered
  /\ UNCHANGED <<modemUp, modemReach, addr, staReach, rModem, r40, r100, dns, conf, metric>>
  /\ UNCHANGED <<offered, events, faults, manager>>

\* ... then write_dns, which also a deconfig calls: the configured servers come
\* first in it.
WriteDns ==
  /\ dhcp = "dns" /\ dhcp' = "signal"
  /\ dns' = IF ConfDns THEN "conf" ELSE offered
  /\ UNCHANGED <<modemUp, modemReach, addr, staReach, lease, rModem, r40, r100, conf, metric>>
  /\ UNCHANGED <<offered, events, faults, manager>>

\* (bug) The handler leaves it to the manager's interval to notice.
SignalMgrNever ==
  /\ dhcp = "signal" /\ dhcp' = "idle" /\ offered' = NoGw
  /\ UNCHANGED <<kernel, events, faults, manager>>

\* ... and signal_mgr last.
SignalMgr ==
  /\ dhcp = "signal" /\ dhcp' = "idle" /\ offered' = NoGw
  /\ Signal
  /\ UNCHANGED <<kernel, events, faults>>

Deconfig ==
  /\ dhcp = "idle" /\ Event /\ dhcp' = "dns" /\ offered' = NoGw
  /\ Flush /\ addr' = FALSE /\ r100' = NoGw /\ lease' = NoGw
  /\ UNCHANGED <<modemUp, modemReach, staReach, rModem, dns, conf, metric, faults, manager>>

\* leasefail, nak: only the signal.
LeaseFail ==
  /\ dhcp = "idle" /\ Event /\ dhcp' = "signal"
  /\ UNCHANGED <<kernel, offered, faults, manager>>

-----------------------------------------------------------------------------
(* The rest of the system.                                                 *)

\* The station's vif is deleted with its address and routes; udhcpc dies with it
\* and says nothing, so that the lease file stays.
VifLost ==
  /\ addr /\ dhcp = "idle" /\ Fault
  /\ Flush /\ addr' = FALSE /\ r100' = NoGw
  /\ UNCHANGED <<modemUp, modemReach, staReach, lease, rModem, dns, conf, metric>>
  /\ UNCHANGED <<dhcp, offered, events, manager>>

ModemUp ==
  /\ ~modemUp /\ modemUp' = TRUE /\ rModem' = {metric}
  /\ UNCHANGED <<modemReach, addr, staReach, lease, r40, r100, dns, conf, metric>>
  /\ UNCHANGED <<dhcp, offered, events, faults, manager>>

ModemDown ==
  /\ modemUp /\ Fault /\ modemUp' = FALSE /\ rModem' = {}
  /\ UNCHANGED <<modemReach, addr, staReach, lease, r40, r100, dns, conf, metric>>
  /\ UNCHANGED <<dhcp, offered, events, manager>>

\* The way behind a link breaks, or works again.
PathBreaks ==
  /\ Fault
  /\ \/ modemReach /\ modemReach' = FALSE /\ UNCHANGED staReach
     \/ staReach /\ staReach' = FALSE /\ UNCHANGED modemReach
  /\ UNCHANGED <<modemUp, addr, lease, rModem, r40, r100, dns, conf, metric>>
  /\ UNCHANGED <<dhcp, offered, events, manager>>

PathWorks ==
  /\ \/ ~modemReach /\ modemReach' = TRUE /\ UNCHANGED staReach
     \/ ~staReach /\ staReach' = TRUE /\ UNCHANGED modemReach
  /\ UNCHANGED <<modemUp, addr, lease, rModem, r40, r100, dns, conf, metric>>
  /\ UNCHANGED <<dhcp, offered, events, faults, manager>>

\* qcom-carrier-autocfg has recognised the carrier: it writes the modem's section,
\* its metric included, and netifd's reload takes the interface down to set it up again.
\* (For a later carrier it writes the same metric: to this module a ModemDown.)
Provision ==
  /\ metric # Provisioned /\ metric' = Provisioned /\ modemUp' = FALSE /\ rModem' = {}
  /\ UNCHANGED <<modemReach, addr, staReach, lease, r40, r100, dns, conf>>
  /\ UNCHANGED <<dhcp, offered, events, faults, manager>>

\* The user saves another policy; procd's reload trigger signals the manager.
SetPolicy(p) ==
  /\ p # conf /\ Event /\ conf' = p /\ Signal
  /\ UNCHANGED <<modemUp, modemReach, addr, staReach, lease, rModem, r40, r100, dns, metric>>
  /\ UNCHANGED <<dhcp, offered, faults>>

-----------------------------------------------------------------------------
Manager ==
  Start \/ Top \/ Read \/ Probe \/ CandidateRoute \/ Decide \/ ApplyDns \/ Wakes

Handler == WriteLease \/ WriteDns \/ SignalMgr

Next ==
  \/ Manager \/ Handler \/ Killed
  \/ (\E gw \in Gateways : Bound(gw)) \/ Deconfig \/ LeaseFail \/ VifLost
  \/ ModemUp \/ ModemDown \/ Provision \/ PathBreaks \/ PathWorks
  \/ \E p \in Policies : SetPolicy(p)

Spec == Init /\ [][Next]_vars

\* Both scripts keep running.
FairSpec == Spec /\ WF_vars(Manager) /\ WF_vars(Handler)

-----------------------------------------------------------------------------
Pcs ==
  {"start", "top", "read", "probe", "candidate", "decide", "dns", "sleep"}
Gws == Gateways \cup {NoGw}

FlagTypeOK ==
  /\ modemUp \in BOOLEAN /\ modemReach \in BOOLEAN /\ addr \in BOOLEAN /\ staReach \in BOOLEAN
  /\ wake \in BOOLEAN /\ reload \in BOOLEAN /\ modemOk \in BOOLEAN /\ staOk \in BOOLEAN

GwTypeOK ==
  /\ lease \in Gws /\ r40 \in Gws /\ r100 \in Gws /\ offered \in Gws /\ staGw \in Gws
  /\ dns \in Gws \cup {"conf"} /\ prevDns \in Gws \cup {"conf"}
  /\ metric \in {FirstBoot, Provisioned} /\ rModem \subseteq {Provisioned, FirstBoot, Normal}

CountTypeOK ==
  /\ conf \in Policies /\ policy \in Policies
  /\ dhcp \in {"idle", "lease", "dns", "signal"} /\ pc \in Pcs
  /\ modemBad \in 0..FAIL_THRESHOLD /\ staBad \in 0..FAIL_THRESHOLD
  /\ active \in {"none", "modem", "sta"}
  /\ events \in 0..MaxEvents /\ faults \in 0..MaxFaults

\* Types of every variable.
TypeOK == FlagTypeOK /\ GwTypeOK /\ CountTypeOK

\* The manager sleeps out its interval, and nobody is about to wake it.
Quiet == pc = "sleep" /\ ~wake /\ dhcp = "idle"

\* No route outlives the lease it was made for: when everything is quiet, the
\* station's routes go through the router of the lease, although the manager
\* installs them from a lease it read some seconds of probing earlier.
RoutesFollowLease ==
  Quiet => \A gw \in {r40, r100} \ {NoGw} : addr /\ gw = lease

\* dnsmasq asks the servers of the current lease while the station is active,
\* although both scripts write them and the manager skips what it wrote last.
StaDnsApplied == Quiet /\ active = "sta" => dns = Servers(lease)

\* Policy "modem": when everything is quiet the station has no default route.
ModemOnly == Quiet /\ policy = "modem" => r40 = NoGw /\ r100 = NoGw

\* A route of the modem below the override: netifd's, on a provisioned device.
Outranked == \E m \in rModem : m < Override

\* The traffic goes where the manager says it goes, but for one case: it has chosen
\* the station, and a route of the modem that it does not manage is below its override.
ActiveWins ==
  Quiet => /\ active = "sta" /\ addr => Best = (IF Outranked THEN "modem" ELSE "sta")
           /\ active = "modem" /\ modemUp => Best = "modem"

\* What UPLINK_FAILOVER.md says: "Modem unhealthy, STA healthy -> STA override (40)
\* wins."  The healths are those of the cycle that has just ended.
OverrideWins ==
  Quiet /\ policy # "modem" /\ modemOk /\ ~ModemHealthy /\ StaHealthy /\ addr => Best = "sta"

\* Where the traffic ought to go, from the state of the links.
Preferred ==
  LET modem == modemUp /\ modemReach
      sta == addr /\ staReach
  IN CASE conf = "modem" -> IF modem THEN "modem" ELSE "none"
       [] conf = "sta"   -> IF sta THEN "sta" ELSE IF modem THEN "modem" ELSE "none"
       [] OTHER          -> IF modem THEN "modem" ELSE IF sta THEN "sta" ELSE "none"

\* Once the links and the policy stay as they are, the traffic settles on the link
\* the policy prefers among those that work, failover and failback: the modem in every
\* case, the station unless the modem's interface stays up with a route below the
\* override.
TrafficFollowsPolicy ==
  /\ <>[](Preferred = "modem") => <>[](Best = "modem")
  /\ <>[](Preferred = "sta") => <>[](Best = "sta" \/ Outranked)
=============================================================================
