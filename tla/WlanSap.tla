-------------------------------- MODULE WlanSap --------------------------------
(***************************************************************************)
(* The access point of the archived stock Wi-Fi driver: the requests of    *)
(* hostapd start and stop a BSS, each waiting for one event that the       *)
(* callback hdd_hostapd_SAPEventCB signals on the MC thread; the same      *)
(* callback keeps the stations and the inactivity timer, and stops a P2P   *)
(* group by itself.  Requests run one at a time under rtnl; the callback   *)
(* runs beside them, and they are cut where it can come between.           *)
(***************************************************************************)
EXTENDS Naturals, Sequences, SequencesExt, FiniteSets

CONSTANTS
    Stations,
    Channels,   \* what the access point may operate on
    AutoChannel, \* AUTO_CHANNEL_SELECT
    MaxOps,     \* requests
    MaxEvents,  \* what stations, peers and firmware do unasked
    MaxFaults   \* failing calls and waits that give up early

ASSUME SapAssumption ==
    /\ {MaxOps, MaxEvents, MaxFaults} \subseteq Nat
    /\ AutoChannel \notin Channels
    /\ IsFiniteSet(Stations)

VARIABLES
    ap,         \* the adapter: hdd_ap_ctx_t, hdd_hostapd_state_t, its flags and queues
    active,     \* no_of_active_sessions of its mode
    sta,        \* aStaInfo: isUsed and isDeauthInProgress of each station
    user,       \* where the request under rtnl stands
    mc,         \* where the MC thread stands
    cfg,        \* cfg80211 has an access point; user space was told to restart it
    fw,         \* WLANSAP, configuration and firmware: the BSS, its extra information elements
                \* and whether it has a key, who is joined, indications, channels to avoid
    mishap,     \* kinds of trouble so far
    left        \* the remaining bounds

vars == <<ap, active, sta, user, mc, cfg, fw, mishap, left>>

(* hdd_init_ap_mode: the state structure zeroed, its event and semaphore   *)
(* fresh.                                                                  *)
InitApMode == [beacon |-> FALSE, started |-> FALSE, event |-> 0, bss |-> "stop",
               timer |-> "none", shut |-> FALSE, channel |-> AutoChannel,
               operating |-> AutoChannel, queues |-> FALSE, pbc |-> 1, keys |-> {}]
Idle == [at |-> "idle", op |-> "none", ok |-> TRUE, todo |-> {}, one |-> {}]
NoStations == [s \in Stations |-> [used |-> FALSE, deauth |-> FALSE]]

Init ==
    /\ ap = InitApMode /\ active = 0 /\ sta = NoStations
    /\ user = Idle /\ mc = "idle"
    /\ cfg = [ap |-> FALSE, restart |-> FALSE]
    /\ fw \in [bss : {"none"}, joined : {{}}, said : {<<>>}, unsafe : {{}},
               picked : {AutoChannel}, ies : {FALSE}, key : {FALSE}, group : BOOLEAN, auto : BOOLEAN]
    /\ mishap = {}
    /\ left = [ops |-> MaxOps, events |-> MaxEvents, faults |-> MaxFaults]

SoftAp == ~fw.group     \* device_mode: an access point, or the owner of a P2P group

Fails(kind) ==
    /\ left.faults > 0
    /\ left' = [left EXCEPT !.faults = @ - 1]
    /\ mishap' = mishap \union {kind}
CanEnter == user.at = "idle" /\ left.ops > 0
Enter == CanEnter /\ left' = [left EXCEPT !.ops = @ - 1] /\ UNCHANGED mishap
EnterFails(kind) ==
    /\ CanEnter /\ left.faults > 0
    /\ left' = [left EXCEPT !.ops = @ - 1, !.faults = @ - 1]
    /\ mishap' = mishap \union {kind}
Unasked ==
    /\ mc = "idle" /\ left.events > 0
    /\ left' = [left EXCEPT !.events = @ - 1]
Go(s) == user' = [user EXCEPT !.at = s]

(* vos_wait_single_event, 10 s at most: a wait gives up at once when no    *)
(* event can come, for the MC thread is blocked or the BSS is not in the   *)
(* given states; else within the bound.                                    *)
GiveUp(states) ==
    /\ ap.event = 0
    /\ IF fw.bss \in states /\ mc # "pbc"
       THEN Fails("late")
       ELSE mishap' = mishap \union {"late"} /\ UNCHANGED left
TakeEvent ==
    /\ ap.event > 0
    /\ ap' = [ap EXCEPT !.event = @ - 1]
    /\ UNCHANGED left

-----------------------------------------------------------------------------
(* wlan_hdd_cfg80211_start_bss.  The beacon is on the adapter by then, and *)
(* stays there when the request is refused: for the channel (a group's is  *)
(* not checked), for its information elements, for too many connections,   *)
(* by WLANSAP.                                                             *)
CanStart == fw.bss = "none"
Refusals == {"channel", "elements", "connections", "WLANSAP"}
ChannelChecked(channel) == SoftAp /\ channel # AutoChannel
RefusedEarly(channel) ==
    \/ ChannelChecked(channel) /\ EnterFails("channel")
    \/ EnterFails("elements")
RefusedLate ==
    \/ EnterFails("connections")
    \/ CanStart /\ EnterFails("WLANSAP")
    \/ /\ CanEnter /\ ~CanStart
       /\ left' = [left EXCEPT !.ops = @ - 1]
       /\ mishap' = mishap \union {"WLANSAP"}

(* update_apies: the elements of beacon and responses go to the            *)
(* configuration, of a running BSS too.                                    *)
ApIes(f) == [f EXCEPT !.ies = TRUE]
StartBss(op, channel) ==
    /\ ap' = [ap EXCEPT !.beacon = TRUE, !.channel = channel]
    /\ \/ RefusedEarly(channel) /\ UNCHANGED <<user, cfg, fw>>
       \/ /\ ~ap.started /\ RefusedLate
          /\ fw' = ApIes(fw)
          /\ UNCHANGED <<user, cfg>>
       \/ /\ ap.started /\ Enter
          /\ fw' = ApIes(fw)
          /\ cfg' = [cfg EXCEPT !.ap = TRUE]
          /\ UNCHANGED user
       \/ /\ ~ap.started /\ CanStart /\ Enter
          /\ fw' = [ApIes(fw) EXCEPT !.bss = "starting"]
          /\ user' = [Idle EXCEPT !.at = "startWait", !.op = op]
          /\ UNCHANGED cfg

(* start_ap of an interface that has no beacon yet.  A channel that        *)
(* set_channel refuses leaves the previous one.                            *)
SetChannel == IF SoftAp /\ fw.auto THEN {AutoChannel} ELSE Channels \union {ap.channel}
StartAp ==
    /\ ~cfg.ap /\ ~ap.beacon
    /\ \E channel \in SetChannel : StartBss("start", channel)
    /\ UNCHANGED <<active, sta, mc>>

(* change_beacon replaces the beacon; it starts a BSS that was stopped.    *)
ChangeBeacon ==
    /\ cfg.ap /\ ap.beacon
    /\ StartBss("change", ap.channel)
    /\ UNCHANGED <<active, sta, mc>>

(* The rest of start_bss, which looks at neither the wait's result nor the *)
(* event's status.                                                         *)
StartWaited ==
    /\ user.at = "startWait"
    /\ \/ /\ TakeEvent
          /\ mishap' = mishap \union (IF fw.bss \in {"starting", "picked"} THEN {"early"} ELSE {})
       \/ GiveUp({"starting", "picked"}) /\ UNCHANGED ap
    /\ Go("startSet")
    /\ UNCHANGED <<active, sta, mc, cfg, fw>>
SetStarted ==
    /\ user.at = "startSet"
    /\ ap' = [ap EXCEPT !.started = TRUE]
    /\ Go("startCount")
    /\ UNCHANGED <<active, sta, mc, cfg, fw, mishap, left>>
CountStarted ==
    /\ user.at = "startCount"
    /\ active' = active + 1
    /\ cfg' = [cfg EXCEPT !.ap = TRUE]
    /\ user' = Idle
    /\ UNCHANGED <<ap, sta, mc, fw, mishap, left>>

-----------------------------------------------------------------------------
(* Stations are removed one by one: WLANSAP_DeauthSta, then the mark.      *)
Deauthed(f, s) ==
    IF s \in f.joined
    THEN [f EXCEPT !.joined = @ \ {s}, !.said = Append(@, [of |-> s, says |-> "disassoc"])]
    ELSE f
Leaving(s) == [of |-> s, says |-> "disassoc"] \in ToSet(fw.said)

(* del_station of one station: marked first, unmarked if that fails.       *)
MarkedFirst ==
    /\ Enter
    /\ \E s \in Stations :
         /\ sta[s].used /\ ~sta[s].deauth
         /\ sta' = [sta EXCEPT ![s].deauth = TRUE]
         /\ user' = [Idle EXCEPT !.at = "deauth", !.one = {s}]
    /\ UNCHANGED <<ap, active, mc, cfg, fw>>
UnmarkedNever(table, s) == table
Unmarked(table, s) == [table EXCEPT ![s].deauth = FALSE]
DelStation ==
    /\ user.at = "deauth"
    /\ \E s \in user.one :
         \/ /\ fw' = Deauthed(fw, s)
            /\ UNCHANGED <<sta, left, mishap>>
         \/ /\ Fails("deauth")
            /\ sta' = Unmarked(sta, s)
            /\ UNCHANGED fw
    /\ user' = Idle
    /\ UNCHANGED <<ap, active, mc, cfg>>

(* del_station for all of them, and the same loop (hdd_del_all_sta) at the *)
(* start of stop_ap.                                                       *)
DelAllStations ==
    /\ Enter
    /\ user' = [Idle EXCEPT !.at = "delAll", !.op = "del", !.todo = Stations]
    /\ UNCHANGED <<ap, active, sta, mc, cfg, fw>>
DelNext ==
    /\ user.at = "delAll"
    /\ \E s \in user.todo :
         IF sta[s].used /\ ~sta[s].deauth
         THEN \/ /\ fw' = Deauthed(fw, s)
                 /\ user' = [user EXCEPT !.at = "delMark", !.todo = @ \ {s}, !.one = {s}]
                 /\ UNCHANGED <<mishap, left>>
              \/ /\ Fails("deauth")
                 /\ user' = [user EXCEPT !.todo = @ \ {s}]
                 /\ UNCHANGED fw
         ELSE /\ user' = [user EXCEPT !.todo = @ \ {s}]
              /\ UNCHANGED <<fw, mishap, left>>
    /\ UNCHANGED <<ap, active, sta, mc, cfg>>
DelMark ==
    /\ user.at = "delMark"
    /\ \E s \in user.one :
         /\ sta' = [sta EXCEPT ![s].deauth = TRUE]
         /\ mishap' = mishap \union
              (IF sta[s].used /\ ~Leaving(s) THEN {"rejoined"} ELSE {})
    /\ Go("delAll")
    /\ UNCHANGED <<ap, active, mc, cfg, fw, left>>
DelDone ==
    /\ user.at = "delAll" /\ user.op = "del" /\ user.todo = {}
    /\ user' = Idle
    /\ UNCHANGED <<ap, active, sta, mc, cfg, fw, mishap, left>>

-----------------------------------------------------------------------------
(* stop_ap removes the stations, stops the queues, stops the BSS and, if   *)
(* that went well, forgets the beacon; cfg80211 keeps an access point that *)
(* could not be stopped.  The private ioctl and hdd_stop_adapter (another  *)
(* interface type is chosen: cfg80211 has none left by then) only stop.    *)
StopAp ==
    /\ Enter /\ cfg.ap
    /\ user' = [Idle EXCEPT !.at = "delAll", !.op = "stop", !.todo = Stations]
    /\ UNCHANGED <<ap, active, sta, mc, cfg, fw>>
StopApQueues ==
    /\ user.at = "delAll" /\ user.op = "stop" /\ user.todo = {}
    /\ ap' = [ap EXCEPT !.queues = FALSE]
    /\ user' = IF ap.beacon THEN [user EXCEPT !.at = "stop"] ELSE Idle
    /\ UNCHANGED <<active, sta, mc, cfg, fw, mishap, left>>
StopBssIoctl ==
    /\ Enter
    /\ user' = [Idle EXCEPT !.at = "stop", !.op = "ioctl"]
    /\ UNCHANGED <<ap, active, sta, mc, cfg, fw>>
StopAdapter ==
    /\ Enter /\ ~cfg.ap
    /\ user' = [Idle EXCEPT !.at = "stop", !.op = "leave"]
    /\ UNCHANGED <<ap, active, sta, mc, cfg, fw>>

(* What follows the stop, by request; ok is WLANSAP's and the wait's       *)
(* status.  An interface left by the access point is set up again later.   *)
Forgotten == user.op = "stop" /\ user.ok
StopFinished(a) ==
    CASE Forgotten -> [a EXCEPT !.beacon = FALSE]
      [] user.op = "leave" -> InitApMode
      [] OTHER -> a
IesReset(f) == [f EXCEPT !.ies = @ /\ ~Forgotten /\ ~(user.op = "leave" /\ user.at = "stopCount")]
StopBss ==
    /\ user.at = "stop"
    /\ \/ /\ ~ap.started
          /\ ap' = StopFinished(ap) /\ fw' = IesReset(fw)
          /\ cfg' = [cfg EXCEPT !.ap = @ /\ ~Forgotten]
          /\ user' = Idle
          /\ UNCHANGED <<mishap, left>>
       \/ /\ ap.started /\ fw.bss = "up"
          /\ fw' = [fw EXCEPT !.bss = "stopping"]
          /\ Go("stopWait")
          /\ UNCHANGED <<ap, cfg, mishap, left>>
       \/ /\ ap.started
          /\ IF fw.bss = "up" THEN Fails("stopfails") ELSE UNCHANGED <<mishap, left>>
          /\ user' = [user EXCEPT !.at = "stopClear", !.ok = FALSE]
          /\ UNCHANGED <<ap, cfg, fw>>
    /\ UNCHANGED <<active, sta, mc>>
StopWaited ==
    /\ user.at = "stopWait"
    /\ \/ /\ TakeEvent
          /\ Go("stopClear")
          /\ UNCHANGED mishap
       \/ /\ GiveUp({"stopping"})
          /\ user' = [user EXCEPT !.at = "stopClear", !.ok = FALSE]
          /\ UNCHANGED ap
    /\ UNCHANGED <<active, sta, mc, cfg, fw>>
ClearStarted ==
    /\ user.at = "stopClear"
    /\ ap' = [ap EXCEPT !.started = FALSE]
    /\ Go("stopCount")
    /\ UNCHANGED <<active, sta, mc, cfg, fw, mishap, left>>
Decr(n) == IF n > 0 THEN n - 1 ELSE 0
CountStopped ==
    /\ user.at = "stopCount"
    /\ active' = Decr(active)
    /\ ap' = StopFinished(ap) /\ fw' = IesReset(fw)
    /\ cfg' = [cfg EXCEPT !.ap = @ /\ ~Forgotten]
    /\ user' = Idle
    /\ UNCHANGED <<sta, mc, mishap, left>>

(* ifconfig up: the queues of a started BSS.                               *)
OpenAlways(a) == [a EXCEPT !.queues = TRUE]
Open(a) == [a EXCEPT !.queues = @ \/ a.started]
HostapdOpen ==
    /\ Enter
    /\ ap' = Open(ap)
    /\ UNCHANGED <<active, sta, user, mc, cfg, fw>>

(* The probe request of a push-button session is fetched.                  *)
GetProbeRequest ==
    /\ Enter
    /\ ap' = [ap EXCEPT !.pbc = @ + 1]
    /\ UNCHANGED <<active, sta, user, mc, cfg, fw>>

(* add_key of a group or a WEP key: given to WLANSAP when the BSS has      *)
(* started (it may fail), else saved for the start event to give it.       *)
BssRunsByFlag(a) == a.started
BssRuns(a) == a.bss = "start"
AddKey ==
    /\ \/ /\ Enter /\ BssRuns(ap)
          /\ fw' = [fw EXCEPT !.key = TRUE]
          /\ UNCHANGED user
       \/ /\ EnterFails("key") /\ BssRuns(ap)
          /\ UNCHANGED <<user, fw>>
       \/ /\ Enter /\ ~BssRuns(ap)
          /\ user' = [Idle EXCEPT !.at = "keySave"]
          /\ UNCHANGED fw
    /\ UNCHANGED <<ap, active, sta, mc, cfg>>
SaveKey == \E kind \in {"group", "wep"} :
    /\ user.at = "keySave"
    /\ ap' = [ap EXCEPT !.keys = @ \union {kind}]
    /\ user' = Idle
    /\ UNCHANGED <<active, sta, mc, cfg, fw, mishap, left>>

-----------------------------------------------------------------------------
(* hdd_hostapd_SAPEventCB.  The firmware starts a BSS on the channel asked *)
(* for, or picks one that is not to be avoided.                            *)
PickChannel ==
    /\ fw.bss = "starting"
    /\ \E c \in Channels :
         /\ IF ap.channel = AutoChannel THEN c \notin fw.unsafe \/ fw.unsafe = Channels ELSE c = ap.channel
         /\ fw' = [fw EXCEPT !.bss = "picked", !.picked = c]
    /\ UNCHANGED <<ap, active, sta, user, mc, cfg, mishap, left>>

(* eSAP_START_BSS_EVENT: the wait is ended first, the rest is set up after *)
(* it; a failed start goes on as a stop.                                   *)
Stopped(a) == [a EXCEPT !.bss = "stop", !.timer = "none", !.queues = FALSE]
StartEvent ==
    /\ mc = "idle" /\ fw.bss = "picked" /\ fw.said = <<>>
    /\ \/ /\ fw' = [fw EXCEPT !.bss = "up"]
          /\ ap' = [ap EXCEPT !.event = @ + 1]
          /\ mc' = "started"
          /\ UNCHANGED <<mishap, left>>
       \/ /\ Fails("startfails")
          /\ fw' = [fw EXCEPT !.bss = "none"]
          /\ ap' = [Stopped(ap) EXCEPT !.event = @ + 1]
          /\ UNCHANGED mc
    /\ UNCHANGED <<active, sta, user, cfg>>
\* A saved group key is given, or else the saved WEP keys are.
Given == IF "group" \in ap.keys THEN {"group"} ELSE ap.keys
StartDone ==
    /\ mc = "started"
    /\ ap' = [ap EXCEPT !.bss = "start", !.operating = fw.picked, !.queues = TRUE,
                        !.timer = "running", !.shut = FALSE, !.keys = @ \ Given]
    /\ \/ /\ fw' = [fw EXCEPT !.key = Given # {}]
          /\ UNCHANGED left
       \/ /\ Given # {} /\ left.faults > 0
          /\ left' = [left EXCEPT !.faults = @ - 1]
          /\ UNCHANGED fw
    /\ mishap' = mishap \union (IF user.at = "keySave" THEN {"keyrace"} ELSE {})
                        \union (IF Given # ap.keys THEN {"shadowed"} ELSE {})
    /\ cfg' = [cfg EXCEPT !.restart = FALSE]
    /\ mc' = "idle"
    /\ UNCHANGED <<active, sta, user>>

(* eSAP_STOP_BSS_EVENT: the stations go with the BSS, the event is last.   *)
StopEvent ==
    /\ mc = "idle" /\ fw.bss = "stopping" /\ fw.said = <<>>
    /\ fw' = [fw EXCEPT !.bss = "none", !.joined = {}, !.key = FALSE]
    /\ ap' = [Stopped(ap) EXCEPT !.operating = AutoChannel, !.event = @ + 1]
    /\ sta' = NoStations
    /\ UNCHANGED <<active, user, mc, cfg, mishap, left>>

(* eSAP_STA_ASSOC_EVENT: the station is registered, if that works, and the *)
(* timer stops.                                                            *)
Hears(says) == mc = "idle" /\ fw.said # <<>> /\ Head(fw.said).says = says
Heard == fw' = [fw EXCEPT !.said = Tail(@)]
AssocEvent ==
    /\ Hears("assoc") /\ Heard
    /\ \/ /\ sta' = [sta EXCEPT ![Head(fw.said).of] = [used |-> TRUE, deauth |-> FALSE]]
          /\ ap' = [ap EXCEPT !.timer = IF @ = "running" THEN "stopped" ELSE @,
                              !.shut = FALSE, !.queues = TRUE]
          /\ UNCHANGED <<mishap, left>>
       \/ /\ Fails("register")
          /\ ap' = [ap EXCEPT !.timer = IF @ = "running" THEN "stopped" ELSE @]
          /\ UNCHANGED sta
    /\ UNCHANGED <<active, user, mc, cfg>>

(* eSAP_STA_DISASSOC_EVENT: the timer starts when the last one has left.   *)
TimerAfterAny(a, table) == IF a.timer = "stopped" THEN "running" ELSE a.timer
TimerAfter(a, table) ==
    IF a.timer = "stopped" /\ \A s \in Stations : ~table[s].used THEN "running" ELSE a.timer
DisassocEvent ==
    /\ Hears("disassoc") /\ Heard
    /\ LET s == Head(fw.said).of IN
       IF sta[s].used
       THEN /\ sta' = [sta EXCEPT ![s] = NoStations[s]]
            /\ ap' = [ap EXCEPT !.timer = TimerAfter(ap, sta')]
       ELSE UNCHANGED <<sta, ap>>
    /\ UNCHANGED <<active, user, mc, cfg, mishap, left>>

(* hdd_hostapd_inactivity_timer_cb asks user space to shut down.           *)
TimerFires ==
    /\ mc = "idle" /\ ap.timer = "running"
    /\ ap' = [ap EXCEPT !.timer = "stopped", !.shut = TRUE]
    /\ UNCHANGED <<active, sta, user, mc, cfg, fw, mishap, left>>

(* eSAP_WPS_PBC_PROBE_REQ_EVENT: the MC thread waits until user space has  *)
(* fetched the previous probe request.                                     *)
PbcProbe ==
    /\ Unasked /\ fw.bss = "up"
    /\ mc' = "pbc"
    /\ UNCHANGED <<ap, active, sta, user, cfg, fw, mishap>>
PbcTaken ==
    /\ mc = "pbc" /\ ap.pbc > 0
    /\ ap' = [ap EXCEPT !.pbc = @ - 1]
    /\ mc' = "idle"
    /\ UNCHANGED <<active, sta, user, cfg, fw, mishap, left>>

(* eSAP_MAC_TRIG_STOP_BSS_EVENT, hdd_stop_p2p_link: nobody waits for the   *)
(* event that the stop will signal, and a stop that fails counts as one.   *)
(* A BSS whose bit is not set yet stays.                                   *)
StopP2pLink ==
    /\ mc = "idle" /\ left.events > 0 /\ fw.group /\ fw.bss = "up"
    /\ LET noted == mishap \union {"trig"}
                       \union (IF user.at = "startCount" THEN {"between"} ELSE {})
       IN \/ /\ ap.started /\ fw' = [fw EXCEPT !.bss = "stopping"]
             /\ mishap' = noted
             /\ left' = [left EXCEPT !.events = @ - 1]
          \/ /\ ap.started /\ left.faults > 0 /\ fw' = fw
             /\ mishap' = noted \union {"stopfails"}
             /\ left' = [left EXCEPT !.events = @ - 1, !.faults = @ - 1]
          \/ /\ ~ap.started /\ UNCHANGED <<fw, mishap>>
             /\ left' = [left EXCEPT !.events = @ - 1]
    /\ ap' = [ap EXCEPT !.started = FALSE]
    /\ active' = IF ap.started THEN Decr(active) ELSE active
    /\ UNCHANGED <<sta, user, mc, cfg>>

(* eSAP_DISCONNECT_ALL_P2P_CLIENT, hdd_clear_all_sta: Deauthed for each    *)
(* station in use, in the order of the table.                              *)
ClearAllSta ==
    /\ Unasked /\ fw.group /\ fw.bss = "up"
    /\ LET going == {s \in fw.joined : sta[s].used} IN
       \E order \in SetToSeqs(going) :
         fw' = [fw EXCEPT !.joined = @ \ going,
                          !.said = @ \o [i \in DOMAIN order |->
                                           [of |-> order[i], says |-> "disassoc"]]]
    /\ UNCHANGED <<ap, active, sta, user, mc, cfg, mishap>>

(* hdd_hostapd_ch_avoid_cb: the list is kept; a started access point that  *)
(* has picked an unsafe channel stops sending, and user space is told.     *)
Avoid(channels) ==
    IF SoftAp /\ ap.started /\ ap.channel = AutoChannel /\ ap.operating \in channels
    THEN /\ ap' = [ap EXCEPT !.queues = FALSE]
         /\ cfg' = [cfg EXCEPT !.restart = TRUE]
    ELSE UNCHANGED <<ap, cfg>>
ChannelAvoid ==
    /\ Unasked
    /\ \E channels \in SUBSET Channels :
         fw' = [fw EXCEPT !.unsafe = channels] /\ Avoid(channels)
    /\ UNCHANGED <<active, sta, user, mc, mishap>>

(* The stations.                                                           *)
Join ==
    /\ left.events > 0 /\ fw.bss = "up"
    /\ left' = [left EXCEPT !.events = @ - 1]
    /\ \E s \in Stations \ fw.joined :
         fw' = [fw EXCEPT !.joined = @ \union {s},
                          !.said = Append(@, [of |-> s, says |-> "assoc"])]
    /\ UNCHANGED <<ap, active, sta, user, mc, cfg, mishap>>
Leave ==
    /\ left.events > 0
    /\ left' = [left EXCEPT !.events = @ - 1]
    /\ \E s \in fw.joined : fw' = Deauthed(fw, s)
    /\ UNCHANGED <<ap, active, sta, user, mc, cfg, mishap>>

Next ==
    \/ StartAp \/ ChangeBeacon \/ StartWaited \/ SetStarted \/ CountStarted
    \/ MarkedFirst \/ DelStation \/ DelAllStations \/ DelNext \/ DelMark \/ DelDone
    \/ StopAp \/ StopApQueues \/ StopBssIoctl \/ StopAdapter
    \/ StopBss \/ StopWaited \/ ClearStarted \/ CountStopped
    \/ HostapdOpen \/ GetProbeRequest \/ AddKey \/ SaveKey
    \/ PickChannel \/ StartEvent \/ StartDone \/ StopEvent
    \/ AssocEvent \/ DisassocEvent \/ TimerFires
    \/ PbcProbe \/ PbcTaken \/ StopP2pLink \/ ClearAllSta \/ ChannelAvoid
    \/ Join \/ Leave

Spec == Init /\ [][Next]_vars

-----------------------------------------------------------------------------
Quiet ==
    user.at = "idle" /\ mc = "idle" /\ fw.said = <<>> /\ fw.bss \in {"none", "up"}

(* When nothing is under way, the adapter's flag, the BSS state, WLANSAP,  *)
(* the session counter, the queues and cfg80211 agree, no event is left    *)
(* for a later wait, and an access point that is gone has left no beacon   *)
(* that would refuse the next one and no information elements.             *)
BssAgreement ==
    Quiet /\ mishap \intersect {"late", "startfails", "stopfails", "early"} = {} =>
      /\ ap.started = (fw.bss = "up") /\ ap.started = (ap.bss = "start")
      /\ "between" \notin mishap => active = IF ap.started THEN 1 ELSE 0
      /\ ap.bss = "stop" => ~ap.queues
      /\ ap.bss = "start" /\ ~cfg.restart => ap.queues
      /\ "trig" \notin mishap => ap.event = 0
      /\ mishap \intersect Refusals = {} => cfg.ap = ap.beacon /\ (fw.ies => ap.beacon)

(* A BSS without stations is timed until user space is told to shut it     *)
(* down, one with stations is not.                                         *)
IdleTimer ==
    Quiet /\ ap.bss = "start" /\ "register" \notin mishap =>
      IF \E s \in Stations : sta[s].used
      THEN ap.timer = "stopped"
      ELSE ap.timer = "running" \/ ap.shut

(* A station marked as being removed is being removed: hdd_del_all_sta and *)
(* del_station pass over it otherwise for as long as it stays.             *)
StationsCanGo ==
    user.at = "idle" /\ "rejoined" \notin mishap =>
      \A s \in Stations : sta[s].used /\ sta[s].deauth => Leaving(s)

(* add_key: "Save the key in ap context. Issue setkey after the BSS is     *)
(* started."  No running BSS waits for a key that was saved for it, but    *)
(* for a WEP key that stayed because a group key was saved as well.        *)
SavedKeysIssued ==
    Quiet /\ ap.bss = "start" =>
      "group" \notin ap.keys /\ (ap.keys # {} => "shadowed" \in mishap)

(* It waits only when the start event came between the test and the save.  *)
KeyWaitsForStart == "keyrace" \notin mishap => SavedKeysIssued
=============================================================================
