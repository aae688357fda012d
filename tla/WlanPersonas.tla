----------------------------- MODULE WlanPersonas -----------------------------
(***************************************************************************)
(* The interfaces ("adapters") of the archived stock Wi-Fi driver and the  *)
(* bookkeeping it shares between them: the personas and their open and     *)
(* active session counters, the SME sessions, and the two power saves      *)
(* (BMPS, IMPS) that concurrency switches off.  User space requests come   *)
(* one at a time under rtnl; each runs as a program of steps, cut wherever *)
(* the code waits for an answer of SME, so that answers, disconnections by *)
(* the peer and a subsystem restart fall between the steps.                *)
(*                                                                         *)
(* Bounds: MaxOps requests, MaxLate waits that give up although their      *)
(* answer is under way, MaxFails failing calls, MaxSsr restarts.           *)
(***************************************************************************)
EXTENDS Integers, Sequences, FiniteSets

CONSTANTS
    Wlan, P2p,          \* wlan0 and p2p0, the two interfaces of a load
    MaxActive,          \* gMaxConcurrentActiveSessions
    FailKinds,          \* calls that may fail: "sme" "tdls" "country" "ap" "register" "alloc" "privacy"
    MaxOps, MaxLate, MaxFails, MaxSsr

ASSUME PersonasAssumption ==
    /\ Wlan # P2p
    /\ MaxActive \in Nat \ {0}
    /\ {MaxOps, MaxLate, MaxFails, MaxSsr} \subseteq Nat

Adapters == {Wlan, P2p}

(* enum device_mode, as far as the two interfaces take it.                 *)
Modes == {"sta", "client", "p2pdev", "ibss", "sap", "go"}
CountedModes == {"sta", "client", "go", "sap"}
StaModes == {"sta", "client", "p2pdev"}
ApModes == {"sap", "go"}

VARIABLES
    ad,         \* per interface: hdd_adapter_t
    open,       \* no_of_open_sessions, an unsigned byte per mode
    active,     \* no_of_active_sessions
    ps,         \* power saves that SME has enabled, a subset of {"bmps", "imps"}
    lowpower,   \* wlan_hdd_enter_lowpower was the last of the pair
    logp,       \* isLogpInProgress
    sme,        \* per interface: SME's session, its link, its answers under way
    comp,       \* per interface: disconnect_comp_var, session_{open,close}_comp_var
    prog,       \* what is left of the request under way
    unwind,     \* what it runs instead when a step fails
    mishap,     \* kinds of trouble so far
    left        \* the remaining bounds

vars == <<ad, open, active, ps, lowpower, logp, sme, comp, prog, unwind, mishap, left>>

Idle == prog = <<>>
Step(s, a, x) == [s |-> s, a |-> a, x |-> x]
At(s) == prog # <<>> /\ Head(prog).s = s
Me == Head(prog).a
Arg == Head(prog).x
Next1 == prog' = Tail(prog)

(* A call fails: the request goes on with its error path, the restart with *)
(* its next interface.                                                     *)
ErrorPath == IF Arg = "ignore" THEN Tail(prog) ELSE unwind
Trouble(kind) == /\ kind \in FailKinds
                 /\ left.fails > 0
                 /\ left' = [left EXCEPT !.fails = @ - 1]
                 /\ mishap' = mishap \union {kind}
Fail(kind) == Trouble(kind) /\ prog' = ErrorPath

(* A wait gives up: at once when no answer can come any more, else within  *)
(* the bound.                                                              *)
GiveUp(pending) ==
    IF pending THEN /\ left.late > 0
                    /\ left' = [left EXCEPT !.late = @ - 1]
                    /\ mishap' = mishap \union {"late"}
               ELSE UNCHANGED <<left, mishap>>

(* wlan_hdd_set/clear_concurrency_mode, incr/decr_active_session: modes    *)
(* outside the four are not counted; the open count is a byte that wraps,  *)
(* the active count stops at zero.                                         *)
SetConcurrency(o, m) ==
    IF m \in CountedModes THEN [o EXCEPT ![m] = (@ + 1) % 256] ELSE o
ClearConcurrencyNoClient(o, m) ==
    IF m \in CountedModes \ {"client"} THEN [o EXCEPT ![m] = (@ + 255) % 256] ELSE o
ClearConcurrency(o, m) ==
    IF m \in CountedModes THEN [o EXCEPT ![m] = (@ + 255) % 256] ELSE o
IncrActive(c, m) ==
    IF m \in CountedModes THEN [c EXCEPT ![m] = @ + 1] ELSE c
DecrActive(c, m) ==
    IF m \in CountedModes /\ c[m] > 0 THEN [c EXCEPT ![m] = @ - 1] ELSE c
Total(c) == c["sta"] + c["client"] + c["go"] + c["sap"]
ConcurrentOpen == Total(open) > 1
MaxReached == Total(active) >= MaxActive

(* hdd_get_adapter: the first interface of the list with that mode.        *)
HasMode(m) == \E a \in Adapters : ad[a].listed /\ ad[a].mode = m
First(m) == IF ad[Wlan].listed /\ ad[Wlan].mode = m THEN Wlan ELSE P2p
Connected(m) == HasMode(m) /\ ad[First(m)].conn = "Associated"

(* hdd_disable_bmps_imps: what is off afterwards, and whether it returns   *)
(* SUCCESS (anything to do) or E_INVAL; nothing for a P2P device.          *)
DisableDoes(type) ==
    \/ type \in ApModes
    \/ type \in {"sta", "client"} /\ (Connected("sta") \/ Connected("client"))
AfterDisable(type) == ps \ (IF type \in ApModes THEN {"bmps", "imps"}
                            ELSE IF DisableDoes(type) THEN {"bmps"} ELSE {})

-----------------------------------------------------------------------------
Fresh(m) == [listed |-> FALSE, mode |-> m, up |-> FALSE, sess |-> FALSE, init |-> FALSE,
             conn |-> "NotConnected", bss |-> FALSE, beacon |-> FALSE]
NoSme == [session |-> FALSE, link |-> "idle", opening |-> FALSE, closing |-> FALSE]
NoComp == [disc |-> FALSE, open |-> FALSE, close |-> FALSE]

(* After hdd_wlan_startup: wlan0 and p2p0 opened with a session each.      *)
Init ==
    /\ ad = [a \in Adapters |->
               [Fresh(IF a = Wlan THEN "sta" ELSE "p2pdev")
                 EXCEPT !.listed = TRUE, !.sess = TRUE, !.init = TRUE]]
    /\ open = [m \in CountedModes |-> IF m = "sta" THEN 1 ELSE 0]
    /\ active = [m \in CountedModes |-> 0]
    /\ ps = {"bmps", "imps"}
    /\ lowpower = FALSE /\ logp = FALSE
    /\ sme = [a \in Adapters |-> [NoSme EXCEPT !.session = TRUE]]
    /\ comp = [a \in Adapters |-> NoComp]
    /\ prog = <<>> /\ unwind = <<>>
    /\ mishap = {}
    /\ left = [ops |-> MaxOps, late |-> MaxLate, fails |-> MaxFails, ssr |-> MaxSsr]

-----------------------------------------------------------------------------
(* Requests.  cfg80211 and the network core hold rtnl from the first step  *)
(* to the last, and wlan_hdd_validate_context refuses during a restart.    *)
Request(a) ==
    /\ Idle /\ ~logp /\ left.ops > 0
    /\ ad[a].listed
    /\ left' = [left EXCEPT !.ops = @ - 1]

(* cfg80211 knows of no link: it has had it taken down with Disconnect, or *)
(* was told by the restart that it is gone.  It makes sure of that before  *)
(* it takes an interface down or changes its type.                         *)
NoLink(a) == ad[a].conn \notin {"Associated", "Connecting"} \/ ~sme[a].session

(* __hdd_open: the first interface to come up wakes the chip.              *)
IfUp(a) ==
    /\ Idle /\ left.ops > 0 /\ ad[a].listed
    /\ left' = [left EXCEPT !.ops = @ - 1]
    /\ ad[a].mode \notin ApModes /\ ~ad[a].up
    /\ lowpower' = IF \E b \in Adapters : ad[b].listed /\ ad[b].up THEN lowpower ELSE FALSE
    /\ ad' = [ad EXCEPT ![a].up = TRUE]
    /\ UNCHANGED <<open, active, ps, logp, sme, comp, prog, unwind, mishap>>

(* __hdd_stop: the flag goes first, then stop without closing the session, *)
(* deinit, and low power when it was the last one.                         *)
IfDown(a) ==
    /\ Request(a)
    /\ ad[a].mode \notin ApModes /\ ad[a].up /\ NoLink(a)
    /\ ad' = [ad EXCEPT ![a].up = FALSE]
    /\ prog' = <<Step("stop", a, "keep"), Step("deinit", a, "-"), Step("standby", a, "-")>>
    /\ unwind' = <<>>
    /\ UNCHANGED <<open, active, ps, lowpower, logp, sme, comp, mishap>>

Standby ==
    /\ At("standby") /\ Next1
    /\ lowpower' = (lowpower \/ ~\E b \in Adapters : ad[b].listed /\ ad[b].up)
    /\ UNCHANGED <<ad, open, active, ps, logp, sme, comp, unwind, mishap, left>>

(* __wlan_hdd_cfg80211_connect: BMPS off for concurrent sessions, an old   *)
(* link taken down first, then connect_start.  cfg80211 itself refuses a   *)
(* second connect while one is under way.                                  *)
Connect(a) ==
    /\ Request(a) /\ (ad[a].conn # "Connecting" \/ NoLink(a))
    /\ ad[a].mode \in {"sta", "client"} /\ ad[a].up
    /\ ~MaxReached
    /\ LET off == ad[a].mode = "sta" /\ ConcurrentOpen
       IN /\ ps' = IF off THEN AfterDisable("sta") ELSE ps
          /\ unwind' = IF off /\ DisableDoes("sta") THEN <<Step("enable", a, "-")>> ELSE <<>>
    /\ prog' = <<Step("trydisc", a, "-"), Step("privacy", a, "-"), Step("roam", a, "-")>>
    /\ UNCHANGED <<ad, open, active, lowpower, logp, sme, comp, mishap>>

(* wlan_hdd_try_disconnect: a wait that gives up ends the request with     *)
(* -EALREADY, on a path that does not turn BMPS on again.                  *)
TryDisconnect ==
    /\ At("trydisc")
    /\ LET ask == ad[Me].conn = "Associated"
           asked == ask /\ sme[Me].link # "idle"
       IN /\ comp' = IF ask THEN [comp EXCEPT ![Me].disc = FALSE] ELSE comp
          /\ sme' = IF asked THEN [sme EXCEPT ![Me].link = "leaving"] ELSE sme
          /\ prog' = IF asked \/ ad[Me].conn = "Disconnecting"
                     THEN <<Step("waitdisc", Me, "already")>> \o Tail(prog) ELSE Tail(prog)
    /\ UNCHANGED <<ad, open, active, ps, lowpower, logp, unwind, mishap, left>>

SetPrivacy ==
    /\ At("privacy")
    /\ \/ Next1 /\ UNCHANGED <<left, mishap>>
       \/ Trouble("privacy") /\ prog' = <<>>
    /\ UNCHANGED <<ad, open, active, ps, lowpower, logp, sme, comp, unwind>>

(* wlan_hdd_cfg80211_connect_start: Connecting is set before the call,     *)
(* because SME may call back from inside it, and taken back on an error.   *)
(* Its caller turns BMPS on again if the result is negative: that it is    *)
(* when a restart refuses the call, never when sme_RoamConnect fails.      *)
ConnectStart ==
    /\ At("roam")
    /\ \/ /\ ad' = [ad EXCEPT ![Me].conn = "Connecting"]
          /\ sme[Me].session
          /\ sme' = [sme EXCEPT ![Me].link = "joining"]
          /\ Next1
          /\ UNCHANGED <<left, mishap>>
       \/ /\ ad' = [ad EXCEPT ![Me].conn = "NotConnected"]
          /\ prog' = <<>>
          /\ IF sme[Me].session THEN Trouble("sme") ELSE UNCHANGED <<left, mishap>>
          /\ UNCHANGED sme
       \/ /\ logp /\ prog' = unwind
          /\ UNCHANGED <<ad, sme, left, mishap>>
    /\ UNCHANGED <<open, active, ps, lowpower, logp, comp, unwind>>

(* hdd_enable_bmps_imps: both, whatever was off and whoever else needs it  *)
(* off.                                                                    *)
Enable ==
    /\ At("enable") /\ Next1
    /\ ps' = {"bmps", "imps"}
    /\ UNCHANGED <<ad, open, active, lowpower, logp, sme, comp, unwind, mishap, left>>

(* __wlan_hdd_cfg80211_disconnect and wlan_hdd_disconnect: the count and   *)
(* the state change under lock_for_active_session, then the wait.          *)
DisconnectBodyNoDecr(a) ==
    /\ ad' = [ad EXCEPT ![a].conn = "Disconnecting"]
    /\ comp' = [comp EXCEPT ![a].disc = FALSE]
    /\ sme' = [sme EXCEPT ![a].link = IF @ = "idle" THEN @ ELSE "leaving"]
    /\ UNCHANGED active
DisconnectBody(a) ==
    /\ active' = IF ad[a].conn = "Associated" THEN DecrActive(active, ad[a].mode) ELSE active
    /\ ad' = [ad EXCEPT ![a].conn = "Disconnecting"]
    /\ comp' = [comp EXCEPT ![a].disc = FALSE]
    /\ sme' = [sme EXCEPT ![a].link = IF @ = "idle" THEN @ ELSE "leaving"]

Disconnect(a) ==
    /\ Request(a)
    /\ ad[a].mode \in {"sta", "client"}
    /\ ~NoLink(a)
    /\ DisconnectBody(a)
    /\ prog' = <<Step("waitdisc", a, "go"), Step("notconn", a, "-")>>
    /\ unwind' = <<>>
    /\ UNCHANGED <<open, ps, lowpower, logp, mishap>>

WaitDisconnect ==
    /\ At("waitdisc")
    /\ \/ /\ comp[Me].disc
          /\ comp' = [comp EXCEPT ![Me].disc = FALSE]
          /\ Next1
          /\ UNCHANGED <<left, mishap>>
       \/ /\ GiveUp(comp[Me].disc \/ sme[Me].link = "leaving")
          /\ prog' = IF Arg = "already" THEN <<>> ELSE Tail(prog)
          /\ UNCHANGED comp
    /\ UNCHANGED <<ad, open, active, ps, lowpower, logp, sme, unwind>>

SetNotConnected ==
    /\ At("notconn") /\ Next1
    /\ ad' = [ad EXCEPT ![Me].conn = "NotConnected"]
    /\ UNCHANGED <<open, active, ps, lowpower, logp, sme, comp, unwind, mishap, left>>

-----------------------------------------------------------------------------
(* hdd_stop_adapter.  Nothing at all during a restart.  Station: the link  *)
(* is taken down with a wait whose completion nobody re-initialises, then  *)
(* the session is closed if asked.  AP: the BSS is stopped, its session    *)
(* no longer active, the beacon freed.                                     *)
StopAdapter ==
    /\ At("stop")
    /\ LET a == Me
           me == ad[a]
           wait == IF \/ me.conn \in {"Associated", "Connecting"} /\ sme[a].link # "idle"
                      \/ me.conn = "Disconnecting"
                   THEN <<Step("waitdisc", a, "go")>> ELSE <<>>
           close == IF Arg = "close" THEN <<Step("closesess", a, "-")>> ELSE <<>>
       IN \/ /\ logp
             /\ Next1
             /\ UNCHANGED <<ad, active, sme>>
          \/ /\ ~logp /\ me.mode \in StaModes
             /\ sme' = [sme EXCEPT ![a].link =
                          IF me.conn \in {"Associated", "Connecting"} /\ @ # "idle" THEN "leaving" ELSE @]
             /\ prog' = wait \o close \o Tail(prog)
             /\ UNCHANGED <<ad, active>>
          \/ /\ ~logp /\ me.mode \in ApModes
             /\ active' = IF me.bss THEN DecrActive(active, me.mode) ELSE active
             /\ ad' = [ad EXCEPT ![a].bss = FALSE, ![a].beacon = FALSE]
             /\ Next1
             /\ UNCHANGED sme
          \/ /\ ~logp /\ me.mode = "ibss"
             /\ Next1
             /\ UNCHANGED <<ad, active, sme>>
    /\ UNCHANGED <<open, ps, lowpower, logp, comp, unwind, mishap, left>>

AfterCloseNoWait == Tail(prog)
AfterClose == <<Step("waitclose", Me, "-")>> \o Tail(prog)

CloseSession ==
    /\ At("closesess")
    /\ IF ad[Me].sess
       THEN /\ comp' = [comp EXCEPT ![Me].close = FALSE]
            /\ IF sme[Me].session
               THEN /\ sme' = [sme EXCEPT ![Me].session = FALSE, ![Me].closing = TRUE, ![Me].link = "idle"]
                    /\ prog' = AfterClose
               ELSE Next1 /\ UNCHANGED sme
       ELSE Next1 /\ UNCHANGED <<sme, comp>>
    /\ UNCHANGED <<ad, open, active, ps, lowpower, logp, unwind, mishap, left>>

WaitClose ==
    /\ At("waitclose")
    /\ \/ /\ comp[Me].close
          /\ comp' = [comp EXCEPT ![Me].close = FALSE]
          /\ UNCHANGED <<left, mishap>>
       \/ /\ GiveUp(comp[Me].close \/ sme[Me].closing)
          /\ UNCHANGED comp
    /\ Next1
    /\ UNCHANGED <<ad, open, active, ps, lowpower, logp, sme, unwind>>

(* hdd_deinit_adapter: the data path flags that are set.                   *)
Deinit ==
    /\ At("deinit") /\ Next1
    /\ ad' = [ad EXCEPT ![Me].init = FALSE]
    /\ UNCHANGED <<open, active, ps, lowpower, logp, sme, comp, unwind, mishap, left>>

(* hdd_close_adapter: the count, the netdev (its memory and its magic are  *)
(* gone), the list, and power save when a single station session is left.  *)
ResumedLate(o) == Total(o) < 1 /\ (o["sta"] >= 1 \/ o["client"] >= 1)
Resumed(o) == Total(o) <= 1 /\ (o["sta"] >= 1 \/ o["client"] >= 1)

CloseAdapter ==
    /\ At("close") /\ Next1
    /\ open' = ClearConcurrency(open, ad[Me].mode)
    /\ ad' = [ad EXCEPT ![Me] = Fresh(@.mode)]
    /\ comp' = [comp EXCEPT ![Me] = NoComp]
    /\ ps' = IF Resumed(open') THEN {"bmps", "imps"} ELSE ps
    /\ UNCHANGED <<active, lowpower, logp, sme, unwind, mishap, left>>

(* hdd_init_station_mode: open a session, wait for it, then the data path; *)
(* a failure after that closes the session again, a time-out does not.     *)
InitStation ==
    /\ At("initsta")
    /\ comp' = [comp EXCEPT ![Me].open = FALSE]
    /\ \/ /\ sme' = [sme EXCEPT ![Me].opening = TRUE]
          /\ prog' = <<Step("waitopen", Me, Arg)>> \o Tail(prog)
          /\ UNCHANGED <<left, mishap>>
       \/ /\ Fail("sme")
          /\ UNCHANGED sme
    /\ UNCHANGED <<ad, open, active, ps, lowpower, logp, unwind>>

WaitOpen ==
    /\ At("waitopen")
    /\ \/ /\ comp[Me].open
          /\ comp' = [comp EXCEPT ![Me].open = FALSE]
          /\ \/ /\ ad' = [ad EXCEPT ![Me].conn = "NotConnected", ![Me].init = TRUE]
                /\ Next1
                /\ UNCHANGED <<left, mishap>>
             \/ /\ Trouble("tdls")
                /\ ad' = [ad EXCEPT ![Me].conn = "NotConnected", ![Me].init = FALSE]
                /\ prog' = <<Step("closesess", Me, "-")>> \o ErrorPath
       \/ /\ GiveUp(comp[Me].open \/ sme[Me].opening)
          /\ prog' = ErrorPath
          /\ UNCHANGED <<ad, comp>>
    /\ UNCHANGED <<open, active, ps, lowpower, logp, sme, unwind>>

-----------------------------------------------------------------------------
(* __wlan_hdd_cfg80211_change_iface.  The count of the old mode goes       *)
(* first; the paths that return early never count the interface again.    *)
StationModeOf(a, type) ==
    IF type # "station" THEN "client" ELSE IF a = Wlan THEN "sta" ELSE "p2pdev"

(* cfg80211 has an access point stopped as well before it changes the      *)
(* type, and user space asks for AP on wlan0 and for GO on p2p0 only.      *)
MayChange(a, type) ==
    /\ ad[a].mode \in StaModes => NoLink(a)
    /\ ~ad[a].bss
    /\ type = "ap" => a = Wlan
    /\ type = "go" => a = P2p

ToApProgram(a, type) ==
    (IF type = "ap" /\ HasMode("p2pdev")
     THEN LET p == First("p2pdev")
          IN <<Step("stop", p, "close"), Step("deinit", p, "-"), Step("close", p, "-")>>
     ELSE <<>>)
    \o <<Step("disable", a, "go"), Step("stop", a, "close"), Step("deinit", a, "-"),
         Step("mode", a, IF type = "ap" THEN "sap" ELSE "go")>>
    \o (IF type = "ap" THEN <<Step("country", a, "-")>> ELSE <<>>)
    \o <<Step("initap", a, "-"), Step("count", a, "-")>>

ToStationProgram(a, type) ==
    <<Step("stop", a, "close"), Step("deinit", a, "-"), Step("mode", a, StationModeOf(a, type)),
      Step("initsta", a, "-"), Step("enable", a, "-"), Step("count", a, "-")>>

ChangeIface(a, type) ==
    /\ Request(a)
    /\ MayChange(a, type)
    /\ ~MaxReached
    /\ open' = ClearConcurrency(open, ad[a].mode)
    /\ unwind' = <<Step("half", a, "-")>>
    /\ LET same == ad[a].mode \in StaModes /\ type \in {"station", "client"}
       IN /\ ad' = IF same THEN [ad EXCEPT ![a].mode = StationModeOf(a, type)] ELSE ad
          /\ prog' =
               IF same THEN (IF type = "client" THEN <<Step("tdls", a, "-")>> ELSE <<>>)
                            \o <<Step("count", a, "-")>>
               ELSE IF ad[a].mode \in StaModes /\ type \in {"ap", "go"} THEN ToApProgram(a, type)
               ELSE IF ad[a].mode \in StaModes
                    THEN <<Step("ibss", a, "-"), Step("count", a, "-")>>
               ELSE IF ad[a].mode \in ApModes /\ type \in {"ap", "go"}
                    THEN <<Step("mode", a, IF type = "ap" THEN "sap" ELSE "go"), Step("count", a, "-")>>
               ELSE IF ad[a].mode \in ApModes THEN ToStationProgram(a, type)
               ELSE <<Step("half", a, "-")>>
    /\ UNCHANGED <<active, ps, lowpower, logp, sme, comp, mishap>>

(* The early returns, and steps that are one call that may fail.           *)
HalfWay ==
    /\ At("half")
    /\ prog' = <<>>
    /\ mishap' = mishap \union {"half"}
    /\ UNCHANGED <<ad, open, active, ps, lowpower, logp, sme, comp, unwind, left>>

Call(s, kind) ==
    /\ At(s)
    /\ \/ Next1 /\ UNCHANGED <<left, mishap>>
       \/ Fail(kind)
    /\ UNCHANGED <<ad, open, active, ps, lowpower, logp, sme, comp, unwind>>

(* apCntryCode is set and its wait gives up if a restart has begun.        *)
Country ==
    /\ At("country")
    /\ \/ ~logp /\ Next1 /\ UNCHANGED <<left, mishap>>
       \/ logp /\ prog' = ErrorPath /\ UNCHANGED <<left, mishap>>
       \/ Fail("country")
    /\ UNCHANGED <<ad, open, active, ps, lowpower, logp, sme, comp, unwind>>

Disable ==
    /\ At("disable") /\ Next1
    /\ ps' = AfterDisable(Arg)
    /\ UNCHANGED <<ad, open, active, lowpower, logp, sme, comp, unwind, mishap, left>>

(* sessionCtx is cleared with the mode.                                    *)
SetMode ==
    /\ At("mode") /\ Next1
    /\ ad' = [ad EXCEPT ![Me].mode = Arg,
                        ![Me].conn = "NotConnected",
                        ![Me].beacon = IF {ad[Me].mode, Arg} \subseteq ApModes THEN @ ELSE FALSE]
    /\ UNCHANGED <<open, active, ps, lowpower, logp, sme, comp, unwind, mishap, left>>

SetIbss ==
    /\ At("ibss") /\ Next1
    /\ ad' = [ad EXCEPT ![Me].mode = "ibss"]
    /\ UNCHANGED <<open, active, ps, lowpower, logp, sme, comp, unwind, mishap, left>>

Count ==
    /\ At("count") /\ Next1
    /\ open' = SetConcurrency(open, ad[Me].mode)
    /\ UNCHANGED <<ad, active, ps, lowpower, logp, sme, comp, unwind, mishap, left>>

(* hdd_open_adapter for p2p0, as wlan_hdd_add_virtual_intf calls it.       *)
OpenAdapter(m) ==
    /\ Idle /\ ~logp /\ left.ops > 0 /\ ~ad[P2p].listed
    /\ ~sme[P2p].session /\ ~sme[P2p].closing /\ ~sme[P2p].opening
    /\ left' = [left EXCEPT !.ops = @ - 1]
    /\ ps' = AfterDisable(m)
    /\ ad' = [ad EXCEPT ![P2p] = Fresh(m)]
    /\ unwind' = <<Step("free", P2p, "-")>>
                 \o (IF DisableDoes(m) THEN <<Step("enable", P2p, "-")>> ELSE <<>>)
    /\ prog' = <<Step("alloc", P2p, "-")>>
               \o (IF m \in ApModes THEN <<Step("initap", P2p, "-")>> ELSE <<Step("initsta", P2p, "-")>>)
               \o <<Step("register", P2p, "-"), Step("list", P2p, "-"), Step("count", P2p, "-")>>
    /\ UNCHANGED <<open, active, lowpower, logp, sme, comp, mishap>>

(* hdd_alloc_station_adapter fails: the one return that resumes nothing.   *)
Alloc ==
    /\ At("alloc")
    /\ \/ Next1 /\ UNCHANGED <<left, mishap>>
       \/ Trouble("alloc") /\ prog' = <<>>
    /\ UNCHANGED <<ad, open, active, ps, lowpower, logp, sme, comp, unwind>>

(* err_free_netdev: the memory goes, and the magic with it.                *)
FreeNetdev ==
    /\ At("free") /\ Next1
    /\ ad' = [ad EXCEPT ![Me] = Fresh(@.mode)]
    /\ comp' = [comp EXCEPT ![Me] = NoComp]
    /\ UNCHANGED <<open, active, ps, lowpower, logp, sme, unwind, mishap, left>>

List ==
    /\ At("list") /\ Next1
    /\ ad' = [ad EXCEPT ![Me].listed = TRUE]
    /\ UNCHANGED <<open, active, ps, lowpower, logp, sme, comp, unwind, mishap, left>>

(* wlan_hdd_del_virtual_intf: stop, deinit, close.                         *)
DelAdapter ==
    /\ Request(P2p)
    /\ ~ad[P2p].up /\ NoLink(P2p)
    /\ prog' = <<Step("stop", P2p, "close"), Step("deinit", P2p, "-"), Step("close", P2p, "-")>>
    /\ unwind' = <<>>
    /\ UNCHANGED <<ad, open, active, ps, lowpower, logp, sme, comp, mishap>>

-----------------------------------------------------------------------------
(* Access point: __wlan_hdd_cfg80211_start_ap with start_bss, and stop_ap, *)
(* seen from the counters (WlanSap has their waits and events).            *)
StartAp(a) ==
    /\ Request(a)
    /\ ad[a].mode \in ApModes /\ ~ad[a].beacon
    /\ LET starts == ~ad[a].bss /\ ~MaxReached
       IN /\ ad' = [ad EXCEPT ![a].beacon = TRUE, ![a].bss = @ \/ starts]
          /\ active' = IF starts THEN IncrActive(active, ad[a].mode) ELSE active
    /\ UNCHANGED <<open, ps, lowpower, logp, sme, comp, prog, unwind, mishap>>

StopAp(a) ==
    /\ Request(a)
    /\ ad[a].mode \in ApModes /\ ad[a].beacon
    /\ active' = IF ad[a].bss THEN DecrActive(active, ad[a].mode) ELSE active
    /\ ad' = [ad EXCEPT ![a].bss = FALSE, ![a].beacon = FALSE]
    /\ UNCHANGED <<open, ps, lowpower, logp, sme, comp, prog, unwind, mishap>>

-----------------------------------------------------------------------------
(* SME's answers, on the MC thread at any point of a request.  The magic   *)
(* of a freed adapter makes hdd_smeCloseSessionCallback do nothing.        *)
SessionOpened(a) ==
    /\ sme[a].opening
    /\ sme' = [sme EXCEPT ![a].opening = FALSE, ![a].session = TRUE]
    /\ ad' = [ad EXCEPT ![a].sess = TRUE]
    /\ comp' = [comp EXCEPT ![a].open = TRUE]
    /\ UNCHANGED <<open, active, ps, lowpower, logp, prog, unwind, mishap, left>>

Magic(a) == ad[a].listed \/ \E i \in 1..Len(prog) : prog[i].a = a

CloseSessionCallback(a) ==
    /\ sme[a].closing
    /\ sme' = [sme EXCEPT ![a].closing = FALSE]
    /\ IF Magic(a)
       THEN /\ ad' = [ad EXCEPT ![a].sess = FALSE]
            /\ comp' = [comp EXCEPT ![a].close = TRUE]
       ELSE UNCHANGED <<ad, comp>>
    /\ UNCHANGED <<open, active, ps, lowpower, logp, prog, unwind, mishap, left>>

(* hdd_AssociationCompletionHandler.                                       *)
ConnectResult(a, ok) ==
    /\ sme[a].link = "joining" /\ sme[a].session
    /\ sme' = [sme EXCEPT ![a].link = IF ok THEN "joined" ELSE "idle"]
    /\ ad' = [ad EXCEPT ![a].conn = IF ok THEN "Associated" ELSE "NotConnected"]
    /\ active' = IF ok THEN IncrActive(active, ad[a].mode) ELSE active
    /\ UNCHANGED <<open, ps, lowpower, logp, comp, prog, unwind, mishap, left>>

(* hdd_DisConnectHandler: for our request, or because the peer left.       *)
DisconnectHandler(a) ==
    /\ sme[a].link \in {"leaving", "joined"}
    /\ sme' = [sme EXCEPT ![a].link = "idle"]
    /\ active' = IF ad[a].conn = "Associated" THEN DecrActive(active, ad[a].mode) ELSE active
    /\ ad' = [ad EXCEPT ![a].conn = "NotConnected"]
    /\ comp' = [comp EXCEPT ![a].disc = TRUE]
    /\ UNCHANGED <<open, ps, lowpower, logp, prog, unwind, mishap, left>>

-----------------------------------------------------------------------------
(* Subsystem restart.  hdd_reset_all_adapters takes every interface out of *)
(* the active count, whether it was in it or not, and forgets its BSS; SME *)
(* forgets everything.  A request under way goes on with its waits.        *)
ResetActive(c) ==
    LET one(d, a) == IF ad[a].listed THEN DecrActive(d, ad[a].mode) ELSE d
    IN one(one(c, Wlan), P2p)

ResetAll ==
    /\ ~logp /\ left.ssr > 0
    /\ left' = [left EXCEPT !.ssr = @ - 1]
    /\ logp' = TRUE
    /\ active' = ResetActive(active)
    /\ ad' = [a \in Adapters |-> IF ad[a].listed THEN [ad[a] EXCEPT !.bss = FALSE, !.init = FALSE] ELSE ad[a]]
    /\ sme' = [a \in Adapters |-> NoSme]
    /\ UNCHANGED <<open, ps, lowpower, comp, prog, unwind, mishap>>

(* hdd_start_all_adapters: a session for every station interface, whose    *)
(* failure is not looked at; an AP stays stopped.  It runs once the        *)
(* requests caught by the restart have returned.                           *)
StartAll ==
    /\ logp /\ Idle
    /\ LET again(a) == IF ad[a].listed /\ ad[a].mode \in StaModes
                       THEN <<Step("initsta", a, "ignore")>> ELSE <<>>
       IN prog' = again(Wlan) \o again(P2p) \o <<Step("ready", Wlan, "-")>>
    /\ unwind' = <<>>
    /\ mishap' = mishap \union {"ssr"}
    /\ UNCHANGED <<ad, open, active, ps, lowpower, logp, sme, comp, left>>

Ready ==
    /\ At("ready") /\ Next1
    /\ logp' = FALSE
    /\ UNCHANGED <<ad, open, active, ps, lowpower, sme, comp, unwind, mishap, left>>

-----------------------------------------------------------------------------
Types == {"station", "client", "adhoc", "ap", "go"}

Requests ==
    \/ \E a \in Adapters : IfUp(a) \/ IfDown(a) \/ Connect(a) \/ Disconnect(a) \/ StartAp(a) \/ StopAp(a)
    \/ \E a \in Adapters, type \in Types : ChangeIface(a, type)
    \/ \E m \in {"p2pdev", "client", "go"} : OpenAdapter(m)
    \/ DelAdapter

Steps ==
    \/ Standby \/ TryDisconnect \/ SetPrivacy \/ ConnectStart \/ Enable \/ WaitDisconnect
    \/ SetNotConnected \/ StopAdapter \/ CloseSession \/ WaitClose \/ Deinit \/ CloseAdapter
    \/ InitStation \/ WaitOpen \/ HalfWay \/ Disable \/ SetMode \/ SetIbss \/ Count \/ Country
    \/ Call("tdls", "tdls") \/ Call("initap", "ap") \/ Call("register", "register")
    \/ Alloc \/ FreeNetdev \/ List \/ Ready

Answers(a) ==
    \/ SessionOpened(a) \/ CloseSessionCallback(a) \/ DisconnectHandler(a)
    \/ \E ok \in BOOLEAN : ConnectResult(a, ok)

Next == Requests \/ Steps \/ (\E a \in Adapters : Answers(a)) \/ ResetAll \/ StartAll

Spec == Init /\ [][Next]_vars

-----------------------------------------------------------------------------
Settled == Idle /\ ~logp

(* Between requests the open counters say which personas exist, unless a   *)
(* mode change returned early after it had cleared the old mode: "set      *)
(* bitmask based on updated value" (wlan_hdd_cfg80211.c:7703) was skipped. *)
OpenCountsPersonas ==
    Settled /\ "half" \notin mishap =>
      \A m \in CountedModes :
        open[m] = Cardinality({a \in Adapters : ad[a].listed /\ ad[a].mode = m})

(* Between requests the active counters say how many links and BSSs there  *)
(* are, through disconnections that race with requests and through         *)
(* restarts, as long as no wait gave up before its answer: nothing counted *)
(* twice, nothing left counted (comment at wlan_hdd_cfg80211.c:11392).     *)
Running(a) ==
    ad[a].listed /\ (IF ad[a].mode \in ApModes THEN ad[a].bss
                     ELSE ad[a].conn = "Associated" /\ sme[a].session)
ActiveCountsLinks ==
    Settled /\ mishap \intersect {"late", "half"} = {} =>
      \A m \in CountedModes :
        active[m] = Cardinality({a \in Adapters : Running(a) /\ ad[a].mode = m})

(* SME_SESSION_OPENED is set exactly for the interfaces that have a        *)
(* session in SME, whatever failed, as long as no wait gave up early: a    *)
(* callback of a session that is gone never takes the flag of its          *)
(* successor (hdd_smeCloseSessionCallback).  After a restart only one      *)
(* direction is left: nothing clears the flag of an interface that could   *)
(* not be given a session again.                                           *)
SessionFlagTrue ==
    Settled /\ "late" \notin mishap =>
      \A a \in Adapters : ad[a].listed =>
        /\ sme[a].session => ad[a].sess
        /\ ad[a].sess /\ "ssr" \notin mishap => sme[a].session

(* With one interface left, a station, both power saves are on again,      *)
(* whichever concurrency came and went and whichever call failed, except   *)
(* on the returns that the README lists (an early return of connect or of  *)
(* change_iface, no memory for an adapter).                                *)
PowerSaveComesBack ==
    Settled /\ mishap \intersect {"half", "alloc", "privacy", "late"} = {} /\
      {a \in Adapters : ad[a].listed} = {Wlan} /\ ad[Wlan].mode = "sta" =>
        ps = {"bmps", "imps"}

=============================================================================
