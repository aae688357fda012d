-------------------------------- MODULE WlanLoad --------------------------------
(***************************************************************************)
(* Loading and unloading the archived stock Wi-Fi driver: what each step   *)
(* of hdd_wlan_startup takes, the label a failing step goes to, the order  *)
(* in which the labels and hdd_wlan_exit give back, the operating mode     *)
(* that con_mode asks for, and the requests of user space and the          *)
(* subsystem restarts that go on meanwhile.  One loader runs at a time:    *)
(* insmod and rmmod, or a write to a module parameter of a built-in driver.*)
(***************************************************************************)
EXTENDS Naturals, Sequences, FiniteSets

CONSTANTS
    MaxKicks,       \* loads and unloads that user space asks for
    MaxRequests,    \* requests to an interface, and restarts of the subsystem
    MaxFaults       \* failing steps and waits that give up

ASSUME LoadAssumption == {MaxKicks, MaxRequests, MaxFaults} \subseteq Nat

Modes == {"sta", "ap", "ftm"}   \* con_mode: station, access point, factory test

VARIABLES
    built,      \* the driver is a "module" or "builtin" (#ifdef MODULE)
    loader,     \* where loading or unloading stands; again: kickstart loads afterwards
    inside,     \* the driver is loaded: wlan_hdd_inited, the module is in
    held,       \* what has been taken and not given back
    load,       \* isLoadUnloadInProgress
    awake,      \* hdd_prevent_suspend
    mode,       \* con_mode, curr_con_mode; the mode asked for, the one loaded
    net,        \* wlan0: an access point, marked open
    request,    \* where a request of user space under rtnl stands
    ssr,        \* isLogpInProgress, whether the core is torn down, ssr_comp_var
    mishap,     \* kinds of trouble so far
    left        \* the remaining bounds

vars == <<built, loader, inside, held, load, awake, mode, net, request, ssr, mishap, left>>

(* A step takes resources, or fails and goes to a label.                   *)
Takes(r, label) == [takes |-> {r}, label |-> label]
Calls(label) == [takes |-> {}, label |-> label]

Context ==
    << Calls("free_hdd_context"),               \* the vos context
       Takes("cfg", "free_hdd_context"),
       Calls("config") >>                       \* qcom_cfg.ini
FactoryTest == << Takes("ftm", "free_hdd_context") >>
OpenCore ==
    << Takes("watchdog", "wdclose"),
       Takes("nv", "wdclose"),
       Calls("vos_nv_close"),                   \* the wiphy's channels
       Takes("vos", "vos_nv_close"),
       Calls("vosclose") >>                     \* the HAL handle, pre-start
StartCore ==
    << Calls("vosclose"),                       \* SME, config.dat, addresses
       Takes("started", "vosclose") >>
Register ==
    << Calls("vosstop"),                        \* channels, post-start configuration
       Takes("wiphyreg", "vosstop"),
       Calls("unregister_wiphy") >>             \* channels of the country
Adapters(m) ==
    IF m = "ap" THEN << Takes("wlan0", "close_adapter") >>      \* under the name softap.0
                ELSE << Takes("wlan0", "close_adapter"), Takes("p2p0", "close_adapter") >>
Amp ==
    << Takes("bapopen", "close_adapter"),
       Calls("bap_close"),                      \* BSL
       Takes("bap", "bap_close") >>
Services ==
    << Takes("pmops", "bap_stop"),
       Takes("debugfs", "none"),
       Takes("devtm", "unregister_pmops"),
       Takes("power", "unregister_pmops"),
       Takes("netdev", "free_power_on_lock"),
       Takes("nl", "reg_netdev"),
       Calls("nl_srv"),                         \* btc, ptt
       Takes("logging", "nl_srv"),
       [takes |-> {"filter", "locks"}, label |-> "none"] >>
Afterwards == [takes |-> {"restart", "traffic", "inet"}, label |-> "none"]

(* The labels at the end of hdd_wlan_startup, each falling into the next.  *)
Gives(label, s) == [label |-> label, gives |-> s]
Unwinding ==
    << Gives("nl_srv", {"nl"}), Gives("reg_netdev", {"netdev"}),
       Gives("free_power_on_lock", {"power"}), Gives("unregister_pmops", {"devtm", "pmops"}),
       Gives("unregister_pmops", {"debugfs"}), Gives("bap_stop", {"bap"}),
       Gives("bap_close", {"bapopen"}), Gives("close_adapter", {"wlan0", "p2p0"}),
       Gives("unregister_wiphy", {"wiphyreg"}), Gives("vosstop", {"started"}),
       Gives("vosclose", {"vos"}), Gives("vos_nv_close", {"nv"}), Gives("wdclose", {"watchdog"}),
       Gives("config", {"cfg"}), Gives("free_hdd_context", {"wiphy"}) >>
At(label) == CHOOSE i \in DOMAIN Unwinding :
    /\ Unwinding[i].label = label
    /\ \A j \in 1..(i - 1) : Unwinding[j].label # label

(* Mutant: the filter is taken back after the core was closed.             *)
ExitCloseBackwards ==
    << {"nv"}, {"vos", "bapopen"}, {"filter"}, {"locks"}, {"watchdog"}, {"logging"}, {"nl"},
       {"wlan0", "p2p0"}, {"power"} >>
(* hdd_wlan_exit; vos_close also closes the BAP.                           *)
ExitQuiet == << {"restart"}, {}, {"pmops"}, {"devtm"}, {"traffic"} >>
ExitStop == << {"debugfs"}, {"netdev"}, {}, {"bap"}, {"started"} >>
ExitClose ==
    << {"filter"}, {"locks"}, {"nv"}, {"vos", "bapopen"}, {"watchdog"}, {"logging"}, {"nl"},
       {"wlan0", "p2p0"}, {"power"} >>
ExitFtm == << {"ftm"} >>
ExitContext(ftm) == << {"cfg"}, IF ftm THEN {} ELSE {"wiphyreg"}, {"wiphy"} >>

(* hdd_get_conparam: the mode in force, which user space may have changed  *)
(* since in a module, but not in a built-in driver.                        *)
ConparamNow == mode.param     \* mutant: whatever was written last
Conparam == IF built = "module" THEN mode.param ELSE mode.curr
SetConparam(m, p) ==
    IF built = "module" THEN [m EXCEPT !.param = p] ELSE [m EXCEPT !.param = p, !.curr = p]

Startup ==
    LET m == mode.loaded
    IN Context \o (IF m = "ftm" THEN FactoryTest
                    ELSE OpenCore \o StartCore \o Register \o Adapters(m) \o Amp
                             \o Services \o <<Afterwards>>)
Exit(m) == <<{"inet"}>> \o (IF m = "ftm" THEN ExitFtm ELSE ExitQuiet \o ExitStop \o ExitClose) \o ExitContext(m = "ftm")

NoRestart == [on |-> FALSE, torn |-> FALSE, done |-> FALSE]
Init ==
    /\ built \in {"module", "builtin"}
    /\ loader = [at |-> "idle", n |-> 0, again |-> FALSE]
    /\ inside = FALSE /\ held = {}
    /\ load = "none" /\ awake = FALSE
    /\ mode = [param |-> "sta", curr |-> "sta", asked |-> "sta", loaded |-> "none"]
    /\ net = [ap |-> FALSE, up |-> FALSE]
    /\ request = "idle"
    /\ ssr = NoRestart
    /\ mishap = {}
    /\ left = [kicks |-> MaxKicks, requests |-> MaxRequests, faults |-> MaxFaults]

Rest == loader.at = "idle"
Go(s, i) == loader' = [loader EXCEPT !.at = s, !.n = i]
Fails(kind) ==
    /\ left.faults > 0
    /\ left' = [left EXCEPT !.faults = @ - 1]
    /\ mishap' = mishap \union {kind}
Kick ==
    /\ Rest /\ left.kicks > 0
    /\ left' = [left EXCEPT !.kicks = @ - 1]
NeedsRtnl(s) == s \intersect {"wlan0", "p2p0"} # {} => request = "idle"

-----------------------------------------------------------------------------
(* insmod with con_mode=m, rmmod, and a write to con_mode or fwpath: of a  *)
(* module it only sets the variable, a built-in driver is kickstarted.     *)
Insmod == \E m \in Modes :
    /\ built = "module" /\ ~inside /\ held \subseteq {"cfg"} /\ Kick
    /\ mode' = [mode EXCEPT !.param = m, !.asked = m]
    /\ loader' = [at |-> "init", n |-> 0, again |-> FALSE]
    /\ UNCHANGED <<built, inside, held, load, awake, net, request, ssr, mishap>>
Rmmod ==
    /\ built = "module" /\ inside /\ Kick
    /\ loader' = [at |-> "exit", n |-> 0, again |-> FALSE]
    /\ UNCHANGED <<built, inside, held, load, awake, mode, net, request, ssr, mishap>>
WriteModule == \E m \in Modes :
    /\ built = "module" /\ inside /\ Rest
    /\ Fails(IF (m = "ftm") # (mode.loaded = "ftm") THEN "written" ELSE "moved")
    /\ mode' = [mode EXCEPT !.param = m]
    /\ UNCHANGED <<built, loader, inside, held, load, awake, net, request, ssr>>
KickstartDriver(m) ==
    /\ mode' = [mode EXCEPT !.param = m, !.asked = m]
    /\ loader' = [at |-> IF inside THEN "exit" ELSE "init", n |-> 0, again |-> inside]
    /\ mishap' = mishap \ {"reset"}
ConModeHandler == \E m \in Modes :
    /\ built = "builtin" /\ Kick /\ KickstartDriver(m)
    /\ UNCHANGED <<built, inside, held, load, awake, net, request, ssr>>
FwpathHandler ==
    /\ built = "builtin" /\ Kick /\ KickstartDriver(mode.param)
    /\ UNCHANGED <<built, inside, held, load, awake, net, request, ssr>>

-----------------------------------------------------------------------------
(* hdd_driver_init.  A device that becomes ready after n seconds is found  *)
(* by the (n+1)-th test, but five sleeps are already too many.             *)
TooLate(n) == n >= 5
(* hdd_set_conparam in hdd_driver_init, of a built-in driver.              *)
ConparamsKept == mode       \* mutant: curr_con_mode keeps the old mode
Conparams == IF built = "builtin" THEN SetConparam(mode, mode.param) ELSE mode
NotLoaded ==
    /\ inside' = FALSE
    /\ held' = held \ {"logsvc", "wakelock", "preopen"}
    /\ loader' = [at |-> "idle", n |-> 0, again |-> FALSE]

DriverInit == \E n \in {0, 4, 5} :
    /\ loader.at = "init"
    /\ IF TooLate(n)
       THEN NotLoaded /\ Fails("device") /\ UNCHANGED <<load, awake, mode, net>>
       ELSE \/ /\ Fails("preopen") /\ NotLoaded /\ UNCHANGED <<load, awake, mode, net>>
            \/ /\ held' = held \union {"logsvc", "wakelock", "preopen", "wiphy"}
               /\ load' = "load" /\ awake' = TRUE
               /\ mode' = [Conparams EXCEPT !.loaded = IF built = "module" THEN Conparams.param ELSE Conparams.curr]
               /\ net' = [ap |-> FALSE, up |-> FALSE]
               /\ Go("start", 1)
               /\ UNCHANGED <<inside, mishap, left>>
    /\ UNCHANGED <<built, request, ssr>>

(* A step of hdd_wlan_startup.  The factory test returns with the load     *)
(* flag and the vote against suspend still set; otherwise both are dropped *)
(* before the restart timer and the address notifiers are set up.          *)
Opened(s) ==
    IF "wlan0" \in s
    THEN net' = [net EXCEPT !.ap = mode.loaded = "ap"]
    ELSE UNCHANGED net
StartStep ==
    /\ loader.at = "start"
    /\ LET steps == Startup
           step == steps[loader.n]
       IN /\ NeedsRtnl(step.takes)
          /\ held' = held \union step.takes
          /\ Opened(step.takes)
          /\ IF "locks" \in step.takes THEN load' = "none" /\ awake' = FALSE
                                       ELSE UNCHANGED <<load, awake>>
          /\ IF loader.n < Len(steps)
             THEN Go("start", loader.n + 1) /\ UNCHANGED inside
             ELSE Go("idle", 0) /\ inside' = TRUE
    /\ UNCHANGED <<built, mode, request, ssr, mishap, left>>

StartFails ==
    /\ loader.at = "start"
    /\ LET step == Startup[loader.n]
       IN /\ step.label # "none"
          /\ NeedsRtnl(step.takes)
          /\ Fails(IF "ftm" \in step.takes THEN "ftmopen" ELSE "step")
          /\ Go("unwind", At(step.label))
    /\ UNCHANGED <<built, inside, held, load, awake, mode, net, request, ssr>>
(* Debugging is optional: the load goes on without it.                     *)
DebugfsFails ==
    /\ loader.at = "start"
    /\ Startup[loader.n].takes = {"debugfs"}
    /\ Fails("debugfs") /\ Go("start", loader.n + 1)
    /\ UNCHANGED <<built, inside, held, load, awake, mode, net, request, ssr>>

Unwind ==
    /\ loader.at = "unwind"
    /\ NeedsRtnl(Unwinding[loader.n].gives)
    /\ held' = held \ Unwinding[loader.n].gives
    /\ IF loader.n < Len(Unwinding)
       THEN Go("unwind", loader.n + 1) /\ UNCHANGED <<load, awake>>
       ELSE Go("failed", 0) /\ awake' = FALSE /\ load' = "none"     \* freed with the context
    /\ UNCHANGED <<built, inside, mode, net, request, ssr, mishap, left>>
InitFailed ==
    /\ loader.at = "failed" /\ NotLoaded
    /\ UNCHANGED <<built, load, awake, mode, net, request, ssr, mishap, left>>

-----------------------------------------------------------------------------
(* hdd_driver_exit: a restart under way is waited for, up to 30 seconds;   *)
(* then, under rtnl, the flag that refuses requests is set.                *)
ExitTest ==
    /\ loader.at = "exit"
    /\ ssr' = [ssr EXCEPT !.done = FALSE]
    /\ Go(IF ssr.on THEN "waiting" ELSE "flag", 0)
    /\ UNCHANGED <<built, inside, held, load, awake, mode, net, request, mishap, left>>
ExitWait ==
    /\ loader.at = "waiting"
    /\ IF ssr.done THEN ssr' = [ssr EXCEPT !.done = FALSE] /\ UNCHANGED <<mishap, left>>
                   ELSE Fails("late") /\ UNCHANGED ssr
    /\ Go("flag", 0)
    /\ UNCHANGED <<built, inside, held, load, awake, mode, net, request>>
FlagUnlocked == TRUE        \* mutant: the flag is set without rtnl
FlagLock == request = "idle"
SetUnload ==
    /\ loader.at = "flag" /\ FlagLock
    /\ load' = "unload"
    /\ Go("leave", 1)
    /\ UNCHANGED <<built, inside, held, awake, mode, net, request, ssr, mishap, left>>

(* A step of hdd_wlan_exit.  Which steps there are is decided by the mode  *)
(* at its start; the second step takes the adapters down, which sets       *)
(* con_mode to 0 for an access point, the eighth stops them.               *)
ExitMode == IF Conparam = "ftm" THEN "ftm" ELSE "sta"
Deinit ==
    IF loader.n = 3 /\ ExitMode # "ftm" /\ net.ap
    THEN /\ mode' = SetConparam(mode, "sta")
         /\ mishap' = mishap \union {"reset"}
    ELSE UNCHANGED <<mode, mishap>>
ExitStep ==
    /\ loader.at = "leave"
    /\ LET steps == Exit(ExitMode)
       IN /\ NeedsRtnl(steps[loader.n])
          /\ held' = held \ steps[loader.n]
          /\ Deinit
          /\ IF loader.n < Len(steps)
             THEN Go("leave", loader.n + 1) /\ UNCHANGED <<load, ssr>>
             ELSE Go("left", 0) /\ load' = "none" /\ ssr' = NoRestart  \* with the context
    /\ UNCHANGED <<built, inside, awake, net, request, left>>
DriverExited ==
    /\ loader.at = "left"
    /\ held' = held \ {"logsvc", "wakelock", "preopen"}
    /\ inside' = FALSE
    /\ loader' = [loader EXCEPT !.at = IF loader.again THEN "init" ELSE "idle", !.n = 0]
    /\ UNCHANGED <<built, load, awake, mode, net, request, ssr, mishap, left>>

-----------------------------------------------------------------------------
(* User space.  wlan_hdd_validate_context refuses a request while the      *)
(* driver comes, goes or restarts; hdd_open does not ask it, but only      *)
(* calls the core when it is the first interface to be opened.             *)
Asked ==
    /\ request = "idle" /\ "wlan0" \in held /\ left.requests > 0
    /\ left' = [left EXCEPT !.requests = @ - 1]
ValidateContext == ~ssr.on /\ load = "none"
Request ==
    /\ Asked /\ ValidateContext
    /\ request' = "valid"
    /\ UNCHANGED <<built, loader, inside, held, load, awake, mode, net, ssr, mishap>>
HddOpen ==
    /\ Asked /\ "p2p0" \in held
    /\ request' = IF net.up THEN "idle" ELSE "open"
    /\ UNCHANGED <<built, loader, inside, held, load, awake, mode, net, ssr, mishap>>
Opens ==
    /\ request = "open"
    /\ request' = "idle" /\ net' = [net EXCEPT !.up = TRUE]
    /\ UNCHANGED <<built, loader, inside, held, load, awake, mode, ssr, mishap, left>>
RequestEnds ==
    /\ request = "valid" /\ request' = "idle"
    /\ UNCHANGED <<built, loader, inside, held, load, awake, mode, net, ssr, mishap, left>>
Stops ==
    /\ request = "valid" /\ net.up
    /\ request' = "idle" /\ net' = [net EXCEPT !.up = FALSE]
    /\ UNCHANGED <<built, loader, inside, held, load, awake, mode, ssr, mishap, left>>
ChangeIface ==
    /\ request = "valid" /\ request' = "idle"
    /\ net' = [net EXCEPT !.ap = ~@]
    /\ mode' = SetConparam(mode, IF net.ap THEN "sta" ELSE "ap")
    /\ mishap' = IF Rest THEN mishap ELSE mishap \union {"reset"}
    /\ UNCHANGED <<built, loader, inside, held, load, awake, ssr, left>>

(* A subsystem restart does not begin while the load flag is set; it sets  *)
(* its own flag, waits for the request that runs, which vos_ssr_protect    *)
(* counts, tears the core down and brings it up again.                     *)
RestartBegins ==
    /\ inside /\ "started" \in held /\ ~ssr.on /\ load = "none" /\ left.requests > 0
    /\ left' = [left EXCEPT !.requests = @ - 1]
    /\ ssr' = [ssr EXCEPT !.on = TRUE]
    /\ mishap' = IF loader.at \in {"waiting", "flag"} THEN mishap \union {"gap"} ELSE mishap
    /\ UNCHANGED <<built, loader, inside, held, load, awake, mode, net, request>>
RestartTears ==
    /\ ssr.on /\ ~ssr.torn /\ request = "idle"
    /\ ssr' = [ssr EXCEPT !.torn = TRUE]
    /\ UNCHANGED <<built, loader, inside, held, load, awake, mode, net, request, mishap, left>>
RestartEnds ==
    /\ ssr.torn /\ ssr' = [on |-> FALSE, torn |-> FALSE, done |-> TRUE]
    /\ UNCHANGED <<built, loader, inside, held, load, awake, mode, net, request, mishap, left>>

Next ==
    \/ Insmod \/ Rmmod \/ WriteModule \/ ConModeHandler \/ FwpathHandler
    \/ DriverInit \/ StartStep \/ StartFails \/ DebugfsFails \/ Unwind \/ InitFailed
    \/ ExitTest \/ ExitWait \/ SetUnload \/ ExitStep \/ DriverExited
    \/ Request \/ HddOpen \/ Opens \/ RequestEnds \/ Stops \/ ChangeIface
    \/ RestartBegins \/ RestartTears \/ RestartEnds

Spec == Init /\ [][Next]_vars

-----------------------------------------------------------------------------
(* Whatever step of a load fails, and in whatever mode the driver was      *)
(* loaded: when it is out again nothing it took is left, but for the       *)
(* configuration of a factory test that could not be opened, and for a     *)
(* module whose con_mode was written to or from factory test meanwhile;    *)
(* and only a factory test leaves the system's suspend forbidden.          *)
GivesBack ==
    Rest =>
    /\ ~inside /\ "written" \notin mishap =>
           held \subseteq IF "ftmopen" \in mishap THEN {"cfg"} ELSE {}
    /\ awake => mode.loaded = "ftm"

(* What a resource needs is not given back before it: the context after    *)
(* what lies in it, the configuration after those who read it, the core    *)
(* after what calls it (hdd_wlan_exit: "This requires pMac access, Call    *)
(* this before vos_close()"), in the unwinding of every failure and in     *)
(* every unload.  The interfaces may outlive the core in an unload only.   *)
Dependants ==
    [wiphy |-> {"wiphyreg"}, wiphyreg |-> {"wlan0", "p2p0"},
     cfg |-> {"watchdog", "vos", "logging", "wlan0", "p2p0"},
     vos |-> {"started", "filter"},
     started |-> {"bap", "pmops", "devtm", "debugfs", "netdev", "restart", "inet"}
                     \union IF loader.at = "unwind" THEN {"wlan0", "p2p0"} ELSE {},
     preopen |-> {"vos", "wiphy"}]
OrderedRelease ==
    [][ "written" \notin mishap =>
        \A r \in (held \ held') \intersect DOMAIN Dependants :
            Dependants[r] \intersect held' = {} ]_vars

(* A request that wlan_hdd_validate_context let in finds the core running  *)
(* until it ends, whatever the loader and the restarts do meanwhile.  Only *)
(* an interface opened for the first time, which nothing refuses, can find *)
(* it gone: during an unload, or during a restart.  And an unload takes    *)
(* nothing down under a restart, but for one that began after it had       *)
(* looked (hdd_driver_exit tests and waits before it sets the flag), or    *)
(* one it got tired of waiting for.                                        *)
CoreRuns == "started" \in held /\ ~ssr.torn
RequestsFindTheCore ==
    /\ request = "valid" => CoreRuns
    /\ request = "open" /\ ~CoreRuns => load = "unload" \/ ssr.on
    /\ loader.at = "leave" /\ ssr.on => mishap \intersect {"gap", "late"} # {}

(* The driver comes up in the mode that con_mode asked for ("con_mode is   *)
(* changed by userspace to indicate a mode change which will result in     *)
(* calling the module exit and init functions"), unless con_mode was       *)
(* written once more before it was read: by the clean-up of an access      *)
(* point on the way out, or by an interface that changes its type.         *)
ModeHeeded == Rest /\ inside /\ "reset" \notin mishap => mode.loaded = mode.asked
=============================================================================
