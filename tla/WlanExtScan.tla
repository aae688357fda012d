----------------------------- MODULE WlanExtScan -----------------------------
(***************************************************************************)
(* Extended scans and link-layer statistics of the archived stock Wi-Fi    *)
(* driver: vendor commands that only hand their arguments to SME; the      *)
(* firmware's answers and indications become vendor events on the MC       *)
(* thread.  User space knows the firmware's state from these events alone. *)
(***************************************************************************)
EXTENDS WlanThreads

(* What a command switches on or off in the firmware.                      *)
Features == {"scan", "hotlist", "signif"}

VARIABLE ext    \* firmware's features, its messages under way, what user space knows; LL stats

ExtInit ==
    ext = [fw |-> {}, messages |-> <<>>, known |-> {}, aps |-> 0, events |-> <<>>,
           llSet |-> FALSE, llFw |-> FALSE]

ExtElse == UNCHANGED <<mc, answers, logp, asleep>>

-----------------------------------------------------------------------------
(* A command: refused without the capability, without its attributes or by *)
(* SME (no state changes), else the firmware does it, or not, and answers. *)
Command(f, on) ==
    /\ EnterVendor /\ Valid
    /\ \/ ext' = [ext EXCEPT !.fw = IF on THEN @ \union {f} ELSE @ \ {f},
                             !.messages = Append(@, [of |-> f, says |-> IF on THEN "on" ELSE "off"])]
       \/ ext' = [ext EXCEPT !.messages = Append(@, [of |-> f, says |-> "refused"])]
    /\ UNCHANGED user /\ ExtElse
ExtScanStart == Command("scan", TRUE)
ExtScanStop == Command("scan", FALSE)       \* for whichever request started it
SetBssidHotlist == Command("hotlist", TRUE)
ResetBssidHotlist == Command("hotlist", FALSE)
SetSignificantChange == Command("signif", TRUE)
ResetSignificantChange == Command("signif", FALSE)

(* Cached results of the scan in progress.                                 *)
GetCachedResults ==
    /\ EnterVendor /\ Valid
    /\ "scan" \in ext.fw
    /\ ext' = [ext EXCEPT !.messages = Append(@, [of |-> "scan", says |-> "cached"])]
    /\ UNCHANGED user /\ ExtElse

(* The firmware reports what it was asked to look for: a match or a change, *)
(* or a scan's results one by one, their number, its progress.             *)
Reports(f) == IF f = "scan" THEN {"full", "available", "progress"} ELSE {"seen"}
FirmwareReports ==
    /\ Reported
    /\ \E f \in ext.fw : \E says \in Reports(f) :
         ext' = [ext EXCEPT !.messages = Append(@, [of |-> f, says |-> says])]
    /\ UNCHANGED <<user, mishap>> /\ ExtElse

(* wlan_hdd_cfg80211_extscan_callback hands each message to its handler,   *)
(* which makes one vendor event of it, or none if its buffer is not to be  *)
(* had; during a restart the message is dropped.                           *)
LearnsRefusals(known, m) ==
    IF m.says \in {"on", "refused"} THEN known \union {m.of} ELSE known \ {m.of}
Learns(known, m) ==
    CASE m.says = "on" -> known \union {m.of}
      [] m.says = "off" -> known \ {m.of}
      [] OTHER -> known
Handles(f, says) ==
    /\ McIdle /\ ext.messages # <<>>
    /\ Head(ext.messages).of = f /\ Head(ext.messages).says \in says
Event ==
    /\ \/ /\ ext' = [ext EXCEPT !.messages = Tail(@), !.known = Learns(@, Head(ext.messages))]
          /\ UNCHANGED <<left, mishap>>
       \/ /\ ext' = [ext EXCEPT !.messages = Tail(@)]
          /\ Fails("event")
    /\ UNCHANGED user /\ ExtElse
StartResponse == Handles("scan", {"on", "refused"}) /\ Event
StopResponse == Handles("scan", {"off"}) /\ Event
SetHotlistResponse == Handles("hotlist", {"on", "refused"}) /\ Event
ResetHotlistResponse == Handles("hotlist", {"off"}) /\ Event
SetSignificantResponse == Handles("signif", {"on", "refused"}) /\ Event
ResetSignificantResponse == Handles("signif", {"off"}) /\ Event
HotlistMatch == Handles("hotlist", {"seen"}) /\ Event
SignificantChange == Handles("signif", {"seen"}) /\ Event
CachedResults == Handles("scan", {"cached"}) /\ Event
FullScanResult == Handles("scan", {"full"}) /\ Event
ResultsAvailable == Handles("scan", {"available"}) /\ Event
ScanProgress == Handles("scan", {"progress"}) /\ Event

-----------------------------------------------------------------------------
(* Link-layer statistics.  SET may fail after the callback is registered,  *)
(* CLEAR after the firmware has stopped: -EINVAL and -ENOMEM leave the     *)
(* flag as it was.                                                         *)
LlStatsSet ==
    /\ EnterVendor /\ Valid
    /\ ext' = [ext EXCEPT !.llSet = TRUE, !.llFw = TRUE]
    /\ UNCHANGED user /\ ExtElse
(* GET is for statistics that were set; the firmware's results, of the     *)
(* kind asked for, are passed on as one event.                             *)
LlStatsGet ==
    /\ EnterVendor /\ Valid
    /\ ext.llSet
    /\ \E kind \in {"radio", "iface", "peer"} :
         ext' = IF ext.llFw
                THEN [ext EXCEPT !.messages = Append(@, [of |-> "ll", says |-> kind])]
                ELSE ext
    /\ UNCHANGED user /\ ExtElse
LlStats(kind) == Handles("ll", {kind}) /\ Event
RadioStats == LlStats("radio")
IfaceStats == LlStats("iface")
PeerStats == LlStats("peer")
Cleared(e, stop) == [e EXCEPT !.llSet = @ /\ ~stop, !.llFw = @ /\ ~stop]
LlStatsClear ==
    /\ Valid /\ ext.llSet
    /\ \/ EnterVendor /\ \E stop \in BOOLEAN : ext' = Cleared(ext, stop)
       \/ EnterFails("clear") /\ ext' = [ext EXCEPT !.llFw = FALSE]
    /\ UNCHANGED user /\ ExtElse

ExtShutdown == ext' = [ext EXCEPT !.fw = {}, !.messages = <<>>, !.llFw = FALSE]

ExtUserNext ==
    \/ ExtScanStart \/ ExtScanStop \/ SetBssidHotlist \/ ResetBssidHotlist
    \/ SetSignificantChange \/ ResetSignificantChange
    \/ GetCachedResults \/ LlStatsSet \/ LlStatsGet \/ LlStatsClear
ExtMcNext ==
    \/ FirmwareReports
    \/ StartResponse \/ StopResponse \/ SetHotlistResponse \/ ResetHotlistResponse
    \/ SetSignificantResponse \/ ResetSignificantResponse
    \/ HotlistMatch \/ SignificantChange \/ CachedResults 
    \/ FullScanResult \/ ResultsAvailable \/ ScanProgress
    \/ RadioStats \/ IfaceStats \/ PeerStats
=============================================================================
