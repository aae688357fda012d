----------------------------- MODULE WlanScanning -----------------------------
(***************************************************************************)
(* The scanning services of the archived stock Wi-Fi driver together:      *)
(* scans and PNO, batch scans, extended scans and statistics, under one    *)
(* rtnl, one MC thread and one subsystem restart.                          *)
(***************************************************************************)
EXTENDS WlanScan, WlanBatchScan, WlanExtScan

vars == <<threads, scanVars, batch, ext>>

Init == ThreadsInit /\ ScanInit /\ BatchInit /\ ExtInit

(* Shutdown, which stops the MC thread between two messages, and restart:  *)
(* what is under way in firmware and SME is gone.                          *)
Shutdown ==
    /\ left.faults > 0 /\ ~logp /\ McIdle
    /\ left' = [left EXCEPT !.faults = @ - 1]
    /\ logp' = TRUE
    /\ mishap' = mishap \union {"ssr"}
    /\ answers' = {}
    /\ ScanShutdown /\ BatchShutdown /\ ExtShutdown
    /\ UNCHANGED <<user, mc, asleep>>
Restarted ==
    /\ logp
    /\ logp' = FALSE
    /\ ScanRestarted
    /\ UNCHANGED <<user, mc, answers, asleep, mishap, left, batch, ext>>

Next ==
    \/ (ScanUserNext \/ ScanMcNext) /\ UNCHANGED <<batch, ext>>
    \/ (BatchUserNext \/ BatchMcNext) /\ UNCHANGED <<scanVars, ext>>
    \/ (ExtUserNext \/ ExtMcNext) /\ UNCHANGED <<scanVars, batch>>
    \/ Shutdown \/ Restarted

Spec == Init /\ [][Next]_vars

-----------------------------------------------------------------------------
(* A scan is booked while it lasts and forgotten when it is over: with a   *)
(* scan in SME whose request has returned, the pending flag, the adapter's *)
(* request (cfg80211's outstanding one) and the wake lock are all there;   *)
(* when everything is quiet, none is.  Waits that gave up, a restart, an   *)
(* ifdown under a scan and a request that overtook the end of the last     *)
(* callback break this.                                                    *)
ScanBookkeeping ==
    mishap \intersect {"late", "ssr", "ifdown", "overtaken"} = {} =>
      /\ scan.sme > 0 /\ user # "scan" =>
           scan.pending /\ scan.awake /\ scan.request = scan.asked /\ scan.asked # 0
      /\ Quiet /\ scan.sme = 0 =>
           ~scan.pending /\ ~scan.awake /\ scan.request = 0 /\ scan.asked = scan.told

(* No PNO is set up over a running scan: the abort that precedes it waits  *)
(* for this scan's end, although every earlier scan has signalled the same *)
(* completion (wlan_hdd_scan_abort re-initialises it).                     *)
ScanEndsBeforePno ==
    "overtaken" \notin mishap /\ user \in {"pnoCheck", "pnoWait"} => scan.sme = 0

(* When everything is quiet, the driver, the firmware and cfg80211 agree   *)
(* on PNO, the batch and the statistics, and no found network waits for a  *)
(* resume that is over.                                                    *)
Agreement ==
    Quiet =>
      /\ mishap \intersect {"late", "ssr", "alloc"} = {} =>
           pno.flag = pno.fw /\ pno.asked = pno.flag
      /\ "resume" \notin mishap => ~pno.suspended /\ ~pno.update
      /\ mishap \intersect {"late", "ssr", "lost", "batch"} = {} => batch.started = batch.fw
      /\ mishap \intersect {"ssr", "clear"} = {} => ext.llSet = ext.llFw

(* Whether user space will know feature f when n of the messages have been  *)
(* handed to it: one of them says that f is on, or it knows already, and   *)
(* none after that says that f is off.                                     *)
Says(f, says) == [of |-> f, says |-> says]
WillKnow(known, messages, f, n) ==
    \/ \E i \in 1..n : /\ messages[i] = Says(f, "on")
                       /\ \A j \in (i + 1)..n : messages[j] # Says(f, "off")
    \/ f \in known /\ \A j \in 1..n : messages[j] # Says(f, "off")

(* What user space knows, and what the messages under way will tell it, is *)
(* the state of the firmware's extended scans, and nothing is reported to  *)
(* it that it has not been told is on.                                     *)
IsReport(m) == m.says \notin {"on", "off", "refused"} /\ m.of # "ll"
UserSpaceKnows ==
    mishap \intersect {"ssr", "event"} = {} =>
      /\ \A f \in Features :
           f \in ext.fw <=> WillKnow(ext.known, ext.messages, f, Len(ext.messages))
      /\ \A i \in DOMAIN ext.messages :
           IsReport(ext.messages[i]) => WillKnow(ext.known, ext.messages, ext.messages[i].of, i)

(* Something of the batch was lost on one of the three ways it can be: not *)
(* stored, taken out for a buffer that is too short, taken out for a copy  *)
(* that failed.                                                            *)
Lossy == mishap \intersect {"nostore", "short", "copy"} # {}

(* The batch is the queue it promises to be: a result is handed over once  *)
(* at most, in the order of the reports, and lost only where Lossy says so *)
(* or by the end of the batch, whatever the two threads and the restart do.*)
Results == INSTANCE ResultQueue WITH
    queue <- batch.queue, reported <- batch.reported,
    fetched <- batch.fetched, running <- batch.started, lossy <- Lossy
ResultsInOrder == Results!Spec
=============================================================================
