------------------------------- MODULE WlanScan -------------------------------
(***************************************************************************)
(* Scans on request and scheduled scans (PNO) of wlan0 in the archived     *)
(* stock Wi-Fi driver.  A scan request is answered by a callback on the MC *)
(* thread, which first waits until the request has booked itself; a PNO    *)
(* request first aborts the scan and waits for its end, then waits for the *)
(* firmware's status.  cfg80211 remembers the request it handed down until *)
(* the driver answers it, and refuses another one meanwhile.               *)
(***************************************************************************)
EXTENDS WlanThreads

VARIABLES
    scan,   \* hdd_scaninfo_t, the adapter's request, SME's scans, cfg80211's request
    pno,    \* isPnoEnable and pno_req_status, the firmware's PNO, cfg80211's schedule
    link    \* conn_info of wlan0: "idle", "connecting", "connected"

scanVars == <<scan, pno, link>>

ScanInit ==
    /\ scan = [pending |-> FALSE, request |-> 0, booked |-> FALSE, aborted |-> FALSE,
               awake |-> FALSE, sme |-> 0,
               number |-> 0, asked |-> 0, told |-> 0]
    /\ pno = [flag |-> FALSE, ok |-> TRUE, done |-> FALSE, fw |-> FALSE,
              asked |-> FALSE, suspended |-> FALSE, update |-> FALSE]
    /\ link = "idle"

-----------------------------------------------------------------------------
(* hdd_isConnectionInProgress, wlan_hdd_is_pno_allowed.                    *)
ConnectionInProgress == link = "connecting"
PnoAllowed == link = "idle"

(* cfg80211 hands a request down if it has none outstanding.               *)
Asks == scan.asked = 0

(* __wlan_hdd_cfg80211_scan up to sme_ScanRequest.  Refused requests, those *)
(* whose scan SME does not take and those answered with the results of a   *)
(* scan just finished are forgotten by cfg80211.  The new scan can overtake *)
(* the end of the last one's callback.                                     *)
ScanAllowed == Asks /\ Valid /\ ~scan.pending /\ ~ConnectionInProgress
Accepted(s) == [s EXCEPT !.booked = FALSE, !.awake = TRUE, !.sme = @ + 1,
                         !.number = @ + 1, !.asked = scan.number + 1]
ScanRequest ==
    /\ CanEnter /\ ScanAllowed
    /\ scan' = Accepted(scan)
    /\ user' = "scan"
    /\ left' = [left EXCEPT !.ops = @ - 1]
    /\ mishap' = mishap \union (IF mc.at \in {"aborted", "allow"} THEN {"overtaken"} ELSE {})
    /\ UNCHANGED <<mc, answers, logp, asleep, pno, link>>

(* sme_ScanRequest refuses: the completion is signalled, the wake lock     *)
(* released, the caller told.                                              *)
ScanRefused ==
    /\ EnterFails("scan") /\ ScanAllowed
    /\ scan' = [scan EXCEPT !.booked = TRUE, !.awake = FALSE]
    /\ UNCHANGED <<user, mc, answers, logp, asleep, pno, link>>

(* The rest of the request: it books itself, then lets the callback go on. *)
BookLate(s) == [s EXCEPT !.request = s.asked, !.booked = TRUE]
Book(s) == [s EXCEPT !.pending = TRUE, !.request = s.asked, !.booked = TRUE]
ScanBooked ==
    /\ user = "scan"
    /\ scan' = Book(scan)
    /\ user' = "idle"
    /\ UNCHANGED <<mc, answers, logp, asleep, mishap, left, pno, link>>

-----------------------------------------------------------------------------
(* hdd_cfg80211_scan_done_callback.                                        *)
ScanEnds ==
    /\ McIdle /\ scan.sme > 0
    /\ scan' = [scan EXCEPT !.sme = @ - 1]
    /\ McGo("booked")
    /\ UNCHANGED <<user, answers, logp, asleep, mishap, left, pno, link>>
AwaitBooking ==
    /\ mc.at = "booked"
    /\ IF scan.booked
       THEN /\ scan' = [scan EXCEPT !.booked = FALSE]
            /\ McGo(IF scan.pending THEN "report" ELSE "allow")
            /\ UNCHANGED <<mishap, left>>
       ELSE /\ GiveUp(user = "scan")
            /\ McGo("allow")
            /\ UNCHANGED scan
    /\ UNCHANGED <<user, answers, logp, asleep, pno, link>>

(* The request is taken off the adapter and answered; an answer with no    *)
(* request only clears the pending flag.                                   *)
Answer(s) == [s EXCEPT !.request = 0, !.pending = FALSE, !.told = s.request]
ReportScan ==
    /\ mc.at = "report"
    /\ IF scan.request = 0
       THEN scan' = [scan EXCEPT !.pending = FALSE] /\ McGo("allow")
       ELSE scan' = Answer(scan) /\ McGo("aborted")
    /\ UNCHANGED <<user, answers, logp, asleep, mishap, left, pno, link>>
SignalAbort ==
    /\ mc.at = "aborted"
    /\ scan' = [scan EXCEPT !.aborted = TRUE]
    /\ McGo("allow")
    /\ UNCHANGED <<user, answers, logp, asleep, mishap, left, pno, link>>
AllowSuspend ==
    /\ mc.at = "allow"
    /\ scan' = [scan EXCEPT !.awake = FALSE]
    /\ McGo("idle")
    /\ UNCHANGED <<user, answers, logp, asleep, mishap, left, pno, link>>

(* cfg80211's work for a finished scan, under rtnl.                        *)
ScanToldToUser ==
    /\ user = "idle" /\ scan.told # 0
    /\ scan' = [scan EXCEPT !.told = 0, !.asked = 0]
    /\ UNCHANGED <<threads, pno, link>>
-----------------------------------------------------------------------------
(* wlan_hdd_scan_abort: SME's scan is aborted, so that its callback comes. *)
AbortScanStale(s) == s

AbortScan(s) == [s EXCEPT !.aborted = FALSE]
(* __wlan_hdd_cfg80211_sched_scan_start.                                   *)
PnoStart ==
    /\ Enter /\ Valid /\ ~pno.asked
    /\ scan' = IF scan.pending THEN AbortScan(scan) ELSE scan
    /\ user' = IF scan.pending THEN "pnoAbort" ELSE "pnoCheck"
    /\ UNCHANGED <<mc, answers, logp, asleep, pno, link>>
PnoAborted ==
    /\ user = "pnoAbort"
    /\ IF scan.aborted
       THEN /\ scan' = [scan EXCEPT !.aborted = FALSE]
            /\ user' = "pnoCheck"
            /\ UNCHANGED <<mishap, left>>
       ELSE /\ GiveUp(scan.sme > 0 \/ mc.at \in {"booked", "report", "aborted"})
            /\ user' = "idle"
            /\ UNCHANGED scan
    /\ UNCHANGED <<mc, answers, logp, asleep, pno, link>>

(* The flag is set, the status awaited, the request posted to SME.         *)
PnoPosted(p, ok) == [p EXCEPT !.flag = TRUE, !.ok = TRUE, !.done = FALSE, !.fw = ok]

(* Refused with a session or another PNO, and with bad arguments, which    *)
(* clear the flag; a failed allocation clears it too, but returns 0.       *)
PnoCheck ==
    /\ user = "pnoCheck"
    /\ \/ /\ ~PnoAllowed \/ pno.flag
          /\ user' = "idle"
          /\ UNCHANGED <<answers, mishap, left, pno>>
       \/ /\ PnoAllowed /\ ~pno.flag
          /\ Fails("alloc")
          /\ pno' = [pno EXCEPT !.asked = TRUE]
          /\ user' = "idle"
          /\ UNCHANGED answers
       \/ /\ PnoAllowed /\ ~pno.flag
          /\ Fails("pno")
          /\ pno' = [pno EXCEPT !.ok = TRUE, !.done = FALSE]
          /\ user' = "idle"
          /\ UNCHANGED answers
       \/ /\ PnoAllowed /\ ~pno.flag
          /\ \E ok \in BOOLEAN :
               /\ pno' = PnoPosted(pno, ok)
               /\ answers' = answers \union {[kind |-> "pno", ok |-> ok, n |-> left.ops]}
          /\ user' = "pnoWait"
          /\ UNCHANGED <<mishap, left>>
    /\ UNCHANGED <<mc, logp, asleep, scan, link>>

(* hdd_cfg80211_sched_scan_start_status_cb, which a restart mutes.         *)
StatusKeepsFlag(p, ok) == [p EXCEPT !.ok = ok, !.done = TRUE]
Status(p, ok) == [p EXCEPT !.flag = @ /\ ok, !.ok = ok, !.done = TRUE]
PnoStatus ==
    /\ McIdle
    /\ \E a \in answers :
         /\ a.kind = "pno"
         /\ answers' = answers \ {a}
         /\ pno' = IF Valid THEN Status(pno, a.ok) ELSE pno
    /\ UNCHANGED <<user, mc, logp, asleep, mishap, left, scan, link>>

(* A wait without an answer counts as success, else the status is told.    *)
PnoReturn ==
    /\ user = "pnoWait"
    /\ IF pno.done THEN UNCHANGED <<mishap, left>>
                   ELSE GiveUp(\E a \in answers : a.kind = "pno")
    /\ pno' = [pno EXCEPT !.asked = pno.ok, !.done = FALSE]
    /\ user' = "idle"
    /\ UNCHANGED <<mc, answers, logp, asleep, scan, link>>

(* __wlan_hdd_cfg80211_sched_scan_stop: nothing is done in a restart, yet  *)
(* cfg80211 is told that it was.                                           *)
PnoStop ==
    /\ pno.asked
    /\ \/ /\ Enter
          /\ pno' = IF logp THEN [pno EXCEPT !.asked = FALSE]
                            ELSE [pno EXCEPT !.asked = FALSE, !.flag = FALSE, !.fw = FALSE]
       \/ EnterFails("pno") /\ Valid /\ UNCHANGED pno
    /\ UNCHANGED <<user, mc, answers, logp, asleep, scan, link>>

(* hdd_cfg80211_sched_scan_done_callback: a network found while the wiphy  *)
(* is suspended waits for the resume.                                      *)
PnoFound ==
    /\ McIdle /\ pno.fw /\ Reported
    /\ pno' = [pno EXCEPT !.update = @ \/ pno.suspended]
    /\ UNCHANGED <<user, mc, answers, logp, asleep, mishap, scan, link>>
Suspend ==
    /\ Enter
    /\ asleep' = TRUE
    /\ pno' = [pno EXCEPT !.suspended = TRUE]
    /\ UNCHANGED <<user, mc, answers, logp, scan, link>>
Resumed(p) == [p EXCEPT !.suspended = FALSE, !.update = FALSE]
Resume ==
    /\ asleep
    /\ asleep' = FALSE
    /\ pno' = IF Valid THEN Resumed(pno) ELSE pno
    /\ mishap' = mishap \union (IF Valid THEN {} ELSE {"resume"})
    /\ UNCHANGED <<user, mc, answers, logp, left, scan, link>>

-----------------------------------------------------------------------------
(* The station's link, as far as scans look at it: a request connects it   *)
(* or disconnects it (aborting a scan under way, without a wait), the MC   *)
(* thread reports the outcome.                                             *)
Connect ==
    /\ Enter /\ Valid /\ link = "idle"
    /\ link' = "connecting"
    /\ UNCHANGED <<user, mc, answers, logp, asleep, scan, pno>>
LinkReport ==
    /\ McIdle /\ link = "connecting"
    /\ link' \in {"connected", "idle"}
    /\ UNCHANGED <<threads, scan, pno>>
Disconnect ==
    /\ Enter /\ Valid /\ link # "idle"
    /\ link' = "idle"
    /\ UNCHANGED <<user, mc, answers, logp, asleep, scan, pno>>

(* ifdown: hdd_stop_adapter aborts the scan without a wait, and cfg80211   *)
(* forgets its request; the driver answers it later all the same.          *)
IfDown ==
    /\ CanEnter /\ scan.asked # 0
    /\ left' = [left EXCEPT !.ops = @ - 1]
    /\ mishap' = mishap \union {"ifdown"}
    /\ scan' = [scan EXCEPT !.asked = 0]
    /\ UNCHANGED <<user, mc, answers, logp, asleep, pno, link>>

(* Shutdown and restart of the subsystem: SME and firmware lose their      *)
(* work without an answer; hdd_start_all_adapters clears the pending flag  *)
(* but not the adapter's request.                                          *)
ScanShutdown ==
    /\ scan' = [scan EXCEPT !.sme = 0]
    /\ pno' = [pno EXCEPT !.fw = FALSE]
    /\ link' = "idle"
ScanRestarted ==
    /\ scan' = [scan EXCEPT !.pending = FALSE]
    /\ UNCHANGED <<pno, link>>

ScanUserNext ==
    \/ ScanRequest \/ ScanRefused \/ ScanBooked \/ ScanToldToUser
    \/ PnoStart \/ PnoAborted \/ PnoCheck \/ PnoReturn \/ PnoStop
    \/ Suspend \/ Resume \/ Connect \/ Disconnect \/ IfDown
ScanMcNext ==
    \/ ScanEnds \/ AwaitBooking \/ ReportScan \/ SignalAbort \/ AllowSuspend
    \/ PnoStatus \/ PnoFound \/ LinkReport
=============================================================================
