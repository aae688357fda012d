---------------------------- MODULE WlanBatchScan ----------------------------
(***************************************************************************)
(* Batch scans of the archived stock Wi-Fi driver: WLS_BATCHING SET starts *)
(* scans that the firmware repeats by itself, indications bring the access *)
(* points it saw (numbered here in the order of their reports), which the  *)
(* MC thread queues; GET hands the queue over, or asks the firmware and    *)
(* waits for the last access point; STOP ends the batch.  What is lost on   *)
(* the way is recorded in mishap: "nostore", "short", "copy".              *)
(***************************************************************************)
EXTENDS WlanThreads

CONSTANTS MaxAps    \* access points of one indication

VARIABLE batch      \* the batch fields of hdd_adapter_t, and the firmware's batch

BatchInit ==
    batch = [started |-> FALSE, fw |-> FALSE, queue |-> <<>>, reported |-> 0, fetched |-> 0,
             waitSet |-> FALSE, setDone |-> FALSE, scans |-> 0,
             waitGet |-> FALSE, getDone |-> FALSE, triggered |-> FALSE, short |-> FALSE]

BatchElse == UNCHANGED <<logp, asleep>>

-----------------------------------------------------------------------------
(* WLS_BATCHING SET.  The firmware answers with the scans it can hold, 0   *)
(* if it refuses.                                                          *)
BatchSet ==
    /\ Valid
    /\ \/ /\ EnterFails("batch")
          /\ batch' = [batch EXCEPT !.waitSet = TRUE]
          /\ UNCHANGED <<user, answers>>
       \/ /\ Enter
          /\ \E scans \in 0..1 :
               /\ batch' = [batch EXCEPT !.waitSet = TRUE, !.fw = @ \/ scans > 0]
               /\ answers' = answers \union {[kind |-> "set", ok |-> scans > 0, n |-> left.ops]}
          /\ user' = "setTest"
    /\ UNCHANGED mc /\ BatchElse

(* The response callback stores the number, clears the flag, signals.      *)
BatchSetResponse ==
    /\ McIdle
    /\ \E a \in answers :
         /\ a.kind = "set"
         /\ answers' = answers \ {a}
         /\ batch' = [batch EXCEPT !.scans = IF a.ok THEN 1 ELSE 0,
                                   !.waitSet = FALSE, !.setDone = TRUE]
    /\ UNCHANGED <<user, mc, mishap, left>> /\ BatchElse

(* Still expected, the completion is reset and waited for: a response that *)
(* comes between the test and the reset is lost.                           *)
BatchSetTest ==
    /\ user = "setTest"
    /\ user' = IF batch.waitSet THEN "setReset" ELSE "setCheck"
    /\ UNCHANGED <<mc, answers, mishap, left, batch>> /\ BatchElse
Reset(f) ==
    /\ batch' = [batch EXCEPT ![f] = FALSE]
    /\ mishap' = mishap \union (IF batch[f] /\ ~batch[IF f = "setDone" THEN "waitSet" ELSE "waitGet"]
                                THEN {"lost"} ELSE {})
BatchSetReset ==
    /\ user = "setReset"
    /\ Reset("setDone")
    /\ user' = "setWait"
    /\ UNCHANGED <<mc, answers, left>> /\ BatchElse
BatchSetWait ==
    /\ user = "setWait"
    /\ IF batch.setDone
       THEN /\ batch' = [batch EXCEPT !.setDone = FALSE]
            /\ user' = "setCheck"
            /\ UNCHANGED <<mishap, left>>
       ELSE /\ GiveUp(\E a \in answers : a.kind = "set")
            /\ user' = "idle"
            /\ UNCHANGED batch
    /\ UNCHANGED <<mc, answers>> /\ BatchElse
BatchSetCheck ==
    /\ user = "setCheck"
    /\ batch' = [batch EXCEPT !.started = @ \/ batch.scans > 0]
    /\ user' = "idle"
    /\ UNCHANGED <<mc, answers, mishap, left>> /\ BatchElse

(* hdd_deinit_batch_scan, and WLS_BATCHING STOP.                           *)
Deinit(b) == [b EXCEPT !.queue = <<>>, !.started = FALSE]
BatchStop ==
    /\ Valid /\ batch.started
    /\ \/ Enter /\ batch' = [Deinit(batch) EXCEPT !.fw = FALSE]
       \/ EnterFails("batch") /\ batch' = Deinit(batch)
    /\ UNCHANGED <<user, mc, answers>> /\ BatchElse

-----------------------------------------------------------------------------
(* WLS_BATCHING GET: what is queued is taken out as far as it fits and     *)
(* copied to the user, or lost if that fails; with nothing queued, the     *)
(* firmware is asked.  A short buffer takes everything out, writes nothing *)
(* and looks like an empty queue.                                          *)
Popped(b, n) == [b EXCEPT !.queue = SubSeq(@, n + 1, Len(@))]
FetchedAll(b, n) == [b EXCEPT !.fetched = IF n = 0 THEN @ ELSE b.queue[n], !.queue = <<>>]
Fetched(b, n) == [b EXCEPT !.fetched = IF n = 0 THEN @ ELSE b.queue[n],
                           !.queue = SubSeq(@, n + 1, Len(@))]
BatchGetQueued ==
    /\ Valid /\ batch.started /\ batch.queue # <<>>
    /\ \E n \in 0..Len(batch.queue) :
         \/ Enter /\ batch' = Fetched([batch EXCEPT !.waitGet = FALSE], n)
         \/ EnterFails("copy") /\ batch' = Popped([batch EXCEPT !.waitGet = FALSE], n)
    /\ UNCHANGED <<user, mc, answers>> /\ BatchElse
Asked(b) == [b EXCEPT !.waitGet = TRUE, !.triggered = b.fw]
BatchGet ==
    /\ Valid /\ batch.started
    /\ \/ /\ batch.queue = <<>> /\ EnterFails("batch")
          /\ batch' = [batch EXCEPT !.waitGet = TRUE]
          /\ UNCHANGED user
       \/ /\ batch.queue = <<>> /\ Enter
          /\ batch' = Asked(batch)
          /\ user' = "getTest"
       \/ /\ EnterFails("short")
          /\ batch' = [Asked(Popped(batch, Len(batch.queue))) EXCEPT !.short = TRUE]
          /\ user' = "getTest"
    /\ UNCHANGED <<mc, answers>> /\ BatchElse
BatchGetTest ==
    /\ user = "getTest"
    /\ user' = IF batch.waitGet THEN "getReset" ELSE "getCopy"
    /\ UNCHANGED <<mc, answers, mishap, left, batch>> /\ BatchElse
BatchGetReset ==
    /\ user = "getReset"
    /\ Reset("getDone")
    /\ user' = "getWait"
    /\ UNCHANGED <<mc, answers, left>> /\ BatchElse
BatchGetWait ==
    /\ user = "getWait"
    /\ IF batch.getDone
       THEN /\ batch' = [batch EXCEPT !.getDone = FALSE]
            /\ user' = "getCopy"
            /\ UNCHANGED <<mishap, left>>
       ELSE /\ GiveUp(batch.triggered \/ mc.at \in {"aps", "signal"})
            /\ user' = "idle"
            /\ batch' = [batch EXCEPT !.short = FALSE]
    /\ UNCHANGED <<mc, answers>> /\ BatchElse
BatchGetCopy ==
    /\ user = "getCopy"
    /\ \/ /\ ~batch.short /\ UNCHANGED <<mishap, left>>
          /\ \E n \in 0..Len(batch.queue) : batch' = Fetched(batch, n)
       \/ /\ ~batch.short /\ Fails("copy")
          /\ \E n \in 0..Len(batch.queue) : batch' = Popped(batch, n)
       \/ /\ batch.short /\ UNCHANGED <<mishap, left>>
          /\ batch' = [Popped(batch, Len(batch.queue)) EXCEPT !.short = FALSE]
    /\ user' = "idle"
    /\ UNCHANGED <<mc, answers>> /\ BatchElse

(* hdd_batch_scan_result_ind_callback: an indication asked for or not; its *)
(* access points are queued one by one under the lock, whether the batch is*)
(* started or not, but for one that there is no memory for or whose name   *)
(* is too long.  An indication with numbers that the batch does not allow  *)
(* reports nothing from there on and counts as the last one.  The firmware *)
(* answers a trigger with one that it marks as the last.                   *)
BatchIndication ==
    /\ McIdle /\ batch.fw
    /\ \E n \in 0..MaxAps, last \in BOOLEAN :
         /\ mc' = [at |-> "aps", n |-> n, last |-> last \/ n = 0]
         /\ \/ /\ last /\ batch.triggered
               /\ batch' = [batch EXCEPT !.triggered = FALSE]
               /\ UNCHANGED left
            \/ Reported /\ UNCHANGED batch
    /\ UNCHANGED <<user, answers, mishap>> /\ BatchElse
Queued(b) == [b EXCEPT !.reported = @ + 1, !.queue = Append(@, b.reported + 1)]
NotQueued(b) == [b EXCEPT !.reported = @ + 1]
BatchQueue ==
    /\ mc.at = "aps" /\ mc.n > 0
    /\ \/ batch' = Queued(batch) /\ UNCHANGED <<mishap, left>>
       \/ Fails("nostore") /\ batch' = NotQueued(batch)
    /\ mc' = [mc EXCEPT !.n = @ - 1]
    /\ UNCHANGED <<user, answers>> /\ BatchElse
BatchQueued ==
    /\ mc.at = "aps" /\ mc.n = 0
    /\ mc' = [mc EXCEPT !.at = IF mc.last /\ batch.waitGet THEN "signal" ELSE "idle",
                        !.last = FALSE]
    /\ UNCHANGED <<user, answers, mishap, left, batch>> /\ BatchElse
BatchSignal ==
    /\ mc.at = "signal"
    /\ batch' = [batch EXCEPT !.waitGet = FALSE, !.getDone = TRUE]
    /\ McGo("idle")
    /\ UNCHANGED <<user, answers, mishap, left>> /\ BatchElse

(* hdd_reset_all_adapters ends a started batch.                            *)
BatchShutdown ==
    batch' = [(IF batch.started THEN Deinit(batch) ELSE batch)
                EXCEPT !.fw = FALSE, !.triggered = FALSE]

BatchUserNext ==
    \/ BatchSet \/ BatchSetTest \/ BatchSetReset \/ BatchSetWait \/ BatchSetCheck
    \/ BatchStop
    \/ BatchGetQueued \/ BatchGet \/ BatchGetTest \/ BatchGetReset \/ BatchGetWait \/ BatchGetCopy
BatchMcNext == BatchSetResponse \/ BatchIndication \/ BatchQueue \/ BatchQueued \/ BatchSignal
=============================================================================
