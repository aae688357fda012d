-------------------------- MODULE WlanScanning_proofs --------------------------
(***************************************************************************)
(* Whatever the other services, the restarts and the lost answers do, the  *)
(* batch scan implements the queue of its results, scans are booked while  *)
(* they last, PNO waits for their end, and the driver, the firmware and    *)
(* cfg80211 agree when everything is quiet.                                *)
(***************************************************************************)
EXTENDS WlanScanning, TLAPS

rvars == <<batch.queue, batch.reported, batch.fetched, batch.started, Lossy>>

(* The fields of the batch, whose names every step keeps.                  *)
BatchFields ==
    batch = [started |-> batch.started, fw |-> batch.fw, queue |-> batch.queue,
             reported |-> batch.reported, fetched |-> batch.fetched,
             waitSet |-> batch.waitSet, setDone |-> batch.setDone, scans |-> batch.scans,
             waitGet |-> batch.waitGet, getDone |-> batch.getDone,
             triggered |-> batch.triggered, short |-> batch.short]
BatchInv ==
    BatchFields /\ batch.queue \in Seq(Nat) /\ batch.reported \in Nat /\ batch.started \in BOOLEAN

(* What the queue's specification says of the fields it is mapped to.      *)
QueueStep == [Results!Next]_rvars

(* A batch that ends: the queue is emptied.                                *)
LEMMA BatchEnds ==
    ASSUME BatchInv, batch.started, Lossy' = Lossy, NEW f, NEW t,
           batch' = [Deinit(batch) EXCEPT !.fw = f, !.triggered = t]
    PROVE  BatchInv' /\ QueueStep
<1>1. /\ batch'.queue = <<>> /\ batch'.started = FALSE
      /\ batch'.reported = batch.reported /\ batch'.fetched = batch.fetched
  BY DEF Deinit, BatchInv, BatchFields
<1>2. BatchInv'
  <2>1. BatchFields'
    BY DEF Deinit, BatchInv, BatchFields
  <2>2. batch.queue' \in Seq(Nat) /\ batch.reported' \in Nat
    <3>1. batch.reported \in Nat /\ <<>> \in Seq(Nat)
      BY DEF BatchInv
    <3> QED
      BY <1>1, <3>1
  <2>3. batch'.started \in BOOLEAN
    BY <1>1
  <2> QED
    BY <2>1, <2>2, <2>3 DEF BatchInv
<1>3. Results!End
  BY <1>1 DEF Results!End
<1> QED
  BY <1>2, <1>3 DEF QueueStep, Results!Next

(* A prefix of the queue, perhaps of no access point, is taken out.        *)
LEMMA PrefixTaken ==
    ASSUME BatchInv, NEW n \in 0..Len(batch.queue), BatchFields',
           batch'.queue = SubSeq(batch.queue, n + 1, Len(batch.queue)),
           batch'.started = batch.started, batch'.reported = batch.reported
    PROVE  BatchInv' /\ (n = 0 => batch'.queue = batch.queue)
<1>1. batch.queue \in Seq(Nat) /\ batch.reported \in Nat /\ batch.started \in BOOLEAN
  BY DEF BatchInv
<1>2. SubSeq(batch.queue, n + 1, Len(batch.queue)) \in Seq(Nat)
  BY <1>1
<1>3. BatchInv'
  BY <1>1, <1>2, Zenon DEF BatchInv
<1>4. SubSeq(batch.queue, 1, Len(batch.queue)) = batch.queue
  BY <1>1
<1>5. ASSUME n = 0 PROVE batch'.queue = batch.queue
  <2>1. n + 1 = 1
    BY <1>5
  <2> QED
    BY <1>4, <2>1, Zenon
<1> QED
  BY <1>3, <1>5

(* It is handed over ...                                                   *)
LEMMA PrefixFetched ==
    ASSUME BatchInv, Lossy' = Lossy, NEW n \in 0..Len(batch.queue), NEW w,
           batch' = Fetched([batch EXCEPT !.waitGet = w], n)
    PROVE  BatchInv' /\ QueueStep
<1>1. /\ batch'.queue = SubSeq(batch.queue, n + 1, Len(batch.queue))
      /\ batch'.started = batch.started /\ batch'.reported = batch.reported
      /\ batch'.fetched = IF n = 0 THEN batch.fetched ELSE batch.queue[n]
      /\ BatchFields'
  BY DEF Fetched, BatchInv, BatchFields
<1>2. BatchInv' /\ (n = 0 => batch'.queue = batch.queue)
  BY <1>1, PrefixTaken
<1>3. CASE n = 0
  BY <1>1, <1>2, <1>3 DEF QueueStep, rvars
<1>4. CASE n # 0
  <2>1. n \in 1..Len(batch.queue)
    BY <1>4
  <2>2. Results!Fetch
    BY <1>1, <1>4, <2>1 DEF Results!Fetch
  <2> QED
    BY <1>2, <2>2 DEF QueueStep, Results!Next
<1> QED
  BY <1>3, <1>4

(* ... or lost.                                                            *)
LEMMA PrefixLost ==
    ASSUME BatchInv, Lossy', NEW n \in 0..Len(batch.queue), BatchFields',
           batch'.queue = SubSeq(batch.queue, n + 1, Len(batch.queue)),
           batch'.started = batch.started, batch'.reported = batch.reported,
           batch'.fetched = batch.fetched
    PROVE  BatchInv' /\ QueueStep
<1>1. BatchInv'
  BY PrefixTaken
<1>2. Lossy' = TRUE
  BY DEF Lossy
<1>3. Results!FetchFails
  BY <1>2 DEF Results!FetchFails
<1> QED
  BY <1>1, <1>3 DEF QueueStep, Results!Next

LEMMA GetSteps ==
    ASSUME BatchInv, BatchGetQueued \/ BatchGet \/ BatchGetCopy, batch.short => Lossy
    PROVE  BatchInv' /\ QueueStep
<1>0. batch.queue \in Seq(Nat) /\ Len(batch.queue) \in 0..Len(batch.queue)
  BY DEF BatchInv
<1>1. CASE BatchGetQueued
  <2>1. PICK n \in 0..Len(batch.queue) :
          \/ UNCHANGED mishap /\ batch' = Fetched([batch EXCEPT !.waitGet = FALSE], n)
          \/ /\ "copy" \in mishap'
             /\ batch' = Popped([batch EXCEPT !.waitGet = FALSE], n)
    BY <1>1 DEF BatchGetQueued, Enter, EnterFails
  <2>2. CASE UNCHANGED mishap /\ batch' = Fetched([batch EXCEPT !.waitGet = FALSE], n)
    BY <2>2, PrefixFetched DEF Lossy
  <2>3. CASE "copy" \in mishap' /\ batch' = Popped([batch EXCEPT !.waitGet = FALSE], n)
    BY <2>3, PrefixLost DEF Lossy, Popped, BatchInv, BatchFields
  <2> QED
    BY <2>1, <2>2, <2>3
<1>2. CASE BatchGet
  <2>1. CASE EnterFails("batch") /\ batch' = [batch EXCEPT !.waitGet = TRUE]
    BY <2>1 DEF EnterFails, Lossy, rvars, QueueStep, BatchInv, BatchFields
  <2>2. CASE Enter /\ batch' = Asked(batch)
    BY <2>2 DEF Enter, Asked, Lossy, rvars, QueueStep, BatchInv, BatchFields
  <2>3. CASE /\ EnterFails("short")
             /\ batch' = [Asked(Popped(batch, Len(batch.queue))) EXCEPT !.short = TRUE]
    <3>1. Lossy'
      BY <2>3 DEF EnterFails, Lossy
    <3>2. /\ batch'.queue = SubSeq(batch.queue, Len(batch.queue) + 1, Len(batch.queue))
          /\ batch'.started = batch.started /\ batch'.reported = batch.reported
          /\ batch'.fetched = batch.fetched /\ BatchFields'
      BY <2>3 DEF Asked, Popped, BatchInv, BatchFields
    <3> QED
      BY <1>0, <3>1, <3>2, PrefixLost
  <2> QED
    BY <1>2, <2>1, <2>2, <2>3 DEF BatchGet
<1>3. CASE BatchGetCopy
  <2>1. CASE UNCHANGED mishap /\ \E n \in 0..Len(batch.queue) : batch' = Fetched(batch, n)
    <3>1. batch = [batch EXCEPT !.waitGet = batch.waitGet]
      BY DEF BatchInv, BatchFields
    <3> QED
      BY <2>1, <3>1, PrefixFetched DEF Lossy
  <2>2. CASE Fails("copy") /\ \E n \in 0..Len(batch.queue) : batch' = Popped(batch, n)
    <3>1. PICK n \in 0..Len(batch.queue) : batch' = Popped(batch, n)
      BY <2>2
    <3>2. Lossy'
      BY <2>2 DEF Fails, Lossy
    <3> QED
      BY <3>1, <3>2, PrefixLost DEF Popped, BatchInv, BatchFields
  <2>3. CASE /\ batch.short /\ UNCHANGED mishap
             /\ batch' = [Popped(batch, Len(batch.queue)) EXCEPT !.short = FALSE]
    <3>1. Lossy'
      BY <2>3 DEF Lossy
    <3>2. /\ batch'.queue = SubSeq(batch.queue, Len(batch.queue) + 1, Len(batch.queue))
          /\ batch'.started = batch.started /\ batch'.reported = batch.reported
          /\ batch'.fetched = batch.fetched /\ BatchFields'
      BY <2>3 DEF Popped, BatchInv, BatchFields
    <3> QED
      BY <1>0, <3>1, <3>2, PrefixLost
  <2> QED
    BY <1>3, <2>1, <2>2, <2>3 DEF BatchGetCopy
<1> QED
  BY <1>1, <1>2, <1>3

LEMMA BatchSteps ==
    ASSUME BatchInv, batch.short => Lossy, BatchUserNext \/ BatchMcNext
    PROVE  BatchInv' /\ QueueStep
<1>1. CASE BatchSet \/ BatchSetResponse \/ BatchSetTest \/ BatchSetReset \/ BatchSetWait
  <2>1. Lossy' = Lossy
    BY <1>1 DEF BatchSet, BatchSetResponse, BatchSetTest, BatchSetReset, BatchSetWait, Reset,
       Enter, EnterFails, GiveUp, Lossy
  <2> QED
    BY <1>1, <2>1 DEF BatchSet, BatchSetResponse, BatchSetTest, BatchSetReset, BatchSetWait, Reset,
       rvars, QueueStep, BatchInv, BatchFields
<1>2. CASE BatchSetCheck
  BY <1>2 DEF BatchSetCheck, rvars, Results!Next, Results!Begin, QueueStep, BatchInv, BatchFields,
     Lossy
<1>3. CASE BatchStop
  <2>1. \/ batch' = [Deinit(batch) EXCEPT !.fw = FALSE, !.triggered = batch.triggered]
        \/ batch' = [Deinit(batch) EXCEPT !.fw = batch.fw, !.triggered = batch.triggered]
    <3>1. CASE batch' = [Deinit(batch) EXCEPT !.fw = FALSE]
      BY <3>1 DEF Deinit, BatchInv, BatchFields
    <3>2. CASE batch' = Deinit(batch)
      BY <3>2 DEF Deinit, BatchInv, BatchFields
    <3> QED
      BY <1>3, <3>1, <3>2 DEF BatchStop
  <2>2. batch.started /\ Lossy' = Lossy
    BY <1>3 DEF BatchStop, Enter, EnterFails, Lossy
  <2> QED
    BY <2>1, <2>2, BatchEnds
<1>4. CASE BatchGetQueued \/ BatchGet \/ BatchGetCopy
  BY <1>4, GetSteps
<1>5. CASE BatchGetTest \/ BatchGetReset \/ BatchGetWait
  <2>1. Lossy' = Lossy
    BY <1>5 DEF BatchGetTest, BatchGetReset, BatchGetWait, Reset, GiveUp, Lossy
  <2> QED
    BY <1>5, <2>1 DEF BatchGetTest, BatchGetReset, BatchGetWait, Reset, rvars, QueueStep,
       BatchInv, BatchFields
<1>6. CASE BatchIndication \/ BatchQueued \/ BatchSignal
  BY <1>6 DEF BatchIndication, BatchQueued, BatchSignal, rvars, QueueStep, BatchInv, BatchFields,
     Lossy
<1>7. CASE BatchQueue
  <2>1. CASE batch' = Queued(batch) /\ UNCHANGED mishap
    <3>1. /\ batch'.reported = batch.reported + 1
          /\ batch'.queue = Append(batch.queue, batch.reported + 1)
          /\ batch'.fetched = batch.fetched /\ batch'.started = batch.started
          /\ BatchFields' /\ Lossy' = Lossy
      BY <2>1 DEF Queued, BatchInv, BatchFields, Lossy
    <3>2. BatchInv'
      BY <3>1 DEF BatchInv
    <3>3. Results!Report
      BY <3>1 DEF Results!Report
    <3> QED
      BY <3>2, <3>3 DEF QueueStep, Results!Next
  <2>2. CASE Fails("nostore") /\ batch' = NotQueued(batch)
    <3>1. /\ batch'.reported = batch.reported + 1 /\ batch'.queue = batch.queue
          /\ batch'.fetched = batch.fetched /\ batch'.started = batch.started
          /\ BatchFields'
      BY <2>2 DEF NotQueued, BatchInv, BatchFields
    <3>2. BatchInv'
      BY <3>1 DEF BatchInv
    <3>3. Lossy' = TRUE
      BY <2>2 DEF Fails, Lossy
    <3>4. Results!NotStored
      BY <3>1, <3>3 DEF Results!NotStored
    <3> QED
      BY <3>2, <3>4 DEF QueueStep, Results!Next
  <2> QED
    BY <1>7, <2>1, <2>2 DEF BatchQueue
<1> QED
  BY <1>1, <1>2, <1>3, <1>4, <1>5, <1>6, <1>7 DEF BatchUserNext, BatchMcNext

(* What was recorded stays recorded.                                       *)
LEMMA BatchRecords ==
    ASSUME BatchUserNext \/ BatchMcNext
    PROVE  mishap \subseteq mishap'
  BY DEF BatchUserNext, BatchMcNext, BatchSet, BatchSetTest, BatchSetReset, BatchSetWait,
     BatchSetCheck, BatchStop, BatchGetQueued, BatchGet, BatchGetTest, BatchGetReset, BatchGetWait,
     BatchGetCopy, BatchSetResponse, BatchIndication, BatchQueue, BatchQueued, BatchSignal, Enter,
     EnterFails, Fails, GiveUp, Reset

(* A buffer is short only after "short" has been recorded.                 *)
ShortInv == batch.short => Lossy
LEMMA ShortKept ==
    ASSUME BatchInv, ShortInv, BatchUserNext \/ BatchMcNext
    PROVE  ShortInv'
<1>1. Lossy => Lossy'
  BY BatchRecords DEF Lossy
<1>2. batch'.short => batch.short \/ Lossy'
  BY DEF BatchUserNext, BatchMcNext, BatchSet, BatchSetTest, BatchSetReset, BatchSetWait,
     BatchSetCheck, BatchStop, BatchGetQueued, BatchGet, BatchGetTest, BatchGetReset, BatchGetWait,
     BatchGetCopy, BatchSetResponse, BatchIndication, BatchQueue, BatchQueued, BatchSignal, Reset,
     Deinit, Fetched, Popped, Asked, Queued, NotQueued, EnterFails, Lossy, BatchInv, BatchFields
<1> QED
  BY <1>1, <1>2 DEF ShortInv

(* The other services and the restart record other trouble.                *)
LEMMA OtherTrouble ==
    ASSUME \/ (ScanUserNext \/ ScanMcNext) /\ UNCHANGED <<batch, ext>>
           \/ (ExtUserNext \/ ExtMcNext) /\ UNCHANGED <<scanVars, batch>>
           \/ Shutdown \/ Restarted
    PROVE  Lossy' = Lossy
<1>1. CASE ScanUserNext \/ ScanMcNext
  BY <1>1 DEF ScanUserNext, ScanMcNext, ScanRequest, ScanRefused, ScanBooked, ScanToldToUser,
     PnoStart, PnoAborted, PnoCheck, PnoReturn, PnoStop, Suspend, Resume, Connect, Disconnect,
     IfDown, ScanEnds, AwaitBooking, ReportScan, SignalAbort, AllowSuspend, PnoStatus, PnoFound,
     LinkReport, threads, Enter, EnterFails, Fails, GiveUp, Lossy
<1>2. CASE ExtUserNext
  BY <1>2 DEF ExtUserNext, ExtScanStart, ExtScanStop, SetBssidHotlist, ResetBssidHotlist,
     SetSignificantChange, ResetSignificantChange, GetCachedResults, LlStatsSet, LlStatsGet,
     LlStatsClear, Command, EnterVendor, EnterFails, Lossy
<1>3. CASE FirmwareReports
  BY <1>3 DEF FirmwareReports, Lossy
<1>4. CASE Event
  BY <1>4 DEF Event, Fails, Lossy
<1>5. CASE ExtMcNext
  BY <1>3, <1>4, <1>5, Zenon DEF ExtMcNext, StartResponse, StopResponse, SetHotlistResponse,
     ResetHotlistResponse, SetSignificantResponse, ResetSignificantResponse, HotlistMatch,
     SignificantChange, CachedResults, FullScanResult, ResultsAvailable, ScanProgress,
     RadioStats, IfaceStats, PeerStats, LlStats
<1>6. CASE Shutdown \/ Restarted
  BY <1>6 DEF Shutdown, Restarted, Lossy
<1> QED
  BY <1>1, <1>2, <1>5, <1>6

(* The batch scan is the queue it promises to be: every result is handed   *)
(* over at most once and in the order of the reports; the end of a batch   *)
(* drops what is queued, and beyond that only a report that cannot be      *)
(* stored or a fetch that fails loses any                                  *)
(* (hdd_batch_scan_result_ind_callback, hdd_return_batch_scan_rsp_to_user, *)
(* hdd_deinit_batch_scan).                                                 *)
THEOREM Implements == Spec => ResultsInOrder
<1>1. Init => BatchInv /\ ShortInv /\ Results!Init
  BY DEF Init, ThreadsInit, BatchInit, BatchInv, BatchFields, ShortInv, Lossy, Results!Init
<1>2. BatchInv /\ ShortInv /\ [Next]_vars => (BatchInv /\ ShortInv)' /\ QueueStep
  <2> SUFFICES ASSUME BatchInv, ShortInv, [Next]_vars
               PROVE  BatchInv' /\ ShortInv' /\ QueueStep
    OBVIOUS
  <2>1. CASE BatchUserNext \/ BatchMcNext
    BY <2>1, BatchSteps, ShortKept DEF ShortInv
  <2>2. CASE Shutdown
    <3>0. Lossy' = Lossy
      BY <2>2, OtherTrouble
    <3>1. CASE batch.started
      <4>1. batch' = [Deinit(batch) EXCEPT !.fw = FALSE, !.triggered = FALSE]
        BY <2>2, <3>1 DEF Shutdown, BatchShutdown
      <4>2. batch'.short = batch.short
        BY <4>1 DEF Deinit, BatchInv, BatchFields
      <4> QED
        BY <3>0, <3>1, <4>1, <4>2, BatchEnds DEF ShortInv
    <3>2. CASE ~batch.started
      BY <2>2, <3>0, <3>2 DEF Shutdown, BatchShutdown, rvars, QueueStep, BatchInv, BatchFields, ShortInv
    <3> QED
      BY <3>1, <3>2
  <2>3. CASE UNCHANGED batch /\ Lossy' = Lossy
    BY <2>3 DEF rvars, QueueStep, BatchInv, BatchFields, ShortInv
  <2>4. CASE UNCHANGED vars
    BY <2>3, <2>4 DEF vars, threads, Lossy
  <2> QED
    BY <2>1, <2>2, <2>3, <2>4, OtherTrouble DEF Next, Restarted
<1> QED
  BY <1>1, <1>2, PTL DEF Spec, ResultsInOrder, Results!Spec, Results!vars, QueueStep, rvars

(* The queue by itself: nothing later than the last report was handed over.*)
QueueInv ==
    /\ batch.queue \in Seq(Nat) /\ batch.reported \in Nat /\ batch.fetched \in Nat
    /\ batch.fetched <= batch.reported
    /\ Results!InOrder

(* A queue in the order of the reports, all of them after the last that    *)
(* was handed over, and without a gap unless some were lost.               *)
Orderly(queue, reported, fetched, lossy) ==
    /\ \A i \in 1..Len(queue) : fetched < queue[i] /\ queue[i] <= reported
    /\ \A i, j \in 1..Len(queue) : i < j => queue[i] < queue[j]
    /\ ~lossy => \A i \in 1..Len(queue) : queue[i] = (reported - Len(queue)) + i

(* Taking out the first n leaves the others in order, and after the n-th.  *)
LEMMA SuffixOrderly ==
    ASSUME NEW queue \in Seq(Nat), NEW reported \in Nat, NEW fetched \in Nat, NEW lossy,
           NEW n \in 0..Len(queue), Orderly(queue, reported, fetched, lossy),
           NEW rest, rest = SubSeq(queue, n + 1, Len(queue))
    PROVE  /\ rest \in Seq(Nat)
           /\ Orderly(rest, reported, fetched, lossy)
           /\ n > 0 => Orderly(rest, reported, queue[n], lossy)
<1>1. queue \in Seq(Nat) /\ Len(queue) \in Nat /\ n \in Nat
  OBVIOUS
<1>2. rest \in Seq(Nat) /\ Len(rest) = Len(queue) - n
  BY <1>1
<1>3. ASSUME NEW i \in 1..Len(rest) PROVE rest[i] = queue[n + i] /\ n + i \in 1..Len(queue)
  <2>1. i \in 1..(Len(queue) - n) /\ i \in Nat /\ n + i \in 1..Len(queue)
    BY <1>1, <1>2, <1>3
  <2>2. SubSeq(queue, n + 1, Len(queue))[i] = queue[(n + 1) + i - 1]
    BY <1>1, <2>1
  <2>3. (n + 1) + i - 1 = n + i
    BY <1>1, <2>1
  <2> QED
    BY <2>1, <2>2, <2>3, Zenon
<1>4. \A i, j \in 1..Len(rest) : i < j => n + i < n + j
  BY <1>1, <1>2
<1>5. \A i, j \in 1..Len(rest) : i < j => rest[i] < rest[j]
  <2> SUFFICES ASSUME NEW i \in 1..Len(rest), NEW j \in 1..Len(rest), i < j
               PROVE  rest[i] < rest[j]
    OBVIOUS
  <2>1. rest[i] = queue[n + i] /\ rest[j] = queue[n + j] /\ n + i < n + j
        /\ n + i \in 1..Len(queue) /\ n + j \in 1..Len(queue)
    BY <1>3, <1>4
  <2>2. queue[n + i] < queue[n + j]
    BY <2>1 DEF Orderly
  <2> QED
    BY <2>1, <2>2, Zenon
<1>6. ASSUME ~lossy, NEW i \in 1..Len(rest) PROVE rest[i] = (reported - Len(rest)) + i
  <2>1. rest[i] = (reported - Len(queue)) + (n + i)
    BY <1>3, <1>6 DEF Orderly
  <2>2. Len(rest) = Len(queue) - n /\ Len(queue) \in Nat /\ n \in Nat /\ i \in Nat
    BY <1>1, <1>2, <1>6
  <2> QED
    BY ONLY <2>1, <2>2, reported \in Nat
<1>7. Orderly(rest, reported, fetched, lossy)
  <2>1. \A i \in 1..Len(rest) : fetched < rest[i] /\ rest[i] <= reported
    BY <1>3, Zenon DEF Orderly
  <2> QED
    BY <1>5, <1>6, <2>1, Zenon DEF Orderly
<1>8. ASSUME n > 0 PROVE Orderly(rest, reported, queue[n], lossy)
  <2>1. ASSUME NEW i \in 1..Len(rest) PROVE queue[n] < rest[i] /\ rest[i] <= reported
    <3>1. n \in 1..Len(queue) /\ n < n + i /\ n + i \in 1..Len(queue)
      BY <1>1, <1>2, <1>3, <1>8
    <3>2. queue[n] < queue[n + i] /\ queue[n + i] <= reported
      BY <3>1 DEF Orderly
    <3> QED
      BY <1>3, <3>2, Zenon
  <2> QED
    BY <1>5, <1>6, <2>1, Zenon DEF Orderly
<1> QED
  BY <1>2, <1>7, <1>8

(* A new report comes after all the others.                                *)
LEMMA AppendOrderly ==
    ASSUME NEW queue \in Seq(Nat), NEW reported \in Nat, NEW fetched \in Nat, NEW lossy,
           fetched <= reported, Orderly(queue, reported, fetched, lossy),
           NEW more, more = Append(queue, reported + 1)
    PROVE  more \in Seq(Nat) /\ Orderly(more, reported + 1, fetched, lossy)
<1>1. more \in Seq(Nat) /\ Len(more) = Len(queue) + 1 /\ Len(queue) \in Nat
  OBVIOUS
<1>2. more[Len(queue) + 1] = reported + 1
  OBVIOUS
<1>3. \A i \in 1..Len(queue) : more[i] = queue[i] /\ queue[i] \in Nat
  OBVIOUS
<1>4. 1..Len(more) = (1..Len(queue)) \union {Len(queue) + 1}
  BY <1>1
<1>5. \A i \in 1..Len(more) : fetched < more[i] /\ more[i] <= reported + 1
  <2>1. \A i \in 1..Len(queue) : fetched < more[i] /\ more[i] <= reported + 1
    BY <1>3 DEF Orderly
  <2> QED
    BY <1>2, <1>4, <2>1
<1>6. \A i, j \in 1..Len(more) : i < j => more[i] < more[j]
  <2> SUFFICES ASSUME NEW i \in 1..Len(more), NEW j \in 1..Len(more), i < j
               PROVE  more[i] < more[j]
    OBVIOUS
  <2>1. i \in 1..Len(queue)
    BY <1>1, <1>4
  <2>2. CASE j \in 1..Len(queue)
    BY <1>3, <2>1, <2>2 DEF Orderly
  <2>3. CASE j = Len(queue) + 1
    <3>1. queue[i] <= reported /\ more[i] = queue[i] /\ queue[i] \in Nat
      BY <1>3, <2>1 DEF Orderly
    <3> QED
      BY <1>2, <2>3, <3>1
  <2> QED
    BY <1>4, <2>2, <2>3
<1>7. ASSUME ~lossy, NEW i \in 1..Len(more) PROVE more[i] = (reported + 1 - Len(more)) + i
  <2>1. CASE i \in 1..Len(queue)
    <3>1. more[i] = (reported - Len(queue)) + i
      BY <1>3, <1>7, <2>1 DEF Orderly
    <3> QED
      BY <1>1, <2>1, <3>1
  <2>2. CASE i = Len(queue) + 1
    BY <1>1, <1>2, <2>2
  <2> QED
    BY <1>4, <1>7, <2>1, <2>2
<1> QED
  <2>1. ~lossy => \A i \in 1..Len(more) : more[i] = ((reported + 1) - Len(more)) + i
    BY <1>7
  <2> QED
    BY <1>1, <1>5, <1>6, <2>1, Zenon DEF Orderly

LEMMA QueueKept == QueueInv /\ QueueStep => QueueInv'
<1> SUFFICES ASSUME QueueInv, [Results!Next]_rvars PROVE QueueInv'
  BY DEF QueueStep
<1>0. /\ batch.queue \in Seq(Nat) /\ batch.reported \in Nat /\ batch.fetched \in Nat
      /\ batch.fetched <= batch.reported
      /\ Orderly(batch.queue, batch.reported, batch.fetched, Lossy)
  BY DEF QueueInv, Results!InOrder, Orderly
<1>1. SUFFICES /\ batch.queue' \in Seq(Nat) /\ batch.reported' \in Nat /\ batch.fetched' \in Nat
               /\ batch.fetched' <= batch.reported'
               /\ Orderly(batch.queue', batch.reported', batch.fetched', Lossy')
  BY DEF QueueInv, Results!InOrder, Orderly
<1>2. CASE Results!Report
  <2>1. /\ batch.reported' = batch.reported + 1 /\ batch.fetched' = batch.fetched
        /\ batch.queue' = Append(batch.queue, batch.reported + 1) /\ Lossy' = Lossy
    BY <1>2 DEF Results!Report
  <2>2. batch.queue' \in Seq(Nat)
        /\ Orderly(batch.queue', batch.reported + 1, batch.fetched, Lossy)
    BY <1>0, <2>1, AppendOrderly
  <2> QED
    BY <1>0, <2>1, <2>2
<1>3. CASE Results!NotStored
  <2>1. /\ batch.reported' = batch.reported + 1 /\ batch.fetched' = batch.fetched
        /\ batch.queue' = batch.queue /\ Lossy' = TRUE
    BY <1>3 DEF Results!NotStored
  <2>2. \A i \in 1..Len(batch.queue) : batch.queue[i] \in Nat
    BY <1>0
  <2> QED
    BY <1>0, <2>1, <2>2 DEF Orderly
<1>4. CASE Results!Fetch
  <2>1. PICK n \in 1..Len(batch.queue) :
          /\ batch.fetched' = batch.queue[n]
          /\ batch.queue' = SubSeq(batch.queue, n + 1, Len(batch.queue))
    BY <1>4 DEF Results!Fetch
  <2>2. batch.reported' = batch.reported /\ Lossy' = Lossy
    BY <1>4 DEF Results!Fetch
  <2>3. n \in 0..Len(batch.queue) /\ n > 0
    BY <1>0, <2>1
  <2>4. batch.queue' \in Seq(Nat)
        /\ Orderly(batch.queue', batch.reported, batch.queue[n], Lossy)
    BY <1>0, <2>1, <2>3, SuffixOrderly
  <2>5. batch.queue[n] \in Nat /\ batch.queue[n] <= batch.reported
    BY <1>0, <2>1 DEF Orderly
  <2> QED
    BY <1>0, <2>1, <2>2, <2>4, <2>5
<1>5. CASE Results!FetchFails
  <2>1. PICK n \in 0..Len(batch.queue) :
          batch.queue' = SubSeq(batch.queue, n + 1, Len(batch.queue))
    BY <1>5 DEF Results!FetchFails
  <2>2. /\ batch.reported' = batch.reported /\ batch.fetched' = batch.fetched
        /\ Lossy' = TRUE
    BY <1>5 DEF Results!FetchFails
  <2>3. batch.queue' \in Seq(Nat) /\ Orderly(batch.queue', batch.reported, batch.fetched, Lossy)
    BY <1>0, <2>1, SuffixOrderly
  <2> QED
    BY <1>0, <2>2, <2>3 DEF Orderly
<1>6. CASE Results!End
  <2>1. /\ batch.queue' = <<>> /\ batch.reported' = batch.reported
        /\ batch.fetched' = batch.fetched
    BY <1>6 DEF Results!End
  <2> QED
    BY <1>0, <2>1 DEF Orderly
<1>7. CASE Results!Begin \/ UNCHANGED rvars
  BY <1>0, <1>7 DEF Results!Begin, rvars
<1> QED
  BY <1>2, <1>3, <1>4, <1>5, <1>6, <1>7 DEF Results!Next

(* No access point is handed over twice or out of order, and none is       *)
(* missing before something is lost (hdd_batch_scan_result_ind_callback    *)
(* and the GET that empties the queue).                                    *)
THEOREM Ordered == Results!Spec => []Results!InOrder
<1>1. Results!Init => QueueInv
  BY DEF Results!Init, QueueInv, Results!InOrder
<1>2. QueueInv => Results!InOrder
  BY DEF QueueInv
<1> QED
  BY <1>1, <1>2, QueueKept, PTL DEF Results!Spec, Results!vars, QueueStep, rvars

(* So no access point is handed to the user twice, and none before one     *)
(* that was reported earlier.                                              *)
THEOREM HandedOverInOrder == Spec => []Results!InOrder
  BY Implements, Ordered, PTL DEF ResultsInOrder

-----------------------------------------------------------------------------
(* Scans.  The fields of the scan's and the MC thread's records.           *)
ScanFields ==
    scan = [pending |-> scan.pending, request |-> scan.request, booked |-> scan.booked,
            aborted |-> scan.aborted, awake |-> scan.awake, sme |-> scan.sme,
            number |-> scan.number, asked |-> scan.asked, told |-> scan.told]
McFields == mc = [at |-> mc.at, n |-> mc.n, last |-> mc.last]
ScanTyped ==
    /\ ScanFields /\ McFields
    /\ scan.number \in Nat
    /\ scan.booked \in BOOLEAN /\ scan.pending \in BOOLEAN /\ scan.aborted \in BOOLEAN
    /\ scan.awake \in BOOLEAN /\ logp \in BOOLEAN

InCallback == mc.at \in {"booked", "report", "aborted", "allow"}

(* Until a request overtakes a callback there is one scan at most, none of *)
(* its predecessor's callback is left while it runs, it is pending or about *)
(* to be, and the completion of an abort means that it is over.            *)
OneScan ==
    "overtaken" \notin mishap =>
      /\ scan.sme \in {0, 1}
      /\ scan.sme = 1 \/ mc.at \in {"booked", "report"} =>
           ~logp /\ (scan.pending \/ (user = "scan" /\ mc.at # "report"))
      /\ scan.sme = 1 => ~InCallback
      /\ user = "pnoAbort" /\ scan.aborted => scan.sme = 0
      /\ user \in {"pnoCheck", "pnoWait"} => scan.sme = 0

(* Where a scan is, when nothing untoward has happened: nowhere, asked for *)
(* and not booked, booked, or answered while its callback goes on.         *)
Nowhere == ~scan.pending /\ scan.request = 0 /\ scan.asked = scan.told
Unbooked == ~scan.pending /\ scan.awake /\ scan.request = 0 /\ scan.asked # 0
            /\ scan.told = 0 /\ ~scan.booked
Booked == scan.pending /\ scan.awake /\ scan.request = scan.asked /\ scan.asked # 0
          /\ scan.told = 0
Undisturbed == mishap \intersect {"late", "ssr", "ifdown", "overtaken"} = {}
Phases ==
    Undisturbed =>
      /\ ~logp
      /\ \/ scan.sme = 0 /\ user # "scan" /\ ~InCallback /\ Nowhere /\ ~scan.awake
         \/ scan.sme = 1 /\ user = "scan" /\ ~InCallback /\ Unbooked
         \/ scan.sme = 1 /\ user # "scan" /\ ~InCallback /\ Booked /\ scan.booked
         \/ scan.sme = 0 /\ user = "scan" /\ mc.at = "booked" /\ Unbooked
         \/ scan.sme = 0 /\ user # "scan" /\ mc.at = "booked" /\ Booked /\ scan.booked
         \/ scan.sme = 0 /\ user # "scan" /\ mc.at = "report" /\ Booked
         \/ scan.sme = 0 /\ user # "scan" /\ mc.at \in {"aborted", "allow"} /\ Nowhere

ScanInv == ScanTyped /\ OneScan /\ Phases

(* A step that leaves the scan alone, and the callback where it is, or     *)
(* moves the MC thread outside it.                                         *)
Outside == {"idle", "aps", "signal"}
ScanUsers == {"scan", "pnoAbort", "pnoCheck", "pnoWait"}
LEMMA StepAside ==
    ASSUME ScanInv, UNCHANGED <<scan, logp>>, mishap \subseteq mishap', McFields',
           mc'.at = mc.at \/ {mc.at, mc'.at} \subseteq Outside,
           user' = user \/ (user # "scan" /\ user' \notin ScanUsers)
    PROVE  ScanInv'
<1>1. ScanTyped'
  BY DEF ScanInv, ScanTyped, ScanFields
<1>2. InCallback' = InCallback /\ (mc'.at = mc.at \/ (~InCallback /\ ~InCallback'))
  BY DEF InCallback, Outside
<1>3. OneScan'
  BY <1>2, SMT DEF ScanInv, OneScan, ScanUsers, InCallback
<1>4. Undisturbed' => Undisturbed
  BY DEF Undisturbed
<1>5. (user = "scan") = (user' = "scan")
  BY DEF ScanUsers
<1>6. Phases'
  BY <1>2, <1>4, <1>5, SMT DEF ScanInv, Phases, Nowhere, Unbooked, Booked, InCallback
<1> QED
  BY <1>1, <1>3, <1>6 DEF ScanInv

(* The extended scans and the statistics keep to their own state.          *)
LEMMA ExtApart ==
    ASSUME ExtUserNext \/ ExtMcNext
    PROVE  UNCHANGED <<user, mc, answers, logp, asleep>> /\ mishap \subseteq mishap'
<1>1. CASE ExtUserNext
  BY <1>1 DEF ExtUserNext, ExtElse, ExtScanStart, ExtScanStop, SetBssidHotlist, ResetBssidHotlist,
     SetSignificantChange, ResetSignificantChange, GetCachedResults, LlStatsSet, LlStatsGet,
     LlStatsClear, Command, EnterVendor, EnterFails
<1>2. CASE FirmwareReports
  BY <1>2 DEF FirmwareReports, ExtElse
<1>3. CASE Event
  BY <1>3 DEF Event, ExtElse, Fails
<1> QED
  BY <1>1, <1>2, <1>3, Zenon DEF ExtMcNext, StartResponse, StopResponse, SetHotlistResponse,
     ResetHotlistResponse, SetSignificantResponse, ResetSignificantResponse, HotlistMatch,
     SignificantChange, CachedResults, FullScanResult, ResultsAvailable, ScanProgress,
     RadioStats, IfaceStats, PeerStats, LlStats

(* The batch, the extended scans and the statistics.                       *)
LEMMA OtherServicesAside ==
    ASSUME ScanInv, UNCHANGED scanVars,
           BatchUserNext \/ BatchMcNext \/ ExtUserNext \/ ExtMcNext
    PROVE  ScanInv'
<1>1. McFields /\ scan' = scan
  BY DEF ScanInv, ScanTyped, scanVars
<1>2. CASE BatchUserNext
  <2>1. UNCHANGED <<scan, logp, mc>> /\ mishap \subseteq mishap'
    BY <1>1, <1>2 DEF BatchUserNext, BatchElse, BatchSet, BatchSetTest, BatchSetReset, BatchSetWait,
       BatchSetCheck, BatchStop, BatchGetQueued, BatchGet, BatchGetTest, BatchGetReset,
       BatchGetWait, BatchGetCopy, Enter, EnterFails, Fails, GiveUp, Reset
  <2>2. user' = user \/ (user # "scan" /\ user' \notin ScanUsers)
    BY <1>2 DEF BatchUserNext, BatchSet, BatchSetTest, BatchSetReset, BatchSetWait,
       BatchSetCheck, BatchStop, BatchGetQueued, BatchGet, BatchGetTest, BatchGetReset,
       BatchGetWait, BatchGetCopy, Enter, EnterFails, CanEnter, ScanUsers
  <2> QED
    BY <1>1, <2>1, <2>2, StepAside DEF McFields
<1>3. CASE BatchMcNext
  <2>1. UNCHANGED <<scan, logp, user>> /\ mishap \subseteq mishap'
    BY <1>1, <1>3, BatchRecords DEF BatchMcNext, BatchElse, BatchSetResponse, BatchIndication,
       BatchQueue, BatchQueued, BatchSignal
  <2>2. McFields' /\ (mc'.at = mc.at \/ {mc.at, mc'.at} \subseteq Outside)
    <3>1. CASE BatchSetResponse
      BY <1>1, <3>1 DEF BatchSetResponse, McFields
    <3>2. CASE BatchIndication
      <4>1. PICK n \in 0..MaxAps, last \in BOOLEAN : mc' = [at |-> "aps", n |-> n, last |-> last \/ n = 0]
        BY <3>2 DEF BatchIndication
      <4>2. mc'.at = "aps" /\ McFields'
        BY <4>1, Zenon DEF McFields
      <4> QED
        BY <3>2, <4>2 DEF BatchIndication, McIdle, Outside
    <3>3. CASE BatchQueue
      BY <1>1, <3>3 DEF BatchQueue, McFields
    <3>4. CASE BatchQueued
      BY <1>1, <3>4 DEF BatchQueued, McFields, Outside
    <3>5. CASE BatchSignal
      BY <1>1, <3>5 DEF BatchSignal, McGo, McFields, Outside
    <3> QED
      BY <1>3, <3>1, <3>2, <3>3, <3>4, <3>5 DEF BatchMcNext
  <2> QED
    BY <2>1, <2>2, StepAside
<1>4. CASE ExtUserNext \/ ExtMcNext
  BY <1>1, <1>4, ExtApart, StepAside DEF McFields
<1> QED
  BY <1>2, <1>3, <1>4

(* The requests and callbacks of a scan, PNO's wait for its end, and the   *)
(* restart.                                                                *)
LEMMA ScanSteps ==
    ASSUME ScanInv,
           \/ ScanRequest
           \/ ScanRefused
           \/ ScanBooked
           \/ ScanToldToUser
           \/ PnoStart
           \/ PnoAborted
           \/ PnoCheck
           \/ IfDown
           \/ ScanEnds
           \/ AwaitBooking
           \/ ReportScan
           \/ SignalAbort
           \/ AllowSuspend
           \/ Shutdown
           \/ Restarted
    PROVE  ScanInv'
<1>1. CASE ScanRequest
  <2>1. ScanTyped'
    <3>1. scan' = Accepted(scan) /\ UNCHANGED <<mc, logp>>
      BY <1>1 DEF ScanRequest
    <3>2. ScanFields' /\ scan'.booked = FALSE /\ scan'.awake = TRUE /\ scan'.pending = scan.pending
          /\ scan'.aborted = scan.aborted /\ scan'.number = scan.number + 1
      BY <3>1 DEF Accepted, ScanInv, ScanTyped, ScanFields
    <3>3. McFields'
      BY <3>1 DEF ScanInv, ScanTyped, McFields
    <3>4. scan'.number \in Nat
      BY <3>2 DEF ScanInv, ScanTyped
    <3>5. /\ scan'.booked \in BOOLEAN /\ scan'.awake \in BOOLEAN
          /\ scan'.pending \in BOOLEAN /\ scan'.aborted \in BOOLEAN /\ logp' \in BOOLEAN
      BY <3>1, <3>2, Zenon DEF ScanInv, ScanTyped
    <3> QED
      BY <3>2, <3>3, <3>4, <3>5, Zenon DEF ScanTyped
  <2>2. OneScan'
    BY <1>1, SMTT(30) DEF ScanRequest, ScanAllowed, Asks, Valid, CanEnter, Accepted, ScanInv, ScanTyped, ScanFields, McFields, InCallback, OneScan
  <2>3. Phases'
    BY <1>1, SMTT(30) DEF ScanRequest, ScanAllowed, Asks, Valid, CanEnter, Accepted, ScanInv, ScanTyped, ScanFields, McFields, InCallback, Phases,
       Undisturbed, Nowhere, Unbooked, Booked
  <2> QED
    BY <2>1, <2>2, <2>3 DEF ScanInv
<1>2. CASE ScanRefused
  <2>1. ScanTyped'
    BY <1>2 DEF ScanRefused, ScanAllowed, Asks, Valid, EnterFails, CanEnter, ScanInv, ScanTyped, ScanFields, McFields
  <2>2. OneScan'
    BY <1>2, SMTT(30) DEF ScanRefused, ScanAllowed, Asks, Valid, EnterFails, CanEnter, ScanInv, ScanTyped, ScanFields, McFields, InCallback, OneScan
  <2>3. Phases'
    BY <1>2, SMTT(30) DEF ScanRefused, ScanAllowed, Asks, Valid, EnterFails, CanEnter, ScanInv, ScanTyped, ScanFields, McFields, InCallback, Phases,
       Undisturbed, Nowhere, Unbooked, Booked
  <2> QED
    BY <2>1, <2>2, <2>3 DEF ScanInv
<1>3. CASE ScanBooked
  <2>1. ScanTyped'
    BY <1>3 DEF ScanBooked, Book, ScanInv, ScanTyped, ScanFields, McFields
  <2>2. OneScan'
    BY <1>3, SMTT(30) DEF ScanBooked, Book, ScanInv, ScanTyped, ScanFields, McFields, InCallback, OneScan
  <2>3. Phases'
    BY <1>3, SMTT(30) DEF ScanBooked, Book, ScanInv, ScanTyped, ScanFields, McFields, InCallback, Phases,
       Undisturbed, Nowhere, Unbooked, Booked
  <2> QED
    BY <2>1, <2>2, <2>3 DEF ScanInv
<1>4. CASE ScanToldToUser
  <2>1. ScanTyped'
    BY <1>4 DEF ScanToldToUser, threads, ScanInv, ScanTyped, ScanFields, McFields
  <2>2. OneScan'
    BY <1>4, SMTT(30) DEF ScanToldToUser, threads, ScanInv, ScanTyped, ScanFields, McFields, InCallback, OneScan
  <2>3. Phases'
    BY <1>4, SMTT(30) DEF ScanToldToUser, threads, ScanInv, ScanTyped, ScanFields, McFields, InCallback, Phases,
       Undisturbed, Nowhere, Unbooked, Booked
  <2> QED
    BY <2>1, <2>2, <2>3 DEF ScanInv
<1>5. CASE PnoStart
  <2>1. ScanTyped'
    BY <1>5 DEF PnoStart, AbortScan, Enter, CanEnter, ScanInv, ScanTyped, ScanFields, McFields
  <2>2. OneScan'
    BY <1>5, SMTT(30) DEF PnoStart, AbortScan, Enter, CanEnter, ScanInv, ScanTyped, ScanFields, McFields, InCallback, OneScan
  <2>3. Phases'
    BY <1>5, SMTT(30) DEF PnoStart, AbortScan, Enter, CanEnter, ScanInv, ScanTyped, ScanFields, McFields, InCallback, Phases,
       Undisturbed, Nowhere, Unbooked, Booked
  <2> QED
    BY <2>1, <2>2, <2>3 DEF ScanInv
<1>6. CASE PnoAborted
  <2>1. ScanTyped'
    BY <1>6 DEF PnoAborted, GiveUp, ScanInv, ScanTyped, ScanFields, McFields
  <2>2. OneScan'
    BY <1>6, SMTT(30) DEF PnoAborted, GiveUp, ScanInv, ScanTyped, ScanFields, McFields, InCallback, OneScan
  <2>3. Phases'
    BY <1>6, SMTT(30) DEF PnoAborted, GiveUp, ScanInv, ScanTyped, ScanFields, McFields, InCallback, Phases,
       Undisturbed, Nowhere, Unbooked, Booked
  <2> QED
    BY <2>1, <2>2, <2>3 DEF ScanInv
<1>7. CASE PnoCheck
  <2>1. ScanTyped'
    BY <1>7 DEF PnoCheck, Fails, ScanInv, ScanTyped, ScanFields, McFields
  <2>2. OneScan'
    BY <1>7, SMTT(30) DEF PnoCheck, Fails, ScanInv, ScanTyped, ScanFields, McFields, InCallback, OneScan
  <2>3. Phases'
    BY <1>7, SMTT(30) DEF PnoCheck, Fails, ScanInv, ScanTyped, ScanFields, McFields, InCallback, Phases,
       Undisturbed, Nowhere, Unbooked, Booked
  <2> QED
    BY <2>1, <2>2, <2>3 DEF ScanInv
<1>8. CASE IfDown
  <2>1. ScanTyped'
    BY <1>8 DEF IfDown, CanEnter, ScanInv, ScanTyped, ScanFields, McFields
  <2>2. OneScan'
    BY <1>8, SMTT(30) DEF IfDown, CanEnter, ScanInv, ScanTyped, ScanFields, McFields, InCallback, OneScan
  <2>3. Phases'
    BY <1>8, SMTT(30) DEF IfDown, CanEnter, ScanInv, ScanTyped, ScanFields, McFields, InCallback, Phases,
       Undisturbed, Nowhere, Unbooked, Booked
  <2> QED
    BY <2>1, <2>2, <2>3 DEF ScanInv
<1>9. CASE ScanEnds
  <2>1. ScanTyped'
    BY <1>9 DEF ScanEnds, McIdle, McGo, ScanInv, ScanTyped, ScanFields, McFields
  <2>2. OneScan'
    BY <1>9, SMTT(30) DEF ScanEnds, McIdle, McGo, ScanInv, ScanTyped, ScanFields, McFields, InCallback, OneScan
  <2>3. Phases'
    BY <1>9, SMTT(30) DEF ScanEnds, McIdle, McGo, ScanInv, ScanTyped, ScanFields, McFields, InCallback, Phases,
       Undisturbed, Nowhere, Unbooked, Booked
  <2> QED
    BY <2>1, <2>2, <2>3 DEF ScanInv
<1>10. CASE AwaitBooking
  <2>1. ScanTyped'
    BY <1>10 DEF AwaitBooking, GiveUp, McGo, ScanInv, ScanTyped, ScanFields, McFields
  <2>2. OneScan'
    BY <1>10, SMTT(30) DEF AwaitBooking, GiveUp, McGo, ScanInv, ScanTyped, ScanFields, McFields, InCallback, OneScan
  <2>3. Phases'
    BY <1>10, SMTT(30) DEF AwaitBooking, GiveUp, McGo, ScanInv, ScanTyped, ScanFields, McFields, InCallback, Phases,
       Undisturbed, Nowhere, Unbooked, Booked
  <2> QED
    BY <2>1, <2>2, <2>3 DEF ScanInv
<1>11. CASE ReportScan
  <2>1. ScanTyped'
    BY <1>11 DEF ReportScan, Answer, McGo, ScanInv, ScanTyped, ScanFields, McFields
  <2>2. /\ UNCHANGED <<user, logp, mishap>> /\ mc.at = "report"
        /\ scan'.pending = FALSE /\ scan'.sme = scan.sme /\ scan'.asked = scan.asked
        /\ scan'.request = 0
        /\ mc'.at = IF scan.request = 0 THEN "allow" ELSE "aborted"
        /\ scan.request # 0 => scan'.told = scan.request
    BY <1>11 DEF ReportScan, Answer, McGo, ScanInv, ScanTyped, ScanFields, McFields
  <2>3. OneScan'
    BY <2>2, SMTT(30) DEF ScanInv, ScanTyped, InCallback, OneScan
  <2>4. Phases'
    BY <2>2, SMTT(30) DEF ScanInv, InCallback, Phases, Undisturbed, Nowhere, Unbooked, Booked
  <2> QED
    BY <2>1, <2>3, <2>4 DEF ScanInv
<1>12. CASE SignalAbort
  <2>1. ScanTyped'
    BY <1>12 DEF SignalAbort, McGo, ScanInv, ScanTyped, ScanFields, McFields
  <2>2. OneScan'
    BY <1>12, SMTT(30) DEF SignalAbort, McGo, ScanInv, ScanTyped, ScanFields, McFields, InCallback, OneScan
  <2>3. Phases'
    BY <1>12, SMTT(30) DEF SignalAbort, McGo, ScanInv, ScanTyped, ScanFields, McFields, InCallback, Phases,
       Undisturbed, Nowhere, Unbooked, Booked
  <2> QED
    BY <2>1, <2>2, <2>3 DEF ScanInv
<1>13. CASE AllowSuspend
  <2>1. ScanTyped'
    BY <1>13 DEF AllowSuspend, McGo, ScanInv, ScanTyped, ScanFields, McFields
  <2>2. OneScan'
    BY <1>13, SMTT(30) DEF AllowSuspend, McGo, ScanInv, ScanTyped, ScanFields, McFields, InCallback, OneScan
  <2>3. Phases'
    BY <1>13, SMTT(30) DEF AllowSuspend, McGo, ScanInv, ScanTyped, ScanFields, McFields, InCallback, Phases,
       Undisturbed, Nowhere, Unbooked, Booked
  <2> QED
    BY <2>1, <2>2, <2>3 DEF ScanInv
<1>14. CASE Shutdown
  <2>1. ScanTyped'
    BY <1>14 DEF Shutdown, ScanShutdown, McIdle, ScanInv, ScanTyped, ScanFields, McFields
  <2>2. OneScan'
    BY <1>14, SMTT(30) DEF Shutdown, ScanShutdown, McIdle, ScanInv, ScanTyped, ScanFields, McFields, InCallback, OneScan
  <2>3. Phases'
    BY <1>14, SMTT(30) DEF Shutdown, ScanShutdown, McIdle, ScanInv, ScanTyped, ScanFields, McFields, InCallback, Phases,
       Undisturbed, Nowhere, Unbooked, Booked
  <2> QED
    BY <2>1, <2>2, <2>3 DEF ScanInv
<1>15. CASE Restarted
  <2>1. ScanTyped'
    BY <1>15 DEF Restarted, ScanRestarted, ScanInv, ScanTyped, ScanFields, McFields
  <2>2. OneScan'
    BY <1>15, SMTT(30) DEF Restarted, ScanRestarted, ScanInv, ScanTyped, ScanFields, McFields, InCallback, OneScan
  <2>3. Phases'
    BY <1>15, SMTT(30) DEF Restarted, ScanRestarted, ScanInv, ScanTyped, ScanFields, McFields, InCallback, Phases,
       Undisturbed, Nowhere, Unbooked, Booked
  <2> QED
    BY <2>1, <2>2, <2>3 DEF ScanInv
<1> QED
  BY <1>1, <1>2, <1>3, <1>4, <1>5, <1>6, <1>7, <1>8, <1>9, <1>10, <1>11, <1>12, <1>13, <1>14, <1>15

(* Every scan is booked while it lasts and forgotten when it is over       *)
(* (__wlan_hdd_cfg80211_scan, hdd_cfg80211_scan_done_callback), and PNO is  *)
(* set up only when the scan that it aborts has ended                      *)
(* (__wlan_hdd_cfg80211_sched_scan_start, wlan_hdd_scan_abort).            *)
LEMMA ScansKept == Spec => []ScanInv
<1>1. Init => ScanInv
  <2> SUFFICES ASSUME Init PROVE ScanInv
    OBVIOUS
  <2>1. ScanTyped
    BY DEF Init, ThreadsInit, ScanInit, ScanTyped, ScanFields, McFields
  <2>2. OneScan
    BY DEF Init, ThreadsInit, ScanInit, OneScan
  <2>3. Phases
    BY DEF Init, ThreadsInit, ScanInit, Phases, InCallback, Nowhere
  <2> QED
    BY <2>1, <2>2, <2>3 DEF ScanInv
<1>2. ScanInv /\ [Next]_vars => ScanInv'
  <2> SUFFICES ASSUME ScanInv, [Next]_vars PROVE ScanInv'
    OBVIOUS
  <2>1. CASE ScanUserNext
    <3>1. CASE PnoReturn \/ PnoStop \/ Suspend \/ Resume \/ Connect \/ Disconnect
      <4>1. UNCHANGED <<scan, logp, mc>> /\ mishap \subseteq mishap'
        BY <3>1 DEF PnoReturn, PnoStop, Suspend, Resume, Connect, Disconnect, Enter, EnterFails, GiveUp
      <4>2. user' = user \/ (user # "scan" /\ user' \notin ScanUsers)
        BY <3>1 DEF PnoReturn, PnoStop, Suspend, Resume, Connect, Disconnect, ScanUsers
      <4> QED
        BY <4>1, <4>2, StepAside DEF ScanInv, ScanTyped, McFields
    <3> QED
      BY <2>1, <3>1, ScanSteps DEF ScanUserNext
  <2>2. CASE ScanMcNext
    <3>1. CASE PnoStatus \/ PnoFound \/ LinkReport
      <4>1. UNCHANGED <<scan, logp, mc, mishap, user>>
        BY <3>1 DEF PnoStatus, PnoFound, LinkReport, threads
      <4> QED
        BY <4>1, StepAside DEF ScanInv, ScanTyped, McFields
    <3> QED
      BY <2>2, <3>1, ScanSteps DEF ScanMcNext
  <2>3. CASE UNCHANGED scanVars /\ (BatchUserNext \/ BatchMcNext \/ ExtUserNext \/ ExtMcNext)
    BY <2>3, OtherServicesAside
  <2>4. CASE Shutdown \/ Restarted
    BY <2>4, ScanSteps
  <2>5. CASE UNCHANGED vars
    <3>1. UNCHANGED <<scan, logp, mc, mishap, user>>
      BY <2>5 DEF vars, threads, scanVars
    <3> QED
      BY <3>1, StepAside DEF ScanInv, ScanTyped, McFields
  <2> QED
    BY <2>1, <2>2, <2>3, <2>4, <2>5 DEF Next
<1> QED
  BY <1>1, <1>2, PTL DEF Spec

(* A scan that lasts is pending, holds the wake lock and is the one that   *)
(* cfg80211 waits for; when everything is quiet nothing is left of it.     *)
THEOREM Bookkeeping == Spec => []ScanBookkeeping
<1>1. ScanInv => ScanBookkeeping
  BY DEF ScanInv, Phases, ScanBookkeeping, Undisturbed, InCallback, Nowhere, Unbooked, Booked,
     Quiet, McIdle
<1> QED
  BY <1>1, ScansKept, PTL

(* PNO is set up only when the scan that it aborts is over.                *)
THEOREM PnoWaits == Spec => []ScanEndsBeforePno
<1>1. ScanInv => ScanEndsBeforePno
  BY DEF ScanInv, OneScan, ScanEndsBeforePno
<1> QED
  BY <1>1, ScansKept, PTL

-----------------------------------------------------------------------------
(* Agreement.  The answers of a kind that are under way.                   *)
Owed(kind) == {a \in answers : a.kind = kind}

PnoFields ==
    /\ pno = [flag |-> pno.flag, ok |-> pno.ok, done |-> pno.done, fw |-> pno.fw,
              asked |-> pno.asked, suspended |-> pno.suspended, update |-> pno.update]
    /\ pno.flag \in BOOLEAN /\ pno.fw \in BOOLEAN
(* The types of the batch that the agreement needs beside BatchInv.        *)
BatchTyped == BatchInv /\ ShortInv /\ batch.fw \in BOOLEAN
ExtFields ==
    ext = [fw |-> ext.fw, messages |-> ext.messages, known |-> ext.known, aps |-> ext.aps,
           events |-> ext.events, llSet |-> ext.llSet, llFw |-> ext.llFw]

(* PNO: while its request waits, an answer that says what the firmware did *)
(* is under way, or has been stored.                                       *)
PnoSettled == pno.flag = pno.fw /\ pno.asked = pno.flag
PnoAgrees ==
    mishap \intersect {"late", "ssr", "alloc"} = {} =>
      /\ ~logp
      /\ IF user = "pnoWait"
         THEN /\ ~pno.asked
              /\ IF pno.done
                 THEN Owed("pno") = {} /\ pno.flag = pno.fw /\ pno.ok = pno.fw
                 ELSE \E a : Owed("pno") = {a} /\ pno.flag /\ pno.ok /\ a.ok = pno.fw
         ELSE Owed("pno") = {} /\ PnoSettled

(* The resume clears what the suspension set.                              *)
SleepAgrees ==
    "resume" \notin mishap => (pno.update => pno.suspended) /\ (pno.suspended => asleep)

(* A batch: while its request runs, an answer that says whether the        *)
(* firmware batches is under way, or has been stored and signalled.        *)
SetWaits == {"setTest", "setReset", "setWait"}
SetAnswered == Owed("set") = {} /\ ~batch.waitSet
               /\ batch.fw = (batch.started \/ batch.scans > 0)
BatchAgrees ==
    mishap \intersect {"late", "ssr", "lost", "batch"} = {} =>
      /\ user \in SetWaits =>
           \/ /\ \E a : Owed("set") = {a} /\ batch.fw = (batch.started \/ a.ok)
              /\ batch.waitSet
              /\ user = "setWait" => ~batch.setDone
           \/ SetAnswered /\ batch.setDone
      /\ user = "setCheck" => SetAnswered
      /\ user \notin SetWaits \union {"setCheck"} => Owed("set") = {} /\ batch.started = batch.fw

(* Link-layer statistics.                                                  *)
LlAgrees == mishap \intersect {"ssr", "clear"} = {} => ext.llSet = ext.llFw

AgreeInv == PnoAgrees /\ SleepAgrees /\ BatchAgrees /\ LlAgrees
            /\ PnoFields /\ BatchTyped /\ ExtFields

(* What each service leaves to the others.                                 *)
BatchUsers == SetWaits \union {"setCheck", "getTest", "getReset", "getWait", "getCopy"}

LEMMA BatchApart ==
    ASSUME BatchUserNext \/ BatchMcNext
    PROVE  /\ UNCHANGED <<logp, asleep>> /\ mishap \subseteq mishap'
           /\ Owed("pno")' = Owed("pno")
           /\ (user = "pnoWait") = (user' = "pnoWait")
<1>1. UNCHANGED <<logp, asleep>>
  BY DEF BatchUserNext, BatchMcNext, BatchElse, BatchSet, BatchSetTest, BatchSetReset, BatchSetWait,
     BatchSetCheck, BatchStop, BatchGetQueued, BatchGet, BatchGetTest, BatchGetReset, BatchGetWait,
     BatchGetCopy,
     BatchSetResponse, BatchIndication, BatchQueue, BatchQueued, BatchSignal
<1>2. CASE BatchSet
  <2>1. UNCHANGED answers \/ \E a : a.kind = "set" /\ answers' = answers \union {a}
    BY <1>2 DEF BatchSet
  <2>2. mishap \subseteq mishap' /\ (user = "pnoWait") = (user' = "pnoWait")
    BY <1>2 DEF BatchSet, Enter, EnterFails, CanEnter
  <2> QED
    BY <1>1, <2>1, <2>2 DEF Owed
<1>3. CASE BatchSetResponse
  <2>1. PICK a \in answers : a.kind = "set" /\ answers' = answers \ {a}
    BY <1>3 DEF BatchSetResponse
  <2>2. UNCHANGED <<user, mishap>>
    BY <1>3 DEF BatchSetResponse
  <2> QED
    BY <1>1, <2>1, <2>2 DEF Owed
<1>4. CASE UNCHANGED answers
  <2>1. mishap \subseteq mishap'
    BY BatchRecords
  <2>2. (user = "pnoWait") = (user' = "pnoWait")
    BY <1>4 DEF BatchUserNext, BatchMcNext, BatchSet, BatchSetTest, BatchSetReset, BatchSetWait,
       BatchSetCheck, BatchStop, BatchGetQueued, BatchGet, BatchGetTest, BatchGetReset, BatchGetWait,
     BatchGetCopy,
       BatchSetResponse, BatchIndication, BatchQueue, BatchQueued, BatchSignal,
       Enter, EnterFails, CanEnter
  <2> QED
    BY <1>1, <1>4, <2>1, <2>2 DEF Owed
<1> QED
  BY <1>2, <1>3, <1>4 DEF BatchUserNext, BatchMcNext, BatchSetTest, BatchSetReset, BatchSetWait,
     BatchSetCheck, BatchStop, BatchGetQueued, BatchGet, BatchGetTest, BatchGetReset, BatchGetWait,
     BatchGetCopy,
     BatchIndication, BatchQueue, BatchQueued, BatchSignal

LEMMA ScanApart ==
    ASSUME ScanUserNext \/ ScanMcNext
    PROVE  /\ logp' = logp /\ mishap \subseteq mishap'
           /\ Owed("set")' = Owed("set")
           /\ user' = user \/ (user \notin BatchUsers /\ user' \notin BatchUsers)
<1>1. logp' = logp
  BY DEF ScanUserNext, ScanMcNext, ScanRequest, ScanRefused, ScanBooked, ScanToldToUser, PnoStart,
     PnoAborted, PnoCheck, PnoReturn, PnoStop, Suspend, Resume, Connect, Disconnect, IfDown, ScanEnds,
     AwaitBooking, ReportScan, SignalAbort, AllowSuspend, PnoStatus, PnoFound, LinkReport, threads
<1>2. mishap \subseteq mishap'
  BY DEF ScanUserNext, ScanMcNext, ScanRequest, ScanRefused, ScanBooked, ScanToldToUser, PnoStart,
     PnoAborted, PnoCheck, PnoReturn, PnoStop, Suspend, Resume, Connect, Disconnect, IfDown, ScanEnds,
     AwaitBooking, ReportScan, SignalAbort, AllowSuspend, PnoStatus, PnoFound, LinkReport, threads,
     Enter, EnterFails, Fails, GiveUp
<1>3. user' = user \/ (user \notin BatchUsers /\ user' \notin BatchUsers)
  BY DEF ScanUserNext, ScanMcNext, ScanRequest, ScanRefused, ScanBooked, ScanToldToUser, PnoStart,
     PnoAborted, PnoCheck, PnoReturn, PnoStop, Suspend, Resume, Connect, Disconnect, IfDown, ScanEnds,
     AwaitBooking, ReportScan, SignalAbort, AllowSuspend, PnoStatus, PnoFound, LinkReport, threads,
     Enter, CanEnter, BatchUsers, SetWaits
<1>4. \/ UNCHANGED answers
      \/ \E a : a.kind = "pno" /\ (answers' = answers \union {a} \/ answers' = answers \ {a})
  <2>1. CASE PnoCheck
    BY <2>1 DEF PnoCheck
  <2>2. CASE PnoStatus
    BY <2>2 DEF PnoStatus
  <2> QED
    BY <2>1, <2>2 DEF ScanUserNext, ScanMcNext, ScanRequest, ScanRefused, ScanBooked, ScanToldToUser,
       PnoStart, PnoAborted, PnoReturn, PnoStop, Suspend, Resume, Connect, Disconnect, IfDown, ScanEnds,
       AwaitBooking, ReportScan, SignalAbort, AllowSuspend, PnoFound, LinkReport, threads
<1>5. Owed("set")' = Owed("set")
  BY <1>4 DEF Owed
<1> QED
  BY <1>1, <1>2, <1>3, <1>5

-----------------------------------------------------------------------------
(* Statistics and sleep.                                                   *)
LEMMA LlKept == ExtFields /\ LlAgrees /\ [Next]_vars => (ExtFields /\ LlAgrees)'
<1> SUFFICES ASSUME ExtFields, LlAgrees, [Next]_vars PROVE (ExtFields /\ LlAgrees)'
  OBVIOUS
<1>1. CASE UNCHANGED ext /\ mishap \subseteq mishap'
  BY <1>1 DEF ExtFields, LlAgrees
<1>2. CASE ExtUserNext
  <2>1. CASE LlStatsClear
    BY <2>1 DEF LlStatsClear, Cleared, EnterVendor, EnterFails, ExtFields, LlAgrees
  <2>2. ~LlStatsClear => /\ ExtFields'
                         /\ \/ ext'.llSet = ext.llSet /\ ext'.llFw = ext.llFw
                            \/ ext'.llSet = TRUE /\ ext'.llFw = TRUE
    BY <1>2 DEF ExtUserNext, ExtScanStart, ExtScanStop, SetBssidHotlist, ResetBssidHotlist,
       SetSignificantChange, ResetSignificantChange, GetCachedResults, LlStatsSet, LlStatsGet,
       Command, ExtFields
  <2> QED
    BY <1>2, <2>1, <2>2, ExtApart DEF LlAgrees
<1>3. CASE ExtMcNext
  <2>1. CASE FirmwareReports
    BY <2>1 DEF FirmwareReports, ExtFields, LlAgrees
  <2>2. CASE Event
    BY <2>2 DEF Event, Fails, ExtFields, LlAgrees
  <2> QED
    BY <1>3, <2>1, <2>2, Zenon DEF ExtMcNext, StartResponse, StopResponse, SetHotlistResponse,
       ResetHotlistResponse, SetSignificantResponse, ResetSignificantResponse, HotlistMatch,
       SignificantChange, CachedResults, FullScanResult, ResultsAvailable, ScanProgress,
       RadioStats, IfaceStats, PeerStats, LlStats
<1>4. CASE Shutdown
  BY <1>4 DEF Shutdown, ExtShutdown, ExtFields, LlAgrees
<1>5. CASE Restarted \/ UNCHANGED vars
  BY <1>1, <1>5 DEF Restarted, vars, threads
<1> QED
  BY <1>1, <1>2, <1>3, <1>4, <1>5, BatchApart, ScanApart DEF Next

LEMMA SleepKept == PnoFields /\ SleepAgrees /\ [Next]_vars => (PnoFields /\ SleepAgrees)'
<1> SUFFICES ASSUME PnoFields, SleepAgrees, [Next]_vars PROVE (PnoFields /\ SleepAgrees)'
  OBVIOUS
<1>1. CASE UNCHANGED <<pno, asleep>> /\ mishap \subseteq mishap'
  BY <1>1 DEF PnoFields, SleepAgrees
<1>2. CASE ScanUserNext \/ ScanMcNext
  <2>1. CASE Suspend
    BY <2>1 DEF Suspend, Enter, PnoFields, SleepAgrees
  <2>2. CASE Resume
    BY <2>2 DEF Resume, Resumed, PnoFields, SleepAgrees
  <2>3. CASE PnoFound
    BY <2>3 DEF PnoFound, PnoFields, SleepAgrees
  <2>4. CASE PnoCheck
    BY <2>4 DEF PnoCheck, PnoPosted, Fails, PnoFields, SleepAgrees
  <2>5. CASE PnoStatus
    BY <2>5 DEF PnoStatus, Status, PnoFields, SleepAgrees
  <2>6. CASE PnoReturn
    BY <2>6 DEF PnoReturn, GiveUp, PnoFields, SleepAgrees
  <2>7. CASE PnoStop
    BY <2>7 DEF PnoStop, Enter, EnterFails, PnoFields, SleepAgrees
  <2>8. CASE UNCHANGED <<pno, asleep>>
    BY <1>1, <1>2, <2>8, ScanApart
  <2> QED
    BY <1>2, <2>1, <2>2, <2>3, <2>4, <2>5, <2>6, <2>7, <2>8 DEF ScanUserNext, ScanMcNext, ScanRequest,
       ScanRefused, ScanBooked, ScanToldToUser, PnoStart, PnoAborted, Connect, Disconnect, IfDown,
       ScanEnds, AwaitBooking, ReportScan, SignalAbort, AllowSuspend, LinkReport, threads
<1>3. CASE Shutdown
  BY <1>3 DEF Shutdown, ScanShutdown, PnoFields, SleepAgrees
<1>4. CASE Restarted \/ UNCHANGED vars
  BY <1>1, <1>4 DEF Restarted, ScanRestarted, vars, threads, scanVars
<1>5. CASE (BatchUserNext \/ BatchMcNext) /\ UNCHANGED scanVars
  BY <1>1, <1>5, BatchApart DEF scanVars
<1>6. CASE (ExtUserNext \/ ExtMcNext) /\ UNCHANGED scanVars
  BY <1>1, <1>6, ExtApart DEF scanVars
<1> QED
  BY <1>2, <1>3, <1>4, <1>5, <1>6 DEF Next

-----------------------------------------------------------------------------
(* PNO and batches.                                                        *)
LEMMA PnoKept == PnoFields /\ PnoAgrees /\ [Next]_vars => PnoAgrees'
<1> SUFFICES ASSUME PnoFields, PnoAgrees, [Next]_vars PROVE PnoAgrees'
  OBVIOUS
<1>1. CASE /\ UNCHANGED <<pno, logp>> /\ mishap \subseteq mishap'
           /\ Owed("pno")' = Owed("pno") /\ (user = "pnoWait") = (user' = "pnoWait")
  <2>1. pno' = pno /\ logp' = logp
    BY <1>1
  <2> QED
    BY <1>1, <2>1 DEF PnoAgrees, PnoSettled
<1>2. CASE ScanUserNext \/ ScanMcNext
  <2> SUFFICES ASSUME mishap' \intersect {"late", "ssr", "alloc"} = {} PROVE PnoAgrees'
    BY DEF PnoAgrees
  <2>0. /\ mishap \intersect {"late", "ssr", "alloc"} = {} /\ ~logp /\ ~logp'
    BY <1>2, ScanApart DEF PnoAgrees
  <2>1. CASE PnoCheck
    <3>1. Owed("pno") = {} /\ PnoSettled /\ user = "pnoCheck"
      BY <2>0, <2>1 DEF PnoAgrees, PnoCheck
    <3>2. CASE user' = "pnoWait"
      <4>1. PICK ok \in BOOLEAN :
              /\ ~pno.flag /\ pno' = PnoPosted(pno, ok)
              /\ answers' = answers \union {[kind |-> "pno", ok |-> ok, n |-> left.ops]}
        BY <2>1, <3>2 DEF PnoCheck
      <4> DEFINE a == [kind |-> "pno", ok |-> ok, n |-> left.ops]
      <4>2. Owed("pno")' = {a} /\ a.ok = ok
        BY <3>1, <4>1 DEF Owed
      <4>3. ~pno'.asked /\ ~pno'.done /\ pno'.flag /\ pno'.ok /\ pno'.fw = ok
        BY <3>1, <4>1 DEF PnoPosted, PnoFields, PnoSettled
      <4> QED
        BY <2>0, <3>2, <4>2, <4>3 DEF PnoAgrees
    <3>3. CASE user' # "pnoWait"
      <4>1. UNCHANGED answers
        BY <2>1, <3>3 DEF PnoCheck
      <4>2. PnoSettled'
        BY <2>0, <2>1, <3>1, <3>3 DEF PnoCheck, Fails, PnoFields, PnoSettled
      <4> QED
        BY <2>0, <3>1, <3>3, <4>1, <4>2 DEF PnoAgrees, Owed
    <3> QED
      BY <3>2, <3>3
  <2>2. CASE PnoStatus
    <3>1. PICK a \in Owed("pno") : answers' = answers \ {a} /\ pno' = Status(pno, a.ok)
      BY <2>0, <2>2 DEF PnoStatus, Owed, Valid
    <3>2. user = "pnoWait" /\ ~pno.asked /\ Owed("pno") = {a} /\ pno.flag /\ a.ok = pno.fw
      BY <2>0, <3>1 DEF PnoAgrees
    <3>3. Owed("pno")' = {}
      BY <3>1, <3>2 DEF Owed
    <3>4. ~pno'.asked /\ pno'.done /\ pno'.flag = pno'.fw /\ pno'.ok = pno'.fw
      BY <3>1, <3>2 DEF Status, PnoFields
    <3> QED
      BY <2>0, <2>2, <3>2, <3>3, <3>4 DEF PnoAgrees, PnoStatus
  <2>3. CASE PnoReturn
    <3>1. pno.done
      BY <2>0, <2>3 DEF PnoReturn, GiveUp, PnoAgrees, Owed
    <3>2. Owed("pno") = {} /\ pno.flag = pno.fw /\ pno.ok = pno.fw
      BY <2>0, <2>3, <3>1 DEF PnoReturn, PnoAgrees
    <3>3. PnoSettled' /\ user' # "pnoWait" /\ UNCHANGED answers
      BY <2>3, <3>2 DEF PnoReturn, PnoFields, PnoSettled
    <3> QED
      BY <2>0, <3>2, <3>3 DEF PnoAgrees, Owed
  <2>4. CASE PnoStop \/ PnoFound \/ Suspend \/ Resume
    <3>1. UNCHANGED <<answers, user>>
      BY <2>4 DEF PnoStop, PnoFound, Suspend, Resume
    <3>2. CASE PnoStop
      <4>1. user # "pnoWait"
        BY <3>2 DEF PnoStop, Enter, EnterFails, CanEnter
      <4>2. PnoSettled'
        BY <2>0, <3>2, <4>1 DEF PnoStop, PnoAgrees, PnoSettled, PnoFields
      <4> QED
        BY <2>0, <3>1, <4>1, <4>2 DEF PnoAgrees, Owed
    <3>3. CASE PnoFound \/ Suspend \/ Resume
      <4>1. /\ pno'.flag = pno.flag /\ pno'.ok = pno.ok /\ pno'.done = pno.done
            /\ pno'.fw = pno.fw /\ pno'.asked = pno.asked
        BY <3>3 DEF PnoFound, Suspend, Resume, Resumed, PnoFields
      <4> QED
        BY <2>0, <3>1, <4>1 DEF PnoAgrees, PnoSettled, Owed
    <3> QED
      BY <2>4, <3>2, <3>3
  <2>5. CASE UNCHANGED <<pno, answers>> /\ (user = "pnoWait") = (user' = "pnoWait")
    BY <1>1, <1>2, <2>5, ScanApart DEF Owed
  <2> QED
    BY <1>2, <2>1, <2>2, <2>3, <2>4, <2>5 DEF ScanUserNext, ScanMcNext, ScanRequest, ScanRefused,
       ScanBooked, ScanToldToUser, PnoStart, PnoAborted, Connect, Disconnect, IfDown, ScanEnds,
       AwaitBooking, ReportScan, SignalAbort, AllowSuspend, LinkReport, threads, Enter, EnterFails,
       CanEnter
<1>3. CASE Shutdown
  BY <1>3 DEF Shutdown, PnoAgrees
<1>4. CASE Restarted
  BY <1>4 DEF Restarted, PnoAgrees
<1>5. CASE UNCHANGED vars
  BY <1>1, <1>5 DEF vars, threads, scanVars, Owed
<1>6. CASE (BatchUserNext \/ BatchMcNext) /\ UNCHANGED scanVars
  BY <1>1, <1>6, BatchApart DEF scanVars
<1>7. CASE (ExtUserNext \/ ExtMcNext) /\ UNCHANGED scanVars
  BY <1>1, <1>7, ExtApart DEF scanVars, Owed
<1> QED
  BY <1>2, <1>3, <1>4, <1>5, <1>6, <1>7 DEF Next

LEMMA BatchKept == BatchTyped /\ BatchAgrees /\ [Next]_vars => (BatchTyped /\ BatchAgrees)'
<1> SUFFICES ASSUME BatchTyped, BatchAgrees, [Next]_vars PROVE (BatchTyped /\ BatchAgrees)'
  OBVIOUS
<1> DEFINE Ideal == mishap \intersect {"late", "ssr", "lost", "batch"} = {}
<1>1. CASE /\ UNCHANGED batch /\ mishap \subseteq mishap' /\ Owed("set")' = Owed("set")
           /\ user' = user \/ (user \notin BatchUsers /\ user' \notin BatchUsers)
  <2>1. BatchTyped'
    BY <1>1 DEF BatchTyped, ShortInv, Lossy, BatchInv, BatchFields
  <2>2. Ideal' => Ideal
    BY <1>1
  <2>3. (user \in SetWaits <=> user' \in SetWaits) /\ (user = "setCheck") = (user' = "setCheck")
        /\ (user = "setWait") = (user' = "setWait")
    BY <1>1 DEF BatchUsers, SetWaits
  <2>4. SetAnswered' = SetAnswered
    BY <1>1 DEF SetAnswered
  <2>5. user' \in SetWaits =>
           \/ /\ \E a : Owed("set")' = {a} /\ batch'.fw = (batch'.started \/ a.ok)
              /\ batch'.waitSet
              /\ user' = "setWait" => ~batch'.setDone
           \/ SetAnswered' /\ batch'.setDone
        \/ ~Ideal
    <3> SUFFICES ASSUME user' \in SetWaits, Ideal
                 PROVE  \/ /\ \E a : Owed("set")' = {a} /\ batch'.fw = (batch'.started \/ a.ok)
                           /\ batch'.waitSet
                           /\ user' = "setWait" => ~batch'.setDone
                        \/ SetAnswered' /\ batch'.setDone
      OBVIOUS
    <3>1. CASE SetAnswered /\ batch.setDone
      BY <1>1, <2>4, <3>1
    <3>2. CASE /\ \E a : Owed("set") = {a} /\ batch.fw = (batch.started \/ a.ok)
               /\ batch.waitSet
               /\ user = "setWait" => ~batch.setDone
      BY <1>1, <2>3, <3>2
    <3> QED
      BY <2>3, <3>1, <3>2 DEF BatchAgrees
  <2>6. Ideal /\ user' = "setCheck" => SetAnswered'
    BY <2>3, <2>4 DEF BatchAgrees
  <2>7. Ideal /\ user' \notin SetWaits \union {"setCheck"} =>
          Owed("set")' = {} /\ batch'.started = batch'.fw
    BY <1>1, <2>3 DEF BatchAgrees
  <2>8. BatchAgrees'
    BY <2>2, <2>5, <2>6, <2>7 DEF BatchAgrees
  <2> QED
    BY <2>1, <2>8
<1>2. CASE BatchUserNext \/ BatchMcNext
  <2>1. BatchInv' /\ ShortInv'
    BY <1>2, BatchSteps, ShortKept DEF BatchTyped, ShortInv
  <2>2. batch'.fw \in BOOLEAN
    BY <1>2 DEF BatchUserNext, BatchMcNext, BatchSet, BatchSetTest, BatchSetReset, BatchSetWait,
       BatchSetCheck, BatchStop, BatchGetQueued, BatchGet, BatchGetTest, BatchGetReset, BatchGetWait,
     BatchGetCopy,
       BatchSetResponse, BatchIndication, BatchQueue, BatchQueued, BatchSignal,
       Reset, Deinit, Fetched, Popped, Asked, Queued, NotQueued,
       BatchTyped, BatchInv, BatchFields
  <2>3. ASSUME Ideal' PROVE BatchAgrees'
    <3>1. Ideal
      BY <1>2, <2>3, BatchApart
    <3>2. CASE BatchSet
      <4>1. user = "idle" /\ Owed("set") = {} /\ batch.started = batch.fw
        BY <3>1, <3>2 DEF BatchSet, EnterFails, Enter, CanEnter, BatchAgrees, SetWaits
      <4>2. PICK scans \in 0..1 :
              /\ batch' = [batch EXCEPT !.waitSet = TRUE, !.fw = @ \/ scans > 0]
              /\ answers' = answers \union {[kind |-> "set", ok |-> scans > 0, n |-> left.ops]}
              /\ user' = "setTest"
        BY <2>3, <3>2 DEF BatchSet, EnterFails
      <4> DEFINE a == [kind |-> "set", ok |-> scans > 0, n |-> left.ops]
      <4>3. Owed("set")' = {a} /\ a.ok = (scans > 0)
        BY <4>1, <4>2 DEF Owed
      <4>4. batch'.fw = (batch'.started \/ a.ok) /\ batch'.waitSet
        BY <4>1, <4>2, <4>3 DEF BatchTyped, BatchInv, BatchFields
      <4>5. \E b : Owed("set")' = {b} /\ batch'.fw = (batch'.started \/ b.ok)
        BY <4>3, <4>4
      <4> HIDE DEF a
      <4> QED
        BY <4>2, <4>4, <4>5 DEF BatchAgrees, SetWaits
    <3>3. CASE BatchSetResponse
      <4>1. PICK a \in Owed("set") :
              /\ answers' = answers \ {a} /\ user' = user
              /\ batch' = [batch EXCEPT !.scans = IF a.ok THEN 1 ELSE 0,
                                        !.waitSet = FALSE, !.setDone = TRUE]
        BY <3>3 DEF BatchSetResponse, Owed
      <4>2. user \in SetWaits /\ Owed("set") = {a} /\ batch.fw = (batch.started \/ a.ok)
        BY <3>1, <4>1 DEF BatchAgrees, SetAnswered
      <4>3. Owed("set")' = {}
        BY <4>1, <4>2 DEF Owed
      <4>4. /\ batch'.fw = batch.fw /\ batch'.started = batch.started /\ ~batch'.waitSet
            /\ batch'.setDone /\ (batch'.scans > 0) = (a.ok = TRUE)
        BY <4>1 DEF BatchTyped, BatchInv, BatchFields
      <4>5. SetAnswered'
        BY <4>2, <4>3, <4>4 DEF SetAnswered
      <4> QED
        BY <4>1, <4>2, <4>4, <4>5 DEF BatchAgrees, SetWaits
    <3>4. CASE BatchSetTest
      BY <3>1, <3>4 DEF BatchSetTest, BatchAgrees, SetWaits, SetAnswered, Owed
    <3>5. CASE BatchSetReset
      <4>1. /\ batch'.setDone = FALSE /\ batch'.fw = batch.fw /\ batch'.started = batch.started
            /\ batch'.waitSet = batch.waitSet /\ user' = "setWait" /\ UNCHANGED answers
            /\ ~(batch.setDone /\ ~batch.waitSet) /\ user = "setReset"
        BY <2>3, <3>5 DEF BatchSetReset, Reset, BatchTyped, BatchInv, BatchFields
      <4>2. PICK a : Owed("set") = {a} /\ batch.fw = (batch.started \/ a.ok) /\ batch.waitSet
        BY <3>1, <4>1 DEF BatchAgrees, SetWaits, SetAnswered
      <4>3. Owed("set")' = {a}
        BY <4>1, <4>2 DEF Owed
      <4> QED
        BY <4>1, <4>2, <4>3 DEF BatchAgrees, SetWaits
    <3>6. CASE BatchSetWait
      <4>1. user = "setWait" /\ UNCHANGED answers
        BY <3>6 DEF BatchSetWait
      <4>2. batch.setDone
        BY <2>3, <3>1, <3>6 DEF BatchSetWait, GiveUp, BatchAgrees, SetWaits, Owed
      <4>3. SetAnswered
        BY <3>1, <4>1, <4>2 DEF BatchAgrees, SetWaits
      <4>4. batch' = [batch EXCEPT !.setDone = FALSE] /\ user' = "setCheck"
        BY <3>6, <4>2 DEF BatchSetWait
      <4>5. SetAnswered'
        BY <4>1, <4>3, <4>4 DEF SetAnswered, Owed, BatchTyped, BatchInv, BatchFields
      <4> QED
        BY <4>4, <4>5 DEF BatchAgrees, SetWaits
    <3>7. CASE BatchSetCheck
      <4>1. SetAnswered
        BY <3>1, <3>7 DEF BatchSetCheck, BatchAgrees, SetWaits
      <4>2. batch'.fw = batch.fw /\ batch'.started = (batch.started \/ batch.scans > 0)
        BY <3>7 DEF BatchSetCheck, BatchTyped, BatchInv, BatchFields
      <4> QED
        BY <3>7, <4>1, <4>2 DEF BatchSetCheck, BatchAgrees, SetWaits, SetAnswered, Owed
    <3>8. CASE BatchStop
      <4>1. Enter /\ batch' = [Deinit(batch) EXCEPT !.fw = FALSE] /\ UNCHANGED <<user, answers>>
        BY <2>3, <3>8 DEF BatchStop, EnterFails
      <4>2. user = "idle" /\ Owed("set") = {}
        BY <3>1, <4>1 DEF Enter, CanEnter, BatchAgrees, SetWaits
      <4>3. batch'.fw = FALSE /\ batch'.started = FALSE
        BY <4>1 DEF Deinit, BatchTyped, BatchInv, BatchFields
      <4> QED
        BY <4>1, <4>2, <4>3 DEF BatchAgrees, SetWaits, Owed
    <3>9. CASE BatchGetQueued \/ BatchGet \/ BatchGetTest \/ BatchGetReset \/ BatchGetWait \/ BatchGetCopy
      <4>1. /\ user \notin SetWaits \union {"setCheck"} /\ user' \notin SetWaits \union {"setCheck"}
            /\ UNCHANGED answers
        BY <3>9 DEF BatchGetQueued, BatchGet, BatchGetTest, BatchGetReset, BatchGetWait, BatchGetCopy, Enter,
           EnterFails, CanEnter, SetWaits
      <4>2. batch'.fw = batch.fw /\ batch'.started = batch.started
        BY <3>9 DEF BatchGetQueued, BatchGet, BatchGetTest, BatchGetReset, BatchGetWait, BatchGetCopy,
           Fetched, Popped, Asked, Reset, BatchTyped, BatchInv, BatchFields
      <4> QED
        BY <3>1, <4>1, <4>2 DEF BatchAgrees, Owed
    <3>10. CASE BatchIndication \/ BatchQueue \/ BatchQueued \/ BatchSignal
      <4>1. UNCHANGED <<user, answers>>
        BY <3>10 DEF BatchIndication, BatchQueue, BatchQueued, BatchSignal
      <4>2. /\ batch'.fw = batch.fw /\ batch'.started = batch.started /\ batch'.scans = batch.scans
            /\ batch'.waitSet = batch.waitSet /\ batch'.setDone = batch.setDone
        BY <3>10 DEF BatchIndication, BatchQueue, BatchQueued, BatchSignal, Queued, NotQueued,
           BatchTyped, BatchInv, BatchFields
      <4> QED
        BY <3>1, <4>1, <4>2 DEF BatchAgrees, SetAnswered, Owed
    <3> QED
      BY <1>2, <3>2, <3>3, <3>4, <3>5, <3>6, <3>7, <3>8, <3>9, <3>10 DEF BatchUserNext, BatchMcNext
  <2> QED
    BY <2>1, <2>2, <2>3 DEF BatchTyped, BatchAgrees
<1>3. CASE Shutdown
  <2>0. Lossy' = Lossy
    BY <1>3, OtherTrouble
  <2>1. BatchInv' /\ ShortInv'
    <3>1. CASE batch.started
      <4>1. batch' = [Deinit(batch) EXCEPT !.fw = FALSE, !.triggered = FALSE]
        BY <1>3, <3>1 DEF Shutdown, BatchShutdown
      <4>2. batch'.short = batch.short
        BY <4>1 DEF Deinit, BatchTyped, BatchInv, BatchFields
      <4> QED
        BY <2>0, <3>1, <4>1, <4>2, BatchEnds DEF BatchTyped, ShortInv
    <3>2. CASE ~batch.started
      BY <1>3, <2>0, <3>2 DEF Shutdown, BatchShutdown, BatchTyped, BatchInv, BatchFields, ShortInv
    <3> QED
      BY <3>1, <3>2
  <2>2. batch'.fw = FALSE
    BY <1>3 DEF Shutdown, BatchShutdown, Deinit, BatchTyped, BatchInv, BatchFields
  <2>3. BatchTyped'
    BY <2>1, <2>2 DEF BatchTyped
  <2> QED
    BY <1>3, <2>3 DEF Shutdown, BatchAgrees
<1>4. CASE Restarted \/ UNCHANGED vars
  BY <1>1, <1>4 DEF Restarted, vars, threads, Owed
<1>5. CASE (ScanUserNext \/ ScanMcNext) /\ UNCHANGED batch
  BY <1>1, <1>5, ScanApart
<1>6. CASE (ExtUserNext \/ ExtMcNext) /\ UNCHANGED batch
  BY <1>1, <1>6, ExtApart DEF Owed
<1> QED
  BY <1>2, <1>3, <1>4, <1>5, <1>6 DEF Next

(* When everything is quiet, the driver, the firmware and cfg80211 agree   *)
(* on PNO, the batch and the statistics, however the requests, answers and *)
(* callbacks of the services interleave, if none of the failures happened  *)
(* that Agreement names (hdd_cfg80211_sched_scan_start_status_cb,          *)
(* WLS_BATCHING SET and STOP, the link-layer statistics commands).         *)
THEOREM Agrees == Spec => []Agreement
<1>1. Init => AgreeInv
  <2> SUFFICES ASSUME Init PROVE AgreeInv
    OBVIOUS
  <2>1. PnoFields /\ PnoAgrees /\ SleepAgrees
    BY DEF Init, ThreadsInit, ScanInit, PnoFields, PnoAgrees, PnoSettled, SleepAgrees, Owed
  <2>2. BatchTyped /\ BatchAgrees
    BY DEF Init, ThreadsInit, BatchInit, BatchTyped, BatchInv, BatchFields, BatchAgrees,
       ShortInv, SetWaits, SetAnswered, Owed
  <2>3. ExtFields /\ LlAgrees
    BY DEF Init, ExtInit, ExtFields, LlAgrees
  <2> QED
    BY <2>1, <2>2, <2>3 DEF AgreeInv
<1>2. AgreeInv /\ [Next]_vars => AgreeInv'
  BY PnoKept, SleepKept, BatchKept, LlKept DEF AgreeInv
<1>3. AgreeInv => Agreement
  BY DEF AgreeInv, Agreement, Quiet, PnoAgrees, PnoSettled, SleepAgrees, BatchAgrees, SetWaits, LlAgrees
<1> QED
  BY <1>1, <1>2, <1>3, PTL DEF Spec
-----------------------------------------------------------------------------
(* Extended scans.  What user space will know, as messages are added at    *)
(* the end and handed over at the front.                                   *)
Sayings == {"on", "off", "refused", "cached", "full", "available", "progress", "seen",
            "radio", "iface", "peer"}
Messages == [of : Features \union {"ll"}, says : Sayings]

LEMMA LaterMessage ==
    ASSUME NEW known, NEW messages \in Seq(Messages), NEW m \in Messages, NEW f,
           NEW n \in 0..Len(messages)
    PROVE  WillKnow(known, Append(messages, m), f, n) <=> WillKnow(known, messages, f, n)
<1>1. \A i \in 1..n : Append(messages, m)[i] = messages[i]
  OBVIOUS
<1> DEFINE more == Append(messages, m)
<1> HIDE DEF more
<1>2. \A i \in 1..n : more[i] = messages[i] /\ (i + 1)..n \subseteq 1..n
  BY <1>1 DEF more
<1>3. WillKnow(known, more, f, n) <=> WillKnow(known, messages, f, n)
  BY <1>2 DEF WillKnow
<1> QED
  BY <1>3 DEF more

LEMMA LastMessage ==
    ASSUME NEW known, NEW messages \in Seq(Messages), NEW m \in Messages, NEW f
    PROVE  LET all == Append(messages, m) IN
           WillKnow(known, all, f, Len(all)) <=>
             \/ m = Says(f, "on")
             \/ m # Says(f, "off") /\ WillKnow(known, messages, f, Len(messages))
<1> DEFINE all == Append(messages, m)
           n == Len(messages)
<1>1. Len(all) = n + 1 /\ n \in Nat /\ all[n + 1] = m /\ \A i \in 1..n : all[i] = messages[i]
  OBVIOUS
<1>2. Says(f, "on") # Says(f, "off")
  BY DEF Says
<1> HIDE DEF all, n
<1>3. CASE m = Says(f, "on")
  <2>1. n + 1 \in 1..(n + 1) /\ (n + 2)..(n + 1) = {}
    BY <1>1
  <2>2. n + 1 + 1 = n + 2
    BY <1>1
  <2>3. WillKnow(known, all, f, n + 1)
    BY <1>1, <1>3, <2>1, <2>2 DEF WillKnow
  <2> QED
    BY <1>1, <1>3, <2>3 DEF all, n
<1>4. CASE m = Says(f, "off")
  <2>1. ASSUME WillKnow(known, all, f, n + 1) PROVE FALSE
    <3>1. n + 1 \in 1..(n + 1) /\ all[n + 1] = Says(f, "off")
      BY <1>1, <1>4
    <3>2. PICK i \in 1..(n + 1) : /\ all[i] = Says(f, "on")
                                  /\ \A j \in (i + 1)..(n + 1) : all[j] # Says(f, "off")
      BY <2>1, <3>1 DEF WillKnow
    <3>3. i # n + 1
      BY <1>2, <3>1, <3>2
    <3>4. n + 1 \in (i + 1)..(n + 1)
      BY <1>1, <3>2, <3>3
    <3> QED
      BY <3>1, <3>2, <3>4
  <2> QED
    BY <1>1, <1>2, <1>4, <2>1 DEF all, n
<1>5. CASE m # Says(f, "on") /\ m # Says(f, "off")
  <2>1. \A i \in 1..n : all[i] = messages[i] /\ (i + 1)..n \subseteq 1..n
                       /\ (i + 1)..(n + 1) = ((i + 1)..n) \union {n + 1}
    BY <1>1
  <2>2. 1..(n + 1) = (1..n) \union {n + 1}
    BY <1>1
  <2>3. \A i \in 1..n : (\A j \in (i + 1)..(n + 1) : all[j] # Says(f, "off"))
                     <=> (\A j \in (i + 1)..n : messages[j] # Says(f, "off"))
    BY <1>1, <1>5, <2>1
  <2>4. (\A j \in 1..(n + 1) : all[j] # Says(f, "off"))
           <=> (\A j \in 1..n : messages[j] # Says(f, "off"))
    BY <1>1, <1>5, <2>2
  <2>5. WillKnow(known, all, f, n + 1) <=> WillKnow(known, messages, f, n)
    BY <1>1, <1>5, <2>2, <2>3, <2>4 DEF WillKnow
  <2> QED
    BY <1>1, <1>5, <2>5 DEF all, n
<1> QED
  BY <1>3, <1>4, <1>5

LEMMA FirstMessage ==
    ASSUME NEW known, NEW messages \in Seq(Messages), messages # <<>>, NEW f,
           NEW n \in 0..Len(Tail(messages))
    PROVE  WillKnow(Learns(known, Head(messages)), Tail(messages), f, n)
             <=> WillKnow(known, messages, f, n + 1)
<1> DEFINE m == Head(messages)
           rest == Tail(messages)
           learnt == Learns(known, m)
<1>1. /\ n \in Nat /\ messages[1] = m /\ m \in Messages
      /\ \A i \in 1..n : rest[i] = messages[i + 1]
  OBVIOUS
<1>2. /\ f \in learnt <=> m = Says(f, "on") \/ (f \in known /\ m # Says(f, "off"))
      /\ Says(f, "on") # Says(f, "off")
  <2>1. m = [of |-> m.of, says |-> m.says]
    BY <1>1 DEF Messages
  <2>2. m = Says(f, "on") <=> m.of = f /\ m.says = "on"
    BY <2>1 DEF Says
  <2>3. m = Says(f, "off") <=> m.of = f /\ m.says = "off"
    BY <2>1 DEF Says
  <2>4. Says(f, "on") # Says(f, "off")
    BY DEF Says
  <2>5. CASE m.says = "on"
    <3>1. learnt = known \union {m.of}
      BY <2>5 DEF Learns
    <3>2. m # Says(f, "off")
      BY <2>3, <2>5
    <3> QED
      BY <2>2, <2>4, <2>5, <3>1, <3>2
  <2>6. CASE m.says = "off"
    <3>1. learnt = known \ {m.of}
      BY <2>6 DEF Learns
    <3>2. m # Says(f, "on")
      BY <2>2, <2>6
    <3> QED
      BY <2>3, <2>4, <2>6, <3>1, <3>2
  <2>7. CASE m.says # "on" /\ m.says # "off"
    <3>1. learnt = known
      BY <2>7 DEF Learns
    <3> QED
      BY <2>2, <2>3, <2>4, <2>7, <3>1
  <2> QED
    BY <2>4, <2>5, <2>6, <2>7
<1> HIDE DEF m, rest, learnt
<1>3. ASSUME NEW i \in 0..n, NEW x
      PROVE  (\A j \in (i + 1)..n : rest[j] # x) <=> (\A j \in (i + 2)..(n + 1) : messages[j] # x)
  <2>1. \A j \in (i + 1)..n : j + 1 \in (i + 2)..(n + 1) /\ rest[j] = messages[j + 1]
    BY <1>1
  <2>2. \A j \in (i + 2)..(n + 1) : j - 1 \in (i + 1)..n /\ rest[j - 1] = messages[j]
    BY <1>1
  <2> QED
    BY <2>1, <2>2
<1>4. (\A j \in 1..(n + 1) : messages[j] # Says(f, "off"))
         <=> m # Says(f, "off") /\ (\A j \in 2..(n + 1) : messages[j] # Says(f, "off"))
  <2>1. 1..(n + 1) = {1} \union (2..(n + 1))
    BY <1>1
  <2> QED
    BY <1>1, <2>1
<1>5. (\A j \in 1..n : rest[j] # Says(f, "off"))
         <=> (\A j \in 2..(n + 1) : messages[j] # Says(f, "off"))
  <2>1. 0 \in 0..n /\ 0 + 1 = 1 /\ 0 + 2 = 2
    BY <1>1
  <2> QED
    BY <1>3, <2>1
<1> DEFINE After(i) == \A j \in (i + 1)..(n + 1) : messages[j] # Says(f, "off")
           Before(i) == \A j \in (i + 1)..n : rest[j] # Says(f, "off")
<1>6. \A i \in 1..n : /\ i + 1 \in 1..(n + 1) /\ rest[i] = messages[i + 1]
                      /\ (Before(i) <=> After(i + 1))
  <2> SUFFICES ASSUME NEW i \in 1..n
               PROVE  /\ i + 1 \in 1..(n + 1) /\ rest[i] = messages[i + 1]
                      /\ (Before(i) <=> After(i + 1))
    OBVIOUS
  <2>1. i \in 0..n /\ i + 1 + 1 = i + 2 /\ i + 1 \in 1..(n + 1) /\ rest[i] = messages[i + 1]
    BY <1>1
  <2> QED
    BY <1>3, <2>1
<1>7. After(1) <=> (\A j \in 2..(n + 1) : messages[j] # Says(f, "off"))
  <2>1. 1 + 1 = 2
    OBVIOUS
  <2> QED
    BY <2>1
<1>8. \A i \in 1..(n + 1) : i = 1 \/ (i - 1 \in 1..n /\ i - 1 + 1 = i)
  BY <1>1
<1> HIDE DEF After, Before
<1>9. (\E i \in 1..(n + 1) : messages[i] = Says(f, "on") /\ After(i))
        <=> \/ m = Says(f, "on") /\ After(1)
            \/ \E i \in 1..n : rest[i] = Says(f, "on") /\ Before(i)
  <2>1. 1 \in 1..(n + 1)
    BY <1>1
  <2>2. ASSUME NEW i \in 1..(n + 1), messages[i] = Says(f, "on"), After(i)
        PROVE  \/ m = Says(f, "on") /\ After(1)
               \/ \E k \in 1..n : rest[k] = Says(f, "on") /\ Before(k)
    <3>1. CASE i = 1
      BY <1>1, <2>2, <3>1
    <3>2. CASE i # 1
      <4>1. i - 1 \in 1..n /\ i - 1 + 1 = i
        BY <1>8, <3>2
      <4>2. rest[i - 1] = Says(f, "on") /\ Before(i - 1)
        BY <1>6, <2>2, <4>1
      <4> QED
        BY <4>1, <4>2
    <3> QED
      BY <3>1, <3>2
  <2>3. ASSUME NEW i \in 1..n, rest[i] = Says(f, "on"), Before(i)
        PROVE  \E k \in 1..(n + 1) : messages[k] = Says(f, "on") /\ After(k)
    <3>1. i \in 1..n /\ rest[i] = Says(f, "on") /\ Before(i)
      BY <2>3
    <3>2. i + 1 \in 1..(n + 1) /\ rest[i] = messages[i + 1]
      BY <1>6, <3>1
    <3>3. Before(i) <=> After(i + 1)
      BY <1>6, <3>1
    <3> QED
      BY <3>1, <3>2, <3>3
  <2> QED
    BY <1>1, <2>1, <2>2, <2>3
<1>10. WillKnow(known, messages, f, n + 1)
          <=> \/ \E i \in 1..(n + 1) : messages[i] = Says(f, "on") /\ After(i)
              \/ f \in known /\ \A j \in 1..(n + 1) : messages[j] # Says(f, "off")
  BY DEF WillKnow, After
<1>11. WillKnow(learnt, rest, f, n)
          <=> \/ \E i \in 1..n : rest[i] = Says(f, "on") /\ Before(i)
              \/ f \in learnt /\ \A j \in 1..n : rest[j] # Says(f, "off")
  BY DEF WillKnow, Before
<1>12. WillKnow(learnt, rest, f, n) <=> WillKnow(known, messages, f, n + 1)
  BY <1>2, <1>4, <1>5, <1>7, <1>9, <1>10, <1>11
<1> QED
  BY <1>12 DEF learnt, rest, m

ExtTyped == ExtFields /\ ext.messages \in Seq(Messages) /\ ext.fw \subseteq Features
KnowsInv == ExtTyped /\ UserSpaceKnows

(* A message under way: a decision that the firmware has taken, or a       *)
(* report about a feature that is on.                                      *)
LEMMA Sent ==
    ASSUME KnowsInv, mishap \subseteq mishap', NEW m \in Messages,
           ext'.messages = Append(ext.messages, m), ext'.known = ext.known,
           \A f \in Features :
             f \in ext'.fw <=> (m = Says(f, "on") \/ (m # Says(f, "off") /\ f \in ext.fw)),
           IsReport(m) => m.of \in ext.fw
    PROVE  UserSpaceKnows'
<1> SUFFICES ASSUME mishap' \intersect {"ssr", "event"} = {} PROVE UserSpaceKnows'
  BY DEF UserSpaceKnows
<1> DEFINE n == Len(ext.messages)
           known == ext.known
           old == ext.messages
           all == Append(old, m)
<1>1. /\ \A f \in Features : f \in ext.fw <=> WillKnow(known, old, f, n)
      /\ \A i \in DOMAIN old : IsReport(old[i]) => WillKnow(known, old, old[i].of, i)
  BY DEF KnowsInv, UserSpaceKnows
<1>2. old \in Seq(Messages) /\ ext.fw \subseteq Features
  BY DEF KnowsInv, ExtTyped
<1>3. Len(all) = n + 1 /\ n \in Nat /\ all[n + 1] = m /\ \A i \in 1..n : all[i] = old[i]
  BY <1>2
<1>4. \A f \in Features : f \in ext'.fw <=> WillKnow(known, all, f, Len(all))
  BY <1>1, <1>2, LastMessage
<1>5. ASSUME NEW i \in DOMAIN all, IsReport(all[i])
      PROVE  WillKnow(known, all, all[i].of, i)
  <2>1. CASE i \in 1..n
    <3>1. i \in DOMAIN old /\ i \in 0..n /\ all[i] = old[i]
      BY <1>2, <1>3, <2>1
    <3>2. WillKnow(known, old, old[i].of, i)
      BY <1>1, <1>5, <3>1
    <3> QED
      BY <1>2, <3>1, <3>2, LaterMessage
  <2>2. CASE i = n + 1
    <3>1. all[i] = m /\ i = Len(all)
      BY <1>3, <2>2
    <3>2. m.of \in ext.fw /\ m.of \in Features
      BY <1>2, <1>5, <3>1
    <3>3. m # Says(m.of, "off")
      BY <1>5, <3>1 DEF IsReport, Says
    <3>4. m.of \in ext'.fw
      BY <3>2, <3>3
    <3> QED
      BY <1>4, <3>1, <3>2, <3>4
  <2>3. i \in 1..(n + 1)
    BY <1>2, <1>3
  <2> QED
    BY <1>3, <2>1, <2>2, <2>3
<1>6. ext'.messages = all /\ ext'.known = known
  OBVIOUS
<1> HIDE DEF all, known
<1> QED
  BY <1>4, <1>5, <1>6 DEF UserSpaceKnows

(* A message handed over, with an event made of it or without.             *)
LEMMA HandedOver == KnowsInv /\ Event /\ ext.messages # <<>> => KnowsInv'
<1> SUFFICES ASSUME KnowsInv, Event, ext.messages # <<>> PROVE KnowsInv'
  OBVIOUS
<1> DEFINE old == ext.messages
           rest == Tail(ext.messages)
<1>1. old \in Seq(Messages) /\ ext.fw \subseteq Features /\ ExtFields
  BY DEF KnowsInv, ExtTyped
<1>2. ext'.messages = rest /\ ext'.fw = ext.fw /\ ExtFields'
  BY <1>1 DEF Event, ExtFields
<1>3. /\ rest \in Seq(Messages) /\ Len(old) = Len(rest) + 1 /\ Len(rest) \in Nat
      /\ \A i \in DOMAIN rest : rest[i] = old[i + 1] /\ i + 1 \in DOMAIN old /\ i \in 0..Len(rest)
  BY <1>1
<1>4. ExtTyped'
  BY <1>1, <1>2, <1>3 DEF ExtTyped
<1>5. ASSUME mishap' \intersect {"ssr", "event"} = {} PROVE UserSpaceKnows'
  <2>1. mishap' = mishap /\ ext'.known = Learns(ext.known, Head(old))
    BY <1>1, <1>5 DEF Event, Fails, ExtFields
  <2>2. /\ \A f \in Features : f \in ext.fw <=> WillKnow(ext.known, old, f, Len(old))
        /\ \A i \in DOMAIN old : IsReport(old[i]) => WillKnow(ext.known, old, old[i].of, i)
    BY <1>5, <2>1 DEF KnowsInv, UserSpaceKnows
  <2>3. \A f, n : n \in 0..Len(rest) =>
          (WillKnow(Learns(ext.known, Head(old)), rest, f, n) <=> WillKnow(ext.known, old, f, n + 1))
    BY <1>1, FirstMessage
  <2>4. \A f \in Features : f \in ext'.fw <=> WillKnow(ext'.known, rest, f, Len(rest))
    <3>1. Len(rest) \in 0..Len(rest)
      BY <1>3
    <3> QED
      BY <1>2, <1>3, <2>1, <2>2, <2>3, <3>1
  <2>5. \A i \in DOMAIN rest : IsReport(rest[i]) => WillKnow(ext'.known, rest, rest[i].of, i)
    BY <1>3, <2>1, <2>2, <2>3
  <2> HIDE DEF rest, old
  <2> QED
    BY <1>2, <2>4, <2>5 DEF UserSpaceKnows
<1> QED
  BY <1>4, <1>5 DEF KnowsInv, UserSpaceKnows

LEMMA Commanded ==
    ASSUME KnowsInv, NEW f \in Features, NEW on \in BOOLEAN, Command(f, on)
    PROVE  KnowsInv'
<1> DEFINE m == Says(f, IF on THEN "on" ELSE "off")
           refusal == Says(f, "refused")
<1>1. ext.messages \in Seq(Messages) /\ ext.fw \subseteq Features /\ ExtFields
  BY DEF KnowsInv, ExtTyped
<1>2. m \in Messages /\ refusal \in Messages
  <2>1. (IF on THEN "on" ELSE "off") \in Sayings /\ "refused" \in Sayings
    BY DEF Sayings
  <2> QED
    BY <2>1 DEF Messages, Says
<1>3. mishap' = mishap
  BY DEF Command, EnterVendor
<1>4. CASE ext' = [ext EXCEPT !.fw = IF on THEN @ \union {f} ELSE @ \ {f}, !.messages = Append(@, m)]
  <2>1. /\ ext'.fw = (IF on THEN ext.fw \union {f} ELSE ext.fw \ {f})
        /\ ext'.messages = Append(ext.messages, m) /\ ext'.known = ext.known /\ ExtFields'
    BY <1>1, <1>4 DEF ExtFields
  <2>2. \A g \in Features :
          g \in ext'.fw <=> (m = Says(g, "on") \/ (m # Says(g, "off") /\ g \in ext.fw))
    BY <2>1 DEF Says
  <2>3. ~IsReport(m)
    BY DEF IsReport, Says
  <2>4. UserSpaceKnows'
    BY <1>2, <1>3, <2>1, <2>2, <2>3, Sent
  <2>5. ExtTyped'
    BY <1>1, <1>2, <2>1 DEF ExtTyped
  <2> QED
    BY <2>4, <2>5 DEF KnowsInv
<1>5. CASE ext' = [ext EXCEPT !.messages = Append(@, refusal)]
  <2>1. /\ ext'.fw = ext.fw /\ ext'.messages = Append(ext.messages, refusal)
        /\ ext'.known = ext.known /\ ExtFields'
    BY <1>1, <1>5 DEF ExtFields
  <2>2. \A g \in Features : refusal # Says(g, "on") /\ refusal # Says(g, "off")
    BY DEF Says
  <2>3. ~IsReport(refusal)
    BY DEF IsReport, Says
  <2>4. UserSpaceKnows'
    BY <1>2, <1>3, <2>1, <2>2, <2>3, Sent
  <2>5. ExtTyped'
    BY <1>1, <1>2, <2>1 DEF ExtTyped
  <2> QED
    BY <2>4, <2>5 DEF KnowsInv
<1> QED
  BY <1>4, <1>5 DEF Command, Says

(* A report about a feature, or statistics.                                *)
LEMMA Told ==
    ASSUME KnowsInv, mishap' = mishap, NEW f \in ext.fw \union {"ll"}, NEW says \in Sayings,
           says \notin {"on", "off", "refused"},
           ext' = [ext EXCEPT !.messages = Append(@, [of |-> f, says |-> says])]
    PROVE  KnowsInv'
<1> DEFINE m == Says(f, says)
<1>1. ext.messages \in Seq(Messages) /\ ext.fw \subseteq Features /\ ExtFields
  BY DEF KnowsInv, ExtTyped
<1>2. m \in Messages
  BY <1>1 DEF Messages, Says
<1>3. /\ ext'.fw = ext.fw /\ ext'.messages = Append(ext.messages, m)
      /\ ext'.known = ext.known /\ ExtFields'
  BY <1>1 DEF ExtFields, Says
<1>4. \A g \in Features : m # Says(g, "on") /\ m # Says(g, "off")
  BY DEF Says
<1>5. IsReport(m) => m.of \in ext.fw
  BY DEF IsReport, Says
<1>6. UserSpaceKnows'
  BY <1>2, <1>3, <1>4, <1>5, Sent
<1>7. ExtTyped'
  BY <1>1, <1>2, <1>3 DEF ExtTyped
<1> QED
  BY <1>6, <1>7 DEF KnowsInv

LEMMA KnowsKept == KnowsInv /\ [Next]_vars => KnowsInv'
<1> SUFFICES ASSUME KnowsInv, [Next]_vars PROVE KnowsInv'
  OBVIOUS
<1>1. CASE UNCHANGED <<ext.fw, ext.messages, ext.known>> /\ ExtFields' /\ mishap \subseteq mishap'
  BY <1>1 DEF KnowsInv, ExtTyped, UserSpaceKnows
<1>2. CASE UNCHANGED ext /\ mishap \subseteq mishap'
  BY <1>1, <1>2 DEF KnowsInv, ExtTyped, ExtFields
<1>3. CASE ExtUserNext
  <2>1. CASE \/ ExtScanStart \/ ExtScanStop \/ SetBssidHotlist \/ ResetBssidHotlist
             \/ SetSignificantChange \/ ResetSignificantChange
    BY <2>1, Commanded DEF ExtScanStart, ExtScanStop, SetBssidHotlist, ResetBssidHotlist,
       SetSignificantChange, ResetSignificantChange, Features
  <2>2. CASE GetCachedResults
    <3>1. /\ "scan" \in ext.fw \union {"ll"} /\ mishap' = mishap
          /\ ext' = [ext EXCEPT !.messages = Append(@, [of |-> "scan", says |-> "cached"])]
      BY <2>2 DEF GetCachedResults, EnterVendor
    <3>2. "cached" \in Sayings /\ "cached" \notin {"on", "off", "refused"}
      BY DEF Sayings
    <3> QED
      BY <3>1, <3>2, Told
  <2>3. CASE LlStatsGet
    <3>1. PICK kind \in {"radio", "iface", "peer"} :
             ext' = IF ext.llFw THEN [ext EXCEPT !.messages = Append(@, [of |-> "ll", says |-> kind])]
                                ELSE ext
      BY <2>3 DEF LlStatsGet
    <3>2. mishap' = mishap
      BY <2>3 DEF LlStatsGet, EnterVendor
    <3>3. "ll" \in ext.fw \union {"ll"} /\ kind \in Sayings /\ kind \notin {"on", "off", "refused"}
      BY <3>1 DEF Sayings
    <3> QED
      BY <1>2, <3>1, <3>2, <3>3, Told
  <2>4. CASE LlStatsSet \/ LlStatsClear
    <3>1. UNCHANGED <<ext.fw, ext.messages, ext.known>> /\ ExtFields'
      BY <2>4 DEF LlStatsSet, LlStatsClear, Cleared, KnowsInv, ExtTyped, ExtFields
    <3> QED
      BY <1>1, <1>3, <3>1, ExtApart
  <2> QED
    BY <1>3, <2>1, <2>2, <2>3, <2>4 DEF ExtUserNext
<1>4. CASE ExtMcNext
  <2>1. CASE FirmwareReports
    <3>1. PICK f \in ext.fw : \E says \in Reports(f) :
            ext' = [ext EXCEPT !.messages = Append(@, [of |-> f, says |-> says])]
      BY <2>1 DEF FirmwareReports
    <3>2. PICK says \in Reports(f) :
            ext' = [ext EXCEPT !.messages = Append(@, [of |-> f, says |-> says])]
      BY <3>1
    <3>3. says \in Sayings /\ says \notin {"on", "off", "refused"}
      BY <3>2 DEF Reports, Sayings
    <3> QED
      BY <2>1, <3>2, <3>3, Told DEF FirmwareReports
  <2>2. CASE Event /\ ext.messages # <<>>
    BY <2>2, HandedOver
  <2> QED
    BY <1>4, <2>1, <2>2, Zenon DEF ExtMcNext, StartResponse, StopResponse, SetHotlistResponse,
       ResetHotlistResponse, SetSignificantResponse, ResetSignificantResponse, HotlistMatch,
       SignificantChange, CachedResults, FullScanResult, ResultsAvailable, ScanProgress,
       RadioStats, IfaceStats, PeerStats, LlStats, Handles
<1>5. CASE Shutdown
  <2>1. ext'.fw = {} /\ ext'.messages = <<>> /\ ExtFields' /\ "ssr" \in mishap'
    BY <1>5 DEF Shutdown, ExtShutdown, KnowsInv, ExtTyped, ExtFields
  <2>2. <<>> \in Seq(Messages)
    OBVIOUS
  <2> QED
    BY <2>1, <2>2 DEF KnowsInv, ExtTyped, UserSpaceKnows
<1>6. CASE Restarted \/ UNCHANGED vars
  BY <1>2, <1>6 DEF Restarted, vars, threads
<1> QED
  BY <1>2, <1>3, <1>4, <1>5, <1>6, BatchApart, ScanApart DEF Next

(* What user space knows of the extended scans is what the firmware does,  *)
(* once the messages under way are handed over, and every report is about  *)
(* a feature that it has been told is on by then                           *)
(* (wlan_hdd_cfg80211_extscan_callback and its handlers).                  *)
THEOREM Known == Spec => []UserSpaceKnows
<1>1. Init => KnowsInv
  <2> SUFFICES ASSUME Init PROVE KnowsInv
    OBVIOUS
  <2>1. ext.fw = {} /\ ext.messages = <<>> /\ ext.known = {} /\ ExtFields
    BY DEF Init, ExtInit, ExtFields
  <2>2. <<>> \in Seq(Messages) /\ Len(<<>>) = 0 /\ 1..0 = {} /\ DOMAIN <<>> = {}
    OBVIOUS
  <2> QED
    BY <2>1, <2>2 DEF KnowsInv, ExtTyped, UserSpaceKnows, WillKnow
<1>2. KnowsInv => UserSpaceKnows
  BY DEF KnowsInv
<1> QED
  BY <1>1, <1>2, KnowsKept, PTL DEF Spec

=============================================================================
