----------------------------- MODULE ResultQueue -----------------------------
(***************************************************************************)
(* What the batch scan promises its user: an access point that the         *)
(* firmware reports is handed over once at most, and in the order of the   *)
(* reports.  The end of the batch throws away what was not fetched; beyond *)
(* that a report is lost only where it cannot be stored, or where a fetch  *)
(* takes it out and fails to hand it over, and the queue is lossy then.    *)
(* A report belongs to no batch: one that comes after the end is kept.     *)
(***************************************************************************)
EXTENDS Naturals, Sequences

VARIABLES
    queue,      \* reports not handed over yet, numbered from 1
    reported,   \* the number of the last report
    fetched,    \* the number of the last report handed over
    running,    \* a batch is started
    lossy       \* something has been lost but for the end of a batch

vars == <<queue, reported, fetched, running, lossy>>

Init == queue = <<>> /\ reported = 0 /\ fetched = 0 /\ running = FALSE /\ lossy = FALSE

Report ==
    /\ reported' = reported + 1
    /\ queue' = Append(queue, reported')
    /\ UNCHANGED <<fetched, running, lossy>>

NotStored ==
    /\ reported' = reported + 1
    /\ lossy' = TRUE
    /\ UNCHANGED <<queue, fetched, running>>

Fetch ==
    /\ \E n \in 1..Len(queue) :
         /\ fetched' = queue[n]
         /\ queue' = SubSeq(queue, n + 1, Len(queue))
    /\ UNCHANGED <<reported, running, lossy>>

FetchFails ==
    /\ \E n \in 0..Len(queue) : queue' = SubSeq(queue, n + 1, Len(queue))
    /\ lossy' = TRUE
    /\ UNCHANGED <<reported, fetched, running>>

Begin == running' = TRUE /\ UNCHANGED <<queue, reported, fetched, lossy>>

End ==
    /\ running
    /\ running' = FALSE /\ queue' = <<>>
    /\ UNCHANGED <<reported, fetched, lossy>>

Next == Report \/ NotStored \/ Fetch \/ FetchFails \/ Begin \/ End

Spec == Init /\ [][Next]_vars

-----------------------------------------------------------------------------
(* What is queued has been reported and not handed over, in the order of   *)
(* the reports: no access point reaches the user twice, and the newer      *)
(* never before the older.  Until something is lost it is the last reports,*)
(* without a gap.                                                          *)
InOrder ==
    /\ \A i \in 1..Len(queue) : fetched < queue[i] /\ queue[i] <= reported
    /\ \A i, j \in 1..Len(queue) : i < j => queue[i] < queue[j]
    /\ ~lossy => \A i \in 1..Len(queue) : queue[i] = (reported - Len(queue)) + i
=============================================================================
