----------------------------- MODULE WlanThreads -----------------------------
(***************************************************************************)
(* The threads that the scanning services of the archived stock Wi-Fi      *)
(* driver share.  Requests of user space (nl80211 commands, vendor         *)
(* commands, private ioctls) run one at a time under rtnl; the answers and *)
(* indications of firmware and SME are delivered one at a time by the MC   *)
(* thread; a subsystem restart runs beside both.  A request or a callback  *)
(* is cut where it waits and where it leaves state for the other thread.   *)
(***************************************************************************)
EXTENDS Naturals, Sequences

CONSTANTS
    MaxOps,     \* requests of user space, a vendor command counting twice
    MaxFaults,  \* failing calls, waits that give up early, subsystem restarts
    MaxReports  \* indications that the firmware sends unasked

ASSUME ThreadsAssumption ==
    {MaxOps, MaxFaults, MaxReports} \subseteq Nat

VARIABLES
    user,       \* where the request under rtnl stands
    mc,         \* where the MC thread stands, and with what
    answers,    \* answers of the firmware that the MC thread has not seen
    logp,       \* isLogpInProgress
    asleep,     \* the system sleeps: no request runs
    mishap,     \* kinds of trouble so far
    left        \* the remaining bounds

threads == <<user, mc, answers, logp, asleep, mishap, left>>

ThreadsInit ==
    /\ user = "idle"
    /\ mc = [at |-> "idle", n |-> 0, last |-> FALSE]
    /\ answers = {}
    /\ logp = FALSE /\ asleep = FALSE
    /\ mishap = {}
    /\ left = [ops |-> MaxOps, faults |-> MaxFaults, reports |-> MaxReports]

(* A request enters the driver, and may run into one failing call.         *)
(* wlan_hdd_validate_context refuses it during a subsystem restart.        *)
CanEnter == user = "idle" /\ ~asleep /\ left.ops > 0
Enter == CanEnter /\ left' = [left EXCEPT !.ops = @ - 1] /\ UNCHANGED mishap
EnterVendor ==
    /\ CanEnter /\ left.ops > 1
    /\ left' = [left EXCEPT !.ops = @ - 2]
    /\ UNCHANGED mishap
EnterFails(kind) ==
    /\ CanEnter /\ left.faults > 0
    /\ left' = [left EXCEPT !.ops = @ - 1, !.faults = @ - 1]
    /\ mishap' = mishap \union {kind}
Fails(kind) ==
    /\ left.faults > 0
    /\ left' = [left EXCEPT !.faults = @ - 1]
    /\ mishap' = mishap \union {kind}
Valid == ~logp

(* A wait gives up: at once when no answer can come any more, else within  *)
(* the bound.                                                              *)
GiveUp(pending) ==
    IF pending THEN /\ left.faults > 0
                    /\ left' = [left EXCEPT !.faults = @ - 1]
                    /\ mishap' = mishap \union {"late"}
               ELSE UNCHANGED <<left, mishap>>

McIdle == mc.at = "idle"
McGo(s) == mc' = [mc EXCEPT !.at = s]
Reported == left.reports > 0 /\ left' = [left EXCEPT !.reports = @ - 1]

Quiet == user = "idle" /\ McIdle /\ answers = {} /\ ~logp /\ ~asleep
=============================================================================
