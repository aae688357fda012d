----------------------- MODULE BearerRecovery_proofs -----------------------
(***************************************************************************)
(* Proofs about the bearer watchdog.  First BearerWatchdog, for any        *)
(* thresholds: its types, that a healthy user plane is never torn down,    *)
(* and the spacing of the modem restarts of the ladder.  Then              *)
(* BearerRecovery: it implements BearerTurns, so that the bearer lock keeps *)
(* the other daemons from bringing the interface up while the watchdog     *)
(* deletes bearers or restarts the modem, on the boards where              *)
(* modem-led-monitor leaves the interface alone and while no user types    *)
(* ifup.                                                                   *)
(***************************************************************************)
EXTENDS BearerRecovery, TLAPS

\* The values the code sets: one attempt, and a probe that survives a lost packet.
Defaults == MAX_RECOVERY_ATTEMPTS = 1 /\ PROBE_ATTEMPTS >= 2

-----------------------------------------------------------------------------
(* The inductive invariant, in its parts.                                  *)

\* The ladder is only climbed by a script that has not halted, and a script that
\* has not halted has attempts left.
AttemptsInv ==
  /\ pc \in Ladder \ {"unlock"} => ~failed
  /\ ~failed => attempts < MAX_RECOVERY_ATTEMPTS

\* Nothing has gone wrong: the link answers, and the interface stays up while it
\* is probed.
HealthInv ==
  ~disturbed =>
     /\ link = "ok" /\ pc \notin Ladder
     /\ pc \in {"probeTx", "probeIdle", "keepalive", "gate"} => IfUp

\* LAST_RECOVERY is never older than the modem restart of that recovery; a restart
\* that brought nothing back has either halted the ladder or is long past.
SsrInv ==
  /\ pc \notin {"up3", "verify3", "unlock"} => sinceRecovery <= sinceSsr
  /\ pc \in Ladder \ {"up3", "verify3", "unlock"} => sinceSsr >= COOLDOWN_SECS
  /\ ssrFutile => failed \/ pc \in {"up3", "verify3"} \/ sinceSsr >= EXTENDED_COOLDOWN_SECS

Inv == TypeOK /\ AttemptsInv /\ HealthInv /\ SsrInv

-----------------------------------------------------------------------------
\* The constants are naturals.
LEMMA ConstantTypes ==
  /\ STALL_TIMEOUT \in Nat \ {0} /\ PROBE_ATTEMPTS \in Nat \ {0}
  /\ PROBE_FAIL_MIN \in Nat \ {0} /\ MAX_RECOVERY_ATTEMPTS \in Nat \ {0}
  /\ KEEPALIVE_INTERVAL \in Nat /\ COOLDOWN_SECS \in Nat /\ EXTENDED_COOLDOWN_SECS \in Nat
  /\ BEARER_DOWN_RECOVER_SECS \in Nat /\ BEARER_REARM_COOLDOWN \in Nat
  /\ ZOMBIE_NUDGE_SECS \in Nat /\ ZOMBIE_NUDGE_COOLDOWN \in Nat
  /\ COOLDOWN_SECS <= EXTENDED_COOLDOWN_SECS /\ MaxFaults \in Nat
  BY WatchdogAssumption DEF WatchdogAssumption

\* The sleep at the end of an iteration: ages stay in range, and the age of the last
\* recovery stays behind that of the last modem restart.
LEMMA SleepFacts ==
  ASSUME AgeTypeOK, NEW reset, Sleep(reset)
  PROVE  /\ AgeTypeOK' /\ pc' = "loop" /\ ssrFutile' = ssrFutile
         /\ sinceRecovery <= sinceSsr \/ reset = "recovery" => sinceRecovery' <= sinceSsr'
         /\ sinceSsr <= sinceSsr'
  BY ConstantTypes DEF Sleep, AgeTypeOK, Cap

\* A probe leaves Boolean flags.
LEMMA VerifyFacts ==
  ASSUME RadioTypeOK, NEW ok \in BOOLEAN, Verify(ok)
  PROVE  {dormant, newRx, newTx}' \subseteq BOOLEAN
  BY DEF Verify, RadioTypeOK

\* The invariant is inductive: one step per action, one below it per part.
LEMMA Step ==
  ASSUME Defaults, Inv, [Next]_vars
  PROVE  Inv'
<1> USE ConstantTypes DEF Inv, TypeOK
<1>1. CASE LoopIdle
  <2> USE <1>1 DEF LoopIdle, netifd, radio
  <2>1. NetifdTypeOK'
    BY DEF NetifdTypeOK
  <2>2. RadioTypeOK'
    BY DEF RadioTypeOK
  <2>3. AgeTypeOK'
    BY SleepFacts DEF AgeTypeOK
  <2>4. DogTypeOK'
    BY SleepFacts DEF DogTypeOK, Ladder
  <2>5. AttemptsInv'
    BY SleepFacts DEF AttemptsInv, Ladder, DogTypeOK
  <2>6. HealthInv'
    BY SleepFacts DEF HealthInv, IfUp, Ladder, RadioTypeOK
  <2>7. SsrInv'
    BY SleepFacts DEF SsrInv, Ladder, AgeTypeOK, AttemptsInv, Defaults
  <2> QED
    BY <2>1, <2>2, <2>3, <2>4, <2>5, <2>6, <2>7
<1>2. CASE LoopDown
  <2> USE <1>2 DEF LoopDown, netifd, radio, ages, Now, Goto
  <2>1. NetifdTypeOK'
    BY DEF NetifdTypeOK, IfUp
  <2>2. RadioTypeOK'
    BY DEF RadioTypeOK
  <2>3. AgeTypeOK'
    BY SleepFacts DEF AgeTypeOK
  <2>4. DogTypeOK'
    BY SleepFacts DEF DogTypeOK, Ladder, Cap
  <2>5. AttemptsInv'
    BY SleepFacts DEF AttemptsInv, Ladder, DogTypeOK
  <2>6. HealthInv'
    BY SleepFacts DEF HealthInv, IfUp, Ladder, RadioTypeOK
  <2>7. SsrInv'
    BY SleepFacts DEF SsrInv, Ladder, AgeTypeOK, AttemptsInv, Defaults
  <2> QED
    BY <2>1, <2>2, <2>3, <2>4, <2>5, <2>6, <2>7
<1>3. CASE ModemFound
  <2> USE <1>3 DEF ModemFound, netifd, radio, ages, Now, Goto
  <2>1. NetifdTypeOK'
    BY DEF NetifdTypeOK
  <2>2. RadioTypeOK'
    BY DEF RadioTypeOK
  <2>3. AgeTypeOK'
    BY DEF AgeTypeOK
  <2>4. DogTypeOK'
    BY DEF DogTypeOK, Ladder
  <2>5. AttemptsInv'
    BY DEF AttemptsInv, Ladder, DogTypeOK
  <2>6. HealthInv'
    BY DEF HealthInv, IfUp, Ladder, RadioTypeOK
  <2>7. SsrInv'
    BY DEF SsrInv, Ladder, AgeTypeOK, AttemptsInv, Defaults
  <2> QED
    BY <2>1, <2>2, <2>3, <2>4, <2>5, <2>6, <2>7
<1>4. CASE Redrive
  <2> USE <1>4 DEF Redrive, radio, counters, UpAndAvailable
  <2>1. NetifdTypeOK'
    BY DEF NetifdTypeOK
  <2>2. RadioTypeOK'
    BY DEF RadioTypeOK
  <2>3. AgeTypeOK'
    BY SleepFacts DEF AgeTypeOK
  <2>4. DogTypeOK'
    BY SleepFacts DEF DogTypeOK, Ladder
  <2>5. AttemptsInv'
    BY SleepFacts DEF AttemptsInv, Ladder, DogTypeOK
  <2>6. HealthInv'
    BY SleepFacts DEF HealthInv, IfUp, Ladder, RadioTypeOK
  <2>7. SsrInv'
    BY SleepFacts DEF SsrInv, Ladder, AgeTypeOK, AttemptsInv, Defaults
  <2> QED
    BY <2>1, <2>2, <2>3, <2>4, <2>5, <2>6, <2>7
<1>5. CASE NoModemYet
  <2> USE <1>5 DEF NoModemYet, netifd, radio
  <2>1. NetifdTypeOK'
    BY DEF NetifdTypeOK
  <2>2. RadioTypeOK'
    BY DEF RadioTypeOK
  <2>3. AgeTypeOK'
    BY SleepFacts DEF AgeTypeOK
  <2>4. DogTypeOK'
    BY SleepFacts DEF DogTypeOK, Ladder, Cap
  <2>5. AttemptsInv'
    BY SleepFacts DEF AttemptsInv, Ladder, DogTypeOK
  <2>6. HealthInv'
    BY SleepFacts DEF HealthInv, IfUp, Ladder, RadioTypeOK
  <2>7. SsrInv'
    BY SleepFacts DEF SsrInv, Ladder, AgeTypeOK, AttemptsInv, Defaults
  <2> QED
    BY <2>1, <2>2, <2>3, <2>4, <2>5, <2>6, <2>7
<1>6. CASE Nudge
  <2> USE <1>6 DEF Nudge, netifd
  <2>1. NetifdTypeOK'
    BY DEF NetifdTypeOK
  <2>2. RadioTypeOK'
    BY DEF RadioTypeOK, Cures
  <2>3. AgeTypeOK'
    BY SleepFacts DEF AgeTypeOK
  <2>4. DogTypeOK'
    BY SleepFacts DEF DogTypeOK, Ladder
  <2>5. AttemptsInv'
    BY SleepFacts DEF AttemptsInv, Ladder, DogTypeOK
  <2>6. HealthInv'
    BY SleepFacts DEF HealthInv, IfUp, Ladder, RadioTypeOK
  <2>7. SsrInv'
    BY SleepFacts DEF SsrInv, Ladder, AgeTypeOK, AttemptsInv, Defaults
  <2> QED
    BY <2>1, <2>2, <2>3, <2>4, <2>5, <2>6, <2>7
<1>7. CASE CountFirst
  <2> USE <1>7 DEF CountFirst, netifd, Counts
  <2>1. NetifdTypeOK'
    BY DEF NetifdTypeOK, IfUp
  <2>2. RadioTypeOK'
    BY DEF RadioTypeOK, Cures
  <2>3. AgeTypeOK'
    BY SleepFacts DEF AgeTypeOK
  <2>4a. fresh' \in BOOLEAN
    BY Zenon
  <2>4. DogTypeOK'
    BY SleepFacts, <2>4a DEF DogTypeOK, Ladder
  <2>5. AttemptsInv'
    BY SleepFacts DEF AttemptsInv, Ladder, DogTypeOK
  <2>6. HealthInv'
    BY SleepFacts DEF HealthInv, IfUp, Ladder, RadioTypeOK
  <2>7. SsrInv'
    BY SleepFacts DEF SsrInv, Ladder, AgeTypeOK, AttemptsInv, Defaults
  <2> QED
    BY <2>1, <2>2, <2>3, <2>4, <2>5, <2>6, <2>7
<1>8. CASE CountRx
  <2> USE <1>8 DEF CountRx, netifd, Counts
  <2>1. NetifdTypeOK'
    BY DEF NetifdTypeOK, IfUp
  <2>2. RadioTypeOK'
    BY DEF RadioTypeOK, Cures
  <2>3. AgeTypeOK'
    BY SleepFacts DEF AgeTypeOK
  <2>4. DogTypeOK'
    BY SleepFacts DEF DogTypeOK, Ladder
  <2>5. AttemptsInv'
    BY SleepFacts DEF AttemptsInv, Ladder, DogTypeOK
  <2>6. HealthInv'
    BY SleepFacts DEF HealthInv, IfUp, Ladder, RadioTypeOK
  <2>7. SsrInv'
    BY SleepFacts DEF SsrInv, Ladder, AgeTypeOK, AttemptsInv, Defaults
  <2> QED
    BY <2>1, <2>2, <2>3, <2>4, <2>5, <2>6, <2>7
<1>9. CASE CountTx
  <2> USE <1>9 DEF CountTx, netifd, ages, Now, Goto, Counts
  <2>1. NetifdTypeOK'
    BY DEF NetifdTypeOK, IfUp
  <2>2. RadioTypeOK'
    BY DEF RadioTypeOK, Cures
  <2>3. AgeTypeOK'
    BY SleepFacts DEF AgeTypeOK
  <2>4. DogTypeOK'
    BY SleepFacts DEF DogTypeOK, Ladder, Cap
  <2>5. AttemptsInv'
    BY SleepFacts DEF AttemptsInv, Ladder, DogTypeOK
  <2>6. HealthInv'
    BY SleepFacts DEF HealthInv, IfUp, Ladder, RadioTypeOK
  <2>7. SsrInv'
    BY SleepFacts DEF SsrInv, Ladder, AgeTypeOK, AttemptsInv, Defaults
  <2> QED
    BY <2>1, <2>2, <2>3, <2>4, <2>5, <2>6, <2>7
<1>10. CASE CountIdle
  <2> USE <1>10 DEF CountIdle, netifd, ages, Now, Goto, Counts
  <2>1. NetifdTypeOK'
    BY DEF NetifdTypeOK, IfUp
  <2>2. RadioTypeOK'
    BY DEF RadioTypeOK, Cures
  <2>3. AgeTypeOK'
    BY DEF AgeTypeOK
  <2>4. DogTypeOK'
    BY DEF DogTypeOK, Ladder, Cap
  <2>5. AttemptsInv'
    BY DEF AttemptsInv, Ladder, DogTypeOK
  <2>6. HealthInv'
    BY DEF HealthInv, IfUp, Ladder, RadioTypeOK
  <2>7. SsrInv'
    BY DEF SsrInv, Ladder, AgeTypeOK, AttemptsInv, Defaults
  <2> QED
    BY <2>1, <2>2, <2>3, <2>4, <2>5, <2>6, <2>7
<1>11. CASE ProbeOk
  <2> USE <1>11 DEF ProbeOk, netifd, SameRadio
  <2>1. NetifdTypeOK'
    BY DEF NetifdTypeOK, IfUp
  <2>2. RadioTypeOK'
    BY VerifyFacts DEF RadioTypeOK
  <2>3. AgeTypeOK'
    BY SleepFacts DEF AgeTypeOK
  <2>4. DogTypeOK'
    BY SleepFacts DEF DogTypeOK, Ladder
  <2>5. AttemptsInv'
    BY SleepFacts DEF AttemptsInv, Ladder, DogTypeOK
  <2>6. HealthInv'
    BY SleepFacts DEF HealthInv, IfUp, Ladder, RadioTypeOK, Verify, Answered, Defaults
  <2>7. SsrInv'
    BY SleepFacts DEF SsrInv, Ladder, AgeTypeOK, AttemptsInv, Defaults
  <2> QED
    BY <2>1, <2>2, <2>3, <2>4, <2>5, <2>6, <2>7
<1>12. CASE ProbeFails
  <2> USE <1>12 DEF ProbeFails, netifd, counters, ages, Now, Goto, SameRadio
  <2>1. NetifdTypeOK'
    BY DEF NetifdTypeOK, IfUp
  <2>2. RadioTypeOK'
    BY VerifyFacts DEF RadioTypeOK
  <2>3. AgeTypeOK'
    BY DEF AgeTypeOK
  <2>4. DogTypeOK'
    BY DEF DogTypeOK, Ladder
  <2>5. AttemptsInv'
    BY DEF AttemptsInv, Ladder, DogTypeOK
  <2>6. HealthInv'
    BY DEF HealthInv, IfUp, Ladder, RadioTypeOK, Verify, Answered, Defaults
  <2>7. SsrInv'
    BY DEF SsrInv, Ladder, AgeTypeOK, AttemptsInv, Defaults
  <2> QED
    BY <2>1, <2>2, <2>3, <2>4, <2>5, <2>6, <2>7
<1>13. CASE Keepalive
  <2> USE <1>13 DEF Keepalive, netifd, counters, SameRadio
  <2>1. NetifdTypeOK'
    BY DEF NetifdTypeOK, IfUp
  <2>2. RadioTypeOK'
    BY DEF RadioTypeOK
  <2>3. AgeTypeOK'
    BY SleepFacts DEF AgeTypeOK
  <2>4a. pc' \in {"gate", "loop"} /\ ssrFutile' = ssrFutile
    BY SleepFacts
  <2>4c. {fresh, failed, disturbed, ssrFutile}' \subseteq BOOLEAN
    BY <2>4a DEF DogTypeOK
  <2>4. DogTypeOK'
    BY <2>4a, <2>4c DEF DogTypeOK
  <2>5. AttemptsInv'
    BY SleepFacts DEF AttemptsInv, Ladder, DogTypeOK
  <2>6. HealthInv'
    BY SleepFacts DEF HealthInv, IfUp, Ladder, RadioTypeOK
  <2>7. SsrInv'
    BY SleepFacts DEF SsrInv, Ladder, AgeTypeOK, AttemptsInv, Defaults
  <2> QED
    BY <2>1, <2>2, <2>3, <2>4, <2>5, <2>6, <2>7
<1>14. CASE GateOk
  <2> USE <1>14 DEF GateOk, netifd, SameRadio
  <2>1. NetifdTypeOK'
    BY DEF NetifdTypeOK, IfUp
  <2>2. RadioTypeOK'
    BY VerifyFacts DEF RadioTypeOK
  <2>3. AgeTypeOK'
    BY SleepFacts DEF AgeTypeOK
  <2>4. DogTypeOK'
    BY SleepFacts DEF DogTypeOK, Ladder
  <2>5. AttemptsInv'
    BY SleepFacts DEF AttemptsInv, Ladder, DogTypeOK
  <2>6. HealthInv'
    BY SleepFacts DEF HealthInv, IfUp, Ladder, RadioTypeOK, Verify, Answered, Defaults
  <2>7. SsrInv'
    BY SleepFacts DEF SsrInv, Ladder, AgeTypeOK, AttemptsInv, Defaults
  <2> QED
    BY <2>1, <2>2, <2>3, <2>4, <2>5, <2>6, <2>7
<1>15. CASE GateWaits
  <2> USE <1>15 DEF GateWaits, netifd, SameRadio
  <2>1. NetifdTypeOK'
    BY DEF NetifdTypeOK, IfUp
  <2>2. RadioTypeOK'
    BY VerifyFacts DEF RadioTypeOK
  <2>3. AgeTypeOK'
    BY SleepFacts DEF AgeTypeOK
  <2>4. DogTypeOK'
    BY SleepFacts DEF DogTypeOK, Ladder, Cap
  <2>5. AttemptsInv'
    BY SleepFacts DEF AttemptsInv, Ladder, DogTypeOK
  <2>6. HealthInv'
    BY SleepFacts DEF HealthInv, IfUp, Ladder, RadioTypeOK, Verify, Answered, Defaults
  <2>7. SsrInv'
    BY SleepFacts DEF SsrInv, Ladder, AgeTypeOK, AttemptsInv, Defaults, Halted
  <2> QED
    BY <2>1, <2>2, <2>3, <2>4, <2>5, <2>6, <2>7
<1>16. CASE Escalate
  <2> USE <1>16 DEF Escalate, netifd, ages, Now, Goto, SameRadio
  <2>1. NetifdTypeOK'
    BY DEF NetifdTypeOK, IfUp
  <2>2. RadioTypeOK'
    BY VerifyFacts DEF RadioTypeOK
  <2>3. AgeTypeOK'
    BY DEF AgeTypeOK
  <2>4a. failed' \in BOOLEAN
    BY Zenon
  <2>4b. attempts' \in 0..MAX_RECOVERY_ATTEMPTS /\ probeFails' \in 0..PROBE_FAIL_MIN
    BY DEF DogTypeOK, Cap
  <2>4. DogTypeOK'
    BY <2>4a, <2>4b DEF DogTypeOK, Ladder
  <2>5. AttemptsInv'
    BY DEF AttemptsInv, Ladder, DogTypeOK
  <2>6. HealthInv'
    BY DEF HealthInv, IfUp, Ladder, RadioTypeOK, Verify, Answered, Defaults
  <2>7. SsrInv'
    BY DEF SsrInv, Ladder, AgeTypeOK, AttemptsInv, Defaults, Halted
  <2> QED
    BY <2>1, <2>2, <2>3, <2>4, <2>5, <2>6, <2>7
<1>17. CASE TakeLock
  <2> USE <1>17 DEF TakeLock, netifd, radio, counters, ages, Now, Goto
  <2>1. NetifdTypeOK'
    BY DEF NetifdTypeOK
  <2>2. RadioTypeOK'
    BY DEF RadioTypeOK
  <2>3. AgeTypeOK'
    BY DEF AgeTypeOK
  <2>4. DogTypeOK'
    BY DEF DogTypeOK, Ladder
  <2>5. AttemptsInv'
    BY DEF AttemptsInv, Ladder, DogTypeOK
  <2>6. HealthInv'
    BY DEF HealthInv, IfUp, Ladder, RadioTypeOK
  <2>7. SsrInv'
    BY DEF SsrInv, Ladder, AgeTypeOK, AttemptsInv, Defaults
  <2> QED
    BY <2>1, <2>2, <2>3, <2>4, <2>5, <2>6, <2>7
<1>18. CASE Stage1
  <2> USE <1>18 DEF Stage1, netifd, counters, ages, Now, Goto
  <2>1. NetifdTypeOK'
    BY DEF NetifdTypeOK
  <2>2. RadioTypeOK'
    BY DEF RadioTypeOK, Cures
  <2>3. AgeTypeOK'
    BY DEF AgeTypeOK
  <2>4. DogTypeOK'
    BY DEF DogTypeOK, Ladder
  <2>5. AttemptsInv'
    BY DEF AttemptsInv, Ladder, DogTypeOK
  <2>6. HealthInv'
    BY DEF HealthInv, IfUp, Ladder, RadioTypeOK
  <2>7. SsrInv'
    BY DEF SsrInv, Ladder, AgeTypeOK, AttemptsInv, Defaults
  <2> QED
    BY <2>1, <2>2, <2>3, <2>4, <2>5, <2>6, <2>7
<1>19. CASE StageOk
  <2> USE <1>19 DEF StageOk, netifd, ages, Now, SameRadio, Verifies
  <2>1. NetifdTypeOK'
    BY DEF NetifdTypeOK, IfUp
  <2>2. RadioTypeOK'
    BY VerifyFacts DEF RadioTypeOK
  <2>3. AgeTypeOK'
    BY DEF AgeTypeOK
  <2>4a. failed' \in BOOLEAN /\ ssrFutile' \in BOOLEAN
    BY Zenon
  <2>4b. stall' \in 0..STALL_TIMEOUT /\ attempts' \in 0..MAX_RECOVERY_ATTEMPTS
    OBVIOUS
  <2>4. DogTypeOK'
    BY <2>4a, <2>4b DEF DogTypeOK, Ladder
  <2>5. AttemptsInv'
    BY DEF AttemptsInv, Ladder, DogTypeOK
  <2>6. HealthInv'
    BY DEF HealthInv, IfUp, Ladder, RadioTypeOK, Verify, Answered, Defaults
  <2>7. SsrInv'
    BY DEF SsrInv, Ladder, AgeTypeOK, AttemptsInv, Defaults
  <2> QED
    BY <2>1, <2>2, <2>3, <2>4, <2>5, <2>6, <2>7
<1>20. CASE StageFails
  <2> USE <1>20 DEF StageFails, netifd, counters, ages, Now, Goto, SameRadio
  <2>1. NetifdTypeOK'
    BY DEF NetifdTypeOK, IfUp
  <2>2. RadioTypeOK'
    BY VerifyFacts DEF RadioTypeOK
  <2>3. AgeTypeOK'
    BY DEF AgeTypeOK
  <2>4. DogTypeOK'
    BY DEF DogTypeOK, Ladder
  <2>5. AttemptsInv'
    BY DEF AttemptsInv, Ladder, DogTypeOK
  <2>6. HealthInv'
    BY DEF HealthInv, IfUp, Ladder, RadioTypeOK, Verify, Answered, Defaults
  <2>7. SsrInv'
    BY DEF SsrInv, Ladder, AgeTypeOK, AttemptsInv, Defaults
  <2> QED
    BY <2>1, <2>2, <2>3, <2>4, <2>5, <2>6, <2>7
<1>21. CASE Stage2Down
  <2> USE <1>21 DEF Stage2Down, radio, counters, ages, Now, Goto, UbusDown
  <2>1. NetifdTypeOK'
    BY DEF NetifdTypeOK, TornDown
  <2>2. RadioTypeOK'
    BY DEF RadioTypeOK
  <2>3. AgeTypeOK'
    BY DEF AgeTypeOK
  <2>4. DogTypeOK'
    BY DEF DogTypeOK, Ladder
  <2>5. AttemptsInv'
    BY DEF AttemptsInv, Ladder, DogTypeOK
  <2>6. HealthInv'
    BY DEF HealthInv, IfUp, Ladder, RadioTypeOK
  <2>7. SsrInv'
    BY DEF SsrInv, Ladder, AgeTypeOK, AttemptsInv, Defaults
  <2> QED
    BY <2>1, <2>2, <2>3, <2>4, <2>5, <2>6, <2>7
<1>22. CASE DeleteBearers
  <2> USE <1>22 DEF DeleteBearers, netifd, counters, ages, Now, Goto
  <2>1. NetifdTypeOK'
    BY DEF NetifdTypeOK, IfUp
  <2>2. RadioTypeOK'
    BY DEF RadioTypeOK, Cures
  <2>3. AgeTypeOK'
    BY DEF AgeTypeOK
  <2>4. DogTypeOK'
    BY DEF DogTypeOK, Ladder
  <2>5. AttemptsInv'
    BY DEF AttemptsInv, Ladder, DogTypeOK
  <2>6. HealthInv'
    BY DEF HealthInv, IfUp, Ladder, RadioTypeOK
  <2>7. SsrInv'
    BY DEF SsrInv, Ladder, AgeTypeOK, AttemptsInv, Defaults
  <2> QED
    BY <2>1, <2>2, <2>3, <2>4, <2>5, <2>6, <2>7
<1>23. CASE Stage2Up
  <2> USE <1>23 DEF Stage2Up, radio, counters, ages, Now, Goto, UbusUp
  <2>1. NetifdTypeOK'
    BY DEF NetifdTypeOK
  <2>2. RadioTypeOK'
    BY DEF RadioTypeOK
  <2>3. AgeTypeOK'
    BY DEF AgeTypeOK
  <2>4. DogTypeOK'
    BY DEF DogTypeOK, Ladder
  <2>5. AttemptsInv'
    BY DEF AttemptsInv, Ladder, DogTypeOK
  <2>6. HealthInv'
    BY DEF HealthInv, IfUp, Ladder, RadioTypeOK
  <2>7. SsrInv'
    BY DEF SsrInv, Ladder, AgeTypeOK, AttemptsInv, Defaults
  <2> QED
    BY <2>1, <2>2, <2>3, <2>4, <2>5, <2>6, <2>7
<1>24. CASE Stage3Down
  <2> USE <1>24 DEF Stage3Down, radio, counters, ages, Now, Goto, UbusDown
  <2>1. NetifdTypeOK'
    BY DEF NetifdTypeOK, TornDown
  <2>2. RadioTypeOK'
    BY DEF RadioTypeOK
  <2>3. AgeTypeOK'
    BY DEF AgeTypeOK
  <2>4. DogTypeOK'
    BY DEF DogTypeOK, Ladder
  <2>5. AttemptsInv'
    BY DEF AttemptsInv, Ladder, DogTypeOK
  <2>6. HealthInv'
    BY DEF HealthInv, IfUp, Ladder, RadioTypeOK
  <2>7. SsrInv'
    BY DEF SsrInv, Ladder, AgeTypeOK, AttemptsInv, Defaults
  <2> QED
    BY <2>1, <2>2, <2>3, <2>4, <2>5, <2>6, <2>7
<1>25. CASE Stage3Restart
  <2> USE <1>25 DEF Stage3Restart, counters, ages, ModemGoes, ModemVanishes
  <2>1. NetifdTypeOK'
    BY DEF NetifdTypeOK, TornDown
  <2>2. RadioTypeOK'
    BY DEF RadioTypeOK, Cures
  <2>3. AgeTypeOK'
    BY DEF AgeTypeOK
  <2>4. DogTypeOK'
    BY DEF DogTypeOK, Ladder
  <2>5. AttemptsInv'
    BY DEF AttemptsInv, Ladder, DogTypeOK
  <2>6. HealthInv'
    BY DEF HealthInv, IfUp, Ladder, RadioTypeOK
  <2>7. SsrInv'
    BY DEF SsrInv, Ladder, AgeTypeOK, AttemptsInv, Defaults
  <2> QED
    BY <2>1, <2>2, <2>3, <2>4, <2>5, <2>6, <2>7
<1>26. CASE Stage3NoRestart
  <2> USE <1>26 DEF Stage3NoRestart, netifd, radio, counters, ages, Now, Goto
  <2>1. NetifdTypeOK'
    BY DEF NetifdTypeOK
  <2>2. RadioTypeOK'
    BY DEF RadioTypeOK
  <2>3. AgeTypeOK'
    BY DEF AgeTypeOK
  <2>4. DogTypeOK'
    BY DEF DogTypeOK, Ladder
  <2>5. AttemptsInv'
    BY DEF AttemptsInv, Ladder, DogTypeOK
  <2>6. HealthInv'
    BY DEF HealthInv, IfUp, Ladder, RadioTypeOK
  <2>7. SsrInv'
    BY DEF SsrInv, Ladder, AgeTypeOK, AttemptsInv, Defaults
  <2> QED
    BY <2>1, <2>2, <2>3, <2>4, <2>5, <2>6, <2>7
<1>27. CASE Stage3Up
  <2> USE <1>27 DEF Stage3Up, radio, counters, ages, Now, Goto, UbusUp
  <2>1. NetifdTypeOK'
    BY DEF NetifdTypeOK
  <2>2. RadioTypeOK'
    BY DEF RadioTypeOK
  <2>3. AgeTypeOK'
    BY DEF AgeTypeOK
  <2>4. DogTypeOK'
    BY DEF DogTypeOK, Ladder
  <2>5. AttemptsInv'
    BY DEF AttemptsInv, Ladder, DogTypeOK
  <2>6. HealthInv'
    BY DEF HealthInv, IfUp, Ladder, RadioTypeOK
  <2>7. SsrInv'
    BY DEF SsrInv, Ladder, AgeTypeOK, AttemptsInv, Defaults
  <2> QED
    BY <2>1, <2>2, <2>3, <2>4, <2>5, <2>6, <2>7
<1>28. CASE Stage3Fails
  <2> USE <1>28 DEF Stage3Fails, netifd, ages, Now, Goto, SameRadio
  <2>1. NetifdTypeOK'
    BY DEF NetifdTypeOK, IfUp
  <2>2. RadioTypeOK'
    BY VerifyFacts DEF RadioTypeOK
  <2>3. AgeTypeOK'
    BY DEF AgeTypeOK
  <2>4. DogTypeOK'
    BY DEF DogTypeOK, Ladder, AttemptsInv
  <2>4a. attempts + 1 >= MAX_RECOVERY_ATTEMPTS => failed'
    OBVIOUS
  <2>5. AttemptsInv'
    BY <2>4, <2>4a DEF AttemptsInv, Ladder, DogTypeOK
  <2>6. HealthInv'
    BY DEF HealthInv, IfUp, Ladder, RadioTypeOK, Verify, Answered, Defaults
  <2>7. SsrInv'
    BY <2>4a DEF SsrInv, Ladder, AgeTypeOK, DogTypeOK, Defaults
  <2> QED
    BY <2>1, <2>2, <2>3, <2>4, <2>5, <2>6, <2>7
<1>29. CASE Unlock
  <2> USE <1>29 DEF Unlock, netifd
  <2>1. NetifdTypeOK'
    BY DEF NetifdTypeOK
  <2>2. RadioTypeOK'
    BY DEF RadioTypeOK, Cures
  <2>3. AgeTypeOK'
    BY SleepFacts DEF AgeTypeOK
  <2>4. DogTypeOK'
    BY SleepFacts DEF DogTypeOK, Ladder
  <2>5. AttemptsInv'
    BY SleepFacts DEF AttemptsInv, Ladder, DogTypeOK
  <2>6. HealthInv'
    BY SleepFacts DEF HealthInv, IfUp, Ladder, RadioTypeOK
  <2>7. SsrInv'
    BY SleepFacts DEF SsrInv, Ladder, AgeTypeOK, AttemptsInv, Defaults
  <2> QED
    BY <2>1, <2>2, <2>3, <2>4, <2>5, <2>6, <2>7
<1>30. CASE Send
  <2> USE <1>30 DEF Send, netifd, counters, ages, dog, SameRadio, NotDog
  <2>1. NetifdTypeOK'
    BY DEF NetifdTypeOK, IfUp
  <2>2. RadioTypeOK'
    BY DEF RadioTypeOK
  <2>3. AgeTypeOK'
    BY DEF AgeTypeOK
  <2>4. DogTypeOK'
    BY DEF DogTypeOK, Ladder
  <2>5. AttemptsInv'
    BY DEF AttemptsInv, Ladder, DogTypeOK
  <2>6. HealthInv'
    BY DEF HealthInv, IfUp, Ladder, RadioTypeOK
  <2>7. SsrInv'
    BY DEF SsrInv, Ladder, AgeTypeOK, AttemptsInv, Defaults
  <2> QED
    BY <2>1, <2>2, <2>3, <2>4, <2>5, <2>6, <2>7
<1>31. CASE GoDormant
  <2> USE <1>31 DEF GoDormant, netifd, counters, ages, dog, SameRadio, NotDog
  <2>1. NetifdTypeOK'
    BY DEF NetifdTypeOK, IfUp
  <2>2. RadioTypeOK'
    BY DEF RadioTypeOK
  <2>3. AgeTypeOK'
    BY DEF AgeTypeOK
  <2>4. DogTypeOK'
    BY DEF DogTypeOK, Ladder
  <2>5. AttemptsInv'
    BY DEF AttemptsInv, Ladder, DogTypeOK
  <2>6. HealthInv'
    BY DEF HealthInv, IfUp, Ladder, RadioTypeOK
  <2>7. SsrInv'
    BY DEF SsrInv, Ladder, AgeTypeOK, AttemptsInv, Defaults
  <2> QED
    BY <2>1, <2>2, <2>3, <2>4, <2>5, <2>6, <2>7
<1>32. CASE LinkBreaks
  <2> USE <1>32 DEF LinkBreaks, netifd, counters, ages, dog, NotDog, Fault
  <2>1. NetifdTypeOK'
    BY DEF NetifdTypeOK, IfUp
  <2>2. RadioTypeOK'
    BY DEF RadioTypeOK, Cures
  <2>3. AgeTypeOK'
    BY DEF AgeTypeOK
  <2>4. DogTypeOK'
    BY DEF DogTypeOK, Ladder
  <2>5. AttemptsInv'
    BY DEF AttemptsInv, Ladder, DogTypeOK
  <2>6. HealthInv'
    BY DEF HealthInv, IfUp, Ladder, RadioTypeOK
  <2>7. SsrInv'
    BY DEF SsrInv, Ladder, AgeTypeOK, AttemptsInv, Defaults
  <2> QED
    BY <2>1, <2>2, <2>3, <2>4, <2>5, <2>6, <2>7
<1>33. CASE NetifdSetsUp
  <2> USE <1>33 DEF NetifdSetsUp, counters, ages, dog, NotDog, SetupSucceeds
  <2>1. NetifdTypeOK'
    BY DEF NetifdTypeOK
  <2>2. RadioTypeOK'
    BY DEF RadioTypeOK, Cures
  <2>3. AgeTypeOK'
    BY DEF AgeTypeOK
  <2>4. DogTypeOK'
    BY DEF DogTypeOK, Ladder
  <2>5. AttemptsInv'
    BY DEF AttemptsInv, Ladder, DogTypeOK
  <2>6. HealthInv'
    BY DEF HealthInv, IfUp, Ladder, RadioTypeOK
  <2>7. SsrInv'
    BY DEF SsrInv, Ladder, AgeTypeOK, AttemptsInv, Defaults
  <2> QED
    BY <2>1, <2>2, <2>3, <2>4, <2>5, <2>6, <2>7
<1>34. CASE NetifdTearsDown
  <2> USE <1>34 DEF NetifdTearsDown, counters, ages, dog, NotDog, NoFault, NetifdSame, TeardownEnds
  <2>1. NetifdTypeOK'
    BY DEF NetifdTypeOK
  <2>2. RadioTypeOK'
    BY DEF RadioTypeOK
  <2>3. AgeTypeOK'
    BY DEF AgeTypeOK
  <2>4. DogTypeOK'
    BY DEF DogTypeOK, Ladder
  <2>5. AttemptsInv'
    BY DEF AttemptsInv, Ladder, DogTypeOK
  <2>6. HealthInv'
    BY DEF HealthInv, IfUp, Ladder, RadioTypeOK
  <2>7. SsrInv'
    BY DEF SsrInv, Ladder, AgeTypeOK, AttemptsInv, Defaults
  <2> QED
    BY <2>1, <2>2, <2>3, <2>4, <2>5, <2>6, <2>7
<1>35. CASE NetifdNoDevice
  <2> USE <1>35 DEF NetifdNoDevice, counters, ages, dog, NotDog, NoFault, NetifdSame, DeviceNotManaged
  <2>1. NetifdTypeOK'
    BY DEF NetifdTypeOK
  <2>2. RadioTypeOK'
    BY DEF RadioTypeOK
  <2>3. AgeTypeOK'
    BY DEF AgeTypeOK
  <2>4. DogTypeOK'
    BY DEF DogTypeOK, Ladder
  <2>5. AttemptsInv'
    BY DEF AttemptsInv, Ladder, DogTypeOK
  <2>6. HealthInv'
    BY DEF HealthInv, IfUp, Ladder, RadioTypeOK
  <2>7. SsrInv'
    BY DEF SsrInv, Ladder, AgeTypeOK, AttemptsInv, Defaults
  <2> QED
    BY <2>1, <2>2, <2>3, <2>4, <2>5, <2>6, <2>7
<1>36. CASE NetifdSetupFails
  <2> USE <1>36 DEF NetifdSetupFails, counters, ages, dog, NotDog, Fault, NetifdSame, ConnectFails, SetupBlocks, DeviceNotManaged
  <2>1. NetifdTypeOK'
    BY DEF NetifdTypeOK
  <2>2. RadioTypeOK'
    BY DEF RadioTypeOK
  <2>3. AgeTypeOK'
    BY DEF AgeTypeOK
  <2>4. DogTypeOK'
    BY DEF DogTypeOK, Ladder
  <2>5. AttemptsInv'
    BY DEF AttemptsInv, Ladder, DogTypeOK
  <2>6. HealthInv'
    BY DEF HealthInv, IfUp, Ladder, RadioTypeOK
  <2>7. SsrInv'
    BY DEF SsrInv, Ladder, AgeTypeOK, AttemptsInv, Defaults
  <2> QED
    BY <2>1, <2>2, <2>3, <2>4, <2>5, <2>6, <2>7
<1>37. CASE MMProbes
  <2> USE <1>37 DEF MMProbes, radio, counters, ages, dog, NotDog, ModemAppears
  <2>1. NetifdTypeOK'
    BY DEF NetifdTypeOK
  <2>2. RadioTypeOK'
    BY DEF RadioTypeOK
  <2>3. AgeTypeOK'
    BY DEF AgeTypeOK
  <2>4. DogTypeOK'
    BY DEF DogTypeOK, Ladder
  <2>5. AttemptsInv'
    BY DEF AttemptsInv, Ladder, DogTypeOK
  <2>6. HealthInv'
    BY DEF HealthInv, IfUp, Ladder, RadioTypeOK
  <2>7. SsrInv'
    BY DEF SsrInv, Ladder, AgeTypeOK, AttemptsInv, Defaults
  <2> QED
    BY <2>1, <2>2, <2>3, <2>4, <2>5, <2>6, <2>7
<1>38. CASE MMFails
  <2> USE <1>38 DEF MMFails, counters, ages, dog, NotDog, Fault, ModemVanishes
  <2>1. NetifdTypeOK'
    BY DEF NetifdTypeOK, TornDown
  <2>2. RadioTypeOK'
    BY DEF RadioTypeOK, Cures
  <2>3. AgeTypeOK'
    BY DEF AgeTypeOK
  <2>4. DogTypeOK'
    BY DEF DogTypeOK, Ladder
  <2>5. AttemptsInv'
    BY DEF AttemptsInv, Ladder, DogTypeOK
  <2>6. HealthInv'
    BY DEF HealthInv, IfUp, Ladder, RadioTypeOK
  <2>7. SsrInv'
    BY DEF SsrInv, Ladder, AgeTypeOK, AttemptsInv, Defaults
  <2> QED
    BY <2>1, <2>2, <2>3, <2>4, <2>5, <2>6, <2>7
<1>39. CASE ModemFatal
  <2> USE <1>39 DEF ModemFatal, counters, ages, dog, NotDog, Fault, ModemGoes, ModemVanishes
  <2>1. NetifdTypeOK'
    BY DEF NetifdTypeOK, TornDown
  <2>2. RadioTypeOK'
    BY DEF RadioTypeOK, Cures
  <2>3. AgeTypeOK'
    BY DEF AgeTypeOK
  <2>4. DogTypeOK'
    BY DEF DogTypeOK, Ladder
  <2>5. AttemptsInv'
    BY DEF AttemptsInv, Ladder, DogTypeOK
  <2>6. HealthInv'
    BY DEF HealthInv, IfUp, Ladder, RadioTypeOK
  <2>7. SsrInv'
    BY DEF SsrInv, Ladder, AgeTypeOK, AttemptsInv, Defaults
  <2> QED
    BY <2>1, <2>2, <2>3, <2>4, <2>5, <2>6, <2>7
<1>40. CASE ModemReturns
  <2> USE <1>40 DEF ModemReturns, netifd, counters, ages, dog, NotDog
  <2>1. NetifdTypeOK'
    BY DEF NetifdTypeOK
  <2>2. RadioTypeOK'
    BY DEF RadioTypeOK, Cures
  <2>3. AgeTypeOK'
    BY DEF AgeTypeOK
  <2>4. DogTypeOK'
    BY DEF DogTypeOK, Ladder
  <2>5. AttemptsInv'
    BY DEF AttemptsInv, Ladder, DogTypeOK
  <2>6. HealthInv'
    BY DEF HealthInv, IfUp, Ladder, RadioTypeOK
  <2>7. SsrInv'
    BY DEF SsrInv, Ladder, AgeTypeOK, AttemptsInv, Defaults
  <2> QED
    BY <2>1, <2>2, <2>3, <2>4, <2>5, <2>6, <2>7
<1>41. CASE Disable
  <2> USE <1>41 DEF Disable, netifd, counters, ages, dog, NotDog, NoFault, Fault
  <2>1. NetifdTypeOK'
    BY DEF NetifdTypeOK
  <2>2. RadioTypeOK'
    BY DEF RadioTypeOK, Cures
  <2>3. AgeTypeOK'
    BY DEF AgeTypeOK
  <2>4. DogTypeOK'
    BY DEF DogTypeOK, Ladder
  <2>5. AttemptsInv'
    BY DEF AttemptsInv, Ladder, DogTypeOK
  <2>6. HealthInv'
    BY DEF HealthInv, IfUp, Ladder, RadioTypeOK
  <2>7. SsrInv'
    BY DEF SsrInv, Ladder, AgeTypeOK, AttemptsInv, Defaults
  <2> QED
    BY <2>1, <2>2, <2>3, <2>4, <2>5, <2>6, <2>7
<1>42. CASE Killed
  <2> USE <1>42 DEF Killed, netifd, Fault, Respawn
  <2>1. NetifdTypeOK'
    BY DEF NetifdTypeOK
  <2>2. RadioTypeOK'
    BY DEF RadioTypeOK, Cures
  <2>3. AgeTypeOK'
    BY DEF AgeTypeOK
  <2>4a. fresh' \in BOOLEAN /\ failed' \in BOOLEAN /\ ssrFutile' \in BOOLEAN
    BY Zenon
  <2>4b. lock' \in {"free", "watchdog", "autocfg", "hotplug"}
    BY DEF DogTypeOK
  <2>4c. /\ stall' \in 0..STALL_TIMEOUT /\ probeFails' \in 0..PROBE_FAIL_MIN
         /\ attempts' \in 0..MAX_RECOVERY_ATTEMPTS
         /\ downFor' \in 0..BEARER_DOWN_RECOVER_SECS /\ zombieFor' \in 0..ZOMBIE_NUDGE_SECS
    OBVIOUS
  <2>4. DogTypeOK'
    BY <2>4a, <2>4b, <2>4c DEF DogTypeOK
  <2>5. AttemptsInv'
    BY DEF AttemptsInv, Ladder, DogTypeOK
  <2>6. HealthInv'
    BY DEF HealthInv, IfUp, Ladder, RadioTypeOK
  <2>7. SsrInv'
    BY DEF SsrInv, Ladder, AgeTypeOK, AttemptsInv, Defaults
  <2> QED
    BY <2>1, <2>2, <2>3, <2>4, <2>5, <2>6, <2>7
<1>43. CASE UNCHANGED vars
  BY <1>43 DEF vars, netifd, radio, dog, counters, ages, hist, NetifdTypeOK, RadioTypeOK, AgeTypeOK,
     DogTypeOK, AttemptsInv, HealthInv, SsrInv, IfUp
<1> QED
  BY <1>1, <1>2, <1>3, <1>4, <1>5, <1>6, <1>7, <1>8, <1>9, <1>10, <1>11, <1>12, <1>13, <1>14, <1>15, <1>16, <1>17, <1>18, <1>19, <1>20, <1>21, <1>22, <1>23, <1>24, <1>25, <1>26, <1>27, <1>28, <1>29, <1>30, <1>31, <1>32, <1>33, <1>34, <1>35, <1>36, <1>37, <1>38, <1>39, <1>40, <1>41, <1>42, <1>43
  DEF Next, Watchdog, Environment

\* The initial states satisfy the invariant.
LEMMA Initial == Init => Inv
<1> SUFFICES ASSUME Init PROVE Inv
  OBVIOUS
<1> USE ConstantTypes DEF Init, NetifdInit
<1>1. NetifdTypeOK
  BY DEF NetifdTypeOK
<1>2. RadioTypeOK
  <2>1. {mmAlive, online, dormant, newRx, newTx, enabled} \subseteq BOOLEAN
    BY Zenon
  <2> QED
    BY <2>1 DEF RadioTypeOK
<1>3. AgeTypeOK
  BY DEF AgeTypeOK
<1>4. DogTypeOK
  <2>1. {fresh, failed, disturbed, ssrFutile} \subseteq BOOLEAN
    BY Zenon
  <2> QED
    BY <2>1 DEF DogTypeOK
<1>5. AttemptsInv /\ HealthInv /\ SsrInv
  BY DEF AttemptsInv, HealthInv, SsrInv, Ladder
<1> QED
  BY <1>1, <1>2, <1>3, <1>4, <1>5 DEF Inv, TypeOK

\* The invariant holds of every reachable state of a script with the code's values.
LEMMA Invariance == ASSUME Defaults PROVE Spec => []Inv
<1>1. Inv /\ [Next]_vars => Inv'
  BY Step
<1> QED
  BY Initial, <1>1, PTL DEF Spec

-----------------------------------------------------------------------------
\* Every variable of the watchdog and of the modem keeps its type; the attempts
\* never pass MAX_RECOVERY_ATTEMPTS.
THEOREM Typing == ASSUME Defaults PROVE Spec => []TypeOK
<1>1. Inv => TypeOK
  BY DEF Inv
<1> QED
  BY Invariance, <1>1, PTL

\* A user plane that never fails is never torn down, whatever the traffic, the
\* dormancy and the restarts of the script itself.
THEOREM HealthyLinkKept == ASSUME Defaults PROVE Spec => []NoLadderOnHealthyLink
<1>1. Inv => NoLadderOnHealthyLink
  BY DEF Inv, HealthInv, NoLadderOnHealthyLink
<1> QED
  BY Invariance, <1>1, PTL

\* Two modem restarts of one process are a cooldown apart, and an extended cooldown
\* if the first brought nothing back.
THEOREM Spacing == ASSUME Defaults PROVE Spec => SsrSpacing
<1>1. ASSUME Inv, Stage3Restart
      PROVE  sinceSsr >= IF ssrFutile THEN EXTENDED_COOLDOWN_SECS ELSE COOLDOWN_SECS
  <2>1. pc = "restart" /\ ~failed /\ sinceSsr >= COOLDOWN_SECS
    BY <1>1 DEF Stage3Restart, Inv, AttemptsInv, SsrInv, Ladder
  <2>2. ssrFutile => sinceSsr >= EXTENDED_COOLDOWN_SECS
    BY <1>1, <2>1 DEF Inv, SsrInv
  <2> QED
    BY <2>1, <2>2
<1>2. Inv /\ [Next]_vars =>
        [Stage3Restart =>
           sinceSsr >= IF ssrFutile THEN EXTENDED_COOLDOWN_SECS ELSE COOLDOWN_SECS]_vars
  BY <1>1
<1> QED
  BY Invariance, <1>2, PTL DEF Spec, SsrSpacing
-----------------------------------------------------------------------------
(* BearerRecovery: the lock.                                               *)

\* The daemons that do not take the bearer lock are not there.
AllLock == ~LedRecovers /\ "user" \notin FaultKinds

\* Each holder of the lock is where it holds it, and nobody else is.
LockInv ==
  /\ lock \in {"free", "watchdog", "autocfg", "hotplug"}
  /\ pc \in Ladder \ {"flock"} <=> lock = "watchdog"
  /\ cfg = "ifup" <=> lock = "autocfg"
  /\ hotplug = "ifup" <=> lock = "hotplug"

\* Neither modem-led-monitor nor the user has the interface.
QuietInv == led = "idle" /\ ~userDown

TurnInv == LockInv /\ (AllLock => QuietInv)

\* What a step does to the lock, to the interface the watchdog holds down and to
\* autostart, in the order of BearerTurns' actions: at most given up, a turn taken
\* (or nothing), the watchdog's left, another's left, held down, brought up, raised.
TurnStep ==
  \/ lock' = lock /\ (Held' <=> Held) /\ (auto' = auto \/ auto' = FALSE)
  \/ lock = "free" /\ (Held' <=> Held) /\ auto' = auto
  \/ lock = "watchdog" /\ lock' = "free" /\ ~Held' /\ auto' = auto
  \/ lock \in {"autocfg", "hotplug"} /\ lock' = "free" /\ (Held' <=> Held)
       /\ (auto' = auto \/ auto' = TRUE)
  \/ lock = "watchdog" /\ lock' = lock /\ Held' /\ auto' = FALSE
  \/ Held /\ lock' = lock /\ ~Held' /\ auto' = TRUE
  \/ (lock # "watchdog" \/ ~AllLock) /\ lock' = lock /\ (Held' <=> Held) /\ auto' = TRUE

-----------------------------------------------------------------------------
\* The watchdog before the ladder: it neither has the lock nor holds the interface.
LEMMA BeforeLadder ==
  ASSUME TurnInv,
         LoopIdle \/ LoopDown \/ ModemFound \/ Redrive \/ NoModemYet \/ Nudge
            \/ CountFirst \/ CountRx \/ CountTx \/ CountIdle \/ ProbeOk \/
            ProbeFails \/ Keepalive \/ GateOk \/ GateWaits \/ Escalate,
         UNCHANGED others
  PROVE  TurnInv' /\ TurnStep
<1> USE DEF TurnInv, LockInv, QuietInv, TurnStep, Held, Ladder, others
<1>1. CASE LoopIdle
  BY <1>1 DEF LoopIdle, Sleep, netifd
<1>2. CASE LoopDown
  BY <1>2 DEF LoopDown, ages, Now, Goto, Sleep, netifd
<1>3. CASE ModemFound
  BY <1>3 DEF ModemFound, ages, Now, Goto, netifd
<1>4. CASE Redrive
  BY <1>4 DEF Redrive, counters, Sleep, UpAndAvailable
<1>5. CASE NoModemYet
  BY <1>5 DEF NoModemYet, Sleep, netifd
<1>6. CASE Nudge
  BY <1>6 DEF Nudge, Sleep, netifd
<1>7. CASE CountFirst
  BY <1>7 DEF CountFirst, Sleep, Counts, netifd
<1>8. CASE CountRx
  BY <1>8 DEF CountRx, Sleep, Counts, netifd
<1>9. CASE CountTx
  BY <1>9 DEF CountTx, ages, Now, Goto, Sleep, Counts, netifd
<1>10. CASE CountIdle
  BY <1>10 DEF CountIdle, ages, Now, Goto, Counts, netifd
<1>11. CASE ProbeOk
  BY <1>11 DEF ProbeOk, Sleep, SameRadio, netifd
<1>12. CASE ProbeFails
  BY <1>12 DEF ProbeFails, counters, ages, Now, Goto, SameRadio, netifd
<1>13. CASE Keepalive
  BY <1>13 DEF Keepalive, counters, Sleep, SameRadio, netifd
<1>14. CASE GateOk
  BY <1>14 DEF GateOk, Sleep, SameRadio, netifd
<1>15. CASE GateWaits
  BY <1>15 DEF GateWaits, Sleep, SameRadio, netifd
<1>16. CASE Escalate
  BY <1>16 DEF Escalate, ages, Now, Goto, SameRadio, netifd
<1> HIDE DEF TurnInv, TurnStep
<1> QED
  BY <1>1, <1>2, <1>3, <1>4, <1>5, <1>6, <1>7, <1>8, <1>9, <1>10, <1>11, <1>12, <1>13,
      <1>14, <1>15, <1>16

\* The watchdog on the ladder, from the flock to its release.
LEMMA OnLadder ==
  ASSUME TurnInv,
         TakeLock \/ Stage1 \/ StageOk \/ StageFails \/ Stage2Down \/
            DeleteBearers \/ Stage2Up \/ Stage3Down \/ Stage3Restart \/
            Stage3NoRestart \/ Stage3Up \/ Stage3Fails \/ Unlock,
         UNCHANGED others
  PROVE  TurnInv' /\ TurnStep
<1> USE DEF TurnInv, LockInv, QuietInv, TurnStep, Held, Ladder, others
<1>1. CASE TakeLock
  BY <1>1 DEF TakeLock, counters, ages, Now, Goto, netifd
<1>2. CASE Stage1
  BY <1>2 DEF Stage1, counters, ages, Now, Goto, netifd
<1>3. CASE StageOk
  BY <1>3 DEF StageOk, ages, Now, SameRadio, Verifies, netifd
<1>4. CASE StageFails
  BY <1>4 DEF StageFails, counters, ages, Now, Goto, SameRadio, netifd
<1>5. CASE Stage2Down
  BY <1>5 DEF Stage2Down, counters, ages, Now, Goto, UbusDown
<1>6. CASE DeleteBearers
  BY <1>6 DEF DeleteBearers, counters, ages, Now, Goto, netifd
<1>7. CASE Stage2Up
  BY <1>7 DEF Stage2Up, counters, ages, Now, Goto, UbusUp
<1>8. CASE Stage3Down
  BY <1>8 DEF Stage3Down, counters, ages, Now, Goto, UbusDown
<1>9. CASE Stage3Restart
  BY <1>9 DEF Stage3Restart, counters, ages, ModemGoes, ModemVanishes
<1>10. CASE Stage3NoRestart
  BY <1>10 DEF Stage3NoRestart, counters, ages, Now, Goto, netifd
<1>11. CASE Stage3Up
  BY <1>11 DEF Stage3Up, counters, ages, Now, Goto, UbusUp
<1>12. CASE Stage3Fails
  BY <1>12 DEF Stage3Fails, ages, Now, Goto, SameRadio, netifd
<1>13. CASE Unlock
  BY <1>13 DEF Unlock, Sleep, netifd
<1> HIDE DEF TurnInv, TurnStep
<1> QED
  BY <1>1, <1>2, <1>3, <1>4, <1>5, <1>6, <1>7, <1>8, <1>9, <1>10, <1>11, <1>12, <1>13

\* The modem, netifd, the switch and a kill: none of them sets autostart.
LEMMA Around ==
  ASSUME TurnInv,
         Send \/ GoDormant \/ LinkBreaks \/ NetifdSetsUp \/ NetifdTearsDown \/
            NetifdNoDevice \/ NetifdSetupFails \/ MMProbes \/ MMFails \/
            ModemFatal \/ ModemReturns \/ Disable \/ Killed,
         UNCHANGED others
  PROVE  TurnInv' /\ TurnStep
<1> USE DEF TurnInv, LockInv, QuietInv, TurnStep, Held, Ladder, others
<1>1. CASE Send
  BY <1>1 DEF Send, counters, ages, dog, SameRadio, NotDog, netifd
<1>2. CASE GoDormant
  BY <1>2 DEF GoDormant, counters, ages, dog, SameRadio, NotDog, netifd
<1>3. CASE LinkBreaks
  BY <1>3 DEF LinkBreaks, counters, ages, dog, NotDog, Fault, netifd
<1>4. CASE NetifdSetsUp
  BY <1>4 DEF NetifdSetsUp, counters, ages, dog, NotDog, SetupSucceeds
<1>5. CASE NetifdTearsDown
  BY <1>5 DEF NetifdTearsDown, counters, ages, dog, NotDog, NoFault, NetifdSame,
      TeardownEnds
<1>6. CASE NetifdNoDevice
  BY <1>6 DEF NetifdNoDevice, counters, ages, dog, NotDog, NoFault, NetifdSame,
      DeviceNotManaged
<1>7. CASE NetifdSetupFails
  BY <1>7 DEF NetifdSetupFails, counters, ages, dog, NotDog, Fault, NetifdSame,
      ConnectFails, SetupBlocks, DeviceNotManaged
<1>8. CASE MMProbes
  BY <1>8 DEF MMProbes, counters, ages, dog, NotDog, ModemAppears
<1>9. CASE MMFails
  BY <1>9 DEF MMFails, counters, ages, dog, NotDog, Fault, ModemVanishes
<1>10. CASE ModemFatal
  BY <1>10 DEF ModemFatal, counters, ages, dog, NotDog, Fault, ModemGoes, ModemVanishes
<1>11. CASE ModemReturns
  BY <1>11 DEF ModemReturns, counters, ages, dog, NotDog, netifd
<1>12. CASE Disable
  BY <1>12 DEF Disable, counters, ages, dog, NotDog, NoFault, Fault, netifd
<1>13. CASE Killed
  BY <1>13 DEF Killed, Fault, Respawn, netifd
<1> HIDE DEF TurnInv, TurnStep
<1> QED
  BY <1>1, <1>2, <1>3, <1>4, <1>5, <1>6, <1>7, <1>8, <1>9, <1>10, <1>11, <1>12, <1>13

\* autocfg and sim-hotplug: they set autostart only with the lock in their hands.
LEMMA OtherDaemons ==
  ASSUME TurnInv,
         CfgMatches \/ CfgFlush \/ CfgDelete \/ CfgNetwork \/ CfgLock \/
            CfgIfup \/ CfgKilled \/ CardSwapped \/ HotplugLock \/
            HotplugGivesUp \/ HotplugIfup
  PROVE  TurnInv' /\ TurnStep
<1> USE DEF TurnInv, LockInv, QuietInv, TurnStep, Held, Ladder, others
<1>1. CASE CfgMatches
  BY <1>1 DEF CfgMatches, counters, ages, hist, SameDog, netifd
<1>2. CASE CfgFlush
  <2>1. /\ cfg = "poll" /\ cfg' = "delete" /\ auto' = FALSE
        /\ UNCHANGED <<pc, lock, hotplug, led, userDown>>
    BY <1>2 DEF CfgFlush, UbusDown, SameDog
  <2> QED
    BY <2>1
<1>3. CASE CfgDelete
  BY <1>3 DEF CfgDelete, counters, ages, hist, SameDog, SameModem, netifd
<1>4. CASE CfgNetwork
  <2>1. /\ cfg = "network" /\ cfg' = "flock"
        /\ UNCHANGED <<pc, auto, lock, hotplug, led, userDown>>
    BY <1>4 DEF CfgNetwork, SameDog, Reload, netifd
  <2> QED
    BY <2>1
<1>5. CASE CfgLock
  BY <1>5 DEF CfgLock, counters, ages, hist, SameDog, netifd
<1>6. CASE CfgIfup
  BY <1>6 DEF CfgIfup, counters, ages, hist, Ifup, SameDog
<1>7. CASE CfgKilled
  BY <1>7 DEF CfgKilled, counters, ages, hist, Fault, SameDog, SameModem, netifd
<1>8. CASE CardSwapped
  BY <1>8 DEF CardSwapped, counters, ages, hist, Fault, SameDog, SameModem, netifd
<1>9. CASE HotplugLock
  BY <1>9 DEF HotplugLock, counters, ages, hist, SameDog, netifd
<1>10. CASE HotplugGivesUp
  BY <1>10 DEF HotplugGivesUp, counters, ages, hist, SameDog, netifd
<1>11. CASE HotplugIfup
  BY <1>11 DEF HotplugIfup, counters, ages, hist, Ifup, SameDog
<1> HIDE DEF TurnInv, TurnStep
<1> QED
  BY <1>1, <1>2, <1>3, <1>4, <1>5, <1>6, <1>7, <1>8, <1>9, <1>10, <1>11

\* modem-led-monitor and the user: they are there only if not all take the lock.
LEMMA Unlocked ==
  ASSUME TurnInv, LedDown \/ LedUp \/ LedKilled \/ UserIfdown \/ UserIfup
  PROVE  TurnInv' /\ TurnStep
<1> USE DEF TurnInv, LockInv, QuietInv, TurnStep, Held, AllLock
<1>1. UNCHANGED <<pc, lock, cfg, hotplug>>
  BY DEF LedDown, LedUp, LedKilled, UserIfdown, UserIfup, SameDog
<1>2. CASE LedDown
  <2>1. LedRecovers /\ auto' = FALSE
    BY <1>2 DEF LedDown, UbusDown
  <2> QED
    BY <1>1, <2>1
<1>3. CASE LedUp
  <2>1. led = "settle" /\ auto' = TRUE /\ led' = "idle" /\ userDown' = userDown
    BY <1>3 DEF LedUp, Ifup
  <2> QED
    BY <1>1, <2>1
<1>4. CASE LedKilled
  <2>1. led = "settle" /\ auto' = auto /\ led' = "idle" /\ userDown' = userDown
    BY <1>4 DEF LedKilled, netifd
  <2> QED
    BY <1>1, <2>1
<1>5. CASE UserIfdown
  <2>1. "user" \in FaultKinds /\ auto' = FALSE
    BY <1>5 DEF UserIfdown, UbusDown, Fault
  <2> QED
    BY <1>1, <2>1
<1>6. CASE UserIfup
  <2>1. userDown /\ auto' = TRUE /\ userDown' = FALSE /\ led' = led
    BY <1>6 DEF UserIfup, Ifup
  <2> QED
    BY <1>1, <2>1
<1> QED
  BY <1>2, <1>3, <1>4, <1>5, <1>6

\* The invariant of the turns, and what each step does to them.
LEMMA TurnsKept ==
  ASSUME TurnInv, [RNext]_allVars
  PROVE  TurnInv' /\ TurnStep
<1>1. CASE Watchdog /\ UNCHANGED others
  BY <1>1, BeforeLadder, OnLadder DEF Watchdog
<1>2. CASE Environment /\ UNCHANGED others
  BY <1>2, Around DEF Environment
<1>3. CASE Autocfg \/ CfgKilled \/ CardSwapped \/ Hotplug
  BY <1>3, OtherDaemons DEF Autocfg, Hotplug
<1>4. CASE LedDown \/ LedUp \/ LedKilled \/ UserIfdown \/ UserIfup
  BY <1>4, Unlocked
<1>5. CASE UNCHANGED allVars
  BY <1>5
  DEF TurnInv, LockInv, QuietInv, TurnStep, Held, allVars, vars, netifd, dog, others
<1> QED
  BY <1>1, <1>2, <1>3, <1>4, <1>5 DEF RNext, Next

-----------------------------------------------------------------------------
(* The refinement of BearerTurns.                                          *)

\* Whoever has the lock, and nobody else, has the turn.
LEMMA HolderHasLock ==
  ASSUME LockInv
  PROVE  Holders = IF lock = "free" THEN {} ELSE {lock}
  BY DEF LockInv, Holders

\* A step of the daemons is a step of the turns, or leaves them alone.
LEMMA StepRefines ==
  ASSUME TurnInv, TurnInv', TurnStep
  PROVE  [Turns!Next]_(Turns!turns)
<1> USE DEF Turns!Next, Turns!turns, Turns!Daemons, Turns!Take, Turns!Leave,
            Turns!HoldDown, Turns!BringUp, Turns!Drop, Turns!Redrive, Turns!RaiseOutside
<1>1. /\ Holders = IF lock = "free" THEN {} ELSE {lock}
      /\ Holders' = IF lock' = "free" THEN {} ELSE {lock'}
      /\ lock \in {"free", "watchdog", "autocfg", "hotplug"}
      /\ lock' \in {"free", "watchdog", "autocfg", "hotplug"}
      /\ Held => lock = "watchdog"
      /\ Held' => lock' = "watchdog"
      /\ Held \in BOOLEAN /\ Held' \in BOOLEAN
  BY HolderHasLock DEF TurnInv, LockInv, Held, Ladder, Holders
<1>2. CASE lock' = lock /\ (Held' <=> Held) /\ (auto' = auto \/ auto' = FALSE)
  BY <1>1, <1>2
<1>3. CASE lock = "free" /\ (Held' <=> Held) /\ auto' = auto
  BY <1>1, <1>3
<1>4. CASE lock = "watchdog" /\ lock' = "free" /\ ~Held' /\ auto' = auto
  BY <1>1, <1>4
<1>5. CASE lock \in {"autocfg", "hotplug"} /\ lock' = "free" /\ (Held' <=> Held)
            /\ (auto' = auto \/ auto' = TRUE)
  BY <1>1, <1>5
<1>6. CASE lock = "watchdog" /\ lock' = lock /\ Held' /\ auto' = FALSE
  BY <1>1, <1>6
<1>7. CASE Held /\ lock' = lock /\ ~Held' /\ auto' = TRUE
  BY <1>1, <1>7
<1>8. CASE /\ lock # "watchdog" \/ ~AllLock
           /\ lock' = lock /\ (Held' <=> Held) /\ auto' = TRUE
  BY <1>1, <1>8 DEF AllLock
<1> QED
  BY <1>2, <1>3, <1>4, <1>5, <1>6, <1>7, <1>8 DEF TurnStep

\* modem-bearer-watchdog, qcom-carrier-autocfg, sim-hotplug, modem-led-monitor and
\* the user together implement BearerTurns, for any thresholds, faults and board:
\* every step of theirs is one of the turns or leaves them alone.
THEOREM TurnsImplemented == RSpec => Turns!Spec
<1>1. RInit => TurnInv
  BY DEF RInit, Init, TurnInv, LockInv, QuietInv, Ladder
<1>2. RInit => Turns!Init
  BY DEF RInit, Init, NetifdInit, Turns!Init, Holders, Held, Ladder
<1>3. TurnInv /\ [RNext]_allVars => TurnInv' /\ [Turns!Next]_(Turns!turns)
  BY TurnsKept, StepRefines
<1> QED
  BY <1>1, <1>2, <1>3, PTL DEF RSpec, Turns!Spec

\* What the turns promise: one daemon at a time, and the interface the watchdog
\* holds down is not raised under it.
THEOREM TurnsPromise == Turns!Spec => [](Turns!OneTurn /\ Turns!Undisturbed)
<1> DEFINE I == Turns!OneTurn /\ Turns!HeldInTurn /\ Turns!Undisturbed
<1>1. Turns!Init => I
  BY DEF Turns!Init, Turns!OneTurn, Turns!HeldInTurn, Turns!Undisturbed
<1>2. ASSUME I, [Turns!Next]_(Turns!turns)
      PROVE  I'
  <2> USE <1>2 DEF Turns!OneTurn, Turns!HeldInTurn, Turns!Undisturbed
  <2>1. ASSUME NEW d \in Turns!Daemons, Turns!Take(d)
        PROVE  I'
    BY <2>1 DEF Turns!Take
  <2>2. ASSUME NEW d \in Turns!Daemons, Turns!Leave(d)
        PROVE  I'
    BY <2>2 DEF Turns!Leave
  <2>3. CASE Turns!HoldDown \/ Turns!BringUp \/ Turns!Drop
    BY <2>3 DEF Turns!HoldDown, Turns!BringUp, Turns!Drop
  <2>4. CASE Turns!Redrive \/ Turns!RaiseOutside
    BY <2>4 DEF Turns!Redrive, Turns!RaiseOutside
  <2>5. CASE UNCHANGED Turns!turns
    BY <2>5 DEF Turns!turns
  <2> QED
    BY <2>1, <2>2, <2>3, <2>4, <2>5 DEF Turns!Next
<1>3. I => Turns!OneTurn /\ Turns!Undisturbed
  OBVIOUS
<1> QED
  BY <1>1, <1>2, <1>3, PTL DEF Turns!Spec

-----------------------------------------------------------------------------
\* No other daemon brings the interface up under the watchdog, if all of them take
\* the lock: whatever is killed, and however long they wait for it.
THEOREM Control == ASSUME AllLock PROVE RSpec => []ControlKept
<1>1. Turns!Undisturbed => ControlKept
  BY AllLock DEF AllLock, Turns!Undisturbed, Held, ControlKept
<1> QED
  BY <1>1, TurnsImplemented, TurnsPromise, PTL
=============================================================================
