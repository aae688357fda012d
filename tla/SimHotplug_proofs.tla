------------------------- MODULE SimHotplug_proofs -------------------------
(***************************************************************************)
(* Proofs about SimHotplug, for any set of cards and any thresholds that   *)
(* SimAssumption allows: its types, the restart budget, the spacing of the *)
(* restarts, and that a bearer is brought up for the card in the slot.     *)
(***************************************************************************)
EXTENDS SimHotplug, TLAPS

-----------------------------------------------------------------------------
(* The inductive invariant, in its parts.                                  *)

\* The card is believed absent exactly while the absent cycle runs.
RemovedInv == removed <=> pc \in {"pulse", "read", "cycle"}

\* Each restart written since the card was last seen is counted in restarts, or is
\* the one under way, or has ended in giving up.
BudgetInv ==
  /\ BudgetRearmed
  /\ pc = "cycle" => ~gaveUp /\ restarts < MAX_RESTARTS /\ attempts <= restarts + 1
  /\ pc # "cycle" /\ ~gaveUp => attempts <= restarts
  /\ RestartBudget

\* last_restart is never older than the restart it stands for.
SpacingInv == pc # "cycle" => lastFailed \/ sinceAttempt >= sinceRestart

\* Once `mmcli -d` has gone through, the modem is disabled until its SIM is read: no
\* card is found on a modem in the middle of a restart, which would undo that.
FreshInv ==
  /\ rproc = "cycling"
       => ~qmi /\ pc \notin {"recover", "waitreg", "refresh", "enable", "bringup"}
  /\ pc = "enable" /\ ~unread => mmState = "disabled"
  /\ pc = "bringup" /\ ~unread /\ bbState # "absent"
       => mmState = "disabled" \/ mmSim = bbCard

Inv == TypeOK /\ RemovedInv /\ BudgetInv /\ SpacingInv /\ FreshInv

-----------------------------------------------------------------------------
\* Cap bounds what it is given.
LEMMA CapFacts ==
  ASSUME NEW n \in Nat, NEW m \in Nat
  PROVE  Cap(n, m) \in 0..m /\ Cap(n, m) <= n
  BY DEF Cap

\* The answer of a query never changes more than the fault count.
LEMMA AsksFacts ==
  ASSUME NEW u, EnvTypeOK, Asks(u)
  PROVE  /\ faults' \in 0..MaxFaults
         /\ faults' = 0 => faults = 0
         /\ u = "present" => qmi /\ bbState = "present"
         /\ u = "qmi-down" => ~qmi
  BY SimAssumption DEF SimAssumption, Asks, UimAnswer, EnvTypeOK

\* The constants are naturals.
LEMMA ConstantTypes ==
  /\ MAX_PULSE \in Nat /\ MAX_PULSE > 0 /\ QMI_RETRY \in Nat
  /\ MAX_RESTARTS \in Nat /\ RESTART_BACKOFF \in Nat
  /\ IDLE_INTERVAL \in Nat /\ ACTIVE_INTERVAL \in Nat
  /\ SETTLE \in Nat /\ ABSENT_INTERVAL \in Nat /\ MODEM_CYCLE \in Nat
  /\ REGISTER_WAIT \in Nat /\ LOOP_SLEEP \in Nat /\ LONG_SLEEP \in Nat
  /\ MaxSwaps \in Nat /\ MaxFaults \in Nat /\ MaxRespawns \in Nat
  BY SimAssumption DEF SimAssumption

\* A sleep keeps the ages in their range, and the two ages of a restart in order.
LEMMA SleepFacts ==
  ASSUME AgeTypeOK, NEW d \in Nat, Sleep(d)
  PROVE  /\ sinceRestart' \in 0..RESTART_BACKOFF /\ sinceAttempt' \in 0..RESTART_BACKOFF
         /\ sinceQmi' \in 0..QMI_RETRY
         /\ sinceAttempt >= sinceRestart => sinceAttempt' >= sinceRestart'
  BY ConstantTypes DEF Sleep, AgeTypeOK, Aged, Cap

\* Declining a restart never takes a give-up back.
LEMMA DeclinesFacts ==
  ASSUME gaveUp \in BOOLEAN, Declines
  PROVE  gaveUp' \in BOOLEAN /\ (gaveUp => gaveUp')
<1>1. CASE gaveUp' = TRUE
  BY <1>1
<1>2. CASE gaveUp' = gaveUp
  BY <1>2
<1> QED
  BY <1>1, <1>2 DEF Declines

\* The invariant is inductive: one step per action, one below it per part.
LEMMA Step ==
  ASSUME Inv, [Next]_vars
  PROVE  Inv'
<1> USE ConstantTypes DEF Inv, TypeOK, MmStates, StateAnswers, Renumbered
<1>1. CASE Startup
  <2> USE <1>1 DEF Startup, SameEnv, hist
  <2>1. EnvTypeOK'
    BY AsksFacts DEF EnvTypeOK
  <2>2. AgeTypeOK'
    BY DEF AgeTypeOK
  <2>3. DaemonTypeOK'
    BY DEF DaemonTypeOK, DaemonPcs
  <2>4. RemovedInv' /\ BudgetInv'
    BY DEF RemovedInv, BudgetInv, BudgetRearmed, RestartBudget, DaemonTypeOK
  <2>5. SpacingInv'
    BY DEF SpacingInv, AgeTypeOK
  <2>6. FreshInv'
    BY AsksFacts DEF FreshInv, EnvTypeOK
  <2> QED
    BY <2>1, <2>2, <2>3, <2>4, <2>5, <2>6
<1>2. CASE PulseReads
  <2> USE <1>2 DEF PulseReads
  <2>1. EnvTypeOK'
    BY DEF EnvTypeOK
  <2>2. AgeTypeOK'
    BY SleepFacts DEF AgeTypeOK
  <2>3. DaemonTypeOK'
    BY DEF DaemonTypeOK, DaemonPcs
  <2>4. RemovedInv' /\ BudgetInv'
    BY DEF RemovedInv, BudgetInv, BudgetRearmed, RestartBudget, DaemonTypeOK
  <2>5. SpacingInv'
    BY SleepFacts DEF SpacingInv, AgeTypeOK
  <2>6. FreshInv'
    BY DEF FreshInv, EnvTypeOK
  <2> QED
    BY <2>1, <2>2, <2>3, <2>4, <2>5, <2>6
<1>3. CASE PulseFails
  <2> USE <1>3 DEF PulseFails, SameEnv
  <2>1. EnvTypeOK'
    BY DEF EnvTypeOK
  <2>2. AgeTypeOK'
    BY SleepFacts DEF AgeTypeOK
  <2>3. DaemonTypeOK'
    BY DEF DaemonTypeOK, DaemonPcs
  <2>4. RemovedInv' /\ BudgetInv'
    BY DEF RemovedInv, BudgetInv, BudgetRearmed, RestartBudget, DaemonTypeOK
  <2>5. SpacingInv'
    BY SleepFacts DEF SpacingInv, AgeTypeOK
  <2>6. FreshInv'
    BY DEF FreshInv, EnvTypeOK
  <2> QED
    BY <2>1, <2>2, <2>3, <2>4, <2>5, <2>6
<1>4. CASE ReadPresent
  <2> USE <1>4 DEF ReadPresent, SameEnv
  <2>1. EnvTypeOK'
    BY AsksFacts DEF EnvTypeOK
  <2>2. AgeTypeOK'
    BY DEF AgeTypeOK
  <2>3a. restarts' \in 0..MAX_RESTARTS /\ attempts' \in 0..(MAX_RESTARTS + 1)
    OBVIOUS
  <2>3. DaemonTypeOK'
    BY <2>3a DEF DaemonTypeOK, DaemonPcs
  <2>4. RemovedInv' /\ BudgetInv'
    BY DEF RemovedInv, BudgetInv, BudgetRearmed, RestartBudget, DaemonTypeOK
  <2>5. SpacingInv'
    BY DEF SpacingInv, AgeTypeOK
  <2>6. FreshInv'
    BY AsksFacts DEF FreshInv, EnvTypeOK
  <2> QED
    BY <2>1, <2>2, <2>3, <2>4, <2>5, <2>6
<1>5. CASE ReadAbsent
  <2> USE <1>5 DEF ReadAbsent, SameEnv, NextPulse
  <2>1. EnvTypeOK'
    BY AsksFacts DEF EnvTypeOK
  <2>2. AgeTypeOK'
    BY SleepFacts DEF AgeTypeOK, Aged, Cap
  <2>3. DaemonTypeOK'
    BY DEF DaemonTypeOK, DaemonPcs, Cap
  <2>4. RemovedInv' /\ BudgetInv'
    BY DEF RemovedInv, BudgetInv, BudgetRearmed, RestartBudget, DaemonTypeOK
  <2>5. SpacingInv'
    BY SleepFacts DEF SpacingInv, AgeTypeOK, Aged, Cap
  <2>6. FreshInv'
    BY AsksFacts DEF FreshInv, EnvTypeOK
  <2> QED
    BY <2>1, <2>2, <2>3, <2>4, <2>5, <2>6
<1>6. CASE DeclineRestart
  <2> USE <1>6 DEF DeclineRestart, SameEnv, NextPulse
  <2>1. EnvTypeOK'
    BY AsksFacts DEF EnvTypeOK
  <2>2. AgeTypeOK'
    BY SleepFacts DEF AgeTypeOK, Aged, Cap
  <2>3a. gaveUp' \in BOOLEAN /\ (gaveUp => gaveUp')
    BY DeclinesFacts DEF DaemonTypeOK
  <2>3. DaemonTypeOK'
    BY <2>3a, CapFacts DEF DaemonTypeOK, DaemonPcs
  <2>4. RemovedInv' /\ BudgetInv'
    BY <2>3a DEF RemovedInv, BudgetInv, BudgetRearmed, RestartBudget, DaemonTypeOK
  <2>5. SpacingInv'
    BY SleepFacts DEF SpacingInv, AgeTypeOK, Aged, Cap
  <2>6. FreshInv'
    BY AsksFacts DEF FreshInv, EnvTypeOK
  <2> QED
    BY <2>1, <2>2, <2>3, <2>4, <2>5, <2>6
<1>7. CASE StartRestart
  <2> USE <1>7 DEF StartRestart, RestartGuard
  <2>1. EnvTypeOK'
    BY AsksFacts DEF EnvTypeOK
  <2>2. AgeTypeOK'
    BY DEF AgeTypeOK
  <2>3a. attempts' \in 0..(MAX_RESTARTS + 1)
    BY DEF DaemonTypeOK, Cap
  <2>3b. pc' \in DaemonPcs /\ miss' \in 0..MAX_PULSE
    BY DEF DaemonPcs
  <2>3c. lastFailed' \in BOOLEAN
    BY Zenon
  <2>3. DaemonTypeOK'
    BY <2>3a, <2>3b, <2>3c DEF DaemonTypeOK
  <2>4. RemovedInv' /\ BudgetInv'
    BY DEF RemovedInv, BudgetInv, BudgetRearmed, RestartBudget, DaemonTypeOK, Cap
  <2>5. SpacingInv'
    BY DEF SpacingInv, AgeTypeOK
  <2>6. FreshInv'
    BY AsksFacts DEF FreshInv, EnvTypeOK
  <2> QED
    BY <2>1, <2>2, <2>3, <2>4, <2>5, <2>6
<1>8. CASE ReadUnknown
  <2> USE <1>8 DEF ReadUnknown, SameEnv, NextPulse
  <2>1. EnvTypeOK'
    BY AsksFacts DEF EnvTypeOK
  <2>2. AgeTypeOK'
    BY SleepFacts DEF AgeTypeOK, Aged, Cap
  <2>3. DaemonTypeOK'
    BY DEF DaemonTypeOK, DaemonPcs, Cap
  <2>4. RemovedInv' /\ BudgetInv'
    BY DEF RemovedInv, BudgetInv, BudgetRearmed, RestartBudget, DaemonTypeOK
  <2>5. SpacingInv'
    BY SleepFacts DEF SpacingInv, AgeTypeOK, Aged, Cap
  <2>6. FreshInv'
    BY AsksFacts DEF FreshInv, EnvTypeOK
  <2> QED
    BY <2>1, <2>2, <2>3, <2>4, <2>5, <2>6
<1>9. CASE ReadLocked
  <2> USE <1>9 DEF ReadLocked, SameEnv, NextPulse
  <2>1. EnvTypeOK'
    BY AsksFacts DEF EnvTypeOK
  <2>2. AgeTypeOK'
    BY SleepFacts DEF AgeTypeOK, Aged, Cap
  <2>3. DaemonTypeOK'
    BY DEF DaemonTypeOK, DaemonPcs, Cap
  <2>4. RemovedInv' /\ BudgetInv'
    BY DEF RemovedInv, BudgetInv, BudgetRearmed, RestartBudget, DaemonTypeOK
  <2>5. SpacingInv'
    BY SleepFacts DEF SpacingInv, AgeTypeOK, Aged, Cap
  <2>6. FreshInv'
    BY AsksFacts DEF FreshInv, EnvTypeOK
  <2> QED
    BY <2>1, <2>2, <2>3, <2>4, <2>5, <2>6
<1>10. CASE ReadQmiDown
  <2> USE <1>10 DEF ReadQmiDown, SameEnv, NextPulse
  <2>1. EnvTypeOK'
    BY AsksFacts DEF EnvTypeOK
  <2>2. AgeTypeOK'
    BY SleepFacts DEF AgeTypeOK, Aged, Cap
  <2>3. DaemonTypeOK'
    BY DEF DaemonTypeOK, DaemonPcs, Cap
  <2>4. RemovedInv' /\ BudgetInv'
    BY DEF RemovedInv, BudgetInv, BudgetRearmed, RestartBudget, DaemonTypeOK
  <2>5. SpacingInv'
    BY SleepFacts DEF SpacingInv, AgeTypeOK, Aged, Cap
  <2>6. FreshInv'
    BY AsksFacts DEF FreshInv, EnvTypeOK
  <2> QED
    BY <2>1, <2>2, <2>3, <2>4, <2>5, <2>6
<1>11. CASE ReadExhaust
  <2> USE <1>11 DEF ReadExhaust, SameEnv, NextPulse
  <2>1. EnvTypeOK'
    BY AsksFacts DEF EnvTypeOK
  <2>2. AgeTypeOK'
    BY SleepFacts DEF AgeTypeOK, Aged, Cap
  <2>3. DaemonTypeOK'
    BY DEF DaemonTypeOK, DaemonPcs, Cap
  <2>4. RemovedInv' /\ BudgetInv'
    BY DEF RemovedInv, BudgetInv, BudgetRearmed, RestartBudget, DaemonTypeOK
  <2>5. SpacingInv'
    BY SleepFacts DEF SpacingInv, AgeTypeOK, Aged, Cap
  <2>6. FreshInv'
    BY AsksFacts DEF FreshInv, EnvTypeOK
  <2> QED
    BY <2>1, <2>2, <2>3, <2>4, <2>5, <2>6
<1>12. CASE RestartReturns
  <2> USE <1>12 DEF RestartReturns, env
  <2>1. EnvTypeOK'
    BY DEF EnvTypeOK
  <2>2. AgeTypeOK'
    BY DEF AgeTypeOK, Aged, Cap
  <2>3a. restarts' \in 0..MAX_RESTARTS
    BY DEF DaemonTypeOK, BudgetInv
  <2>3. DaemonTypeOK'
    BY <2>3a DEF DaemonTypeOK, DaemonPcs
  <2>4. RemovedInv' /\ BudgetInv'
    BY DEF RemovedInv, BudgetInv, BudgetRearmed, RestartBudget, DaemonTypeOK
  <2>5. SpacingInv'
    BY DEF SpacingInv, AgeTypeOK, Aged, Cap
  <2>6. FreshInv'
    BY DEF FreshInv, EnvTypeOK
  <2> QED
    BY <2>1, <2>2, <2>3, <2>4, <2>5, <2>6
<1>13. CASE Recover
  <2> USE <1>13 DEF Recover, Says, hist
  <2>1. EnvTypeOK'
    BY DEF EnvTypeOK
  <2>2. AgeTypeOK'
    BY DEF AgeTypeOK
  <2>3. DaemonTypeOK'
    BY DEF DaemonTypeOK, DaemonPcs
  <2>4. RemovedInv' /\ BudgetInv'
    BY DEF RemovedInv, BudgetInv, BudgetRearmed, RestartBudget, DaemonTypeOK
  <2>5. SpacingInv'
    BY DEF SpacingInv, AgeTypeOK
  <2>6. FreshInv'
    BY DEF FreshInv, EnvTypeOK
  <2> QED
    BY <2>1, <2>2, <2>3, <2>4, <2>5, <2>6
<1>14. CASE WaitRegister
  <2> USE <1>14 DEF WaitRegister, env
  <2>1. EnvTypeOK'
    BY DEF EnvTypeOK
  <2>2. AgeTypeOK'
    BY SleepFacts DEF AgeTypeOK, Aged, Cap
  <2>3. DaemonTypeOK'
    BY DEF DaemonTypeOK, DaemonPcs
  <2>4. RemovedInv' /\ BudgetInv'
    BY DEF RemovedInv, BudgetInv, BudgetRearmed, RestartBudget, DaemonTypeOK
  <2>5. SpacingInv'
    BY SleepFacts DEF SpacingInv, AgeTypeOK, Aged, Cap
  <2>6. FreshInv'
    BY DEF FreshInv, EnvTypeOK
  <2> QED
    BY <2>1, <2>2, <2>3, <2>4, <2>5, <2>6
<1>15. CASE RefreshDisable
  <2> USE <1>15 DEF RefreshDisable
  <2>1. EnvTypeOK'
    BY DEF EnvTypeOK, MmStates
  <2>2. AgeTypeOK'
    BY DEF AgeTypeOK
  <2>3. DaemonTypeOK'
    BY DEF DaemonTypeOK, DaemonPcs
  <2>4. RemovedInv' /\ BudgetInv'
    BY DEF RemovedInv, BudgetInv, BudgetRearmed, RestartBudget, DaemonTypeOK
  <2>5. SpacingInv'
    BY DEF SpacingInv, AgeTypeOK
  <2>6. FreshInv'
    BY DEF FreshInv, EnvTypeOK
  <2> QED
    BY <2>1, <2>2, <2>3, <2>4, <2>5, <2>6
<1>37. CASE RefreshEnable
  <2> USE <1>37 DEF RefreshEnable
  <2>1. EnvTypeOK'
    BY DEF EnvTypeOK, MmStates
  <2>2. AgeTypeOK'
    BY SleepFacts DEF AgeTypeOK, Aged, Cap
  <2>3. DaemonTypeOK'
    BY DEF DaemonTypeOK, DaemonPcs
  <2>4. RemovedInv' /\ BudgetInv'
    BY DEF RemovedInv, BudgetInv, BudgetRearmed, RestartBudget, DaemonTypeOK
  <2>5. SpacingInv'
    BY SleepFacts DEF SpacingInv, AgeTypeOK
  <2>6. FreshInv'
    BY DEF FreshInv, EnvTypeOK
  <2> QED
    BY <2>1, <2>2, <2>3, <2>4, <2>5, <2>6
<1>16. CASE BringUp
  <2> USE <1>16 DEF BringUp, hist
  <2>1. EnvTypeOK'
    BY DEF EnvTypeOK, BearerSim
  <2>2. AgeTypeOK'
    BY DEF AgeTypeOK
  <2>3. DaemonTypeOK'
    BY DEF DaemonTypeOK, DaemonPcs
  <2>4. RemovedInv' /\ BudgetInv'
    BY DEF RemovedInv, BudgetInv, BudgetRearmed, RestartBudget, DaemonTypeOK
  <2>5. SpacingInv'
    BY DEF SpacingInv, AgeTypeOK
  <2>6. FreshInv'
    BY DEF FreshInv, EnvTypeOK
  <2> QED
    BY <2>1, <2>2, <2>3, <2>4, <2>5, <2>6
<1>17. CASE MonitorState
  <2> USE <1>17 DEF MonitorState, Says, SameEnv, hist
  <2>1. EnvTypeOK'
    BY DEF EnvTypeOK
  <2>2. AgeTypeOK'
    BY DEF AgeTypeOK
  <2>3. DaemonTypeOK'
    BY DEF DaemonTypeOK, DaemonPcs, EnvTypeOK
  <2>4. RemovedInv' /\ BudgetInv'
    BY DEF RemovedInv, BudgetInv, BudgetRearmed, RestartBudget, DaemonTypeOK
  <2>5. SpacingInv'
    BY DEF SpacingInv, AgeTypeOK
  <2>6. FreshInv'
    BY DEF FreshInv, EnvTypeOK
  <2> QED
    BY <2>1, <2>2, <2>3, <2>4, <2>5, <2>6
<1>18. CASE CheckNotDue
  <2> USE <1>18 DEF CheckNotDue, env, LoopAgain
  <2>1. EnvTypeOK'
    BY AsksFacts DEF EnvTypeOK
  <2>2. AgeTypeOK'
    BY SleepFacts DEF AgeTypeOK, Aged, Cap
  <2>3. DaemonTypeOK'
    BY DEF DaemonTypeOK, DaemonPcs
  <2>4. RemovedInv' /\ BudgetInv'
    BY DEF RemovedInv, BudgetInv, BudgetRearmed, RestartBudget, DaemonTypeOK
  <2>5. SpacingInv'
    BY SleepFacts DEF SpacingInv, AgeTypeOK, Aged, Cap
  <2>6. FreshInv'
    BY AsksFacts DEF FreshInv, EnvTypeOK
  <2> QED
    BY <2>1, <2>2, <2>3, <2>4, <2>5, <2>6
<1>19. CASE CheckAbsent
  <2> USE <1>19 DEF CheckAbsent, SameEnv, ForceReannounce
  <2>1. EnvTypeOK'
    BY AsksFacts DEF EnvTypeOK
  <2>2. AgeTypeOK'
    BY SleepFacts DEF AgeTypeOK, Aged, Cap
  <2>3. DaemonTypeOK'
    BY DEF DaemonTypeOK, DaemonPcs
  <2>4. RemovedInv' /\ BudgetInv'
    BY DEF RemovedInv, BudgetInv, BudgetRearmed, RestartBudget, DaemonTypeOK
  <2>5. SpacingInv'
    BY SleepFacts DEF SpacingInv, AgeTypeOK, Aged, Cap
  <2>6. FreshInv'
    BY AsksFacts DEF FreshInv, EnvTypeOK
  <2> QED
    BY <2>1, <2>2, <2>3, <2>4, <2>5, <2>6
<1>20. CASE CheckUnknown
  <2> USE <1>20 DEF CheckUnknown, SameEnv, LoopAgain, ForceReannounce
  <2>1. EnvTypeOK'
    BY AsksFacts DEF EnvTypeOK
  <2>2. AgeTypeOK'
    BY SleepFacts DEF AgeTypeOK, Aged, Cap
  <2>3a. err' \in 0..1
    BY DEF DaemonTypeOK, Cap
  <2>3b. attempts' \in 0..(MAX_RESTARTS + 1)
    BY DEF DaemonTypeOK
  <2>3c. pc' \in DaemonPcs /\ removed' \in BOOLEAN
    BY DEF DaemonTypeOK, DaemonPcs
  <2>3. DaemonTypeOK'
    BY <2>3a, <2>3b, <2>3c DEF DaemonTypeOK
  <2>4. RemovedInv' /\ BudgetInv'
    BY DEF RemovedInv, BudgetInv, BudgetRearmed, RestartBudget, DaemonTypeOK
  <2>5. SpacingInv'
    BY SleepFacts DEF SpacingInv, AgeTypeOK, Aged, Cap
  <2>6. FreshInv'
    BY AsksFacts DEF FreshInv, EnvTypeOK
  <2> QED
    BY <2>1, <2>2, <2>3, <2>4, <2>5, <2>6
<1>21. CASE CheckOther
  <2> USE <1>21 DEF CheckOther, SameEnv, LoopAgain
  <2>1. EnvTypeOK'
    BY AsksFacts DEF EnvTypeOK
  <2>2. AgeTypeOK'
    BY SleepFacts DEF AgeTypeOK, Aged, Cap
  <2>3. DaemonTypeOK'
    BY DEF DaemonTypeOK, DaemonPcs
  <2>4. RemovedInv' /\ BudgetInv'
    BY DEF RemovedInv, BudgetInv, BudgetRearmed, RestartBudget, DaemonTypeOK
  <2>5. SpacingInv'
    BY SleepFacts DEF SpacingInv, AgeTypeOK, Aged, Cap
  <2>6. FreshInv'
    BY AsksFacts DEF FreshInv, EnvTypeOK
  <2> QED
    BY <2>1, <2>2, <2>3, <2>4, <2>5, <2>6
<1>22. CASE CheckExhaust
  <2> USE <1>22 DEF CheckExhaust, SameEnv, LoopAgain
  <2>1. EnvTypeOK'
    BY AsksFacts DEF EnvTypeOK
  <2>2. AgeTypeOK'
    BY SleepFacts DEF AgeTypeOK, Aged, Cap
  <2>3. DaemonTypeOK'
    BY DEF DaemonTypeOK, DaemonPcs
  <2>4. RemovedInv' /\ BudgetInv'
    BY DEF RemovedInv, BudgetInv, BudgetRearmed, RestartBudget, DaemonTypeOK
  <2>5. SpacingInv'
    BY SleepFacts DEF SpacingInv, AgeTypeOK, Aged, Cap
  <2>6. FreshInv'
    BY AsksFacts DEF FreshInv, EnvTypeOK
  <2> QED
    BY <2>1, <2>2, <2>3, <2>4, <2>5, <2>6
<1>23. CASE CheckQmiDown
  <2> USE <1>23 DEF CheckQmiDown
  <2>1. EnvTypeOK'
    BY AsksFacts DEF EnvTypeOK
  <2>2. AgeTypeOK'
    BY DEF AgeTypeOK, Aged, Cap
  <2>3. DaemonTypeOK'
    BY DEF DaemonTypeOK, DaemonPcs
  <2>4. RemovedInv' /\ BudgetInv'
    BY DEF RemovedInv, BudgetInv, BudgetRearmed, RestartBudget, DaemonTypeOK
  <2>5. SpacingInv'
    BY DEF SpacingInv, AgeTypeOK, Aged, Cap
  <2>6. FreshInv'
    BY AsksFacts DEF FreshInv, EnvTypeOK
  <2> QED
    BY <2>1, <2>2, <2>3, <2>4, <2>5, <2>6
<1>24. CASE Respawn
  <2> USE <1>24 DEF Respawn
  <2>1. EnvTypeOK'
    BY DEF EnvTypeOK
  <2>2. AgeTypeOK'
    BY DEF AgeTypeOK
  <2>3a. restarts' \in 0..MAX_RESTARTS /\ attempts' \in 0..(MAX_RESTARTS + 1)
    OBVIOUS
  <2>3b. pc' \in DaemonPcs /\ miss' \in 0..MAX_PULSE
    BY DEF DaemonPcs
  <2>3c. {removed, gaveUp, lastFailed, unread}' \subseteq BOOLEAN
    BY Zenon
  <2>3. DaemonTypeOK'
    BY <2>3a, <2>3b, <2>3c DEF DaemonTypeOK
  <2>4. RemovedInv' /\ BudgetInv'
    BY DEF RemovedInv, BudgetInv, BudgetRearmed, RestartBudget, DaemonTypeOK
  <2>5. SpacingInv'
    BY DEF SpacingInv, AgeTypeOK
  <2>6. FreshInv'
    BY DEF FreshInv, EnvTypeOK
  <2> QED
    BY <2>1, <2>2, <2>3, <2>4, <2>5, <2>6
<1>25. CASE RemoveCard
  <2> USE <1>25 DEF RemoveCard, hist, daemon, NoSwap
  <2>1. EnvTypeOK'
    BY DEF EnvTypeOK
  <2>2. AgeTypeOK' /\ DaemonTypeOK' /\ RemovedInv' /\ BudgetInv' /\ SpacingInv'
    BY DEF AgeTypeOK, DaemonTypeOK, RemovedInv, BudgetInv, BudgetRearmed, RestartBudget, SpacingInv
  <2>3. FreshInv'
    BY DEF FreshInv, EnvTypeOK
  <2> QED
    BY <2>1, <2>2, <2>3
<1>26. CASE (\E c \in Cards : InsertCard(c))
  <2> USE <1>26 DEF InsertCard, hist, daemon, NoSwap
  <2>1. EnvTypeOK'
    BY DEF EnvTypeOK
  <2>2. AgeTypeOK' /\ DaemonTypeOK' /\ RemovedInv' /\ BudgetInv' /\ SpacingInv'
    BY DEF AgeTypeOK, DaemonTypeOK, RemovedInv, BudgetInv, BudgetRearmed, RestartBudget, SpacingInv
  <2>3. FreshInv'
    BY DEF FreshInv, EnvTypeOK
  <2> QED
    BY <2>1, <2>2, <2>3
<1>27. CASE NoticeRemoval
  <2> USE <1>27 DEF NoticeRemoval, hist, daemon, NoSwap
  <2>1. EnvTypeOK'
    BY DEF EnvTypeOK
  <2>2. AgeTypeOK' /\ DaemonTypeOK' /\ RemovedInv' /\ BudgetInv' /\ SpacingInv'
    BY DEF AgeTypeOK, DaemonTypeOK, RemovedInv, BudgetInv, BudgetRearmed, RestartBudget, SpacingInv
  <2>3. FreshInv'
    BY DEF FreshInv, EnvTypeOK
  <2> QED
    BY <2>1, <2>2, <2>3
<1>28. CASE UimError
  <2> USE <1>28 DEF UimError, hist, daemon, NoSwap
  <2>1. EnvTypeOK'
    BY DEF EnvTypeOK
  <2>2. AgeTypeOK' /\ DaemonTypeOK' /\ RemovedInv' /\ BudgetInv' /\ SpacingInv'
    BY DEF AgeTypeOK, DaemonTypeOK, RemovedInv, BudgetInv, BudgetRearmed, RestartBudget, SpacingInv
  <2>3. FreshInv'
    BY DEF FreshInv, EnvTypeOK
  <2> QED
    BY <2>1, <2>2, <2>3
<1>29. CASE UimErrorEnds
  <2> USE <1>29 DEF UimErrorEnds, hist, daemon, NoSwap
  <2>1. EnvTypeOK'
    BY DEF EnvTypeOK
  <2>2. AgeTypeOK' /\ DaemonTypeOK' /\ RemovedInv' /\ BudgetInv' /\ SpacingInv'
    BY DEF AgeTypeOK, DaemonTypeOK, RemovedInv, BudgetInv, BudgetRearmed, RestartBudget, SpacingInv
  <2>3. FreshInv'
    BY DEF FreshInv, EnvTypeOK
  <2> QED
    BY <2>1, <2>2, <2>3
<1>30. CASE Register
  <2> USE <1>30 DEF Register, hist, daemon, NoSwap
  <2>1. EnvTypeOK'
    BY DEF EnvTypeOK
  <2>2. AgeTypeOK' /\ DaemonTypeOK' /\ RemovedInv' /\ BudgetInv' /\ SpacingInv'
    BY DEF AgeTypeOK, DaemonTypeOK, RemovedInv, BudgetInv, BudgetRearmed, RestartBudget, SpacingInv
  <2>3. FreshInv'
    BY DEF FreshInv, EnvTypeOK
  <2> QED
    BY <2>1, <2>2, <2>3
<1>31. CASE Deregister
  <2> USE <1>31 DEF Deregister, hist, daemon, NoSwap
  <2>1. EnvTypeOK'
    BY DEF EnvTypeOK
  <2>2. AgeTypeOK' /\ DaemonTypeOK' /\ RemovedInv' /\ BudgetInv' /\ SpacingInv'
    BY DEF AgeTypeOK, DaemonTypeOK, RemovedInv, BudgetInv, BudgetRearmed, RestartBudget, SpacingInv
  <2>3. FreshInv'
    BY DEF FreshInv, EnvTypeOK
  <2> QED
    BY <2>1, <2>2, <2>3
<1>32. CASE LosePort
  <2> USE <1>32 DEF LosePort, hist, daemon, NoSwap
  <2>1a. faults' \in 0..MaxFaults
    BY DEF EnvTypeOK
  <2>1. EnvTypeOK'
    BY <2>1a DEF EnvTypeOK
  <2>2. AgeTypeOK' /\ DaemonTypeOK' /\ RemovedInv' /\ BudgetInv' /\ SpacingInv'
    BY DEF AgeTypeOK, DaemonTypeOK, RemovedInv, BudgetInv, BudgetRearmed, RestartBudget, SpacingInv
  <2>3. FreshInv'
    BY DEF FreshInv, EnvTypeOK
  <2> QED
    BY <2>1, <2>2, <2>3
<1>33. CASE RprocUp
  <2> USE <1>33 DEF RprocUp, hist, daemon, NoSwap
  <2>1. EnvTypeOK'
    BY DEF EnvTypeOK
  <2>2. AgeTypeOK' /\ DaemonTypeOK' /\ RemovedInv' /\ BudgetInv' /\ SpacingInv'
    BY DEF AgeTypeOK, DaemonTypeOK, RemovedInv, BudgetInv, BudgetRearmed, RestartBudget, SpacingInv
  <2>3. FreshInv'
    BY DEF FreshInv, EnvTypeOK
  <2> QED
    BY <2>1, <2>2, <2>3
<1>34. CASE RprocDies
  <2> USE <1>34 DEF RprocDies, hist, daemon, NoSwap
  <2>1. EnvTypeOK'
    BY DEF EnvTypeOK
  <2>2. AgeTypeOK' /\ DaemonTypeOK' /\ RemovedInv' /\ BudgetInv' /\ SpacingInv'
    BY DEF AgeTypeOK, DaemonTypeOK, RemovedInv, BudgetInv, BudgetRearmed, RestartBudget, SpacingInv
  <2>3. FreshInv'
    BY DEF FreshInv, EnvTypeOK
  <2> QED
    BY <2>1, <2>2, <2>3
<1>36. CASE Rescan
  <2> USE <1>36 DEF Rescan, hist, daemon, NoSwap
  <2>1a. faults' \in 0..MaxFaults
    BY DEF EnvTypeOK
  <2>1. EnvTypeOK'
    BY <2>1a DEF EnvTypeOK
  <2>2. AgeTypeOK' /\ DaemonTypeOK' /\ RemovedInv' /\ BudgetInv' /\ SpacingInv'
    BY DEF AgeTypeOK, DaemonTypeOK, RemovedInv, BudgetInv, BudgetRearmed, RestartBudget, SpacingInv
  <2>3. FreshInv'
    BY DEF FreshInv, EnvTypeOK
  <2> QED
    BY <2>1, <2>2, <2>3
<1>35. CASE UNCHANGED vars
  BY <1>35 DEF vars, env, daemon, hist, EnvTypeOK, AgeTypeOK, DaemonTypeOK, RemovedInv, BudgetInv,
     BudgetRearmed, RestartBudget, SpacingInv, FreshInv
<1> QED
  BY <1>1, <1>2, <1>3, <1>4, <1>5, <1>6, <1>7, <1>8, <1>9, <1>10, <1>11, <1>12, <1>13, <1>14, <1>15, <1>16, <1>17, <1>18, <1>19, <1>20, <1>21, <1>22, <1>23, <1>24, <1>25, <1>26, <1>27, <1>28, <1>29, <1>30, <1>31, <1>32, <1>33, <1>34, <1>35,
     <1>36, <1>37
  DEF Next, Daemon, Environment, ReadAny, CheckAny

\* The initial states satisfy the invariant.
LEMMA Initial == Init => Inv
<1> SUFFICES ASSUME Init PROVE Inv
  OBVIOUS
<1> USE ConstantTypes DEF Init, MmStates, StateAnswers
<1>1. EnvTypeOK
  BY DEF EnvTypeOK
<1>2. AgeTypeOK
  BY DEF AgeTypeOK
<1>3. DaemonTypeOK
  <2>1. {removed, gaveUp, lastFailed, unread} \subseteq BOOLEAN
    BY Zenon
  <2>2. pc \in DaemonPcs /\ st \in StateAnswers
    BY DEF DaemonPcs, StateAnswers, MmStates
  <2> QED
    BY <2>1, <2>2 DEF DaemonTypeOK
<1>4. RemovedInv /\ BudgetInv /\ SpacingInv
  BY DEF RemovedInv, BudgetInv, BudgetRearmed, RestartBudget, SpacingInv
<1>5. FreshInv
  BY DEF FreshInv
<1> QED
  BY <1>1, <1>2, <1>3, <1>4, <1>5 DEF Inv, TypeOK

\* The invariant holds of every reachable state.
LEMMA Invariance == Spec => []Inv
  BY Initial, Step, PTL DEF Spec

-----------------------------------------------------------------------------
\* Every variable of sim-hotplug and of its environment keeps its type.
THEOREM Typing == Spec => []TypeOK
<1>1. Inv => TypeOK
  BY DEF Inv
<1> QED
  BY Invariance, <1>1, PTL

\* Between two sightings of a card, one process of sim-hotplug never writes more
\* than max_restart_attempts modem restarts, whatever the modem and the hands do.
THEOREM Budget == Spec => []RestartBudget
<1>1. Inv => RestartBudget
  BY DEF Inv, BudgetInv
<1> QED
  BY Invariance, <1>1, PTL

\* Every card event starts with the whole restart budget.
THEOREM Rearming == Spec => []BudgetRearmed
<1>1. Inv => BudgetRearmed
  BY DEF Inv, BudgetInv
<1> QED
  BY Invariance, <1>1, PTL

\* The bearer is brought up for the card the baseband reads, whatever fails besides
\* the `mmcli -d` of the refresh: the modem stays disabled until the SIM is read, and
\* the ifup enables a modem that is left disabled.
THEOREM Freshness == Spec => []BringUpFresh
<1>1. Inv => BringUpFresh
  BY DEF Inv, FreshInv, BringUpFresh, BearerSim
<1> QED
  BY Invariance, <1>1, PTL

\* A restart that follows one which came back is restart_backoff later: the age
\* the code keeps is never older than the time since the write.
THEOREM Spacing == Spec => RestartSpacing
<1>1. ASSUME Inv, StartRestart
      PROVE  lastFailed \/ sinceAttempt >= RESTART_BACKOFF
  <2>1. sinceRestart >= RESTART_BACKOFF /\ pc # "cycle"
    BY <1>1 DEF StartRestart, RestartGuard
  <2>2. lastFailed \/ sinceAttempt >= sinceRestart
    BY <1>1, <2>1 DEF Inv, SpacingInv
  <2> QED
    BY <1>1, <2>1, <2>2, ConstantTypes DEF Inv, TypeOK, AgeTypeOK
<1>2. Inv /\ [Next]_vars => [StartRestart => lastFailed \/ sinceAttempt >= RESTART_BACKOFF]_vars
  BY <1>1
<1> QED
  BY Invariance, <1>2, PTL DEF Spec, RestartSpacing
=============================================================================
