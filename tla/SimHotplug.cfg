SPECIFICATION FairSpec
CONSTANTS
  c1 = c1
  c2 = c2
  Cards = {c1, c2}
  NoCard = NoCard
  MAX_PULSE = 2
  MAX_RESTARTS = 2
  RESTART_BACKOFF = 5
  IDLE_INTERVAL = 2
  ACTIVE_INTERVAL = 1
  QMI_RETRY = 3
  SETTLE = 0
  ABSENT_INTERVAL = 1
  MODEM_CYCLE = 1
  REGISTER_WAIT = 2
  LOOP_SLEEP = 1
  LONG_SLEEP = 1
  Lever = {TRUE, FALSE}
  MaxSwaps = 2
  MaxFaults = 2
  MaxRespawns = 1

INVARIANTS TypeOK RestartBudget BringUpFresh
PROPERTIES RestartSpacing
PROPERTIES InsertionDetected
