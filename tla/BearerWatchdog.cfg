SPECIFICATION BusySpec
CONSTANTS
  STALL_TIMEOUT = 2
  PROBE_ATTEMPTS = 3
  PROBE_FAIL_MIN = 2
  KEEPALIVE_INTERVAL = 2
  COOLDOWN_SECS = 3
  EXTENDED_COOLDOWN_SECS = 6
  MAX_RECOVERY_ATTEMPTS = 1
  BEARER_DOWN_RECOVER_SECS = 2
  BEARER_REARM_COOLDOWN = 2
  ZOMBIE_NUDGE_SECS = 2
  ZOMBIE_NUDGE_COOLDOWN = 3
  SsrLever = {TRUE}
  FaultKinds = {"link", "dormancy", "connect", "busy", "mm", "fatal", "disable", "kill"}
  MaxFaults = 2
INVARIANTS TypeOK NoLadderOnHealthyLink
PROPERTIES StallCured BearerReturns
