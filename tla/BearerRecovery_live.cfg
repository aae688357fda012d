SPECIFICATION RFairSpec
CONSTANTS
  STALL_TIMEOUT = 1
  PROBE_ATTEMPTS = 3
  PROBE_FAIL_MIN = 1
  KEEPALIVE_INTERVAL = 1
  COOLDOWN_SECS = 1
  EXTENDED_COOLDOWN_SECS = 2
  MAX_RECOVERY_ATTEMPTS = 1
  BEARER_DOWN_RECOVER_SECS = 2
  BEARER_REARM_COOLDOWN = 2
  ZOMBIE_NUDGE_SECS = 1
  ZOMBIE_NUDGE_COOLDOWN = 1
  SsrLever = {TRUE}
  FaultKinds = {"user", "busy", "killcfg", "ping", "killled", "kill", "block"}
  MaxFaults = 2
  LedRecovers = TRUE
PROPERTIES StuckIsRedriven ReturnsUnlessLeft
