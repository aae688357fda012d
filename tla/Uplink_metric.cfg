SPECIFICATION Spec
CONSTANTS
  g1 = g1
  g2 = g2
  Gateways = {g1, g2}
  NoGw = NoGw
  ConfDns = FALSE
  FAIL_THRESHOLD = 2
  Policies = {"auto", "modem", "sta"}
  MaxEvents = 2
  MaxFaults = 2
INVARIANTS OverrideWins
