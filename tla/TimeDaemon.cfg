SPECIFICATION FairSpec
CONSTANTS
  NBoots = 2
  PortOf <- Ports
  GET_TIMEOUT = 1
  SET_TIMEOUT = 2
  RETRY = 2
  LOOKUP = 2
  DUP_GUARD = 1
  REFRESH = 4
  POLL = 3
  MODEM_BOOT = 1
  WRAP = 64
  MaxLookups = 2
  FaultKinds = {"crash", "silent", "lose", "reject", "flash", "ahead", "kill", "power"}
  MaxFaults = 1
INVARIANTS SyncedMeansSet OffsetFitsBoot RecordConfirmed
PROPERTIES RecordKept StaysSynced
