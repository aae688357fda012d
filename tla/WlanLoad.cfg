SPECIFICATION Spec
CONSTANTS
  MaxKicks = 3
  MaxRequests = 3
  MaxFaults = 2
INVARIANTS GivesBack RequestsFindTheCore ModeHeeded
PROPERTIES OrderedRelease
CHECK_DEADLOCK FALSE
