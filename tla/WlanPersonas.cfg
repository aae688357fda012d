SPECIFICATION Spec
CONSTANTS
    Wlan = Wlan
    P2p = P2p
    MaxActive = 2
    FailKinds <- AllKinds
    MaxOps = 5
    MaxLate = 1
    MaxFails = 1
    MaxSsr = 1
INVARIANTS
    OpenCountsPersonas
    ActiveCountsLinks
    SessionFlagTrue
    PowerSaveComesBack
CONSTRAINT TwoTroubles
CHECK_DEADLOCK FALSE
