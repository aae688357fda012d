SPECIFICATION Spec
CONSTANTS
    Stations = {s1, s2}
    Channels = {c1, c2}
    AutoChannel = AutoChannel
    MaxOps = 3
    MaxEvents = 3
    MaxFaults = 1
SYMMETRY Symmetry
INVARIANTS
    BssAgreement
    IdleTimer
    StationsCanGo
    KeyWaitsForStart
CHECK_DEADLOCK FALSE
