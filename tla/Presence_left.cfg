CONSTANTS
    Streams = {c1, c2}
    Users = {u1}
    Servers = {p1}
    Overlap = TRUE
    MaxCrashes = 0
SPECIFICATION PresenceSpec
INVARIANT LeftMeansOffline
CHECK_DEADLOCK FALSE
