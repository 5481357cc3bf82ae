CONSTANTS
    Streams = {c1, c2}
    Users = {u1}
    Servers = {p1}
    Overlap = FALSE
    MaxCrashes = 1
    Events = {e1}
    Jobs = {j1, j2}
    Notifications = {d1, d2}
    MaxAttempts = 2
SPECIFICATION Spec
SYMMETRY Symmetry
INVARIANTS TypeOK PresenceExact NotifiedOnce NothingForgotten StayersReceive
PROPERTY ReadStaysRead
CHECK_DEADLOCK FALSE
