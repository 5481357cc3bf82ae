SPECIFICATION Spec
CONSTANTS
    Requests = {r1, r2, r3, r4}
    Identifiers = {i1, i2}
    Sessions = {s1}
    None = None
SYMMETRY Symmetry
INVARIANTS
    TypeOK
    UsersHavePreferences
    OneUserPerIdentifier
    SpentStaysSpent
    SignedInIsVerified
CHECK_DEADLOCK FALSE
