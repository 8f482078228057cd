CONSTANTS
    Humans = {h1}
    Nobody = Nobody
    Sessions = {s1, s2}
    Codes = {c1}
    Devices = {d1}
    Names = {n1}
    MaxLockdowns = 1
    MaxRequests = 2
SYMMETRY SlotSymmetry
CHECK_DEADLOCK FALSE
SPECIFICATION Spec
INVARIANTS
    TypeOK
    LockdownSevers
    SessionsKnowThePassword
    AccountsCarryTheirCredentials
PROPERTIES
    RevokedStaysRevoked
    AuthorityIsEarned
