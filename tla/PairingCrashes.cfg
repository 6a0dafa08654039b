SPECIFICATION Spec
CONSTANTS
    Phones = {p1}
    Procs = {d1, d2}
    Reqs = {r1, r2}
    MaxPairings = 2
    MaxKeys = 2
    Vaults = {TRUE, FALSE}
    Events = {"unpair", "crash", "vaultfail", "dbfail", "rekey", "takeover"}
    None = None
SYMMETRY Interchangeable
CHECK_DEADLOCK FALSE
INVARIANTS
    TypeOK
    IndexIsAuthority
    RevokedStaysOut
    OldIdentityGone
PROPERTIES
    EndsAsMeant
