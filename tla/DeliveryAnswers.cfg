SPECIFICATION PollingSpec
CONSTANTS
    Phones = {p1}
    Seqs = {q1}
    Leases = {l1}
    Hashes = {h1}
    Receipts = {id1}
    Rpcs = {r1}
    Slots = {s1}
    MaxPairings = 1
    Vault = TRUE
    Events = {"unpair", "status", "suspend", "cancel", "expire", "eject", "restart"}
    None = None
CHECK_DEADLOCK FALSE
INVARIANTS
    RemovedPairingIsQuiet
PROPERTIES
    HandlersAnswer
    RemovalEnds
    OrphanRespawned
