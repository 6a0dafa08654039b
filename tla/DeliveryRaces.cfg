SPECIFICATION Spec
CONSTANTS
    Phones = {p1}
    Seqs = {q1}
    Leases = {l1, l2}
    Hashes = {h1}
    Receipts = {id1, id2}
    Rpcs = {r1, r2}
    Slots = {s1, s2}
    MaxPairings = 1
    Vault = FALSE
    Events = {"status", "suspend", "cancel", "delete", "adopt", "restart"}
    None = None
SYMMETRY Interchangeable
CHECK_DEADLOCK FALSE
INVARIANTS
    TypeOK
    RegistryExact
    
    WaitsOnItsTask
    CompletedHasCopy
    NoPartialPhoto
PROPERTIES
    ImplementsLedger
