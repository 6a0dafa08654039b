SPECIFICATION Spec
CONSTANTS
    small = small
    mid = mid
    full = full
    Paths = {x, y}
    Contents = {small, mid, full}
    Redacted <- Chain
    Phones = {p1}
    p1 = p1
    DirOf <- Own
    Reqs = {r1}
    Pids = {d1, d2}
    MaxUpsets = 1
    MaxStarts = 2
    None = None
SYMMETRY Interchangeable
CHECK_DEADLOCK FALSE
INVARIANTS
    SwapIsBacked
    KeptWhole
    SupersededIsKnown
PROPERTIES
    StartsWhole
    SweepLosesNothing
