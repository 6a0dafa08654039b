SPECIFICATION Spec
CONSTANTS
    Flows = {f1, f2}
    Watchers = {}
    Paths = {a, b}
    Hashes = {h1, h2}
    MaxEdits = 2
    Events = {"delete", "edit", "move", "fail", "nolinks", "eject", "restart"}
    Empty = Empty
    Pass = Pass
    None = None
SYMMETRY Interchangeable
INVARIANTS
    AckedIsKept
PROPERTIES
    NothingOverwritten
