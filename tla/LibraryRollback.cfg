SPECIFICATION Spec
CONSTANTS
    Flows = {f1}
    Watchers = {}
    Paths = {a}
    Hashes = {h1}
    MaxEdits = 0
    Events = {"adopt"}
    Empty = Empty
    Pass = Pass
    None = None
PROPERTIES
    RollbackSparesTheCopy
