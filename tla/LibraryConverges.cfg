SPECIFICATION FairSpec
CONSTANTS
    Flows = {f1}
    Watchers = {w1}
    Paths = {a, b}
    Hashes = {h1}
    MaxEdits = 1
    Events = {"watch", "adopt", "delete", "edit", "move", "hasty", "fail"}
    Empty = Empty
    Pass = Pass
    None = None
PROPERTIES
    IndexConverges
