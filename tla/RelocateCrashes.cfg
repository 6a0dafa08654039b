SPECIFICATION Spec
CONSTANTS
    ppf = ppf
    originals = originals
    notes = notes
    Names = {ppf, originals, notes}
    Marker = ppf
    Files = {notes}
    Indexed = {originals}
    MaxUser = 1
    MaxCrashes = 2
    None = None
CHECK_DEADLOCK FALSE
INVARIANTS
    NothingLost
    EndsInOneOfTwo
PROPERTIES
    OthersUntouched
    MoveEnds
