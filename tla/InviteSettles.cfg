SPECIFICATION Spec
CONSTANTS
    Phones = {p1}
    MaxTokens = 2
    MaxReqs = 2
    MaxScans = 2
    MaxCrashes = 1
    Wrong = Wrong
    Reject = Reject
    None = None
CHECK_DEADLOCK FALSE
PROPERTIES
    SettlesOrDied
    WaitsEnd
