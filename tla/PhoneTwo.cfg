SPECIFICATION Spec
CONSTANTS
    N = 2
    MaxFailures = 2
    Events = {"overwrite", "edit", "stop", "pause"}
    MaxEvents = 2
    MaxKills = 1
    Taken = {{1}, {1, 2}}
    Chosen = {{2}, {1, 2}}
    None = None
INVARIANTS
    OneInFlight
