SPECIFICATION Spec
CONSTANTS
    Phones = {p1, p2}
    MaxTokens = 2
    MaxReqs = 2
    MaxScans = 2
    MaxCrashes = 1
    Wrong = Wrong
    Reject = Reject
    None = None
SYMMETRY Interchangeable
CHECK_DEADLOCK FALSE
INVARIANTS
    OneInviteOnePhone
    CodeWasTyped
    JoinedIsRecorded
    DecidedIsHonoured
    RowIsLastRequest
