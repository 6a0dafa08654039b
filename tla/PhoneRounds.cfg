SPECIFICATION FairSpec
CONSTANTS
    N = 2
    MaxFailures = 2
    Events = {"take", "edit", "overwrite", "delete", "lose", "scope", "pause", "stop", "cancel", "restore", "retry", "unread", "fail", "untrash"}
    MaxEvents = 2
    MaxKills = 1
    Taken = {{1}, {1, 2}}
    Chosen = {{2}, {1, 2}}
    None = None
INVARIANTS
    TodoIsComplete
    NothingWrittenOff
    OneUntilOvertaken
PROPERTIES
    ConfirmedAsRead
    EveryPhotoSettles
