\* One session, every goroutine scheduled, and a window that may be closed at any moment.
CONSTANTS
    Slug = {a}
    NoSlug = none
    InitialDirs = {a}
    LeftBehind = {}
    Startup = none
    MayQuit = TRUE
    MaxBoots = 2
SPECIFICATION FairSpec
CHECK_DEADLOCK FALSE
INVARIANT
    ListenersClosed
PROPERTY
    CleanExitRetires
