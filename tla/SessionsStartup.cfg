\* A workbench started on the session an external ticket then asks for.
CONSTANTS
    Slug = {a}
    NoSlug = none
    InitialDirs = {a}
    LeftBehind = {}
    Startup = a
    MayQuit = FALSE
    MaxBoots = 2
SPECIFICATION Spec
CHECK_DEADLOCK FALSE
INVARIANT
    OneSupervisor
