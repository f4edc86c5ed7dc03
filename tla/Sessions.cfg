\* Two sessions on disk, one with a supervisor left behind by an earlier workbench: the
\* names are told apart by that, so there is no symmetry between them.
CONSTANTS
    Slug = {a, b}
    NoSlug = none
    InitialDirs = {a, b}
    LeftBehind = {b}
    Startup = none
    MayQuit = FALSE
    MaxBoots = 2
SPECIFICATION Spec
CHECK_DEADLOCK FALSE
INVARIANTS
    TypeOK
    OneSupervisor
    WindowIsSound
PROPERTY
    ImplementsSlots
