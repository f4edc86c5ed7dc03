\* Two writers and two changes against two supervisors that run on; a session of three
\* roots and one crash; two windows, one of which no model takes, under two models, which
\* are alike, so Ollama starts with the first, with none of the name, or down; two profiles;
\* two files, each with two texts or one that cannot be read.
CONSTANTS
    Parts = {"supervisor", "placement", "vault", "vault set", "vault index"}
    Writer = {w1, w2}
    HasPrompt = TRUE
    MaxOps = 2
    MaxStarts = 2
    Root = {r1, r2, r3}
    Far = {}
    Homes = {r1}
    MaxCrashes = 1
    Served = {d1, "none", "absent"}
    Window = {x1, x2}
    Bad = {x2}
    Digest = {d1, d2}
    Search = {s1}
    Batch = 1
    SaveEvery = 2
    Failures = 1
    MaxChanges = 2
    Profile = {i1, i2}
    Path = {p1, p2}
    MaxServices = 2
    Name = {n1, n2}
    Text = {t1, t2, shut}
    Sealed = {shut}
    MaxEdits = 3
SPECIFICATION Stores
CHECK_DEADLOCK FALSE
INVARIANTS
    StoreTypesOK
    RunnerIsCurrent
    PlacementIsSafe
    VaultIsTrue
PROPERTIES
    NoEndlessRelaunch
    MovesAreFinished
    WorkEnds
