\* A supervisor that is started while an escalation is being written; of the other parts
\* none.
CONSTANTS
    Parts = {"supervisor"}
    Writer = {w1}
    HasPrompt = FALSE
    MaxOps = 1
    MaxStarts = 2
    Root = {r1}
    Far = {}
    Homes = {r1}
    MaxCrashes = 0
    Served = {d1}
    Window = {x1}
    Bad = {}
    Digest = {d1}
    Search = {s1}
    Batch = 1
    SaveEvery = 1
    Failures = 1
    MaxChanges = 1
    Profile = {i1}
    Path = {p1}
    MaxServices = 0
    Name = {n1}
    Text = {t1}
    Sealed = {}
    MaxEdits = 0
SPECIFICATION Stores
CHECK_DEADLOCK FALSE
INVARIANT
    EscalationHandsOver
