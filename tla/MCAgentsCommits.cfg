\* A session whose pinned checkout is committed to while it is moved to a branch.
CONSTANTS
    Agent = {a1}
    Type = {t1}
    Question = {q1}
    Root = root
    None = none
    MaxHooks = 1
    MaxOther = 1
    MaxBoth = 2
    Parts = {"session directories"}
    Repo = {"r1", "r2", "r3"}
    Picker = {"p1", "p2"}
    Wanted <- Assemblies
    Drafted <- Drafts
    MaxCrashes = 1
    MaxCommits = 1
    Primary = {"rpi", "assistant"}
    MaxLaunches = 3
    MaxEdits = 2
    Creator = {"c1", "c2"}
    Title = {"t1", "t2"}
    MaxTries = 2
    MaxFiles = 3
    MaxBlocks = 5
    MaxLines = 5
    Child = {"a", "b"}
    Handler = {"h1"}
    MaxGen = 2
    MaxSetups = 1
    RecordCap = 2
    Owner = {"o1"}
    Routine = {"c1", "c2"}
    Option <- Options
    NoSource = "none"
    MaxTabs = 2
    Name = {"n1"}
    ToolCall = {"t1", "t2"}
    MaxClaims = 3
    Interval <- Intervals
    MaxLoads = 2
    MaxReports = 2
    MaxIntervals = 2
    Mount = {"m1", "m2"}
    Limit = 2
    MaxChunks = 3
    PageCall = {"c1", "c2"}
    MaxEpochs = 4
SPECIFICATION Agents
CHECK_DEADLOCK FALSE
INVARIANT
    NoCommitStranded
