\* Two agents and a question: six hooks in any order, one of them of the other kinds,
\* or five, two of them of those.
CONSTANTS
    Agent = {a1, a2}
    Type = {t1, t2}
    Question = {q1}
    Root = root
    None = none
    MaxHooks = 6
    MaxOther = 2
    MaxBoth = 7
    Parts = {"agent tree", "session directories", "stamps", "artefacts", "marks", "fences", "activity", "tabs", "agent windows", "viewport", "terminal", "presenter"}
    Repo = {"r1", "r2", "r3"}
    Picker = {"p1", "p2"}
    Wanted <- Assemblies
    Drafted <- Drafts
    MaxCrashes = 1
    MaxCommits = 1
    Primary = {"rpi", "assistant"}
    MaxLaunches = 3
    MaxEdits = 2
    Creator = {"c1", "c2"}
    Title = {"t1", "t2"}
    MaxTries = 2
    MaxFiles = 3
    MaxBlocks = 5
    MaxLines = 5
    Child = {"a", "b"}
    Handler = {"h1"}
    MaxGen = 2
    MaxSetups = 1
    RecordCap = 2
    Owner = {"o1"}
    Routine = {"c1", "c2"}
    Option <- Options
    NoSource = "none"
    MaxTabs = 2
    Name = {"n1"}
    ToolCall = {"t1", "t2"}
    MaxClaims = 3
    Interval <- Intervals
    MaxLoads = 2
    MaxReports = 2
    MaxIntervals = 2
    Mount = {"m1", "m2"}
    Limit = 2
    MaxChunks = 3
    PageCall = {"c1", "c2"}
    MaxEpochs = 4
SPECIFICATION Agents
SYMMETRY Interchangeable
VIEW Shown
CHECK_DEADLOCK FALSE
INVARIANTS
    AgentTypesOK
    SessionIsWhole
    TreeIsSettled
    ActivityIsTrue
    TabsAreSound
    DocumentsAreReadRight
    WindowsAreFaithful
PROPERTIES
    OutlivesChildren
    SessionIsKept
