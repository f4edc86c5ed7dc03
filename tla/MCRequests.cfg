\* Two calls and two answers of the picker, in any order; two command lines and three
\* workbenches, so that each can start one and one can be replaced; two tickets, so that
\* one can be in the other's way; two owners.  The parts share no state, and share their
\* names: one symmetry of four serves all of them.
CONSTANTS
    Call = {c1, c2}
    Answer = {a1, a2}
    Header = header
    Nobody = nobody
    Parts = {"escalation", "launch", "settings", "paging", "repositories", "pull requests", "retrieval", "chunks", "crumbs"}
    Invocations = {c1, c2}
    Workbenches = {w1, w2, w3}
    Tickets = {a1, a2}
    NoOne = none
    ByHand = manual
    NoDefault = derived
    NoConfig = absent
    NoCall = idle
    Roots = {"a", "b"}
    Folders = {"f", "g"}
    DefaultFolders = {"f"}
    Scales = {0, 1}
    InnerRoots = {"b"}
    OuterFolders = {"g"}
    PinnedRoot = "a"
    SettingCalls = 2
    SettingEdits = 1
    Owners = {c1, c2}
    Presses = 2
    OwnerEdits = 1
    Names = {1, 2, 3}
    PerPage = 2
    ListChanges = 1
    PullRepos = {"r1", "r2"}
    PullMoves = 2
    Docs = {1, 2, 3, 4}
    FusionK = 1
    BestOfChannel = 1
    MostHits = 3
    TextBytes = {"a", "c", "nl"}
    NewlineByte = "nl"
    FollowBytes = {"c"}
    WindowBytes = 3
    MostBytes = 8
    HeadingTexts = {"t", "a", ""}
    DocTitle = "t"
    HeadingLevels = 3
    MostLines = 4
SPECIFICATION Requests
SYMMETRY Interchangeable
CHECK_DEADLOCK FALSE
INVARIANTS
    RequestTypesOK
    ToldWhatHappened
    AnsweredIsCleared
    LaunchIsSound
    WhatIsToldIsTrue
    WhatIsFoundIsTrue
PROPERTY
    NothingIsTaken
