\* One call made while repositories are being added.
CONSTANTS
    Call = {c1}
    Answer = {a1}
    Header = header
    Nobody = nobody
    Parts = {"escalation"}
    Invocations = {i1}
    Workbenches = {w1}
    Tickets = {t1}
    NoOne = none
    ByHand = manual
    NoDefault = derived
    NoConfig = absent
    NoCall = idle
    Roots = {"a", "b"}
    Folders = {"f", "g"}
    DefaultFolders = {"f"}
    Scales = {0, 1}
    InnerRoots = {"b"}
    OuterFolders = {"g"}
    PinnedRoot = "a"
    SettingCalls = 2
    SettingEdits = 1
    Owners = {"o1", "o2"}
    Presses = 2
    OwnerEdits = 1
    Names = {1, 2, 3}
    PerPage = 2
    ListChanges = 1
    PullRepos = {"r1", "r2"}
    PullMoves = 2
    Docs = {1, 2, 3, 4}
    FusionK = 1
    BestOfChannel = 1
    MostHits = 3
    TextBytes = {"a", "c", "nl"}
    NewlineByte = "nl"
    FollowBytes = {"c"}
    WindowBytes = 3
    MostBytes = 8
    HeadingTexts = {"t", "a", ""}
    DocTitle = "t"
    HeadingLevels = 3
    MostLines = 4
SPECIFICATION Requests
CHECK_DEADLOCK FALSE
INVARIANT
    PickerStaysOpen
