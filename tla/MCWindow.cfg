\* Two sessions, one change of their repositories and two switches; four texts, of which one
\* has another length and one is too long for a document, two more writes and one turn of the
\* file out of reach, from which a write may bring it back; three rows; two documents of two
\* fences, of which the cache keeps one; two owners and two presses of the button; two pulls
\* and one probe beside them.  Two of the texts differ in nothing but that they do, and the
\* tab opens on one of them or on the longer.
CONSTANTS
    Parts = {"chrome", "documents", "rail", "diagrams", "repositories", "ollama"}
    Session = {s1, s2}
    NoSession = nosession
    MaxChanges = 1
    MaxReveals = 2
    Text = {a, b, long, huge}
    Long = {long}
    Huge = {huge}
    NoText = notext
    Opened = {a, long}
    MaxWrites = 3
    MaxTurns = 1
    Row = {r1, r2, r3}
    MaxDocs = 1
    MaxOpens = 1
    MaxDiskMoves = 2
    Run = {n1, n2}
    Fence = {f, g}
    NoRuns = norun
    CacheLimit = 1
    Owner = {o1, o2}
    MaxGen = 2
    MaxEdits = 0
    Asker = {k1}
    MaxPulls = 2
    MaxServerMoves = 1
SPECIFICATION Window
CHECK_DEADLOCK FALSE
INVARIANTS
    WindowTypesOK
    NumbersAreItsOwn
    ProgressIsTold
PROPERTIES
    NothingIsMoved
    WindowCatchesUp
