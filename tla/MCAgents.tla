------------------------------ MODULE MCAgents ------------------------------
(* What a session holds and what it shows of its agents, a part at a time: its *)
(* directory, the prompts a launch stamps in it, the numbers of its documents  *)
(* and what is read in them, the tree of the delegated agents, the activity of *)
(* a runner that only reports its agents' lives, the tabs, the windows agents  *)
(* open, the lines a page has on screen, the terminal and the speaker notes.   *)
(* A run checks the parts its cfg names, each from its own initial states; the *)
(* parts share no state, and the others rest.                                  *)
EXTENDS AgentTree, TLC

CONSTANTS
    Parts,                                          \* the parts a run checks
    Repo, Picker, Wanted, Drafted, MaxCrashes, MaxCommits,  \* of SessionDirs
    Primary, MaxLaunches, MaxEdits,                 \* of Stamps
    Creator, Title, MaxTries, MaxFiles,             \* of Artefacts
    MaxBlocks, MaxLines,                            \* of Marks and of Fences
    Child, Handler, MaxGen, MaxSetups, RecordCap,   \* of Activity, the first its Agent
    Owner, Routine, Option, NoSource, MaxTabs,      \* of Tabs
    Name, ToolCall, MaxClaims,                      \* of AgentWindows
    Interval, MaxLoads, MaxReports, MaxIntervals,   \* of Viewport
    Mount, Limit, MaxChunks,                        \* of Terminal
    PageCall, MaxEpochs                             \* of Presenter

\* Where AgentTree's variables rest.
AtRest == ~busy /\ \A a, b \in Agent : agents[a].type = agents[b].type

\* A session of one repository, and one of two.
Assemblies == {"r1" :> "editing", "r1" :> "editing" @@ "r2" :> "reference"}

\* Drafts that share a repository to add, and one that upgrades.
Drafts == {[adds |-> "r2" :> "editing" @@ "r3" :> "reference", ups |-> {}],
           [adds |-> "r3" :> "editing", ups |-> {"r2"}],
           [adds |-> "r3" :> "reference", ups |-> {}]}

Options == {[kind |-> "terminal", source |-> "none", select |-> FALSE, closes |-> TRUE],
            [kind |-> "document", source |-> "spec", select |-> TRUE, closes |-> FALSE]}

\* Intervals that overlap, touch, lie apart and run backwards.
Intervals == {[line |-> 1, to |-> 2], [line |-> 3, to |-> 3], [line |-> 2, to |-> 5],
              [line |-> 7, to |-> 7], [line |-> 4, to |-> 3]}

VARIABLES
    part,       \* the part under check
    \* the variables of that part, in the order its module declares them
    v1, v2, v3, v4, v5, v6, v7, v8, v9, v10, v11

SessionDirs == INSTANCE SessionDirs WITH
    dir <- v1, manifest <- v2, checkout <- v3, ahead <- v4, create <- v5, picker <- v6,
    remove <- v7, removed <- v8, stranded <- v9, crashes <- v10

Stamps == INSTANCE Stamps WITH
    agent <- v1, canonical <- v2, link <- v3, outside <- v4, stamp <- v5, touched <- v6,
    ended <- v7, launches <- v8, edits <- v9

Artefacts == INSTANCE Artefacts WITH
    folder <- v1, creator <- v2, lock <- v3, at <- v4

Marks == INSTANCE Marks WITH
    kind <- v1, tells <- v2, doc <- v3, sections <- v4, phases <- v5, inPhase <- v6,
    verifying <- v7, verified <- v8

Fences == INSTANCE Fences WITH
    lines <- v1, open <- v2, found <- v3, blocks <- v4

Activity == INSTANCE Activity WITH
    Agent <- Child, generation <- v1, setupRuns <- v2, lastRun <- v3, running <- v4,
    waiting <- v5, unread <- v6, rung <- v7, records <- v8, shown <- v9,
    revealing <- v10, notify <- v11

Tabs == INSTANCE Tabs WITH
    opened <- v1, tabSeq <- v2, selected <- v3, shut <- v4, allShut <- v5, sourceBy <- v6,
    running <- v7, ending <- v8, strip <- v9, doing <- v10

AgentWindows == INSTANCE AgentWindows WITH
    names <- v1, claims <- v2, hosted <- v3, unheard <- v4, tool <- v5

Viewport == INSTANCE Viewport WITH
    epoch <- v1, seq <- v2, view <- v3, pageAt <- v4, reports <- v5

Terminal == INSTANCE Terminal WITH
    written <- v1, buffer <- v2, streamBy <- v3, served <- v4, ended <- v5, sent <- v6,
    mounts <- v7, screen <- v8, firsts <- v9

Presenter == INSTANCE Presenter WITH
    notesOpen <- v1, notesEpoch <- v2, pending <- v3, windows <- v4, closing <- v5,
    told <- v6

AgentsVars == <<part, v1, v2, v3, v4, v5, v6, v7, v8, v9, v10, v11, vars>>

AgentsInit ==
    /\ part \in Parts
    /\ Init
    /\ part # "agent tree" => AtRest
    /\ \/ /\ part = "agent tree"
          /\ v1 = 0 /\ v2 = 0 /\ v3 = 0 /\ v4 = 0 /\ v5 = 0 /\ v6 = 0 /\ v7 = 0
          /\ v8 = 0 /\ v9 = 0 /\ v10 = 0 /\ v11 = 0
       \/ /\ part = "session directories" /\ SessionDirs!Init
          /\ v11 = 0
       \/ /\ part = "stamps" /\ Stamps!Init
          /\ v10 = 0 /\ v11 = 0
       \/ /\ part = "artefacts" /\ Artefacts!ArtefactsInit
          /\ v5 = 0 /\ v6 = 0 /\ v7 = 0 /\ v8 = 0 /\ v9 = 0 /\ v10 = 0 /\ v11 = 0
       \/ /\ part = "marks" /\ Marks!Init
          /\ v9 = 0 /\ v10 = 0 /\ v11 = 0
       \/ /\ part = "fences" /\ Fences!Init
          /\ v5 = 0 /\ v6 = 0 /\ v7 = 0 /\ v8 = 0 /\ v9 = 0 /\ v10 = 0 /\ v11 = 0
       \/ /\ part = "activity" /\ Activity!ActivityInit
       \/ /\ part = "tabs" /\ Tabs!Init
          /\ v11 = 0
       \/ /\ part = "agent windows" /\ AgentWindows!Init
          /\ v6 = 0 /\ v7 = 0 /\ v8 = 0 /\ v9 = 0 /\ v10 = 0 /\ v11 = 0
       \/ /\ part = "viewport" /\ Viewport!Init
          /\ v6 = 0 /\ v7 = 0 /\ v8 = 0 /\ v9 = 0 /\ v10 = 0 /\ v11 = 0
       \/ /\ part = "terminal" /\ Terminal!Init
          /\ v10 = 0 /\ v11 = 0
       \/ /\ part = "presenter" /\ Presenter!Init
          /\ v7 = 0 /\ v8 = 0 /\ v9 = 0 /\ v10 = 0 /\ v11 = 0

AgentsNext ==
    \/ /\ part = "agent tree" /\ Next
       /\ UNCHANGED <<part, v1, v2, v3, v4, v5, v6, v7, v8, v9, v10, v11>>
    \/ /\ part = "session directories" /\ SessionDirs!Next
       /\ UNCHANGED <<part, v11, vars>>
    \/ /\ part = "stamps" /\ Stamps!Next
       /\ UNCHANGED <<part, v10, v11, vars>>
    \/ /\ part = "artefacts" /\ Artefacts!ArtefactsNext
       /\ UNCHANGED <<part, v5, v6, v7, v8, v9, v10, v11, vars>>
    \/ /\ part = "marks" /\ Marks!Next
       /\ UNCHANGED <<part, v9, v10, v11, vars>>
    \/ /\ part = "fences" /\ Fences!Next
       /\ UNCHANGED <<part, v5, v6, v7, v8, v9, v10, v11, vars>>
    \/ /\ part = "activity" /\ Activity!ActivityNext
       /\ UNCHANGED <<part, vars>>
    \/ /\ part = "tabs" /\ Tabs!Next
       /\ UNCHANGED <<part, v11, vars>>
    \/ /\ part = "agent windows" /\ AgentWindows!Next
       /\ UNCHANGED <<part, v6, v7, v8, v9, v10, v11, vars>>
    \/ /\ part = "viewport" /\ Viewport!Next
       /\ UNCHANGED <<part, v6, v7, v8, v9, v10, v11, vars>>
    \/ /\ part = "terminal" /\ Terminal!Next
       /\ UNCHANGED <<part, v10, v11, vars>>
    \/ /\ part = "presenter" /\ Presenter!Next
       /\ UNCHANGED <<part, v7, v8, v9, v10, v11, vars>>

Agents == AgentsInit /\ [][AgentsNext]_AgentsVars

ASSUME PartsAssumption ==
    /\ SessionDirs!SessionDirsAssumption /\ Artefacts!ArtefactsAssumption
    /\ Activity!ActivityAssumption /\ Stamps!StampsAssumption
    /\ AgentWindows!AgentWindowsAssumption /\ Viewport!ViewportAssumption
    /\ Terminal!TerminalAssumption /\ Presenter!PresenterAssumption
    /\ Tabs!TabsAssumption

Interchangeable == Permutations(Agent) \cup Permutations(Type) \cup Permutations(Question)

\* The strips as they were drawn decide no step of the tabs and no property here.
Shown ==
    IF part = "tabs" THEN <<part, Tabs!RegistryView>> ELSE <<AgentsVars>>

-----------------------------------------------------------------------------

\* The variables of every part hold what the code's own types let them hold.
AgentTypesOK ==
    /\ TypeOK
    /\ part = "session directories" => SessionDirs!DirTypeOK
    /\ part = "stamps" => Stamps!StampsTypeOK
    /\ part = "artefacts" => Artefacts!ArtefactsTypeOK
    /\ part = "activity" => Activity!ActivityTypeOK
    /\ part = "tabs" => Tabs!TypeOK
    /\ part = "agent windows" => AgentWindows!NamesTypeOK
    /\ part = "viewport" => Viewport!ViewTypeOK
    /\ part = "terminal" => Terminal!TerminalTypeOK
    /\ part = "presenter" => Presenter!PresenterTypeOK

\* A session finds what was put in its directory: what has a manifest is whole, with
\* every checkout on its list, the runner finds the prompt its session was launched with,
\* and the stage marks find the newest document.
SessionIsWhole ==
    /\ part = "session directories" =>
          SessionDirs!ManifestIsWhole /\ SessionDirs!CheckoutsAreListed
    /\ part = "stamps" => Stamps!RunnerFindsItsPrompt
    /\ part = "artefacts" => Artefacts!LatestIsTheNewest

\* The marks and the pictures of a document are its own: a plan's phases count the boxes
\* under their own headings, its stage is marked by what earns it, the fences taken
\* for diagrams are those that opening and closing lines make of the whole document, and the
\* lines a page says it shows are kept.
DocumentsAreReadRight ==
    /\ part = "marks" => Marks!PhasesCountTheirOwn /\ Marks!MarksAreEarned
    /\ part = "fences" => Fences!ScanFindsTheFences
    /\ part = "viewport" => Viewport!ViewCoversTheReport

\* What a session has stays as it is when something else comes later: no writer forgets a
\* repository another put on the list since it read it, no assembly removes a directory
\* that is not its own, no launch replaces or writes through what the user put at a path,
\* and no tab takes the overview's place at the left end of the strip.
SessionIsKept ==
    [][/\ part = "session directories" => SessionDirs!ForgetsNoRepo /\ SessionDirs!ReclaimsItsOwn
       /\ part = "stamps" => Stamps!LeavesTheUsers /\ Stamps!RefusesTheUsers
       /\ part = "tabs" => Tabs!LeavesTheOverview]_AgentsVars

\* What the tree says of an agent it said for good, however late and in whichever order
\* the hooks come: who is whose child, that a report ended it, that its question was
\* answered.
TreeIsSettled ==
    part = "agent tree" => PairedOnce /\ NamedStays /\ ToldStaysDone /\ AnsweredStaysAnswered

\* The tree of a runner that reports only its agents' lives has no agent without a
\* parent and none of another run, and the session it hangs off is marked unread only
\* while the user has not looked.
ActivityIsTrue ==
    part = "activity" => Activity!TreeIsWhole /\ Activity!UnreadMeansAway

\* The strip selects an open tab of its own session and shows one file in one tab, and
\* neither a process outlives its tab nor a tab its session.
TabsAreSound ==
    part = "tabs" => Tabs!StripIsSound /\ Tabs!NothingOutlivesItsSession

\* Windows are what their users take them for: a name of an agent is the latest window
\* opened under it, a viewport the newest report of the page's present load, a terminal
\* the whole output once, and notes that count as open are on screen.
WindowsAreFaithful ==
    /\ part = "agent windows" => AgentWindows!WindowNamesAreFaithful
    /\ part = "viewport" => Viewport!ViewIsOfThisLoad
    /\ part = "terminal" => Terminal!ScreenIsWhole
    /\ part = "presenter" => Presenter!OpenIsOnScreen

\* Commits in a pinned checkout are not left behind by moving it to a branch: what the
\* comment of upgradable says of them.
NoCommitStranded == part = "session directories" => SessionDirs!NoCommitStranded
=============================================================================
