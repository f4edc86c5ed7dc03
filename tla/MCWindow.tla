------------------------------ MODULE MCWindow ------------------------------
(* What the window shows of what goes on behind it, a part at a time: the       *)
(* numbers around the session on screen, the document a tab shows and saves,   *)
(* the rail of sessions with its marks, the diagrams, the repositories of the  *)
(* picker, and the pulls of the search model.  A run checks the parts its cfg  *)
(* names, each from its own initial states; the parts share no state, and the  *)
(* others rest.                                                                *)
EXTENDS Chrome, TLC

CONSTANTS
    Parts,                              \* the parts a run checks
    Text, Long, Huge, NoText,           \* of Documents: its Text, those of another length, those too
                                        \* long for a document, its NoPush
    Opened,                             \* what a run has the file hold at first
    MaxWrites, MaxTurns,                \* its bounds
    Row, MaxDocs, MaxOpens, MaxDiskMoves,    \* of Rail, the first its Session
    Run, Fence, NoRuns, CacheLimit,     \* of Diagrams, the third its NoRun
    Owner, MaxGen, MaxEdits,            \* of Repositories
    Asker, MaxPulls, MaxServerMoves     \* of Ollama, the last its MaxChanges

\* Texts of two lengths, and of one that no document has.
DocumentLimit == 2
Lengths == [t \in Text |-> IF t \in Huge THEN 3 ELSE IF t \in Long THEN 2 ELSE 1]

VARIABLES
    part,       \* the part under check
    \* the variables of that part, in the order its module declares them
    v1, v2, v3, v4, v5, v6, v7, v8, v9, v10

Documents == INSTANCE Documents WITH
    SizeOf <- Lengths, Limit <- DocumentLimit, NoPush <- NoText, file <- v1, tabText <- v2, tabRead <- v3,
    docLock <- v4, job <- v5, pageText <- v6, push <- v7, lost <- v8,
    reach <- v9, turns <- v10

Rail == INSTANCE Rail WITH
    Session <- Row, recent <- v1, written <- v2, onScreen <- v3, opening <- v4,
    nudged <- v5, rail <- v6, marks <- v7, rows <- v8, railSpent <- v9

Diagrams == INSTANCE Diagrams WITH
    NoRun <- NoRuns, run <- v1, worker <- v2, ruler <- v3, drawing <- v4, cause <- v5,
    cache <- v6, overran <- v7, quit <- v8

Repositories == INSTANCE Repositories WITH
    configured <- v1, repos <- v2, errs <- v3, gen <- v4, runs <- v5, disk <- v6,
    ownerEdits <- v7

Ollama == INSTANCE Ollama WITH
    MaxChanges <- MaxServerMoves, server <- v1, status <- v2, pull <- v3, pulls <- v4,
    generation <- v5, at <- v6, cancelled <- v7, asker <- v8, quitting <- v9,
    changes <- v10

WindowVars == <<part, v1, v2, v3, v4, v5, v6, v7, v8, v9, v10, chromeVars>>

WindowInit ==
    /\ part \in Parts
    /\ ChromeInit
    /\ \/ /\ part = "chrome"
          /\ v1 = 0 /\ v2 = 0 /\ v3 = 0 /\ v4 = 0 /\ v5 = 0 /\ v6 = 0 /\ v7 = 0
          /\ v8 = 0 /\ v9 = 0 /\ v10 = 0
       \/ /\ part = "documents" /\ Documents!Init /\ v1.text \in Opened
       \/ /\ part = "rail" /\ Rail!RailInit /\ v1 \in {<<>>, Rail!SetToSeq(Row)}
          /\ v10 = 0
       \/ /\ part = "diagrams" /\ Diagrams!Init
          /\ v9 = 0 /\ v10 = 0
       \/ /\ part = "repositories" /\ Repositories!RepoInit
          /\ v8 = 0 /\ v9 = 0 /\ v10 = 0
       \/ /\ part = "ollama" /\ Ollama!Init

WindowNext ==
    \/ /\ part = "chrome" /\ ChromeNext
       /\ UNCHANGED <<part, v1, v2, v3, v4, v5, v6, v7, v8, v9, v10>>
    \/ /\ part = "documents" /\ Documents!Next
       /\ UNCHANGED <<part, chromeVars>>
    \/ /\ part = "rail" /\ Rail!RailNext
       /\ UNCHANGED <<part, v10, chromeVars>>
    \/ /\ part = "diagrams" /\ Diagrams!Next
       /\ UNCHANGED <<part, v9, v10, chromeVars>>
    \/ /\ part = "repositories" /\ Repositories!RepoNext
       /\ UNCHANGED <<part, v8, v9, v10, chromeVars>>
    \/ /\ part = "ollama" /\ Ollama!Next
       /\ UNCHANGED <<part, chromeVars>>

\* What the two parts with a strong fairness have to look at first.  They are apart, so
\* that to be fair to the choice between the two is to be fair to each of them.
TakeFirst ==
    /\ UNCHANGED part
    /\ \/ part = "chrome" /\ TakeMeasurement
       \/ part = "documents" /\ Documents!RescanStat

\* The fairness of each part is the one its module states.
Window ==
    /\ WindowInit /\ [][WindowNext]_WindowVars
    /\ WF_chromeVars(part = "chrome" /\ Revealed)
    /\ \A s \in Session : WF_chromeVars(part = "chrome" /\ RepositoriesChanged(s))
    /\ WF_chromeVars(part = "chrome" /\ Measure)
    /\ WF_chromeVars(part = "chrome" /\ FetchPulls)
    /\ WF_chromeVars(part = "chrome" /\ LoopStep)
    /\ SF_(IF part = "chrome" THEN chromeVars ELSE Documents!docVars)(TakeFirst)
    /\ SF_chromeVars(part = "chrome" /\ TakePulls)
    /\ SF_chromeVars(part = "chrome" /\ TakeTouch)
    /\ SF_chromeVars(part = "chrome" /\ StatsTick)
    /\ WF_(Documents!docVars)(part = "documents" /\ Documents!RescanRead)
    /\ WF_(Documents!docVars)(part = "documents" /\ Documents!Push)
    /\ WF_(Documents!docVars)(part = "documents" /\ Documents!BeginDocument)
    /\ WF_(Documents!docVars)(part = "documents" /\ Documents!SaveRecords)
    /\ WF_(Documents!docVars)(part = "documents" /\ Documents!SaveEnds)
    /\ WF_(Rail!railVars)(part = "rail" /\ Rail!MarkOpened)
    /\ WF_(Rail!railVars)(part = "rail" /\ Rail!Nudge)
    /\ WF_(Rail!railVars)(part = "rail" /\ Rail!TakeNudge)
    /\ \A r \in Run :
          WF_(Diagrams!diagramVars)(part = "diagrams" /\ Diagrams!RunStep(r))
    /\ WF_(Diagrams!diagramVars)(part = "diagrams" /\ Diagrams!WorkerStep)
    /\ WF_(Diagrams!diagramVars)(part = "diagrams" /\ Diagrams!StopStep)
    /\ \A g \in Repositories!Gens :
          WF_(Repositories!repoVars)(part = "repositories" /\ Repositories!Step(g))
    /\ \A p \in 1 .. MaxPulls : WF_(Ollama!ollamaVars)(part = "ollama" /\ Ollama!PullStep(p))

ASSUME PartsAssumption ==
    /\ Documents!SizeAssumption /\ Rail!RailAssumption
    /\ Repositories!RepositoriesAssumption
    /\ Diagrams!CacheLimitAssumption /\ Ollama!MaxPullsAssumption

-----------------------------------------------------------------------------

\* The variables of every part hold what the code's own types let them hold.
WindowTypesOK ==
    /\ ChromeTypeOK
    /\ part = "documents" => Documents!DocTypeOK
    /\ part = "rail" => Rail!RailTypeOK
    /\ part = "diagrams" => Diagrams!DiagramsTypeOK
    /\ part = "repositories" => Repositories!RepoTypeOK
    /\ part = "ollama" => Ollama!OllamaTypeOK

\* A pull is drawn exactly while one is in flight, and a diagram counts as too slow after
\* its own budget alone, measured against a ruler nobody else draws with.
ProgressIsTold ==
    /\ part = "ollama" => Ollama!PullingIsInFlight
    /\ part = "diagrams" => Diagrams!RulerIsAlone /\ Diagrams!LateIsTheSources

\* A save replaces no write that came before its own read of the file, and no row of the
\* rail moves but one the user drags or one that is new.
StaysInPlace ==
    /\ part = "documents" => Documents!LosesInTheWindow
    /\ part = "rail" => Rail!KeepsPlaces

NothingIsMoved == [][StaysInPlace]_WindowVars

Rested ==
    /\ part = "chrome" => Agrees /\ PullsAgree
    /\ part = "documents" => Documents!CaughtUp
    /\ part = "rail" => Rail!MarkIsOut
    /\ part = "diagrams" => Diagrams!FencesAreTold /\ Diagrams!QuitIsOver
    /\ part = "repositories" => Repositories!Refreshed
    /\ part = "ollama" => Ollama!CancelledAreOver

\* Once nothing changes any more the window comes to agree with what is behind it: its
\* numbers are the newest of the session on screen and come back after every slow tick,
\* which takes them away, its pull requests were fetched after the last change, a tab
\* shows a text of its file's length as long as there is such a document, no mark stays on a session on screen, every fence of
\* a document is told, a quit is not held up by a drawing, the fan-out of every refresh is
\* over with the newest told it is complete, and a pull given up on ends.
WindowCatchesUp == <>[]Rested /\ []<>(part = "chrome" => HasItsNumbers)
=============================================================================
