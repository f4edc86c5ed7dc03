----------------------------- MODULE MCRequests -----------------------------
(* What is asked of qrouton and of GitHub, a part at a time: the picker's      *)
(* requests, command lines with their tickets, the settings a user saves,      *)
(* lists read by the page, the repositories of the picker, rows kept by their  *)
(* ETag, and searches.  A run checks the parts its cfg names, each from its    *)
(* own initial states; the parts share no state, and the others rest.          *)
EXTENDS Escalation, SequencesExt, TLC

CONSTANTS
    Parts,                                \* the parts a run checks
    Invocations, Workbenches, Tickets,    \* of Launch
    NoOne, ByHand,                        \* its None and Manual
    NoDefault, NoConfig, NoCall,          \* Derived, Absent and Idle of Settings
    Roots, Folders, DefaultFolders, Scales,     \* its Root, Folder, Default and Scale
    InnerRoots, OuterFolders,             \* roots that lie in a folder, and the folders they lie in
    PinnedRoot,                           \* the root an environment override names
    SettingCalls, SettingEdits,           \* its bounds
    Names, PerPage, ListChanges,          \* Name, PageSize and the bound of Paging
    Owners, Presses, OwnerEdits,          \* Owner and the bounds of Repositories
    PullRepos, PullMoves,                 \* Repo and the bound of PullRequests
    Docs, FusionK, BestOfChannel, MostHits,     \* Doc, K, ChannelTop and MaxLimit of Retrieval
    TextBytes, NewlineByte, FollowBytes,  \* Byte, Newline and Follow of Chunks
    WindowBytes, MostBytes,               \* its WindowChars and its bound
    HeadingTexts, DocTitle, HeadingLevels, MostLines  \* Name, Title, Levels and the bound of Crumbs

\* Where Escalation's variables rest.
AtRest == mode = "assistant" /\ stanza = "none"

\* No shared folder, or all of them in any order.
FolderLists == {<<>>} \cup SetToSeqs(Folders)
RootsAbove  == [f \in Folders |-> IF f \in OuterFolders THEN InnerRoots ELSE {}]

VARIABLES
    part,       \* the part under check
    \* the variables of that part, in the order its module declares them
    v1, v2, v3, v4, v5, v6, v7, v8, v9, v10, v11

Launch == INSTANCE Launch WITH
    Invocation <- Invocations, Workbench <- Workbenches, Ticket <- Tickets,
    None <- NoOne, Manual <- ByHand, MayOrphan <- FALSE, lock <- v1, descriptor <- v2,
    call <- v3, offer <- v4, wb <- v5, welcomed <- v6, made <- v7, settled <- v8

Settings == INSTANCE Settings WITH
    Root <- Roots, Folder <- Folders, Default <- DefaultFolders, Lists <- FolderLists,
    Above <- RootsAbove, Scale <- Scales, Derived <- NoDefault, Absent <- NoConfig,
    Idle <- NoCall, MaxCalls <- SettingCalls, MaxEdits <- SettingEdits, onDisk <- v1, live <- v2, quitting <- v3, indexed <- v4,
    pinned <- v5, bootRoot <- v6, doing <- v7, told <- v8, successor <- v9,
    calls <- v10, edits <- v11

Paging == INSTANCE Paging WITH
    Name <- Names, PageSize <- PerPage, MaxChanges <- ListChanges, there <- v1, foreign <- v2,
    ask <- v3, names <- v4, fromStart <- v5, removed <- v6, changes <- v7

Repositories == INSTANCE Repositories WITH
    Owner <- Owners, MaxGen <- Presses, MaxEdits <- OwnerEdits, configured <- v1, repos <- v2,
    errs <- v3, gen <- v4, runs <- v5, disk <- v6, ownerEdits <- v7

PullRequests == INSTANCE PullRequests WITH
    Repo <- PullRepos, MaxMoves <- PullMoves, github <- v1, editing <- v2, cache <- v3,
    fetch <- v4, moves <- v5

Retrieval == INSTANCE Retrieval WITH
    Doc <- Docs, K <- FusionK, ChannelTop <- BestOfChannel, MaxLimit <- MostHits,
    lexical <- v1, dense <- v2, limit <- v3, answer <- v4

Chunks == INSTANCE Chunks WITH
    Byte <- TextBytes, Newline <- NewlineByte, Follow <- FollowBytes, WindowChars <- WindowBytes,
    MaxBytes <- MostBytes, text <- v1, at <- v2, open <- v3, para <- v4, line <- v5, windows <- v6

Crumbs == INSTANCE Crumbs WITH
    Name <- HeadingTexts, Title <- DocTitle, Levels <- HeadingLevels, MaxLines <- MostLines,
    body <- v1, read <- v2, headings <- v3, section <- v4, chunks <- v5

RequestsVars == <<part, v1, v2, v3, v4, v5, v6, v7, v8, v9, v10, v11, vars>>

RequestsInit ==
    /\ part \in Parts
    /\ Init
    /\ part # "escalation" => AtRest
    /\ part = "escalation" => stanza # "cancelled"
    /\ \/ /\ part = "escalation"
          /\ v1 = 0 /\ v2 = 0 /\ v3 = 0 /\ v4 = 0 /\ v5 = 0 /\ v6 = 0 /\ v7 = 0
          /\ v8 = 0 /\ v9 = 0 /\ v10 = 0 /\ v11 = 0
       \/ /\ part = "launch" /\ Launch!Init /\ v7 # Tickets
          /\ v9 = 0 /\ v10 = 0 /\ v11 = 0
       \/ /\ part = "settings" /\ Settings!Init
          /\ v5 \in {PinnedRoot, NoDefault}
          /\ v5 = PinnedRoot => Settings!Read(v1).root # PinnedRoot
       \/ /\ part = "paging" /\ Paging!Init
          /\ v8 = 0 /\ v9 = 0 /\ v10 = 0 /\ v11 = 0
       \/ /\ part = "repositories" /\ Repositories!RepoInit
          /\ v8 = 0 /\ v9 = 0 /\ v10 = 0 /\ v11 = 0
       \/ /\ part = "pull requests" /\ PullRequests!PullsInit
          /\ v6 = 0 /\ v7 = 0 /\ v8 = 0 /\ v9 = 0 /\ v10 = 0 /\ v11 = 0
       \/ /\ part = "retrieval" /\ Retrieval!Init
          /\ v5 = 0 /\ v6 = 0 /\ v7 = 0 /\ v8 = 0 /\ v9 = 0 /\ v10 = 0 /\ v11 = 0
       \/ /\ part = "chunks" /\ Chunks!Init
          /\ v7 = 0 /\ v8 = 0 /\ v9 = 0 /\ v10 = 0 /\ v11 = 0
       \/ /\ part = "crumbs" /\ Crumbs!CrumbsInit
          /\ v6 = 0 /\ v7 = 0 /\ v8 = 0 /\ v9 = 0 /\ v10 = 0 /\ v11 = 0

RequestsNext ==
    \/ /\ part = "escalation" /\ Next
       /\ UNCHANGED <<part, v1, v2, v3, v4, v5, v6, v7, v8, v9, v10, v11>>
    \/ /\ part = "launch" /\ Launch!Next
       /\ UNCHANGED <<part, v9, v10, v11, vars>>
    \/ /\ part = "settings" /\ Settings!Next
       /\ UNCHANGED <<part, vars>>
    \/ /\ part = "paging" /\ Paging!Next
       /\ UNCHANGED <<part, v8, v9, v10, v11, vars>>
    \/ /\ part = "repositories" /\ Repositories!RepoNext
       /\ UNCHANGED <<part, v8, v9, v10, v11, vars>>
    \/ /\ part = "pull requests" /\ PullRequests!PullsNext
       /\ UNCHANGED <<part, v6, v7, v8, v9, v10, v11, vars>>
    \/ /\ part = "retrieval" /\ Retrieval!Next
       /\ UNCHANGED <<part, v5, v6, v7, v8, v9, v10, v11, vars>>
    \/ /\ part = "chunks" /\ Chunks!Next
       /\ UNCHANGED <<part, v7, v8, v9, v10, v11, vars>>
    \/ /\ part = "crumbs" /\ Crumbs!CrumbsNext
       /\ UNCHANGED <<part, v6, v7, v8, v9, v10, v11, vars>>

Requests == RequestsInit /\ [][RequestsNext]_RequestsVars

ASSUME PartsAssumption ==
    /\ Launch!NamesAssumption /\ Launch!OrphanAssumption
    /\ Settings!SettingsAssumption /\ Paging!PagingAssumption
    /\ Repositories!RepositoriesAssumption /\ PullRequests!PullRequestsAssumption
    /\ Retrieval!RetrievalAssumption /\ Chunks!ChunksAssumption /\ Crumbs!CrumbsAssumption

Interchangeable ==
    UNION {Permutations(S) : S \in {Call, Answer, Invocations, Tickets, Owners}}

-----------------------------------------------------------------------------

\* The variables of every part hold what the code's own types let them hold.
RequestTypesOK ==
    /\ TypeOK
    /\ part = "launch" => Launch!TypeOK
    /\ part = "settings" => Settings!SettingsTypeOK
    /\ part = "repositories" => Repositories!RepoTypeOK

\* There is one workbench, whoever asks for one, a published descriptor leads to it,
\* and a ticket brought by a command line is with somebody until it is settled.
LaunchIsSound ==
    part = "launch" => Launch!OneWorkbench /\ Launch!Findable /\ Launch!TicketKept

\* What is told is so: routing and search never disagree, a restart is announced just when
\* one is needed and saving the settings as they were loaded changes nothing; a list read a
\* page at a time is whole; and rows kept by their ETag are those GitHub still has when it
\* answers that nothing was modified.
WhatIsToldIsTrue ==
    /\ part = "settings" =>
          Settings!RoutingIsIndexed /\ Settings!RestartToldTruly /\ Settings!PanelRoundTrip
    /\ part = "paging" => Paging!ListIsWhole
    /\ part = "pull requests" => PullRequests!NotModifiedIsTrue

TakesNothing ==
    /\ part = "launch" => Launch!DisplacesNone
    /\ part = "repositories" => Repositories!NotOlder
    /\ part = "settings" => Settings!HoldsRouting /\ Settings!KeepsTheRest

\* Nothing asked for is taken back by what was asked earlier: no ticket that waits is
\* displaced by another, no list of repositories on the screen by an older one, no setting
\* that one handler or the user wrote by another handler's save.
NothingIsTaken == [][TakesNothing]_RequestsVars

\* What is searched for is found where it stands: no text of a document is lost on its way
\* into sections and windows, nor misplaced in it, and a search puts what both channels
\* agree on before the rest and shows the best of either.
WhatIsFoundIsTrue ==
    /\ part = "crumbs" => Crumbs!ProseIsPlaced
    /\ part = "chunks" => Chunks!WindowsHoldTheText /\ Chunks!WindowsNameTheirLines
    /\ part = "retrieval" => Retrieval!AgreementFirst /\ Retrieval!BestOfEitherShown
=============================================================================
