------------------------------ MODULE Settings ------------------------------
(***************************************************************************)
(* config.json, the generation of it the process runs on, and the handlers *)
(* that write both: Settings.Save, AdjustUIScale, FirstRun.Save, the       *)
(* placement record, OpenConfig and Relaunch.  Each runs as one            *)
(* transaction of the config's writer; routing reads the live generation   *)
(* and search reads the index, so a commit that fails half way must leave  *)
(* the two agreeing.  The user's editor takes no lock at all.              *)
(***************************************************************************)
EXTENDS Naturals, Sequences, SequencesExt

CONSTANTS
    Root,          \* sessions roots
    Folder,        \* thoughts folders; each shared one has orgs of its own
    Default,       \* the folders a default may be set to
    Lists,         \* the lists of shared folders to choose from
    Above,         \* Folder -> the roots the folder's path holds
    Scale,         \* UI scales, 0 the default
    Derived,       \* no default folder is set: it is the root's own
    Absent, Idle,  \* no config, and no call
    MaxCalls,      \* bound: handlers run
    MaxEdits       \* bound: saves from the user's editor

Handler == {"save", "scale", "first", "mark", "open", "relaunch"}

VARIABLES
    onDisk,        \* config.json: a config, or Absent
    live,          \* the running generation
    quitting,      \* the process is gone
    indexed,       \* the profiles the vault set is configured with
    pinned,        \* QROUTON_ROOT overrides the root of this run
    bootRoot,      \* the file's root when the process started
    doing,         \* handler -> the state of its call, or "idle"
    told,          \* SaveResult.RestartRequired of the save the file still holds, else Absent
    successor,     \* the config a relaunched successor read, or Absent
    calls, edits   \* bound counters

settingsVars == <<onDisk, live, quitting, indexed, pinned, bootRoot, doing, told, successor, calls, edits>>

\* Config: `scale` stands for every field of the Settings page that needs no
\* restart, `author` for one that no handler writes
Config == [root : Root, default : Default \cup {Derived}, folders : Lists, scale : Scale,
           welcomed : BOOLEAN, checked : {<<>>} \cup (Root \cup Folder) \X SUBSET Folder, author : {0, 1}]

\* A call that has read the file: what it wants written, and what it wants live.
Prepared == [at : {"staged", "indexed"}, snapshot : Config, fresh : BOOLEAN,
             stage : [next : Config, live : Config, restart : BOOLEAN]]

SettingsAssumption ==
    /\ Root # {} /\ Root \cap Folder = {} /\ Derived \notin Root \cup Folder
    /\ Default \subseteq Folder /\ Lists \subseteq Seq(Folder) /\ << >> \in Lists
    /\ Above \in [Folder -> SUBSET Root]
    /\ 0 \in Scale /\ MaxCalls \in Nat /\ MaxEdits \in Nat
    /\ Absent \notin BOOLEAN \cup Config /\ Idle \notin Prepared

-----------------------------------------------------------------------------
(* Pure parts of the config. *)

\* ThoughtsRoots: the default root first, under the sessions root unless set
DefaultRoot(c) == IF c.default = Derived THEN c.root ELSE c.default
Shared(c) == ToSet(c.folders)
Profiles(c) == <<DefaultRoot(c)>> \o c.folders

\* the order of the folders does not change the fingerprint
Fingerprint(c) == <<DefaultRoot(c), Shared(c)>>

\* CheckThoughts: no folder twice, and none that holds the sessions root
Overlaps(c) == DefaultRoot(c) \in Shared(c)
HoldsRoot(c) == \E f \in Shared(c) \cup ({c.default} \ {Derived}) : c.root \in Above[f]
CheckThoughts(c) == ~Overlaps(c) /\ ~HoldsRoot(c)

\* RouteThoughts: where a session of a folder's orgs writes
Route(c, f) == IF f \in Shared(c) THEN f ELSE DefaultRoot(c)

RestartRequired(next) == next.root # bootRoot
\* Mutant: the shared folders alone decide.
RoutingChangedShared(l, next) == Shared(next) # Shared(l)
RoutingChanged(l, next) == Fingerprint([next EXCEPT !.root = l.root]) # Fingerprint(l)

\* Placement.relaunchPending: what the placement overlay says of a restart
RelaunchPending(l, file) == RestartRequired(file) \/ RoutingChanged(l, file)

\* the inputs a page can send
Input == [root : Root, default : Default \cup {Derived}, folders : Lists, scale : Scale]

\* what a handler's mutation leaves in the file and in the live copy
FileCopy(h, in, c) ==
    CASE h = "save" -> [c EXCEPT !.root = in.root, !.default = in.default, !.folders = in.folders, !.scale = in.scale]
      [] h = "first" -> [c EXCEPT !.root = in.root, !.default = in.default, !.welcomed = TRUE]
      [] h = "mark" -> [c EXCEPT !.checked = in]
      [] h = "scale" -> [c EXCEPT !.scale = in]
      [] OTHER -> c
LiveCopy(h, in, l) == [FileCopy(h, in, l) EXCEPT !.root = l.root]

\* the thoughts a handler holds back: Settings.Save holds every routing change
Restart(h, l, next) ==
    /\ h \in {"save", "first", "mark"}
    /\ RestartRequired(next) \/ (h = "save" /\ RoutingChanged(l, next))

\* Mutant: the live copy takes the new folders whether a restart is needed or not.
StagedAtOnce(h, in, l, file) ==
    LET next == FileCopy(h, in, file)
    IN [next |-> next, live |-> LiveCopy(h, in, l), restart |-> Restart(h, l, next)]

\* Mutant: the file copy starts from the running config.
StagedFromLive(h, in, l, file) ==
    LET next == FileCopy(h, in, l)
        restart == Restart(h, l, next)
        copy == LiveCopy(h, in, l)
    IN [next |-> next, restart |-> restart,
        live |-> IF restart THEN [copy EXCEPT !.default = l.default, !.folders = l.folders] ELSE copy]

\* stageConfig
Staged(h, in, l, file) ==
    LET next == FileCopy(h, in, file)
        restart == Restart(h, l, next)
        copy == LiveCopy(h, in, l)
    IN [next |-> next, restart |-> restart,
        live |-> IF restart THEN [copy EXCEPT !.default = l.default, !.folders = l.folders] ELSE copy]

\* Mutant: the panel shows the root of this run.
ViewOfLive(l, file) == [root |-> l.root, default |-> file.default, folders |-> file.folders, scale |-> l.scale]

\* Settings.Load: what needs a restart as the file has it, the rest as it runs
View(l, file) == [root |-> file.root, default |-> file.default, folders |-> file.folders, scale |-> l.scale]

-----------------------------------------------------------------------------
\* Load: the file's config, its root overridden for this run by the environment
Loaded(file, pin) == IF pin = Derived THEN file ELSE [file EXCEPT !.root = pin]

\* a config.json that was never written reads as the defaults
Defaults == CHOOSE c \in Config :
    c.default = Derived /\ c.folders = << >> /\ c.scale = 0 /\ ~c.welcomed /\ c.checked = <<>> /\ c.author = 0
Read(file) == IF file = Absent THEN Defaults ELSE file

Init ==
    /\ \/ onDisk = Absent
       \/ \E r \in Root, d \in Default \cup {Derived}, s \in Lists, w \in BOOLEAN :
             onDisk = [Defaults EXCEPT !.root = r, !.default = d, !.folders = s, !.welcomed = w]
    /\ pinned \in Root \cup {Derived}
    /\ bootRoot = Read(onDisk).root
    /\ live = Loaded(Read(onDisk), pinned)
    /\ ~Overlaps(live)                       \* Load refuses to start
    /\ indexed = Profiles(live)              \* openVault
    /\ doing = [h \in Handler |-> Idle]
    /\ told = Absent /\ successor = Absent /\ quitting = FALSE /\ calls = 0 /\ edits = 0

-----------------------------------------------------------------------------
\* Mutant: a handler does not wait for the writer.
WriterFreeAlways(h) == doing[h] = Idle
\* Transact: one writer at a time, on a snapshot taken under its lock
WriterFree(h) == \A g \in Handler : doing[g] = Idle

\* Settings.Save validates its whole input before it asks for the writer
PanelAccepted(in) ==
    CheckThoughts([live EXCEPT !.root = in.root, !.default = in.default, !.folders = in.folders])

\* FirstRun.Save answers the gate, which is up until someone is welcomed
GateAnswers == IF live.welcomed THEN {} ELSE Input

\* AdjustUIScale saves and announces only a change
ScaleChanges == Scale \ {live.scale}

\* OpenConfig writes a file only where there is none
Opens == IF onDisk = Absent THEN {Derived} ELSE {}

\* markChecked records the folders the check ran against
Marks == {Fingerprint(live)}

\* what each handler can be asked for and has accepted
Inputs(h) ==
    CASE h = "save" -> {in \in Input : PanelAccepted(in)}
      [] h = "first" -> GateAnswers
      [] h = "scale" -> ScaleChanges
      [] h = "mark" -> Marks
      [] h = "open" -> Opens
      [] OTHER -> {Derived}

Begin(h, in) ==
    /\ calls < MaxCalls /\ calls' = calls + 1
    /\ ~quitting /\ WriterFree(h)
    /\ doing' = [doing EXCEPT ![h] = [at |-> "begun", in |-> in, snapshot |-> live]]
    /\ UNCHANGED <<onDisk, live, quitting, indexed, pinned, bootRoot, told, successor, edits>>

At(h, at) == ~quitting /\ doing[h] # Idle /\ doing[h].at = at

\* a handler answers its error, or returns early
GiveUp(h) == doing' = [doing EXCEPT ![h] = Idle]
UnchangedButDoing == UNCHANGED <<onDisk, live, quitting, indexed, pinned, bootRoot, told, successor, calls, edits>>

\* stageConfig reads the file; an unreadable one ends the handler
Stage(h) ==
    /\ At(h, "begun") /\ h # "relaunch"
    /\ \/ doing' = [doing EXCEPT ![h] =
              [at |-> "staged", snapshot |-> @.snapshot, fresh |-> TRUE,
               stage |-> Staged(h, @.in, @.snapshot, Read(onDisk))]]
       \/ GiveUp(h)
    /\ UnchangedButDoing

\* commitLive's handlers, while no restart holds the live copy back
Commits(h) == h = "save" \/ (h = "first" /\ ~doing[h].stage.restart)

Reindexes(h) ==
    Commits(h) /\ Profiles(doing[h].snapshot) # Profiles(doing[h].stage.live)

\* saveConfig and FirstRun.Save check what would run, then reindex
Reindex(h) ==
    /\ At(h, "staged") /\ Reindexes(h)
    /\ \/ /\ CheckThoughts(doing[h].stage.live)
          /\ doing' = [doing EXCEPT ![h].at = "indexed"]
          /\ indexed' = Profiles(doing[h].stage.live)
       \/ GiveUp(h) /\ UNCHANGED indexed        \* Configure refuses, or the check does
    /\ UNCHANGED <<onDisk, live, quitting, pinned, bootRoot, told, successor, calls, edits>>

Writable(h) ==
    \/ At(h, "indexed")
    \/ At(h, "staged") /\ ~Reindexes(h)
       /\ (Commits(h) => CheckThoughts(doing[h].stage.live))

\* Mutant: an index the failed write no longer wants is left in place.
PutBackNothing(h) == UNCHANGED indexed
PutBack(h) == indexed' = IF At(h, "indexed") THEN Profiles(doing[h].snapshot) ELSE indexed

\* config.Save fails: the thoughts are invalid, or the disk says no
WriteFails(h) ==
    /\ Writable(h)
    /\ PutBack(h) /\ GiveUp(h)
    /\ UNCHANGED <<onDisk, live, quitting, pinned, bootRoot, told, successor, calls, edits>>

\* FirstRun under a restart leaves the live config alone; OpenConfig has none
Replaced(h) == IF h = "open" \/ (h = "first" /\ doing[h].stage.restart) THEN live ELSE doing[h].stage.live

\* config.Save, Replace, and what the handler publishes after them
Write(h) ==
    /\ Writable(h) /\ CheckThoughts(doing[h].stage.next)
    /\ onDisk' = doing[h].stage.next
    /\ live' = Replaced(h)
    /\ told' = CASE h = "save" -> doing[h].stage.restart [] h = "first" -> Absent [] OTHER -> told
    /\ IF h = "first" /\ doing[h].stage.restart
       THEN doing' = [doing EXCEPT ![h] = [at |-> "saved"]]
       ELSE GiveUp(h)
    /\ UNCHANGED <<quitting, indexed, pinned, bootRoot, successor, calls, edits>>

\* a write that cannot be made: what would run fails its check
Refused(h) ==
    /\ At(h, "staged") /\ ~Reindexes(h) /\ ~Writable(h)
    /\ GiveUp(h) /\ UnchangedButDoing

\* Relaunch: the successor reads the file afresh, without the overrides; or it
\* fails and this process carries on
Successor(h) ==
    /\ (h = "relaunch" /\ At(h, "begun")) \/ (h = "first" /\ At(h, "saved"))
    /\ \/ successor' = Read(onDisk) /\ ~Overlaps(Read(onDisk))
       \/ UNCHANGED successor
    /\ GiveUp(h)
    /\ UNCHANGED <<onDisk, live, quitting, indexed, pinned, bootRoot, told, calls, edits>>

\* Relaunch and FirstRun.Save quit once the writer is let go
Quit ==
    /\ successor # Absent /\ ~quitting /\ quitting' = TRUE
    /\ UNCHANGED <<onDisk, live, indexed, pinned, bootRoot, doing, told, successor, calls, edits>>

\* the user's editor replaces the file
Edit(c) ==
    /\ ~quitting /\ edits < MaxEdits /\ edits' = edits + 1 /\ onDisk' = c /\ told' = Absent
    /\ doing' = [h \in Handler |-> IF At(h, "staged") \/ At(h, "indexed")
                                   THEN [doing[h] EXCEPT !.fresh = FALSE] ELSE doing[h]]
    /\ UNCHANGED <<live, quitting, indexed, pinned, bootRoot, successor, calls>>

\* the edits worth telling apart: a field no handler writes, one that is served from the
\* running config, and what needs a restart
Edits ==
    LET file == Read(onDisk) IN
    {[file EXCEPT !.author = 1 - @]} \cup
    {[file EXCEPT !.scale = s] : s \in Scale} \cup
    {[file EXCEPT !.root = r] : r \in Root} \cup
    {[file EXCEPT !.default = d] : d \in Default \cup {Derived}} \cup
    {[file EXCEPT !.folders = s] : s \in Lists}

Next ==
    \/ \E h \in Handler : \E in \in Inputs(h) : Begin(h, in)
    \/ \E h \in Handler : Stage(h) \/ Reindex(h) \/ Write(h) \/ WriteFails(h) \/ Refused(h) \/ Successor(h)
    \/ Quit
    \/ \E c \in Edits : Edit(c)

Spec == Init /\ [][Next]_settingsVars

-----------------------------------------------------------------------------
(* Properties. *)

SettingsTypeOK ==
    /\ onDisk \in Config \cup {Absent} /\ live \in Config /\ successor \in Config \cup {Absent}
    /\ indexed \in Seq(Root \cup Folder) /\ pinned \in Root \cup {Derived} /\ bootRoot \in Root
    /\ \A h \in Handler : doing[h] = Idle \/ doing[h].at \in {"begun", "staged", "indexed", "saved"}
    /\ told \in BOOLEAN \cup {Absent} /\ quitting \in BOOLEAN

\* commitLive: routing and search never disagree.  Unless a commit stands
\* between its index and its write, the vault set has the folders the live
\* config routes by, after a refused index and a failed write too.
RoutingIsIndexed ==
    ~quitting /\ (\A h \in Handler : ~At(h, "indexed")) => indexed = Profiles(live)

\* stageConfig: the process keeps its root, and after the first run it keeps
\* routing every org to the folder it booted with, whatever is saved.
HoldsRouting ==
    /\ live'.root = live.root
    /\ live.welcomed => \A f \in Folder : Route(live', f) = Route(live, f)

RoutingHeldTillRestart == [][HoldsRouting]_settingsVars

\* What of config.json each handler's save is for.
Owned(h) ==
    CASE h = "save" -> {"root", "default", "folders", "scale"}
      [] h = "first" -> {"root", "default", "welcomed"}
      [] h = "mark" -> {"checked"}
      [] h = "scale" -> {"scale"}
      [] OTHER -> {}

Staging(h) == At(h, "staged") \/ At(h, "indexed")

\* A handler writes over config.json only the fields that are its own: another
\* handler's save, or an edit made before it read the file, is never undone.
KeepsTheRest ==
    \A h \in Handler :
       Staging(h) /\ doing[h].fresh /\ ~Staging(h)' /\ onDisk' # onDisk
       => \A x \in DOMAIN live \ Owned(h) : onDisk'[x] = Read(onDisk)[x]

SavesKeepTheRest == [][KeepsTheRest]_settingsVars

\* SaveResult.RestartRequired: the page is told that a restart is needed just
\* when a successor reading this config.json would have another sessions root
\* or write some org's documents elsewhere than the running process does.
RestartToldTruly ==
    told # Absent /\ pinned = Derived
    => (told <=> ~( /\ onDisk.root = live.root /\ DefaultRoot(onDisk) = DefaultRoot(live)
                    /\ \A f \in Folder : Route(onDisk, f) = Route(live, f) ))

\* Settings.Load: saving the panel as it was loaded writes nothing an
\* environment override or another handler put there, and tells of a restart
\* just when the placement overlay would.  What it may overwrite is what the user's
\* editor put, since the process started, in a field that Load serves from the
\* running config: the file is then left with the value that runs.
PanelRoundTrip ==
    LET file == Read(onDisk)
        saved == Staged("save", View(live, file), live, file)
    IN /\ saved.next = [file EXCEPT !.scale = live.scale]
       /\ edits = 0 => saved.next = file
       /\ saved.restart = RelaunchPending(live, file)

\* settings.go: holding the config writer keeps a save from landing between
\* the successor's read and this process's exit.
NoSaveAfterTheRead ==
    [][successor # Absent /\ edits' = edits => onDisk' = onDisk]_settingsVars
=============================================================================
