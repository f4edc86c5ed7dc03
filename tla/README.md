# qrouton: specifications, model checking and proofs

qrouton is a desktop workbench (Go, Wails) that runs coding agents.  A *session* is a
directory with clones, worktrees and a manifest; one *workbench* process shows sessions in a
window; each session's terminal runs a *supervisor*, a process of the same binary that runs
the agent's command line (the *runner*) and restarts it when the session's mode changes;
agents talk back through an MCP server and through hooks, and both reach the workbench over a
control socket.  This directory holds TLA+ specifications of the parts of that system whose
correctness depends on the order in which things happen, the TLC configurations that check
them, and machine-checked proofs of what matters most.

Paths below are relative to the repository's `src/`; `desktop/`, `launch/`, ... are under
`src/internal/`.  `PROJECT.json` has, for every definition, the source lines it translates, and
the list of hazards the properties are aimed at.

## 1. The system's parts

| Component | State it keeps | Operations | What is hard about it |
|---|---|---|---|
| Session registry (`desktop/session.go`, `desktop.go`) | booted sessions by slug and terminal, the one shown, history, listeners, supervisors | Show, Reload, Unload, Cleanup, adopt, retire, start, stopAll | one lock for the operations, none for the page, the supervisors' pumps, the poller and the quit handler; PTYs and processes that outlive the state |
| Rail (`desktop/session.go`, `status/status.go`, `session/opened.go`) | the order, the rows drawn, the mark on a row | reorder, scan, MarkOpened, nudge | a drag while sessions come and go; a mark written between a scan and its drawing |
| Bug reports (`desktop/bug_reports.go`, `mcpserver/bug_reports.go`) | records with a status, the latest one, the POST under way | queue, poll, load, confirm, cancel, finish, stop | four time limits; one connection per request, so a caller that gave up may still be served; a POST whose answer is lost |
| Picker and escalation (`desktop/picker.go`, `assembly/picker.go`, `mcpserver/windows.go`) | the manifest's outcome stanza, one pending request per session | escalate (request, poll), Confirm, Cancel, header Escalate | minutes between reading the request and clearing it; two clocks; outcomes of an earlier call still in the manifest |
| Launch (`main.go`, `workbench/socket.go`, `launch/detach.go`, `assembly/offer.go`) | the launch lock, the descriptor, the pending ticket, the draft on the overlay | open, discover, detach, publish, offer, begin/end, restart, quit | processes that crash holding locks; a successor that publishes itself as its predecessor unpublishes |
| Supervisor (`launch/supervise.go`, `session/agent.go`, `session/agent_notice.go`) | the manifest's mode, the handoff marker, the queued notice, the prompt, a signal channel of one | the relaunch loop; the writers' change, mark, queue, signal | files read one after the other without the lock; coalesced signals; failures between any two steps |
| Sessions on disk (`session/session.go`, `session/upgrade.go`, `session/lifecycle.go`, `assembly/`) | directory, marker, checkouts, manifest | Create, Confirm (add, upgrade), mode, Remove | rows of git commands that fail or die anywhere; two confirms at once; an agent that commits meanwhile |
| Prompts (`prompts/stamp.go`) | agent files, canonical prompts, links into them | Stamp | the launch dies between two writes; the user edits the same tree |
| Agent tree (`desktop/agent_events.go`) | a record per agent, calls that wait for a child, the root's turn, questions | one handler per hook | every hook is a process: they arrive in any order, or never |
| Agent activity (`desktop/agent_activity.go`, `desktop.go`) | generations of a runner, records under a cap, unread, rung | report, reveal, attend | a report of a generation that is over; the user looks at that moment |
| Placement (`placement/placement.go`) | a folder, a move marker, a link, the manifest's record | scan, move | a crash between any two steps, routing that changes before the recovery, roots shared with other machines |
| Configuration (`desktop/settings.go`, `config/`) | `config.json`, the live generation, the vault set's routing | Save, AdjustUIScale, FirstRun.Save, Relaunch, the placement record, the editor | a transaction that fails half way; an editor that takes no lock |
| Tabs (`desktop/registry.go`, `windows.go`) | tabs by token, strips, processes behind them | open, replace, close, select, pin, unload, announce | the mutex is let go between change and announcement |
| Documents (`desktop/documents.go`, `answers.go`) | text, what was read when, drafts, viewports | open, poll, push, save, report | files that others write between a read and a stat; calls of an earlier load of the page |
| Terminals (`desktop/terminals.go`) | scrollback, screens | pump, attach, replay, exit | replay against live output, a buffer at its limit |
| Presenter (`desktop/presenter.go`) | the notes window and its epoch | show, close, the toolkit's callback | a close that is answered after the next show |
| MCP server (`mcpserver/windows.go`) | names of windows, claims | open, commit, close | a round trip without the lock, an answer that is lost |
| Artefacts (`artefact/`, `status/stages.go`) | numbered documents, a folder lock | create, stage | other processes and a sync tool |
| Documents' marks (`markdown/`, `status/stages.go`) | (function) | sections, phases, stages | the boundary of a section, of a phase, of its verification |
| Diagrams (`diagram/`, `desktop/diagrams.go`) | queue, ruler, verdicts | run, draw, deadline, close | a drawing past its deadline keeps the only ruler |
| Chrome, pulls, updates (`desktop/chrome.go`, `pulls.go`, `github/pulls.go`) | numbers and pull requests of the shown session | poll, measure, fetch, touch, reveal | answers of work done off the loop for a session no longer shown; ETags |
| Repository lists (`desktop/repos.go`, `github/github.go`) | list, errors, cache file, generation | Refresh, fan-out, pages | a superseded refresh that goes on; a list that changes while it is paged |
| Vault search (`vault/`) | vectors, index, roots, sections, windows | search, warm, configure, refresh, rank | a model that changes under a build; a text no model takes; files written during a walk |
| Ollama (`desktop/ollama.go`) | status, pull, generation | check, pull, cancel | a probe that answers after a pull began or ended |
| Control socket, runner and editor commands, tickets, markdown and theme, the page, evaluation harness, comment policy, small packages, window system | | | not modelled, see section 8 |

How they interact.  The page calls bound services of the workbench and is told of changes by
events.  The control socket serves one request per connection from three kinds of clients: a
second command line (a ticket), an agent's MCP server (report, escalate, windows) and an
agent's hooks (activity).  The manifest and the marker files in the session directory are shared
between the workbench, the supervisor, the MCP server and `qrouton mode`, under an advisory file
lock for writes only.  The supervisor is told of a change with SIGUSR1.  A supervisor's exit
reaches the registry through the goroutine that pumps its PTY.  The settings' transaction
configures the vault set and routing; what a picker's answer composes is a change of a
session's directory; tabs hold terminals, documents and an agent's windows; the chrome loop
draws the rail and is nudged by reveals and by changed repositories.

What makes each part correct:

* Registry: no session directory ever has two supervisors, or one and no directory; the window
  shows something the registry answers for; every listener of a stopped session is closed; a
  clean exit is retired.
* Supervisor: the runner in the terminal is one launched from the manifest as it is; an
  escalation starts a fresh conversation; no endless relaunch.
* Picker: an escalate call is told what happened after it asked; an answered request is not
  drawn again; an unanswered call has a picker.
* Bug reports: an agent that is told "not filed" is right for good; one issue at most; the live
  report is the reachable one; outcomes are final; every call is answered.
* Sessions on disk: a manifest names what is there; nobody forgets what another added; nobody
  removes a directory that is not its own; a commit is never left without a branch.
* Agents: calls and children are paired one to one whatever the order; what a result says
  stands; an answered question is not asked again; the turn is what the latest hook says; a
  session is unread only while nobody looks.
* Launch: one workbench; it can be found; a delivered ticket is not lost, nor displaced.
* Placement: the documents can be found after any crash, another's folder is never adopted, and
  every interrupted move is finished.
* Configuration: routing and search agree; nobody's setting is undone by another's save; a restart
  is announced when it is needed.
* The window: numbers are the shown session's, documents the newest, marks gone once seen; what
  was drawn comes to agree with what is behind it; nothing moves but what the user moves.
* Vault and lists: a vector is filed under the header it was asked for under, a text under its own stamp, a list read
  in pages is whole, a superseded refresh never shows, and background work ends.

## 2. Modules

| Module | Models | Code |
|---|---|---|
| `Sessions` | the registry, its callers, the supervisors' processes, listeners and `agent.pid` | `desktop/session.go`, `desktop/desktop.go` |
| `SessionSlots` | what the registry promises of supervisors, abstractly: one owner per session | (specification only) |
| `Rail` | order, scan, drag, the mark on a row | `desktop/session.go`, `desktop/chrome.go`, `status/`, `session/opened.go` |
| `BugReports` | queue, poll, review, POST, expiry, stop, on both sides of the socket | `desktop/bug_reports.go`, `mcpserver/bug_reports.go`, `workbench/bug_reports.go` |
| `Escalation` | the escalate tool, the pending request, the answers | `mcpserver/windows.go`, `desktop/picker.go`, `assembly/picker.go`, `session/manifest.go` |
| `Launch` | command lines, workbenches, the lock, the descriptor and the tickets | `main.go`, `workbench/socket.go`, `launch/detach.go`, `assembly/offer.go` |
| `Supervisor` | the relaunch loop and the writers | `launch/supervise.go`, `session/`, `assembly/picker.go` |
| `SessionDirs` | one session's directory from its assembly to its removal | `session/session.go`, `session/upgrade.go`, `session/lifecycle.go`, `assembly/` |
| `Stamps` | the prompts stamped at a launch, and the user's files at the same paths | `prompts/stamp.go` |
| `AgentTree` | the runner that gives rise to hooks, and the tracker that hears them | `desktop/agent_events.go`, `agentevent/` |
| `Activity` | the same for runners that report lives only; unread and the chime | `desktop/agent_activity.go`, `desktop/desktop.go` |
| `Placement` | one session's thoughts, their move and its recovery | `placement/placement.go` |
| `Settings` | `config.json`, the live generation, its handlers and the editor | `desktop/settings.go`, `desktop/firstrun.go`, `config/` |
| `Tabs` | open tabs, strips and the processes behind them | `desktop/registry.go`, `windows.go`, `terminals.go` |
| `Documents`, `Viewport` | one document against the writers of its file; what its page shows | `desktop/documents.go`, `answers.go` |
| `Terminal` | pump, scrollback, attach and replay | `desktop/terminals.go` |
| `Presenter` | the notes window and its toolkit | `desktop/presenter.go` |
| `AgentWindows` | names, claims and commits of an agent's windows | `mcpserver/windows.go` |
| `Artefacts` | numbering under the lock, stages | `artefact/artefact.go`, `status/stages.go` |
| `Marks` | sections, phases and stages of a document, as a function of its blocks | `markdown/`, `status/stages.go` |
| `Diagrams`, `Fences` | worker, ruler, deadlines, quit; the scan for fences | `diagram/`, `desktop/diagrams.go` |
| `Chrome`, `PullRequests` | the poll loop and its goroutines; rows kept by ETag | `desktop/chrome.go`, `desktop/pulls.go`, `github/pulls.go` |
| `Repositories`, `Paging` | refreshes and generations; a list read page by page | `desktop/repos.go`, `github/github.go` |
| `Vault`, `VaultSet`, `VaultIndex` | vectors; the set of roots; the text index | `vault/service.go`, `vault/set.go`, `vault/cache.go`, `vault/files.go`, `vault/ollama.go` |
| `Retrieval`, `Chunks`, `Crumbs` | fusion of two rankings; sections into windows; documents into sections | `vault/search.go`, `vault/chunks.go`, `markdown/` |
| `Ollama` | probe, pull and cancel | `desktop/ollama.go` |
| `MCRequests`, `MCAgents`, `MCStores`, `MCWindow` | TLC instances of several modules, see section 3; `Sessions` and `BugReports` are checked as they are | |
| `SessionsProofs`, `BugReportsProofs`, `RepositoriesProofs` | theorems of one module | |
| `RequestsProofs`, `AgentsProofs`, `StoresProofs`, `WindowProofs` | theorems of the joint specifications of `MCRequests`, `MCAgents`, `MCStores` and `MCWindow`, and of their parts | |
| `AgentReportsProofs` | theorems of `AgentTree`, and the invariants of `Marks`, `Fences` and `Viewport` that `AgentsProofs` puts together with the others | |

### How state and actions correspond to the code

**Sessions.**  `seq`, `slugs`, `terms`, `showing`, `history` are the fields of `Sessions`;
`stopped`, `process`, `listener`, `slugOf` are per `sessionState`.  A state is named by its
terminal id, which is never used twice.  The operations under `showMu` are sequences of steps
(`call["locked"].pc`), because each calls things that other goroutines can interleave with:
the supervisor is stopped under the state's own lock, the command is built without any, the
listener is recorded after the state was added.  `Start`, the page's call that starts a terminal, is two
steps: the lookup by terminal id, and the start itself, because the session may be stopped in between.
The startup session of `run()` is the second actor (`call["startup"]`), which does not take
`showMu`.  `foreign` are supervisors a previous, crashed workbench left.  `life` is a
supervisor process and then the goroutine that reaps it.

**SessionSlots.**  A slot per session directory with `Take` and `Release` and a set of owners that
are spent.  `Sessions` implements it under the mapping `Owner`, `Spent`.

**Rail.**  `recent` is what the disk says of recency, `rail` the user's order, `rows` what was
drawn.  A scan and the merge with the kept order are one step, because `railOrder` runs under one
lock; opening a session, marking it opened and nudging the loop are three.

**BugReports.**  One clock for both processes, in ticks.  A call of a socket operation is a
request in flight that the workbench may read even after its caller gave up.  The POST is an HTTP
request that may reach GitHub, or not, whatever answer the goroutine sees.  `issues` is
GitHub's side.

**Escalation.**  `stanza` is the manifest's outcome, with its time abstracted to `since`: the
outcomes written after each call asked, which is all the code's comparison of times can tell.
An answer has three steps: read the request, work, write and clear, and the clearing takes whatever
request there is by then, as the code does.  Repositories added from the session header
are answers too.

**Launch.**  `lock` is the advisory lock, released by the death of its holder.  A deadline may
pass whenever something waits for it.  `wb[w].move` is where a workbench is in replacing
itself.  `settled` collects tickets nothing is owed for: shown, dismissed by the user, on a workbench that
crashed, or pending at a settings restart, which by its own comment carries none.

**Supervisor.**  `pc` is the place in `Supervise`: listen, stamp the assets, take the handoff
marker, take the notice, launch, run.  A writer's four steps are those of the picker and of
`qrouton mode`.  `era` counts escalations and dates a conversation (`conv`), so that "a conversation
from before the escalation" can be said.  A failing step ends the supervisor, and the next one
is started by the registry on what is on disk.

**SessionDirs.**  One slug, because a slug ends in random digits.  An assembly, two confirms and a
removal are rows of steps; each step is one git command or file write, and any of them may
fail or be the last of its process.  `ahead` are commits in a checkout, `stranded` those on no
branch.

**Stamps.**  One asset of each sort stands for the rest.  A file is whose it is: the workbench's, with
its mark, the user's, or torn.

**AgentTree.**  The first half is what the runner really does, with each hook stamped with a clock
that equals its place in that history.  The second half is the tracker with one action per hook,
each taking any hook under way.  `heard` records what arrived, for the properties only.

**Activity.**  A report carries the generation it is of.  The reports' handlers look, let the lock
go, and notify; the user reveals and leaves sessions meanwhile.

**Placement.**  One session, because each is inspected and moved on its own under
`Placement.op`.  `folder[r]` is the folder of its name in root `r`, its own or
another's; `mark[r]` is the marker file in it.  A move is five steps: mark, rename, swap, record, unmark;
`Abandon` is a failure or the end of the process between any two.  The routing changes, and roots come and go,
one at a time.  The next scan takes a fresh
decision from what is on disk.  The agent that must not run is not a variable: it is looked at
once, before the first step, and the user's `Move` is a choice anyway.

**Settings.**  A handler is its call and its transaction: read the file, change what is its to
change, validate, configure, write, swap the live generation, with the failures the code has at
each.  `onDisk` is the file, `live` the generation, `indexed` what the vault set was
configured for, `successor` what a relaunched process would read.

**Tabs.**  Each operation is its steps between taking and letting go of the registry's mutex;
`strip` is the strip the page was last sent, which is built under the mutex and sent after it, as a set of tabs with
their places.
`running` and `ending` are the processes behind terminal tabs.

**Documents, Viewport.**  `file` is what is on disk, with a version that stands for its time;
`tabText`, `tabRead` are what the poll last read and what it stamped it with.  A rescan is a stat and
then a read.  `reach` says whether the file can be read, only be looked at, or is gone (or a directory, which a rescan
treats alike), and turns at any time; a text over `Limit` is no document.  In all of these the tab keeps the text it
had, as the comment of `rescan` says.  A save reads the file, works and renames; any other writer may come in between.
In `Viewport` a report carries the load of the page it was made in and its number in it.

**Terminal.**  `written` is the process's output, `buffer` what is retained, `sent` what is on its
way to a page, `screen` what a page has drawn.  The pump's append and send are one critical
section, an attach's copy and subscription another.

**Presenter.**  `windows` is what the toolkit has open, which it tells the code of later.

**AgentWindows.**  A tool call claims a name, asks the workbench without the mutex and commits or
gives up.  `hosted` is the workbench's side, `unheard` what it did and no answer told.

**Artefacts.**  A creator takes the lock, looks for the highest number, writes exclusively and tries
again; `folder` also changes by the hand of a sync tool.

**Chrome.**  The loop's cases are actions; measurement and fetch are goroutines with a session in
them, one of each at a time, that answer on a channel of one.  `touched` is a channel of
one whose extra sends are dropped.

**PullRequests.**  `github[r]` is what GitHub has and its ETag; a cache entry is what the last fetch
kept of it.

**Repositories, Paging.**  A refresh is a generation, `runs[g]` its fan-out over the owners, each with a retry;
messages of a superseded generation still arrive and are dropped where the code drops them.
`Paging` reads page after page of a list that changes; a page is the names at its places in the list, and
  what was gathered of a name is a count.

**Diagrams.**  `run[r]` is a document's pass over its fences, `worker` and `drawing` the goroutine and
the abandoned drawings, `ruler` who holds the one font ruler.

**Vault, VaultSet, VaultIndex.**  A search or a warm-up is its steps between letting the mutex go and
taking it again.  A vector is two things: the header it was asked for under, and the model that made it, which is
whatever Ollama serves when it answers.  The code keeps the header of its last probe until an embedding fails, and an embedding asks for
a model by name alone, so the two can differ; `stray` collects the headers that were relied on (`Relied`) when Ollama was given
another model.  Ollama may also be up without the model (`Absent`), when it refuses every window.  A batch that is refused
is asked for window by window, and the model may change between two of them.  `VaultSet` follows contexts: which
build can still be cancelled.  `VaultIndex` walks, then reads, while files change, go, or cannot be read (`Sealed`).  The
stamp of an edit is a new one, or one that the file bore before: an edit of the same size within one tick of the mtime.  `twins` are the
files of which two texts bore one stamp.

**Ollama.**  A probe remembers the generation it began in; pulls are goroutines with a context.

**Marks, Fences, Crumbs, Chunks, Retrieval.**  Functions of a text.  The first three read block by block or line by line, and
every prefix is an input, so that the whole of the bounded inputs is one state space; the others choose an input and
compute the answer.  Each is compared with a definition that speaks of the whole text at once: which phase's criteria a
box is one of, which headings a line stands under, that the windows
put together again are the text.  `Marks` has headings of every level, those below Verify's own among them, which keep it open.
`Fences` is no more than this: the blocks that the one pass finds, said of the document as a whole and by Scan's own account of
what opens and closes a block.  The containers of markdown are not in it, and where a renderer sees a fence is not said.
`Retrieval` compares scores exactly.

## 3. What is checked

Twelve runs, seven that pass and five that show a disagreement (section 6).  "Passes" means no
error over the whole state space of the instance.

### Instances of several modules

`Sessions` and `BugReports` are checked by themselves, because one instance fills a run.  The
other modules share four runs by concern.  Each names the modules it holds its *parts*: the
variable `part` picks one in the initial state and never changes, that part starts in its own
initial states and takes its own steps, and everything else rests.  Parts share no
state and no step, so a run is the disjoint union of its parts' state spaces, and says of each what a run of
its own would.  A part's variables are the `v1` to `v12` of the MC module, named in its
`INSTANCE ... WITH`, and its bounds are in the `.cfg`; `Parts` in the `.cfg` names the parts to check, and a
single one can be checked alone by naming it alone.  A property of such a run says one thing about several
parts, `part = "..." => ...` for each, by the names of the properties in
the parts' own modules, where each is stated and explained.

Besides the mutants listed in `PROJECT.json`, one for each property of each run, the modules hold more, for the other
conjuncts of these joint properties, each beside the definition it breaks (the comment `Mutant: ...`).  With the definition so
replaced and its part checked alone, TLC finds an error of that run for every one of them.

### The runs that pass

| Run | Instance | Property | Says |
|---|---|---|---|
| `sessions` | two sessions, one with a supervisor left behind, two boots | `OneSupervisor` | no directory has two supervisors |
| | | `WindowIsSound` | no supervisor on a removed directory, what is shown is registered, and the window is handed back when what it shows goes |
| | | `ImplementsSlots` | the registry implements `SessionSlots` |
| `sessions_quit` | one session, the window closed at any moment | `ListenersClosed` | a stopped session's listener is closed |
| | | `CleanExitRetires` | a supervisor that exits cleanly leads to its session being retired |
| `bug_reports` | two reports, limits of one tick each, two ticks | `NeverDeniedThenFiled` | what an agent was told was not filed never is |
| | | `FiledOnce` | one issue at most |
| | | `LiveIsReachable` | the report that waits is the one the page can answer |
| | | `OutcomesAreFinal` | an outcome does not change |
| | | `EveryCallAnswered` | every call comes back |
| `requests` | picker, launch, settings, paging, repositories, pull requests, retrieval, chunks, crumbs | `ToldWhatHappened` | an escalate call is told an outcome written after it asked |
| | | `AnsweredIsCleared` | an answered request is not drawn again |
| | | `LaunchIsSound` | one workbench, it can be found, a delivered ticket is with somebody until it is settled |
| | | `WhatIsToldIsTrue` | routing is indexed; a restart is announced exactly when needed; saving what was loaded changes nothing, but for a scale edited by hand since the start; a paged list is whole; "not modified" is true |
| | | `WhatIsFoundIsTrue` | texts keep their content and place on their way into windows, what both rankings have among their first `rrfK + 1` comes before what only one found, and the best of either is shown |
| | | `NothingIsTaken` | no waiting ticket is displaced by another, no list replaced by an older one, no setting undone by another's save |
| `agents` | agent tree, activity, session directories, stamps, artefacts, marks, fences, tabs, windows, viewport, terminal, presenter | `SessionIsWhole` | a manifest's checkouts are there and listed, the runner finds its prompt, the latest document is the newest |
| | | `TreeIsSettled` | what the tree said of parents, ends and answers stands |
| | | `ActivityIsTrue` | no parentless agent, none of another run, unread only while the user has not looked |
| | | `TabsAreSound` | the strip selects an open tab of its session, one tab for a file, no process outlives its tab |
| | | `DocumentsAreReadRight` | boxes are counted in their own phase, under deeper headings too, marks are earned, the fences found are the blocks from a line that opens one to the first that closes it, a viewport tells of every line reported |
| | | `WindowsAreFaithful` | a name is the latest window opened under it, a viewport the newest report of the present load, a screen the output once, open notes on screen |
| | | `OutlivesChildren` | an agent that ended has nothing running below it that started before |
| | | `SessionIsKept` | no writer forgets what another added, no assembly removes another's directory, no launch touches the user's files, no tab takes the overview's place |
| `stores` | supervisor, placement, vault, vault set, vault index | `RunnerIsCurrent` | once signals and writers are done, the runner was launched from the manifest as it is |
| | | `PlacementIsSafe` | documents are never out of reach of a scan, nobody's folder is adopted |
| | | `VaultIsTrue` | vectors under the header they were asked for under, which made them unless Ollama was given another unseen; one build; texts under their stamps, but for files changed under theirs; configured roots warmed |
| | | `NoEndlessRelaunch` | a supervisor is not relaunching for ever |
| | | `MovesAreFinished` | an interrupted move is finished once its roots stay up |
| | | `WorkEnds` | a build of the vault ends, and an index that fell behind comes to hold what can be read, but for files changed under their stamp |
| `window` | chrome, documents, rail, diagrams, repositories, ollama | `NumbersAreItsOwn` | numbers drawn are the shown session's |
| | | `ProgressIsTold` | a pull is drawn exactly while in flight; one drawing has the ruler; "too slow" is the source's own fault |
| | | `NothingIsMoved` | a save replaces nothing written before it read; no row moves but a dragged one or a new one |
| | | `WindowCatchesUp` | once changes stop, the window agrees with what is behind it (a document that can be read and is within the limit shows a text of its length), its numbers keep coming back, and refreshes are over with the newest told so |

Every run also checks a type invariant (`TypeOK`, `RequestTypesOK`, `AgentTypesOK`,
`StoreTypesOK`, `WindowTypesOK`).

### The bounds, and why they are enough

* `Sessions`, `MaxBoots = 2`: two states are the smallest number that can conflict, on one
  session or on two; the safety results are also proved for every bound.
* `BugReports`: the hazards are races between the limits, so each is one tick: each lapses
  before, with and after the others.  Retention of one tick makes a record disappear while
  its call still polls.  The safety properties are proved for all values.
* `Escalation`: two calls and two answers: one of each, and one to be in its way; an outcome left by an earlier
  escalation is a confirmation (the first call may leave the second a cancellation).
* `Launch`: three workbenches let one replace another while a command line starts a third; two
  tickets, so that one can be in the other's way, not both with a session on disk.
* `Settings`: two roots and two folders, of which one lies above a root; two calls of any handler and one edit by hand of any field, which is a
  handler in the way of another and an editor in the way of both.  A root pinned by the environment is the first of the two, and starts
  as another than the configured one.
* `Repositories`: two owners and two generations, one superseded; one change of the owners in
  `requests`, none in `window`, whose question is the end of a refresh.
* `Paging`: three names on pages of two and one change: a name on each side of a page's boundary.
* `PullRequests`: two repositories, two moves on GitHub.
* `Retrieval`: every two rankings of up to four documents, with `rrfK` 1 instead of 60: agreement wins among the first `rrfK + 1` of a
  ranking, and with four documents and a `K` of 1 there are ranks on either side of that.
* `Chunks`, `Crumbs`, `Marks`, `Fences`: every text up to eight bytes in windows of three, every document up to four lines, five blocks and
  five lines: enough for a rune of two bytes on a limit, a heading that skips a level or repeats the title, a phase with
  a verification, a deeper heading and a box in it, a fence in a fence.
* `AgentTree`: two agents are needed for a call to be paired with the wrong child; six hooks are the calls,
  starts and results of both, or one whole life and its extras.  `MaxOther` and `MaxBoth` keep prompts, turn ends, questions
  and tool calls from crowding those out.
* `Activity`: two generations, a record cap of two and two agents beside the root: the cap drops one that a report
  is still to come for.
* `SessionDirs`: two confirms and an assembly over three repositories, one crash, one commit.
* `Tabs`, `AgentWindows`, `Viewport`, `Terminal`, `Presenter`: two intervals in a report, which is what merging needs; two routines, calls or loads against each other; a scrollback of two
  for three chunks.
* `Stamps`: three launches and two edits: an edit before and one between launches, one of which dies.
* `Artefacts`: two creators and two tries, three files.
* `Supervisor`: two writers and two changes; two supervisors, because what a dying one leaves behind concerns only its
  successor.  `RunnerIsCurrent` is proved for any number of each.
* `Placement`: a third root is where the session is routed to while a move from the first to the
  second is unfinished; the roots are alike, so the link starts at the first.  `Far` is empty because a
  second device only removes moves.
* `Vault`: two windows, one of which no model takes, two models, one search, two changes (of the model, of the files, a
  restart): a model that is swapped and swapped back.  The models are alike, so Ollama starts with the first, without it, or down.  `VaultSet`: two paths
  for two ids, two services.  `VaultIndex`: two names, three texts of which one stands in a file that cannot be read, three edits.
* `Chrome`: two sessions, one change, two switches: a switch away and back while a measurement is under way.
* `Documents`: three writes by anyone, one turn of the file out of reach, from which a write may bring it back, four texts: two of one length, because a poll compares
  lengths and times, one longer, and one over the limit.  The two of one length are alike, so the tab opens on the first of them or on the longer.
* `Rail`: three sessions, two changes on disk, from an empty rail and from one in order.
* `Diagrams`: two documents, two fences, one verdict in the cache, so that it is dropped.  `Ollama`: two pulls, one change of the server.

### Symmetry, views, deadlock

Calls, answers, command lines, tickets and owners are interchangeable in `requests`, and agents, types and questions in `agents`, and
TLC is told so; both runs check safety only.  The parts of `requests` share the names of their actors, so the group stays small.  The workbenches of `Launch` are not, because a start already takes one
fixed fresh name of several.  The runs with liveness use no symmetry.  The view `Shown` of `agents` leaves out what the
tabs' strips were when drawn, which no step and no property of that run looks at.

All runs set `CHECK_DEADLOCK FALSE`: each of these systems may really stop (the window is closed,
every report is answered, a bounded number of hooks has been heard).

## 4. Fairness

* `Sessions`: weak fairness of every step of an operation, the reaping of an exited
  supervisor and the quit handler: goroutines of the workbench, which the Go scheduler runs.
  Strong fairness of `Retire`, which waits for `showMu`: a `sync.Mutex` in starvation mode
  hands the lock to a goroutine that has waited for a millisecond.  Nothing is assumed of the user.
* `BugReports`: weak fairness of the clock and of each call's goroutine; strong
  fairness of `TimedOut`, because `select` chooses among ready cases at random and so takes
  the expired timer in the end although the ticker is ready as often.  Nothing is assumed of
  the user, of GitHub or of the workbench, which may stop at any time.
* `Supervisor`: weak fairness of the loop.  Whether a runner ever ends is not assumed; it
  is the hypothesis of `NoEndlessRelaunch`.
* `Placement`: a step once begun goes on, and a scan happens eventually while there is something
  for it to do: each launch of a workbench scans (`checkOnce`).  `MovesAreFinished` further assumes, as its
  hypothesis, that the roots end up configured and mounted and that the user stops asking for moves.
* `Vault`, `Repositories`: a goroutine goes on: the build, each refresh's fan-out.  Ollama and GitHub answer or fail, as their
  clients' timeouts make them.  `VaultIndex`: searches go on to refresh, and the interval between two refreshes passes.
* `Chrome`: weak fairness of the loop and of the goroutines it starts; strong fairness of the cases of its `select`, of
  which one at random is taken, so that none that is ready again and again is passed over for ever.
* `Documents`: the poll's `Rescan` is called at an interval and takes the registry's mutex, which others hold meanwhile: strong fairness; weak fairness of what it
  then does and of a save begun.
* `Rail`, `Diagrams`, `Ollama`: weak fairness of the goroutines.  A drawing itself is not assumed to end: the deadline is.

The joint runs state the fairness of each part for that part alone; a strong fairness that two
parts both need is stated once, for the choice between them (`TakeFirst` of `MCWindow`), of which
each state allows one part only.

## 5. What is proved

All by TLAPS, for every value of the constants.  The proofs depend on the assumptions named
in the modules (bounds are naturals, names are distinct) and on nothing else.  For `requests`, `agents`, `stores` and `window`
a theorem is about the joint specification the run checks, with the same property, its constants unbounded.

| Module | Theorem | States |
|---|---|---|
| `SessionsProofs` | `TypeCorrect`, `OneSupervisorEach`, `ListenersAreClosed`, `TheWindowIsSound` | `TypeOK`, `OneSupervisor`, `ListenersClosed`, `WindowIsSound` |
| | `Implements` | `ImplementsSlots`: each step is a `Take`, a `Release` or a stutter of `SessionSlots` under the mapping |
| `BugReportsProofs` | `TypeCorrect`, `NeverDenied`, `FiledOnceOnly`, `Reach`, `OutcomesFinal` | `TypeOK`, `NeverDeniedThenFiled`, `FiledOnce`, `LiveIsReachable`, `OutcomesAreFinal` |
| `RequestsProofs` | `RequestsTyped`, `LaunchSound`, `WhatIsToldTrue`, `NothingTaken` | `RequestTypesOK`, `LaunchIsSound`, `WhatIsToldIsTrue`, the action property `NothingIsTaken` |
| | `TypeCorrect`, `ToldTruly`, `NotRedrawn` | `TypeOK` of `Escalation`, `ToldWhatHappened`, `AnsweredIsCleared` |
| | `ListsAreWhole`, `RowsMatchTheirETag` | `ListIsWhole` of `Paging`, `NotModifiedIsTrue` of `PullRequests`: parts of `WhatIsToldIsTrue` |
| `RepositoriesProofs` | `RepositoriesTyped`, `ListsAreNeverOlder` | `RepoTypeOK`, `NoOlderList`; `RequestsProofs` and `WindowProofs` cite their lemmas |
| `AgentsProofs` | `AgentsAreTyped`, `SessionsAreWhole`, `TreeStaysSettled`, `ActivityTreeIsTrue`, `TabsStaySound`, `DocumentsStayReadRight`, `WindowsStayFaithful` | `AgentTypesOK`, `SessionIsWhole`, `TreeIsSettled`, `ActivityIsTrue`, `TabsAreSound`, `DocumentsAreReadRight`, `WindowsAreFaithful` |
| | `AgentsOutliveNone`, `SessionsAreKept` | the action properties `OutlivesChildren`, `SessionIsKept` |
| | `DirectoriesAreWhole`, `PromptsAreFound`, `DocumentsAreNumbered`, `ReportedTreeIsWhole`, `StripIsSound`, `NamesAreFaithful`, `MarksAreOfTheirOwn`, `FencesAreFound`, `ViewsAreOfTheirLoad`, `ScreensAreWhole`, `NotesAreOnScreen` | the same of each part alone |
| `AgentReportsProofs` | `TreeIsTyped`, `ChildrenArePaired`, `NamedChildrenStay`, `ToldAgentsStayDone`, `AnswersStay`, `AgentsWaitForChildren` | `TypeOK`, `PairedOnce`, `NamedStays`, `ToldStaysDone`, `AnsweredStaysAnswered` and `OutlivesChildren` of `AgentTree` |
| `StoresProofs` | `StoresTyped`, `StoresRunnerIsCurrent`, `StoresPlacementIsSafe`, `StoresVaultIsTrue` | `StoreTypesOK`, `RunnerIsCurrent`, `PlacementIsSafe`, `VaultIsTrue` |
| | `SupervisorIsCurrent`, `MovesAreRecoverable`, `VectorsAreTrue`, `RootsAreWarmed`, `StampsTellTheTexts` | the same of each part alone |
| `WindowProofs` | `WindowTyped`, `WindowNumbersAreItsOwn`, `WindowTellsProgress`, `WindowMovesNothing` | `WindowTypesOK`, `NumbersAreItsOwn`, `ProgressIsTold`, the action property `NothingIsMoved` |
| | `DrawnForItsSession`, `RailIsStill`, `PullsAreDrawn`, `RulersAreAlone` | the same of each part alone |

The joint proofs are put together from an inductive invariant of each part: the variable `part` never
changes, and a step of the joint specification is a step of the part it names, with the rest at rest.

* **Sessions.**  `OneSupervisor` is not inductive.  It is kept because a state with a process is the one
  registered under its slug (`StateInv`), and a state loses that registration only after `stop` has marked it, or before
  the page has seen it, so that no start is on its way to it (`CallInv`, place by place of the operation under `showMu`);
  and because nothing is booted beside a live supervisor of another workbench, which `agent.pid` names (`RegistryInv`).  The
  hypothesis is `Startup = NoSlug`: with a startup boot the theorem is false, as the `sessions_startup` run shows.
  `ListenersClosed` needs less: a listener that is recorded late, after its state was stopped, is one its operation
  is still on its way to closing (`ListenerInv`).
* **The window.**  `WindowIsSound` rests on the history: every registered session has been on screen or is what the
  operation is about to reveal, so when `forget` finds nobody in the history to fall back on, nobody is left alive
  (`HandInv`); in the middle of an operation an empty window is owed to the fallback.  That `LastAlive` finds somebody
  if there is somebody needs the last of finitely many places (`Latest`), which is the well-foundedness of the naturals.
  A directory is removed only once nobody answers for its session, and what is booted in its place is another (`CleanInv`).
* **BugReports.**  What an agent is told is about a record that may since have been dropped, a request that may still be on
  its way, and a POST that may still be answered.  The invariant says what a record tells of its POST (`Filing`), that a call queues
  once (`QueuedOnce`), and that a denial, told or on its way to be told, leaves nothing that could still file (`Heard`).
* **Escalation.**  A call is told the outcome that is in the manifest now, not the one that made it look, so that outcome has to be one
  of those written since it asked (`Fresh`); and until a request reaches the workbench no picker, answer or outcome is about it
  (`Untouched`).
* **Launch.**  What is known depends on who holds the launch lock (`LockInv`).  A command line that waits under it knows that there is no
  workbench but the one it started (`CallInv`), and a workbench that waits for its successor still holds whatever was promised
  (`WaitsInv`), so whichever of the two dies, there is one workbench and every delivered ticket is with somebody.  Steps
  are of three kinds, one workbench's own, one command line's, and a death; each lemma is about one kind.
* **Settings.**  A handler's call is one of three kinds by how far it has got (`BegunInv`, `StagedInv`, `IndexedInv`).  What it staged
  routes as the running generation does until the index was told, so a commit that fails at either end leaves routing and search
  agreeing; the scale of the file is the running one for as long as nobody edited the file by hand since the start; what the disk holds besides is what the writer's own read found, unless the editor came in between.  The action property
  excludes the steps of the editor only.
* **Repositories.**  A run that was superseded keeps its generation's number, and what it still sends is looked at under that number;
  a list in a queue, on the disk or on the screen is no older than the one asked for before it (`OlderInv`).
* **Supervisor.**  Every file that the supervisor has read on its way to the runner in the terminal
  and that has changed since is *owed* a signal: one waits in the channel, or a writer is
  still on its way to sending it, and the supervisor listens (`Owed`).  Once no writer is under way
  and no signal waits, nothing can be owed, so nothing has changed.
* **Placement.**  Only the session's own folder ever carries its marker (`MarkedIsHome`), and a move
  has put it there before the folder leaves the place the link points at (`Under`).  A scan that
  trusts the marker therefore relinks to the right folder, and the marker is only taken off where the
  link points.
* **Vault.**  Vectors in hand, in the cache and on disk are under the header they were asked for under, and a build that outlived
  that header keeps nothing (`VaultInv`).  That the header is also the model that made them (`ModelInv`) holds because every header the
  service relies on is the one served, or has been noted as a stray when Ollama was given another (`OneModel`), and because whatever relies on a
  header, at whichever step it stands, is accounted for (`Truthful`); a root that was configured is warmed or its service is on its way to it; and a text that was
  read before its stamp was taken is filed under that earlier stamp, never a later one, unless its file bore that stamp twice.
* **Chrome.**  Numbers are the shown session's because whatever the loop holds, and whatever a goroutine is to
  answer, is labelled with the session it was taken for, and the loop draws only what has the label of the session
  it last drew (`OwnInv`).
* **Diagrams, Ollama, documents, the rail.**  A ruler that was left behind is never taken again, so a drawing's budget is its own;
  the pull that is drawn is the one whose generation is current; a save loses what was written after its read only; and an order kept
  through insertion, removal and prepending keeps the relative places of all rows but one (`Above`).
* **PullRequests.**  A row is never newer nor older than the ETag it is kept with, in the cache and in the fetch that is putting the
  next one together (`PairedInv`); so when GitHub answers "not modified" to that ETag, the rows are GitHub's.

* **Paging.**  As long as nothing was removed from the list, a name's place in it only grows (`RanksOnlyGrow`), so a name that was there
  all along is gathered once the page its place is on has been read, and is not pushed behind the page that is read next
  (`GatheredThere`).  That a page that is not full is the last one counts the names at the places of a page (`PageIsFull`).
* **The agent tree.**  Two things are not in the tracker's state.  That a confirmed pair of a call and a child is never undone needs
  that every hook still under way names the child and the caller that the runner really has, so the hooks on the wire are
  part of the invariant (`WireFits`), and so is that a call's start and its result each come once (`CallsComeOnce`).  That an
  agent told done is not set to work again by a late hook needs the runner's order: a caller waits for the agents it called,
  and nothing an ended agent did is stamped after its end (`CallersWait`, `EndedIsQuiet`), as long as no call failed.  Each operator of
  the tracker is shown to keep a sound tree sound, but for the calls its hook is still busy with (`SoundBut`), and then the hooks that are
  made of them.  TLC found no violation of `TreeInv` on the run's instance before it was proved.
* **Activity.**  Every record has the generation of its run and its parent among the records (`Whole`); the root of a run
  is never the one that the cap drops.
* **Session directories.**  Until the manifest is written, what is checked out is what the assembly made (`AssembledSoFar`), and nobody
  confirms (`ConfirmsLater`); from then on what a confirm made or moved stays as it left it until the session is removed
  (`ConfirmsStand`), so what it adds to the manifest's list, which it reads again under the lock, is there.
* **Stamps.**  What a launch has done to a path stands at its later steps unless the user has edited the path since
  (`AgentSoFar`, `CanonicalSoFar`, `DiscoverySoFar`, `SkillSoFar`), which is the hypothesis under which the runner finds its prompt.
* **Artefacts.**  A creator that has picked its number holds the lock, so no number is picked beside it (`LockIsHeld`, `PickedIsAbove`), and
  documents made later here have higher numbers (`LaterIsHigher`); numbers do not run ahead of what was tried (`NumbersKeepPace`).
* **Tabs.**  Tabs of a session have different order values (`OrdersApart`), so each has one place in the strip, and the rank of a
  moved tab is that of its new place.  What a goroutine is about to do with a tab stays right while others
  open, move and close tabs: a look for a file's tab is under `sourceMu` until its tab is there, a tab on its way out is no
  overview, and what a stop has listed is of a session that takes no more tabs (`ProcessesInv`).
* **Windows of agents.**  A window an entry names was opened by that entry's claim, and a claim still on its way is
  nobody's entry (`EntriesAreTheirClaims`, `ClaimsAreOnes`); what a call is about to forget is gone (`GoneIsGone`).
* **Documents.**  The sections and phases a scan has so far are numbered by the headings it has read so far, in their order; an open
  fence is a block that ends at the last line read; and what a viewport has merged of the reported intervals covers those merged so far,
  by well-founded induction over the finite sets of intervals, along which the merge is a recursive function.
* **Terminal, presenter.**  The chunks on their way to a page run on from what it shows, up to the last one sent (`SentInOrder`); notes
  that count as open have a window, or a call on its way that opens one (`NotesOnTheirWay`).

### Only model-checked

* Liveness is out of the prover's reach here: `CleanExitRetires`, `EveryCallAnswered`, `NoEndlessRelaunch`, `MovesAreFinished`, `WorkEnds`,
  `WindowCatchesUp`.
* `WhatIsFoundIsTrue`, of `Crumbs`, `Chunks` and `Retrieval`, is checked over bounded inputs only: what it takes are inductive
  invariants of the three passes over sequences, which are not written yet.
* The runs that expect a violation show a step the code can take; there is nothing to prove of them.

## 6. Findings

Places where the code does something that a comment or a message of the repository says it does not.

1. **Two supervisors for the startup session** (`sessions_startup`, `desktop/desktop.go:392`).  `run()`
   boots the session it was started on without `showMu`, after its control socket is served and
   published; a ticket for the same session reaches `Show` meanwhile.
2. **An orchestrator that continues the assistant's conversation** (`supervisor_handover`,
   `launch/supervise.go:60`).  The handoff marker is removed before the launch it is for.
3. **An escalation dropped by an older answer** (`escalation_dropped`, `desktop/picker.go:113`).
   `clearPicker` clears whatever request there is.
4. **A turn that ends under a newer prompt** (`agents_turn`, `desktop/agent_events.go:224`).  `promptAt` moves
   back when prompts are heard out of order.
5. **A commit left on no branch** (`commit_stranded`, `session/upgrade.go:99`).  The look at a pinned
   checkout's head and the branch cut from the fetched tip are a fetch apart, and the agent may commit in between, which is what
   the look is there to rule out.

Smaller observations, which have no run of their own:

* With `MayOrphan <- TRUE` for `Launch` in `MCRequests` TLC finds two workbenches: the launch lock dies with
  the command line while the child it started lives on (`launch/detach.go:83`, against `main.go:112`: "There is one workbench").
* A successor that is killed at the deadline just as it published leaves its predecessor without a descriptor (`launch/detach.go:100`).
* A cancel and a confirm of one request may be under way together, and the agent is told the one written last (`desktop/picker.go:119`).
* `NoSaveAfterTheRead` of `Settings` fails: `Relaunch` lets the config's writer go before the process has
  exited, so that a save can still come after the successor's read (`desktop/settings.go:426`).
* `DroppedRootsStopBuilding` of `VaultSet` fails: a build that a search began runs under the service's own context, which
  dropping the root does not cancel.
* `DrawnIsOpen` of `Tabs` fails: two announcements of one session can be sent in the other order than their strips were taken;
  the next announcement puts it right.  The agent tree's flushes have the same shape (`desktop/agent_tree.go:141`).
* `FreshOnlyIfReached` of `Repositories` fails: an owner that was not reached can be saved under the present time.
* A list read page by page skips a name when one before it is removed meanwhile (`github/github.go:383`); `ListIsWhole` says so only of
  lists nothing was removed from while they were read.
* A launch that dies between the truncation of an agent's file and its text leaves a file without a mark, which every later
  launch takes for the user's (`prompts/stamp.go:101`).
* A process that dies between creating a session's directory and marking it leaves the slug taken (`session/session.go:86`).
* A placement that crashed after the swap and was routed elsewhere keeps the old record (`placement/placement.go:236`), which nothing else reads.
* In the activity tree a failed call takes the provisionally matched child with it (`desktop/agent_events.go:355`), and a second stop
  does not move `FinishedAt` on (`:412`), so `ToldStaysDone` covers runs without failed calls and agents with one activation.

## 7. Abstractions to know of

* `AgentTree` stamps hooks in the order in which they happen: clocks of one machine.
* `Tabs` sends strips as places of tabs and not as sequences, and `Paging` counts what it gathered of a name: what the page sees of
  the order, and what a list says of a name twice, is the same.
* `Viewport` merges a report's intervals from the lowest up, as the code does after sorting them.
* `Activity` has no times: which of the finished agents is the oldest, for the cap, is left open.
* `Launch`: the confirmation a user is asked for before a restart does not come back to its page once its session has gone;
  the choice of the session to open, and the generations of the New session overlay, are left out.
  It is checked with `MayOrphan <- FALSE`: a process that waits for the workbench it started is not killed meanwhile.
* `Placement`: a folder delivered by a sync tool at the very place the link points at, while the session's own folder
  has moved on, would be taken for the session's own by the code and is excluded (`Delivered`).  So is an agent that starts
  between the check of `agent.pid` and the rename: it would keep its open files and lose its paths, which no property here observes.
* `Escalation`: clones, brief and branch names are data; only their taking time and possibly failing is kept.
* `BugReports`: what a report says, its redaction and its gist are data.
* `SessionDirs`: git is external, one step for a command; progress reports are left out.
* `Stamps`: one asset of each sort; the rendering of its text is data.
* `Documents`: a text is a name with a length; every write has an mtime of its own, so a write of the same length within one tick, which the
  poll would miss, is not among them; the markup of a document and of an answer is data.
* `Terminal`: escape sequences and sizes are left out.
* `Vault`: a text is a window with or without something no model takes, a vector the header it was asked for under and the
  model that made it; a window that overflows the model is halved and its halves embedded one by one (`vault/ollama.go:175`), which is one answer
  here; tokenising and stemming are data, which `Retrieval` takes as rankings.
* `VaultIndex`: a file that was removed and made anew bears a new stamp or one of those the code may still hold of it.
* `Chunks`: texts are well-formed UTF-8; a byte ends a line, starts a rune or follows one; no other blank runes.
* `Fences`: lines are what Scan takes them for.  A fence in a list item or in an HTML block, of which Scan knows nothing, is not told
  from one outside.
* `Settings`: `scale` stands for all the fields that the page is served from the running configuration and that need no restart.
* `Chrome`: git and GitHub answer with the version of what they were asked for, at any time during the call, or fail.
* `Diagrams`, `Ollama`: D2, Mermaid and the Ollama service are external and answer, fail or are late.

## 8. Not modelled, and why

* Control socket operations (`workbench/`): one request and one answer per connection, without
  state; what they do is in the modules of the components, and how the socket fails in `BugReports` and `AgentWindows`.
* Runner and editor commands, tickets, markdown rendering, gallery, share and theme, comment policy: functions of their
  input, which table tests reach.
* The page (`desktop/frontend/`): its calls are inputs here, and what it keeps that a property needs is in `Documents`, `Viewport`,
  `Terminal` and `Activity`.
* The evaluation harness (`evalharness/`) is a development tool that runs scenarios one after the other.
* Small packages: identifiers and helpers.  The lock of `atomicfile` is modelled where it is taken.
* Git, the window system, GitHub, Linear, Ollama: external, modelled by what the code makes of their answers.

Left out of the components that are partly modelled: stickers, terminal sizes, a session's progress
reports, the choice of the session a launch opens, the checks of tokens in the settings, branch menus, the check for
a newer release, usage figures in the agent tree, how a runner's arguments are put together.

## 9. Plan

Done, in the order of importance: `Sessions` and `SessionSlots` with proofs; `BugReports` with proofs; `Supervisor` and `Escalation` with
proofs; `AgentTree`, `Launch`; `Placement` with proofs; session directories, tabs, documents, windows of agents, settings; chrome, pull
requests, rail and lists; vault, diagrams, Ollama; the functions of texts; then the proofs of the joint runs `stores`, `window`,
`requests` and `agents`, and of `WindowIsSound`.

Next:

1. `Launch`: the generations of the New session overlay (`Begin`/`End` that cross), with the page as an actor.
2. An abstract specification of `BugReports` (a report is queued, decided once, told once) that the detailed one implements, and one of
   `Tabs` (a token is answered once).
3. Inductive invariants of `Chunks`, `Crumbs` and `Retrieval`, which are written without folds so that `WhatIsFoundIsTrue` can be proved.
4. Where a renderer of markdown sees a fence, with the containers that `Fences` leaves out.

## 10. Running it

In this directory: `tlasany M.tla` parses, `tlc -workers 2 -config MCX.cfg MCX` checks (`-config Sessions.cfg Sessions` and
`-config BugReports.cfg BugReports` for the two that stand alone), `tlapm XProofs.tla` proves; `RequestsProofs`, `AgentsProofs` and
`AgentReportsProofs` take about twenty minutes each from nothing.  The longest run, `requests`, takes between three and four minutes
on two workers.  To check one part of a joint run, name it alone in `Parts`.
