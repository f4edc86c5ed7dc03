-------------------------------- MODULE Tabs --------------------------------
(* The registry of open tabs (desktop/registry.go, windows.go) and the        *)
(* processes behind them (terminals.go).  One mutex guards the registry, and  *)
(* sourceMu one check and open of a tab with a source.  Both are released     *)
(* between the steps below: a call announces a session by taking its strip    *)
(* under the mutex and sending it to the page after letting the mutex go.     *)
EXTENDS Naturals, FiniteSets, Functions

CONSTANTS
    Owner,      \* the sessions that own tabs
    Routine,     \* goroutines: of the page, of the control sockets, of a pump, the poll
    Option,     \* what a tab may be opened with: [kind, source, select, closes]
    NoSource,   \* the source of a tab that shows no file
    MaxTabs     \* bound: tabs ever opened

TabsAssumption ==
    /\ Owner # {} /\ MaxTabs \in Nat
    /\ Option \subseteq [kind : STRING \ {"overview", "one", "all"}, source : STRING,
                        select : BOOLEAN, closes : BOOLEAN]

VARIABLES
    opened,     \* registry.open: the tabs by id
    tabSeq,     \* registry.seq
    selected,   \* registry.selected: an id per session, 0 where there is none
    shut,       \* sessions whose windowsClosed is set
    allShut,    \* registry.closed
    sourceBy,   \* who holds sourceMu
    running,    \* ids whose process runs
    ending,     \* processes that ended and whose pump has not reported it
    strip,      \* the last strip each session's page was sent
    doing       \* what each goroutine is at

tabVars == <<opened, tabSeq, selected, shut, allShut, sourceBy, running, ending, strip, doing>>

TabId == 1..MaxTabs
Free == {}
Idle == [at |-> "idle"]
At(c, step) == doing[c].at = step
Become(c, to) == doing' = [doing EXCEPT ![c] = to]
Goto(c, step) == Become(c, [doing[c] EXCEPT !.at = step])

(* A call that returns lets go of sourceMu when it holds it.                   *)
Return(c) == Become(c, Idle) /\ sourceBy' = sourceBy \ {c}

Overview == [kind |-> "overview", source |-> NoSource, select |-> FALSE, closes |-> FALSE]
Shell == [kind |-> "terminal", source |-> NoSource, select |-> FALSE, closes |-> TRUE]
Opens == Option \cup {[o EXCEPT !.select = FALSE] : o \in Option} \cup {Overview, Shell}

(* The calls that open nothing: what they are about instead.                   *)
OneTab == [kind |-> "one", source |-> NoSource, select |-> FALSE, closes |-> FALSE]
AllTabs == [kind |-> "all", source |-> NoSource, select |-> FALSE, closes |-> FALSE]

Blank == [sel |-> 0, tabs |-> {}]    \* a strip that shows nothing

(* A tab: what it was opened with, whose it is, its place in the strip, and   *)
(* for a terminal whether its process was started, how it ended, and what the *)
(* last poll of a user's shell saw.                                           *)
Tab == [owner : Owner, opt : Opens, order : TabId, shell : BOOLEAN,
        started : BOOLEAN, exit : {"none", "ok", "failed"}, busy : BOOLEAN]

Pinned(id) == opened[id].opt.kind = "overview"
IsTerminal(id) == opened[id].opt.kind = "terminal"
OwnedIn(tabs, o) == {id \in DOMAIN tabs : tabs[id].owner = o}

(* leftmost, and the place of a tab in its session's strip, which ordered is.  *)
Leftmost(tabs, o) ==
    LET own == OwnedIn(tabs, o)
    IN  IF own = {} THEN 0 ELSE CHOOSE id \in own : \A v \in own : tabs[id].order <= tabs[v].order

Place(id) ==
    Cardinality({v \in OwnedIn(opened, opened[id].owner) : opened[v].order <= opened[id].order})

Status == {"", "idle", "running", "ok", "failed"}
TabStatus(w) ==
    CASE w.opt.kind # "terminal" -> ""
      [] w.opt.kind = "terminal" /\ w.exit = "none" /\ w.shell /\ ~w.busy -> "idle"
      [] w.opt.kind = "terminal" /\ w.exit = "none" /\ (w.busy \/ ~w.shell) -> "running"
      [] w.opt.kind = "terminal" /\ w.exit # "none" -> w.exit

(* What a page draws of one session: its tabs left to right and the selection. *)
Surfaces(o) ==
    [sel |-> selected[o], tabs |-> {<<Place(id), id, TabStatus(opened[id])>> : id \in OwnedIn(opened, o)}]

Init ==
    /\ opened = << >>
    /\ tabSeq = 0
    /\ selected = [o \in Owner |-> 0]
    /\ shut = {}
    /\ allShut = FALSE
    /\ sourceBy = Free
    /\ running = {}
    /\ ending = {}
    /\ strip = [o \in Owner |-> Blank]
    /\ doing = [c \in Routine |-> Idle]

-----------------------------------------------------------------------------
(* Pieces of the operations.                                                  *)

Closed(o) == allShut \/ o \in shut

(* spawn under the mutex: the next id at the right end of its session's strip. *)
Spawn(o, opt, shell) ==
    /\ tabSeq < MaxTabs
    /\ tabSeq' = tabSeq + 1
    /\ opened' = [id \in DOMAIN opened \cup {tabSeq + 1} |->
            IF id \in DOMAIN opened THEN opened[id]
            ELSE [owner |-> o, opt |-> opt, order |-> tabSeq + 1, shell |-> shell,
                  started |-> FALSE, exit |-> "none", busy |-> FALSE]]
    /\ selected' = IF opt.select THEN [selected EXCEPT ![o] = tabSeq + 1] ELSE selected

(* Mutant: a tab that goes leaves the selection alone.                         *)
TakeOffSelected(id) ==
    /\ opened' = Restrict(opened, DOMAIN opened \ {id})
    /\ UNCHANGED selected

(* discard under the mutex: a selected tab hands the selection to the leftmost *)
(* of those left.                                                              *)
TakeOff(id) ==
    LET o == opened[id].owner
        left == Restrict(opened, DOMAIN opened \ {id})
    IN  /\ opened' = left
        /\ selected' = IF selected[o] # id THEN selected
                       ELSE [selected EXCEPT ![o] = Leftmost(left, o)]

Showing(o, source) == {id \in OwnedIn(opened, o) : opened[id].opt.source = source}

(* discard, up to the stop of the process behind the tab.                      *)
Discarding(c, id, then, opt, left) ==
    /\ TakeOff(id)
    /\ Become(c, [at |-> IF opened[id].started THEN "kill" ELSE "take", then |-> then,
                  to |-> opened[id].owner, id |-> id, opt |-> opt,
                  snap |-> Blank, left |-> left])

-----------------------------------------------------------------------------
(* The steps every call shares.                                               *)

(* process.stop of a discarded tab: it waits until the process is gone.        *)
Kill(c) ==
    /\ At(c, "kill")
    /\ running' = running \ {doing[c].id}
    /\ ending' = ending \cup ({doing[c].id} \cap running)
    /\ Goto(c, "take")
    /\ UNCHANGED <<opened, tabSeq, selected, shut, allShut, sourceBy, strip>>

(* announce: the strip is taken under the mutex ...                            *)
TakeStrip(c) ==
    /\ At(c, "take")
    /\ Become(c, [doing[c] EXCEPT !.at = "emit", !.snap = Surfaces(doing[c].to)])
    /\ UNCHANGED <<opened, tabSeq, selected, shut, allShut, sourceBy, running, ending, strip>>

(* ... and sent to the page after it.  openWindow is over when its tab is drawn, *)
(* and with it its hold of sourceMu.                                           *)
EmitStrip(c) ==
    /\ At(c, "emit")
    /\ strip' = [strip EXCEPT ![doing[c].to] = doing[c].snap]
    /\ IF doing[c].then = "return" THEN Return(c)
       ELSE /\ Become(c, [doing[c] EXCEPT !.at = doing[c].then, !.snap = Blank])
            /\ sourceBy' = IF doing[c].then = "launch" THEN sourceBy \ {c} ELSE sourceBy
    /\ UNCHANGED <<opened, tabSeq, selected, shut, allShut, running, ending>>

Call(step, o, id, opt) ==
    [at |-> step, then |-> "return", to |-> o, id |-> id, opt |-> opt, snap |-> Blank, left |-> {}]
Begin(c, step, o, id, opt) == At(c, "idle") /\ Become(c, Call(step, o, id, opt))

-----------------------------------------------------------------------------
(* Opening, for the session of the caller's socket or the one on screen.       *)

(* Mutant: a session that was unloaded is not refused a tab.                    *)
SpawningLate(c, d) ==
    LET byPage == d.then = "select"
        opt == IF byPage THEN [d.opt EXCEPT !.select = FALSE] ELSE d.opt
        next == IF byPage THEN "select"
                ELSE IF d.opt.kind = "terminal" /\ d.opt # Shell THEN "launch" ELSE "return"
    IN  /\ Spawn(d.to, opt, d.opt = Shell)
        /\ Become(c, [d EXCEPT !.at = "take", !.id = tabSeq + 1, !.then = next])
        /\ UNCHANGED sourceBy

(* spawn: refused once the session is unloaded or the workbench closes.  The   *)
(* page's own openings select nothing here, and an agent's terminal is started *)
(* at once.                                                                    *)
Spawning(c, d) ==
    LET byPage == d.then = "select"
        opt == IF byPage THEN [d.opt EXCEPT !.select = FALSE] ELSE d.opt
        next == IF byPage THEN "select"
                ELSE IF d.opt.kind = "terminal" /\ d.opt # Shell THEN "launch" ELSE "return"
    IN  \/ /\ Closed(d.to)
           /\ Return(c)
           /\ UNCHANGED <<opened, tabSeq, selected>>
        \/ /\ ~Closed(d.to)
           /\ Spawn(d.to, opt, d.opt = Shell)
           /\ Become(c, [d EXCEPT !.at = "take", !.id = tabSeq + 1, !.then = next])
           /\ UNCHANGED sourceBy

(* Mutant: the check and the open are not kept from other openings.            *)
DisplaceUnlocked(c, o, opt) ==
    LET shown == Showing(o, opt.source)
    IN  /\ At(c, "idle")
        /\ \/ /\ shown = {}
              /\ Begin(c, "spawn", o, 0, opt)
              /\ UNCHANGED <<opened, selected>>
           \/ \E id \in shown : Discarding(c, id, "spawn", opt, {})
        /\ UNCHANGED <<tabSeq, shut, allShut, sourceBy, running, ending, strip>>

(* openWindow with a source: the tab already showing it goes first.            *)
Displace(c, o, opt) ==
    LET shown == Showing(o, opt.source)
    IN  /\ At(c, "idle")
        /\ sourceBy = Free
        /\ sourceBy' = {c}
        /\ \/ /\ shown = {}
              /\ Begin(c, "spawn", o, 0, opt)
              /\ UNCHANGED <<opened, selected>>
           \/ \E id \in shown : Discarding(c, id, "spawn", opt, {})
        /\ UNCHANGED <<tabSeq, shut, allShut, running, ending, strip>>

(* showOrOpen, for the page: a tab showing the source is selected instead.     *)
FindShown(c, o, opt) ==
    LET shown == Showing(o, opt.source)
    IN  /\ At(c, "idle")
        /\ sourceBy = Free
        /\ sourceBy' = {c}
        /\ \/ /\ shown = {}
              /\ Become(c, [Call("spawn", o, 0, opt) EXCEPT !.then = "select"])
           \/ \E id \in shown : Become(c, Call("select", o, id, opt))
        /\ UNCHANGED <<opened, tabSeq, selected, shut, allShut, running, ending, strip>>

SpawnTab(c) ==
    /\ At(c, "spawn")
    /\ Spawning(c, doing[c])
    /\ UNCHANGED <<shut, allShut, running, ending, strip>>

(* openAgentWindow without a source.                                           *)
OpenPlain(c, o, opt) ==
    /\ At(c, "idle")
    /\ opt.source = NoSource
    /\ Spawning(c, Call("spawn", o, 0, opt))
    /\ UNCHANGED <<shut, allShut, running, ending, strip>>

(* The overview tab, opened when a session comes on screen unless it is open:  *)
(* owner.mu keeps two openings apart.                                          *)
OpenOverview(c, o) ==
    /\ ~\E id \in OwnedIn(opened, o) : Pinned(id)
    /\ OpenPlain(c, o, Overview)

OpenShell(c, o) == OpenPlain(c, o, Shell)

(* openAgentWindow after the tab is drawn: its command is forked *)
(* under the mutex unless the tab is gone by now.  A fork that fails takes the *)
(* tab back.                                                                   *)
Launch(c) ==
    /\ At(c, "launch")
    /\ LET id == doing[c].id
       IN  \/ /\ id \notin DOMAIN opened
              /\ Return(c)
              /\ UNCHANGED <<opened, running>>
           \/ /\ id \in DOMAIN opened
              /\ running' = IF opened[id].started THEN running ELSE running \cup {id}
              /\ opened' = [opened EXCEPT ![id].started = TRUE]
              /\ Return(c)
           \/ /\ id \in DOMAIN opened
              /\ ~opened[id].started
              /\ Goto(c, "discard")
              /\ UNCHANGED <<opened, running, sourceBy>>
    /\ UNCHANGED <<tabSeq, selected, shut, allShut, ending, strip>>

(* The page mounts a terminal: the command is started if nothing has.          *)
StartTerminal(c, id) ==
    /\ At(c, "idle")
    /\ id \in DOMAIN opened
    /\ IsTerminal(id)
    /\ ~opened[id].started
    /\ opened' = [opened EXCEPT ![id].started = TRUE]
    /\ running' = running \cup {id}
    /\ UNCHANGED <<tabSeq, selected, shut, allShut, sourceBy, ending, strip, doing>>

-----------------------------------------------------------------------------
(* Selecting, moving and closing.                                              *)

(* selectWindow, asked for by the page: a tab that is gone, or another          *)
(* session's, is refused.                                                      *)
SelectTab(c, o, id) ==
    /\ id \in OwnedIn(opened, o)
    /\ Begin(c, "take", o, id, OneTab)
    /\ selected' = [selected EXCEPT ![o] = id]
    /\ UNCHANGED <<opened, tabSeq, shut, allShut, sourceBy, running, ending, strip>>

(* The same at the end of showOrOpen, under sourceMu.                           *)
SelectShown(c) ==
    /\ At(c, "select")
    /\ LET d == doing[c]
       IN  IF d.id \in OwnedIn(opened, d.to)
           THEN /\ selected' = [selected EXCEPT ![d.to] = d.id]
                /\ Become(c, [d EXCEPT !.at = "take", !.then = "return"])
                /\ UNCHANGED sourceBy
           ELSE /\ Return(c)
                /\ UNCHANGED selected
    /\ UNCHANGED <<opened, tabSeq, shut, allShut, running, ending, strip>>

(* The tabs next to one of a session's, by their order values.                 *)
LeftOf(w) ==
    CHOOSE v \in OwnedIn(opened, opened[w].owner) :
        /\ opened[v].order < opened[w].order
        /\ \A u \in OwnedIn(opened, opened[w].owner) :
              opened[u].order < opened[w].order => opened[u].order <= opened[v].order
RightOf(w) ==
    CHOOSE v \in OwnedIn(opened, opened[w].owner) :
        /\ opened[v].order > opened[w].order
        /\ \A u \in OwnedIn(opened, opened[w].owner) :
              opened[u].order > opened[w].order => opened[u].order >= opened[v].order

(* The tab whose order value one gets when another takes the place `to` has:   *)
(* those on the way make room by one place.                                    *)
Dealt(id, to, w) ==
    LET place == opened[w].order
    IN  IF w = id THEN to
        ELSE IF opened[id].order < place /\ place <= opened[to].order THEN LeftOf(w)
        ELSE IF opened[to].order <= place /\ place < opened[id].order THEN RightOf(w)
        ELSE w

(* reorder: the session's own order values, dealt again over its tabs in their *)
(* new sequence, where the tab is in the place that `to` has.  The overview    *)
(* keeps the left end.                                                         *)
Reorder(c, o, id, to) ==
    /\ {id, to} \subseteq OwnedIn(opened, o)
    /\ id # to
    /\ ~Pinned(id)
    /\ ~(to = Leftmost(opened, o) /\ Pinned(to))
    /\ Begin(c, "take", o, id, OneTab)
    /\ opened' = [w \in DOMAIN opened |->
            IF w \notin OwnedIn(opened, o) THEN opened[w]
            ELSE [opened[w] EXCEPT !.order = opened[Dealt(id, to, w)].order]]
    /\ UNCHANGED <<tabSeq, selected, shut, allShut, sourceBy, running, ending, strip>>

(* Close, by the agent's tool or the strip's own control.                      *)
CloseTab(c, id) ==
    /\ At(c, "idle")
    /\ ~Pinned(id)
    /\ Discarding(c, id, "return", OneTab, {})
    /\ UNCHANGED <<tabSeq, shut, allShut, sourceBy, running, ending, strip>>

(* discard: a tab somebody else discarded meanwhile is none of its business.   *)
DiscardTab(c) ==
    /\ At(c, "discard")
    /\ IF doing[c].id \in DOMAIN opened
       THEN Discarding(c, doing[c].id, "return", OneTab, {}) /\ UNCHANGED sourceBy
       ELSE Return(c) /\ UNCHANGED <<opened, selected>>
    /\ UNCHANGED <<tabSeq, shut, allShut, running, ending, strip>>

-----------------------------------------------------------------------------
(* What processes do.                                                          *)

ProcessEnds(id) ==
    /\ id \in running
    /\ running' = running \ {id}
    /\ ending' = ending \cup {id}
    /\ UNCHANGED <<opened, tabSeq, selected, shut, allShut, sourceBy, strip, doing>>

(* exited: a clean end closes the tab, a failure keeps it readable.            *)
Exited(c, id, code) ==
    /\ id \in ending
    /\ ending' = ending \ {id}
    /\ IF id \notin DOMAIN opened
       THEN UNCHANGED <<opened, doing>>
       ELSE /\ opened' = [opened EXCEPT ![id].exit = code]
            /\ Begin(c, IF code = "ok" /\ opened[id].opt.closes THEN "discard" ELSE "take",
                     opened[id].owner, id, OneTab)
    /\ UNCHANGED <<tabSeq, selected, shut, allShut, sourceBy, running, strip>>

(* pollForeground: the shells are listed first, and each is read and marked    *)
(* after.                                                                      *)
PollShell(c, id) ==
    /\ id \in DOMAIN opened
    /\ opened[id].shell /\ opened[id].started /\ opened[id].exit = "none"
    /\ Begin(c, "mark", opened[id].owner, id, OneTab)
    /\ UNCHANGED <<opened, tabSeq, selected, shut, allShut, sourceBy, running, ending, strip>>

MarkShell(c, busy) ==
    /\ At(c, "mark")
    /\ LET id == doing[c].id
       IN  IF id \in DOMAIN opened /\ opened[id].exit = "none" /\ opened[id].busy # busy
           THEN /\ opened' = [opened EXCEPT ![id].busy = busy]
                /\ Goto(c, "take")
                /\ UNCHANGED sourceBy
           ELSE Return(c) /\ UNCHANGED opened
    /\ UNCHANGED <<tabSeq, selected, shut, allShut, running, ending, strip>>

-----------------------------------------------------------------------------
(* stop of one session and stopAll: admission is closed first, the tabs are    *)
(* listed after that and discarded one by one.                                 *)
StopSession(c, o) ==
    /\ Begin(c, "list", o, 0, OneTab)
    /\ shut' = shut \cup {o}
    /\ UNCHANGED <<opened, tabSeq, selected, allShut, sourceBy, running, ending, strip>>

StopAll(c) ==
    /\ Begin(c, "list", CHOOSE o \in Owner : TRUE, 0, AllTabs)
    /\ allShut' = TRUE
    /\ UNCHANGED <<opened, tabSeq, selected, shut, sourceBy, running, ending, strip>>

ListTabs(c) ==
    /\ At(c, "list")
    /\ Become(c, [doing[c] EXCEPT !.at = "sweep", !.left =
            IF doing[c].opt = AllTabs THEN DOMAIN opened ELSE OwnedIn(opened, doing[c].to)])
    /\ UNCHANGED <<opened, tabSeq, selected, shut, allShut, sourceBy, running, ending, strip>>

Sweep(c) ==
    /\ At(c, "sweep")
    /\ LET d == doing[c]
       IN  \/ /\ d.left = {}
              /\ Return(c)
              /\ UNCHANGED <<opened, selected>>
           \/ /\ UNCHANGED sourceBy
              /\ \E id \in d.left :
                IF id \in DOMAIN opened
                THEN Discarding(c, id, "sweep", d.opt, d.left \ {id})
                ELSE /\ Become(c, [d EXCEPT !.left = @ \ {id}])
                     /\ UNCHANGED <<opened, selected>>
    /\ UNCHANGED <<tabSeq, shut, allShut, running, ending, strip>>

-----------------------------------------------------------------------------

Next ==
    \/ \E c \in Routine :
        \/ SpawnTab(c) \/ Launch(c)
        \/ SelectShown(c) \/ DiscardTab(c) \/ Kill(c) \/ TakeStrip(c) \/ EmitStrip(c)
        \/ StopAll(c) \/ ListTabs(c) \/ Sweep(c)
        \/ \E o \in Owner, opt \in Option :
            \/ opt.source # NoSource /\ (Displace(c, o, opt) \/ FindShown(c, o, opt))
            \/ OpenPlain(c, o, opt)
        \/ \E o \in Owner : OpenOverview(c, o) \/ OpenShell(c, o) \/ StopSession(c, o)
        \/ \E id \in DOMAIN opened : StartTerminal(c, id) \/ CloseTab(c, id) \/ PollShell(c, id)
        \/ \E o \in Owner, id \in DOMAIN opened : SelectTab(c, o, id)
        \/ \E o \in Owner, id, to \in DOMAIN opened : Reorder(c, o, id, to)
        \/ \E id \in ending, code \in {"ok", "failed"} : Exited(c, id, code)
        \/ \E busy \in BOOLEAN : MarkShell(c, busy)
    \/ \E id \in running : ProcessEnds(id)

Spec == Init /\ [][Next]_tabVars

(* Everything but what is on its way to the pages and what they draw: no step  *)
(* but the sending of a strip reads those.                                     *)
RegistryView ==
    <<opened, tabSeq, selected, shut, allShut, sourceBy, running, ending,
      [c \in Routine |-> IF doing[c] = Idle THEN Idle ELSE [doing[c] EXCEPT !.snap = Blank]]>>

-----------------------------------------------------------------------------
Step == [at : {"spawn", "select", "launch", "kill", "take", "emit", "mark",
"discard", "list", "sweep"},
         then : {"spawn", "select", "launch", "sweep", "return"}, to : Owner, id : TabId \cup {0},
         opt : Opens \cup {OneTab, AllTabs}, snap : [sel : TabId \cup {0}, tabs : SUBSET (Nat \X TabId \X Status)],
         left : SUBSET TabId]

(* Every variable has its type. *)
TypeOK ==
    /\ DOMAIN opened \subseteq 1..tabSeq /\ \A id \in DOMAIN opened : opened[id] \in Tab
    /\ tabSeq \in 0..MaxTabs
    /\ selected \in [Owner -> TabId \cup {0}]
    /\ shut \subseteq Owner /\ allShut \in BOOLEAN
    /\ sourceBy \subseteq Routine /\ Cardinality(sourceBy) <= 1
    /\ running \subseteq TabId /\ ending \subseteq TabId
    /\ DOMAIN strip = Owner
    /\ \A c \in Routine : doing[c] = Idle \/ doing[c] \in Step

(* Whoever closes, replaces and opens tabs meanwhile, a session's selection is *)
(* a tab of its own that is open, and it shows one file in one tab, although   *)
(* the agent and the page look for the file and open it in separate steps.     *)
SelectionIsOpen(o) == selected[o] = 0 \/ selected[o] \in OwnedIn(opened, o)
OneTabPerSource(o) ==
    \A v, w \in OwnedIn(opened, o) :
        opened[v].opt.source = opened[w].opt.source => v = w \/ opened[v].opt.source = NoSource

StripIsSound == \A o \in Owner : SelectionIsOpen(o) /\ OneTabPerSource(o)

(* No process outlives its tab, and no tab its session: a process whose tab is *)
(* gone is being stopped, and a tab still open after its session was unloaded  *)
(* is in the hands of a stop, however late the call that opened it.            *)
NoOrphanProcess ==
    \A id \in running : id \in DOMAIN opened \/ \E c \in Routine : At(c, "kill") /\ doing[c].id = id
StopReachesAll ==
    \A id \in DOMAIN opened : Closed(opened[id].owner) =>
        \E c \in Routine : doing[c] # Idle /\
            \/ At(c, "list") /\ (doing[c].opt = AllTabs \/ doing[c].to = opened[id].owner)
            \/ id \in doing[c].left

NothingOutlivesItsSession == NoOrphanProcess /\ StopReachesAll

(* The overview stays where it is: a step that leaves it open leaves it at the *)
(* left end it had, and only the end of its session takes it away.             *)
AtLeft(o) == {id \in OwnedIn(opened, o) :
                Pinned(id) /\ \A v \in OwnedIn(opened, o) : opened[id].order <= opened[v].order}

LeavesTheOverview == \A o \in Owner : AtLeft(o) \subseteq AtLeft(o)' \/ Closed(o)

OverviewStays == [][LeavesTheOverview]_tabVars

(* Once nobody is at anything, each page draws what its session has open       *)
(* (registry.go: announce "tells every page what one session has open").       *)
DrawnIsOpen == (\A c \in Routine : doing[c] = Idle) => \A o \in Owner : strip[o] = Surfaces(o)
=============================================================================
