------------------------------ MODULE AgentTree ------------------------------
(***************************************************************************)
(* The tree of agents the Overview draws (desktop/agent_events.go), read from *)
(* the hooks of one run of a runner that reports its tool calls.              *)
(*                                                                         *)
(* Every hook is a process of its own that stamps what it was told and sends    *)
(* it when it gets to it, so the tracker hears the hooks in any order, and of    *)
(* some of them never.  The first half below is the runner: what really          *)
(* happens, and the hooks it gives rise to.  The second half is the tracker,     *)
(* with one action per hook, under agentActivity.mu.                           *)
(*                                                                         *)
(* Left out: what a hook carries to be shown (tools, targets, files, tokens,     *)
(* messages), the cap of 200 records, and runners that report lifecycle only.    *)
(***************************************************************************)
EXTENDS Naturals, Sequences

CONSTANTS
    Agent,      \* delegated agents
    Type,       \* agent types
    Question,   \* calls of the ask tool
    Root,       \* the orchestrator
    None,       \* no agent
    MaxHooks,   \* bound: hooks the runner gives rise to
    MaxOther,   \* bound: those of them that are not an agent's own call, start, stop, result and report
    MaxBoth     \* bound: the two together

Asking  == "permission"     \* a need that no call answers

ASSUME NamesAssumption == Root \notin Agent /\ None \notin Agent /\ Root # None
ASSUME QuestionsAssumption == None \notin Question /\ Asking \notin Question
ASSUME HooksAssumption == MaxHooks \in Nat /\ MaxOther \in Nat /\ MaxBoth \in Nat

VARIABLES
    \* What the runner does.
    clock,      \* hooks so far, which is the time
    others,     \* hooks so far that are not an agent's own call, start, stop, result and report
    agents,     \* each agent's caller, type, whether it runs in the background, and life
    busy,       \* the root's turn is on
    asked,      \* who asked each question, if it is open
    wire,       \* hooks under way to the workbench
    \* What the tracker has made of it.
    rec,        \* the record of each agent
    spawns,     \* the Agent calls heard of, named here by the agent they make
    pending,    \* calls waiting for a child, oldest first
    turn,       \* the root's turnEnded, promptAt, stopAt and background
    needs,      \* why the root waits on the user
    seen,       \* tool calls heard of, so that a late hook of one counts for nothing
    \* What has arrived, for the properties.
    heard

runner  == <<clock, others, agents, busy, asked>>
tree    == <<rec, spawns, pending>>
state   == <<turn, needs, seen>>
vars    == <<runner, wire, tree, state, heard>>

Time    == 0..MaxHooks      \* 0 is Go's zero time
Blank   == [known |-> FALSE, live |-> FALSE, since |-> 0, finished |-> 0, resumed |-> 0,
            outcome |-> FALSE, held |-> FALSE, heldAt |-> 0,
            spawn |-> None, sure |-> FALSE, parent |-> None, placed |-> FALSE]
NoCall  == [made |-> FALSE, caller |-> None, child |-> None, sure |-> FALSE]
NoNeed  == [for |-> None, by |-> None, at |-> 0]

Lives   == {"none", "called", "running", "ended", "over", "failed"}

TypeOK ==
    /\ clock \in Time /\ others \in 0..MaxOther
    /\ agents \in [Agent -> [caller : Agent \cup {Root, None}, type : Type, async : BOOLEAN,
                             life : Lives, runs : Nat, named : BOOLEAN]]
    /\ busy \in BOOLEAN
    /\ asked \in [Question -> Agent \cup {Root, None}]
    /\ rec \in [Agent -> [known : BOOLEAN, live : BOOLEAN, since : Time, finished : Time,
                          resumed : Time, outcome : BOOLEAN, held : BOOLEAN, heldAt : Time,
                          spawn : Agent \cup {None}, sure : BOOLEAN,
                          parent : Agent \cup {Root, None}, placed : BOOLEAN]]
    /\ \A a \in Agent : rec[a].known => (rec[a].live <=> rec[a].finished = 0)
    /\ spawns \in [Agent -> [made : BOOLEAN, caller : Agent \cup {Root, None},
                             child : Agent \cup {None}, sure : BOOLEAN]]
    /\ pending \in Seq(Agent)
    /\ turn \in [ended : BOOLEAN, promptAt : Time, stopAt : Time, background : SUBSET Agent]
    /\ needs \in [for : Question \cup {None, Asking}, by : Agent \cup {Root, None}, at : Time]
    /\ seen \subseteq Question \cup Agent
    /\ heard \in [named : SUBSET Agent, told : SUBSET Agent, answered : SUBSET Question,
                  lastAt : Time, lastEnds : BOOLEAN]

Init ==
    /\ clock = 0 /\ others = 0
    /\ busy \in BOOLEAN   \* a runner may be opened with a prompt
    /\ agents \in [Agent -> [caller : {None}, type : Type, async : {FALSE}, life : {"none"},
                             runs : {0}, named : {FALSE}]]
    /\ asked = [q \in Question |-> None]
    /\ wire = {}
    /\ rec = [a \in Agent |-> Blank] /\ spawns = [a \in Agent |-> NoCall] /\ pending = <<>>
    /\ turn = [ended |-> TRUE, promptAt |-> 0, stopAt |-> 0, background |-> {}]
    /\ needs = NoNeed /\ seen = {}
    /\ heard = [named |-> {}, told |-> {}, answered |-> {}, lastAt |-> 0, lastEnds |-> TRUE]

-----------------------------------------------------------------------------
(* The runner.                                                              *)

Emit(h) ==
    /\ clock < MaxHooks
    /\ clock' = clock + 1
    /\ others' = IF \/ h.kind \in {"call", "start", "stop", "result"}
                    \/ h.kind = "prompt" /\ h.notes # {}
                  THEN others ELSE others + 1
    /\ others' <= MaxOther /\ clock' + others' <= MaxBoth
    /\ wire' = wire \cup {[at |-> clock + 1, hook |-> h]}
    /\ UNCHANGED <<tree, state, heard>>

\* An agent waits for the result of each Agent call, which a background one gives at
\* once.  Until then it does nothing but make others.
Running(p) == IF p = Root THEN busy ELSE agents[p].life = "running"
Open(a)    == agents[a].life \in {"called", "running", "ended"} /\ (agents[a].async => ~agents[a].named)
Acting(p)  == Running(p) /\ \A a \in Agent : agents[a].caller = p => ~Open(a)
Goes(a, to) == agents' = [agents EXCEPT ![a].life = to]

Calls(p, a, background) ==
    /\ Running(p) /\ agents[a].life = "none" /\ p # a
    /\ agents' = [agents EXCEPT ![a].caller = p, ![a].async = background, ![a].life = "called"]
    /\ Emit([kind |-> "call", by |-> p, call |-> a])
    /\ UNCHANGED <<busy, asked>>

Starts(a) ==
    /\ agents[a].life = "called"
    /\ agents' = [agents EXCEPT ![a].life = "running", ![a].runs = @ + 1]
    /\ Emit([kind |-> "start", by |-> a])
    /\ UNCHANGED <<busy, asked>>

\* Any other tool.
Works(p) ==
    /\ Acting(p)
    /\ Emit([kind |-> "tool", by |-> p])
    /\ UNCHANGED <<agents, busy, asked>>

Asks(p, q) ==
    /\ Acting(p) /\ asked[q] = None /\ asked' = [asked EXCEPT ![q] = p]
    /\ Emit([kind |-> "ask", by |-> p, question |-> q])
    /\ UNCHANGED <<agents, busy>>

Answered(q) ==
    /\ asked[q] # None /\ Acting(asked[q])
    /\ Emit([kind |-> "answer", by |-> asked[q], question |-> q])
    /\ UNCHANGED <<agents, busy, asked>>

NeedsPermission(p) ==
    /\ Acting(p)
    /\ Emit([kind |-> "notify", by |-> p])
    /\ UNCHANGED <<agents, busy, asked>>

Ends(a) ==
    /\ a \in Agent /\ Acting(a) /\ Goes(a, "ended")
    /\ Emit([kind |-> "stop", by |-> a])
    /\ UNCHANGED <<busy, asked>>

\* The result of an Agent call: of a background one, that the agent was launched.
Launched(a) ==
    /\ agents[a].async /\ Open(a)
    /\ agents' = [agents EXCEPT ![a].named = TRUE]
    /\ Emit([kind |-> "result", by |-> agents[a].caller, call |-> a, child |-> a, done |-> FALSE])
    /\ UNCHANGED <<busy, asked>>

Returned(a) ==
    /\ ~agents[a].async /\ agents[a].life = "ended"
    /\ agents' = [agents EXCEPT ![a].named = TRUE, ![a].life = "over"]
    /\ Emit([kind |-> "result", by |-> agents[a].caller, call |-> a, child |-> a, done |-> TRUE])
    /\ UNCHANGED <<busy, asked>>

\* A foreground call fails, at once or with its agent; the user may have interrupted.
CallFails(a, interrupt) ==
    /\ ~agents[a].async /\ agents[a].life \in {"called", "running"}
    /\ interrupt => agents[a].caller = Root
    /\ Goes(a, "failed")
    /\ busy' = (busy /\ ~interrupt)
    /\ Emit([kind |-> "failed", by |-> agents[a].caller, call |-> a, interrupt |-> interrupt])
    /\ UNCHANGED asked

\* The result of a background agent comes to its caller as a prompt.
Reports(a) ==
    LET p == agents[a].caller
    IN  /\ agents[a].named /\ agents[a].life = "ended" /\ ~Running(p)
        /\ p \in Agent => agents[p].life = "ended"
        /\ agents' = [b \in Agent |-> IF b = a THEN [agents[b] EXCEPT !.life = "over"]
                                      ELSE IF b = p THEN [agents[b] EXCEPT !.life = "running", !.runs = @ + 1]
                                      ELSE agents[b]]
        /\ busy' = (busy \/ p = Root)
        /\ Emit([kind |-> "prompt", by |-> p, notes |-> {a}])
        /\ UNCHANGED asked

\* The root sends a message to an agent that was done with.
Resumes(a) ==
    /\ Acting(Root) /\ agents[a].life = "over"
    /\ agents' = [agents EXCEPT ![a].life = "running", ![a].async = TRUE, ![a].runs = @ + 1]
    /\ Emit([kind |-> "start", by |-> a])
    /\ UNCHANGED <<busy, asked>>

Prompts ==
    /\ ~busy /\ busy' = TRUE
    /\ Emit([kind |-> "prompt", by |-> Root, notes |-> {}])
    /\ UNCHANGED <<agents, asked>>

TurnEnds ==
    /\ Acting(Root) /\ busy' = FALSE
    /\ Emit([kind |-> "turnend", tasks |-> {a \in Agent : agents[a].async /\ agents[a].life = "running"}])
    /\ UNCHANGED <<agents, asked>>

-----------------------------------------------------------------------------
(* The tracker's record of an agent.  Each operator takes the tree t, a record *)
(* of rec, spawns and pending, and gives the tree it leaves.                   *)

Tree == [rec |-> rec, spawns |-> spawns, pending |-> pending]

\* agentLocked: a placeholder for an agent whose start has not arrived.
Known(t, p, at) ==
    IF p = Root \/ t.rec[p].known THEN t
    ELSE [t EXCEPT !.rec[p] = [Blank EXCEPT !.known = TRUE, !.live = TRUE, !.since = at, !.parent = Root]]

\* Mutant: any hook returns an agent to work.
ReopenAlways(t, p, at) ==
    IF p = Root \/ t.rec[p].live THEN t
    ELSE [t EXCEPT !.rec[p] = [@ EXCEPT !.resumed = t.rec[p].finished, !.live = TRUE,
                                        !.finished = 0, !.outcome = FALSE]]

\* Mutant: it keeps the time it finished at.
ReopenFinished(t, p, at) ==
    IF p = Root \/ t.rec[p].live \/ at <= t.rec[p].finished THEN t
    ELSE [t EXCEPT !.rec[p] = [@ EXCEPT !.resumed = t.rec[p].finished, !.live = TRUE,
                                        !.outcome = FALSE]]

\* A hook stamped after the agent finished returns it to work.
Reopen(t, p, at) ==
    IF p = Root \/ t.rec[p].live \/ at <= t.rec[p].finished THEN t
    ELSE [t EXCEPT !.rec[p] = [@ EXCEPT !.resumed = t.rec[p].finished, !.live = TRUE,
                                        !.finished = 0, !.outcome = FALSE]]

\* The agent a tool hook was fired in: one that was held acts again.
Caller(t, p, at) == Reopen(Known(t, p, at), p, at)
Unheld(t, p, at) ==
    IF p = Root \/ at <= t.rec[p].heldAt THEN t ELSE [t EXCEPT !.rec[p].held = FALSE]

Stale(r, at) == r.resumed # 0 /\ at <= r.resumed

Finish(r, at) == [r EXCEPT !.live = FALSE, !.finished = IF @ = 0 THEN at ELSE @]

Outcome(t, a, at) ==
    IF Stale(t.rec[a], at) THEN t
    ELSE [t EXCEPT !.rec[a] = [Finish(@, at) EXCEPT !.outcome = TRUE]]

LiveChild(t, p) == \E a \in Agent : t.rec[a].parent = p /\ t.rec[a].live

-----------------------------------------------------------------------------
(* Placing an agent under the call that made it.                             *)

TypeOf(a) == agents[a].type

First(s, Test(_)) ==
    LET fits == {i \in DOMAIN s : Test(s[i])}
    IN  IF fits = {} THEN None ELSE s[CHOOSE i \in fits : \A j \in fits : i <= j]

Without(s, c) ==
    IF c \notin {s[i] : i \in DOMAIN s} THEN s
    ELSE LET at == CHOOSE i \in DOMAIN s : s[i] = c
         IN  [i \in 1..(Len(s) - 1) |-> IF i < at THEN s[i] ELSE s[i + 1]]

Bind(t, a, c, sure) ==
    [rec     |-> [t.rec EXCEPT ![a] = [@ EXCEPT !.spawn = c, !.sure = sure, !.placed = TRUE,
                                                !.parent = t.spawns[c].caller]],
     spawns  |-> [t.spawns EXCEPT ![c] = [@ EXCEPT !.child = a, !.sure = sure]],
     pending |-> Without(t.pending, c)]

\* spawnLocked: made by whichever of its hooks comes first.
Made(t, c, p) == [t EXCEPT !.spawns[c] = [@ EXCEPT !.made = TRUE, !.caller = p]]

\* Mutant: a call that waits takes any agent it has not made itself, placed or not.
QueueAny(t, c) ==
    LET free == {a \in Agent : t.rec[a].known /\ t.rec[a].live /\ a # t.spawns[c].caller
                               /\ TypeOf(a) = TypeOf(c)}
    IN  IF free = {} THEN [t EXCEPT !.pending = Append(@, c)]
        ELSE Bind(t, CHOOSE a \in free : \A b \in free : t.rec[a].since <= t.rec[b].since, c, FALSE)

\* queueLocked: a call waits for its child, unless one of its type is unplaced.
Queue(t, c) ==
    LET free == {a \in Agent : /\ t.rec[a].known /\ t.rec[a].live /\ t.rec[a].spawn = None
                               /\ ~t.rec[a].placed
                               /\ a # t.spawns[c].caller /\ TypeOf(a) = TypeOf(c)}
    IN  IF free = {} THEN [t EXCEPT !.pending = Append(@, c)]
        ELSE Bind(t, CHOOSE a \in free : \A b \in free : t.rec[a].since <= t.rec[b].since, c, FALSE)

\* matchLocked: the oldest call of its type, else under the root and unplaced.
Match(t, a) ==
    LET c == First(t.pending, LAMBDA d : TypeOf(d) = TypeOf(a))
    IN  IF c # None THEN Bind(t, a, c, FALSE)
        ELSE [t EXCEPT !.rec[a] = [@ EXCEPT !.parent = Root, !.placed = FALSE]]

MatchUnplaced(t, a) == IF t.rec[a].spawn = None THEN Match(t, a) ELSE t

\* Mutant: the child of a confirmed call keeps the call it was matched to first.
ConfirmKeeping(t, c, a, at) ==
    LET k == Known(t, a, at)
    IN  IF k.rec[a].spawn # None THEN k ELSE Bind(k, a, c, TRUE)

\* confirmLocked: a call's own result names its child.  A match that paired two
\* calls of one type the wrong way round is swapped back.
Confirm(t, c, a, at) ==
    LET k         == Known(t, a, at)
        old       == k.rec[a].spawn
        frees     == old \notin {None, c} /\ ~k.spawns[old].sure
        other     == k.spawns[c].child
        displaces == other \notin {None, a} /\ ~k.rec[other].sure
        freed     == IF frees THEN [k EXCEPT !.spawns[old].child = None] ELSE k
        bound     == Bind(freed, a, c, TRUE)
        loose     == [bound EXCEPT !.rec[other].spawn = None]
        swaps     == frees /\ displaces /\ TypeOf(old) = TypeOf(other)
        placed    == IF swaps THEN Bind(loose, other, old, FALSE)
                     ELSE IF displaces THEN Match(loose, other) ELSE bound
    IN  IF k.rec[a].sure /\ old = c THEN k
        ELSE IF frees /\ ~swaps THEN [placed EXCEPT !.pending = Append(@, old)]
        ELSE placed

-----------------------------------------------------------------------------
(* The root's turn, and what it needs of the user.                           *)

\* answeredLocked: the ask call returned, or the asking agent moved on.
Cleared(n, p, question, at) ==
    IF \/ n.for \in Question /\ n.for = question
       \/ n.for = Asking /\ n.by = p /\ at > n.at
    THEN NoNeed ELSE n

\* The latest prompt or turn end heard of, which the turn should follow.
Latest(at, ends) == [heard EXCEPT !.lastAt   = IF at > @ THEN at ELSE @,
                                  !.lastEnds = IF at > heard.lastAt THEN ends ELSE @]

-----------------------------------------------------------------------------
(* The tracker's hooks.                                                     *)

Takes(m, kind) == m.hook.kind = kind /\ wire' = wire \ {m} /\ UNCHANGED runner

Becomes(t) == rec' = t.rec /\ spawns' = t.spawns /\ pending' = t.pending

\* toolStartLocked, for an Agent call.
HookCall(m) ==
    LET p == m.hook.by  c == m.hook.call
        t == Made(Unheld(Caller(Tree, p, m.at), p, m.at), c, p)
    IN  /\ Takes(m, "call")
        /\ Becomes(IF t.spawns[c].child = None THEN Queue(t, c) ELSE t)
        /\ needs' = IF c \in seen THEN needs ELSE Cleared(needs, p, None, m.at)
        /\ seen' = seen \cup {c}
        /\ UNCHANGED <<turn, heard>>

\* toolStartLocked, for a tool the tree shows and no more.
HookTool(m) ==
    LET p == m.hook.by
    IN  /\ Takes(m, "tool")
        /\ Becomes(Unheld(Caller(Tree, p, m.at), p, m.at))
        /\ needs' = Cleared(needs, p, None, m.at)
        /\ UNCHANGED <<turn, seen, heard>>

\* Mutant: a question is raised whether or not its answer came first.
HookAskAgain(m) ==
    LET p == m.hook.by  q == m.hook.question
    IN  /\ Takes(m, "ask")
        /\ Becomes(Unheld(Caller(Tree, p, m.at), p, m.at))
        /\ needs' = [for |-> q, by |-> p, at |-> m.at]
        /\ seen' = seen \cup {q}
        /\ UNCHANGED <<turn, heard>>

\* toolStartLocked, for a question: not raised if its answer came first.
HookAsk(m) ==
    LET p == m.hook.by  q == m.hook.question
    IN  /\ Takes(m, "ask")
        /\ Becomes(Unheld(Caller(Tree, p, m.at), p, m.at))
        /\ needs' = IF q \in seen THEN needs ELSE [for |-> q, by |-> p, at |-> m.at]
        /\ seen' = seen \cup {q}
        /\ UNCHANGED <<turn, heard>>

\* toolEndLocked, for a question.
HookAnswer(m) ==
    LET p == m.hook.by  q == m.hook.question
    IN  /\ Takes(m, "answer")
        /\ Becomes(Caller(Tree, p, m.at))
        /\ needs' = Cleared(needs, p, q, m.at)
        /\ seen' = seen \cup {q}
        /\ heard' = [heard EXCEPT !.answered = @ \cup {q}]
        /\ UNCHANGED turn

\* toolEndLocked, for an Agent call that names its child.
HookResult(m) ==
    LET p == m.hook.by  c == m.hook.call  a == m.hook.child
        t == Confirm(Made(Caller(Tree, p, m.at), c, p), c, a, m.at)
    IN  /\ Takes(m, "result")
        /\ Becomes(IF m.hook.done THEN Outcome(t, a, m.at) ELSE t)
        /\ needs' = Cleared(needs, p, None, m.at)
        /\ heard' = [heard EXCEPT !.named = @ \cup {a},
                                  !.told  = IF m.hook.done THEN @ \cup {a} ELSE @]
        /\ seen' = seen \cup {c}
        /\ UNCHANGED turn

\* toolEndLocked, for an Agent call that failed, with the child matched to it.
HookFailed(m) ==
    LET p == m.hook.by
        t == Caller(Tree, p, m.at)
        a == t.spawns[m.hook.call].child
        interrupts == m.hook.interrupt /\ m.at >= turn.promptAt
    IN  /\ Takes(m, "failed")
        /\ Becomes(IF a # None /\ t.rec[a].live
                   THEN [t EXCEPT !.rec[a] = [@ EXCEPT !.live = FALSE, !.finished = m.at]] ELSE t)
        /\ needs' = Cleared(needs, p, None, m.at)
        /\ turn' = IF interrupts THEN [turn EXCEPT !.ended = TRUE, !.stopAt = m.at] ELSE turn
        /\ seen' = seen \cup {m.hook.call}
        /\ heard' = IF m.hook.interrupt THEN Latest(m.at, TRUE) ELSE heard

HookStart(m) ==
    LET a == m.hook.by
        t == Caller(Tree, a, m.at)
    IN  /\ Takes(m, "start")
        /\ Becomes(MatchUnplaced([t EXCEPT !.rec[a].since = IF m.at < @ THEN m.at ELSE @], a))
        /\ UNCHANGED <<state, heard>>

\* Mutant: an agent stops although its own children still run.
HookStopAll(m) ==
    LET a == m.hook.by
        t == Known(Tree, a, m.at)
    IN  /\ Takes(m, "stop")
        /\ Becomes(IF Stale(t.rec[a], m.at) THEN t
                   ELSE [MatchUnplaced(t, a) EXCEPT !.rec[a] = Finish(@, m.at)])
        /\ UNCHANGED <<state, heard>>

\* subagentStopLocked: an agent whose own children still run is held, not done.
HookStop(m) ==
    LET a == m.hook.by
        t == Known(Tree, a, m.at)
        p == MatchUnplaced(t, a)
    IN  /\ Takes(m, "stop")
        /\ Becomes(IF Stale(t.rec[a], m.at) THEN t
                   ELSE IF p.rec[a].live /\ LiveChild(p, a)
                   THEN [p EXCEPT !.rec[a] = [@ EXCEPT !.held = TRUE, !.heldAt = m.at]]
                   ELSE [p EXCEPT !.rec[a] = [Finish(@, m.at) EXCEPT !.held = FALSE]])
        /\ UNCHANGED <<state, heard>>

\* taskNotificationLocked: how a spawned agent ended, as the harness reports it.
Reported(t, a, at) ==
    IF t.spawns[a].made THEN Outcome(Confirm(t, a, a, at), a, at)
    ELSE IF t.rec[a].known THEN Outcome(t, a, at) ELSE t

\* promptLocked, with the results the prompt carries.
HookPrompt(m) ==
    LET t == IF m.hook.notes = {} THEN Tree ELSE Reported(Tree, CHOOSE a \in m.hook.notes : TRUE, m.at)
        begins == m.hook.by = Root /\ m.at >= turn.stopAt
        reported == [turn EXCEPT !.background = @ \ m.hook.notes]
    IN  /\ Takes(m, "prompt")
        /\ Becomes(t)
        /\ turn' = IF begins THEN [reported EXCEPT !.ended = FALSE, !.promptAt = m.at] ELSE reported
        /\ needs' = IF begins THEN NoNeed ELSE needs
        /\ heard' = [(IF m.hook.by = Root THEN Latest(m.at, FALSE) ELSE heard)
                        EXCEPT !.told = @ \cup {a \in m.hook.notes : t.rec[a].known}]
        /\ UNCHANGED seen

\* stopLocked: the root's own turn end.
HookTurnEnd(m) ==
    /\ Takes(m, "turnend")
    /\ IF m.at < turn.promptAt THEN UNCHANGED <<turn, needs>>
       ELSE /\ turn' = [turn EXCEPT !.ended = TRUE, !.stopAt = m.at,
                                    !.background = {a \in m.hook.tasks : ~rec[a].outcome}]
            /\ needs' = NoNeed
    /\ heard' = Latest(m.at, TRUE)
    /\ UNCHANGED <<tree, seen>>

\* needsLocked, for a permission prompt: the root shows it, whoever raised it.
HookNotify(m) ==
    /\ Takes(m, "notify")
    /\ Becomes(Known(Tree, m.hook.by, m.at))
    /\ needs' = [for |-> Asking, by |-> m.hook.by, at |-> m.at]
    /\ UNCHANGED <<turn, seen, heard>>

Hears(m) ==
    \/ HookCall(m) \/ HookTool(m) \/ HookAsk(m) \/ HookAnswer(m) \/ HookResult(m)
    \/ HookFailed(m) \/ HookStart(m) \/ HookStop(m) \/ HookPrompt(m) \/ HookTurnEnd(m)
    \/ HookNotify(m)

Next ==
    \/ \E p \in Agent \cup {Root} :
          \/ \E a \in Agent, background \in BOOLEAN : Calls(p, a, background)
          \/ Works(p) \/ NeedsPermission(p) \/ Ends(p)
          \/ \E q \in Question : Asks(p, q)
    \/ \E q \in Question : Answered(q)
    \/ \E a \in Agent : \/ Starts(a) \/ Launched(a) \/ Returned(a) \/ Reports(a) \/ Resumes(a)
                        \/ \E interrupt \in BOOLEAN : CallFails(a, interrupt)
    \/ Prompts \/ TurnEnds
    \/ \E m \in wire : Hears(m)

Spec == Init /\ [][Next]_vars

-----------------------------------------------------------------------------
(* What the tree promises, in whatever order the hooks arrive.                *)

\* Calls and children are paired one to one, and a call waits for a child exactly
\* while it has none.
PairedOnce ==
    /\ \A a \in Agent, c \in Agent : spawns[c].child = a <=> rec[a].spawn = c
    /\ {pending[i] : i \in DOMAIN pending} = {c \in Agent : spawns[c].made /\ spawns[c].child = None}
    /\ \A i \in DOMAIN pending, j \in DOMAIN pending : pending[i] = pending[j] => i = j

\* Once a call's own result has named its child, the child stays under the agent
\* that made the call, whatever it was matched to before or is heard of later.
NamedStays ==
    \A a \in heard.named : rec[a].sure /\ rec[a].spawn = a /\ rec[a].parent = agents[a].caller

\* An agent whose outcome has been told stays done, whichever of its hooks are
\* still to come, unless it went on working (or a call failed, which may be blamed
\* on the wrong agent).
ToldStaysDone ==
    (\A a \in Agent : agents[a].life # "failed") =>
        \A a \in heard.told : agents[a].runs = 1 => ~rec[a].live

\* A stop alone never finishes an agent whose own children still run.
WaitsForChildren ==
    \A a \in Agent : rec[a].live /\ ~rec'[a].live /\ LiveChild(Tree, a) /\ LiveChild(Tree, a)'
        => a \in heard'.told \/ \E c \in Agent : agents[c].life = "failed"

OutlivesChildren == [][WaitsForChildren]_vars

\* An answered question is not put before the user again.
AnsweredStaysAnswered == needs.for \notin heard.answered

\* "A stop or prompt older than the latest of the other is stale": the turn is over
\* if and only if the latest of the prompts and turn ends heard of ended one.
TurnIsLatest == turn.ended = heard.lastEnds
=============================================================================
